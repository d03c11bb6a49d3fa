----------------------------- MODULE DebugLink -----------------------------
(***************************************************************************)
(* The debug operations of bitbang_rvswdio.h and ch5xx.c, and the cache    *)
(* they keep of what the target's debug module was last told.              *)
(*                                                                         *)
(* To move a word, the programmer loads a short RISC-V program into the    *)
(* debug module's program buffer, points x10..x13 at the mailbox words     *)
(* DATA0/DATA1 and at the flash controller, and lets the target run it.    *)
(* Doing all of that for each word is slow, so statetag remembers which    *)
(* program is loaded, currentstateval where its cursor (DATA1) stands and, *)
(* on most chips, ABSTRACTAUTO makes every access of DATA0 run the program *)
(* once more: a read leaves the next word prefetched in DATA0.             *)
(*                                                                         *)
(* Each API call is an operator from the device (struct SWIOState and the  *)
(* target behind it) to the device afterwards, so that longer operations   *)
(* can be composed of them; one task makes all the calls, so the actions   *)
(* are whole calls.  Addresses count words; a byte operation is one on the *)
(* word that holds the byte.                                               *)
(*                                                                         *)
(* A definition marked "slip" is a likely mistake in the operator after it *)
(* and is part of no behaviour: with it in the operator's place, TLC finds *)
(* one of the properties violated.                                         *)
(***************************************************************************)
EXTENDS Integers

CONSTANTS
  AddrSpace,     \* number of words of the address space, which wraps around
  FlashAddrs,    \* addresses WriteWord takes for flash (is_flash)
  StatusAddrs,   \* FLASH_CTLR and FLASH_STATR: read without autoincrement
  ClockAddr,     \* a clock register of the CH5xx, set on detection
  Unmapped,      \* addresses at which the target's load or store traps
  Words,         \* what a memory word may hold
  Kinds,         \* enum RiscVChip without CHIP_UNKNOWN
  ManualKinds,   \* the kinds for which detection sets no_autoexec
  TwoWireKinds,  \* the kinds reached over RVSWD
  ClockedKinds,  \* the kinds whose clock detection sets (CH5xx)
  Glitches,      \* what may go wrong on the wire, see below
  Uses,          \* what the host and its user do besides reading and writing
  Junk           \* a value the model does not track

Addr == 0 .. AddrSpace - 1
After(a) == (a + 1) % AddrSpace
Value == Words \cup {Junk}
Unknown == "unknown"                                         \* CHIP_UNKNOWN
Chips == Kinds \cup {Unknown}

ASSUME DebugLinkAssumption ==
  /\ AddrSpace \in Nat \ {0}
  /\ FlashAddrs \subseteq Addr /\ StatusAddrs \subseteq Addr
  /\ ClockAddr \in Addr \ StatusAddrs
  /\ Unmapped \subseteq Addr
  /\ ManualKinds \subseteq Kinds /\ ClockedKinds \subseteq Kinds
  /\ TwoWireKinds \subseteq Kinds
  /\ Unknown \notin Kinds
  /\ Junk \notin Words /\ Junk \notin Addr

-----------------------------------------------------------------------------
(***************************************************************************)
(* The target, as the programmer's code uses it.  pb is the program        *)
(* buffer: slots 0 to 2 are PROGBUF0 to PROGBUF2, slot 3 the words after   *)
(* them.  A slot names the instructions it holds; the tail of the flash    *)
(* program differs from chip to chip and is named by the chip.             *)
(***************************************************************************)
FlashTags == {"FBEG", "FEND", "FOUT", "FLIN"}
SequenceTags == {"RDSQ", "WRSQ"}
SafeTags == {"5WBS", "5WHS"}
Tags == {"none", "XXXX", "TERM"} \cup SequenceTags \cup SafeTags \cup FlashTags

Registers == {"x10", "x11", "x12", "x13"}
RegisterValues ==
  {"DATA0", "DATA1", "STATR", "PG_BUFLOAD", "FLASH", "SAFE", "other"}
Code == {"lw_addr", "inc", "keep", "sw_addr", "lw_both", "store", "end", "wait",
         "lb", "sb", "safe", "other"} \cup Tags \cup Chips

Target ==
  [pb: [0 .. 3 -> Code], auto: BOOLEAN, cmd: {"run", "transfer"},
   d0: Value, d1: Addr \cup {Junk}, x: [Registers -> RegisterValues],
   err: BOOLEAN, halted: BOOLEAN, stray: BOOLEAN,
   kind: Kinds, mem: [Addr -> Value]]

MailboxSet(t) == t.x["x10"] = "DATA0" /\ t.x["x11"] = "DATA1"
FlashSet(t) == t.x["x12"] = "STATR" /\ t.x["x13"] = "PG_BUFLOAD"
ReadLoaded(t, step) ==
  t.pb[0] = "lw_addr" /\ t.pb[1] = step /\ t.pb[2] = "sw_addr" /\ MailboxSet(t)
StoreLoaded(t, tail) ==
  t.pb[0] = "lw_both" /\ t.pb[1] = "store" /\ t.pb[2] = tail /\ MailboxSet(t)

Reads(t) == ReadLoaded(t, "inc") \/ ReadLoaded(t, "keep")
Stores(t) == StoreLoaded(t, "end") \/ (StoreLoaded(t, "wait") /\ FlashSet(t))

\* One run of the loaded sequence program.  A trap sets cmderr and leaves the
\* mailbox alone; a program that nobody meant to run is recorded as stray.
RunSequence(t) ==
  IF t.err \/ ~t.halted THEN [t EXCEPT !.err = TRUE]
  ELSE IF ~Reads(t) /\ ~Stores(t) THEN [t EXCEPT !.err = TRUE, !.stray = TRUE]
  ELSE IF t.d1 \notin Addr \ Unmapped THEN [t EXCEPT !.err = TRUE]
  ELSE IF Reads(t)
       THEN [t EXCEPT !.d0 = t.mem[t.d1],
                      !.d1 = IF t.pb[1] = "inc" THEN After(t.d1) ELSE t.d1]
       ELSE [t EXCEPT !.mem[t.d1] = t.d0, !.d1 = After(t.d1)]

\* DMCOMMAND is ignored while cmderr is set.
Execute(t) == IF t.err THEN t ELSE RunSequence([t EXCEPT !.cmd = "run"])
Transfer(t, x) ==
  IF t.err \/ ~t.halted THEN [t EXCEPT !.err = TRUE]
  ELSE [t EXCEPT !.x = x, !.cmd = "transfer"]

\* ABSTRACTAUTO repeats the last command at every access of DATA0; the chips
\* detection marks no_autoexec do not have it.
Repeat(t) == IF t.auto /\ t.cmd = "run" THEN RunSequence(t) ELSE t
PutData0(t, v) == Repeat([t EXCEPT !.d0 = v])
SetAuto(t, on) == [t EXCEPT !.auto = on /\ t.kind \notin ManualKinds]

-----------------------------------------------------------------------------
(***************************************************************************)
(* struct SWIOState, the target t behind it, and two ghosts.  setup: the   *)
(* debug module and x10..x13 are as the operation that set statetag left   *)
(* them.  sync: nothing went wrong since the cursor was last written.      *)
(***************************************************************************)
Device ==
  [statetag: Tags, currentstateval: Addr \cup {-1}, autoincrement: BOOLEAN,
   lastwriteflags: BOOLEAN, no_autoexec: BOOLEAN, target_chip_type: Chips,
   opmode: BOOLEAN,   \* an interface to the target was found
   t: Target, setup: BOOLEAN, sync: BOOLEAN]

\* What a call returns: the device afterwards, its status, the word it read,
\* and (ghost) whether the cursor was known to be right when it was used.
Statuses == {"ok", "fault", "link", "refused"}
Result(d, status, word, exact) ==
  [dev |-> d, status |-> status, word |-> word, exact |-> exact]

\* A read over the wire may fail: of DMHARTINFO, of DMABSTRACTCS, or of DATA0,
\* where the target may or may not have seen the access.
ASSUME GlitchAssumption ==
  /\ "none" \in Glitches
  /\ Glitches \subseteq {"none", "hartinfo", "wait", "data_lost", "data_late"}

\* WaitForDoneOp: the status, and cmderr cleared once it has been seen.
DoneStatus(t, glitch) ==
  IF glitch = "wait" THEN "link" ELSE IF t.err THEN "fault" ELSE "ok"
DoneTarget(t, glitch) ==
  IF glitch = "wait" THEN t ELSE [t EXCEPT !.err = FALSE]

StaticRegisters(ok) ==
  [r \in Registers |->
     CASE r = "x10" -> IF ok THEN "DATA0" ELSE "other"
       [] r = "x11" -> IF ok THEN "DATA1" ELSE "other"
       [] r = "x12" -> "STATR"
       [] OTHER     -> "PG_BUFLOAD"]

\* The device does not use autoexec on a chip that lacks it.
AutoUsable(d) == d.t.kind \in ManualKinds => d.no_autoexec

\* StaticUpdatePROGBUFRegs once the chip is identified: its read of DMHARTINFO
\* is not checked.  A pending cmderr keeps the registers as they were, which is
\* right if a sequence had set them.
StaticUpdate(d, glitch) ==
  LET t == Transfer(PutData0(SetAuto(d.t, FALSE), Junk),
                    StaticRegisters(glitch # "hartinfo"))
  IN  [d EXCEPT !.t = t,
                !.setup = IF t.err THEN @ /\ d.statetag \in SequenceTags
                          ELSE glitch # "hartinfo" /\ AutoUsable(d)]

\* ReadWord keeps the registers only when it replaces the store program: to add or
\* drop the step of its own program it sets them anew.
ReadReady(d, glitch) == IF d.statetag = "WRSQ" THEN d ELSE StaticUpdate(d, glitch)

\* WriteWord keeps those of either sequence.
StoreReady(d, glitch) ==
  IF d.statetag \in SequenceTags THEN d ELSE StaticUpdate(d, glitch)

-----------------------------------------------------------------------------
\* ReadWord's autoincrement: not when a flash status register is polled.
Steps(a) == a \notin StatusAddrs

\* Slip: autoincrement is not remembered.
WithReadProgramForgetful(s, inc) ==
  [s EXCEPT !.t = SetAuto([s.t EXCEPT !.pb[0] = "lw_addr",
                                      !.pb[1] = IF inc THEN "inc" ELSE "keep",
                                      !.pb[2] = "sw_addr"],
                          ~s.no_autoexec)]

\* ReadWord's program, with or without a step of the cursor.
WithReadProgram(s, inc) ==
  [s EXCEPT !.autoincrement = inc,
            !.t = SetAuto([s.t EXCEPT !.pb[0] = "lw_addr",
                                      !.pb[1] = IF inc THEN "inc" ELSE "keep",
                                      !.pb[2] = "sw_addr"],
                          ~s.no_autoexec)]

\* ReadWord: load the program if another one (or the other step) is loaded.
LoadRead(d, inc, glitch) ==
  IF d.statetag = "RDSQ" /\ inc = d.autoincrement THEN d
  ELSE WithReadProgram(ReadReady(d, glitch), inc)

\* The cursor in the target written, and the first word fetched.
Pointed(s, a) ==
  LET u == [s.t EXCEPT !.d1 = a]
  IN  [s EXCEPT !.statetag = "RDSQ", !.currentstateval = a, !.sync = TRUE,
                !.t = IF s.no_autoexec THEN u ELSE Execute(u)]

\* Slips: the cursor is not remembered; the address is not compared.
PointReadForgetful(d, a, inc, glitch) ==
  IF d.statetag = "RDSQ" /\ inc = d.autoincrement /\ a = d.currentstateval THEN d
  ELSE [Pointed(LoadRead(d, inc, glitch), a) EXCEPT !.currentstateval = d.currentstateval]
PointReadOnce(d, a, inc, glitch) ==
  IF d.statetag = "RDSQ" /\ inc = d.autoincrement THEN d
  ELSE Pointed(LoadRead(d, inc, glitch), a)

\* ReadWord: write the cursor unless the word asked for is the one already prefetched.
PointRead(d, a, inc, glitch) ==
  IF d.statetag = "RDSQ" /\ inc = d.autoincrement /\ a = d.currentstateval THEN d
  ELSE Pointed(LoadRead(d, inc, glitch), a)

\* WaitForDoneOp and the read of DATA0, after s has run its program and left the
\* target u.
Answer(s, u, glitch) ==
  IF DoneStatus(u, glitch) # "ok"
  THEN Result([s EXCEPT !.t = DoneTarget(u, glitch), !.sync = FALSE],
              DoneStatus(u, glitch), Junk, FALSE)
  ELSE IF glitch \in {"data_lost", "data_late"}
  THEN Result([s EXCEPT !.t = IF glitch = "data_late" THEN Repeat(u) ELSE u,
                        !.sync = FALSE], "link", Junk, FALSE)
  ELSE Result([s EXCEPT !.t = Repeat(u), !.sync = @ /\ ~Repeat(u).err],
              "ok", u.d0, s.setup /\ s.sync)

\* currentstateval advances before anything can fail.
Fetch(p, inc, glitch) ==
  Answer([p EXCEPT !.currentstateval = IF inc THEN After(@) ELSE @],
         IF p.no_autoexec THEN Execute(p.t) ELSE p.t, glitch)

ReadWordKnown(d, a, glitch) ==
  LET inc == Steps(a)
  IN  Fetch(PointRead(d, a, inc, glitch), inc, glitch)

\* WriteWord: the flash tail, which waits for the flash controller of the chip,
\* and the plain tail replace one another in place.
LoadTail(t, chip, flash) ==
  IF flash THEN [t EXCEPT !.pb[2] = "wait", !.pb[3] = chip]
  ELSE [t EXCEPT !.pb[2] = "end"]

\* Slip: autoexec stays on while the store is set up after a read.
LoadStoreWithAuto(d, flash, glitch) ==
  LET s == StoreReady(d, glitch)
  IN  [s EXCEPT !.t.pb = [s.t.pb EXCEPT ![0] = "lw_both", ![1] = "store",
                                        ![2] = IF flash THEN "wait" ELSE "end",
                                        ![3] = IF flash THEN s.target_chip_type ELSE @]]

\* WriteWord's program, its first part kept if it is there.
WithStoreProgram(s, flash) ==
  LET u == IF s.statetag = "WRSQ" THEN s.t
           ELSE [s.t EXCEPT !.pb[0] = "lw_both", !.pb[1] = "store"]
  IN  [s EXCEPT !.t = LoadTail(u, s.target_chip_type, flash)]

LoadStore(d, flash, glitch) ==
  WithStoreProgram(IF d.statetag = "WRSQ" THEN d
                   ELSE StoreReady([d EXCEPT !.t = SetAuto(d.t, FALSE)], glitch),
                   flash)

\* The store program is loaded, with the tail this address needs.
StoreHits(d, flash) == d.statetag = "WRSQ" /\ flash = d.lastwriteflags

\* currentstateval after the store.  A hit writes the cursor when the address is
\* not the next one, but currentstateval advances from where it stood all the same.
NextCursor(d, a, flash) ==
  After(IF StoreHits(d, flash) THEN d.currentstateval ELSE a)

\* Slip: statetag still names the read program after a store.
WriteWordUntagged(d, a, v, glitch) ==
  LET flash == a \in FlashAddrs
      s == LoadStore(d, flash, glitch)
      w == PutData0([s.t EXCEPT !.d1 = a], v)
      u == IF s.no_autoexec THEN Execute(w)
           ELSE IF d.statetag # "WRSQ" THEN SetAuto(Execute(w), TRUE) ELSE w
  IN  Result([s EXCEPT !.lastwriteflags = flash, !.currentstateval = After(a),
                       !.sync = ~u.err, !.t = u], "ok", v, s.setup /\ ~u.err)

\* The target after DATA1 (unless the cursor is there) and DATA0 have been
\* written to s, which is d with the program loaded.
RunStore(d, s, a, v) ==
  LET p == [s.t EXCEPT !.d1 = IF StoreHits(d, a \in FlashAddrs) /\ a = d.currentstateval
                              THEN @ ELSE a]
      w == PutData0(p, v)
  IN  IF s.no_autoexec THEN Execute(w)
      ELSE IF d.statetag # "WRSQ" THEN SetAuto(Execute(w), TRUE)
      ELSE w

StoreResult(d, s, u, a, v, glitch) ==
  LET flash == a \in FlashAddrs
      hit == StoreHits(d, flash)
  IN  Result([s EXCEPT !.statetag = "WRSQ", !.lastwriteflags = flash,
                       !.currentstateval = NextCursor(d, a, flash),
                       !.sync = ~u.err /\ (hit => d.sync /\ a = d.currentstateval),
                       !.t = IF flash THEN DoneTarget(u, glitch) ELSE u],
             IF flash THEN DoneStatus(u, glitch) ELSE "ok",
             v, s.setup /\ ~u.err /\ (hit /\ a = d.currentstateval => d.sync))

WriteWordKnown(d, a, v, glitch) ==
  LET s == IF StoreHits(d, a \in FlashAddrs) THEN d
           ELSE LoadStore(d, a \in FlashAddrs, glitch)
  IN  StoreResult(d, s, RunStore(d, s, a, v), a, v, glitch)

-----------------------------------------------------------------------------
\* Slip: the program is thought to be loaded since the last byte operation.
LoadByteOnce(d, instruction) ==
  LET u == IF d.statetag = "XXXX" THEN d.t
           ELSE [d.t EXCEPT !.pb[0] = instruction, !.pb[1] = "end"]
  IN  PutData0(SetAuto(u, FALSE), Junk)

\* The byte operations load their program and its address register on every
\* call: nothing of what was set up before is relied upon.
LoadByte(d, instruction) ==
  PutData0([SetAuto(d.t, FALSE) EXCEPT !.pb[0] = instruction, !.pb[1] = "end"], Junk)

RunByte(t, a) ==
  IF t.err \/ ~t.halted THEN [t EXCEPT !.err = TRUE]
  ELSE IF t.pb[0] \notin {"lb", "sb"} \/ t.pb[1] # "end"
  THEN [t EXCEPT !.err = TRUE, !.stray = TRUE]
  ELSE IF a \in Unmapped THEN [t EXCEPT !.err = TRUE, !.cmd = "run"]
  ELSE IF t.pb[0] = "lb" THEN [t EXCEPT !.d0 = t.mem[a], !.cmd = "transfer"]
  ELSE [t EXCEPT !.mem[a] = t.d0, !.cmd = "transfer"]

ReadByteOf(d, a, glitch) ==
  LET u == RunByte(LoadByte(d, "lb"), a)
      done == DoneStatus(u, glitch)
      lost == glitch \in {"data_lost", "data_late"}
  IN  Result([d EXCEPT !.statetag = "XXXX", !.currentstateval = -1, !.setup = TRUE,
                       !.sync = FALSE, !.t = DoneTarget(u, glitch)],
             IF done = "ok" /\ lost THEN "link" ELSE done,
             IF lost THEN Junk ELSE u.d0, TRUE)

\* Slip: the address goes through DATA0 after the byte instead of before it.
WriteByteSwapped(d, a, v, glitch) ==
  LET u == RunByte(PutData0(PutData0(LoadByte(d, "sb"), v), a), a)
  IN  Result([d EXCEPT !.statetag = "XXXX", !.currentstateval = -1, !.setup = TRUE,
                       !.sync = FALSE, !.t = DoneTarget(u, glitch)],
             DoneStatus(u, glitch), v, TRUE)

WriteByteOf(d, a, v, glitch) ==
  LET u == RunByte(PutData0(LoadByte(d, "sb"), v), a)
  IN  Result([d EXCEPT !.statetag = "XXXX", !.currentstateval = -1, !.setup = TRUE,
                       !.sync = FALSE, !.t = DoneTarget(u, glitch)],
             DoneStatus(u, glitch), v, TRUE)

\* ch5xx_write_safe, mode 0 (byte) or 1 (half word): the unlocking program is
\* loaded anew on every call, its store only when the mode changes.
RunSafe(t, a, v, store) ==
  IF t.err \/ ~t.halted THEN [t EXCEPT !.err = TRUE]
  ELSE IF t.pb[3] # store \/ t.x["x13"] # "SAFE"
  THEN [t EXCEPT !.err = TRUE, !.stray = TRUE]
  ELSE IF a \in Unmapped THEN [t EXCEPT !.err = TRUE, !.cmd = "run"]
  ELSE [t EXCEPT !.mem[a] = v, !.cmd = "run"]

WriteSafe(d, a, v, store, glitch) ==
  LET l == [PutData0(SetAuto(d.t, FALSE), Junk)
              EXCEPT !.pb[0] = "safe", !.pb[1] = "safe", !.pb[2] = "safe"]
      s == IF d.statetag = store THEN l ELSE [l EXCEPT !.pb[3] = store]
      u == RunSafe(Transfer(s, [s.x EXCEPT !["x12"] = "other", !["x13"] = "SAFE"]),
                   a, v, store)
  IN  Result([d EXCEPT !.statetag = store, !.currentstateval = -1, !.sync = FALSE,
                       !.setup = d.statetag = store => @,
                       !.t = DoneTarget(u, glitch)],
             "ok", v, FALSE)

-----------------------------------------------------------------------------
\* InitializeSWDSWIO: the chip is forgotten, the cache kept; only the attempt
\* over RVSWD clears cmderr, and of its three bits only two (0x08000302): a trap
\* is cleared, an access to a running hart is not.
InitializeSWDSWIOOf(d, found, trap) ==
  LET clears == found /\ trap /\ d.t.kind \in TwoWireKinds
  IN  [d EXCEPT !.target_chip_type = Unknown, !.opmode = found,
                !.t.err = IF clears THEN FALSE ELSE @]

\* DetermineChipTypeAndSectorInfo: find the interface if there is none, halt the
\* chip, probe its identification registers, clear cmderr and put DATA0 back;
\* DATA0 is saved before autoexec is disabled.
Failures == {"not_found", "no_hart_info"}
Outcomes == Failures \cup
  {"unrecognised", "clock_kept", "clock_byte", "clock_half", "clock_and_watchdog"}

Attach(d, outcome) ==
  IF d.opmode THEN d ELSE InitializeSWDSWIOOf(d, outcome # "not_found", TRUE)

\* Slip: statetag still names the program the probe replaced.
ProbeUntagged(d, recognised) ==
  LET u == [Repeat([d.t EXCEPT !.halted = TRUE])
              EXCEPT !.auto = FALSE, !.err = FALSE, !.cmd = "transfer",
                     !.pb[0] = "other", !.pb[1] = "end", !.d0 = d.t.d0]
  IN  [d EXCEPT !.t = u, !.target_chip_type = IF recognised THEN u.kind ELSE @]

Probe(d, recognised) ==
  LET r == Repeat([d.t EXCEPT !.halted = TRUE])
      u == [r EXCEPT !.auto = FALSE, !.err = FALSE, !.cmd = "transfer",
                     !.pb[0] = "other", !.pb[1] = "end", !.d0 = d.t.d0]
      s == [d EXCEPT !.statetag = "XXXX", !.setup = TRUE, !.t = u]
  IN  IF recognised
      THEN [s EXCEPT !.target_chip_type = u.kind,
                     !.no_autoexec = @ \/ u.kind \in ManualKinds]
      ELSE s

\* ch5xx_set_clock( dev, 0 ), which ends the identification of a CH5xx: how it
\* goes depends on the chip and on its clock; ClockAddr stands for all the
\* registers it writes.
ClockWritten(b, outcome) ==
  CASE outcome = "clock_half" -> WriteSafe(b, ClockAddr, Junk, "5WHS", "none").dev
    [] outcome = "clock_and_watchdog" -> WriteWordKnown(b, ClockAddr, Junk, "none").dev
    [] OTHER -> b

SetClock(d, outcome) ==
  LET r == ReadWordKnown(d, ClockAddr, "none").dev
  IN  IF outcome \in {"clock_byte", "clock_half", "clock_and_watchdog"}
      THEN ClockWritten(WriteSafe(r, ClockAddr, Junk, "5WBS", "none").dev, outcome)
      ELSE r

Identify(d, outcome) ==
  LET s == Attach(d, outcome)
      p == Probe(s, outcome # "unrecognised")
  IN  IF outcome \in Failures THEN s
      ELSE IF outcome # "unrecognised" /\ p.t.kind \in ClockedKinds
           THEN SetClock(p, outcome)
      ELSE p

\* Only a call that sets up the registers, of a device whose chip is not known,
\* identifies it first; the set-up then starts over.
ReadNeedsChip(d, a) ==
  /\ d.target_chip_type = Unknown
  /\ d.statetag # "WRSQ" /\ (d.statetag = "RDSQ" => Steps(a) # d.autoincrement)
StoreNeedsChip(d) == d.target_chip_type = Unknown /\ d.statetag \notin SequenceTags
Identified(d, needed, outcome) ==
  IF needed THEN [Identify(d, outcome) EXCEPT !.statetag = "XXXX"] ELSE d

\* With no interface nothing is sent, but the cache is kept as if it had been.
Sent(d, r, status) ==
  IF d.opmode THEN r
  ELSE Result([r.dev EXCEPT !.t = d.t, !.setup = FALSE, !.sync = FALSE],
              status, Junk, FALSE)

\* The chip cannot be identified: the call gives up.
GivesUp(needed, outcome) == needed /\ outcome \in Failures
Refused(d, outcome) == Result(Identify(d, outcome), "refused", Junk, FALSE)

ReadWordOf(d, a, outcome, glitch) ==
  LET s == Identified(d, ReadNeedsChip(d, a), outcome)
  IN  IF GivesUp(ReadNeedsChip(d, a), outcome) THEN Refused(d, outcome)
      ELSE Sent(s, ReadWordKnown(s, a, glitch), "link")

\* WriteWord disables autoexec before it identifies the chip.
WriteWordOf(d, a, v, outcome, glitch) ==
  LET q == IF StoreNeedsChip(d) /\ d.opmode THEN [d EXCEPT !.t = SetAuto(d.t, FALSE)]
           ELSE d
      s == Identified(q, StoreNeedsChip(d), outcome)
  IN  IF GivesUp(StoreNeedsChip(d), outcome) THEN Refused(q, outcome)
      ELSE Sent(s, WriteWordKnown(s, a, v, glitch),
                IF a \in FlashAddrs THEN "link" ELSE "ok")

-----------------------------------------------------------------------------
\* Slip: any program of the CH5xx is thought to have set x13.
LoadFlashAfterSafe(d, op) ==
  LET u == PutData0(SetAuto(d.t, FALSE), Junk)
      l == IF d.statetag \in FlashTags \cup SafeTags THEN d.t
           ELSE Transfer(u, [u.x EXCEPT !["x13"] = "FLASH"])
  IN  [d EXCEPT !.statetag = op, !.setup = @ /\ ~l.err,
                !.t = [l EXCEPT !.pb = [i \in 0 .. 3 |-> op]]]

\* ch5xx_flash_begin, _end, _out and _in: the four programs share x13.
LoadFlash(d, op) ==
  LET l == IF d.statetag \in FlashTags THEN d.t
           ELSE LET u == PutData0(SetAuto(d.t, FALSE), Junk)
                IN  Transfer(u, [u.x EXCEPT !["x13"] = "FLASH"])
  IN  [d EXCEPT !.statetag = op,
                !.setup = IF d.statetag \in FlashTags THEN @ ELSE ~l.err,
                !.t = IF d.statetag = op THEN l
                      ELSE [l EXCEPT !.pb = [i \in 0 .. 3 |-> op]]]

RunFlash(t, op) ==
  IF t.err \/ ~t.halted THEN [t EXCEPT !.err = TRUE]
  ELSE IF t.x["x13"] # "FLASH" \/ \E i \in 0 .. 3 : t.pb[i] # op
  THEN [t EXCEPT !.err = TRUE, !.stray = TRUE]
  ELSE [t EXCEPT !.cmd = "run"]

FlashOp(d, op, glitch) ==
  LET l == LoadFlash(d, op)
      p == IF op \in {"FBEG", "FOUT"} THEN PutData0(l.t, Junk) ELSE l.t
      u == RunFlash(p, op)
  IN  IF op # "FLIN" THEN Result([l EXCEPT !.t = u], "ok", Junk, FALSE)
      ELSE Result([l EXCEPT !.t = IF DoneStatus(u, glitch) = "ok"
                                  THEN [u EXCEPT !.d0 = Junk, !.cmd = "transfer"]
                                  ELSE DoneTarget(u, glitch)],
                  DoneStatus(u, glitch), Junk, FALSE)

\* PollTerminal: the mailbox is shared with the program running on the target,
\* which may have changed it; the acknowledgement may write both words.
PollTerminalOf(d, ack, both) ==
  LET u == IF d.statetag = "TERM" THEN d.t ELSE SetAuto(d.t, FALSE)
      r == Repeat(u)
      b == IF ack /\ both THEN [r EXCEPT !.d1 = Junk] ELSE r
  IN  Result([d EXCEPT !.statetag = "TERM", !.sync = FALSE,
                       !.setup = d.statetag = "TERM" => @,
                       !.t = IF ack THEN PutData0(b, Junk) ELSE b],
             "ok", Junk, FALSE)

ResetInternalProgrammingStateOf(d) ==
  [d EXCEPT !.statetag = "none", !.lastwriteflags = FALSE, !.currentstateval = 0,
            !.autoincrement = FALSE, !.setup = TRUE, !.sync = FALSE]

-----------------------------------------------------------------------------
(***************************************************************************)
(* The commands of the host, and what else happens to the target.          *)
(***************************************************************************)
VARIABLES
  dev,      \* struct SWIOState and the target
  seen      \* ghost: the values each status register has had since the last
            \*   store of the programmer

vars == <<dev, seen>>

StatusOf(d) == [a \in StatusAddrs |-> {d.t.mem[a]}]

PowerOnTarget(kind, mem) ==
  [pb |-> [i \in 0 .. 3 |-> "other"], auto |-> FALSE, cmd |-> "transfer",
   d0 |-> Junk, d1 |-> Junk, x |-> [r \in Registers |-> "other"],
   err |-> FALSE, halted |-> FALSE, stray |-> FALSE, kind |-> kind, mem |-> mem]

\* sandbox_main clears the structure.
Init ==
  \E kind \in Kinds :
    /\ dev = [statetag |-> "none", currentstateval |-> 0, autoincrement |-> FALSE,
              lastwriteflags |-> FALSE, no_autoexec |-> FALSE,
              target_chip_type |-> Unknown, opmode |-> FALSE,
              t |-> PowerOnTarget(kind, [a \in Addr |-> Junk]),
              setup |-> TRUE, sync |-> FALSE]
    /\ seen = StatusOf(dev)

\* The outcomes of an identification matter only to a call that makes one.
IdentificationsOf(d, needed) ==
  IF ~needed THEN {"unrecognised"}
  ELSE IF d.t.kind \in ClockedKinds THEN Outcomes
  ELSE Failures \cup {"unrecognised", "clock_kept"}

Becomes(d, stores) ==
  /\ dev' = d
  /\ seen' = IF stores \/ d.t.mem # dev.t.mem THEN StatusOf(d) ELSE seen

ReadWord(a) ==
  \E outcome \in IdentificationsOf(dev, ReadNeedsChip(dev, a)), glitch \in Glitches :
    Becomes(ReadWordOf(dev, a, outcome, glitch).dev, FALSE)

WriteWord(a, v) ==
  \E outcome \in IdentificationsOf(dev, StoreNeedsChip(dev)), glitch \in Glitches :
    Becomes(WriteWordOf(dev, a, v, outcome, glitch).dev, TRUE)

ReadByte(a) == \E glitch \in Glitches :
  Becomes(Sent(dev, ReadByteOf(dev, a, glitch), "link").dev, FALSE)
WriteByte(a, v) == \E glitch \in Glitches :
  Becomes(Sent(dev, WriteByteOf(dev, a, v, glitch), "link").dev, TRUE)
SafeCall(a, store) == \E glitch \in Glitches :
  Becomes(Sent(dev, WriteSafe(dev, a, Junk, store, glitch), "ok").dev, TRUE)
FlashCall(op) == \E glitch \in Glitches :
  Becomes(Sent(dev, FlashOp(dev, op, glitch), "ok").dev, FALSE)
PollTerminal == \E ack, both \in BOOLEAN :
  Becomes(Sent(dev, PollTerminalOf(dev, ack, both), "link").dev, FALSE)

WaitForDoneOp == dev.opmode /\ Becomes([dev EXCEPT !.t.err = FALSE], FALSE)
ResetInternalProgrammingState == Becomes(ResetInternalProgrammingStateOf(dev), FALSE)

\* Command 0x0e or 0x01.
InitializeSWDSWIO == \E found, trap \in BOOLEAN :
  Becomes(InitializeSWDSWIOOf(dev, found, trap), FALSE)

\* Command 0x10: with a reply buffer the chip is identified even if known.
DetermineChip == \E outcome \in Outcomes :
  /\ outcome \in Failures \cup {"unrecognised", "clock_kept"}
       \/ dev.t.kind \in ClockedKinds
  /\ Becomes(Identify(dev, outcome), outcome \notin Failures)

\* Command 0x0f; the flash tail loaded for the previous chip stays.
OverrideChip == \E kind \in Chips :
  Becomes([dev EXCEPT !.target_chip_type = kind, !.setup = @ /\ dev.statetag # "WRSQ"],
          FALSE)

\* A register operation of the host, past the cache: only PROGBUF voids statetag.
RawProgbuf == \E i \in 0 .. 3 :
  Becomes([dev EXCEPT !.statetag = "XXXX", !.setup = TRUE,
                      !.t.pb[i] = IF dev.opmode THEN "other" ELSE @], FALSE)
RawRegister ==
  /\ dev.opmode
  /\ \E t \in {Repeat(dev.t), PutData0(dev.t, Junk), [dev.t EXCEPT !.d1 = Junk],
               SetAuto(dev.t, FALSE), SetAuto(dev.t, TRUE), Execute(dev.t),
               Transfer(dev.t, [dev.t.x EXCEPT !["x10"] = "other"]),
               [dev.t EXCEPT !.err = FALSE], [dev.t EXCEPT !.halted = TRUE],
               [dev.t EXCEPT !.halted = FALSE, !.x = [r \in Registers |-> "other"]]} :
       Becomes([dev EXCEPT !.t = t, !.setup = FALSE, !.sync = FALSE], FALSE)

\* Commands 0x02 and 0x03: the target loses everything but its flash.
PowerCycle ==
  LET mem == [a \in Addr |-> IF a \in FlashAddrs THEN dev.t.mem[a] ELSE Junk]
  IN  Becomes([dev EXCEPT !.t = PowerOnTarget(dev.t.kind, mem),
                          !.setup = FALSE, !.sync = FALSE], TRUE)

\* The flash controller changes its status by itself.
StatusChange(a, v) ==
  /\ dev' = [dev EXCEPT !.t.mem[a] = v]
  /\ seen' = [seen EXCEPT ![a] = @ \cup {v}]

Next ==
  \/ \E a \in Addr : ReadWord(a) \/ ReadByte(a)
  \/ \E a \in Addr, v \in Words : WriteWord(a, v) \/ WriteByte(a, v)
  \/ "CH5xx" \in Uses /\ \E a \in Addr, store \in SafeTags : SafeCall(a, store)
  \/ "CH5xx" \in Uses /\ \E op \in FlashTags : FlashCall(op)
  \/ WaitForDoneOp \/ ResetInternalProgrammingState
  \/ "session" \in Uses /\ (InitializeSWDSWIO \/ DetermineChip)
  \/ "terminal" \in Uses /\ PollTerminal
  \/ "override" \in Uses /\ OverrideChip
  \/ "raw" \in Uses /\ (RawProgbuf \/ RawRegister)
  \/ "power" \in Uses /\ PowerCycle
  \/ \E a \in StatusAddrs, v \in Value : StatusChange(a, v)

Spec == Init /\ [][Next]_vars

-----------------------------------------------------------------------------
\* Every variable keeps the shape the code gives it: struct SWIOState,
\* bitbang_rvswdio.h:58.
TypeOK ==
  /\ dev \in Device
  /\ seen \in [StatusAddrs -> SUBSET Value]

Program(d) ==
  /\ d.statetag = "RDSQ" => ReadLoaded(d.t, IF d.autoincrement THEN "inc" ELSE "keep")
  /\ d.statetag = "WRSQ" => StoreLoaded(d.t, IF d.lastwriteflags THEN "wait" ELSE "end")
  /\ d.statetag \in FlashTags =>
       (\A i \in 0 .. 3 : d.t.pb[i] = d.statetag) /\ d.t.x["x13"] = "FLASH"
  /\ d.statetag \in SafeTags => d.t.pb[3] = d.statetag

Truthful(d) ==
  d.setup =>
    /\ Program(d)
    /\ d.statetag \in SequenceTags =>
         /\ FlashSet(d.t)
         /\ d.t.auto = ~d.no_autoexec
         /\ d.t.auto => d.t.cmd = "run"
         /\ d.t.halted /\ d.currentstateval \in Addr
         /\ AutoUsable(d)
    /\ d.statetag \in FlashTags \cup SafeTags \cup {"TERM"} => ~d.t.auto
    /\ d.statetag = "WRSQ" /\ d.lastwriteflags =>
         d.target_chip_type \in {Unknown, d.t.pb[3]}

\* statetag tells the truth: as long as only these operations touch the debug
\* module, the program, the pointer registers and ABSTRACTAUTO are those the
\* tag stands for, across every order of calls, faults and wire errors.  The
\* tests of statetag at the head of each operation rely on it.
TagTellsTheTruth == Truthful(dev)

\* currentstateval is where the target's cursor stands, and the word a hit will
\* answer is already in DATA0 (ReadWord's and WriteWord's hit paths).
CursorInStep ==
  dev.setup /\ dev.sync =>
    /\ dev.statetag \in SequenceTags => ~dev.t.err
    /\ dev.statetag = "WRSQ" => dev.t.d1 = dev.currentstateval
    /\ dev.statetag = "RDSQ" =>
         IF dev.no_autoexec \/ ~dev.autoincrement
         THEN dev.t.d1 = dev.currentstateval
         ELSE /\ dev.t.d1 = After(dev.currentstateval)
              /\ dev.currentstateval \notin StatusAddrs =>
                   dev.t.d0 = dev.t.mem[dev.currentstateval]
    /\ dev.statetag = "RDSQ" /\ ~dev.autoincrement =>
         /\ dev.currentstateval \in StatusAddrs
         /\ ~dev.no_autoexec => dev.t.d0 \in seen[dev.currentstateval]

\* A ReadWord issued now that reports success answers the word at the address
\* asked for, whatever was written, read, polled or prefetched before, and
\* changes no memory.
ReadsWhatIsThere ==
  \A a \in Addr \ StatusAddrs, glitch \in Glitches :
    \A r \in {ReadWordOf(dev, a, "unrecognised", glitch)} :
      r.exact /\ r.status = "ok" =>
        /\ r.word = r.dev.t.mem[a]
        /\ ReadNeedsChip(dev, a) \/ r.dev.t.mem = dev.t.mem

\* A status register read, though answered from an earlier run of the program,
\* is never older than the last store: WaitForFlash cannot take the idle state
\* from before an erase for the end of it.
StatusIsFresh ==
  \A a \in StatusAddrs, glitch \in Glitches :
    \A r \in {ReadWordOf(dev, a, "unrecognised", glitch)} :
      r.exact /\ r.status = "ok" =>
        r.word \in seen[a] \/ (ReadNeedsChip(dev, a) /\ r.word = r.dev.t.mem[a])

\* A WriteWord issued now stores the word at the address asked for and nowhere
\* else, unless its cursor was left out of step by an earlier fault or jump.
WritesWhereAsked ==
  \A a \in Addr, v \in Words, glitch \in Glitches :
    \A r \in {WriteWordOf(dev, a, v, "unrecognised", glitch)} :
      r.exact => /\ r.dev.t.mem[a] = v
                 /\ \A b \in Addr \ {a} : StoreNeedsChip(dev) \/ r.dev.t.mem[b] = dev.t.mem[b]

\* The byte operations rely on nothing that was set up before: one that reports
\* success was right, on any device and after any disturbance.
BytesAlwaysRight ==
  dev.opmode => \A a \in Addr, v \in Value, glitch \in Glitches :
    LET r == ReadByteOf(dev, a, glitch)
        w == WriteByteOf(dev, a, v, glitch)
    IN  /\ r.status = "ok" => r.word = dev.t.mem[a]
        /\ w.status = "ok" => w.dev.t.mem = [dev.t.mem EXCEPT ![a] = v]

\* The target never runs a mixture of two programs, or one with another's
\* pointers, unless something outside the cache disturbed it.  An identification
\* in the middle of a sequence counts: its probe runs what is loaded.  One that
\* the host or WriteWord makes with no sequence loaded is left out: it touches
\* DATA0 (command 0x10 even before) with whatever the program buffer holds.
NoStrayProgram ==
  [][dev.setup /\ dev'.setup /\ ~StoreNeedsChip(dev)
     => dev'.t.stray = dev.t.stray \/ DetermineChip]_vars

\* A retry of a failed read is right: whatever broke the read, asking again for
\* the same word points the cursor anew.
RetryOf(failed, a) == ReadWordOf(failed.dev, a, "unrecognised", "none")
RetriedReadIsRight ==
  \A a \in Addr \ StatusAddrs, glitch \in Glitches \ {"none"} :
    \A r \in {RetryOf(ReadWordOf(dev, a, "unrecognised", glitch), a)} :
      r.status = "ok" /\ r.dev.setup => r.word = r.dev.t.mem[a]

\* "Write to the address." (bitbang_rvswdio.h:1092): a store that met no fault
\* on a device nobody disturbed is at the address it was given.
WriteReachesItsAddress ==
  dev.setup /\ dev.opmode =>
    \A a \in Addr, v \in Value :
      \A r \in {WriteWordOf(dev, a, v, "unrecognised", "none")} :
        r.status = "ok" /\ ~r.dev.t.err => r.dev.t.mem[a] = v
============================================================================
