-------------------------- MODULE DebugLink_proofs --------------------------
(***************************************************************************)
(* What DebugLink promises for every address space, set of chips and wire  *)
(* fault.  Each call of the API is a function from devices to devices, so  *)
(* each gets a lemma of its own and the steps of Next only cite them.      *)
(***************************************************************************)
EXTENDS DebugLink, TLAPS

\* The part of a target that running a program leaves alone.
SameSetting(u, t) ==
  /\ u.pb = t.pb /\ u.auto = t.auto /\ u.cmd = t.cmd /\ u.x = t.x
  /\ u.halted = t.halted /\ u.kind = t.kind

\* The cursor wraps around inside the address space.
LEMMA AfterInAddr == \A a \in Addr : After(a) \in Addr
  BY DebugLinkAssumption DEF After, Addr

\* A run of a sequence program changes only the mailbox, the memory and cmderr.
LEMMA RunSequenceType ==
  ASSUME NEW t \in Target
  PROVE  RunSequence(t) \in Target /\ SameSetting(RunSequence(t), t)
<1> DEFINE cursor == IF t.pb[1] = "inc" THEN After(t.d1) ELSE t.d1
<1>1. [t EXCEPT !.err = TRUE] \in Target /\ SameSetting([t EXCEPT !.err = TRUE], t)
  BY DEF Target, SameSetting
<1>2. /\ [t EXCEPT !.err = TRUE, !.stray = TRUE] \in Target
      /\ SameSetting([t EXCEPT !.err = TRUE, !.stray = TRUE], t)
  BY DEF Target, SameSetting
<1>3. CASE t.d1 \in Addr
  <2>1. t.mem[t.d1] \in Value /\ After(t.d1) \in Addr /\ cursor \in Addr
    BY <1>3, AfterInAddr DEF Target
  <2>2. /\ [t EXCEPT !.d0 = t.mem[t.d1], !.d1 = cursor] \in Target
        /\ SameSetting([t EXCEPT !.d0 = t.mem[t.d1], !.d1 = cursor], t)
    BY <2>1 DEF Target, SameSetting
  <2>3. [t.mem EXCEPT ![t.d1] = t.d0] \in [Addr -> Value]
    BY <1>3 DEF Target
  <2>4. /\ [t EXCEPT !.mem = [t.mem EXCEPT ![t.d1] = t.d0], !.d1 = After(t.d1)] \in Target
        /\ SameSetting([t EXCEPT !.mem = [t.mem EXCEPT ![t.d1] = t.d0],
                                 !.d1 = After(t.d1)], t)
    BY <2>1, <2>3 DEF Target, SameSetting
  <2> QED
    BY <1>1, <1>2, <2>2, <2>4 DEF RunSequence
<1>4. CASE t.d1 \notin Addr
  BY <1>1, <1>2, <1>4 DEF RunSequence
<1> QED
  BY <1>3, <1>4

\* DMCOMMAND does no more than that, and leaves a run as the last command.
LEMMA ExecuteType ==
  ASSUME NEW t \in Target
  PROVE  /\ Execute(t) \in Target
         /\ SameSetting(Execute(t), [t EXCEPT !.cmd = Execute(t).cmd])
         /\ Execute(t).cmd = IF t.err THEN t.cmd ELSE "run"
<1>1. [t EXCEPT !.cmd = "run"] \in Target
  BY DEF Target
<1> QED
  BY <1>1, RunSequenceType DEF Execute, SameSetting, Target

\* Nor does the access of DATA0 that ABSTRACTAUTO repeats the command at.
LEMMA RepeatType ==
  ASSUME NEW t \in Target
  PROVE  Repeat(t) \in Target /\ SameSetting(Repeat(t), t)
  BY RunSequenceType DEF Repeat, SameSetting

\* Writing DATA0 leaves the program, the registers and ABSTRACTAUTO alone.
LEMMA PutData0Type ==
  ASSUME NEW t \in Target, NEW v \in Value
  PROVE  PutData0(t, v) \in Target /\ SameSetting(PutData0(t, v), t)
<1>1. [t EXCEPT !.d0 = v] \in Target /\ SameSetting([t EXCEPT !.d0 = v], t)
  BY DEF Target, SameSetting
<1> QED
  BY <1>1, RepeatType DEF PutData0, SameSetting

\* Writing ABSTRACTAUTO changes nothing else.
LEMMA SetAutoType ==
  ASSUME NEW t \in Target, NEW on \in BOOLEAN
  PROVE  /\ SetAuto(t, on) \in Target
         /\ SetAuto(t, on).auto = (on /\ t.kind \notin ManualKinds)
         /\ SetAuto(t, on).pb = t.pb /\ SetAuto(t, on).cmd = t.cmd
         /\ SetAuto(t, on).x = t.x /\ SetAuto(t, on).err = t.err
         /\ SetAuto(t, on).halted = t.halted /\ SetAuto(t, on).kind = t.kind
  BY DEF SetAuto, Target

\* Copying into the registers needs a halted target without cmderr, and does nothing
\* otherwise.
LEMMA TransferType ==
  ASSUME NEW t \in Target, NEW x \in [Registers -> RegisterValues]
  PROVE  /\ Transfer(t, x) \in Target
         /\ Transfer(t, x).pb = t.pb /\ Transfer(t, x).auto = t.auto
         /\ Transfer(t, x).halted = t.halted /\ Transfer(t, x).kind = t.kind
         /\ ~Transfer(t, x).err => t.halted /\ Transfer(t, x).x = x
         /\ Transfer(t, x).err => /\ t.err \/ ~t.halted
                                  /\ Transfer(t, x).x = t.x /\ Transfer(t, x).cmd = t.cmd
  BY DEF Transfer, Target

\* What StaticUpdatePROGBUFRegs puts in x10..x13.
LEMMA StaticRegistersType ==
  ASSUME NEW ok \in BOOLEAN
  PROVE  /\ StaticRegisters(ok) \in [Registers -> RegisterValues]
         /\ StaticRegisters(ok)["x12"] = "STATR"
         /\ StaticRegisters(ok)["x13"] = "PG_BUFLOAD"
         /\ ok => /\ StaticRegisters(ok)["x10"] = "DATA0"
                  /\ StaticRegisters(ok)["x11"] = "DATA1"
  BY DEF StaticRegisters, Registers, RegisterValues

\* The untracked value is a value.
LEMMA JunkIsValue == Junk \in Value
  BY DEF Value
-----------------------------------------------------------------------------
(***************************************************************************)
(* The preparation of a sequence program.                                  *)
(***************************************************************************)
SameCache(s, d) ==
  /\ s.statetag = d.statetag /\ s.currentstateval = d.currentstateval
  /\ s.autoincrement = d.autoincrement /\ s.lastwriteflags = d.lastwriteflags
  /\ s.no_autoexec = d.no_autoexec /\ s.target_chip_type = d.target_chip_type
  /\ s.opmode = d.opmode /\ s.t.kind = d.t.kind

\* The registers are right for both sequence programs, and the last command
\* either ran a program or will be replaced by one that does.
Ready(d) ==
  d.setup => /\ MailboxSet(d.t) /\ FlashSet(d.t) /\ d.t.halted /\ AutoUsable(d)
             /\ d.no_autoexec \/ d.t.cmd = "run" \/ ~d.t.err

Good(d) == d \in Device /\ Truthful(d)

\* The fields of struct SWIOState have their types.
LEMMA DeviceParts ==
  ASSUME NEW d \in Device
  PROVE  /\ d.t \in Target /\ d.statetag \in Tags
         /\ d.currentstateval \in Addr \cup {-1}
         /\ d.target_chip_type \in Chips /\ d.no_autoexec \in BOOLEAN
         /\ d.lastwriteflags \in BOOLEAN /\ d.autoincrement \in BOOLEAN
         /\ d.opmode \in BOOLEAN /\ d.setup \in BOOLEAN /\ d.sync \in BOOLEAN
  BY DEF Device

\* With a sequence tag, the registers need not be set again (981-985, 1082-1086).
LEMMA TruthfulIsReady ==
  ASSUME NEW d \in Device, Truthful(d), d.statetag \in SequenceTags
  PROVE  Ready(d)
<1>1. SUFFICES ASSUME d.setup PROVE Ready(d)
  BY DEF Ready
<1>2. MailboxSet(d.t)
  <2>1. CASE d.statetag = "RDSQ"
    BY <1>1, <2>1 DEF Truthful, Program, ReadLoaded
  <2>2. CASE d.statetag = "WRSQ"
    BY <1>1, <2>2 DEF Truthful, Program, StoreLoaded
  <2> QED
    BY <2>1, <2>2 DEF SequenceTags
<1>3. FlashSet(d.t) /\ d.t.halted /\ AutoUsable(d) /\ (d.no_autoexec \/ d.t.cmd = "run")
  BY <1>1 DEF Truthful
<1> QED
  BY <1>2, <1>3 DEF Ready

\* StaticUpdatePROGBUFRegs leaves the registers ready for both sequences: it sets
\* them, or a pending cmderr keeps those of the sequence before.
LEMMA StaticUpdateReady ==
  ASSUME NEW d \in Device, NEW glitch \in Glitches,
         d.statetag \in SequenceTags => Ready(d)
  PROVE  LET s == StaticUpdate(d, glitch) IN
         s \in Device /\ SameCache(s, d) /\ Ready(s) /\ ~s.t.auto
<1> DEFINE a == SetAuto(d.t, FALSE)
           u == PutData0(a, Junk)
           x == StaticRegisters(glitch # "hartinfo")
           t == Transfer(u, x)
           setup == IF t.err THEN d.setup /\ d.statetag \in SequenceTags
                    ELSE glitch # "hartinfo" /\ AutoUsable(d)
           s == StaticUpdate(d, glitch)
<1>1. /\ a \in Target /\ ~a.auto /\ a.kind = d.t.kind /\ a.cmd = d.t.cmd
      /\ a.x = d.t.x /\ a.err = d.t.err /\ a.halted = d.t.halted
  BY DeviceParts, SetAutoType
<1> HIDE DEF a
<1>2. /\ u \in Target /\ ~u.auto /\ u.kind = d.t.kind /\ u.cmd = d.t.cmd
      /\ u.x = d.t.x /\ u.err = d.t.err /\ u.halted = d.t.halted
  <2>1. u = [a EXCEPT !.d0 = Junk]
    BY <1>1 DEF PutData0, Repeat, Target
  <2> QED
    BY <1>1, <2>1, JunkIsValue DEF Target
<1> HIDE DEF u
<1>3. /\ t \in Target /\ ~t.auto /\ t.kind = d.t.kind /\ t.halted = d.t.halted
      /\ ~t.err => t.halted /\ t.x = x
      /\ t.err => (d.t.err \/ ~d.t.halted) /\ t.x = d.t.x /\ t.cmd = d.t.cmd
  BY <1>2, TransferType, StaticRegistersType
<1>4. s = [d EXCEPT !.t = t, !.setup = setup]
  BY DEF StaticUpdate, u, a
<1> HIDE DEF t, setup
<1>5. setup \in BOOLEAN
  BY DeviceParts DEF setup
<1>6. s \in Device /\ s.t = t /\ s.setup = setup
  BY <1>3, <1>4, <1>5 DEF Device
<1>7. SameCache(s, d)
  BY <1>3, <1>4, <1>6 DEF SameCache, Device
<1>8. ASSUME ~t.err PROVE Ready(s)
  <2>1. SUFFICES ASSUME setup
                 PROVE  MailboxSet(t) /\ FlashSet(t) /\ t.halted /\ AutoUsable(s)
    BY <1>6, <1>8 DEF Ready
  <2>2. glitch # "hartinfo" /\ AutoUsable(d)
    BY <1>8, <2>1 DEF setup
  <2>3. AutoUsable(s)
    BY <2>2, <1>7 DEF AutoUsable, SameCache
  <2> QED
    BY <1>8, <2>2, <2>3, <1>3, StaticRegistersType DEF MailboxSet, FlashSet
<1>9. ASSUME t.err PROVE Ready(s)
  <2>1. SUFFICES ASSUME setup
                 PROVE  /\ MailboxSet(t) /\ FlashSet(t) /\ t.halted /\ AutoUsable(s)
                        /\ s.no_autoexec \/ t.cmd = "run"
    BY <1>6, <1>9 DEF Ready
  <2>2. d.setup /\ Ready(d)
    BY <1>9, <2>1 DEF setup
  <2>3. /\ MailboxSet(d.t) /\ FlashSet(d.t) /\ d.t.halted /\ AutoUsable(d)
        /\ d.no_autoexec \/ d.t.cmd = "run" \/ ~d.t.err
    BY <2>2 DEF Ready
  <2>4. AutoUsable(s) /\ s.no_autoexec = d.no_autoexec
    BY <2>3, <1>7 DEF AutoUsable, SameCache
  <2>5. t.x = d.t.x /\ t.cmd = d.t.cmd /\ t.halted /\ d.t.err
    BY <1>3, <1>9, <2>3
  <2> QED
    BY <2>3, <2>4, <2>5 DEF MailboxSet, FlashSet
<1>10. Ready(s) /\ ~s.t.auto
  BY <1>3, <1>6, <1>8, <1>9
<1> QED
  BY <1>6, <1>7, <1>10

\* WriteWord's registers are ready when the program is loaded.
LEMMA StoreReadyReady ==
  ASSUME NEW d \in Device, NEW glitch \in Glitches,
         d.statetag \in SequenceTags => Ready(d)
  PROVE  LET s == StoreReady(d, glitch) IN
         s \in Device /\ SameCache(s, d) /\ Ready(s) /\ (~d.t.auto => ~s.t.auto)
  BY StaticUpdateReady DEF StoreReady, SameCache

\* And so are ReadWord's.
LEMMA ReadReadyReady ==
  ASSUME NEW d \in Device, NEW glitch \in Glitches,
         d.statetag \in SequenceTags => Ready(d)
  PROVE  LET s == ReadReady(d, glitch) IN
         s \in Device /\ SameCache(s, d) /\ Ready(s)
  BY StaticUpdateReady DEF ReadReady, SameCache, SequenceTags

-----------------------------------------------------------------------------
(***************************************************************************)
(* ReadWord                                                                *)
(***************************************************************************)
Step(inc) == IF inc THEN "inc" ELSE "keep"

\* The read program is loaded and armed.
ReadArmed(d, inc) ==
  /\ d.autoincrement = inc
  /\ d.setup => /\ ReadLoaded(d.t, Step(inc)) /\ FlashSet(d.t) /\ d.t.halted
                /\ AutoUsable(d) /\ d.t.auto = ~d.no_autoexec
                /\ d.no_autoexec \/ d.t.cmd = "run" \/ ~d.t.err

\* ReadWord has its program, its step and ABSTRACTAUTO in place after loading.
LEMMA LoadReadArmed ==
  ASSUME NEW d, Good(d), NEW inc \in BOOLEAN, NEW glitch \in Glitches
  PROVE  LoadRead(d, inc, glitch) \in Device /\ ReadArmed(LoadRead(d, inc, glitch), inc)
<1>0. d \in Device /\ Truthful(d)
  BY DEF Good
<1>1. CASE d.statetag = "RDSQ" /\ inc = d.autoincrement
  <2>1. LoadRead(d, inc, glitch) = d
    BY <1>1 DEF LoadRead
  <2>2. ASSUME d.setup PROVE ReadLoaded(d.t, Step(inc))
    BY <1>0, <1>1, <2>2 DEF Truthful, Program, Step
  <2>3. ASSUME d.setup
        PROVE  /\ FlashSet(d.t) /\ d.t.halted /\ AutoUsable(d)
               /\ d.t.auto = ~d.no_autoexec /\ (d.t.auto => d.t.cmd = "run")
    BY <1>0, <1>1, <2>3 DEF Truthful, SequenceTags
  <2> QED
    BY <1>0, <1>1, <2>1, <2>2, <2>3 DEF ReadArmed
<1>2. CASE ~(d.statetag = "RDSQ" /\ inc = d.autoincrement)
  <2> DEFINE s == ReadReady(d, glitch)
             u == [s.t EXCEPT !.pb[0] = "lw_addr",
                              !.pb[1] = Step(inc),
                              !.pb[2] = "sw_addr"]
             t == SetAuto(u, ~s.no_autoexec)
             r == [s EXCEPT !.autoincrement = inc, !.t = t]
  <2>1. s \in Device /\ Ready(s)
    BY <1>0, TruthfulIsReady, ReadReadyReady
  <2> HIDE DEF s
  <2>2. s.t \in Target /\ s.t.pb \in [0 .. 3 -> Code] /\ s.no_autoexec \in BOOLEAN
    BY <2>1 DEF Device, Target
  <2>3. /\ u \in Target
        /\ u.pb = [s.t.pb EXCEPT ![0] = "lw_addr",
                                 ![1] = Step(inc), ![2] = "sw_addr"]
        /\ u.x = s.t.x /\ u.halted = s.t.halted /\ u.kind = s.t.kind
        /\ u.cmd = s.t.cmd /\ u.err = s.t.err
    <3>1. [s.t.pb EXCEPT ![0] = "lw_addr", ![1] = Step(inc),
                         ![2] = "sw_addr"] \in [0 .. 3 -> Code]
      BY <2>2 DEF Code, Step
    <3> QED
      BY <2>2, <3>1 DEF Target
  <2> HIDE DEF u
  <2>4. /\ t \in Target /\ t.auto = (~s.no_autoexec /\ s.t.kind \notin ManualKinds)
        /\ t.pb = u.pb /\ t.x = u.x /\ t.halted = u.halted /\ t.kind = u.kind
        /\ t.cmd = u.cmd /\ t.err = u.err
    BY <2>2, <2>3, SetAutoType
  <2>5. u.pb[0] = "lw_addr" /\ u.pb[1] = Step(inc) /\ u.pb[2] = "sw_addr"
    <3>1. s.t.pb \in [0 .. 3 -> Code]
      BY <2>2
    <3>2. u.pb = [s.t.pb EXCEPT ![0] = "lw_addr", ![1] = Step(inc), ![2] = "sw_addr"]
      BY <2>3
    <3> QED
      BY <3>1, <3>2, SMT
  <2> HIDE DEF t
  <2>6. /\ r \in Device /\ r.t = t /\ r.autoincrement = inc /\ r.setup = s.setup
        /\ r.no_autoexec = s.no_autoexec
    BY <2>1, <2>4 DEF Device
  <2>7. LoadRead(d, inc, glitch) = r
    BY <1>2 DEF LoadRead, WithReadProgram, Step, s, u, t
  <2>8. ASSUME s.setup
        PROVE  /\ ReadLoaded(t, Step(inc)) /\ FlashSet(t) /\ t.halted
               /\ AutoUsable(r) /\ t.auto = ~r.no_autoexec
               /\ r.no_autoexec \/ t.cmd = "run" \/ ~t.err
    <3>1. /\ MailboxSet(s.t) /\ FlashSet(s.t) /\ s.t.halted /\ AutoUsable(s)
          /\ s.no_autoexec \/ s.t.cmd = "run" \/ ~s.t.err
      BY <2>1, <2>8 DEF Ready
    <3>2. ReadLoaded(t, Step(inc)) /\ FlashSet(t) /\ t.halted
      <4>1. t.x = s.t.x /\ t.halted = s.t.halted /\ t.pb = u.pb
        BY <2>3, <2>4
      <4> QED
        BY <4>1, <2>5, <3>1 DEF ReadLoaded, MailboxSet, FlashSet
    <3>3. AutoUsable(r) /\ t.auto = ~r.no_autoexec
      BY <2>3, <2>4, <2>6, <3>1 DEF AutoUsable
    <3> QED
      BY <2>3, <2>4, <2>6, <3>1, <3>2, <3>3
  <2> QED
    BY <2>6, <2>7, <2>8 DEF ReadArmed
<1> QED
  BY <1>1, <1>2

\* A target that only ran what was loaded: its setting is the same, except that
\* the last command may now be the run.
Ran(u, t) ==
  /\ u.pb = t.pb /\ u.auto = t.auto /\ u.x = t.x /\ u.halted = t.halted
  /\ u.kind = t.kind /\ (u.cmd = t.cmd \/ u.cmd = "run")

\* The runs of a sequence program leave what it needs to run again.
LEMMA RunsRan ==
  ASSUME NEW t \in Target, NEW glitch
  PROVE  /\ Execute(t) \in Target /\ Ran(Execute(t), t)
         /\ Repeat(t) \in Target /\ Ran(Repeat(t), t)
         /\ DoneTarget(t, glitch) \in Target /\ Ran(DoneTarget(t, glitch), t)
<1>1. Execute(t) \in Target /\ Ran(Execute(t), t)
  BY ExecuteType DEF SameSetting, Ran, Target
<1>2. Repeat(t) \in Target /\ Ran(Repeat(t), t)
  BY RepeatType DEF SameSetting, Ran
<1>3. DoneTarget(t, glitch) \in Target /\ Ran(DoneTarget(t, glitch), t)
  BY DEF DoneTarget, Ran, Target
<1> QED
  BY <1>1, <1>2, <1>3

\* Runs compose.
LEMMA RanTransitive ==
  ASSUME NEW t, NEW u, NEW v, Ran(u, t), Ran(v, u)
  PROVE  Ran(v, t)
  BY DEF Ran

\* Running the loaded program keeps the tag truthful.
LEMMA TruthfulAfterRun ==
  ASSUME NEW d, NEW e, Truthful(d), Ran(e.t, d.t), e.setup => d.setup,
         e.statetag = d.statetag, e.lastwriteflags = d.lastwriteflags,
         e.autoincrement = d.autoincrement, e.no_autoexec = d.no_autoexec,
         e.target_chip_type = d.target_chip_type,
         e.statetag \in SequenceTags => e.currentstateval \in Addr
  PROVE  Truthful(e)
<1>1. SUFFICES ASSUME e.setup PROVE Truthful(e)
  BY DEF Truthful
<1>2. Program(e)
  BY <1>1 DEF Truthful, Program, Ran, ReadLoaded, StoreLoaded, MailboxSet
<1> QED
  BY <1>1, <1>2 DEF Truthful, Ran, FlashSet, AutoUsable

\* Pointing the read cursor keeps statetag true.
LEMMA PointReadGood ==
  ASSUME NEW d, Good(d), NEW a \in Addr, NEW inc \in BOOLEAN, NEW glitch \in Glitches
  PROVE  LET p == PointRead(d, a, inc, glitch) IN
         Good(p) /\ p.statetag = "RDSQ" /\ p.currentstateval = a
<1>0. d \in Device /\ Truthful(d)
  BY DEF Good
<1> DEFINE p == PointRead(d, a, inc, glitch)
<1>1. CASE d.statetag = "RDSQ" /\ inc = d.autoincrement /\ a = d.currentstateval
  BY <1>0, <1>1 DEF PointRead, Good
<1>2. CASE ~(d.statetag = "RDSQ" /\ inc = d.autoincrement /\ a = d.currentstateval)
  <2> DEFINE s == LoadRead(d, inc, glitch)
             u == [s.t EXCEPT !.d1 = a]
             t == IF s.no_autoexec THEN u ELSE Execute(u)
             r == [s EXCEPT !.statetag = "RDSQ", !.currentstateval = a,
                            !.sync = TRUE, !.t = t]
  <2>1. s \in Device /\ ReadArmed(s, inc)
    BY LoadReadArmed
  <2>2. p = r
    BY <1>2 DEF PointRead, Pointed
  <2> HIDE DEF s
  <2>3. u \in Target /\ Ran(u, s.t) /\ u.err = s.t.err /\ u.cmd = s.t.cmd
    BY <2>1, DeviceParts DEF Target, Ran
  <2> HIDE DEF u
  <2>4. /\ t \in Target /\ Ran(t, s.t)
        /\ s.no_autoexec \/ t.cmd = "run" \/ u.err
    BY <2>3, RunsRan, ExecuteType, RanTransitive
  <2> HIDE DEF t
  <2>5. /\ r \in Device /\ r.t = t /\ r.statetag = "RDSQ" /\ r.currentstateval = a
        /\ r.setup = s.setup /\ r.no_autoexec = s.no_autoexec
        /\ r.autoincrement = s.autoincrement
    BY <2>1, <2>4 DEF Device, Tags, SequenceTags
  <2> HIDE DEF p, r
  <2>6. ASSUME s.setup PROVE Truthful(r)
    <3>1. /\ ReadLoaded(s.t, Step(inc)) /\ FlashSet(s.t) /\ s.t.halted
          /\ AutoUsable(s) /\ s.t.auto = ~s.no_autoexec /\ s.autoincrement = inc
          /\ s.no_autoexec \/ s.t.cmd = "run" \/ ~s.t.err
      BY <2>1, <2>6 DEF ReadArmed
    <3>2. ReadLoaded(t, Step(inc)) /\ FlashSet(t) /\ t.halted /\ AutoUsable(r)
      BY <3>1, <2>4, <2>5
      DEF Ran, ReadLoaded, MailboxSet, FlashSet, AutoUsable
    <3>3. t.auto = ~r.no_autoexec /\ (t.auto => t.cmd = "run")
      BY <3>1, <2>3, <2>4, <2>5 DEF Ran
    <3> QED
      BY <3>1, <3>2, <3>3, <2>5
      DEF Truthful, Program, Step, SequenceTags, FlashTags, SafeTags
  <2>7. Good(r)
    <3>1. CASE s.setup
      BY <2>5, <2>6, <3>1 DEF Good
    <3>2. CASE ~s.setup
      BY <2>5, <3>2 DEF Good, Truthful
    <3> QED
      BY <3>1, <3>2
  <2> QED
    BY <2>2, <2>5, <2>7 DEF p
<1> QED
  BY <1>1, <1>2

\* ReadWord keeps statetag true, whatever glitch meets it.
LEMMA ReadWordKnownGood ==
  ASSUME NEW d, Good(d), NEW a \in Addr, NEW glitch \in Glitches
  PROVE  Good(ReadWordKnown(d, a, glitch).dev)
<1> DEFINE inc == Steps(a)
           p == PointRead(d, a, inc, glitch)
           u == IF p.no_autoexec THEN Execute(p.t) ELSE p.t
           c == IF inc THEN After(p.currentstateval) ELSE p.currentstateval
           s == [p EXCEPT !.currentstateval = c]
<1>0. ReadWordKnown(d, a, glitch) = Answer(s, u, glitch)
  BY DEF ReadWordKnown, Fetch, Steps
<1>1. Good(p) /\ p.statetag = "RDSQ" /\ p.currentstateval = a
  <2>1. inc \in BOOLEAN
    BY DEF Steps
  <2> QED
    BY <2>1, PointReadGood
<1> HIDE DEF p
<1>2. p \in Device /\ p.t \in Target /\ Truthful(p)
  BY <1>1, DeviceParts DEF Good
<1>3. u \in Target /\ Ran(u, p.t)
  BY <1>2, RunsRan DEF Ran
<1>4. c \in Addr
  BY <1>1, AfterInAddr
<1> HIDE DEF u, c
<1>5. /\ s \in Device /\ s.t = p.t /\ s.statetag = p.statetag /\ s.setup = p.setup
      /\ s.sync \in BOOLEAN /\ s.currentstateval = c
      /\ s.lastwriteflags = p.lastwriteflags /\ s.autoincrement = p.autoincrement
      /\ s.no_autoexec = p.no_autoexec /\ s.target_chip_type = p.target_chip_type
  BY <1>2, <1>4 DEF Device
<1> HIDE DEF s
<1>6. ASSUME NEW v \in Target, Ran(v, u), NEW b \in BOOLEAN
      PROVE  Good([s EXCEPT !.t = v, !.sync = b])
  <2> DEFINE e == [s EXCEPT !.t = v, !.sync = b]
  <2>1. /\ e \in Device /\ e.t = v /\ e.statetag = p.statetag /\ e.setup = p.setup
        /\ e.currentstateval = c /\ e.lastwriteflags = p.lastwriteflags
        /\ e.autoincrement = p.autoincrement /\ e.no_autoexec = p.no_autoexec
        /\ e.target_chip_type = p.target_chip_type
    BY <1>5 DEF Device
  <2>2. Ran(e.t, p.t)
    BY <1>3, <1>6, <2>1, RanTransitive
  <2> HIDE DEF e
  <2>3. Truthful(e)
    BY <1>2, <1>4, <2>1, <2>2, TruthfulAfterRun
  <2> QED
    BY <2>1, <2>3 DEF Good, e
<1>7. /\ DoneTarget(u, glitch) \in Target /\ Ran(DoneTarget(u, glitch), u)
      /\ Repeat(u) \in Target /\ Ran(Repeat(u), u) /\ Ran(u, u)
  BY <1>3, RunsRan DEF Ran
<1>8. CASE DoneStatus(u, glitch) # "ok"
  <2>1. ReadWordKnown(d, a, glitch).dev
          = [s EXCEPT !.t = DoneTarget(u, glitch), !.sync = FALSE]
    BY <1>0, <1>8 DEF Answer, Result
  <2> QED
    BY <2>1, <1>6, <1>7
<1>9. CASE DoneStatus(u, glitch) = "ok" /\ glitch \in {"data_lost", "data_late"}
  <2> DEFINE v == IF glitch = "data_late" THEN Repeat(u) ELSE u
  <2>1. ReadWordKnown(d, a, glitch).dev = [s EXCEPT !.t = v, !.sync = FALSE]
    BY <1>0, <1>9 DEF Answer, Result
  <2>2. v \in Target /\ Ran(v, u)
    BY <1>3, <1>7
  <2> QED
    BY <2>1, <2>2, <1>6
<1>10. CASE DoneStatus(u, glitch) = "ok" /\ glitch \notin {"data_lost", "data_late"}
  <2> DEFINE b == s.sync /\ ~Repeat(u).err
  <2>1. ReadWordKnown(d, a, glitch).dev = [s EXCEPT !.t = Repeat(u), !.sync = b]
    BY <1>0, <1>10 DEF Answer, Result
  <2>2. b \in BOOLEAN
    OBVIOUS
  <2> QED
    BY <2>1, <2>2, <1>6, <1>7
<1> QED
  BY <1>8, <1>9, <1>10

-----------------------------------------------------------------------------
(***************************************************************************)
(* WriteWord                                                               *)
(***************************************************************************)
Tail(flash) == IF flash THEN "wait" ELSE "end"

\* The store program is loaded; right after a read it is not armed yet.
StoreArmed(r, d, flash) ==
  /\ r.statetag = d.statetag /\ r.target_chip_type = d.target_chip_type
  /\ r.setup =>
       /\ StoreLoaded(r.t, Tail(flash)) /\ FlashSet(r.t) /\ r.t.halted
       /\ AutoUsable(r) /\ (flash => r.target_chip_type \in {Unknown, r.t.pb[3]})
       /\ r.no_autoexec \/ r.t.cmd = "run" \/ ~r.t.err
       /\ IF d.statetag = "WRSQ"
          THEN r.t.auto = ~r.no_autoexec /\ (r.t.auto => r.t.cmd = "run")
          ELSE ~r.t.auto

\* Replacing one store tail by the other leaves the rest of the target alone.
LEMMA TailLoaded ==
  ASSUME NEW t \in Target, NEW chip \in Chips, NEW flash \in BOOLEAN
  PROVE  LET v == LoadTail(t, chip, flash) IN
         /\ v \in Target /\ v.pb[0] = t.pb[0] /\ v.pb[1] = t.pb[1]
         /\ v.pb[2] = Tail(flash) /\ (flash => v.pb[3] = chip)
         /\ v.auto = t.auto /\ v.cmd = t.cmd /\ v.x = t.x /\ v.halted = t.halted
         /\ v.kind = t.kind /\ v.err = t.err
<1> DEFINE v == LoadTail(t, chip, flash)
<1>1. t.pb \in [0 .. 3 -> Code]
  BY DEF Target
<1>2. CASE flash
  <2> DEFINE pb == [t.pb EXCEPT ![2] = "wait", ![3] = chip]
  <2>1. pb \in [0 .. 3 -> Code]
    BY <1>1 DEF Code
  <2>2. pb[0] = t.pb[0] /\ pb[1] = t.pb[1] /\ pb[2] = "wait" /\ pb[3] = chip
    BY <1>1
  <2> HIDE DEF pb
  <2>3. v = [t EXCEPT !.pb = pb]
    BY <1>2 DEF LoadTail, pb
  <2>4. /\ v \in Target /\ v.pb = pb /\ v.auto = t.auto /\ v.cmd = t.cmd /\ v.x = t.x
        /\ v.halted = t.halted /\ v.kind = t.kind /\ v.err = t.err
    BY <2>1, <2>3 DEF Target
  <2> QED
    BY <1>2, <2>2, <2>4 DEF Tail
<1>3. CASE ~flash
  <2> DEFINE pb == [t.pb EXCEPT ![2] = "end"]
  <2>1. pb \in [0 .. 3 -> Code]
    BY <1>1 DEF Code
  <2>2. pb[0] = t.pb[0] /\ pb[1] = t.pb[1] /\ pb[2] = "end"
    BY <1>1
  <2> HIDE DEF pb
  <2>3. v = [t EXCEPT !.pb = pb]
    BY <1>3 DEF LoadTail, pb
  <2>4. /\ v \in Target /\ v.pb = pb /\ v.auto = t.auto /\ v.cmd = t.cmd /\ v.x = t.x
        /\ v.halted = t.halted /\ v.kind = t.kind /\ v.err = t.err
    BY <2>1, <2>3 DEF Target
  <2> QED
    BY <1>3, <2>2, <2>4 DEF Tail
<1> QED
  BY <1>2, <1>3

\* WriteWord has its program and tail in place after loading.
LEMMA LoadStoreArmed ==
  ASSUME NEW d, Good(d), NEW flash \in BOOLEAN, NEW glitch \in Glitches
  PROVE  /\ LoadStore(d, flash, glitch) \in Device
         /\ StoreArmed(LoadStore(d, flash, glitch), d, flash)
<1>0. d \in Device /\ Truthful(d) /\ d.t \in Target
  BY DeviceParts DEF Good
<1> DEFINE q == [d EXCEPT !.t = SetAuto(d.t, FALSE)]
           s == IF d.statetag = "WRSQ" THEN d ELSE StoreReady(q, glitch)
           u == IF d.statetag = "WRSQ" THEN d.t
                ELSE [s.t EXCEPT !.pb[0] = "lw_both", !.pb[1] = "store"]
           v == LoadTail(u, s.target_chip_type, flash)
           r == [s EXCEPT !.t = v]
<1>1. s \in Device /\ SameCache(s, d) /\ (d.statetag # "WRSQ" => Ready(s) /\ ~s.t.auto)
  <2>1. CASE d.statetag = "WRSQ"
    BY <1>0, <2>1 DEF SameCache
  <2>2. CASE d.statetag # "WRSQ"
    <3>1. /\ SetAuto(d.t, FALSE) \in Target /\ ~SetAuto(d.t, FALSE).auto
          /\ SetAuto(d.t, FALSE).cmd = d.t.cmd /\ SetAuto(d.t, FALSE).x = d.t.x
          /\ SetAuto(d.t, FALSE).halted = d.t.halted
          /\ SetAuto(d.t, FALSE).kind = d.t.kind /\ SetAuto(d.t, FALSE).err = d.t.err
      BY <1>0, SetAutoType
    <3>2. /\ q \in Device /\ q.t = SetAuto(d.t, FALSE) /\ SameCache(q, d)
          /\ q.setup = d.setup
      BY <1>0, <3>1 DEF Device, SameCache
    <3> HIDE DEF q
    <3>3. ASSUME q.statetag \in SequenceTags PROVE Ready(q)
      <4>1. Ready(d)
        BY <1>0, <3>2, <3>3, TruthfulIsReady DEF SameCache
      <4> QED
        BY <4>1, <3>1, <3>2 DEF Ready, SameCache, MailboxSet, FlashSet, AutoUsable
    <3>4. /\ StoreReady(q, glitch) \in Device /\ SameCache(StoreReady(q, glitch), q)
          /\ Ready(StoreReady(q, glitch)) /\ ~StoreReady(q, glitch).t.auto
      BY <3>1, <3>2, <3>3, StoreReadyReady
    <3> QED
      BY <2>2, <3>2, <3>4 DEF SameCache
  <2> QED
    BY <2>1, <2>2
<1>2. LoadStore(d, flash, glitch) = r
  <2>1. s.statetag = d.statetag
    BY <1>1 DEF SameCache
  <2>2. LoadStore(d, flash, glitch) = WithStoreProgram(s, flash)
    BY DEF LoadStore
  <2> HIDE DEF s
  <2>3. CASE d.statetag = "WRSQ"
    <3>1. s.t = u
      BY <2>3 DEF s
    <3> QED
      BY <2>1, <2>2, <2>3, <3>1 DEF WithStoreProgram
  <2>4. CASE d.statetag # "WRSQ"
    BY <2>1, <2>2, <2>4 DEF WithStoreProgram
  <2> QED
    BY <2>3, <2>4
<1> HIDE DEF s
<1>3. s.t \in Target /\ s.target_chip_type \in Chips
  BY <1>1, DeviceParts
<1>4. /\ u \in Target /\ u.auto = (IF d.statetag = "WRSQ" THEN d.t.auto ELSE s.t.auto)
      /\ d.statetag # "WRSQ" => /\ u.pb[0] = "lw_both" /\ u.pb[1] = "store"
                                /\ u.cmd = s.t.cmd /\ u.x = s.t.x /\ u.err = s.t.err
                                /\ u.halted = s.t.halted /\ u.kind = s.t.kind
  <2>1. CASE d.statetag = "WRSQ"
    BY <1>0, <2>1
  <2>2. CASE d.statetag # "WRSQ"
    <3> DEFINE pb == [s.t.pb EXCEPT ![0] = "lw_both", ![1] = "store"]
    <3>1. s.t.pb \in [0 .. 3 -> Code]
      BY <1>3 DEF Target
    <3>2. pb \in [0 .. 3 -> Code]
      BY <3>1 DEF Code
    <3>3. pb[0] = "lw_both" /\ pb[1] = "store"
      BY <3>1
    <3>4. u = [s.t EXCEPT !.pb = pb]
      BY <2>2
    <3> HIDE DEF pb, u
    <3>5. /\ u \in Target /\ u.pb = pb /\ u.auto = s.t.auto
          /\ u.cmd = s.t.cmd /\ u.x = s.t.x /\ u.err = s.t.err
          /\ u.halted = s.t.halted /\ u.kind = s.t.kind
      BY <1>3, <3>2, <3>4 DEF Target
    <3> QED
      BY <2>2, <3>3, <3>5
  <2> QED
    BY <2>1, <2>2
<1>5. d.statetag = "WRSQ" => u = d.t /\ s = d
  BY DEF s
<1> HIDE DEF u
<1>6. /\ v \in Target /\ v.pb[0] = u.pb[0] /\ v.pb[1] = u.pb[1]
      /\ v.pb[2] = Tail(flash) /\ (flash => v.pb[3] = s.target_chip_type)
      /\ v.auto = u.auto /\ v.cmd = u.cmd /\ v.x = u.x /\ v.halted = u.halted
      /\ v.kind = u.kind /\ v.err = u.err
  BY <1>3, <1>4, TailLoaded
<1> HIDE DEF v
<1>7. /\ r \in Device /\ r.t = v /\ r.setup = s.setup /\ r.statetag = d.statetag
      /\ r.target_chip_type = s.target_chip_type /\ r.no_autoexec = s.no_autoexec
      /\ r.target_chip_type = d.target_chip_type
  BY <1>1, <1>6 DEF Device, SameCache
<1> HIDE DEF r
<1>8. ASSUME r.setup, d.statetag = "WRSQ" PROVE StoreArmed(r, d, flash)
  <2>1. StoreLoaded(d.t, IF d.lastwriteflags THEN "wait" ELSE "end")
    BY <1>0, <1>5, <1>7, <1>8 DEF Truthful, Program
  <2>2. /\ FlashSet(d.t) /\ d.t.auto = ~d.no_autoexec /\ (d.t.auto => d.t.cmd = "run")
        /\ d.t.halted /\ AutoUsable(d)
    BY <1>0, <1>5, <1>7, <1>8 DEF Truthful, SequenceTags
  <2>3. StoreLoaded(r.t, Tail(flash)) /\ FlashSet(r.t) /\ r.t.halted /\ AutoUsable(r)
    BY <1>5, <1>6, <1>7, <1>8, <2>1, <2>2
    DEF StoreLoaded, MailboxSet, FlashSet, AutoUsable
  <2> QED
    BY <1>5, <1>6, <1>7, <1>8, <2>2, <2>3 DEF StoreArmed
<1>9. ASSUME r.setup, d.statetag # "WRSQ" PROVE StoreArmed(r, d, flash)
  <2>1. /\ MailboxSet(s.t) /\ FlashSet(s.t) /\ s.t.halted /\ AutoUsable(s)
        /\ s.no_autoexec \/ s.t.cmd = "run" \/ ~s.t.err
    BY <1>1, <1>7, <1>9 DEF Ready
  <2>2. StoreLoaded(r.t, Tail(flash)) /\ FlashSet(r.t) /\ r.t.halted /\ AutoUsable(r)
    BY <1>4, <1>6, <1>7, <1>9, <2>1
    DEF StoreLoaded, MailboxSet, FlashSet, AutoUsable
  <2> QED
    BY <1>1, <1>4, <1>6, <1>7, <1>9, <2>1, <2>2 DEF StoreArmed
<1>11. StoreArmed(r, d, flash)
  <2>1. CASE r.setup /\ d.statetag = "WRSQ"
    BY <1>8, <2>1
  <2>2. CASE r.setup /\ d.statetag # "WRSQ"
    BY <1>9, <2>2
  <2>3. CASE ~r.setup
    BY <1>7, <2>3 DEF StoreArmed
  <2> QED
    BY <2>1, <2>2, <2>3
<1> QED
  BY <1>2, <1>7, <1>11

\* Loaded now or found to be loaded (bitbang_rvswdio.h:1073), the store program is in place.
LEMMA StorePlaced ==
  ASSUME NEW d, Good(d), NEW flash \in BOOLEAN, NEW glitch \in Glitches
  PROVE  LET s == IF StoreHits(d, flash) THEN d ELSE LoadStore(d, flash, glitch) IN
         s \in Device /\ StoreArmed(s, d, flash)
<1>1. d \in Device /\ Truthful(d)
  BY DEF Good
<1>2. CASE StoreHits(d, flash)
  <2>1. d.statetag = "WRSQ" /\ flash = d.lastwriteflags
    BY <1>2 DEF StoreHits
  <2>2. ASSUME d.setup PROVE StoreLoaded(d.t, Tail(flash))
    BY <1>1, <2>1, <2>2 DEF Truthful, Program, Tail
  <2>3. ASSUME d.setup
        PROVE  /\ FlashSet(d.t) /\ d.t.halted /\ AutoUsable(d)
               /\ flash => d.target_chip_type \in {Unknown, d.t.pb[3]}
               /\ d.t.auto = ~d.no_autoexec /\ (d.t.auto => d.t.cmd = "run")
    BY <1>1, <2>1, <2>3 DEF Truthful, SequenceTags
  <2>4. StoreArmed(d, d, flash)
    BY <2>1, <2>2, <2>3 DEF StoreArmed
  <2> QED
    BY <1>1, <1>2, <2>4
<1>3. CASE ~StoreHits(d, flash)
  BY <1>3, LoadStoreArmed
<1> QED
  BY <1>2, <1>3

\* WriteWord keeps statetag true, whatever glitch meets it.
LEMMA WriteWordKnownGood ==
  ASSUME NEW d, Good(d), NEW a \in Addr, NEW v \in Value, NEW glitch \in Glitches
  PROVE  Good(WriteWordKnown(d, a, v, glitch).dev)
<1> DEFINE flash == a \in FlashAddrs
           hit == StoreHits(d, flash)
           s == IF hit THEN d ELSE LoadStore(d, flash, glitch)
           p == [s.t EXCEPT !.d1 = IF hit /\ a = d.currentstateval THEN @ ELSE a]
           w == PutData0(p, v)
           u == IF s.no_autoexec THEN Execute(w)
                ELSE IF d.statetag # "WRSQ" THEN SetAuto(Execute(w), TRUE)
                ELSE w
           c == NextCursor(d, a, flash)
           b == ~u.err /\ (hit => d.sync /\ a = d.currentstateval)
           t == IF flash THEN DoneTarget(u, glitch) ELSE u
           e == [s EXCEPT !.statetag = "WRSQ", !.lastwriteflags = flash,
                          !.currentstateval = c, !.sync = b, !.t = t]
<1>0. d \in Device /\ Truthful(d) /\ d.currentstateval \in Addr \cup {-1}
  BY DeviceParts DEF Good
<1>2. WriteWordKnown(d, a, v, glitch).dev = e
  BY DEF WriteWordKnown, RunStore, StoreResult, Result
<1>4. b \in BOOLEAN /\ flash \in BOOLEAN
  OBVIOUS
<1> HIDE DEF flash, b
<1>1. s \in Device /\ StoreArmed(s, d, flash)
  BY <1>4, StorePlaced
<1>3. c \in Addr
  BY <1>0, DebugLinkAssumption DEF NextCursor, After, Addr
<1> HIDE DEF s, c
<1>5. s.t \in Target
  BY <1>1, DeviceParts
<1>6. /\ p \in Target /\ p.pb = s.t.pb /\ p.auto = s.t.auto /\ p.cmd = s.t.cmd
      /\ p.x = s.t.x /\ p.halted = s.t.halted /\ p.kind = s.t.kind /\ p.err = s.t.err
  BY <1>5 DEF Target
<1> HIDE DEF p
<1>7. /\ w \in Target /\ w.pb = p.pb /\ w.auto = p.auto /\ w.cmd = p.cmd
      /\ w.x = p.x /\ w.halted = p.halted /\ w.kind = p.kind
      /\ ~p.auto => w.err = p.err
  <2>1. w \in Target /\ SameSetting(w, p)
    BY <1>6, PutData0Type
  <2>2. ASSUME ~p.auto PROVE w.err = p.err
    BY <1>6, <2>2 DEF PutData0, Repeat, Target
  <2> QED
    BY <2>1, <2>2 DEF SameSetting
<1> HIDE DEF w
<1>8. /\ Execute(w) \in Target /\ Execute(w).pb = w.pb /\ Execute(w).auto = w.auto
      /\ Execute(w).x = w.x /\ Execute(w).halted = w.halted /\ Execute(w).kind = w.kind
      /\ Execute(w).cmd = IF w.err THEN w.cmd ELSE "run"
  BY <1>7, ExecuteType DEF SameSetting, Target
<1>9. /\ u \in Target /\ u.pb = s.t.pb /\ u.x = s.t.x
      /\ u.halted = s.t.halted /\ u.kind = s.t.kind
      /\ s.setup => u.auto = ~s.no_autoexec /\ (u.auto => u.cmd = "run")
  <2>1. CASE s.no_autoexec
    <3>1. u = Execute(w)
      BY <2>1
    <3>2. ASSUME s.setup PROVE ~s.t.auto
      BY <1>1, <2>1, <3>2 DEF StoreArmed
    <3> HIDE DEF u
    <3>3. u.auto = s.t.auto
      BY <1>6, <1>7, <1>8, <3>1
    <3>4. /\ u \in Target /\ u.pb = s.t.pb /\ u.x = s.t.x
          /\ u.halted = s.t.halted /\ u.kind = s.t.kind
      BY <1>6, <1>7, <1>8, <3>1
    <3>5. ASSUME s.setup PROVE u.auto = ~s.no_autoexec /\ (u.auto => u.cmd = "run")
      <4>1. u.auto \in BOOLEAN /\ s.no_autoexec \in BOOLEAN
        BY <1>1, <3>4, DeviceParts DEF Target
      <4>2. ~u.auto
        BY <3>2, <3>3, <3>5
      <4> QED
        BY <2>1, <4>1, <4>2
    <3> QED
      BY <3>4, <3>5
  <2>2. CASE ~s.no_autoexec /\ d.statetag # "WRSQ"
    <3>1. u = SetAuto(Execute(w), TRUE)
      BY <2>2
    <3>2. /\ u \in Target /\ u.auto = (s.t.kind \notin ManualKinds)
          /\ u.pb = s.t.pb /\ u.x = s.t.x /\ u.halted = s.t.halted
          /\ u.kind = s.t.kind /\ u.cmd = Execute(w).cmd
      <4>1. /\ SetAuto(Execute(w), TRUE) \in Target
            /\ SetAuto(Execute(w), TRUE).auto = (Execute(w).kind \notin ManualKinds)
            /\ SetAuto(Execute(w), TRUE).pb = Execute(w).pb
            /\ SetAuto(Execute(w), TRUE).x = Execute(w).x
            /\ SetAuto(Execute(w), TRUE).cmd = Execute(w).cmd
            /\ SetAuto(Execute(w), TRUE).halted = Execute(w).halted
            /\ SetAuto(Execute(w), TRUE).kind = Execute(w).kind
        BY <1>8, SetAutoType
      <4> QED
        BY <1>6, <1>7, <1>8, <3>1, <4>1
    <3>3. ASSUME s.setup PROVE u.auto = ~s.no_autoexec /\ u.cmd = "run"
      <4>1. AutoUsable(s) /\ ~s.t.auto /\ (s.t.cmd = "run" \/ ~s.t.err)
        BY <1>1, <2>2, <3>3 DEF StoreArmed
      <4> QED
        BY <1>6, <1>7, <1>8, <2>2, <3>2, <4>1 DEF AutoUsable
    <3> QED
      BY <3>2, <3>3
  <2>3. CASE ~s.no_autoexec /\ d.statetag = "WRSQ"
    BY <1>1, <1>6, <1>7, <2>3 DEF StoreArmed
  <2> QED
    BY <2>1, <2>2, <2>3
<1> HIDE DEF u
<1>10. t \in Target /\ Ran(t, u)
  BY <1>9, RunsRan DEF Ran
<1> HIDE DEF t, hit
<1>11. /\ e \in Device /\ e.t = t /\ e.statetag = "WRSQ" /\ e.lastwriteflags = flash
       /\ e.currentstateval = c /\ e.setup = s.setup /\ e.no_autoexec = s.no_autoexec
       /\ e.target_chip_type = s.target_chip_type
  BY <1>1, <1>3, <1>4, <1>10 DEF Device, Tags, SequenceTags
<1> HIDE DEF e
<1>12. ASSUME s.setup PROVE Truthful(e)
  <2>1. /\ StoreLoaded(s.t, Tail(flash)) /\ FlashSet(s.t) /\ s.t.halted
        /\ AutoUsable(s) /\ (flash => s.target_chip_type \in {Unknown, s.t.pb[3]})
    BY <1>1, <1>12 DEF StoreArmed
  <2>2. /\ StoreLoaded(t, Tail(flash)) /\ FlashSet(t) /\ t.halted /\ AutoUsable(e)
        /\ (flash => e.target_chip_type \in {Unknown, t.pb[3]})
    BY <1>9, <1>10, <1>11, <2>1
    DEF Ran, StoreLoaded, MailboxSet, FlashSet, AutoUsable
  <2>3. t.auto = ~e.no_autoexec /\ (t.auto => t.cmd = "run")
    BY <1>9, <1>10, <1>11, <1>12 DEF Ran
  <2> QED
    BY <1>3, <1>11, <2>2, <2>3
    DEF Truthful, Program, Tail, SequenceTags, FlashTags, SafeTags
<1>13. Good(e)
  <2>1. CASE s.setup
    BY <1>11, <1>12, <2>1 DEF Good
  <2>2. CASE ~s.setup
    BY <1>11, <2>2 DEF Good, Truthful
  <2> QED
    BY <2>1, <2>2
<1> QED
  BY <1>2, <1>13

-----------------------------------------------------------------------------
(***************************************************************************)
(* The other operations.                                                   *)
(***************************************************************************)
LEMMA VoidIsTruthful ==
  ASSUME NEW e, e.statetag \in {"XXXX", "none"}
  PROVE  Truthful(e)
  BY DEF Truthful, Program, SequenceTags, FlashTags, SafeTags

\* A disturbed device promises nothing.
LEMMA DisturbedIsTruthful ==
  ASSUME NEW e, ~e.setup
  PROVE  Truthful(e)
  BY DEF Truthful

\* The tags of the CH5xx stores and of the terminal need autoexec off.
LEMMA QuietIsTruthful ==
  ASSUME NEW e, e.statetag \in SafeTags \cup {"TERM"},
         e.setup => ~e.t.auto /\ (e.statetag \in SafeTags => e.t.pb[3] = e.statetag)
  PROVE  Truthful(e)
  BY DEF Truthful, Program, SequenceTags, FlashTags, SafeTags

\* The tags of the CH5xx flash programs need their program and x13.
LEMMA FlashIsTruthful ==
  ASSUME NEW e, e.statetag \in FlashTags,
         e.setup => /\ ~e.t.auto /\ e.t.x["x13"] = "FLASH"
                    /\ \A i \in 0 .. 3 : e.t.pb[i] = e.statetag
  PROVE  Truthful(e)
  BY DEF Truthful, Program, SequenceTags, FlashTags, SafeTags

\* Writing one PROGBUF register changes nothing else.
LEMMA PutSlot ==
  ASSUME NEW t \in Target, NEW i \in 0 .. 3, NEW code \in Code
  PROVE  LET u == [t EXCEPT !.pb[i] = code] IN
         /\ u \in Target /\ u.pb = [t.pb EXCEPT ![i] = code]
         /\ u.auto = t.auto /\ u.cmd = t.cmd /\ u.x = t.x /\ u.err = t.err
         /\ u.halted = t.halted /\ u.kind = t.kind /\ u.d0 = t.d0 /\ u.mem = t.mem
      /\ u.stray = t.stray
<1> DEFINE pb == [t.pb EXCEPT ![i] = code]
<1>1. pb \in [0 .. 3 -> Code]
  BY DEF Target
<1> HIDE DEF pb
<1>2. LET u == [t EXCEPT !.pb = pb] IN
      /\ u \in Target /\ u.pb = pb
      /\ u.auto = t.auto /\ u.cmd = t.cmd /\ u.x = t.x /\ u.err = t.err
      /\ u.halted = t.halted /\ u.kind = t.kind /\ u.d0 = t.d0 /\ u.mem = t.mem
      /\ u.stray = t.stray
  BY <1>1 DEF Target
<1> QED
  BY <1>2 DEF pb

\* Loading a byte program yields a target.
LEMMA LoadByteType ==
  ASSUME NEW d \in Device, NEW instruction \in {"lb", "sb"}
  PROVE  LoadByte(d, instruction) \in Target
<1> DEFINE t == SetAuto(d.t, FALSE)
           u == [t EXCEPT !.pb[0] = instruction]
           v == [u EXCEPT !.pb[1] = "end"]
<1>1. t \in Target
  BY DeviceParts, SetAutoType
<1>2. instruction \in Code /\ "end" \in Code
  BY DEF Code
<1> HIDE DEF t
<1>3. u \in Target
  BY <1>1, <1>2, PutSlot
<1> HIDE DEF u
<1>4. v \in Target
  BY <1>2, <1>3, PutSlot
<1>5. LoadByte(d, instruction) = PutData0(v, Junk)
  BY DEF LoadByte, t, u
<1> HIDE DEF v
<1> QED
  BY <1>4, <1>5, PutData0Type, JunkIsValue

\* Running it yields a target.
LEMMA RunByteType ==
  ASSUME NEW t \in Target, NEW a \in Addr
  PROVE  RunByte(t, a) \in Target
<1>1. t.mem[a] \in Value /\ [t.mem EXCEPT ![a] = t.d0] \in [Addr -> Value]
  BY DEF Target
<1>2. /\ [t EXCEPT !.err = TRUE] \in Target
      /\ [t EXCEPT !.err = TRUE, !.stray = TRUE] \in Target
      /\ [t EXCEPT !.err = TRUE, !.cmd = "run"] \in Target
  BY DEF Target
<1>3. [t EXCEPT !.d0 = t.mem[a], !.cmd = "transfer"] \in Target
  BY <1>1 DEF Target
<1>4. [t EXCEPT !.mem = [t.mem EXCEPT ![a] = t.d0], !.cmd = "transfer"] \in Target
  BY <1>1 DEF Target
<1> QED
  BY <1>2, <1>3, <1>4 DEF RunByte

\* A call that voids statetag ends in a good device.
LEMMA VoidDevice ==
  ASSUME NEW d \in Device, NEW t \in Target
  PROVE  Good([d EXCEPT !.statetag = "XXXX", !.currentstateval = -1, !.setup = TRUE,
                        !.sync = FALSE, !.t = t])
<1> DEFINE e == [d EXCEPT !.statetag = "XXXX", !.currentstateval = -1,
                          !.setup = TRUE, !.sync = FALSE, !.t = t]
<1>1. e \in Device /\ e.statetag = "XXXX"
  BY DEF Device, Tags
<1> HIDE DEF e
<1>2. Good(e)
  BY <1>1, VoidIsTruthful DEF Good
<1> QED
  BY <1>2 DEF e

\* ReadByte and WriteByte keep statetag true.
LEMMA BytesGood ==
  ASSUME NEW d \in Device, NEW a \in Addr, NEW v \in Value, NEW glitch \in Glitches
  PROVE  Good(ReadByteOf(d, a, glitch).dev) /\ Good(WriteByteOf(d, a, v, glitch).dev)
<1> DEFINE r == DoneTarget(RunByte(LoadByte(d, "lb"), a), glitch)
           w == DoneTarget(RunByte(PutData0(LoadByte(d, "sb"), v), a), glitch)
<1>1. r \in Target
  BY LoadByteType, RunByteType, RunsRan
<1>2. w \in Target
  BY LoadByteType, PutData0Type, RunByteType, RunsRan
<1>3. ReadByteOf(d, a, glitch).dev
        = [d EXCEPT !.statetag = "XXXX", !.currentstateval = -1, !.setup = TRUE,
                    !.sync = FALSE, !.t = r]
  BY DEF ReadByteOf, Result
<1>4. WriteByteOf(d, a, v, glitch).dev
        = [d EXCEPT !.statetag = "XXXX", !.currentstateval = -1, !.setup = TRUE,
                    !.sync = FALSE, !.t = w]
  BY DEF WriteByteOf, Result
<1> HIDE DEF r, w
<1> QED
  BY <1>1, <1>2, <1>3, <1>4, VoidDevice

\* What ch5xx_write_safe puts in x12 and x13.
LEMMA SafeRegistersType ==
  ASSUME NEW x \in [Registers -> RegisterValues]
  PROVE  [x EXCEPT !["x12"] = "other", !["x13"] = "SAFE"] \in [Registers -> RegisterValues]
  BY DEF RegisterValues

\* Its program changes only memory and cmderr.
LEMMA RunSafeType ==
  ASSUME NEW t \in Target, NEW a \in Addr, NEW v \in Value, NEW store \in SafeTags
  PROVE  LET u == RunSafe(t, a, v, store) IN
         u \in Target /\ u.pb = t.pb /\ u.auto = t.auto
<1>1. [t.mem EXCEPT ![a] = v] \in [Addr -> Value]
  BY DEF Target
<1>2. LET u == [t EXCEPT !.err = TRUE] IN u \in Target /\ u.pb = t.pb /\ u.auto = t.auto
  BY DEF Target
<1>3. LET u == [t EXCEPT !.err = TRUE, !.stray = TRUE]
      IN  u \in Target /\ u.pb = t.pb /\ u.auto = t.auto
  BY DEF Target
<1>4. LET u == [t EXCEPT !.err = TRUE, !.cmd = "run"]
      IN  u \in Target /\ u.pb = t.pb /\ u.auto = t.auto
  BY DEF Target
<1>5. LET u == [t EXCEPT !.mem = [t.mem EXCEPT ![a] = v], !.cmd = "run"]
      IN  u \in Target /\ u.pb = t.pb /\ u.auto = t.auto
  BY <1>1 DEF Target
<1> QED
  BY <1>2, <1>3, <1>4, <1>5 DEF RunSafe

\* ch5xx_write_safe keeps statetag true.
LEMMA WriteSafeGood ==
  ASSUME NEW d, Good(d), NEW a \in Addr, NEW v \in Value, NEW store \in SafeTags,
         NEW glitch \in Glitches
  PROVE  Good(WriteSafe(d, a, v, store, glitch).dev)
<1> DEFINE q == PutData0(SetAuto(d.t, FALSE), Junk)
           l0 == [q EXCEPT !.pb[0] = "safe"]
           l1 == [l0 EXCEPT !.pb[1] = "safe"]
           l == [l1 EXCEPT !.pb[2] = "safe"]
           s == IF d.statetag = store THEN l ELSE [l EXCEPT !.pb[3] = store]
           x == [s.x EXCEPT !["x12"] = "other", !["x13"] = "SAFE"]
           u == RunSafe(Transfer(s, x), a, v, store)
           t == DoneTarget(u, glitch)
           setup == IF d.statetag = store THEN d.setup ELSE TRUE
           e == [d EXCEPT !.statetag = store, !.currentstateval = -1, !.sync = FALSE,
                          !.setup = setup, !.t = t]
<1>0. d \in Device /\ Truthful(d) /\ d.t \in Target /\ d.setup \in BOOLEAN
  BY DeviceParts DEF Good
<1>1. q \in Target /\ ~q.auto /\ q.pb = d.t.pb
  <2>1. /\ SetAuto(d.t, FALSE) \in Target /\ ~SetAuto(d.t, FALSE).auto
        /\ SetAuto(d.t, FALSE).pb = d.t.pb
    BY <1>0, SetAutoType
  <2> QED
    BY <2>1, PutData0Type, JunkIsValue DEF SameSetting
<1>2. "safe" \in Code /\ store \in Code
  BY DEF Code, Tags, SafeTags
<1> HIDE DEF q
<1>3. l0 \in Target /\ ~l0.auto /\ l0.pb = [q.pb EXCEPT ![0] = "safe"]
  BY <1>1, <1>2, PutSlot
<1> HIDE DEF l0
<1>4. l1 \in Target /\ ~l1.auto /\ l1.pb = [l0.pb EXCEPT ![1] = "safe"]
  BY <1>2, <1>3, PutSlot
<1> HIDE DEF l1
<1>5. l \in Target /\ ~l.auto /\ l.pb = [l1.pb EXCEPT ![2] = "safe"]
  BY <1>2, <1>4, PutSlot
<1> HIDE DEF l
<1>6. l.pb[3] = d.t.pb[3]
  <2>1. d.t.pb \in [0 .. 3 -> Code]
    BY <1>0 DEF Target
  <2> QED
    BY <2>1, <1>1, <1>3, <1>4, <1>5
<1>7. /\ s \in Target /\ ~s.auto
      /\ s.pb[3] = IF d.statetag = store THEN d.t.pb[3] ELSE store
  <2>1. CASE d.statetag = store
    BY <1>5, <1>6, <2>1
  <2>2. CASE d.statetag # store
    <3>1. s = [l EXCEPT !.pb[3] = store]
      BY <2>2
    <3> HIDE DEF s
    <3>2. s \in Target /\ s.auto = l.auto /\ s.pb = [l.pb EXCEPT ![3] = store]
      BY <1>2, <1>5, <3>1, PutSlot
    <3>3. l.pb \in [0 .. 3 -> Code]
      BY <1>5 DEF Target
    <3>4. s.pb[3] = store
      BY <3>2, <3>3
    <3> QED
      BY <1>5, <2>2, <3>2, <3>4
  <2> QED
    BY <2>1, <2>2
<1> HIDE DEF s
<1>8. x \in [Registers -> RegisterValues]
  <2>1. s.x \in [Registers -> RegisterValues]
    BY <1>7 DEF Target
  <2> QED
    BY <2>1, SafeRegistersType
<1> HIDE DEF x
<1>9. /\ Transfer(s, x) \in Target /\ ~Transfer(s, x).auto
      /\ Transfer(s, x).pb = s.pb
  BY <1>7, <1>8, TransferType
<1>10. u \in Target /\ ~u.auto /\ u.pb = s.pb
  BY <1>9, RunSafeType
<1> HIDE DEF u
<1>11. t \in Target /\ ~t.auto /\ t.pb = s.pb
  BY <1>10, RunsRan DEF Ran
<1>12. WriteSafe(d, a, v, store, glitch).dev = e
  <2>1. setup = (d.statetag = store => d.setup)
    BY <1>0
  <2>2. [q EXCEPT !.pb[0] = "safe", !.pb[1] = "safe", !.pb[2] = "safe"] = l
    BY DEF l, l1, l0
  <2> QED
    BY <2>1, <2>2 DEF WriteSafe, Result, s, x, u, q
<1> HIDE DEF t
<1>13. setup \in BOOLEAN
  BY <1>0
<1> HIDE DEF setup
<1>14. e \in Device /\ e.t = t /\ e.statetag = store /\ e.setup = setup
  BY <1>0, <1>11, <1>13 DEF Device, Tags
<1> HIDE DEF e
<1>15. ASSUME setup PROVE t.pb[3] = store
  <2>1. CASE d.statetag = store
    BY <1>0, <1>7, <1>11, <1>15, <2>1 DEF setup, Truthful, Program
  <2>2. CASE d.statetag # store
    BY <1>7, <1>11, <2>2
  <2> QED
    BY <2>1, <2>2
<1>16. Truthful(e)
  BY <1>11, <1>14, <1>15, QuietIsTruthful
<1> QED
  BY <1>12, <1>14, <1>16 DEF Good

\* A CH5xx flash program changes only cmderr.
LEMMA RunFlashType ==
  ASSUME NEW t \in Target, NEW op \in FlashTags
  PROVE  LET u == RunFlash(t, op) IN
         u \in Target /\ u.pb = t.pb /\ u.auto = t.auto /\ u.x = t.x
  BY DEF RunFlash, Target

\* The tag names the loaded program and x13 points at the flash controller.
FlashArmed(d, op) ==
  d.setup => ~d.t.auto /\ d.t.x["x13"] = "FLASH" /\ \A i \in 0 .. 3 : d.t.pb[i] = op

\* A CH5xx flash call has its program and x13 in place after loading.
LEMMA LoadFlashArmed ==
  ASSUME NEW d, Good(d), NEW op \in FlashTags
  PROVE  /\ LoadFlash(d, op) \in Device /\ LoadFlash(d, op).statetag = op
         /\ FlashArmed(LoadFlash(d, op), op)
<1> DEFINE q == PutData0(SetAuto(d.t, FALSE), Junk)
           x == [q.x EXCEPT !["x13"] = "FLASH"]
           l == IF d.statetag \in FlashTags THEN d.t ELSE Transfer(q, x)
           pb == [i \in 0 .. 3 |-> op]
           t == IF d.statetag = op THEN l ELSE [l EXCEPT !.pb = pb]
           setup == IF d.statetag \in FlashTags THEN d.setup ELSE ~l.err
           e == [d EXCEPT !.statetag = op, !.setup = setup, !.t = t]
<1>0. d \in Device /\ Truthful(d) /\ d.t \in Target /\ d.setup \in BOOLEAN
  BY DeviceParts DEF Good
<1>1. q \in Target /\ ~q.auto /\ q.x = d.t.x
  <2>1. /\ SetAuto(d.t, FALSE) \in Target /\ ~SetAuto(d.t, FALSE).auto
        /\ SetAuto(d.t, FALSE).x = d.t.x
    BY <1>0, SetAutoType
  <2> QED
    BY <2>1, PutData0Type, JunkIsValue DEF SameSetting
<1>2. LoadFlash(d, op) = e
  BY DEF LoadFlash
<1> HIDE DEF q
<1>3. x \in [Registers -> RegisterValues] /\ x["x13"] = "FLASH"
  <2>1. q.x \in [Registers -> RegisterValues]
    BY <1>1 DEF Target
  <2> QED
    BY <2>1 DEF Registers, RegisterValues
<1> HIDE DEF x
<1>4. /\ Transfer(q, x) \in Target /\ ~Transfer(q, x).auto
      /\ ~Transfer(q, x).err => Transfer(q, x).x = x
  BY <1>1, <1>3, TransferType
<1>5. l \in Target
  BY <1>0, <1>4
<1>6. setup => ~l.auto /\ l.x["x13"] = "FLASH"
  <2>1. CASE d.statetag \in FlashTags
    BY <1>0, <2>1 DEF Truthful, Program
  <2>2. CASE d.statetag \notin FlashTags
    BY <1>3, <1>4, <2>2
  <2> QED
    BY <2>1, <2>2
<1>7. setup \in BOOLEAN
  BY <1>0
<1>8. d.statetag = op /\ setup => \A i \in 0 .. 3 : l.pb[i] = op
  BY <1>0 DEF Truthful, Program
<1> HIDE DEF l, setup
<1>9. pb \in [0 .. 3 -> Code] /\ \A i \in 0 .. 3 : pb[i] = op
  BY DEF Code, Tags
<1> HIDE DEF pb
<1>10. /\ t \in Target /\ t.auto = l.auto /\ t.x = l.x
       /\ t.pb = IF d.statetag = op THEN l.pb ELSE pb
  BY <1>5, <1>9 DEF Target
<1> HIDE DEF t
<1>11. e \in Device /\ e.t = t /\ e.statetag = op /\ e.setup = setup
  BY <1>0, <1>7, <1>10 DEF Device, Tags
<1> HIDE DEF e
<1>12. FlashArmed(e, op)
  BY <1>6, <1>8, <1>9, <1>10, <1>11 DEF FlashArmed
<1> QED
  BY <1>2, <1>11, <1>12

\* The CH5xx flash calls keep statetag true.
LEMMA FlashOpGood ==
  ASSUME NEW d, Good(d), NEW op \in FlashTags, NEW glitch \in Glitches
  PROVE  Good(FlashOp(d, op, glitch).dev)
<1> DEFINE l == LoadFlash(d, op)
           p == IF op \in {"FBEG", "FOUT"} THEN PutData0(l.t, Junk) ELSE l.t
           u == RunFlash(p, op)
           t == IF op # "FLIN" THEN u
                ELSE IF DoneStatus(u, glitch) = "ok"
                THEN [u EXCEPT !.d0 = Junk, !.cmd = "transfer"]
                ELSE DoneTarget(u, glitch)
           e == [l EXCEPT !.t = t]
<1>1. l \in Device /\ l.statetag = op /\ FlashArmed(l, op) /\ l.t \in Target
  BY LoadFlashArmed, DeviceParts
<1>2. FlashOp(d, op, glitch).dev = e
  BY DEF FlashOp, Result
<1> HIDE DEF l
<1>3. p \in Target /\ p.pb = l.t.pb /\ p.auto = l.t.auto /\ p.x = l.t.x
  BY <1>1, PutData0Type, JunkIsValue DEF SameSetting
<1> HIDE DEF p
<1>4. u \in Target /\ u.pb = l.t.pb /\ u.auto = l.t.auto /\ u.x = l.t.x
  BY <1>3, RunFlashType
<1> HIDE DEF u
<1>5. t \in Target /\ t.pb = l.t.pb /\ t.auto = l.t.auto /\ t.x = l.t.x
  <2>1. LET v == [u EXCEPT !.d0 = Junk, !.cmd = "transfer"] IN
        v \in Target /\ v.pb = u.pb /\ v.auto = u.auto /\ v.x = u.x
    BY <1>4, JunkIsValue DEF Target
  <2>2. LET v == DoneTarget(u, glitch) IN
        v \in Target /\ v.pb = u.pb /\ v.auto = u.auto /\ v.x = u.x
    BY <1>4, RunsRan DEF Ran
  <2> QED
    BY <1>4, <2>1, <2>2
<1> HIDE DEF t
<1>6. e \in Device /\ e.t = t /\ e.statetag = op /\ e.setup = l.setup
  BY <1>1, <1>5 DEF Device
<1> HIDE DEF e
<1>7. Truthful(e)
  BY <1>1, <1>5, <1>6, FlashIsTruthful DEF FlashArmed
<1> QED
  BY <1>2, <1>6, <1>7 DEF Good

\* PollTerminal keeps statetag true.
LEMMA PollTerminalGood ==
  ASSUME NEW d, Good(d), NEW ack \in BOOLEAN, NEW both \in BOOLEAN
  PROVE  Good(PollTerminalOf(d, ack, both).dev)
<1> DEFINE u == IF d.statetag = "TERM" THEN d.t ELSE SetAuto(d.t, FALSE)
           r == Repeat(u)
           b == IF ack /\ both THEN [r EXCEPT !.d1 = Junk] ELSE r
           t == IF ack THEN PutData0(b, Junk) ELSE b
           setup == IF d.statetag = "TERM" THEN d.setup ELSE TRUE
           e == [d EXCEPT !.statetag = "TERM", !.sync = FALSE, !.setup = setup, !.t = t]
<1>0. d \in Device /\ Truthful(d) /\ d.t \in Target /\ d.setup \in BOOLEAN
  BY DeviceParts DEF Good
<1>1. PollTerminalOf(d, ack, both).dev = e
  <2>1. setup = (d.statetag = "TERM" => d.setup)
    BY <1>0
  <2> QED
    BY <2>1 DEF PollTerminalOf, Result
<1>2. u \in Target /\ (setup => ~u.auto)
  <2>1. CASE d.statetag = "TERM"
    BY <1>0, <2>1 DEF Truthful
  <2>2. CASE d.statetag # "TERM"
    BY <1>0, <2>2, SetAutoType
  <2> QED
    BY <2>1, <2>2
<1>3. setup \in BOOLEAN
  BY <1>0
<1> HIDE DEF u, setup
<1>4. r \in Target /\ r.auto = u.auto
  BY <1>2, RunsRan DEF Ran
<1> HIDE DEF r
<1>5. b \in Target /\ b.auto = u.auto
  BY <1>4 DEF Target
<1> HIDE DEF b
<1>6. t \in Target /\ t.auto = u.auto
  BY <1>5, PutData0Type, JunkIsValue DEF SameSetting
<1> HIDE DEF t
<1>7. e \in Device /\ e.t = t /\ e.statetag = "TERM" /\ e.setup = setup
  BY <1>0, <1>3, <1>6 DEF Device, Tags
<1> HIDE DEF e
<1>8. Truthful(e)
  BY <1>2, <1>6, <1>7, QuietIsTruthful DEF SafeTags
<1> QED
  BY <1>1, <1>7, <1>8 DEF Good

-----------------------------------------------------------------------------
(***************************************************************************)
(* Identification, and the calls that may need it.                         *)
(***************************************************************************)
LEMMA InitializeSWDSWIOGood ==
  ASSUME NEW d, Good(d), NEW found \in BOOLEAN, NEW trap \in BOOLEAN
  PROVE  Good(InitializeSWDSWIOOf(d, found, trap))
<1> DEFINE clears == found /\ trap /\ d.t.kind \in TwoWireKinds
           t == [d.t EXCEPT !.err = IF clears THEN FALSE ELSE @]
           e == [d EXCEPT !.target_chip_type = Unknown, !.opmode = found, !.t = t]
<1>0. d \in Device /\ Truthful(d) /\ d.t \in Target
  BY DeviceParts DEF Good
<1>1. InitializeSWDSWIOOf(d, found, trap) = e
  BY DEF InitializeSWDSWIOOf
<1>2. /\ t \in Target /\ t.pb = d.t.pb /\ t.auto = d.t.auto /\ t.x = d.t.x
      /\ t.halted = d.t.halted /\ t.kind = d.t.kind /\ t.cmd = d.t.cmd
  BY <1>0 DEF Target
<1> HIDE DEF t
<1>3. /\ e \in Device /\ e.t = t /\ e.statetag = d.statetag /\ e.setup = d.setup
      /\ e.currentstateval = d.currentstateval /\ e.lastwriteflags = d.lastwriteflags
      /\ e.autoincrement = d.autoincrement /\ e.no_autoexec = d.no_autoexec
      /\ e.target_chip_type = Unknown
  BY <1>0, <1>2 DEF Device, Chips
<1> HIDE DEF e
<1>4. Truthful(e)
  <2>1. SUFFICES ASSUME e.setup PROVE Truthful(e)
    BY DEF Truthful
  <2>2. Program(e)
    BY <1>0, <1>2, <1>3, <2>1
    DEF Truthful, Program, ReadLoaded, StoreLoaded, MailboxSet
  <2> QED
    BY <1>0, <1>2, <1>3, <2>1, <2>2 DEF Truthful, FlashSet, AutoUsable
<1> QED
  BY <1>1, <1>3, <1>4 DEF Good

\* Probing the identification registers voids statetag.
LEMMA ProbeGood ==
  ASSUME NEW d \in Device, NEW recognised \in BOOLEAN
  PROVE  Good(Probe(d, recognised))
<1> DEFINE h == [d.t EXCEPT !.halted = TRUE]
           r == Repeat(h)
           r0 == [r EXCEPT !.pb[0] = "other"]
           r1 == [r0 EXCEPT !.pb[1] = "end"]
           u == [r1 EXCEPT !.auto = FALSE, !.err = FALSE, !.cmd = "transfer",
                           !.d0 = d.t.d0]
           s == [d EXCEPT !.statetag = "XXXX", !.setup = TRUE, !.t = u]
           e == IF recognised
                THEN [s EXCEPT !.target_chip_type = u.kind,
                               !.no_autoexec = @ \/ u.kind \in ManualKinds]
                ELSE s
<1>1. h \in Target /\ d.t.d0 \in Value
  BY DeviceParts DEF Target
<1> HIDE DEF h
<1>2. r \in Target
  BY <1>1, RunsRan
<1> HIDE DEF r
<1>3. r0 \in Target
  BY <1>2, PutSlot DEF Code
<1> HIDE DEF r0
<1>4. r1 \in Target
  BY <1>3, PutSlot DEF Code
<1>5. Probe(d, recognised) = e
  <2>1. u = [r EXCEPT !.auto = FALSE, !.err = FALSE, !.cmd = "transfer",
                      !.pb[0] = "other", !.pb[1] = "end", !.d0 = d.t.d0]
    BY DEF u, r1, r0
  <2> HIDE DEF u
  <2> QED
    BY <2>1 DEF Probe, h, r
<1> HIDE DEF r1
<1>6. u \in Target /\ u.kind \in Kinds
  BY <1>1, <1>4 DEF Target
<1> HIDE DEF u
<1>7. s \in Device /\ s.statetag = "XXXX" /\ s.no_autoexec \in BOOLEAN
  BY <1>6 DEF Device, Tags
<1> HIDE DEF s
<1>8. e \in Device /\ e.statetag = "XXXX"
  BY <1>6, <1>7 DEF Device, Chips
<1> HIDE DEF e
<1> QED
  BY <1>5, <1>8, VoidIsTruthful DEF Good

\* ch5xx_set_clock composes good calls.
LEMMA SetClockGood ==
  ASSUME NEW d, Good(d), NEW outcome \in Outcomes
  PROVE  Good(SetClock(d, outcome))
<1> DEFINE r == ReadWordKnown(d, ClockAddr, "none").dev
           b == WriteSafe(r, ClockAddr, Junk, "5WBS", "none").dev
           h == WriteSafe(b, ClockAddr, Junk, "5WHS", "none").dev
           w == WriteWordKnown(b, ClockAddr, Junk, "none").dev
<1>1. /\ ClockAddr \in Addr /\ "none" \in Glitches
      /\ "5WBS" \in SafeTags /\ "5WHS" \in SafeTags
  BY DebugLinkAssumption, GlitchAssumption DEF SafeTags
<1>2. Good(r)
  BY <1>1, ReadWordKnownGood
<1> HIDE DEF r
<1>3. Good(b)
  BY <1>1, <1>2, WriteSafeGood, JunkIsValue
<1> HIDE DEF b
<1>4. Good(h)
  BY <1>1, <1>3, WriteSafeGood, JunkIsValue
<1>5. Good(w)
  BY <1>1, <1>3, WriteWordKnownGood, JunkIsValue
<1> HIDE DEF h, w
<1>6. \/ SetClock(d, outcome) = r \/ SetClock(d, outcome) = b
      \/ SetClock(d, outcome) = h \/ SetClock(d, outcome) = w
  BY DEF SetClock, ClockWritten, r, b, h, w
<1> QED
  BY <1>2, <1>3, <1>4, <1>5, <1>6

\* So does DetermineChipTypeAndSectorInfo.
LEMMA IdentifyGood ==
  ASSUME NEW d, Good(d), NEW outcome \in Outcomes
  PROVE  Good(Identify(d, outcome))
<1> DEFINE s == Attach(d, outcome)
           p == Probe(s, outcome # "unrecognised")
<1>1. Good(s)
  BY InitializeSWDSWIOGood DEF Attach
<1> HIDE DEF s
<1>2. Good(p)
  BY <1>1, ProbeGood DEF Good
<1> HIDE DEF p
<1>3. Good(SetClock(p, outcome))
  BY <1>2, SetClockGood
<1> QED
  BY <1>1, <1>2, <1>3 DEF Identify, s, p

\* A call that identifies the chip first goes on with a good device.
LEMMA IdentifiedGood ==
  ASSUME NEW d, Good(d), NEW needed \in BOOLEAN, NEW outcome \in Outcomes
  PROVE  Good(Identified(d, needed, outcome))
<1> DEFINE i == Identify(d, outcome)
           e == [i EXCEPT !.statetag = "XXXX"]
<1>1. i \in Device
  BY IdentifyGood DEF Good
<1> HIDE DEF i
<1>2. e \in Device /\ e.statetag = "XXXX"
  BY <1>1 DEF Device, Tags
<1> HIDE DEF e
<1>3. Good(e)
  BY <1>2, VoidIsTruthful DEF Good
<1> QED
  BY <1>3 DEF Identified, e, i

\* With no interface found the cache promises nothing.
LEMMA SentGood ==
  ASSUME NEW d \in Device, NEW r, Good(r.dev), NEW status
  PROVE  Good(Sent(d, r, status).dev)
<1>1. CASE d.opmode
  BY <1>1 DEF Sent
<1>2. CASE ~d.opmode
  <2> DEFINE e == [r.dev EXCEPT !.t = d.t, !.setup = FALSE, !.sync = FALSE]
  <2>1. e \in Device /\ ~e.setup
    BY DeviceParts DEF Good, Device
  <2> HIDE DEF e
  <2>2. Good(e)
    BY <2>1, DisturbedIsTruthful DEF Good
  <2>3. Sent(d, r, status).dev = e
    BY <1>2 DEF Sent, Result, e
  <2> QED
    BY <2>2, <2>3
<1> QED
  BY <1>1, <1>2

\* ReadWord, identification included.
LEMMA ReadWordOfGood ==
  ASSUME NEW d, Good(d), NEW a \in Addr, NEW outcome \in Outcomes, NEW glitch \in Glitches
  PROVE  Good(ReadWordOf(d, a, outcome, glitch).dev)
<1> DEFINE s == Identified(d, ReadNeedsChip(d, a), outcome)
           r == ReadWordKnown(s, a, glitch)
<1>1. Good(Refused(d, outcome).dev)
  BY IdentifyGood DEF Refused, Result
<1>2. Good(s)
  <2>1. ReadNeedsChip(d, a) \in BOOLEAN
    BY DEF ReadNeedsChip
  <2> QED
    BY <2>1, IdentifiedGood
<1> HIDE DEF s
<1>3. Good(r.dev)
  BY <1>2, ReadWordKnownGood
<1> HIDE DEF r
<1>4. Good(Sent(s, r, "link").dev)
  BY <1>2, <1>3, SentGood DEF Good
<1> QED
  BY <1>1, <1>4 DEF ReadWordOf, s, r

\* WriteWord, identification included.
LEMMA WriteWordOfGood ==
  ASSUME NEW d, Good(d), NEW a \in Addr, NEW v \in Value, NEW outcome \in Outcomes,
         NEW glitch \in Glitches
  PROVE  Good(WriteWordOf(d, a, v, outcome, glitch).dev)
<1> DEFINE q == IF StoreNeedsChip(d) /\ d.opmode
                THEN [d EXCEPT !.t = SetAuto(d.t, FALSE)] ELSE d
           s == Identified(q, StoreNeedsChip(d), outcome)
           r == WriteWordKnown(s, a, v, glitch)
           status == IF a \in FlashAddrs THEN "link" ELSE "ok"
<1>1. Good(q)
  <2>1. CASE StoreNeedsChip(d) /\ d.opmode
    <3> DEFINE t == SetAuto(d.t, FALSE)
    <3>0. d \in Device /\ Truthful(d) /\ d.t \in Target /\ d.statetag \notin SequenceTags
      BY <2>1, DeviceParts DEF Good, StoreNeedsChip
    <3>1. /\ t \in Target /\ ~t.auto /\ t.pb = d.t.pb /\ t.x = d.t.x
      BY <3>0, SetAutoType
    <3>2. q = [d EXCEPT !.t = t]
      BY <2>1
    <3> HIDE DEF t, q
    <3>3. /\ q \in Device /\ q.t = t /\ q.statetag = d.statetag /\ q.setup = d.setup
      BY <3>0, <3>1, <3>2 DEF Device
    <3>4. Truthful(q)
      BY <3>0, <3>1, <3>3 DEF Truthful, Program, SequenceTags
    <3> QED
      BY <3>3, <3>4 DEF Good
  <2>2. CASE ~(StoreNeedsChip(d) /\ d.opmode)
    BY <2>2
  <2> QED
    BY <2>1, <2>2
<1> HIDE DEF q
<1>2. Good(Refused(q, outcome).dev)
  BY <1>1, IdentifyGood DEF Refused, Result
<1>3. Good(s)
  <2>1. StoreNeedsChip(d) \in BOOLEAN
    BY DEF StoreNeedsChip
  <2> QED
    BY <1>1, <2>1, IdentifiedGood
<1> HIDE DEF s
<1>4. Good(r.dev)
  BY <1>3, WriteWordKnownGood
<1> HIDE DEF r
<1>5. Good(Sent(s, r, status).dev)
  BY <1>3, <1>4, SentGood DEF Good
<1> QED
  BY <1>2, <1>5 DEF WriteWordOf, q, s, r

-----------------------------------------------------------------------------
(***************************************************************************)
(* The steps of Next.                                                      *)
(***************************************************************************)
Inv == TypeOK /\ TagTellsTheTruth

\* The outcomes offered to a call are outcomes of an identification.
LEMMA IdentificationsAreOutcomes ==
  ASSUME NEW d, NEW needed, NEW outcome \in IdentificationsOf(d, needed)
  PROVE  outcome \in Outcomes
  BY DEF IdentificationsOf, Outcomes, Failures

\* A step that ends in a good device keeps the invariant.
LEMMA BecomesGood ==
  ASSUME Inv, NEW d, Good(d), NEW stores, Becomes(d, stores)
  PROVE  Inv'
<1>1. StatusOf(d) \in [StatusAddrs -> SUBSET Value]
  <2>1. d.t.mem \in [Addr -> Value] /\ StatusAddrs \subseteq Addr
    BY DeviceParts, DebugLinkAssumption DEF Good, Target
  <2> QED
    BY <2>1 DEF StatusOf
<1>2. seen' \in [StatusAddrs -> SUBSET Value]
  BY <1>1 DEF Becomes, Inv, TypeOK
<1>3. dev' = d
  BY DEF Becomes
<1>4. dev' \in Device /\ Truthful(dev')
  BY <1>3 DEF Good
<1> QED
  BY <1>2, <1>4 DEF Inv, TypeOK, TagTellsTheTruth

\* The invariant says that the device is good.
LEMMA InvIsGood == Inv => Good(dev)
  BY DEF Inv, TypeOK, TagTellsTheTruth, Good

\* What is not sent for want of an interface is still accounted for.
LEMMA SentKeepsInv ==
  ASSUME Inv, NEW r, Good(r.dev), NEW status, NEW stores,
         Becomes(Sent(dev, r, status).dev, stores)
  PROVE  Inv'
  BY InvIsGood, SentGood, BecomesGood DEF Good

\* Clearing cmderr (WaitForDoneOp alone) leaves what statetag says in place.
LEMMA ClearedIsGood ==
  ASSUME NEW d, Good(d)
  PROVE  Good([d EXCEPT !.t.err = FALSE])
<1> DEFINE t == [d.t EXCEPT !.err = FALSE]
           e == [d EXCEPT !.t = t]
<1>1. d \in Device /\ Truthful(d) /\ d.t \in Target
  BY DeviceParts DEF Good
<1>2. t \in Target /\ Ran(t, d.t)
  BY <1>1 DEF Target, Ran
<1> HIDE DEF t
<1>3. /\ e \in Device /\ e.t = t /\ e.setup = d.setup /\ e.statetag = d.statetag
      /\ e.lastwriteflags = d.lastwriteflags /\ e.autoincrement = d.autoincrement
      /\ e.no_autoexec = d.no_autoexec /\ e.target_chip_type = d.target_chip_type
      /\ e.currentstateval = d.currentstateval
  BY <1>1, <1>2 DEF Device
<1>4. e.setup /\ e.statetag \in SequenceTags => e.currentstateval \in Addr
  BY <1>1, <1>3 DEF Truthful
<1>5. [d EXCEPT !.t.err = FALSE] = e
  BY DEF e, t
<1> HIDE DEF e
<1>6. Truthful(e)
  <2>1. CASE e.setup
    BY <1>1, <1>2, <1>3, <1>4, <2>1, TruthfulAfterRun
  <2>2. CASE ~e.setup
    BY <2>2 DEF Truthful
  <2> QED
    BY <2>1, <2>2
<1> QED
  BY <1>3, <1>5, <1>6 DEF Good

\* Forgetting everything that was set up (ResetInternalProgrammingState).
LEMMA ResetIsGood ==
  ASSUME NEW d \in Device
  PROVE  Good(ResetInternalProgrammingStateOf(d))
<1> DEFINE e == ResetInternalProgrammingStateOf(d)
<1>1. 0 \in Addr
  BY DebugLinkAssumption DEF Addr
<1>2. e \in Device /\ e.statetag = "none"
  BY <1>1 DEF Device, Tags, ResetInternalProgrammingStateOf
<1> HIDE DEF e
<1>3. Good(e)
  BY <1>2, VoidIsTruthful DEF Good
<1> QED
  BY <1>3 DEF e

\* Choosing the kind of the chip by hand makes only the flash tail doubtful.
LEMMA OverriddenIsGood ==
  ASSUME NEW d, Good(d), NEW kind \in Chips
  PROVE  Good([d EXCEPT !.target_chip_type = kind,
                        !.setup = @ /\ d.statetag # "WRSQ"])
<1> DEFINE setup == d.setup /\ d.statetag # "WRSQ"
           e == [d EXCEPT !.target_chip_type = kind, !.setup = setup]
<1>0. d \in Device /\ Truthful(d) /\ d.setup \in BOOLEAN
  BY DeviceParts DEF Good
<1>1. setup \in BOOLEAN /\ (setup => d.setup /\ d.statetag # "WRSQ")
  OBVIOUS
<1> HIDE DEF setup
<1>2. /\ e \in Device /\ e.setup = setup /\ e.statetag = d.statetag /\ e.t = d.t
      /\ e.autoincrement = d.autoincrement /\ e.no_autoexec = d.no_autoexec
      /\ e.currentstateval = d.currentstateval
  BY <1>0, <1>1 DEF Device, Chips
<1> HIDE DEF e
<1>3. Truthful(e)
  <2>1. SUFFICES ASSUME e.setup PROVE Truthful(e)
    BY DEF Truthful
  <2>2. d.setup /\ e.statetag # "WRSQ"
    BY <1>1, <1>2, <2>1
  <2>3. Program(e)
    BY <1>0, <1>2, <2>2 DEF Truthful, Program
  <2> QED
    BY <1>0, <1>2, <2>2, <2>3 DEF Truthful, AutoUsable
<1>4. Good(e)
  BY <1>2, <1>3 DEF Good
<1> QED
  BY <1>4 DEF e, setup

\* Writing PROGBUF past the cache voids statetag.
LEMMA RawProgbufIsGood ==
  ASSUME NEW d \in Device, NEW i \in 0 .. 3
  PROVE  Good([d EXCEPT !.statetag = "XXXX", !.setup = TRUE,
                        !.t.pb[i] = IF d.opmode THEN "other" ELSE @])
<1> DEFINE code == IF d.opmode THEN "other" ELSE d.t.pb[i]
           t == [d.t EXCEPT !.pb[i] = code]
           e == [d EXCEPT !.statetag = "XXXX", !.setup = TRUE, !.t = t]
<1>1. code \in Code /\ d.t \in Target
  BY DeviceParts DEF Target, Code
<1>2. t = [d.t EXCEPT !.pb[i] = IF d.opmode THEN "other" ELSE @]
  BY <1>1 DEF Target
<1>3. [d EXCEPT !.statetag = "XXXX", !.setup = TRUE,
                !.t.pb[i] = IF d.opmode THEN "other" ELSE @] = e
  <2> DEFINE s == [d EXCEPT !.statetag = "XXXX", !.setup = TRUE]
  <2>1. s.t = d.t
    OBVIOUS
  <2>2. [d EXCEPT !.statetag = "XXXX", !.setup = TRUE,
                  !.t.pb[i] = IF d.opmode THEN "other" ELSE @]
          = [s EXCEPT !.t.pb[i] = code]
    OBVIOUS
  <2>3. e = [s EXCEPT !.t = t]
    OBVIOUS
  <2> HIDE DEF s, e, code
  <2> QED
    BY <2>1, <2>2, <2>3
<1> HIDE DEF code
<1>4. t \in Target
  BY <1>1, PutSlot
<1> HIDE DEF t
<1>5. e \in Device /\ e.statetag = "XXXX"
  BY <1>4 DEF Device, Tags
<1> HIDE DEF e
<1>6. Good(e)
  BY <1>5, VoidIsTruthful DEF Good
<1> QED
  BY <1>3, <1>6

\* A disturbed device only has to have the shape of one.
LEMMA DisturbedDevice ==
  ASSUME NEW d \in Device, NEW t \in Target
  PROVE  Good([d EXCEPT !.t = t, !.setup = FALSE, !.sync = FALSE])
<1> DEFINE e == [d EXCEPT !.t = t, !.setup = FALSE, !.sync = FALSE]
<1>1. e \in Device /\ ~e.setup
  BY DEF Device
<1> HIDE DEF e
<1>2. Good(e)
  BY <1>1, DisturbedIsTruthful DEF Good
<1> QED
  BY <1>2 DEF e

\* A target that has just been powered.
LEMMA PowerOnType ==
  ASSUME NEW kind \in Kinds, NEW mem \in [Addr -> Value]
  PROVE  PowerOnTarget(kind, mem) \in Target
<1>1. /\ [i \in 0 .. 3 |-> "other"] \in [0 .. 3 -> Code]
      /\ [r \in Registers |-> "other"] \in [Registers -> RegisterValues]
  BY DEF Code, RegisterValues
<1> QED
  BY <1>1, JunkIsValue DEF PowerOnTarget, Target

\* Every step keeps the invariant: one step of the proof per action.
LEMMA NextKeepsInv == ASSUME Inv, Next PROVE Inv'
<1>0. Good(dev) /\ dev \in Device /\ dev.t \in Target
  BY InvIsGood, DeviceParts DEF Good
<1>1. ASSUME NEW a \in Addr, ReadWord(a) PROVE Inv'
  <2>1. PICK outcome \in IdentificationsOf(dev, ReadNeedsChip(dev, a)), glitch \in Glitches :
          Becomes(ReadWordOf(dev, a, outcome, glitch).dev, FALSE)
    BY <1>1 DEF ReadWord
  <2>2. Good(ReadWordOf(dev, a, outcome, glitch).dev)
    BY <1>0, IdentificationsAreOutcomes, ReadWordOfGood
  <2> QED
    BY <2>1, <2>2, BecomesGood
<1>2. ASSUME NEW a \in Addr, ReadByte(a) PROVE Inv'
  <2>1. PICK glitch \in Glitches :
          Becomes(Sent(dev, ReadByteOf(dev, a, glitch), "link").dev, FALSE)
    BY <1>2 DEF ReadByte
  <2>2. Good(ReadByteOf(dev, a, glitch).dev)
    BY <1>0, JunkIsValue, BytesGood
  <2> QED
    BY <2>1, <2>2, SentKeepsInv
<1>3. ASSUME NEW a \in Addr, NEW v \in Words, WriteWord(a, v) PROVE Inv'
  <2>1. PICK outcome \in IdentificationsOf(dev, StoreNeedsChip(dev)), glitch \in Glitches :
          Becomes(WriteWordOf(dev, a, v, outcome, glitch).dev, TRUE)
    BY <1>3 DEF WriteWord
  <2>2. Good(WriteWordOf(dev, a, v, outcome, glitch).dev)
    BY <1>0, IdentificationsAreOutcomes, WriteWordOfGood DEF Value
  <2> QED
    BY <2>1, <2>2, BecomesGood
<1>4. ASSUME NEW a \in Addr, NEW v \in Words, WriteByte(a, v) PROVE Inv'
  <2>1. PICK glitch \in Glitches :
          Becomes(Sent(dev, WriteByteOf(dev, a, v, glitch), "link").dev, TRUE)
    BY <1>4 DEF WriteByte
  <2>2. Good(WriteByteOf(dev, a, v, glitch).dev)
    BY <1>0, BytesGood DEF Value
  <2> QED
    BY <2>1, <2>2, SentKeepsInv
<1>5. ASSUME NEW a \in Addr, NEW store \in SafeTags, SafeCall(a, store) PROVE Inv'
  <2>1. PICK glitch \in Glitches :
          Becomes(Sent(dev, WriteSafe(dev, a, Junk, store, glitch), "ok").dev, TRUE)
    BY <1>5 DEF SafeCall
  <2>2. Good(WriteSafe(dev, a, Junk, store, glitch).dev)
    BY <1>0, JunkIsValue, WriteSafeGood
  <2> QED
    BY <2>1, <2>2, SentKeepsInv
<1>6. ASSUME NEW op \in FlashTags, FlashCall(op) PROVE Inv'
  <2>1. PICK glitch \in Glitches :
          Becomes(Sent(dev, FlashOp(dev, op, glitch), "ok").dev, FALSE)
    BY <1>6 DEF FlashCall
  <2>2. Good(FlashOp(dev, op, glitch).dev)
    BY <1>0, FlashOpGood
  <2> QED
    BY <2>1, <2>2, SentKeepsInv
<1>7. CASE WaitForDoneOp
  BY <1>0, <1>7, ClearedIsGood, BecomesGood DEF WaitForDoneOp
<1>8. CASE ResetInternalProgrammingState
  BY <1>0, <1>8, ResetIsGood, BecomesGood DEF ResetInternalProgrammingState
<1>9. CASE InitializeSWDSWIO
  BY <1>0, <1>9, InitializeSWDSWIOGood, BecomesGood DEF InitializeSWDSWIO
<1>10. CASE DetermineChip
  <2>1. PICK outcome \in Outcomes : 
          Becomes(Identify(dev, outcome), outcome \notin Failures)
    BY <1>10 DEF DetermineChip
  <2>2. Good(Identify(dev, outcome))
    BY <1>0, IdentifyGood
  <2> QED
    BY <2>1, <2>2, BecomesGood
<1>11. CASE PollTerminal
  <2>1. PICK ack \in BOOLEAN, both \in BOOLEAN :
          Becomes(Sent(dev, PollTerminalOf(dev, ack, both), "link").dev, FALSE)
    BY <1>11 DEF PollTerminal
  <2>2. Good(PollTerminalOf(dev, ack, both).dev)
    BY <1>0, PollTerminalGood
  <2> QED
    BY <2>1, <2>2, SentKeepsInv
<1>12. CASE OverrideChip
  BY <1>0, <1>12, OverriddenIsGood, BecomesGood DEF OverrideChip
<1>13. CASE RawProgbuf
  BY <1>0, <1>13, RawProgbufIsGood, BecomesGood DEF RawProgbuf
<1>14. CASE RawRegister
  <2>1. PICK t : 
          /\ t \in {Repeat(dev.t), PutData0(dev.t, Junk), [dev.t EXCEPT !.d1 = Junk],
                    SetAuto(dev.t, FALSE), SetAuto(dev.t, TRUE), Execute(dev.t),
                    Transfer(dev.t, [dev.t.x EXCEPT !["x10"] = "other"]),
                    [dev.t EXCEPT !.err = FALSE], [dev.t EXCEPT !.halted = TRUE],
                    [dev.t EXCEPT !.halted = FALSE,
                                  !.x = [r \in Registers |-> "other"]]}
          /\ Becomes([dev EXCEPT !.t = t, !.setup = FALSE, !.sync = FALSE], FALSE)
    BY <1>14 DEF RawRegister
  <2>2. /\ Repeat(dev.t) \in Target /\ PutData0(dev.t, Junk) \in Target
        /\ Execute(dev.t) \in Target
    BY <1>0, JunkIsValue, RepeatType, PutData0Type, ExecuteType
  <2>3. SetAuto(dev.t, FALSE) \in Target /\ SetAuto(dev.t, TRUE) \in Target
    BY <1>0, SetAutoType
  <2>4. Transfer(dev.t, [dev.t.x EXCEPT !["x10"] = "other"]) \in Target
    <3>1. [dev.t.x EXCEPT !["x10"] = "other"] \in [Registers -> RegisterValues]
      BY <1>0 DEF Target, RegisterValues
    <3> QED
      BY <1>0, <3>1, TransferType
  <2>5. [dev.t EXCEPT !.d1 = Junk] \in Target
    BY <1>0 DEF Target
  <2>6. /\ [dev.t EXCEPT !.err = FALSE] \in Target
        /\ [dev.t EXCEPT !.halted = TRUE] \in Target
    BY <1>0 DEF Target
  <2>7. [dev.t EXCEPT !.halted = FALSE, !.x = [r \in Registers |-> "other"]] \in Target
    <3>1. [r \in Registers |-> "other"] \in [Registers -> RegisterValues]
      BY DEF RegisterValues
    <3> QED
      BY <1>0, <3>1 DEF Target
  <2>8. t \in Target
    BY <2>1, <2>2, <2>3, <2>4, <2>5, <2>6, <2>7
  <2>9. Good([dev EXCEPT !.t = t, !.setup = FALSE, !.sync = FALSE])
    BY <1>0, <2>8, DisturbedDevice
  <2> QED
    BY <2>1, <2>9, BecomesGood
<1>15. CASE PowerCycle
  <2> DEFINE mem == [a \in Addr |-> IF a \in FlashAddrs THEN dev.t.mem[a] ELSE Junk]
             t == PowerOnTarget(dev.t.kind, mem)
  <2>1. mem \in [Addr -> Value] /\ dev.t.kind \in Kinds
    BY <1>0, JunkIsValue DEF Target
  <2>2. Becomes([dev EXCEPT !.t = t, !.setup = FALSE, !.sync = FALSE], TRUE)
    BY <1>15 DEF PowerCycle
  <2> HIDE DEF mem
  <2>3. t \in Target
    BY <2>1, PowerOnType
  <2> HIDE DEF t
  <2>4. Good([dev EXCEPT !.t = t, !.setup = FALSE, !.sync = FALSE])
    BY <1>0, <2>3, DisturbedDevice
  <2> QED
    BY <2>2, <2>4, BecomesGood
<1>16. ASSUME NEW a \in StatusAddrs, NEW v \in Value, StatusChange(a, v) PROVE Inv'
  <2> DEFINE mem == [dev.t.mem EXCEPT ![a] = v]
             t == [dev.t EXCEPT !.mem = mem]
             e == [dev EXCEPT !.t = t]
  <2>1. mem \in [Addr -> Value]
    BY <1>0, DebugLinkAssumption DEF Target
  <2>2. dev' = e /\ seen' \in [StatusAddrs -> SUBSET Value]
    BY <1>16 DEF StatusChange, Inv, TypeOK
  <2> HIDE DEF mem
  <2>3. t \in Target /\ Ran(t, dev.t)
    BY <1>0, <2>1 DEF Target, Ran
  <2> HIDE DEF t
  <2>4. /\ e \in Device /\ e.t = t /\ e.setup = dev.setup /\ e.statetag = dev.statetag
        /\ e.lastwriteflags = dev.lastwriteflags /\ e.autoincrement = dev.autoincrement
        /\ e.no_autoexec = dev.no_autoexec /\ e.target_chip_type = dev.target_chip_type
        /\ e.currentstateval = dev.currentstateval
    BY <1>0, <2>3 DEF Device
  <2> HIDE DEF e
  <2>5. Truthful(e)
    <3>1. CASE e.setup
      <4>1. e.statetag \in SequenceTags => e.currentstateval \in Addr
        BY <1>0, <2>4, <3>1 DEF Good, Truthful
      <4> QED
        BY <1>0, <2>3, <2>4, <4>1, TruthfulAfterRun DEF Good
    <3>2. CASE ~e.setup
      BY <3>2 DEF Truthful
    <3> QED
      BY <3>1, <3>2
  <2>6. dev' \in Device /\ Truthful(dev')
    BY <2>2, <2>4, <2>5
  <2> QED
    BY <2>2, <2>6 DEF Inv, TypeOK, TagTellsTheTruth
<1> QED
  BY <1>1, <1>2, <1>3, <1>4, <1>5, <1>6, <1>7, <1>8, <1>9, <1>10, <1>11, <1>12, <1>13,
     <1>14, <1>15, <1>16 DEF Next

\* sandbox_main's cleared structure, with a target that has just been powered.
LEMMA InitInv == Init => Inv
<1> SUFFICES ASSUME NEW kind \in Kinds,
                    dev = [statetag |-> "none", currentstateval |-> 0,
                           autoincrement |-> FALSE, lastwriteflags |-> FALSE,
                           no_autoexec |-> FALSE, target_chip_type |-> Unknown,
                           opmode |-> FALSE,
                           t |-> PowerOnTarget(kind, [a \in Addr |-> Junk]),
                           setup |-> TRUE, sync |-> FALSE],
                    seen = StatusOf(dev)
             PROVE  Inv
  BY DEF Init
<1> DEFINE t == PowerOnTarget(kind, [a \in Addr |-> Junk])
<1>1. [a \in Addr |-> Junk] \in [Addr -> Value]
  BY JunkIsValue
<1>2. t \in Target
  BY <1>1, PowerOnType
<1>3. 0 \in Addr /\ StatusAddrs \subseteq Addr
  BY DebugLinkAssumption DEF Addr
<1>4. /\ dev = [statetag |-> "none", currentstateval |-> 0,
                autoincrement |-> FALSE, lastwriteflags |-> FALSE,
                no_autoexec |-> FALSE, target_chip_type |-> Unknown,
                opmode |-> FALSE, t |-> t, setup |-> TRUE, sync |-> FALSE]
      /\ dev.t = t
  OBVIOUS
<1> HIDE DEF t
<1>5. dev \in Device /\ dev.statetag = "none"
  <2>1. "none" \in Tags /\ Unknown \in Chips /\ 0 \in Addr \cup {-1}
    BY <1>3 DEF Tags, Chips
  <2> QED
    BY <1>2, <1>4, <2>1 DEF Device
<1>6. Truthful(dev)
  BY <1>5, VoidIsTruthful
<1>7. seen \in [StatusAddrs -> SUBSET Value]
  BY <1>2, <1>3, <1>4 DEF StatusOf, Target
<1> QED
  BY <1>5, <1>6, <1>7 DEF Inv, TypeOK, TagTellsTheTruth

\* The cache's description of the target is an invariant of every session.
LEMMA SpecInv == Spec => []Inv
<1>1. Inv /\ [Next]_vars => Inv'
  <2>1. Inv /\ UNCHANGED vars => Inv'
    BY DEF Inv, TypeOK, TagTellsTheTruth, vars
  <2> QED
    BY <2>1, NextKeepsInv
<1> QED
  BY InitInv, <1>1, PTL DEF Spec

\* The device and the ghost keep their shape (TypeOK) in every reachable state,
\* whatever the address space, the chips and the faults of the wire.
THEOREM TypeCorrect == Spec => []TypeOK
<1>1. Inv => TypeOK
  BY DEF Inv
<1> QED
  BY <1>1, SpecInv, PTL

\* statetag tells the truth in every reachable state: each test of statetag in
\* ReadWord, WriteWord, the CH5xx flash programs and PollTerminal may be relied on.
THEOREM TagIsTruthful == Spec => []TagTellsTheTruth
<1>1. Inv => TagTellsTheTruth
  BY DEF Inv
<1> QED
  BY <1>1, SpecInv, PTL

-----------------------------------------------------------------------------
(***************************************************************************)
(* The byte operations set up all they need, so they are right on any      *)
(* device at all; no invariant beyond its shape is needed.                 *)
(***************************************************************************)
\* With autoexec off, loading the program and its operands runs nothing.
LEMMA LoadByteQuiet ==
  ASSUME NEW d \in Device, NEW instruction \in {"lb", "sb"}
  PROVE  /\ LoadByte(d, instruction).mem = d.t.mem
         /\ ~LoadByte(d, instruction).auto
         /\ LoadByte(d, instruction).pb[0] = instruction
<1> DEFINE t == SetAuto(d.t, FALSE)
           u == [t EXCEPT !.pb[0] = instruction]
           v == [u EXCEPT !.pb[1] = "end"]
<1>1. t \in Target /\ ~t.auto /\ t.mem = d.t.mem
  <2>1. d.t \in Target
    BY DeviceParts
  <2>2. t.mem = d.t.mem
    BY <2>1 DEF SetAuto, Target
  <2> QED
    BY <2>1, <2>2, SetAutoType
<1>2. instruction \in Code /\ "end" \in Code
  BY DEF Code
<1> HIDE DEF t
<1>3. /\ u \in Target /\ ~u.auto /\ u.mem = t.mem
      /\ u.pb = [t.pb EXCEPT ![0] = instruction] /\ u.pb[0] = instruction
  <2>1. u \in Target /\ ~u.auto /\ u.mem = t.mem /\ u.pb = [t.pb EXCEPT ![0] = instruction]
    BY <1>1, <1>2, PutSlot
  <2> HIDE DEF u
  <2> QED
    BY <1>1, <2>1 DEF Target
<1> HIDE DEF u
<1>4. v \in Target /\ ~v.auto /\ v.mem = u.mem /\ v.pb[0] = instruction
  <2>1. v \in Target /\ ~v.auto /\ v.mem = u.mem /\ v.pb = [u.pb EXCEPT ![1] = "end"]
    BY <1>2, <1>3, PutSlot
  <2> HIDE DEF v
  <2> QED
    BY <1>3, <2>1 DEF Target
<1>5. LoadByte(d, instruction) = PutData0(v, Junk)
  BY DEF LoadByte, t, u
<1> HIDE DEF v
<1> QED
  BY <1>1, <1>3, <1>4, <1>5 DEF PutData0, Repeat, Target

\* A run that raises no error read, or wrote, the word at its address.
LEMMA RunByteDoes ==
  ASSUME NEW t \in Target, NEW a \in Addr, ~RunByte(t, a).err
  PROVE  /\ t.pb[0] = "lb" => RunByte(t, a).d0 = t.mem[a]
         /\ t.pb[0] = "sb" => RunByte(t, a).mem = [t.mem EXCEPT ![a] = t.d0]
<1>1. ~t.err /\ t.halted /\ t.pb[0] \in {"lb", "sb"} /\ a \notin Unmapped
  BY DEF RunByte, Target
<1> QED
  BY <1>1 DEF RunByte, Target

\* ReadByte and WriteByte are right when they report success, on any device with
\* an interface, whatever was set up, left over or disturbed before.
LEMMA ByteCallsAreRight ==
  ASSUME NEW d \in Device, NEW a \in Addr, NEW v \in Value, NEW glitch \in Glitches
  PROVE  /\ ReadByteOf(d, a, glitch).status = "ok"
              => ReadByteOf(d, a, glitch).word = d.t.mem[a]
         /\ WriteByteOf(d, a, v, glitch).status = "ok"
              => WriteByteOf(d, a, v, glitch).dev.t.mem = [d.t.mem EXCEPT ![a] = v]
<1>1. ASSUME ReadByteOf(d, a, glitch).status = "ok"
      PROVE  ReadByteOf(d, a, glitch).word = d.t.mem[a]
  <2> DEFINE t == LoadByte(d, "lb")
             u == RunByte(t, a)
  <2>1. t \in Target /\ t.mem = d.t.mem /\ t.pb[0] = "lb"
    BY LoadByteType, LoadByteQuiet
  <2>2. ~u.err /\ glitch \notin {"data_lost", "data_late"}
    BY <1>1 DEF ReadByteOf, Result, DoneStatus
  <2>3. ReadByteOf(d, a, glitch).word = u.d0
    BY <2>2 DEF ReadByteOf, Result
  <2> HIDE DEF t
  <2> QED
    BY <2>1, <2>2, <2>3, RunByteDoes
<1>2. ASSUME WriteByteOf(d, a, v, glitch).status = "ok"
      PROVE  WriteByteOf(d, a, v, glitch).dev.t.mem = [d.t.mem EXCEPT ![a] = v]
  <2> DEFINE l == LoadByte(d, "sb")
             t == PutData0(l, v)
             u == RunByte(t, a)
  <2>1. l \in Target /\ l.mem = d.t.mem /\ ~l.auto /\ l.pb[0] = "sb"
    BY LoadByteType, LoadByteQuiet
  <2>2. ~u.err /\ DoneTarget(u, glitch).mem = u.mem
    BY <1>2 DEF WriteByteOf, Result, DoneStatus, DoneTarget
  <2>3. WriteByteOf(d, a, v, glitch).dev.t.mem = DoneTarget(u, glitch).mem
    BY DEF WriteByteOf, Result, Device
  <2> HIDE DEF l
  <2>4. t \in Target /\ t.mem = l.mem /\ t.d0 = v /\ t.pb[0] = "sb"
    BY <2>1, PutData0Type DEF PutData0, Repeat, Target
  <2> HIDE DEF t
  <2> QED
    BY <2>1, <2>2, <2>3, <2>4, RunByteDoes
<1> QED
  BY <1>1, <1>2

\* ReadByte and WriteByte keep their promise in every reachable state, the
\* disturbed ones and those after a fault of the wire included.
THEOREM BytesAreRight == Spec => []BytesAlwaysRight
<1>1. TypeOK => BytesAlwaysRight
  BY ByteCallsAreRight DEF TypeOK, BytesAlwaysRight
<1> QED
  BY <1>1, TypeCorrect, PTL
=============================================================================
