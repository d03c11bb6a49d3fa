---------------------------- MODULE FlashSession ----------------------------
(***************************************************************************)
(* Programming the flash of a CH32 through the debug link: UnlockFlash,    *)
(* EraseFlash, WriteBlock and WaitForFlash of bitbang_rvswdio.h, for the   *)
(* commands 0x06, 0x0b and 0x12 of the programmer, with the commands that  *)
(* void its state (0x05, 0x0a), attach again (0x01, 0x0e) and switch the   *)
(* target's power (0x02, 0x03) in between, in any order.                   *)
(*                                                                         *)
(* A step is one access to the target, a ReadWord or a WriteWord; the six  *)
(* key writes and the words of a block are one step each.  Between steps   *)
(* the flash controller works on its own and the wires may come loose: an  *)
(* access then has no effect, a read fails and a write does not tell       *)
(* (WriteWord waits for its result only in the flash itself, and nothing   *)
(* here looks at what it returns).  That accesses otherwise arrive where   *)
(* they should is DebugLink's ReadsWhatIsThere, StatusIsFresh and          *)
(* WritesWhereAsked.                                                       *)
(*                                                                         *)
(* A definition marked "slip" is a likely mistake in the operator after it *)
(* and is part of no behaviour: with it in the operator's place, TLC finds *)
(* one of the properties violated.                                         *)
(***************************************************************************)
EXTENDS Integers, Sequences

CONSTANTS
  Chips,      \* the chips a target may be: "V003" erases single blocks, "X03x"
              \*   and "V20x" sectors, and "V20x" programs whole sectors
  PerSector,  \* blocks of 64 bytes to a sector of X03x and V20x (4 in the code)
  NumBlocks,  \* blocks of the flash
  Protected,  \* those the chip does not let anybody write
  Wanted,     \* what each block may be asked to hold
  Erased,     \* what an erased block holds
  Mixed,      \* the contents of a block written twice, or torn by a power loss
  Blank,      \* nothing loaded for a block
  Unsure,     \* no promise (FlashPromise)
  MaxPolls    \* how often WaitForFlash asks again (2000 in the code)

Blocks == 0 .. NumBlocks - 1
Data == UNION {Wanted[b] : b \in Blocks}

ASSUME FlashSessionAssumption ==
  /\ Chips \subseteq {"V003", "X03x", "V20x"}
  /\ PerSector \in Nat \ {0} /\ NumBlocks \in Nat \ {0}
  /\ Protected \subseteq Blocks
  /\ MaxPolls \in Nat
  /\ Unsure \notin Data \cup {Erased, Mixed}
  /\ Erased \notin Data /\ Mixed \notin Data /\ Blank \notin Data /\ Erased # Mixed

VARIABLES
  chip,            \* the chip
  mem,             \* what each block of its flash holds
  ctl,             \* its flash controller: see Controllers
  link,            \* whether the wires hold
  chip_known,      \* target_chip_type # CHIP_UNKNOWN
  flash_unlocked,  \* flash_unlocked
  pc,              \* where the command in progress stands
  job,             \* the block, data and erase flag of a WriteBlock
  polls,           \* timeout of WaitForFlash
  doubt,           \* ghost: the target may have changed behind the programmer's
                   \*   back since its state was voided
  draft,           \* ghost: the blocks of a sector written in order so far
  vouched          \* ghost: the blocks reported as written and not touched since

target == <<chip, mem, ctl>>
state == <<chip_known, flash_unlocked>>
call == <<pc, job, polls>>
ghosts == <<doubt, draft, vouched>>
vars == <<target, link, state, call, ghosts>>

-----------------------------------------------------------------------------
(***************************************************************************)
(* Sectors, as the code computes them from sectorsize.                     *)
(***************************************************************************)
SectorSize == IF chip = "V003" THEN 1 ELSE PerSector

Sector(b) == {c \in Blocks : c \div SectorSize = b \div SectorSize}
IsFirstBlock(b) == b % SectorSize = 0

IsLastBlock(b) == b % SectorSize = SectorSize - 1

\* V20x and V30x load a whole sector and program it once.
WholePage == chip = "V20x"

-----------------------------------------------------------------------------
(***************************************************************************)
(* The flash controller.  It is idle or busy with an operation of its own; *)
(* busy it ignores what it is told, and locked all but the keys.           *)
(***************************************************************************)
Modes == {"none", "PAGE_ER", "PAGE_PG"}

Slots == 0 .. SectorSize - 1

Controllers ==
  [locked : BOOLEAN,                     \* LOCK and FLOCK of CTLR
   mode   : Modes,                       \* PAGE_ER or PAGE_PG of CTLR
   addr   : Blocks,                      \* ADDR, or where the last word went
   loaded : [Slots -> Data \cup {Blank}],   \* the page buffer
   busy   : {"no", "erase", "program"},  \* BSY of STATR
   wrprt  : BOOLEAN]                     \* WRPRTERR of STATR

Unloaded == [s \in Slots |-> Blank]
PowerUp == [locked |-> TRUE, mode |-> "none", addr |-> 0, loaded |-> Unloaded,
            busy |-> "no", wrprt |-> FALSE]

Listens == link /\ ctl.busy = "no" /\ ~ctl.locked

\* A write to a register of the controller.
Write(new) == ctl' = IF Listens THEN new ELSE ctl

\* The blocks the present operation is about.
Reach ==
  IF ctl.busy = "erase" THEN Sector(ctl.addr)
  ELSE {b \in Sector(ctl.addr) : ctl.loaded[b % SectorSize] # Blank}

Programmed(old, new) == IF old \in {Erased, new} THEN new ELSE Mixed

FlashDone ==
  /\ ctl.busy # "no"
  /\ mem' = [b \in Blocks |->
               IF b \notin Reach \ Protected THEN mem[b]
               ELSE IF ctl.busy = "erase" THEN Erased
               ELSE Programmed(mem[b], ctl.loaded[b % SectorSize])]
  /\ ctl' = [ctl EXCEPT !.busy = "no",
               !.wrprt = @ \/ Reach \cap Protected # {},
               !.loaded = IF ctl.busy = "program" /\ WholePage THEN Unloaded ELSE @]
  /\ UNCHANGED <<chip, link, state, call, ghosts>>

LinkChanges == link' = ~link /\ UNCHANGED <<target, state, call, ghosts>>

-----------------------------------------------------------------------------
NoJob == [block |-> 0, data |-> Blank, erase |-> FALSE]
NoDraft == [first |-> 0, data |-> <<>>]

Polling == {"erase_wait", "erased", "page_wait", "ready", "programmed", "wait"}
Working == {"erase_mode", "erase_addr", "erase_start", "erase_off",
            "page_mode", "buf_reset", "load", "prog_addr", "prog_start"}
           \cup (Polling \ {"wait"})
Places == {"idle", "unlock", "keys", "unlocked"} \cup Working \cup Polling

Init ==
  /\ chip \in Chips
  /\ mem = [b \in Blocks |-> Mixed]
  /\ ctl = PowerUp
  /\ link = TRUE
  /\ chip_known = FALSE /\ flash_unlocked = FALSE
  /\ pc = "idle" /\ job = NoJob /\ polls = 0
  /\ doubt = FALSE /\ draft = NoDraft /\ vouched = {}

\* An access that is lost leaves nothing to rely on.
Noted ==
  IF link THEN UNCHANGED ghosts
  ELSE doubt' = TRUE /\ draft' = NoDraft /\ vouched' = {}

Goto(p) == pc' = p /\ polls' = 0 /\ UNCHANGED job

Return == pc' = "idle" /\ job' = NoJob /\ polls' = 0

\* A command that fails.
Fail ==
  /\ Return
  /\ draft' = NoDraft
  /\ doubt' = (doubt \/ ~link)
  /\ vouched' = IF link THEN vouched ELSE {}

\* A WriteBlock that answers 0.
Success ==
  /\ Return
  /\ IF link
     THEN /\ vouched' = IF WholePage /\ Len(draft.data) # SectorSize THEN vouched
                        ELSE vouched \cup (draft.first .. draft.first + Len(draft.data) - 1)
          /\ UNCHANGED <<doubt, draft>>
     ELSE Noted

-----------------------------------------------------------------------------
(***************************************************************************)
(* WaitForFlash, polls and all: what it answers in this step, or "again".  *)
(* A read that fails leaves the 0 that rw was set to.                      *)
(***************************************************************************)
\* slip: one look at the status is taken for all
PollSlip ==
  IF link /\ ctl.wrprt THEN -44 ELSE 0

\* slip: nothing limits the polls
PollForeverSlip ==
  IF link /\ ctl.busy # "no" THEN 1 ELSE IF link /\ ctl.wrprt THEN -44 ELSE 0

Poll ==
  IF link /\ ctl.busy # "no" /\ polls < MaxPolls THEN 1
  ELSE IF link /\ ctl.wrprt THEN -44
  ELSE IF link /\ ctl.busy # "no" THEN -5
  ELSE 0

\* slip: the polls are not counted
PollAgainSlip ==
  /\ pc \in Polling /\ Poll = 1
  /\ UNCHANGED <<target, link, state, call>> /\ Noted

PollAgain ==
  /\ pc \in Polling /\ Poll = 1
  /\ polls' = polls + 1
  /\ UNCHANGED <<target, link, state, pc, job>> /\ Noted

\* WriteWord( STATR, 0 ) ends it.
StatusCleared == ctl' = IF link THEN [ctl EXCEPT !.wrprt = FALSE] ELSE ctl

PollEnds ==
  /\ pc \in Polling /\ Poll # 1
  /\ StatusCleared
  /\ \/ pc = "wait" /\ Return /\ Noted
     \/ pc = "page_wait" /\ Goto("page_mode") /\ Noted
     \/ pc = "ready" /\ Goto("load") /\ Noted
     \/ pc = "erase_wait" /\ Poll = 0 /\ Goto("erase_mode") /\ Noted
     \/ pc = "erase_wait" /\ Poll # 0 /\ Fail \* -14
     \/ pc = "erased" /\ Poll = 0 /\ Goto("erase_off") /\ Noted
     \/ pc = "erased" /\ Poll # 0 /\ Fail     \* -15
     \/ pc = "programmed" /\ Poll = 0 /\ Success
     \/ pc = "programmed" /\ Poll # 0 /\ Fail \* -13, or -16
  /\ UNCHANGED <<chip, mem, link, state>>

-----------------------------------------------------------------------------
(***************************************************************************)
(* WriteBlock, as far as the controller.                                   *)
(***************************************************************************)
LoadFrom(b) ==
  IF ~IsFirstBlock(b) THEN "load" ELSE IF WholePage THEN "page_wait" ELSE "page_mode"

Unlocked(j) == IF j.erase THEN "erase_wait" ELSE LoadFrom(j.block)

\* DetermineChipTypeAndSectorInfo: whether it answers, for the first time or
\* again.
Determined == chip_known \/ link

NextDraft(b, d, e) ==
  IF ~doubt /\ e /\ IsFirstBlock(b) THEN [first |-> b, data |-> <<d>>]
  ELSE IF draft.data # <<>> /\ b = draft.first + Len(draft.data) /\ b \in Sector(draft.first)
  THEN [draft EXCEPT !.data = Append(@, d)]
  ELSE NoDraft

WriteBlock(b, d, e) ==
  /\ pc = "idle" /\ Determined
  /\ chip_known' = TRUE
  /\ job' = [block |-> b, data |-> d, erase |-> e /\ IsFirstBlock(b)]
  /\ pc' = IF flash_unlocked THEN Unlocked(job') ELSE "unlock"
  /\ polls' = 0
  /\ draft' = NextDraft(b, d, e)
  /\ vouched' = vouched \ Sector(b)
  /\ UNCHANGED <<target, link, flash_unlocked, doubt>>

Wait ==
  /\ pc = "idle" /\ Determined
  /\ chip_known' = TRUE
  /\ pc' = "wait" /\ polls' = 0
  /\ UNCHANGED <<target, link, flash_unlocked, job, ghosts>>

\* Either, of a target that cannot be identified.
NoTarget ==
  /\ pc = "idle" /\ ~Determined
  /\ Fail  \* -9
  /\ UNCHANGED <<target, link, state>>

\* The first ReadWord of UnlockFlash; rw is not initialised, so that a read that
\* fails leaves any value in it.
ReadLock ==
  /\ pc = "unlock"
  /\ \E rw \in IF link THEN {ctl.locked} ELSE BOOLEAN :
       IF rw THEN Goto("keys") /\ UNCHANGED flash_unlocked
       ELSE Goto(Unlocked(job)) /\ flash_unlocked' = TRUE
  /\ UNCHANGED <<target, link, chip_known>> /\ Noted

SendKeys ==
  /\ pc = "keys"
  /\ ctl' = IF link THEN [ctl EXCEPT !.locked = FALSE] ELSE ctl
  /\ Goto("unlocked")
  /\ UNCHANGED <<chip, mem, link, state>> /\ Noted

\* The second; rw was locked, and is still if the read fails.
RereadLock ==  \* -9 if it fails
  /\ pc = "unlocked"
  /\ IF link => ctl.locked
     THEN Fail /\ UNCHANGED flash_unlocked
     ELSE Goto(Unlocked(job)) /\ flash_unlocked' = TRUE /\ Noted
  /\ UNCHANGED <<target, link, chip_known>>

\* A step of a WriteBlock that writes to the controller.
Step(from, new, to) ==
  /\ pc = from
  /\ Write(new)
  /\ Goto(to)
  /\ UNCHANGED <<chip, mem, link, state>> /\ Noted

SetErase == Step("erase_mode", [ctl EXCEPT !.mode = "PAGE_ER"], "erase_addr")
SetEraseAddr == Step("erase_addr", [ctl EXCEPT !.addr = job.block], "erase_start")
StartErase ==
  Step("erase_start", [ctl EXCEPT !.mode = "PAGE_ER", !.busy = "erase"], "erased")
EndErase == Step("erase_off", [ctl EXCEPT !.mode = "none"], LoadFrom(job.block))

SetProgram ==
  Step("page_mode", [ctl EXCEPT !.mode = "PAGE_PG"], IF WholePage THEN "ready" ELSE "buf_reset")
ResetBuffer ==
  Step("buf_reset", [ctl EXCEPT !.mode = "PAGE_PG", !.loaded = Unloaded], "ready")

\* The words of the block: in mode PAGE_PG the controller takes them.
Load ==
  /\ pc = "load"
  /\ Write(IF ctl.mode = "PAGE_PG"
           THEN [ctl EXCEPT !.loaded[job.block % SectorSize] = job.data,
                            !.addr = IF WholePage THEN job.block ELSE @]
           ELSE ctl)
  /\ IF WholePage /\ ~IsLastBlock(job.block) THEN Success
     ELSE Goto(IF WholePage THEN "prog_start" ELSE "prog_addr") /\ Noted
  /\ UNCHANGED <<chip, mem, link, state>>

SetProgramAddr == Step("prog_addr", [ctl EXCEPT !.addr = job.block], "prog_start")
StartProgram ==
  Step("prog_start", [ctl EXCEPT !.mode = "PAGE_PG", !.busy = "program"], "programmed")

-----------------------------------------------------------------------------
(***************************************************************************)
(* The other commands.                                                     *)
(***************************************************************************)
\* ResetInternalProgrammingState; the tag of DebugLink is voided as well.
\* slip: flash_unlocked is not among the state that is voided
ResetSlip == doubt' = FALSE /\ UNCHANGED flash_unlocked

Reset == doubt' = FALSE /\ flash_unlocked' = FALSE

ResetInternalProgrammingState ==
  /\ pc = "idle" /\ Reset
  /\ UNCHANGED <<target, link, chip_known, call, draft, vouched>>

InitializeSWDSWIO ==
  /\ pc = "idle" /\ chip_known
  /\ chip_known' = FALSE
  /\ UNCHANGED <<target, link, flash_unlocked, call, ghosts>>

\* Power down and up again: what was being written is torn.
PowerCycle ==
  /\ pc = "idle"
  /\ ctl' = PowerUp
  /\ mem' = [b \in Blocks |-> IF ctl.busy # "no" /\ b \in Reach \ Protected THEN Mixed ELSE mem[b]]
  /\ doubt' = TRUE /\ draft' = NoDraft
  /\ UNCHANGED <<chip, link, state, call, vouched>>

Programmer ==
  \/ PollAgain \/ PollEnds
  \/ ReadLock \/ SendKeys \/ RereadLock
  \/ SetErase \/ SetEraseAddr \/ StartErase \/ EndErase
  \/ SetProgram \/ ResetBuffer \/ Load \/ SetProgramAddr \/ StartProgram

Host ==
  \/ \E b \in Blocks, e \in BOOLEAN : \E d \in Wanted[b] : WriteBlock(b, d, e)
  \/ Wait \/ NoTarget
  \/ ResetInternalProgrammingState \/ InitializeSWDSWIO \/ PowerCycle

Next == Programmer \/ Host \/ FlashDone \/ LinkChanges

Spec == Init /\ [][Next]_vars /\ WF_vars(Programmer)

-----------------------------------------------------------------------------
(***************************************************************************)
(* Properties.                                                             *)
(***************************************************************************)
\* Every variable has its type.
TypeOK ==
  /\ chip \in Chips
  /\ mem \in [Blocks -> Data \cup {Erased, Mixed}]
  /\ ctl \in Controllers
  /\ link \in BOOLEAN
  /\ chip_known \in BOOLEAN /\ flash_unlocked \in BOOLEAN
  /\ pc \in Places
  /\ job \in [block : Blocks, data : Data \cup {Blank}, erase : BOOLEAN]
  /\ polls \in 0 .. MaxPolls
  /\ doubt \in BOOLEAN
  /\ draft.first \in Blocks /\ draft.data \in Seq(Data)
  /\ DOMAIN draft = {"first", "data"}
  /\ vouched \subseteq Blocks

\* flash_unlocked is a cached answer: whatever commands come and whatever was
\* lost before, a WriteBlock whose programmer has been voided since works on an
\* unlocked controller, and so is never a write that nobody notices was ignored.
UnlockedWhenUsed == pc \in Working /\ ~doubt => ~ctl.locked

\* What the promise calls known: the contents of the blocks vouched for.
Promise ==
  INSTANCE FlashPromise WITH
    sectorsize <- SectorSize,
    asking <- pc \notin {"idle", "wait"},
    store <- [b \in Blocks |-> IF b \in vouched THEN mem[b] ELSE Unsure]

\* The session keeps the promise of FlashPromise: sectors reported as written are
\* in the flash, and stay there through timeouts, protected blocks, blocks out of
\* order, power losses and the writing of other sectors.
PromiseKept == Promise!Spec

\* Every command answers, also of a controller that stays busy for ever and on
\* wires that come and go: the interpreter runs in the USB task.
EveryCommandAnswers == pc # "idle" ~> pc = "idle"
=============================================================================
