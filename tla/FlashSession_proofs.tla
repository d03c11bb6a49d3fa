-------------------------- MODULE FlashSession_proofs --------------------------
(***************************************************************************)
(* Type correctness of the flash session, that no WriteBlock works on a    *)
(* locked controller, that the session implements FlashPromise, and that a *)
(* command has a number of accesses left, for every size of flash, sector  *)
(* and poll limit and every set of protected blocks.                       *)
(***************************************************************************)
EXTENDS FlashSession, TLAPS

-----------------------------------------------------------------------------
(***************************************************************************)
(* Blocks, sectors and slots.                                              *)
(***************************************************************************)
\* A block has its place in the page buffer.
LEMMA SlotOfBlock ==
  ASSUME NEW b \in Blocks, chip \in Chips
  PROVE  b % SectorSize \in Slots
<1>1. SectorSize \in Nat \ {0}
  BY FlashSessionAssumption DEF SectorSize
<1>2. b \in Nat
  BY FlashSessionAssumption DEF Blocks
<1> QED
  BY <1>1, <1>2 DEF Slots

\* Where WriteBlock goes on is always a place where it works on the controller.
LEMMA PlacesToGo ==
  ASSUME NEW b, NEW j
  PROVE  LoadFrom(b) \in Working /\ Unlocked(j) \in Working
BY DEF LoadFrom, Unlocked, Working, Polling

\* Programming a block gives it contents a block can have.
LEMMA ProgrammedType ==
  ASSUME NEW old, NEW new \in Data
  PROVE  Programmed(old, new) \in Data \cup {Erased, Mixed}
BY DEF Programmed

-----------------------------------------------------------------------------
(***************************************************************************)
(* The inductive invariant.  The draft stays within the flash, so that the *)
(* blocks a success vouches for exist; flash_unlocked is right unless the  *)
(* target may have changed behind the programmer's back, and a WriteBlock  *)
(* gets past UnlockFlash only with it.                                     *)
(***************************************************************************)
Targeted ==
  /\ chip \in Chips
  /\ mem \in [Blocks -> Data \cup {Erased, Mixed}]
  /\ ctl \in Controllers
  /\ link \in BOOLEAN

Called ==
  /\ chip_known \in BOOLEAN /\ flash_unlocked \in BOOLEAN
  /\ pc \in Places
  /\ job \in [block : Blocks, data : Data \cup {Blank}, erase : BOOLEAN]
  /\ polls \in 0 .. MaxPolls

Drafts ==
  /\ draft.first \in Blocks /\ draft.data \in Seq(Data)
  /\ DOMAIN draft = {"first", "data"}
  /\ draft.first + Len(draft.data) <= NumBlocks
  /\ vouched \subseteq Blocks
  /\ doubt \in BOOLEAN

CacheRight ==
  /\ flash_unlocked /\ ~doubt => ~ctl.locked
  /\ pc \in Working => flash_unlocked

IInv == Targeted /\ Called /\ Drafts /\ CacheRight

LEMMA InvariantImplies ==
  IInv => TypeOK /\ UnlockedWhenUsed
BY DEF IInv, Targeted, Called, Drafts, CacheRight, TypeOK, UnlockedWhenUsed

-----------------------------------------------------------------------------
(***************************************************************************)
(* The ghosts.                                                             *)
(***************************************************************************)
\* No draft is a draft.
LEMMA NoDraftType ==
  /\ NoDraft.first = 0 /\ NoDraft.data = <<>>
  /\ NoDraft.first \in Blocks /\ NoDraft.data \in Seq(Data)
  /\ DOMAIN NoDraft = {"first", "data"}
  /\ NoDraft.first + Len(NoDraft.data) <= NumBlocks
BY FlashSessionAssumption DEF NoDraft, Blocks

\* A lost access empties the draft and is remembered.
LEMMA NotedKeepsDrafts ==
  ASSUME Drafts, Noted, link \in BOOLEAN
  PROVE  Drafts' /\ (doubt => doubt') /\ (~doubt' => link)
<1>1. CASE link
  BY <1>1 DEF Noted, Drafts, ghosts
<1>2. CASE ~link
  BY <1>2, NoDraftType DEF Noted, Drafts
<1> QED
  BY <1>1, <1>2

\* A command that fails empties it, one that succeeds vouches for existing blocks.
LEMMA FailKeepsDrafts ==
  ASSUME Drafts, Fail, link \in BOOLEAN
  PROVE  Drafts' /\ (doubt => doubt')
BY NoDraftType DEF Fail, Drafts

LEMMA SuccessKeepsDrafts ==
  ASSUME Drafts, Success, link \in BOOLEAN
  PROVE  Drafts' /\ (doubt => doubt')
<1>1. CASE ~link
  <2>1. Noted
    BY <1>1 DEF Success
  <2> QED
    BY <2>1, NotedKeepsDrafts
<1>2. CASE link
  <2>1. draft.first .. draft.first + Len(draft.data) - 1 \subseteq Blocks
    BY FlashSessionAssumption DEF Drafts, Blocks
  <2>2. vouched' \subseteq Blocks
    BY <1>2, <2>1 DEF Success, Drafts
  <2> QED
    BY <1>2, <2>2 DEF Success, Drafts
<1> QED
  BY <1>1, <1>2

\* A new request begins, goes on with or ends the draft within the flash.
LEMMA NextDraftKeepsDrafts ==
  ASSUME Drafts, NEW b \in Blocks, NEW d \in Data, NEW e \in BOOLEAN,
         draft' = NextDraft(b, d, e), vouched' \subseteq Blocks, UNCHANGED doubt
  PROVE  Drafts'
<1>1. b \in Nat /\ b + 1 <= NumBlocks
  BY FlashSessionAssumption DEF Blocks
<1>2. CASE draft' = [first |-> b, data |-> <<d>>]
  BY <1>1, <1>2 DEF Drafts
<1>3. CASE /\ b = draft.first + Len(draft.data)
           /\ draft' = [draft EXCEPT !.data = Append(@, d)]
  <2>1. draft'.first = draft.first /\ draft'.data = Append(draft.data, d)
    BY <1>3 DEF Drafts
  <2>2. DOMAIN draft' = {"first", "data"}
    BY <1>3 DEF Drafts
  <2>3. Append(draft.data, d) \in Seq(Data) /\ Len(Append(draft.data, d)) = Len(draft.data) + 1
    BY DEF Drafts
  <2>4. draft.first \in Nat /\ Len(draft.data) \in Nat
    BY FlashSessionAssumption DEF Drafts, Blocks
  <2>5. Len(draft'.data) = Len(draft.data) + 1
    BY <2>1, <2>3
  <2>6. draft'.first + Len(draft'.data) <= NumBlocks
    BY <1>1, <1>3, <2>1, <2>4, <2>5
  <2> QED
    BY <2>1, <2>2, <2>3, <2>6 DEF Drafts
<1>4. CASE draft' = NoDraft
  BY <1>4, NoDraftType DEF Drafts
<1> QED
  BY <1>2, <1>3, <1>4 DEF NextDraft

-----------------------------------------------------------------------------
(***************************************************************************)
(* The controller.                                                         *)
(***************************************************************************)
\* The page buffer has the sectors of the chip, which does not change.
LEMMA SameChip ==
  ASSUME chip' = chip
  PROVE  Controllers' = Controllers
BY DEF Controllers, Slots, SectorSize

LEMMA PowerUpType ==
  ASSUME chip \in Chips
  PROVE  PowerUp \in Controllers
BY FlashSessionAssumption DEF PowerUp, Controllers, Unloaded, Modes, Blocks

\* A write that keeps to what registers hold keeps the controller's type.
LEMMA WriteType ==
  ASSUME ctl \in Controllers, NEW new \in Controllers, new.locked = ctl.locked, Write(new)
  PROVE  ctl' \in Controllers /\ ctl'.locked = ctl.locked
BY DEF Write

\* Every write of EraseFlash and WriteBlock does.
LEMMA WrittenType ==
  ASSUME ctl \in Controllers, NEW b \in Blocks, NEW m \in Modes, NEW n \in {"erase", "program"}
  PROVE  LET Fine(new) == new \in Controllers /\ new.locked = ctl.locked
         IN  /\ Fine([ctl EXCEPT !.mode = m])
             /\ Fine([ctl EXCEPT !.addr = b])
             /\ Fine([ctl EXCEPT !.mode = m, !.busy = n])
             /\ Fine([ctl EXCEPT !.mode = m, !.loaded = Unloaded])
BY DEF Controllers, Unloaded

\* So does the loading of a block.
LEMMA LoadedType ==
  ASSUME chip \in Chips, ctl \in Controllers,
         NEW b \in Blocks, NEW d \in Data \cup {Blank}, NEW a \in Blocks
  PROVE  LET new == [ctl EXCEPT !.loaded[b % SectorSize] = d, !.addr = a]
         IN  new \in Controllers /\ new.locked = ctl.locked
<1>1. b % SectorSize \in Slots
  BY SlotOfBlock
<1>2. ctl.loaded \in [Slots -> Data \cup {Blank}]
  BY DEF Controllers
<1>3. [ctl.loaded EXCEPT ![b % SectorSize] = d] \in [Slots -> Data \cup {Blank}]
  BY <1>1, <1>2
<1> QED
  BY <1>3 DEF Controllers

-----------------------------------------------------------------------------
(***************************************************************************)
(* What all steps of a WriteBlock have in common.                          *)
(***************************************************************************)
LEMMA WorkingPlaces == Working \subseteq Places /\ {"idle", "unlock", "keys", "unlocked"} \subseteq Places
                       /\ "idle" \notin Working /\ "unlock" \notin Working /\ "wait" \notin Working
                       /\ "keys" \notin Working /\ "unlocked" \notin Working /\ "wait" \in Places
BY DEF Working, Places, Polling

\* Going on keeps the call well typed.
LEMMA GotoCalled ==
  ASSUME Called, NEW to \in Places, Goto(to),
         chip_known' \in BOOLEAN, flash_unlocked' \in BOOLEAN
  PROVE  Called' /\ pc' = to
BY FlashSessionAssumption DEF Called, Goto

\* So does ending it.
LEMMA ReturnCalled ==
  ASSUME Called, Return, chip_known' \in BOOLEAN, flash_unlocked' \in BOOLEAN
  PROVE  Called' /\ pc' = "idle"
BY FlashSessionAssumption, WorkingPlaces DEF Called, Return, NoJob, Blocks

\* A step that writes to the controller keeps the invariant.
LEMMA StepKeeps ==
  ASSUME IInv, NEW from \in Working, NEW to \in Working,
         NEW new \in Controllers, new.locked = ctl.locked,
         Step(from, new, to)
  PROVE  IInv'
<1>1. Targeted'
  BY WriteType, SameChip DEF IInv, Targeted, Step
<1>2. Called' /\ pc' = to /\ pc = from
  BY GotoCalled, WorkingPlaces DEF IInv, Called, Step, state
<1>3. Drafts' /\ (doubt => doubt')
  BY NotedKeepsDrafts DEF IInv, Targeted, Step
<1>4. ctl'.locked = ctl.locked /\ flash_unlocked' = flash_unlocked
  BY WriteType DEF IInv, Targeted, Step, state
<1> QED
  BY <1>1, <1>2, <1>3, <1>4 DEF IInv, CacheRight

-----------------------------------------------------------------------------
(***************************************************************************)
(* WaitForFlash.                                                           *)
(***************************************************************************)
LEMMA PollAgainKeeps ==
  ASSUME IInv, PollAgain
  PROVE  IInv'
<1>1. polls + 1 \in 0 .. MaxPolls
  BY FlashSessionAssumption DEF PollAgain, Poll, IInv, Called
<1>2. Called'
  BY <1>1 DEF IInv, Called, PollAgain, state
<1>3. Targeted'
  BY SameChip DEF IInv, Targeted, PollAgain, target
<1>4. Drafts' /\ (doubt => doubt')
  BY NotedKeepsDrafts DEF IInv, Targeted, PollAgain
<1> QED
  BY <1>2, <1>3, <1>4 DEF IInv, CacheRight, PollAgain, target, state

LEMMA PollEndsKeeps ==
  ASSUME IInv, PollEnds
  PROVE  IInv'
<1>1. ctl' \in Controllers /\ ctl'.locked = ctl.locked
  BY DEF PollEnds, StatusCleared, IInv, Targeted, Controllers
<1>2. Targeted'
  BY <1>1, SameChip DEF PollEnds, IInv, Targeted
<1>3. flash_unlocked' = flash_unlocked /\ chip_known' = chip_known
      /\ chip_known' \in BOOLEAN /\ flash_unlocked' \in BOOLEAN
  BY DEF PollEnds, state, IInv, Called
<1>4. \/ pc' = "idle" /\ Called' /\ Drafts' /\ (doubt => doubt')
      \/ pc \in Working /\ pc' \in Working /\ Called' /\ Drafts' /\ (doubt => doubt')
  <2>1. CASE pc = "wait" /\ Return /\ Noted
    BY <1>3, <2>1, ReturnCalled, NotedKeepsDrafts DEF IInv, Targeted
  <2>2. CASE Fail
    BY <1>3, <2>2, ReturnCalled, FailKeepsDrafts DEF IInv, Targeted, Fail
  <2>3. CASE Success
    BY <1>3, <2>3, ReturnCalled, SuccessKeepsDrafts DEF IInv, Targeted, Success
  <2>4. ASSUME NEW from \in Working, NEW to \in Working, pc = from, Goto(to), Noted
        PROVE  pc \in Working /\ pc' \in Working /\ Called' /\ Drafts' /\ (doubt => doubt')
    BY <1>3, <2>4, GotoCalled, NotedKeepsDrafts, WorkingPlaces DEF IInv, Targeted
  <2>5. {"page_wait", "page_mode", "ready", "load", "erase_wait", "erase_mode", "erased",
         "erase_off"} \subseteq Working
    BY DEF Working, Polling
  <2>6. CASE \/ pc = "page_wait" /\ Goto("page_mode") /\ Noted
             \/ pc = "ready" /\ Goto("load") /\ Noted
             \/ pc = "erase_wait" /\ Goto("erase_mode") /\ Noted
             \/ pc = "erased" /\ Goto("erase_off") /\ Noted
    BY <2>4, <2>5, <2>6
  <2> QED
    BY <2>1, <2>2, <2>3, <2>6 DEF PollEnds
<1> QED
  BY <1>1, <1>2, <1>3, <1>4, WorkingPlaces DEF IInv, CacheRight

-----------------------------------------------------------------------------
(***************************************************************************)
(* UnlockFlash.                                                            *)
(***************************************************************************)
\* flash_unlocked is set only if the controller was seen unlocked, or was not
\* seen at all, and then there is doubt.
LEMMA ReadLockKeeps ==
  ASSUME IInv, ReadLock
  PROVE  IInv'
<1>1. Targeted'
  BY SameChip DEF IInv, Targeted, ReadLock, target
<1>2. Drafts' /\ (doubt => doubt') /\ (~doubt' => link)
  BY NotedKeepsDrafts DEF IInv, Targeted, ReadLock
<1>3. ctl' = ctl /\ chip_known' \in BOOLEAN
  BY DEF ReadLock, target, IInv, Called
<1>4. CASE Goto("keys") /\ UNCHANGED flash_unlocked
  <2>1. Called' /\ pc' \notin Working
    BY <1>3, <1>4, GotoCalled, WorkingPlaces DEF IInv, Called
  <2> QED
    BY <1>1, <1>2, <1>3, <1>4, <2>1 DEF IInv, CacheRight
<1>5. CASE Goto(Unlocked(job)) /\ flash_unlocked' = TRUE /\ (link => ~ctl.locked)
  <2>1. Unlocked(job) \in Places
    BY PlacesToGo, WorkingPlaces
  <2>2. Called'
    BY <1>3, <1>5, <2>1, GotoCalled DEF IInv
  <2> QED
    BY <1>1, <1>2, <1>3, <1>5, <2>2 DEF IInv, CacheRight
<1> QED
  BY <1>4, <1>5 DEF ReadLock

LEMMA SendKeysKeeps ==
  ASSUME IInv, SendKeys
  PROVE  IInv'
<1>1. ctl' \in Controllers /\ (~ctl.locked => ~ctl'.locked)
  BY DEF SendKeys, IInv, Targeted, Controllers
<1>2. Targeted'
  BY <1>1, SameChip DEF IInv, Targeted, SendKeys
<1>3. Drafts' /\ (doubt => doubt')
  BY NotedKeepsDrafts DEF IInv, Targeted, SendKeys
<1>4. Called' /\ pc' \notin Working
  BY GotoCalled, WorkingPlaces DEF IInv, Called, SendKeys, state
<1> QED
  BY <1>1, <1>2, <1>3, <1>4 DEF IInv, CacheRight, SendKeys, state

LEMMA RereadLockKeeps ==
  ASSUME IInv, RereadLock
  PROVE  IInv'
<1>1. Targeted'
  BY SameChip DEF IInv, Targeted, RereadLock, target
<1>2. ctl' = ctl /\ chip_known' \in BOOLEAN
  BY DEF RereadLock, target, IInv, Called
<1>3. CASE Fail /\ UNCHANGED flash_unlocked
  <2>1. Called' /\ pc' \notin Working
    BY <1>2, <1>3, ReturnCalled, WorkingPlaces DEF IInv, Called, Fail
  <2>2. Drafts' /\ (doubt => doubt')
    BY <1>3, FailKeepsDrafts DEF IInv, Targeted
  <2> QED
    BY <1>1, <1>2, <1>3, <2>1, <2>2 DEF IInv, CacheRight
<1>4. CASE link /\ ~ctl.locked /\ Goto(Unlocked(job)) /\ flash_unlocked' = TRUE /\ Noted
  <2>1. Unlocked(job) \in Places
    BY PlacesToGo, WorkingPlaces
  <2>2. Called'
    BY <1>2, <1>4, <2>1, GotoCalled DEF IInv
  <2>3. Drafts'
    BY <1>4, NotedKeepsDrafts DEF IInv, Targeted
  <2> QED
    BY <1>1, <1>2, <1>4, <2>2, <2>3 DEF IInv, CacheRight
<1> QED
  BY <1>3, <1>4 DEF RereadLock

-----------------------------------------------------------------------------
(***************************************************************************)
(* EraseFlash and the programming of a block.                              *)
(***************************************************************************)
LEMMA WritesKeep ==
  ASSUME IInv,
         \/ SetErase \/ SetEraseAddr \/ StartErase \/ EndErase
         \/ SetProgram \/ ResetBuffer \/ SetProgramAddr \/ StartProgram
  PROVE  IInv'
<1>1. {"erase_mode", "erase_addr", "erase_start", "erased", "erase_off", "page_mode",
       "ready", "buf_reset", "prog_addr", "prog_start", "programmed"} \subseteq Working
  BY DEF Working, Polling
<1>2. LoadFrom(job.block) \in Working
  BY PlacesToGo
<1>3. ctl \in Controllers /\ job.block \in Blocks
      /\ {"none", "PAGE_ER", "PAGE_PG"} \subseteq Modes
  BY DEF IInv, Targeted, Called, Modes
<1>4. CASE SetErase
  BY <1>1, <1>3, <1>4, WrittenType, StepKeeps DEF SetErase
<1>5. CASE SetEraseAddr
  BY <1>1, <1>3, <1>5, WrittenType, StepKeeps DEF SetEraseAddr
<1>6. CASE StartErase
  BY <1>1, <1>3, <1>6, WrittenType, StepKeeps DEF StartErase
<1>7. CASE EndErase
  BY <1>1, <1>2, <1>3, <1>7, WrittenType, StepKeeps DEF EndErase
<1>8. CASE SetProgram
  BY <1>1, <1>3, <1>8, WrittenType, StepKeeps DEF SetProgram
<1>9. CASE ResetBuffer
  BY <1>1, <1>3, <1>9, WrittenType, StepKeeps DEF ResetBuffer
<1>10. CASE SetProgramAddr
  BY <1>1, <1>3, <1>10, WrittenType, StepKeeps DEF SetProgramAddr
<1>11. CASE StartProgram
  BY <1>1, <1>3, <1>11, WrittenType, StepKeeps DEF StartProgram
<1> QED
  BY <1>4, <1>5, <1>6, <1>7, <1>8, <1>9, <1>10, <1>11

LEMMA LoadKeeps ==
  ASSUME IInv, Load
  PROVE  IInv'
<1> DEFINE a == IF WholePage THEN job.block ELSE ctl.addr
           new == [ctl EXCEPT !.loaded[job.block % SectorSize] = job.data, !.addr = a]
<1>1. /\ chip \in Chips /\ ctl \in Controllers /\ job.block \in Blocks
      /\ job.data \in Data \cup {Blank} /\ a \in Blocks
  BY DEF IInv, Targeted, Called, Controllers
<1>2. new \in Controllers /\ new.locked = ctl.locked
  BY <1>1, LoadedType
<1>3. Write(IF ctl.mode = "PAGE_PG" THEN new ELSE ctl)
  BY <1>1 DEF Load, Controllers
<1>4. ctl' \in Controllers /\ ctl'.locked = ctl.locked
  BY <1>1, <1>2, <1>3, WriteType
<1>5. Targeted'
  BY <1>4, SameChip DEF IInv, Targeted, Load
<1>6. {"load", "prog_start", "prog_addr"} \subseteq Working
  BY DEF Working
<1>7. UNCHANGED state /\ chip_known' \in BOOLEAN /\ flash_unlocked' \in BOOLEAN /\ pc \in Working
  BY <1>6 DEF Load, IInv, Called, state
<1>8. CASE Success
  BY <1>4, <1>5, <1>7, <1>8, SuccessKeepsDrafts, ReturnCalled, WorkingPlaces
     DEF IInv, Targeted, CacheRight, Success, state
<1>9. CASE Goto(IF WholePage THEN "prog_start" ELSE "prog_addr") /\ Noted
  <2>1. Called' /\ pc' \in Working
    BY <1>6, <1>7, <1>9, GotoCalled, WorkingPlaces DEF IInv
  <2>2. Drafts' /\ (doubt => doubt')
    BY <1>9, NotedKeepsDrafts DEF IInv, Targeted
  <2> QED
    BY <1>4, <1>5, <1>7, <2>1, <2>2 DEF IInv, CacheRight, state
<1> QED
  BY <1>8, <1>9 DEF Load

-----------------------------------------------------------------------------
(***************************************************************************)
(* The commands.                                                           *)
(***************************************************************************)
LEMMA WriteBlockKeeps ==
  ASSUME IInv, NEW b \in Blocks, NEW d \in Wanted[b], NEW e \in BOOLEAN, WriteBlock(b, d, e)
  PROVE  IInv'
<1>1. d \in Data
  BY DEF Data
<1>2. Targeted' /\ ctl' = ctl
  BY SameChip DEF IInv, Targeted, WriteBlock, target
<1>3. Drafts' /\ doubt' = doubt
  BY <1>1, NextDraftKeepsDrafts DEF IInv, Drafts, WriteBlock
<1>4. Unlocked(job') \in Working /\ Unlocked(job') \in Places /\ "unlock" \in Places
  BY PlacesToGo, WorkingPlaces
<1>5. Called'
  BY <1>1, <1>4, FlashSessionAssumption DEF IInv, Called, WriteBlock
<1>6. pc' \in Working => flash_unlocked'
  BY WorkingPlaces DEF WriteBlock
<1> QED
  BY <1>2, <1>3, <1>5, <1>6 DEF IInv, CacheRight, WriteBlock

\* Of all commands only PowerCycle makes flash_unlocked wrong, and it leaves doubt.
LEMMA HostKeeps ==
  ASSUME IInv, Host
  PROVE  IInv'
<1>1. ASSUME NEW b \in Blocks, NEW e \in BOOLEAN, NEW d \in Wanted[b], WriteBlock(b, d, e)
      PROVE  IInv'
  BY <1>1, WriteBlockKeeps
<1>2. CASE Wait
  <2>1. Targeted' /\ Drafts'
    BY <1>2, SameChip DEF IInv, Targeted, Drafts, Wait, target, ghosts
  <2>2. Called' /\ pc' \notin Working
    BY <1>2, FlashSessionAssumption, WorkingPlaces DEF IInv, Called, Wait
  <2> QED
    BY <1>2, <2>1, <2>2 DEF IInv, CacheRight, Wait, target, ghosts
<1>3. CASE NoTarget
  <2>1. Targeted'
    BY <1>3, SameChip DEF IInv, Targeted, NoTarget, target
  <2>2. Called' /\ pc' \notin Working
    BY <1>3, ReturnCalled, WorkingPlaces DEF IInv, Called, NoTarget, Fail, state
  <2>3. Drafts' /\ (doubt => doubt')
    BY <1>3, FailKeepsDrafts DEF IInv, Targeted, NoTarget
  <2> QED
    BY <1>3, <2>1, <2>2, <2>3 DEF IInv, CacheRight, NoTarget, target, state
<1>4. CASE ResetInternalProgrammingState
  <2>1. Targeted' /\ Drafts'
    BY <1>4, SameChip DEF IInv, Targeted, Drafts, ResetInternalProgrammingState, Reset, target
  <2>2. Called' /\ pc' \notin Working
    BY <1>4, WorkingPlaces DEF IInv, Called, ResetInternalProgrammingState, Reset, call
  <2> QED
    BY <1>4, <2>1, <2>2 DEF IInv, CacheRight, ResetInternalProgrammingState, Reset
<1>5. CASE InitializeSWDSWIO
  <2>1. Targeted' /\ Drafts'
    BY <1>5, SameChip DEF IInv, Targeted, Drafts, InitializeSWDSWIO, target, ghosts
  <2>2. Called' /\ pc' \notin Working
    BY <1>5, WorkingPlaces DEF IInv, Called, InitializeSWDSWIO, call
  <2> QED
    BY <1>5, <2>1, <2>2 DEF IInv, CacheRight, InitializeSWDSWIO, target, ghosts
<1>6. CASE PowerCycle
  <2>1. mem' \in [Blocks -> Data \cup {Erased, Mixed}]
    BY <1>6 DEF IInv, Targeted, PowerCycle
  <2>2. Targeted'
    BY <1>6, <2>1, PowerUpType, SameChip DEF IInv, Targeted, PowerCycle
  <2>3. Drafts' /\ doubt'
    BY <1>6, NoDraftType DEF IInv, Drafts, PowerCycle
  <2>4. Called' /\ pc' \notin Working
    BY <1>6, WorkingPlaces DEF IInv, Called, PowerCycle, call, state
  <2> QED
    BY <2>2, <2>3, <2>4 DEF IInv, CacheRight
<1> QED
  BY <1>1, <1>2, <1>3, <1>4, <1>5, <1>6 DEF Host

-----------------------------------------------------------------------------
(***************************************************************************)
(* The controller and the wires on their own.                              *)
(***************************************************************************)
LEMMA FlashDoneKeeps ==
  ASSUME IInv, FlashDone
  PROVE  IInv'
<1>1. ASSUME NEW b \in Blocks, b \in Reach, ctl.busy # "erase"
      PROVE  Programmed(mem[b], ctl.loaded[b % SectorSize]) \in Data \cup {Erased, Mixed}
  <2>1. ctl.loaded[b % SectorSize] \in Data \cup {Blank}
    BY SlotOfBlock DEF IInv, Targeted, Controllers
  <2>2. ctl.loaded[b % SectorSize] # Blank
    BY <1>1 DEF Reach
  <2> QED
    BY <2>1, <2>2, ProgrammedType
<1>2. mem' \in [Blocks -> Data \cup {Erased, Mixed}]
  <2>1. ASSUME NEW b \in Blocks
        PROVE  (IF b \notin Reach \ Protected THEN mem[b]
                ELSE IF ctl.busy = "erase" THEN Erased
                ELSE Programmed(mem[b], ctl.loaded[b % SectorSize])) \in Data \cup {Erased, Mixed}
    BY <1>1 DEF IInv, Targeted
  <2> QED
    BY <2>1 DEF FlashDone
<1>3. ctl' \in Controllers /\ ctl'.locked = ctl.locked
  <2>1. Unloaded \in [Slots -> Data \cup {Blank}]
    BY DEF Unloaded
  <2> QED
    BY <2>1 DEF FlashDone, IInv, Targeted, Controllers
<1>4. Targeted'
  BY <1>2, <1>3, SameChip DEF FlashDone, IInv, Targeted
<1>5. Called' /\ Drafts'
  BY DEF FlashDone, IInv, Called, Drafts, state, call, ghosts
<1> QED
  BY <1>3, <1>4, <1>5 DEF FlashDone, IInv, CacheRight, state, call, ghosts

LEMMA InvariantKept ==
  IInv /\ [Next]_vars => IInv'
<1> SUFFICES ASSUME IInv, [Next]_vars
             PROVE  IInv'
  OBVIOUS
<1>1. CASE Programmer
  BY <1>1, PollAgainKeeps, PollEndsKeeps, ReadLockKeeps, SendKeysKeeps, RereadLockKeeps,
     WritesKeep, LoadKeeps DEF Programmer
<1>2. CASE Host
  BY <1>2, HostKeeps
<1>3. CASE FlashDone
  BY <1>3, FlashDoneKeeps
<1>4. CASE LinkChanges
  <2>1. Targeted' /\ Called' /\ Drafts'
    BY <1>4, SameChip DEF LinkChanges, IInv, Targeted, Called, Drafts, target, state, call, ghosts
  <2> QED
    BY <1>4, <2>1 DEF LinkChanges, IInv, CacheRight, target, state, call, ghosts
<1>5. CASE UNCHANGED vars
  <2>1. Targeted' /\ Called' /\ Drafts'
    BY <1>5, SameChip DEF IInv, Targeted, Called, Drafts, vars, target, state, call, ghosts
  <2> QED
    BY <1>5, <2>1 DEF IInv, CacheRight, vars, target, state, call, ghosts
<1> QED
  BY <1>1, <1>2, <1>3, <1>4, <1>5 DEF Next

LEMMA InvariantAtFirst ==
  Init => IInv
<1> SUFFICES ASSUME Init
             PROVE  IInv
  OBVIOUS
<1>1. Targeted
  BY PowerUpType DEF Init, Targeted
<1>2. Called /\ pc \notin Working
  <2>1. NoJob \in [block : Blocks, data : Data \cup {Blank}, erase : BOOLEAN]
    BY FlashSessionAssumption DEF NoJob, Blocks
  <2>2. 0 \in 0 .. MaxPolls
    BY FlashSessionAssumption
  <2> QED
    BY <2>1, <2>2, WorkingPlaces DEF Init, Called
<1>3. Drafts
  BY NoDraftType DEF Init, Drafts
<1> QED
  BY <1>1, <1>2, <1>3 DEF IInv, CacheRight, Init

\* The invariant of the session: its variables keep their types, and
\* flash_unlocked is right unless there is doubt.
THEOREM InvariantHolds == Spec => []IInv
<1>1. Init => IInv
  BY InvariantAtFirst
<1>2. IInv /\ [Next]_vars => IInv'
  BY InvariantKept
<1> QED
  BY <1>1, <1>2, PTL DEF Spec

\* Every variable keeps its type: what WriteBlock counts, addresses and loads
\* stays within the flash and the page buffer, for every size of them.
THEOREM TypeCorrect == Spec => []TypeOK
<1>1. IInv => TypeOK
  BY InvariantImplies
<1> QED
  BY <1>1, InvariantHolds, PTL

\* A WriteBlock past UnlockFlash works on an unlocked controller: flash_unlocked
\* is never stale unless the target was changed, or an access lost, since the
\* last command 0x05 or 0x0a.
THEOREM UnlockedIsRight == Spec => []UnlockedWhenUsed
<1>1. IInv => UnlockedWhenUsed
  BY InvariantImplies
<1> QED
  BY <1>1, InvariantHolds, PTL


-----------------------------------------------------------------------------
(***************************************************************************)
(* What is vouched for is out of the controller's reach.                   *)
(***************************************************************************)
Asking == pc \notin {"idle", "wait"}

Clear == vouched \cap Sector(ctl.addr) = {}

\* The operation the controller is at, or the next that it is started on.
Careful ==
  /\ Asking => vouched \cap Sector(job.block) = {}
  /\ ctl.busy = "erase" => Clear
  /\ ctl.busy = "program" /\ ~WholePage => Clear
  /\ WholePage => Clear \/ ctl.loaded = Unloaded
  /\ pc \in {"erase_mode", "erase_addr", "erase_start"} => vouched = {} \/ ctl.busy = "no"
  /\ pc = "erase_start" => ctl.locked \/ Clear
  /\ pc = "prog_start" => ctl.locked \/ Clear \/ WholePage

-----------------------------------------------------------------------------
(***************************************************************************)
(* How far a draft has come.                                               *)
(***************************************************************************)
Count == Len(draft.data)

\* The sector holds the first k blocks of the draft and is erased beyond them.
Laid(k) ==
  /\ Sector(draft.first) \cap Protected = {}
  /\ \A b \in Sector(draft.first) :
       mem[b] = IF b - draft.first < k THEN draft.data[b - draft.first + 1] ELSE Erased

\* The page buffer holds the first k.
Filled(k) ==
  \A s \in Slots :
    /\ s < k => ctl.loaded[s] = draft.data[s + 1]
    /\ s >= k /\ ~WholePage => ctl.loaded[s] = Blank

\* The controller is ready for the block after the first k.
Ready(k) ==
  /\ ctl.busy = "no" /\ ctl.mode = "PAGE_PG"
  /\ Filled(k) /\ Laid(IF WholePage THEN 0 ELSE k)

\* Nothing of the draft is in the flash yet; all but its last block is.
Blanked == Laid(0)
Begun == Ready(Count - 1)

\* All of the draft has been dealt with.
Complete ==
  IF WholePage /\ Count = SectorSize
  THEN ctl.busy = "no" /\ Laid(Count) /\ ctl.loaded = Unloaded
  ELSE Ready(Count)

\* The last block is in the page buffer, the others are where they belong.
Full ==
  /\ ctl.mode = "PAGE_PG" /\ Filled(Count)
  /\ IF WholePage THEN Blanked /\ Count = SectorSize ELSE Laid(Count - 1)

Stage ==
  /\ pc \in {"idle", "wait"} => Complete
  /\ pc \in {"unlock", "keys", "unlocked"} => Count = 1 \/ Begun
  /\ pc \in {"erase_wait", "erase_mode", "erase_addr", "erase_start", "erased",
             "erase_off", "page_wait", "page_mode", "buf_reset", "ready"} => Count = 1
  /\ pc \in {"erase_mode", "erase_addr", "erase_start", "erase_off",
             "page_wait", "page_mode", "buf_reset"} => ctl.busy = "no"
  /\ pc \in {"erase_start", "erased"} => ctl.addr = job.block
  /\ pc = "erased" => \/ ctl.busy = "erase"
                      \/ ctl.busy = "no" /\ (ctl.wrprt \/ Blanked)
  /\ pc \in {"erase_off", "page_wait", "page_mode", "buf_reset"} => Blanked
  /\ pc = "buf_reset" => ctl.mode = "PAGE_PG"
  /\ pc \in {"ready", "load"} => Begun
  /\ pc \in {"prog_addr", "prog_start"} => ctl.busy = "no" /\ Full
  /\ pc = "prog_addr" => ~WholePage
  /\ pc = "prog_start" => ctl.addr = job.block
  /\ pc = "programmed" => \/ ctl.busy = "program" /\ Full /\ ctl.addr = job.block
                          \/ ctl.busy = "no" /\ Complete

\* A draft is of a sector from its first block on, and the request in progress
\* is about its last block.
InOrder ==
  /\ ~doubt /\ IsFirstBlock(draft.first) /\ Count <= SectorSize
  /\ Asking => /\ job.block = draft.first + Count - 1
               /\ job.data = draft.data[Count]
               /\ job.erase <=> Count = 1

DraftRight == draft.data # <<>> => InOrder /\ Stage

PInv == Careful /\ DraftRight

-----------------------------------------------------------------------------
(***************************************************************************)
(* A sector and the page buffer, slot by slot.                             *)
(***************************************************************************)
\* Quotient and remainder.
LEMMA Division ==
  ASSUME NEW a \in Nat, NEW m \in Nat \ {0}
  PROVE  a = (a \div m) * m + (a % m) /\ a % m \in 0 .. m - 1 /\ a \div m \in Nat
  OBVIOUS

\* A sector is the sectorsize blocks from its first on.
LEMMA SectorIs ==
  ASSUME chip \in Chips, NEW f \in Blocks, IsFirstBlock(f), NEW b \in Blocks
  PROVE  /\ b \in Sector(f) <=> f <= b /\ b < f + SectorSize
         /\ b \in Sector(f) => b % SectorSize = b - f
<1> DEFINE m == SectorSize
           q == f \div m
           p == b \div m
           r == b % m
<1>1. m \in Nat \ {0}
  BY FlashSessionAssumption DEF SectorSize
<1>2. f \in Nat /\ b \in Nat
  BY FlashSessionAssumption DEF Blocks
<1>3. f % m = 0
  BY DEF IsFirstBlock
<1>4. b \in Sector(f) <=> p = q
  BY DEF Sector
<1> HIDE DEF m
<1>5. f = q * m + (f % m) /\ q \in Nat
  BY <1>1, <1>2, Division
<1>6. b = p * m + r /\ p \in Nat /\ r \in 0 .. m - 1
  BY <1>1, <1>2, Division
<1> HIDE DEF p, q, r
<1>7. p = q => f <= b /\ b < f + m /\ r = b - f
  BY <1>1, <1>2, <1>3, <1>5, <1>6
<1>8. ASSUME f <= b, b < f + m
      PROVE  p = q
  <2>1. q * m <= p * m + r /\ p * m + r < q * m + m
    BY <1>1, <1>3, <1>5, <1>6, <1>8
  <2>2. ~ p < q
    <3>1. SUFFICES ASSUME p + 1 <= q
                   PROVE  FALSE
      BY <1>5, <1>6
    <3>2. (p + 1) * m <= q * m
      BY <3>1, <1>1, <1>5, <1>6
    <3> QED
      BY <2>1, <3>2, <1>1, <1>5, <1>6
  <2>3. ~ q < p
    <3>1. SUFFICES ASSUME q + 1 <= p
                   PROVE  FALSE
      BY <1>5, <1>6
    <3>2. (q + 1) * m <= p * m
      BY <3>1, <1>1, <1>5, <1>6
    <3> QED
      BY <2>1, <3>2, <1>1, <1>5, <1>6
  <2> QED
    BY <2>2, <2>3, <1>5, <1>6
<1>9. (b \in Sector(f) <=> f <= b /\ b < f + m) /\ (b \in Sector(f) => r = b - f)
  BY <1>4, <1>7, <1>8
<1> QED
  BY <1>9 DEF m, r

-----------------------------------------------------------------------------
(***************************************************************************)
(* What the ghosts of a lost access make easy.                             *)
(***************************************************************************)
\* The sectors are the chip's, and it does not change.
LEMMA SameSectors ==
  ASSUME chip' = chip
  PROVE  /\ SectorSize' = SectorSize /\ WholePage' = WholePage
         /\ Slots' = Slots /\ Unloaded' = Unloaded
         /\ \A b \in Blocks : Sector(b)' = Sector(b)
<1>1. SectorSize' = SectorSize /\ WholePage' = WholePage
  BY DEF SectorSize, WholePage
<1>2. Slots' = Slots
  BY <1>1 DEF Slots
<1>3. Unloaded' = Unloaded
  BY <1>2 DEF Unloaded
<1>4. ASSUME NEW b \in Blocks
      PROVE  Sector(b)' = Sector(b)
  BY <1>1 DEF Sector
<1> QED
  BY <1>1, <1>2, <1>3, <1>4

\* With nothing vouched for and no draft there is nothing to care for.
LEMMA NothingVouched ==
  ASSUME vouched' = {}
  PROVE  Careful'
BY DEF Careful, Clear

LEMMA NothingDrafted ==
  ASSUME draft' = NoDraft
  PROVE  DraftRight'
BY DEF DraftRight, NoDraft

\* A lost access leaves neither.
LEMMA LostAccess ==
  ASSUME ~link, Noted \/ Fail \/ Success
  PROVE  PInv'
<1>1. vouched' = {} /\ draft' = NoDraft
  BY DEF Noted, Fail, Success
<1> QED
  BY <1>1, NothingVouched, NothingDrafted DEF PInv

\* The rest is kept by what leaves the draft, the flash and the controller alone.
LEMMA SameCareful ==
  ASSUME Careful, IInv, UNCHANGED <<chip, ctl>>, vouched' \subseteq vouched,
         Asking' => Asking /\ job' = job,
         pc' \in {"erase_mode", "erase_addr", "erase_start", "prog_start"} => pc' = pc
  PROVE  Careful'
<1>1. ctl.addr \in Blocks /\ job.block \in Blocks
  BY DEF IInv, Targeted, Called, Controllers
<1>2. /\ WholePage' = WholePage /\ Unloaded' = Unloaded
      /\ Sector(ctl.addr)' = Sector(ctl.addr)
      /\ Asking' => Sector(job.block)' = Sector(job.block)
  BY <1>1, SameSectors DEF Sector, SectorSize
<1>3. Clear => Clear'
  BY <1>2 DEF Clear
<1>4. vouched = {} => vouched' = {}
  OBVIOUS
<1>5. Asking' => vouched' \cap Sector(job.block)' = {}
  BY <1>2 DEF Careful
<1> QED
  BY <1>2, <1>3, <1>4, <1>5 DEF Careful

-----------------------------------------------------------------------------
(***************************************************************************)
(* No step brings what is vouched for into the controller's reach.         *)
(***************************************************************************)
\* What the controller is at is not vouched for.
LEMMA OutOfReach ==
  ASSUME IInv, Careful, ctl.busy # "no"
  PROVE  Reach \cap vouched = {}
<1>1. CASE Clear
  BY <1>1 DEF Clear, Reach
<1>2. CASE ctl.loaded = Unloaded /\ ctl.busy # "erase"
  <2>1. ASSUME NEW b \in Blocks
        PROVE  ctl.loaded[b % SectorSize] = Blank
    BY <1>2, SlotOfBlock DEF IInv, Targeted, Unloaded
  <2> QED
    BY <1>2, <2>1 DEF Reach, Sector
<1> QED
  BY <1>1, <1>2 DEF IInv, Targeted, Controllers, Careful

\* With the link, a step of a WriteBlock leaves the ghosts, the sectors and the job alone.
LEMMA StepAlone ==
  ASSUME IInv, link, NEW from, NEW new, NEW to, Step(from, new, to)
  PROVE  /\ UNCHANGED <<chip, mem, link, job, doubt, draft, vouched>>
         /\ pc = from /\ pc' = to
         /\ ctl' = IF ctl.busy = "no" /\ ~ctl.locked THEN new ELSE ctl
         /\ WholePage' = WholePage /\ Unloaded' = Unloaded
         /\ Sector(job.block)' = Sector(job.block)
         /\ ctl'.addr = ctl.addr => (Clear' <=> Clear)
         /\ ctl'.addr = job.block => Sector(ctl.addr)' = Sector(job.block)
<1>1. /\ UNCHANGED <<chip, mem, link, job, doubt, draft, vouched>>
      /\ pc = from /\ pc' = to
      /\ ctl' = IF ctl.busy = "no" /\ ~ctl.locked THEN new ELSE ctl
  BY DEF Step, Goto, Noted, ghosts, Write, Listens
<1>2. /\ WholePage' = WholePage /\ Unloaded' = Unloaded
  BY <1>1, SameSectors
<1>3. /\ Sector(job.block)' = Sector(job.block)
      /\ ctl'.addr = job.block => Sector(ctl.addr)' = Sector(job.block)
      /\ ctl'.addr = ctl.addr => (Clear' <=> Clear)
  BY <1>1 DEF Sector, SectorSize, Clear
<1> QED
  BY <1>1, <1>2, <1>3

LEMMA WritesAreCareful ==
  ASSUME IInv, Careful, link,
         \/ SetErase \/ SetEraseAddr \/ StartErase \/ EndErase
         \/ SetProgram \/ ResetBuffer \/ SetProgramAddr \/ StartProgram
  PROVE  Careful'
<1>1. ctl \in Controllers
  BY DEF IInv, Targeted
<1>2. CASE SetErase
  <2>1. Step("erase_mode", [ctl EXCEPT !.mode = "PAGE_ER"], "erase_addr")
    BY <1>2 DEF SetErase
  <2>2. /\ pc = "erase_mode" /\ pc' = "erase_addr" /\ UNCHANGED <<job, vouched>>
        /\ ctl' = IF ctl.busy = "no" /\ ~ctl.locked THEN [ctl EXCEPT !.mode = "PAGE_ER"] ELSE ctl
        /\ WholePage' = WholePage /\ Unloaded' = Unloaded
        /\ Sector(job.block)' = Sector(job.block)
        /\ ctl'.addr = ctl.addr => (Clear' <=> Clear)
        /\ ctl'.addr = job.block => Sector(ctl.addr)' = Sector(job.block)
    BY <2>1, StepAlone
  <2>3. /\ ctl'.locked = ctl.locked /\ ctl'.busy = ctl.busy /\ ctl'.addr = ctl.addr /\ ctl'.loaded = ctl.loaded
    BY <1>1, <2>2 DEF Controllers
  <2> QED
    BY <1>1, <2>2, <2>3 DEF Careful, Asking, Controllers
<1>3. CASE SetEraseAddr
  <2>1. Step("erase_addr", [ctl EXCEPT !.addr = job.block], "erase_start")
    BY <1>3 DEF SetEraseAddr
  <2>2. /\ pc = "erase_addr" /\ pc' = "erase_start" /\ UNCHANGED <<job, vouched>>
        /\ ctl' = IF ctl.busy = "no" /\ ~ctl.locked THEN [ctl EXCEPT !.addr = job.block] ELSE ctl
        /\ WholePage' = WholePage /\ Unloaded' = Unloaded
        /\ Sector(job.block)' = Sector(job.block)
        /\ ctl'.addr = ctl.addr => (Clear' <=> Clear)
        /\ ctl'.addr = job.block => Sector(ctl.addr)' = Sector(job.block)
    BY <2>1, StepAlone
  <2>3. /\ ctl'.locked = ctl.locked /\ ctl'.busy = ctl.busy /\ ctl'.loaded = ctl.loaded
        /\ ctl.busy = "no" /\ ~ctl.locked => ctl'.addr = job.block
        /\ ~(ctl.busy = "no" /\ ~ctl.locked) => ctl'.addr = ctl.addr
    BY <1>1, <2>2 DEF Controllers
  <2> QED
    BY <1>1, <2>2, <2>3 DEF Careful, Asking, Controllers, Clear
<1>4. CASE StartErase
  <2>1. Step("erase_start", [ctl EXCEPT !.mode = "PAGE_ER", !.busy = "erase"], "erased")
    BY <1>4 DEF StartErase
  <2>2. /\ pc = "erase_start" /\ pc' = "erased" /\ UNCHANGED <<job, vouched>>
        /\ ctl' = IF ctl.busy = "no" /\ ~ctl.locked THEN [ctl EXCEPT !.mode = "PAGE_ER", !.busy = "erase"] ELSE ctl
        /\ WholePage' = WholePage /\ Unloaded' = Unloaded
        /\ Sector(job.block)' = Sector(job.block)
        /\ ctl'.addr = ctl.addr => (Clear' <=> Clear)
        /\ ctl'.addr = job.block => Sector(ctl.addr)' = Sector(job.block)
    BY <2>1, StepAlone
  <2>3. /\ ctl'.locked = ctl.locked /\ ctl'.addr = ctl.addr /\ ctl'.loaded = ctl.loaded
        /\ ctl.busy = "no" /\ ~ctl.locked => ctl'.busy = "erase"
        /\ ~(ctl.busy = "no" /\ ~ctl.locked) => ctl'.busy = ctl.busy
    BY <1>1, <2>2 DEF Controllers
  <2> QED
    BY <1>1, <2>2, <2>3 DEF Careful, Asking, Controllers
<1>5. CASE EndErase
  <2>1. Step("erase_off", [ctl EXCEPT !.mode = "none"], LoadFrom(job.block))
    BY <1>5 DEF EndErase
  <2>2. /\ pc = "erase_off" /\ pc' = LoadFrom(job.block) /\ UNCHANGED <<job, vouched>>
        /\ ctl' = IF ctl.busy = "no" /\ ~ctl.locked THEN [ctl EXCEPT !.mode = "none"] ELSE ctl
        /\ WholePage' = WholePage /\ Unloaded' = Unloaded
        /\ Sector(job.block)' = Sector(job.block)
        /\ ctl'.addr = ctl.addr => (Clear' <=> Clear)
        /\ ctl'.addr = job.block => Sector(ctl.addr)' = Sector(job.block)
    BY <2>1, StepAlone
  <2>3. /\ ctl'.locked = ctl.locked /\ ctl'.busy = ctl.busy /\ ctl'.addr = ctl.addr /\ ctl'.loaded = ctl.loaded
    BY <1>1, <2>2 DEF Controllers
  <2> QED
    BY <1>1, <2>2, <2>3 DEF Careful, Asking, Controllers, LoadFrom
<1>6. CASE SetProgram
  <2>1. \/ Step("page_mode", [ctl EXCEPT !.mode = "PAGE_PG"], "ready")
        \/ Step("page_mode", [ctl EXCEPT !.mode = "PAGE_PG"], "buf_reset")
    BY <1>6 DEF SetProgram
  <2>2. /\ pc = "page_mode" /\ pc' \in {"ready", "buf_reset"} /\ UNCHANGED <<job, vouched>>
        /\ ctl' = IF ctl.busy = "no" /\ ~ctl.locked THEN [ctl EXCEPT !.mode = "PAGE_PG"] ELSE ctl
        /\ WholePage' = WholePage /\ Unloaded' = Unloaded
        /\ Sector(job.block)' = Sector(job.block)
        /\ ctl'.addr = ctl.addr => (Clear' <=> Clear)
        /\ ctl'.addr = job.block => Sector(ctl.addr)' = Sector(job.block)
    BY <2>1, StepAlone
  <2>3. /\ ctl'.locked = ctl.locked /\ ctl'.busy = ctl.busy /\ ctl'.addr = ctl.addr /\ ctl'.loaded = ctl.loaded
    BY <1>1, <2>2 DEF Controllers
  <2> QED
    BY <1>1, <2>2, <2>3 DEF Careful, Asking, Controllers
<1>7. CASE ResetBuffer
  <2>1. Step("buf_reset", [ctl EXCEPT !.mode = "PAGE_PG", !.loaded = Unloaded], "ready")
    BY <1>7 DEF ResetBuffer
  <2>2. /\ pc = "buf_reset" /\ pc' = "ready" /\ UNCHANGED <<job, vouched>>
        /\ ctl' = IF ctl.busy = "no" /\ ~ctl.locked THEN [ctl EXCEPT !.mode = "PAGE_PG", !.loaded = Unloaded] ELSE ctl
        /\ WholePage' = WholePage /\ Unloaded' = Unloaded
        /\ Sector(job.block)' = Sector(job.block)
        /\ ctl'.addr = ctl.addr => (Clear' <=> Clear)
        /\ ctl'.addr = job.block => Sector(ctl.addr)' = Sector(job.block)
    BY <2>1, StepAlone
  <2>3. /\ ctl'.locked = ctl.locked /\ ctl'.busy = ctl.busy /\ ctl'.addr = ctl.addr
        /\ ctl.busy = "no" /\ ~ctl.locked => ctl'.loaded = Unloaded
        /\ ~(ctl.busy = "no" /\ ~ctl.locked) => ctl'.loaded = ctl.loaded
    BY <1>1, <2>2 DEF Controllers
  <2> QED
    BY <1>1, <2>2, <2>3 DEF Careful, Asking, Controllers
<1>8. CASE SetProgramAddr
  <2>1. Step("prog_addr", [ctl EXCEPT !.addr = job.block], "prog_start")
    BY <1>8 DEF SetProgramAddr
  <2>2. /\ pc = "prog_addr" /\ pc' = "prog_start" /\ UNCHANGED <<job, vouched>>
        /\ ctl' = IF ctl.busy = "no" /\ ~ctl.locked THEN [ctl EXCEPT !.addr = job.block] ELSE ctl
        /\ WholePage' = WholePage /\ Unloaded' = Unloaded
        /\ Sector(job.block)' = Sector(job.block)
        /\ ctl'.addr = ctl.addr => (Clear' <=> Clear)
        /\ ctl'.addr = job.block => Sector(ctl.addr)' = Sector(job.block)
    BY <2>1, StepAlone
  <2>3. /\ ctl'.locked = ctl.locked /\ ctl'.busy = ctl.busy /\ ctl'.loaded = ctl.loaded
        /\ ctl.busy = "no" /\ ~ctl.locked => ctl'.addr = job.block
        /\ ~(ctl.busy = "no" /\ ~ctl.locked) => ctl'.addr = ctl.addr
    BY <1>1, <2>2 DEF Controllers
  <2> QED
    BY <1>1, <2>2, <2>3 DEF Careful, Asking, Controllers, Clear
<1>9. CASE StartProgram
  <2>1. Step("prog_start", [ctl EXCEPT !.mode = "PAGE_PG", !.busy = "program"], "programmed")
    BY <1>9 DEF StartProgram
  <2>2. /\ pc = "prog_start" /\ pc' = "programmed" /\ UNCHANGED <<job, vouched>>
        /\ ctl' = IF ctl.busy = "no" /\ ~ctl.locked THEN [ctl EXCEPT !.mode = "PAGE_PG", !.busy = "program"] ELSE ctl
        /\ WholePage' = WholePage /\ Unloaded' = Unloaded
        /\ Sector(job.block)' = Sector(job.block)
        /\ ctl'.addr = ctl.addr => (Clear' <=> Clear)
        /\ ctl'.addr = job.block => Sector(ctl.addr)' = Sector(job.block)
    BY <2>1, StepAlone
  <2>3. /\ ctl'.locked = ctl.locked /\ ctl'.addr = ctl.addr /\ ctl'.loaded = ctl.loaded
        /\ ctl.busy = "no" /\ ~ctl.locked => ctl'.busy = "program"
        /\ ~(ctl.busy = "no" /\ ~ctl.locked) => ctl'.busy = ctl.busy
    BY <1>1, <2>2 DEF Controllers
  <2> QED
    BY <1>1, <2>2, <2>3 DEF Careful, Asking, Controllers
<1> QED
  BY <1>2, <1>3, <1>4, <1>5, <1>6, <1>7, <1>8, <1>9


\* Keys set no operation going.
LEMMA SendKeysIsCareful ==
  ASSUME IInv, Careful, link, SendKeys
  PROVE  Careful'
<1>1. UNCHANGED <<chip, job, vouched>> /\ pc = "keys" /\ pc' = "unlocked"
  BY DEF SendKeys, Noted, Goto, ghosts
<1>2. ctl'.busy = ctl.busy /\ ctl'.addr = ctl.addr /\ ctl'.loaded = ctl.loaded
  BY DEF SendKeys, IInv, Targeted, Controllers
<1>3. /\ WholePage' = WholePage /\ Unloaded' = Unloaded
      /\ Sector(job.block)' = Sector(job.block) /\ (Clear' <=> Clear)
  BY <1>1, <1>2, SameSectors DEF Sector, SectorSize, Clear
<1> QED
  BY <1>1, <1>2, <1>3 DEF Careful, Asking

\* The words of a block that is loaded go where nothing is vouched for.
LEMMA LoadIsCareful ==
  ASSUME IInv, Careful, link, Load, vouched' = vouched
  PROVE  Careful'
<1>1. UNCHANGED chip /\ pc = "load" /\ ctl \in Controllers
      /\ \/ pc' \in {"idle", "prog_addr"}
         \/ pc' = "prog_start" /\ WholePage
      /\ (Asking' => job' = job)
  BY DEF Load, Success, Noted, Return, Goto, IInv, Targeted, Asking
<1>2. WholePage' = WholePage /\ Unloaded' = Unloaded
  BY <1>1, SameSectors
<1>3. Sector(job.block)' = Sector(job.block) \/ ~Asking'
  BY <1>1 DEF Sector, SectorSize
<1>4. CASE ctl' = ctl
  <2>1. Clear' <=> Clear
    BY <1>1, <1>4 DEF Clear, Sector, SectorSize
  <2> QED
    BY <1>1, <1>2, <1>3, <1>4, <2>1 DEF Careful, Asking
<1>5. CASE /\ ctl.busy = "no"
           /\ ctl' = [ctl EXCEPT !.loaded[job.block % SectorSize] = job.data,
                                 !.addr = IF WholePage THEN job.block ELSE @]
  <2>1. ctl'.busy = "no" /\ (WholePage => ctl'.addr = job.block)
    BY <1>1, <1>5 DEF Controllers
  <2>2. vouched \cap Sector(job.block) = {}
    BY <1>1 DEF Careful, Asking
  <2>3. WholePage => Clear'
    BY <1>1, <2>1, <2>2 DEF Clear, Sector, SectorSize
  <2> QED
    BY <1>1, <1>2, <1>3, <2>1, <2>2, <2>3 DEF Careful, Asking
<1> QED
  BY <1>4, <1>5 DEF Load, Write, Listens

\* A block asked for is no longer vouched for, nor is its sector.
LEMMA WriteBlockIsCareful ==
  ASSUME IInv, Careful, NEW b \in Blocks, NEW d, NEW e, WriteBlock(b, d, e)
  PROVE  Careful'
<1>1. /\ UNCHANGED <<chip, ctl>> /\ job'.block = b
      /\ vouched' = vouched \ Sector(b)
  BY DEF WriteBlock, target
<1>2. pc' \in {"unlock", "erase_wait", "load", "page_wait", "page_mode"}
  BY DEF WriteBlock, Unlocked, LoadFrom
<1>3. WholePage' = WholePage /\ Unloaded' = Unloaded /\ Sector(job.block)' = Sector(b)
  BY <1>1, SameSectors DEF Sector, SectorSize
<1>4. Clear => Clear'
  BY <1>1 DEF Clear, Sector, SectorSize
<1>5. ctl'.busy = ctl.busy /\ ctl'.loaded = ctl.loaded
  BY <1>1
<1> QED
  BY <1>1, <1>2, <1>3, <1>4, <1>5 DEF Careful

\* Without power nothing is going on,
LEMMA PowerCycleIsCareful ==
  ASSUME PowerCycle
  PROVE  Careful'
<1>1. pc' = "idle" /\ UNCHANGED chip /\ ctl'.busy = "no" /\ ctl'.loaded = Unloaded
  BY DEF PowerCycle, call, PowerUp
<1>2. Unloaded' = Unloaded
  BY <1>1, SameSectors
<1> QED
  BY <1>1, <1>2 DEF Careful, Asking

\* and when the controller is done nothing is.
LEMMA FlashDoneIsCareful ==
  ASSUME IInv, Careful, FlashDone
  PROVE  Careful'
<1>1. /\ UNCHANGED <<chip, pc, job, vouched>> /\ ctl.busy # "no" /\ ctl \in Controllers
  BY DEF FlashDone, call, ghosts, IInv, Targeted
<1>2. /\ WholePage' = WholePage /\ Unloaded' = Unloaded
      /\ Sector(job.block)' = Sector(job.block)
  BY <1>1, SameSectors DEF Sector, SectorSize
<1>3. /\ ctl'.busy = "no" /\ ctl'.addr = ctl.addr /\ ctl'.locked = ctl.locked
      /\ ctl'.loaded = IF ctl.busy = "program" /\ WholePage THEN Unloaded ELSE ctl.loaded
  BY <1>1 DEF FlashDone, Controllers
<1>4. Clear' <=> Clear
  BY <1>1, <1>3 DEF Clear, Sector, SectorSize
<1> QED
  BY <1>1, <1>2, <1>3, <1>4 DEF Careful, Asking, Controllers

-----------------------------------------------------------------------------
(***************************************************************************)
(* How a draft gets on, step by step.                                      *)
(***************************************************************************)
\* What of the stages depends on what.
LEMMA SameDraft ==
  ASSUME UNCHANGED <<chip, mem, draft>>
  PROVE  /\ Count' = Count /\ SectorSize' = SectorSize /\ WholePage' = WholePage
         /\ Blanked' <=> Blanked
         /\ ctl'.mode = ctl.mode /\ ctl'.loaded = ctl.loaded => (Full' <=> Full)
         /\ ctl'.mode = ctl.mode /\ ctl'.loaded = ctl.loaded /\ ctl'.busy = ctl.busy =>
              (Begun' <=> Begun) /\ (Complete' <=> Complete)
<1>1. Count' = Count /\ SectorSize' = SectorSize /\ WholePage' = WholePage /\ Slots' = Slots
      /\ Unloaded' = Unloaded
  BY SameSectors DEF Count
<1>2. Sector(draft.first)' = Sector(draft.first)
  BY DEF Sector, SectorSize
<1>3. Blanked' <=> Blanked
  BY <1>2 DEF Blanked, Laid
<1>4. ASSUME ctl'.mode = ctl.mode, ctl'.loaded = ctl.loaded
      PROVE  Full' <=> Full
  BY <1>1, <1>2, <1>3, <1>4 DEF Full, Filled, Laid
<1>5. ASSUME ctl'.mode = ctl.mode, ctl'.loaded = ctl.loaded, ctl'.busy = ctl.busy
      PROVE  (Begun' <=> Begun) /\ (Complete' <=> Complete)
  <2>1. Begun' <=> Begun
    BY <1>1, <1>2, <1>5 DEF Begun, Ready, Filled, Laid
  <2>2. Complete' <=> Complete
    BY <1>1, <1>2, <1>5 DEF Complete, Ready, Filled, Laid
  <2> QED
    BY <2>1, <2>2
<1> QED
  BY <1>1, <1>3, <1>4, <1>5

\* A draft fits in its sector,
LEMMA DraftSize ==
  ASSUME IInv, InOrder, draft.data # <<>>
  PROVE  /\ Count \in 1 .. SectorSize /\ SectorSize \in Nat \ {0}
         /\ draft.first \in Blocks /\ draft.first \in Nat /\ draft.data \in Seq(Data)
         /\ Len(draft.data) = Count /\ chip \in Chips
<1>1. chip \in Chips /\ draft.first \in Blocks /\ draft.data \in Seq(Data)
  BY DEF IInv, Targeted, Drafts
<1>2. Len(draft.data) \in Nat /\ Len(draft.data) # 0
  BY <1>1
<1>3. SectorSize \in Nat \ {0} /\ draft.first \in Nat
  BY <1>1, FlashSessionAssumption DEF SectorSize, Blocks
<1> QED
  BY <1>1, <1>2, <1>3 DEF InOrder, Count

\* and the request in progress is about its last block.
LEMMA LastBlock ==
  ASSUME IInv, InOrder, draft.data # <<>>, Asking
  PROVE  /\ job.block \in Sector(draft.first) /\ Sector(job.block) = Sector(draft.first)
         /\ job.block = draft.first + Count - 1 /\ job.block % SectorSize = Count - 1
<1>1. job.block \in Blocks /\ job.block = draft.first + Count - 1 /\ IsFirstBlock(draft.first)
  BY DEF IInv, Called, InOrder
<1>2. draft.first <= job.block /\ job.block < draft.first + SectorSize
  BY <1>1, DraftSize
<1>3. job.block \in Sector(draft.first) /\ job.block % SectorSize = job.block - draft.first
  BY <1>1, <1>2, DraftSize, SectorIs
<1>4. Sector(job.block) = Sector(draft.first)
  BY <1>3 DEF Sector
<1> QED
  BY <1>1, <1>3, <1>4, DraftSize

\* The order is kept by all steps of a command.
LEMMA OrderKept ==
  ASSUME InOrder, UNCHANGED <<chip, draft>>, ~doubt', Asking' => Asking /\ job' = job
  PROVE  InOrder'
<1>1. SectorSize' = SectorSize /\ Count' = Count
  BY SameSectors DEF Count
<1> QED
  BY <1>1 DEF InOrder, IsFirstBlock

\* Nothing changes where nothing happens.
LEMMA SameDraftRight ==
  ASSUME DraftRight, UNCHANGED <<chip, mem, ctl, draft>>, doubt' => doubt,
         \/ pc' = pc /\ job' = job
         \/ pc = "idle" /\ pc' = "wait"
         \/ pc = "wait" /\ pc' = "idle"
  PROVE  DraftRight'
<1> SUFFICES ASSUME draft.data # <<>>
             PROVE  InOrder' /\ Stage'
  <2>1. draft' = draft
    OBVIOUS
  <2> QED
    BY <2>1 DEF DraftRight
<1>0. InOrder /\ Stage
  BY DEF DraftRight
<1>1. Asking' => Asking /\ job' = job
  BY DEF Asking
<1>2. InOrder'
  <2>1. ~doubt'
    BY <1>0 DEF InOrder
  <2> QED
    BY <1>0, <1>1, <2>1, OrderKept
<1>3. (Begun' <=> Begun) /\ (Complete' <=> Complete) /\ (Full' <=> Full) /\ (Blanked' <=> Blanked)
      /\ Count' = Count /\ WholePage' = WholePage
  BY SameDraft
<1>4. CASE pc' = pc /\ job' = job
  BY <1>0, <1>2, <1>3, <1>4 DEF Stage
<1>5. CASE pc \in {"idle", "wait"} /\ pc' \in {"idle", "wait"}
  BY <1>0, <1>2, <1>3, <1>5 DEF Stage
<1> QED
  BY <1>2, <1>4, <1>5

\* Of an unlocked controller: a WriteBlock that went on in a sector's first block
\* erases it, another one loads.
LEMMA UnlockedStage ==
  ASSUME IInv, InOrder, draft.data # <<>>, Stage, pc \in {"unlock", "keys", "unlocked"},
         UNCHANGED <<chip, mem, ctl, draft>>, pc' = Unlocked(job)
  PROVE  Stage'
<1>1. Count' = Count /\ (Begun' <=> Begun)
  BY SameDraft
<1>2. CASE job.erase
  <2>1. pc' = "erase_wait" /\ Count = 1
    BY <1>2 DEF Unlocked, InOrder, Asking
  <2> QED
    BY <1>1, <2>1 DEF Stage
<1>3. CASE ~job.erase
  <2>1. Count # 1 /\ Begun
    BY <1>3 DEF InOrder, Asking, Stage
  <2>2. ~IsFirstBlock(job.block)
    BY <2>1, LastBlock, DraftSize DEF IsFirstBlock, Asking
  <2>3. pc' = "load"
    BY <1>3, <2>2 DEF Unlocked, LoadFrom
  <2> QED
    BY <1>1, <2>1, <2>3 DEF Stage
<1> QED
  BY <1>2, <1>3

\* A draft that a step of a WriteBlock finds is on an unlocked controller.
LEMMA DraftedStep ==
  ASSUME IInv, DraftRight, link, draft.data # <<>>, NEW from \in Working, NEW new, NEW to,
         Step(from, new, to), to \notin {"idle", "wait"}
  PROVE  /\ InOrder /\ Stage /\ InOrder'
         /\ UNCHANGED <<chip, mem, draft, job>> /\ pc = from /\ pc' = to
         /\ ctl' = IF ctl.busy = "no" THEN new ELSE ctl
<1>1. InOrder /\ Stage
  BY DEF DraftRight
<1>2. /\ UNCHANGED <<chip, mem, draft, job, doubt>> /\ pc = from /\ pc' = to
      /\ ctl' = IF ctl.busy = "no" /\ ~ctl.locked THEN new ELSE ctl
  BY StepAlone
<1>3. ~doubt
  BY <1>1 DEF InOrder
<1>4. ~ctl.locked
  BY <1>2, <1>3 DEF IInv, CacheRight
<1>5. Asking /\ ~doubt'
  BY <1>2, <1>3, WorkingPlaces DEF Asking
<1>6. InOrder'
  BY <1>1, <1>2, <1>5, OrderKept
<1> QED
  BY <1>1, <1>2, <1>4, <1>6

LEMMA WorkingSteps ==
  {"erase_mode", "erase_addr", "erase_start", "erased", "erase_off", "page_mode", "page_wait",
   "load", "ready", "buf_reset", "prog_addr", "prog_start", "programmed"} \subseteq Working
BY DEF Working, Polling

\* EraseFlash addresses the draft's first block.
LEMMA EraseOnTrack ==
  ASSUME IInv, DraftRight, link, draft.data # <<>>,
         \/ SetErase \/ SetEraseAddr \/ StartErase \/ EndErase
  PROVE  InOrder' /\ Stage'
<1>1. ctl \in Controllers
  BY DEF IInv, Targeted
<1>2. CASE SetErase
  <2>1. Step("erase_mode", [ctl EXCEPT !.mode = "PAGE_ER"], "erase_addr")
    BY <1>2 DEF SetErase
  <2>2. InOrder' /\ Stage /\ pc = "erase_mode" /\ pc' = "erase_addr"
        /\ UNCHANGED <<chip, mem, draft>>
        /\ ctl' = IF ctl.busy = "no" THEN [ctl EXCEPT !.mode = "PAGE_ER"] ELSE ctl
    BY <2>1, DraftedStep, WorkingSteps
  <2>3. ctl'.busy = ctl.busy
    BY <1>1, <2>2 DEF Controllers
  <2>4. Count' = Count
    BY <2>2, SameDraft
  <2> QED
    BY <2>2, <2>3, <2>4 DEF Stage
<1>3. CASE SetEraseAddr
  <2>1. Step("erase_addr", [ctl EXCEPT !.addr = job.block], "erase_start")
    BY <1>3 DEF SetEraseAddr
  <2>2. InOrder' /\ Stage /\ pc = "erase_addr" /\ pc' = "erase_start"
        /\ UNCHANGED <<chip, mem, draft, job>>
        /\ ctl' = IF ctl.busy = "no" THEN [ctl EXCEPT !.addr = job.block] ELSE ctl
    BY <2>1, DraftedStep, WorkingSteps
  <2>3. ctl.busy = "no"
    BY <2>2 DEF Stage
  <2>4. ctl'.busy = "no" /\ ctl'.addr = job'.block
    BY <1>1, <2>2, <2>3 DEF Controllers
  <2>5. Count' = Count
    BY <2>2, SameDraft
  <2> QED
    BY <2>2, <2>4, <2>5 DEF Stage
<1>4. CASE StartErase
  <2>1. Step("erase_start", [ctl EXCEPT !.mode = "PAGE_ER", !.busy = "erase"], "erased")
    BY <1>4 DEF StartErase
  <2>2. InOrder' /\ Stage /\ pc = "erase_start" /\ pc' = "erased"
        /\ UNCHANGED <<chip, mem, draft, job>>
        /\ ctl' = IF ctl.busy = "no" THEN [ctl EXCEPT !.mode = "PAGE_ER", !.busy = "erase"]
                  ELSE ctl
    BY <2>1, DraftedStep, WorkingSteps
  <2>3. ctl.busy = "no" /\ ctl.addr = job.block
    BY <2>2 DEF Stage
  <2>4. ctl'.busy = "erase" /\ ctl'.addr = job'.block
    BY <1>1, <2>2, <2>3 DEF Controllers
  <2>5. Count' = Count
    BY <2>2, SameDraft
  <2> QED
    BY <2>2, <2>4, <2>5 DEF Stage
<1>5. CASE EndErase
  <2>1. Step("erase_off", [ctl EXCEPT !.mode = "none"], LoadFrom(job.block))
    BY <1>5 DEF EndErase
  <2>2. LoadFrom(job.block) \notin {"idle", "wait"}
    BY DEF LoadFrom
  <2>3. InOrder /\ InOrder' /\ Stage /\ pc = "erase_off" /\ pc' = LoadFrom(job.block)
        /\ UNCHANGED <<chip, mem, draft, job>>
        /\ ctl' = IF ctl.busy = "no" THEN [ctl EXCEPT !.mode = "none"] ELSE ctl
    BY <2>1, <2>2, DraftedStep, WorkingSteps
  <2>4. ctl.busy = "no" /\ Count = 1 /\ Blanked
    BY <2>3 DEF Stage
  <2>5. ctl'.busy = "no"
    BY <1>1, <2>3, <2>4 DEF Controllers
  <2>6. Count' = Count /\ (Blanked' <=> Blanked)
    BY <2>3, SameDraft
  <2>7. IsFirstBlock(job.block)
    BY <2>3, <2>4, DraftSize DEF InOrder, Asking
  <2>8. pc' \in {"page_wait", "page_mode"}
    BY <2>3, <2>7 DEF LoadFrom
  <2> QED
    BY <2>3, <2>4, <2>5, <2>6, <2>8 DEF Stage
<1> QED
  BY <1>2, <1>3, <1>4, <1>5

\* A block that is programmed is so after those before it, from a page buffer that
\* holds nothing else.
LEMMA ProgramOnTrack ==
  ASSUME IInv, DraftRight, link, draft.data # <<>>,
         \/ SetProgram \/ ResetBuffer \/ SetProgramAddr \/ StartProgram
  PROVE  InOrder' /\ Stage'
<1>1. ctl \in Controllers
  BY DEF IInv, Targeted
<1>2. CASE SetProgram
  <2> DEFINE new == [ctl EXCEPT !.mode = "PAGE_PG"]
  <2>1. \/ Step("page_mode", new, "ready") /\ WholePage
        \/ Step("page_mode", new, "buf_reset") /\ ~WholePage
    BY <1>2 DEF SetProgram
  <2>2. /\ InOrder' /\ Stage /\ pc = "page_mode" /\ UNCHANGED <<chip, mem, draft>>
        /\ (pc' = "ready" /\ WholePage) \/ (pc' = "buf_reset" /\ ~WholePage)
        /\ ctl' = IF ctl.busy = "no" THEN new ELSE ctl
    <3>1. CASE Step("page_mode", new, "ready") /\ WholePage
      BY <3>1, DraftedStep, WorkingSteps
    <3>2. CASE Step("page_mode", new, "buf_reset") /\ ~WholePage
      BY <3>2, DraftedStep, WorkingSteps
    <3> QED
      BY <2>1, <3>1, <3>2
  <2>3. ctl.busy = "no" /\ Count = 1 /\ Blanked
    BY <2>2 DEF Stage
  <2>4. ctl'.busy = "no" /\ ctl'.mode = "PAGE_PG"
    BY <1>1, <2>2, <2>3 DEF Controllers
  <2>5. Count' = Count /\ (Blanked' <=> Blanked) /\ WholePage' = WholePage /\ Slots' = Slots
    BY <2>2, SameDraft, SameSectors
  <2>6. \A s \in Slots : s \in Nat
    BY DEF Slots
  <2>7. WholePage => Begun'
    BY <2>3, <2>4, <2>5, <2>6 DEF Begun, Ready, Filled, Blanked
  <2> QED
    BY <2>2, <2>3, <2>4, <2>5, <2>7 DEF Stage
<1>3. CASE ResetBuffer
  <2> DEFINE new == [ctl EXCEPT !.mode = "PAGE_PG", !.loaded = Unloaded]
  <2>1. Step("buf_reset", new, "ready")
    BY <1>3 DEF ResetBuffer
  <2>2. /\ InOrder' /\ Stage /\ pc = "buf_reset" /\ UNCHANGED <<chip, mem, draft>>
        /\ pc' = "ready" /\ ctl' = IF ctl.busy = "no" THEN new ELSE ctl
    BY <2>1, DraftedStep, WorkingSteps
  <2>3. ctl.busy = "no" /\ Count = 1 /\ Blanked
    BY <2>2 DEF Stage
  <2>4. ctl'.busy = "no" /\ ctl'.mode = "PAGE_PG" /\ ctl'.loaded = Unloaded
    BY <1>1, <2>2, <2>3 DEF Controllers
  <2>5. Count' = Count /\ (Blanked' <=> Blanked) /\ WholePage' = WholePage /\ Slots' = Slots
    BY <2>2, SameDraft, SameSectors
  <2>6. \A s \in Slots : s \in Nat /\ Unloaded[s] = Blank
    BY DEF Slots, Unloaded
  <2>7. Begun'
    BY <2>3, <2>4, <2>5, <2>6 DEF Begun, Ready, Filled, Blanked
  <2> QED
    BY <2>2, <2>3, <2>4, <2>5, <2>7 DEF Stage
<1>4. CASE SetProgramAddr
  <2> DEFINE new == [ctl EXCEPT !.addr = job.block]
  <2>1. Step("prog_addr", new, "prog_start")
    BY <1>4 DEF SetProgramAddr
  <2>2. /\ InOrder' /\ Stage /\ pc = "prog_addr" /\ UNCHANGED <<chip, mem, draft, job>>
        /\ pc' = "prog_start" /\ ctl' = IF ctl.busy = "no" THEN new ELSE ctl
    BY <2>1, DraftedStep, WorkingSteps
  <2>3. ctl.busy = "no" /\ Full
    BY <2>2 DEF Stage
  <2>4. ctl'.busy = "no" /\ ctl'.mode = ctl.mode /\ ctl'.loaded = ctl.loaded
        /\ ctl'.addr = job'.block
    BY <1>1, <2>2, <2>3 DEF Controllers
  <2>5. Full'
    BY <2>2, <2>3, <2>4, SameDraft
  <2> QED
    BY <2>2, <2>4, <2>5 DEF Stage
<1>5. CASE StartProgram
  <2> DEFINE new == [ctl EXCEPT !.mode = "PAGE_PG", !.busy = "program"]
  <2>1. Step("prog_start", new, "programmed")
    BY <1>5 DEF StartProgram
  <2>2. /\ InOrder' /\ Stage /\ pc = "prog_start" /\ UNCHANGED <<chip, mem, draft, job>>
        /\ pc' = "programmed" /\ ctl' = IF ctl.busy = "no" THEN new ELSE ctl
    BY <2>1, DraftedStep, WorkingSteps
  <2>3. ctl.busy = "no" /\ Full /\ ctl.mode = "PAGE_PG" /\ ctl.addr = job.block
    BY <2>2 DEF Stage, Full
  <2>4. ctl'.busy = "program" /\ ctl'.mode = ctl.mode /\ ctl'.loaded = ctl.loaded
        /\ ctl'.addr = job'.block
    BY <1>1, <2>2, <2>3 DEF Controllers
  <2>5. Full'
    BY <2>2, <2>3, <2>4, SameDraft
  <2> QED
    BY <2>2, <2>4, <2>5 DEF Stage
<1> QED
  BY <1>2, <1>3, <1>4, <1>5

\* UnlockFlash comes before anything is done for the block.
LEMMA UnlockOnTrack ==
  ASSUME IInv, DraftRight, link, draft.data # <<>>, pc' # "idle",
         ReadLock \/ SendKeys \/ RereadLock
  PROVE  InOrder' /\ Stage'
<1>1. InOrder /\ Stage /\ pc \in {"unlock", "keys", "unlocked"} /\ ctl \in Controllers
  BY DEF DraftRight, ReadLock, SendKeys, RereadLock, IInv, Targeted
<1>2. UNCHANGED <<chip, mem, draft, doubt, job>>
  BY DEF ReadLock, SendKeys, RereadLock, Noted, Goto, Fail, Return, target, ghosts
<1>3. InOrder'
  BY <1>1, <1>2, OrderKept DEF Asking, InOrder
<1>4. CASE pc' = Unlocked(job) /\ ctl' = ctl
  BY <1>1, <1>2, <1>3, <1>4, UnlockedStage
<1>5. CASE /\ pc' \in {"keys", "unlocked"}
           /\ ctl'.busy = ctl.busy /\ ctl'.mode = ctl.mode /\ ctl'.loaded = ctl.loaded
  <2>1. Count' = Count /\ (Begun' <=> Begun)
    BY <1>2, <1>5, SameDraft
  <2> QED
    BY <1>1, <1>3, <1>5, <2>1 DEF Stage
<1>6. CASE ReadLock
  BY <1>4, <1>5, <1>6 DEF ReadLock, Goto, target
<1>7. CASE SendKeys
  <2>1. /\ pc' = "unlocked"
        /\ ctl'.busy = ctl.busy /\ ctl'.mode = ctl.mode /\ ctl'.loaded = ctl.loaded
    BY <1>1, <1>7 DEF SendKeys, Goto, Controllers
  <2> QED
    BY <1>5, <2>1
<1>8. CASE RereadLock
  BY <1>4, <1>8 DEF RereadLock, Goto, Fail, Return, target
<1> QED
  BY <1>6, <1>7, <1>8

\* WaitForFlash that answers 0 has seen the controller done and without complaint.
LEMMA PollIs ==
  ASSUME IInv, link, Poll = 0
  PROVE  ctl.busy = "no" /\ ~ctl.wrprt
<1>1. ~ctl.wrprt
  BY DEF Poll
<1>2. ctl.busy = "no"
  BY <1>1 DEF Poll
<1> QED
  BY <1>1, <1>2

LEMMA PollOnTrack ==
  ASSUME IInv, DraftRight, link, draft.data # <<>>, ~Fail, PollEnds
  PROVE  InOrder' /\ Stage'
<1>1. InOrder /\ Stage /\ ctl \in Controllers
  BY DEF DraftRight, IInv, Targeted
<1>2. /\ UNCHANGED <<chip, mem, draft, doubt>> /\ (pc' # "idle" => job' = job)
      /\ ctl'.busy = ctl.busy /\ ctl'.mode = ctl.mode /\ ctl'.loaded = ctl.loaded
      /\ ctl'.addr = ctl.addr
  <2>1. /\ ctl'.busy = ctl.busy /\ ctl'.mode = ctl.mode /\ ctl'.loaded = ctl.loaded
        /\ ctl'.addr = ctl.addr
    BY <1>1 DEF PollEnds, StatusCleared, Controllers
  <2>2. UNCHANGED <<chip, mem, draft, doubt>> /\ (pc' # "idle" => job' = job)
    BY DEF PollEnds, Success, Noted, Goto, Return, ghosts
  <2> QED
    BY <2>1, <2>2
<1>3. /\ Count' = Count /\ (Begun' <=> Begun) /\ (Complete' <=> Complete)
      /\ (Blanked' <=> Blanked)
  BY <1>2, SameDraft
<1>4. \/ pc = "wait" /\ pc' = "idle"
      \/ pc = "page_wait" /\ pc' = "page_mode"
      \/ pc = "ready" /\ pc' = "load"
      \/ pc = "erase_wait" /\ pc' = "erase_mode" /\ Poll = 0
      \/ pc = "erased" /\ pc' = "erase_off" /\ Poll = 0
      \/ pc = "programmed" /\ pc' = "idle" /\ Poll = 0
  BY DEF PollEnds, Success, Goto, Return
<1>5. InOrder'
  BY <1>1, <1>2, <1>4, OrderKept DEF Asking, InOrder
<1>6. Stage'
  <2>1. CASE pc = "wait" /\ pc' = "idle"
    BY <1>1, <1>3, <2>1 DEF Stage
  <2>2. CASE pc = "page_wait" /\ pc' = "page_mode"
    BY <1>1, <1>2, <1>3, <2>2 DEF Stage
  <2>3. CASE pc = "ready" /\ pc' = "load"
    BY <1>1, <1>3, <2>3 DEF Stage
  <2>4. CASE pc = "erase_wait" /\ pc' = "erase_mode" /\ Poll = 0
    <3>1. ctl.busy = "no"
      BY <2>4, PollIs
    <3> QED
      BY <1>1, <1>2, <1>3, <2>4, <3>1 DEF Stage
  <2>5. CASE pc = "erased" /\ pc' = "erase_off" /\ Poll = 0
    <3>1. ctl.busy = "no" /\ ~ctl.wrprt
      BY <2>5, PollIs
    <3>2. Blanked /\ Count = 1
      BY <1>1, <2>5, <3>1 DEF Stage
    <3> QED
      BY <1>2, <1>3, <2>5, <3>1, <3>2 DEF Stage
  <2>6. CASE pc = "programmed" /\ pc' = "idle" /\ Poll = 0
    <3>1. ctl.busy = "no"
      BY <2>6, PollIs
    <3>2. Complete
      BY <1>1, <2>6, <3>1 DEF Stage
    <3> QED
      BY <1>3, <2>6, <3>2 DEF Stage
  <2> QED
    BY <1>4, <2>1, <2>2, <2>3, <2>4, <2>5, <2>6
<1> QED
  BY <1>5, <1>6

\* The last block joins the others in the page buffer.
LEMMA LoadOnTrack ==
  ASSUME IInv, DraftRight, link, draft.data # <<>>, Load
  PROVE  InOrder' /\ Stage'
<1> DEFINE k == Count - 1
           a == IF WholePage THEN job.block ELSE ctl.addr
           new == [ctl EXCEPT !.loaded[job.block % SectorSize] = job.data, !.addr = a]
<1>1. InOrder /\ Stage /\ ctl \in Controllers /\ pc = "load" /\ Asking
  BY DEF DraftRight, IInv, Targeted, Load, Asking
<1>2. Begun /\ ~doubt /\ job.data = draft.data[Count]
  BY <1>1 DEF Stage, InOrder
<1>3. ctl.busy = "no" /\ ctl.mode = "PAGE_PG" /\ ~ctl.locked
  BY <1>1, <1>2, WorkingSteps DEF Begun, Ready, IInv, CacheRight
<1>4. UNCHANGED <<chip, mem, draft, doubt>> /\ (pc' # "idle" => job' = job)
  BY DEF Load, Success, Noted, Goto, Return, ghosts
<1>5. ctl' = new
  BY <1>1, <1>3 DEF Load, Write, Listens, Controllers
<1>6. job.block % SectorSize = k /\ Count \in 1 .. SectorSize /\ k \in Slots
      /\ SectorSize \in Nat
  BY <1>1, LastBlock, DraftSize DEF Slots
<1>7. /\ ctl'.busy = "no" /\ ctl'.mode = "PAGE_PG" /\ ctl'.addr = a
      /\ ctl'.loaded = [ctl.loaded EXCEPT ![k] = job.data]
      /\ ctl.loaded \in [Slots -> Data \cup {Blank}]
  BY <1>1, <1>3, <1>5, <1>6 DEF Controllers
<1>8. Count' = Count /\ (Blanked' <=> Blanked) /\ WholePage' = WholePage /\ Slots' = Slots
      /\ SectorSize' = SectorSize /\ Sector(draft.first)' = Sector(draft.first)
  BY <1>4, SameDraft, SameSectors DEF Sector
<1>9. ASSUME NEW s \in Slots
      PROVE  /\ s < Count => ctl'.loaded[s] = draft.data[s + 1]
             /\ s >= Count /\ ~WholePage => ctl'.loaded[s] = Blank
  <2>1. s \in Nat /\ ctl'.loaded[s] = IF s = k THEN job.data ELSE ctl.loaded[s]
    BY <1>6, <1>7 DEF Slots
  <2>2. /\ s < k => ctl.loaded[s] = draft.data[s + 1]
        /\ s >= k /\ ~WholePage => ctl.loaded[s] = Blank
    BY <1>2 DEF Begun, Ready, Filled
  <2> QED
    BY <2>1, <2>2, <1>2, <1>6
<1>10. InOrder'
  BY <1>1, <1>2, <1>4, OrderKept DEF Asking
<1>11. CASE WholePage /\ ~IsLastBlock(job.block)
  <2>1. pc' = "idle" /\ Count # SectorSize
    BY <1>6, <1>11 DEF Load, Success, Return, IsLastBlock
  <2>2. Blanked
    BY <1>2, <1>11 DEF Begun, Ready, Blanked
  <2>3. Complete'
    BY <1>4, <1>7, <1>8, <1>9, <1>11, <2>1, <2>2 DEF Complete, Ready, Filled, Blanked
  <2> QED
    BY <1>10, <2>1, <2>3 DEF Stage
<1>12. CASE WholePage /\ IsLastBlock(job.block)
  <2>1. pc' = "prog_start" /\ Count = SectorSize
    BY <1>6, <1>12 DEF Load, Goto, IsLastBlock
  <2>2. Blanked
    BY <1>2, <1>12 DEF Begun, Ready, Blanked
  <2>3. Full'
    BY <1>4, <1>7, <1>8, <1>9, <1>12, <2>1, <2>2 DEF Full, Filled
  <2>4. ctl'.addr = job'.block
    BY <1>4, <1>7, <1>12, <2>1
  <2> QED
    BY <1>7, <1>10, <2>1, <2>3, <2>4 DEF Stage
<1>13. CASE ~WholePage
  <2>1. pc' = "prog_addr"
    BY <1>13 DEF Load, Goto
  <2>2. Laid(Count - 1)
    BY <1>2, <1>13 DEF Begun, Ready
  <2>3. Full'
    BY <1>4, <1>7, <1>8, <1>9, <1>13, <2>2 DEF Full, Filled, Laid
  <2> QED
    BY <1>7, <1>8, <1>10, <1>13, <2>1, <2>3 DEF Stage
<1> QED
  BY <1>11, <1>12, <1>13

\* The next block of a draft finds what was asked for before where it belongs.
LEMMA AskedOnTrack ==
  ASSUME IInv, DraftRight, NEW b \in Blocks, NEW d \in Data, NEW e \in BOOLEAN,
         WriteBlock(b, d, e)
  PROVE  DraftRight'
<1>1. /\ UNCHANGED <<chip, mem, ctl, doubt>> /\ pc = "idle"
      /\ job' = [block |-> b, data |-> d, erase |-> e /\ IsFirstBlock(b)]
      /\ pc' = IF flash_unlocked THEN Unlocked(job') ELSE "unlock"
      /\ draft' = NextDraft(b, d, e)
  BY DEF WriteBlock, target
<1>2. WholePage' = WholePage /\ Slots' = Slots /\ SectorSize' = SectorSize
  BY <1>1, SameSectors
<1>3. b \in Nat /\ SectorSize \in Nat \ {0} /\ chip \in Chips
  BY FlashSessionAssumption DEF Blocks, SectorSize, IInv, Targeted
<1>4. CASE ~doubt /\ e /\ IsFirstBlock(b)
  <2>1. draft' = [first |-> b, data |-> <<d>>]
    BY <1>1, <1>4 DEF NextDraft
  <2>2. draft'.first = b /\ draft'.data = <<d>> /\ Len(<<d>>) = 1 /\ <<d>>[1] = d
    BY <2>1
  <2>3. Count' = 1
    BY <2>2 DEF Count
  <2>4. job'.erase /\ job'.block = b /\ job'.data = d
    BY <1>1, <1>4
  <2>5. pc' \in {"erase_wait", "unlock"}
    BY <1>1, <2>4 DEF Unlocked
  <2>6. InOrder'
    <3>1. IsFirstBlock(draft.first)'
      BY <1>2, <1>4, <2>2 DEF IsFirstBlock
    <3>2. b = draft'.first + Count' - 1 /\ d = draft'.data[Count']
      BY <1>3, <2>2, <2>3
    <3>3. Count' <= SectorSize'
      BY <1>2, <1>3, <2>3
    <3>4. ~doubt'
      BY <1>1, <1>4
    <3> QED
      BY <2>3, <2>4, <3>1, <3>2, <3>3, <3>4 DEF InOrder
  <2>7. Stage'
    BY <2>3, <2>5 DEF Stage
  <2> QED
    BY <2>6, <2>7 DEF DraftRight
<1>5. CASE /\ ~(~doubt /\ e /\ IsFirstBlock(b))
           /\ draft.data # <<>> /\ b = draft.first + Len(draft.data) /\ b \in Sector(draft.first)
  <2>1. InOrder /\ Complete /\ ~doubt
    BY <1>1, <1>5 DEF DraftRight, Stage, InOrder
  <2>2. /\ Count \in 1 .. SectorSize /\ draft.first \in Blocks /\ draft.first \in Nat
        /\ draft.data \in Seq(Data) /\ Len(draft.data) = Count
    BY <1>5, <2>1, DraftSize
  <2>3. /\ draft'.first = draft.first /\ draft'.data = Append(draft.data, d)
    BY <1>1, <1>5 DEF NextDraft, IInv, Drafts
  <2>4. /\ Len(Append(draft.data, d)) = Count + 1
        /\ Append(draft.data, d)[Count + 1] = d
        /\ \A i \in 1 .. Count : Append(draft.data, d)[i] = draft.data[i]
    BY <2>2
  <2>5. Count' = Count + 1
    BY <2>3, <2>4 DEF Count
  <2>6. IsFirstBlock(draft.first)
    BY <2>1 DEF InOrder
  <2>7. Count < SectorSize /\ b % SectorSize = Count
    BY <1>3, <1>5, <2>2, <2>6, SectorIs
  <2>8. ~IsFirstBlock(b)
    BY <2>2, <2>7 DEF IsFirstBlock
  <2>9. ~job'.erase /\ job'.block = b /\ job'.data = d
    BY <1>1, <2>8
  <2>10. pc' \in {"load", "unlock"}
    BY <1>1, <2>8, <2>9 DEF Unlocked, LoadFrom
  <2>11. InOrder'
    <3>1. IsFirstBlock(draft.first)'
      BY <1>2, <2>3, <2>6 DEF IsFirstBlock
    <3>2. b = draft'.first + Count' - 1 /\ d = draft'.data[Count']
      BY <1>5, <2>2, <2>3, <2>4, <2>5
    <3>3. Count' <= SectorSize' /\ Count' # 1
      BY <1>2, <1>3, <2>2, <2>5, <2>7
    <3> QED
      BY <1>1, <2>1, <2>9, <3>1, <3>2, <3>3 DEF InOrder
  <2>12. Ready(Count)
    BY <2>1, <2>7, <2>2 DEF Complete
  <2>13. Begun'
    <3>1. PICK n \in Nat : n = Count /\ Count' - 1 = n
      BY <2>2, <2>5
    <3>2. \A s \in Slots : /\ s < n => ctl.loaded[s] = draft.data[s + 1]
                           /\ s >= n /\ ~WholePage => ctl.loaded[s] = Blank
      BY <2>12, <3>1 DEF Ready, Filled
    <3>3. \A s \in Slots : s < n => draft'.data[s + 1] = draft.data[s + 1]
      BY <2>3, <2>4, <3>1 DEF Slots
    <3>4. /\ Sector(draft.first)' = Sector(draft.first)
          /\ \A c \in Sector(draft.first) : c \in Nat /\ draft.first <= c
      <4>1. \A c \in Blocks : c \in Nat
        BY FlashSessionAssumption DEF Blocks
      <4>2. Sector(draft.first) \subseteq Blocks
        BY DEF Sector
      <4>3. Sector(draft.first)' = Sector(draft.first)
        BY <1>2, <2>3 DEF Sector
      <4> QED
        BY <1>3, <2>2, <2>6, <4>1, <4>2, <4>3, SectorIs
    <3>5. ASSUME NEW m \in Nat, m <= n, Laid(m)
          PROVE  /\ Sector(draft.first)' \cap Protected = {}
                 /\ \A c \in Sector(draft.first)' :
                      mem'[c] = IF c - draft'.first < m THEN draft'.data[c - draft'.first + 1]
                                ELSE Erased
      <4>1. ASSUME NEW c \in Sector(draft.first), c - draft.first < m
            PROVE  draft'.data[c - draft.first + 1] = draft.data[c - draft.first + 1]
        <5>1. c - draft.first + 1 \in 1 .. Count
          BY <2>2, <3>1, <3>4, <3>5, <4>1
        <5> QED
          BY <2>3, <2>4, <5>1
      <4> QED
        BY <1>1, <2>3, <3>4, <3>5, <4>1 DEF Laid
    <3>6. Filled(n)'
      BY <1>1, <1>2, <3>2, <3>3 DEF Filled
    <3>7. CASE WholePage
      <4>1. Laid(0)
        BY <2>12, <3>7 DEF Ready
      <4>2. Laid(0)'
        BY <3>1, <3>5, <4>1 DEF Laid
      <4> QED
        BY <1>1, <1>2, <2>12, <3>1, <3>6, <3>7, <4>2 DEF Begun, Ready
    <3>8. CASE ~WholePage
      <4>1. Laid(n)
        BY <2>12, <3>1, <3>8 DEF Ready
      <4>2. Laid(n)'
        BY <3>1, <3>5, <4>1 DEF Laid
      <4> QED
        BY <1>1, <1>2, <2>12, <3>1, <3>6, <3>8, <4>2 DEF Begun, Ready
    <3> QED
      BY <3>7, <3>8
  <2>14. Stage'
    BY <2>10, <2>13 DEF Stage
  <2> QED
    BY <2>11, <2>14 DEF DraftRight
<1>6. CASE draft' = NoDraft
  BY <1>6, NothingDrafted
<1> QED
  BY <1>1, <1>4, <1>5, <1>6 DEF NextDraft

\* A controller that is done has erased the draft's sector, or told that it could not,
LEMMA ErasedOnTrack ==
  ASSUME IInv, DraftRight, draft.data # <<>>, FlashDone, pc = "erased"
  PROVE  Stage'
<1>1. /\ InOrder /\ Asking /\ ctl \in Controllers
      /\ UNCHANGED <<chip, pc, job, draft>>
  BY DEF DraftRight, FlashDone, call, ghosts, Asking, IInv, Targeted
<1>2. ctl.busy = "erase" /\ ctl.addr = job.block /\ Count = 1
  BY DEF DraftRight, Stage, FlashDone
<1>3. Reach = Sector(draft.first)
  BY <1>1, <1>2, LastBlock DEF Reach
<1>4. Sector(draft.first) \subseteq Blocks /\ Sector(draft.first)' = Sector(draft.first)
  BY <1>1 DEF Sector, SectorSize
<1>5. ctl'.busy = "no" /\ ctl'.addr = job'.block
      /\ (Reach \cap Protected # {} => ctl'.wrprt)
  BY <1>1, <1>2 DEF FlashDone, Controllers
<1>6. Reach \cap Protected = {} => Blanked'
  <2>1. SUFFICES ASSUME Reach \cap Protected = {}
                 PROVE  Blanked'
    OBVIOUS
  <2>2. \A b \in Sector(draft.first) : mem'[b] = Erased
    BY <1>2, <1>3, <1>4, <2>1 DEF FlashDone
  <2>3. \A b \in Sector(draft.first) : ~ b - draft.first < 0
    <3>1. \A b \in Blocks : b \in Nat
      BY FlashSessionAssumption DEF Blocks
    <3>2. \A b \in Sector(draft.first) : draft.first <= b
      BY <1>1, <1>4, DraftSize, SectorIs DEF InOrder
    <3> QED
      BY <1>1, <1>4, <3>1, <3>2, DraftSize
  <2> QED
    BY <1>1, <1>3, <1>4, <2>1, <2>2, <2>3 DEF Blanked, Laid
<1>7. Count' = 1
  BY <1>1, <1>2 DEF Count
<1> QED
  BY <1>1, <1>2, <1>5, <1>6, <1>7 DEF Stage

\* or programmed it.
LEMMA ProgrammedOnTrack ==
  ASSUME IInv, DraftRight, draft.data # <<>>, FlashDone, pc = "programmed"
  PROVE  Stage'
<1> DEFINE S == Sector(draft.first)
<1>1. /\ InOrder /\ Asking /\ ctl \in Controllers
      /\ UNCHANGED <<chip, pc, job, draft>> /\ mem \in [Blocks -> Data \cup {Erased, Mixed}]
  BY DEF DraftRight, FlashDone, call, ghosts, Asking, IInv, Targeted
<1>2. ctl.busy = "program" /\ ctl.addr = job.block /\ Full
  BY DEF DraftRight, Stage, FlashDone
<1>3. /\ Count \in 1 .. SectorSize /\ SectorSize \in Nat \ {0} /\ draft.first \in Nat
      /\ draft.first \in Blocks
      /\ draft.data \in Seq(Data) /\ Len(draft.data) = Count /\ chip \in Chips
  BY <1>1, DraftSize
<1>4. /\ ctl'.busy = "no" /\ ctl'.mode = "PAGE_PG"
      /\ ctl'.loaded = IF WholePage THEN Unloaded ELSE ctl.loaded
  BY <1>1, <1>2 DEF FlashDone, Controllers, Full
<1>5. /\ Count' = Count /\ SectorSize' = SectorSize /\ WholePage' = WholePage /\ Slots' = Slots
      /\ Unloaded' = Unloaded /\ Sector(draft.first)' = S
  BY <1>1, SameSectors DEF Count, Sector
<1>6. ASSUME NEW b \in S
      PROVE  /\ b \in Blocks /\ b % SectorSize = b - draft.first /\ b - draft.first \in Slots
             /\ b \notin Protected
             /\ b \in Reach <=> ctl.loaded[b - draft.first] # Blank
  <2>1. b \in Blocks /\ b \in Nat
    BY FlashSessionAssumption DEF Sector, Blocks
  <2>2. draft.first <= b /\ b < draft.first + SectorSize /\ b % SectorSize = b - draft.first
    BY <1>1, <1>3, <2>1, SectorIs DEF InOrder
  <2>3. b - draft.first \in Slots
    BY <1>3, <2>1, <2>2 DEF Slots
  <2>4. Reach = {c \in S : ctl.loaded[c % SectorSize] # Blank}
    BY <1>1, <1>2, LastBlock DEF Reach
  <2>5. b \notin Protected
    BY <1>2 DEF Full, Blanked, Laid
  <2> QED
    BY <2>1, <2>2, <2>3, <2>4, <2>5
<1>7. \A i \in 1 .. Count : draft.data[i] \in Data /\ draft.data[i] # Blank
  BY <1>3, FlashSessionAssumption
<1>8. ASSUME NEW b \in S
      PROVE  mem'[b] = IF b - draft.first < Count THEN draft.data[b - draft.first + 1] ELSE Erased
  <2> DEFINE s == b - draft.first
             x == draft.data[s + 1]
  <2>1. s \in Slots /\ s \in Nat
    BY <1>6 DEF Slots
  <2>2. /\ s < Count => ctl.loaded[s] = x /\ x # Blank
        /\ s >= Count /\ ~WholePage => ctl.loaded[s] = Blank
    BY <1>2, <1>3, <1>7, <2>1 DEF Full, Filled
  <2>3. s < Count => mem[b] \in {x, Erased}
    <3>1. CASE WholePage
      <4>1. mem[b] = IF s < 0 THEN x ELSE Erased
        BY <1>2, <3>1 DEF Full, Blanked, Laid
      <4> QED
        BY <4>1
    <3>2. CASE ~WholePage
      <4>1. mem[b] = IF s < Count - 1 THEN x ELSE Erased
        BY <1>2, <3>2 DEF Full, Laid
      <4> QED
        BY <4>1
    <3> QED
      BY <3>1, <3>2
  <2>4. s >= Count => ~WholePage /\ mem[b] = Erased
    <3>1. SUFFICES ASSUME s >= Count
                   PROVE  ~WholePage /\ mem[b] = Erased
      OBVIOUS
    <3>2. ~WholePage
      BY <1>2, <1>3, <2>1, <3>1 DEF Full, Slots
    <3>3. mem[b] = IF s < Count - 1 THEN x ELSE Erased
      BY <1>2, <3>2 DEF Full, Laid
    <3>4. ~ s < Count - 1
      BY <1>3, <2>1, <3>1
    <3> QED
      BY <3>2, <3>3, <3>4
  <2>5. b \in Reach <=> ctl.loaded[s] # Blank
    BY <1>6
  <2>6. mem'[b] = IF b \in Reach THEN Programmed(mem[b], ctl.loaded[s]) ELSE mem[b]
    BY <1>2, <1>6 DEF FlashDone
  <2> HIDE DEF x, s
  <2>7. CASE s < Count
    <3>1. mem'[b] = x
      BY <2>2, <2>3, <2>5, <2>6, <2>7 DEF Programmed
    <3> QED
      BY <2>7, <3>1 DEF x, s
  <2>8. CASE s >= Count
    <3>1. mem'[b] = Erased
      BY <2>2, <2>4, <2>5, <2>6, <2>8
    <3>2. ~ s < Count
      BY <1>3, <2>1, <2>8
    <3> QED
      BY <3>1, <3>2 DEF s
  <2> QED
    BY <1>3, <2>1, <2>7, <2>8
<1>9. Laid(Count)'
  <2>1. draft'.first = draft.first /\ draft'.data = draft.data
    BY <1>1
  <2>2. S \cap Protected = {}
    BY <1>6
  <2> QED
    BY <1>5, <1>8, <2>1, <2>2 DEF Laid
<1>10. Complete'
  <2>1. CASE WholePage
    BY <1>2, <1>4, <1>5, <1>9, <2>1 DEF Complete, Full
  <2>2. CASE ~WholePage
    <3>1. Filled(Count)'
      BY <1>1, <1>2, <1>4, <1>5, <2>2 DEF Full, Filled
    <3> QED
      BY <1>4, <1>5, <1>9, <2>2, <3>1 DEF Complete, Ready
  <2> QED
    BY <2>1, <2>2
<1> QED
  BY <1>1, <1>4, <1>10 DEF Stage

\* Nowhere else is it at work on a draft.
LEMMA DoneOnTrack ==
  ASSUME IInv, DraftRight, FlashDone
  PROVE  DraftRight'
<1>1. UNCHANGED <<chip, pc, job, draft, doubt>> /\ ctl.busy # "no"
  BY DEF FlashDone, call, ghosts
<1> SUFFICES ASSUME draft.data # <<>>
             PROVE  InOrder' /\ Stage'
  BY <1>1 DEF DraftRight
<1>2. InOrder /\ Stage
  BY DEF DraftRight
<1>3. InOrder'
  BY <1>1, <1>2, OrderKept DEF InOrder, Asking
<1>4. ~Complete /\ ~Begun
  BY <1>1 DEF Complete, Begun, Ready
<1>5. \/ pc \in {"unlock", "keys", "unlocked", "erase_wait"} /\ Count = 1
      \/ pc \in {"erased", "programmed"}
  BY <1>1, <1>2, <1>4 DEF Stage, IInv, Called, Places, Working, Polling
<1>6. CASE pc \in {"unlock", "keys", "unlocked", "erase_wait"} /\ Count = 1
  <2>1. Count' = 1
    BY <1>1, <1>6 DEF Count
  <2> QED
    BY <1>1, <1>3, <1>6, <2>1 DEF Stage
<1> QED
  BY <1>3, <1>5, <1>6, ErasedOnTrack, ProgrammedOnTrack

-----------------------------------------------------------------------------
(***************************************************************************)
(* The invariant behind the promise.                                       *)
(***************************************************************************)
\* What the blocks of the draft are, in the words of FlashPromise.
Drafted == draft.first .. draft.first + Len(draft.data) - 1

\* A success reports what is in the flash, or nothing yet.
LEMMA Delivered ==
  ASSUME IInv, PInv, link, Success,
         \/ pc = "programmed" /\ Poll = 0
         \/ pc = "load" /\ WholePage /\ ~IsLastBlock(job.block)
  PROVE  \/ vouched' = vouched /\ Len(draft.data) # SectorSize
         \/ /\ vouched' = vouched \cup Drafted
            /\ pc = "programmed" /\ ctl.busy = "no" /\ (WholePage => ctl.loaded = Unloaded)
            /\ \A b \in Drafted : /\ b \in Blocks /\ mem[b] = draft.data[b - draft.first + 1]
                                  /\ draft.data[b - draft.first + 1] \in Data
<1>1. vouched' = IF WholePage /\ Len(draft.data) # SectorSize THEN vouched
                 ELSE vouched \cup Drafted
  BY DEF Success, Drafted
<1>2. SectorSize \in Nat \ {0} /\ draft.first \in Nat
  BY FlashSessionAssumption DEF SectorSize, IInv, Targeted, Drafts, Blocks
<1>3. CASE draft.data = <<>>
  <2>1. Len(draft.data) = 0
    BY <1>3
  <2>2. Drafted = {}
    BY <1>2, <2>1 DEF Drafted
  <2> QED
    BY <1>1, <1>2, <2>1, <2>2
<1>4. CASE draft.data # <<>> /\ pc = "load"
  <2>1. InOrder
    BY <1>4 DEF PInv, DraftRight
  <2>2. job.block % SectorSize = Count - 1 /\ Count = Len(draft.data) /\ Count \in 1 .. SectorSize
    BY <1>4, <2>1, LastBlock, DraftSize DEF Asking
  <2>3. WholePage /\ Count # SectorSize
    BY <1>2, <1>4, <2>2 DEF IsLastBlock
  <2> QED
    BY <1>1, <2>2, <2>3
<1>5. CASE draft.data # <<>> /\ pc = "programmed"
  <2>1. InOrder /\ ctl.busy = "no"
    BY <1>5, PollIs DEF PInv, DraftRight
  <2>2. Complete
    BY <1>5, <2>1 DEF PInv, DraftRight, Stage
  <2>3. /\ Count = Len(draft.data) /\ Count \in 1 .. SectorSize /\ draft.first \in Blocks
        /\ draft.data \in Seq(Data) /\ chip \in Chips /\ IsFirstBlock(draft.first)
    BY <1>5, <2>1, DraftSize DEF InOrder
  <2>4. CASE WholePage /\ Count # SectorSize
    BY <1>1, <2>3, <2>4
  <2>5. CASE ~(WholePage /\ Count # SectorSize)
    <3>1. Laid(Count) /\ (WholePage => ctl.loaded = Unloaded)
      BY <2>2, <2>5 DEF Complete, Ready
    <3>2. ASSUME NEW b \in Drafted
          PROVE  /\ b \in Blocks /\ mem[b] = draft.data[b - draft.first + 1]
                 /\ draft.data[b - draft.first + 1] \in Data
      <4>1. /\ b \in Nat /\ b < NumBlocks /\ draft.first <= b /\ b < draft.first + Count
            /\ b - draft.first + 1 \in 1 .. Count
        BY <1>2, <2>3, FlashSessionAssumption DEF Drafted, IInv, Drafts
      <4>2. b \in Blocks
        BY <4>1, FlashSessionAssumption DEF Blocks
      <4>3. b \in Sector(draft.first)
        BY <1>2, <2>3, <4>1, <4>2, SectorIs
      <4>4. b - draft.first < Count
        BY <1>2, <2>3, <4>1
      <4> QED
        BY <2>3, <3>1, <4>1, <4>2, <4>3, <4>4 DEF Laid
    <3> QED
      BY <1>1, <1>5, <2>1, <2>3, <2>5, <3>1, <3>2
  <2> QED
    BY <2>4, <2>5
<1> QED
  BY <1>3, <1>4, <1>5

\* Steps of a WriteBlock on the controller lose their access or get on.
LEMMA WritesKeepPromise ==
  ASSUME IInv, PInv,
         \/ SetErase \/ SetEraseAddr \/ StartErase \/ EndErase
         \/ SetProgram \/ ResetBuffer \/ SetProgramAddr \/ StartProgram
  PROVE  PInv'
<1>1. Noted
  BY DEF SetErase, SetEraseAddr, StartErase, EndErase, SetProgram, ResetBuffer,
         SetProgramAddr, StartProgram, Step
<1>2. CASE ~link
  BY <1>1, <1>2, LostAccess
<1>3. CASE link
  <2>1. Careful'
    BY <1>3, WritesAreCareful DEF PInv
  <2>2. draft' = draft
    BY <1>1, <1>3 DEF Noted, ghosts
  <2>3. draft.data # <<>> => InOrder' /\ Stage'
    BY <1>3, EraseOnTrack, ProgramOnTrack DEF PInv
  <2> QED
    BY <2>1, <2>2, <2>3 DEF PInv, DraftRight
<1> QED
  BY <1>2, <1>3

\* So does UnlockFlash.
LEMMA UnlockKeepsPromise ==
  ASSUME IInv, PInv, ReadLock \/ SendKeys \/ RereadLock
  PROVE  PInv'
<1>1. Noted \/ Fail
  BY DEF ReadLock, SendKeys, RereadLock
<1>2. CASE ~link
  BY <1>1, <1>2, LostAccess
<1>3. CASE link
  <2>1. Careful'
    <3>1. CASE SendKeys
      BY <1>3, <3>1, SendKeysIsCareful DEF PInv
    <3>2. CASE ReadLock \/ RereadLock
      <4>1. UNCHANGED <<chip, ctl, vouched>>
        BY <1>3, <3>2 DEF ReadLock, RereadLock, Noted, Fail, target, ghosts
      <4>2. pc \in {"unlock", "unlocked"} /\ (Asking' => job' = job)
        BY <3>2 DEF ReadLock, RereadLock, Fail, Goto, Return, Asking
      <4>3. pc' \notin {"erase_mode", "erase_addr", "erase_start", "prog_start"}
        BY <3>2 DEF ReadLock, RereadLock, Fail, Goto, Return, Unlocked, LoadFrom
      <4>4. Asking
        BY <4>2 DEF Asking
      <4> QED
        BY <4>1, <4>2, <4>3, <4>4, SameCareful DEF PInv
    <3> QED
      BY <3>1, <3>2
  <2>2. CASE pc' = "idle"
    <3>1. draft' = NoDraft
      BY <2>2, PlacesToGo, WorkingPlaces DEF ReadLock, SendKeys, RereadLock, Fail, Goto
    <3> QED
      BY <2>1, <3>1, NothingDrafted DEF PInv
  <2>3. CASE pc' # "idle"
    <3>1. draft' = draft
      BY <1>1, <1>3, <2>3 DEF Noted, Fail, Return, ghosts
    <3>2. draft.data # <<>> => InOrder' /\ Stage'
      BY <1>3, <2>3, UnlockOnTrack DEF PInv
    <3> QED
      BY <2>1, <3>1, <3>2 DEF PInv, DraftRight
  <2> QED
    BY <2>2, <2>3
<1> QED
  BY <1>2, <1>3

LEMMA LoadKeepsPromise ==
  ASSUME IInv, PInv, Load
  PROVE  PInv'
<1>1. Noted \/ Success
  BY DEF Load
<1>2. CASE ~link
  BY <1>1, <1>2, LostAccess
<1>3. CASE link
  <2>1. vouched' = vouched
    <3>1. CASE Success
      <4>1. \/ pc = "load" /\ WholePage /\ ~IsLastBlock(job.block)
            \/ vouched' = vouched
        BY <1>3 DEF Load, Noted, ghosts
      <4> QED
        BY <1>3, <3>1, <4>1, Delivered
    <3>2. CASE Noted
      BY <1>3, <3>2 DEF Noted, ghosts
    <3> QED
      BY <1>1, <3>1, <3>2
  <2>2. Careful'
    BY <1>3, <2>1, LoadIsCareful DEF PInv
  <2>3. draft' = draft
    BY <1>1, <1>3 DEF Noted, Success, ghosts
  <2>4. draft.data # <<>> => InOrder' /\ Stage'
    BY <1>3, LoadOnTrack DEF PInv
  <2> QED
    BY <2>2, <2>3, <2>4 DEF PInv, DraftRight
<1> QED
  BY <1>2, <1>3

LEMMA PollEndsKeepsPromise ==
  ASSUME IInv, PInv, PollEnds
  PROVE  PInv'
<1>1. Noted \/ Fail \/ Success
  BY DEF PollEnds
<1>2. CASE ~link
  BY <1>1, <1>2, LostAccess
<1>3. CASE link
  <2>1. /\ chip' = chip /\ ctl'.busy = ctl.busy /\ ctl'.addr = ctl.addr
        /\ ctl'.loaded = ctl.loaded /\ ctl'.locked = ctl.locked
    BY DEF PollEnds, StatusCleared, IInv, Targeted, Controllers
  <2>2. /\ WholePage' = WholePage /\ Unloaded' = Unloaded
        /\ Sector(ctl.addr)' = Sector(ctl.addr)
        /\ job' = job => Sector(job.block)' = Sector(job.block)
    BY <2>1, SameSectors DEF Sector, SectorSize
  <2>3. Careful'
    <3>1. CASE vouched' = vouched
      <4>1. Clear' <=> Clear
        BY <2>2, <3>1 DEF Clear
      <4>2. \/ pc' = "idle"
            \/ pc' \in {"page_mode", "load", "erase_off"} /\ pc \in Working /\ job' = job
            \/ pc' = "erase_mode" /\ pc \in Working /\ job' = job /\ ctl.busy = "no"
        BY <1>3, PollIs DEF PollEnds, Fail, Success, Return, Goto, Working, Polling
      <4>3. Asking' => Asking /\ job' = job
        BY <4>2, WorkingPlaces DEF Asking
      <4> QED
        BY <2>1, <2>2, <3>1, <4>1, <4>2, <4>3 DEF Careful, PInv, Asking
    <3>2. CASE vouched' # vouched
      <4>1. Success /\ pc = "programmed" /\ Poll = 0 /\ pc' = "idle"
        BY <1>3, <3>2 DEF PollEnds, Noted, Fail, Success, Return, ghosts
      <4>2. ctl.busy = "no" /\ (WholePage => ctl.loaded = Unloaded)
        BY <1>3, <3>2, <4>1, Delivered
      <4> QED
        BY <2>1, <2>2, <4>1, <4>2 DEF Careful, Asking
    <3> QED
      BY <3>1, <3>2
  <2>4. CASE Fail
    <3>1. draft' = NoDraft
      BY <2>4 DEF Fail
    <3> QED
      BY <2>3, <3>1, NothingDrafted DEF PInv
  <2>5. CASE ~Fail
    <3>1. draft' = draft
      BY <1>1, <1>3, <2>5 DEF Noted, Success, ghosts
    <3>2. draft.data # <<>> => InOrder' /\ Stage'
      BY <1>3, <2>5, PollOnTrack DEF PInv
    <3> QED
      BY <2>3, <3>1, <3>2 DEF PInv, DraftRight
  <2> QED
    BY <2>4, <2>5
<1> QED
  BY <1>2, <1>3

\* The commands and what happens on its own.
LEMMA HostKeepsPromise ==
  ASSUME IInv, PInv, Host
  PROVE  PInv'
<1>1. ASSUME NEW b \in Blocks, NEW e \in BOOLEAN, NEW d \in Wanted[b], WriteBlock(b, d, e)
      PROVE  PInv'
  <2>1. d \in Data
    BY DEF Data
  <2> QED
    BY <1>1, <2>1, WriteBlockIsCareful, AskedOnTrack DEF PInv
<1>2. CASE Wait
  <2>1. /\ UNCHANGED <<chip, mem, ctl, draft, doubt, vouched, job>> /\ pc = "idle" /\ pc' = "wait"
    BY <1>2 DEF Wait, target, ghosts
  <2> QED
    BY <2>1, SameCareful, SameDraftRight DEF PInv, Asking
<1>3. CASE NoTarget
  <2>1. draft' = NoDraft /\ vouched' \subseteq vouched /\ UNCHANGED <<chip, ctl>> /\ pc' = "idle"
    BY <1>3 DEF NoTarget, Fail, Return, target
  <2> QED
    BY <2>1, NothingDrafted, SameCareful DEF PInv, Asking
<1>4. CASE ResetInternalProgrammingState \/ InitializeSWDSWIO
  <2>1. /\ UNCHANGED <<chip, mem, ctl, draft, vouched, job, pc>> /\ (doubt' => doubt)
    BY <1>4 DEF ResetInternalProgrammingState, Reset, InitializeSWDSWIO, target, call, ghosts
  <2>2. Careful'
    BY <2>1, SameCareful DEF PInv, Asking
  <2> QED
    BY <2>1, <2>2, SameDraftRight DEF PInv
<1>5. CASE PowerCycle
  <2>1. draft' = NoDraft
    BY <1>5 DEF PowerCycle
  <2> QED
    BY <1>5, <2>1, NothingDrafted, PowerCycleIsCareful DEF PInv
<1> QED
  BY <1>1, <1>2, <1>3, <1>4, <1>5 DEF Host

LEMMA PInvKept ==
  ASSUME IInv, PInv, [Next]_vars
  PROVE  PInv'
<1>1. CASE PollAgain
  <2>1. Noted /\ UNCHANGED <<chip, mem, ctl, job, pc>>
    BY <1>1 DEF PollAgain, target
  <2>2. CASE ~link
    BY <2>1, <2>2, LostAccess
  <2>3. CASE link
    <3>1. UNCHANGED <<draft, vouched, doubt>>
      BY <2>1, <2>3 DEF Noted, ghosts
    <3>2. Careful'
      BY <2>1, <3>1, SameCareful DEF PInv, Asking
    <3> QED
      BY <2>1, <3>1, <3>2, SameDraftRight DEF PInv
  <2> QED
    BY <2>2, <2>3
<1>2. CASE Programmer /\ ~PollAgain
  BY <1>2, PollEndsKeepsPromise, UnlockKeepsPromise, WritesKeepPromise, LoadKeepsPromise
     DEF Programmer
<1>3. CASE Host
  BY <1>3, HostKeepsPromise
<1>4. CASE FlashDone
  BY <1>4, FlashDoneIsCareful, DoneOnTrack DEF PInv
<1>5. CASE LinkChanges \/ UNCHANGED vars
  <2>1. UNCHANGED <<chip, mem, ctl, job, pc, draft, vouched, doubt>>
    BY <1>5 DEF LinkChanges, vars, target, call, ghosts
  <2>2. Careful'
    BY <2>1, SameCareful DEF PInv, Asking
  <2> QED
    BY <2>1, <2>2, SameDraftRight DEF PInv
<1> QED
  BY <1>1, <1>2, <1>3, <1>4, <1>5 DEF Next

LEMMA PInvAtFirst ==
  ASSUME Init
  PROVE  PInv
BY DEF Init, PInv, Careful, DraftRight, Asking, Clear, PowerUp, NoDraft

-----------------------------------------------------------------------------
(***************************************************************************)
(* Every step is one of FlashPromise, or none.                             *)
(***************************************************************************)
Store == [b \in Blocks |-> IF b \in vouched THEN mem[b] ELSE Unsure]

\* What neither asks nor answers, nor touches what is vouched for, is none.
LEMMA NoPromise ==
  ASSUME UNCHANGED <<chip, draft>>, Store' = Store, Asking' <=> Asking
  PROVE  UNCHANGED Promise!vars
<1>1. SectorSize' = SectorSize
  BY SameSectors
<1>2. UNCHANGED <<draft, Store>>
  OBVIOUS
<1>3. UNCHANGED (pc \notin {"idle", "wait"})
  BY DEF Asking
<1> QED
  BY <1>1, <1>2, <1>3 DEF Promise!vars, Store

\* A draft may be given up at any time, and with it all that was promised.
LEMMA GivenUp ==
  ASSUME chip' = chip, draft' = NoDraft, vouched' = {} \/ Store' = Store
  PROVE  Promise!Abandon
<1>1. SectorSize' = SectorSize
  BY SameSectors
<1>2. draft' = [first |-> 0, data |-> <<>>]
  BY DEF NoDraft
<1>3. \E S \in {{}, Blocks} : Store' = Promise!Forgotten(S)
  <2>1. CASE Store' = Store
    <3>1. Promise!Forgotten({}) = Store
      BY DEF Promise!Forgotten, Store
    <3> QED
      BY <2>1, <3>1
  <2>2. CASE vouched' = {}
    <3>1. Promise!Forgotten(Blocks) = [b \in Blocks |-> Unsure]
      BY DEF Promise!Forgotten
    <3>2. Store' = [b \in Blocks |-> Unsure]
      BY <2>2 DEF Store
    <3> QED
      BY <3>1, <3>2
  <2> QED
    BY <2>1, <2>2
<1>4. (pc \notin {"idle", "wait"})' \in BOOLEAN
  OBVIOUS
<1> QED
  BY <1>1, <1>2, <1>3, <1>4 DEF Promise!Abandon, Store

\* A lost access gives it up,
LEMMA LostIsAbandon ==
  ASSUME ~link, chip' = chip, Noted \/ Fail \/ Success
  PROVE  Promise!Abandon
<1>1. draft' = NoDraft /\ vouched' = {}
  BY DEF Noted, Fail, Success
<1> QED
  BY <1>1, GivenUp

\* and so does a command that fails.
LEMMA FailIsAbandon ==
  ASSUME UNCHANGED <<chip, mem>>, Fail
  PROVE  Promise!Abandon
<1>1. draft' = NoDraft /\ (vouched' = vouched \/ vouched' = {})
  BY DEF Fail
<1>2. vouched' = vouched => Store' = Store
  BY DEF Store
<1> QED
  BY <1>1, <1>2, GivenUp

\* A success accepts the draft: the blocks of a finished sector are all known.
LEMMA SuccessIsAccept ==
  ASSUME IInv, PInv, link, Success, UNCHANGED <<chip, mem>>,
         \/ pc = "programmed" /\ Poll = 0
         \/ pc = "load" /\ WholePage /\ ~IsLastBlock(job.block)
  PROVE  Promise!Accept
<1>1. SectorSize' = SectorSize /\ draft' = draft
  BY SameSectors DEF Success
<1>2. (pc \notin {"idle", "wait"}) /\ ~(pc \notin {"idle", "wait"})'
  BY DEF Success, Return
<1>3. CASE vouched' = vouched /\ Len(draft.data) # SectorSize
  <2>1. Store' = Store
    BY <1>3 DEF Store
  <2> QED
    BY <1>1, <1>2, <1>3, <2>1 DEF Promise!Accept, Store
<1>4. CASE /\ vouched' = vouched \cup Drafted
           /\ \A b \in Drafted : /\ b \in Blocks /\ mem[b] = draft.data[b - draft.first + 1]
                                 /\ draft.data[b - draft.first + 1] \in Data
  <2>1. Store' = [b \in Blocks |-> IF b \in Drafted THEN draft.data[b - draft.first + 1]
                                   ELSE Store[b]]
    BY <1>4 DEF Store
  <2>2. \A b \in Drafted : Store'[b] # Unsure
    BY <1>4, <2>1, FlashSessionAssumption
  <2> QED
    BY <1>1, <1>2, <2>1, <2>2 DEF Promise!Accept, Promise!Drafted, Drafted, Store
<1> QED
  BY <1>3, <1>4, Delivered

\* A request asks.
LEMMA WriteBlockIsAsk ==
  ASSUME IInv, NEW b \in Blocks, NEW d \in Data, NEW e \in BOOLEAN, WriteBlock(b, d, e)
  PROVE  Promise!Ask(b, d)
<1>1. UNCHANGED <<chip, mem>> /\ vouched' = vouched \ Sector(b) /\ draft' = NextDraft(b, d, e)
  BY DEF WriteBlock, target
<1>2. SectorSize' = SectorSize
  BY <1>1, SameSectors
<1>3. (pc \notin {"idle", "wait"})' /\ ~(pc \notin {"idle", "wait"})
  BY DEF WriteBlock, Unlocked, LoadFrom
<1>4. Store' = Promise!Forgotten(Sector(b))
  BY <1>1 DEF Promise!Forgotten, Store
<1>5. Promise!Sector(b) = Sector(b)
  BY DEF Promise!Sector, Sector
<1>6. /\ draft' \in {[first |-> b, data |-> <<d>>],
                     [first |-> draft.first, data |-> Append(draft.data, d)],
                     [first |-> 0, data |-> <<>>]}
      /\ draft'.data # <<>> => draft'.first + Len(draft'.data) - 1 = b
  <2>1. b \in Nat /\ draft.first \in Nat /\ draft.data \in Seq(Data)
    BY FlashSessionAssumption DEF IInv, Drafts, Blocks
  <2>2. CASE draft' = [first |-> b, data |-> <<d>>]
    BY <2>1, <2>2
  <2>3. CASE /\ b = draft.first + Len(draft.data)
             /\ draft' = [draft EXCEPT !.data = Append(@, d)]
    <3>1. draft' = [first |-> draft.first, data |-> Append(draft.data, d)]
      BY <2>3 DEF IInv, Drafts
    <3>2. Len(Append(draft.data, d)) = Len(draft.data) + 1 /\ Len(draft.data) \in Nat
      BY <2>1
    <3>3. draft'.first + Len(draft'.data) - 1 = b
      BY <2>1, <2>3, <3>1, <3>2
    <3> QED
      BY <3>1, <3>3
  <2>4. CASE draft' = NoDraft
    BY <2>4 DEF NoDraft
  <2> QED
    BY <1>1, <2>2, <2>3, <2>4 DEF NextDraft
<1> QED
  BY <1>2, <1>3, <1>4, <1>5, <1>6 DEF Promise!Ask, Store

\* The steps of a WriteBlock before its answer are none of the promise's.
LEMMA WorkIsNoPromise ==
  ASSUME link, Noted, UNCHANGED <<chip, mem>>, Asking' <=> Asking
  PROVE  UNCHANGED Promise!vars
<1>1. UNCHANGED <<draft, vouched>>
  BY DEF Noted, ghosts
<1>2. Store' = Store
  BY <1>1 DEF Store
<1> QED
  BY <1>1, <1>2, NoPromise

LEMMA ProgrammerIsPromised ==
  ASSUME IInv, PInv, Programmer
  PROVE  Promise!Next \/ UNCHANGED Promise!vars
<1>1. UNCHANGED <<chip, mem>> /\ (Noted \/ Fail \/ Success)
  BY DEF Programmer, PollAgain, PollEnds, ReadLock, SendKeys, RereadLock, Step, SetErase,
         SetEraseAddr, StartErase, EndErase, SetProgram, ResetBuffer, Load, SetProgramAddr,
         StartProgram, target
<1>2. CASE ~link
  BY <1>1, <1>2, LostIsAbandon DEF Promise!Next
<1>3. CASE Fail
  BY <1>1, <1>3, FailIsAbandon DEF Promise!Next
<1>4. CASE link /\ ~Fail
  <2>1. \/ Noted /\ (Asking' <=> Asking)
        \/ Success /\ pc = "programmed" /\ Poll = 0
        \/ Success /\ pc = "load" /\ WholePage /\ ~IsLastBlock(job.block)
    <3>1. CASE PollAgain
      BY <3>1 DEF PollAgain, Asking
    <3>2. CASE PollEnds
      BY <1>4, <3>2 DEF PollEnds, Return, Goto, Asking
    <3>3. CASE Load
      BY <3>3 DEF Load, Goto, Asking
    <3>4. CASE ReadLock \/ SendKeys \/ RereadLock
      <4>1. Noted /\ (pc' \in {"keys", "unlocked"} \/ pc' = Unlocked(job))
        BY <1>4, <3>4 DEF ReadLock, SendKeys, RereadLock, Goto
      <4>2. pc \in {"unlock", "keys", "unlocked"}
        BY <3>4 DEF ReadLock, SendKeys, RereadLock
      <4> QED
        BY <4>1, <4>2, PlacesToGo, WorkingPlaces DEF Asking
    <3>5. CASE \/ SetErase \/ SetEraseAddr \/ StartErase \/ EndErase
               \/ SetProgram \/ ResetBuffer \/ SetProgramAddr \/ StartProgram
      BY <3>5 DEF SetErase, SetEraseAddr, StartErase, EndErase, SetProgram, ResetBuffer,
                  SetProgramAddr, StartProgram, Step, Goto, LoadFrom, Asking
    <3> QED
      BY <3>1, <3>2, <3>3, <3>4, <3>5 DEF Programmer
  <2> QED
    BY <1>1, <1>4, <2>1, WorkIsNoPromise, SuccessIsAccept DEF Promise!Next
<1> QED
  BY <1>2, <1>3, <1>4

LEMMA HostIsPromised ==
  ASSUME IInv, PInv, Host
  PROVE  Promise!Next \/ UNCHANGED Promise!vars
<1>1. ASSUME NEW b \in Blocks, NEW e \in BOOLEAN, NEW d \in Wanted[b], WriteBlock(b, d, e)
      PROVE  Promise!Next
  <2>1. d \in Data
    BY DEF Data
  <2>2. Promise!Ask(b, d)
    BY <1>1, <2>1, WriteBlockIsAsk
  <2> QED
    BY <2>1, <2>2 DEF Promise!Next
<1>2. CASE Wait \/ ResetInternalProgrammingState \/ InitializeSWDSWIO
  <2>1. UNCHANGED <<chip, mem, draft, vouched>>
    BY <1>2 DEF Wait, ResetInternalProgrammingState, InitializeSWDSWIO, target, ghosts
  <2>2. Asking' <=> Asking
    BY <1>2 DEF Wait, ResetInternalProgrammingState, Reset, InitializeSWDSWIO, call, Asking
  <2>3. Store' = Store
    BY <2>1 DEF Store
  <2> QED
    BY <2>1, <2>2, <2>3, NoPromise
<1>3. CASE NoTarget
  BY <1>3, FailIsAbandon DEF NoTarget, target, Promise!Next
<1>4. CASE PowerCycle
  <2>1. chip' = chip /\ draft' = NoDraft /\ vouched' = vouched
    BY <1>4 DEF PowerCycle
  <2>2. \A b \in vouched : b \in Blocks => mem'[b] = mem[b]
    BY <1>4, OutOfReach DEF PowerCycle, PInv
  <2>3. Store' = Store
    BY <2>1, <2>2 DEF Store
  <2> QED
    BY <2>1, <2>3, GivenUp DEF Promise!Next
<1> QED
  BY <1>1, <1>2, <1>3, <1>4 DEF Host

LEMMA StepIsPromised ==
  ASSUME IInv, PInv, [Next]_vars
  PROVE  Promise!Next \/ UNCHANGED Promise!vars
<1>1. CASE FlashDone
  <2>1. UNCHANGED <<chip, draft, vouched>> /\ (Asking' <=> Asking)
    BY <1>1 DEF FlashDone, call, ghosts, Asking
  <2>2. \A b \in vouched : b \in Blocks => mem'[b] = mem[b]
    BY <1>1, OutOfReach DEF FlashDone, PInv
  <2>3. Store' = Store
    BY <2>1, <2>2 DEF Store
  <2> QED
    BY <2>1, <2>3, NoPromise
<1>2. CASE LinkChanges \/ UNCHANGED vars
  <2>1. UNCHANGED <<chip, mem, draft, vouched>> /\ (Asking' <=> Asking)
    BY <1>2 DEF LinkChanges, vars, target, call, ghosts, Asking
  <2>2. Store' = Store
    BY <2>1 DEF Store
  <2> QED
    BY <2>1, <2>2, NoPromise
<1> QED
  BY <1>1, <1>2, ProgrammerIsPromised, HostIsPromised DEF Next

LEMMA PromisedAtFirst ==
  ASSUME Init
  PROVE  Promise!Init
<1>1. SectorSize \in Nat \ {0}
  BY FlashSessionAssumption DEF Init, SectorSize
<1>2. Store = [b \in Blocks |-> Unsure]
  BY DEF Init, Store
<1>3. ~(pc \notin {"idle", "wait"})
  BY DEF Init
<1>4. draft = [first |-> 0, data |-> <<>>]
  BY DEF Init, NoDraft
<1> QED
  BY <1>1, <1>2, <1>3, <1>4 DEF Promise!Init, Store

\* The session keeps FlashPromise, whatever the commands, the wires, the power and
\* the controller do: a sector reported as written, block by block and in order, is
\* in the flash, and stays there until one of its blocks is asked for again.
THEOREM PromiseIsKept == Spec => PromiseKept
<1>1. Init => Promise!Init
  BY PromisedAtFirst
<1>2. Init => PInv
  BY PInvAtFirst
<1>3. IInv /\ PInv /\ [Next]_vars => PInv'
  BY PInvKept
<1>4. IInv /\ PInv /\ [Next]_vars => [Promise!Next]_(Promise!vars)
  BY StepIsPromised
<1> QED
  BY <1>1, <1>2, <1>3, <1>4, InvariantHolds, PTL DEF Spec, PromiseKept, Promise!Spec

-----------------------------------------------------------------------------
(***************************************************************************)
(* What EveryCommandAnswers rests on: the accesses a command has left.     *)
(***************************************************************************)
\* How many places of a WriteBlock may still be to come, with this one.
PlacesLeft(p) ==
  CASE p = "idle" -> 0 [] p = "wait" -> 1 [] p = "programmed" -> 2
    [] p = "prog_start" -> 3 [] p = "prog_addr" -> 4 [] p = "load" -> 5
    [] p = "ready" -> 6 [] p = "buf_reset" -> 7 [] p = "page_mode" -> 8
    [] p = "page_wait" -> 9 [] p = "erase_off" -> 10 [] p = "erased" -> 11
    [] p = "erase_start" -> 12 [] p = "erase_addr" -> 13 [] p = "erase_mode" -> 14
    [] p = "erase_wait" -> 15 [] p = "unlocked" -> 16 [] p = "keys" -> 17
    [] OTHER -> 18

\* At each of them, it may ask MaxPolls times in vain.
AccessesLeft == IF pc = "idle" THEN 0 ELSE PlacesLeft(pc) * (MaxPolls + 1) - polls

LEMMA PlacesLeftAre ==
  /\ PlacesLeft("idle") = 0 /\ PlacesLeft("wait") = 1 /\ PlacesLeft("programmed") = 2
  /\ PlacesLeft("prog_start") = 3 /\ PlacesLeft("prog_addr") = 4 /\ PlacesLeft("load") = 5
  /\ PlacesLeft("ready") = 6 /\ PlacesLeft("buf_reset") = 7 /\ PlacesLeft("page_mode") = 8
  /\ PlacesLeft("page_wait") = 9 /\ PlacesLeft("erase_off") = 10 /\ PlacesLeft("erased") = 11
  /\ PlacesLeft("erase_start") = 12 /\ PlacesLeft("erase_addr") = 13
  /\ PlacesLeft("erase_mode") = 14 /\ PlacesLeft("erase_wait") = 15
  /\ PlacesLeft("unlocked") = 16 /\ PlacesLeft("keys") = 17 /\ PlacesLeft("unlock") = 18
BY DEF PlacesLeft

LEMMA PlacesLeftType ==
  ASSUME NEW p \in Places
  PROVE  PlacesLeft(p) \in 0 .. 18 /\ (p # "idle" => PlacesLeft(p) > 0)
BY PlacesLeftAre DEF Places, Working, Polling

\* A place further on is nearer the end, whatever was polled here.
LEMMA FurtherOn ==
  ASSUME NEW m \in Nat, NEW n \in 0 .. m, NEW p \in Nat, NEW q \in Nat, q < p
  PROVE  q * (m + 1) < p * (m + 1) - n
<1>1. PICK d \in Nat : p = q + 1 + d
  <2>1. p - q - 1 \in Nat
    OBVIOUS
  <2> QED
    BY <2>1
<1>2. p * (m + 1) = q * (m + 1) + (m + 1) + d * (m + 1)
  BY <1>1
<1>3. d * (m + 1) \in Nat /\ q * (m + 1) \in Nat
  OBVIOUS
<1> QED
  BY <1>2, <1>3

LEMMA LeftInRange ==
  ASSUME NEW m \in Nat, NEW n \in 0 .. m, NEW p \in 1 .. 18
  PROVE  p * (m + 1) - n \in 1 .. 18 * (m + 1)
<1>1. PICK d \in Nat : p = 1 + d
  <2>1. p - 1 \in Nat
    OBVIOUS
  <2> QED
    BY <2>1
<1>2. PICK e \in Nat : p + e = 18
  <2>1. 18 - p \in Nat
    OBVIOUS
  <2> QED
    BY <2>1
<1>3. d * (m + 1) \in Nat /\ e * (m + 1) \in Nat /\ p * (m + 1) \in Nat
  BY <1>1
<1>4. p * (m + 1) = (m + 1) + d * (m + 1)
  BY <1>1
<1>5. p * (m + 1) + e * (m + 1) = 18 * (m + 1)
  BY <1>2
<1> QED
  BY <1>3, <1>4, <1>5

LEMMA AccessesLeftType ==
  ASSUME Called
  PROVE  /\ AccessesLeft \in 0 .. 18 * (MaxPolls + 1)
         /\ pc # "idle" => AccessesLeft > 0
<1>1. MaxPolls \in Nat /\ polls \in 0 .. MaxPolls
  BY FlashSessionAssumption DEF Called
<1>2. CASE pc = "idle"
  BY <1>1, <1>2 DEF AccessesLeft
<1>3. CASE pc # "idle"
  <2>1. PlacesLeft(pc) \in 1 .. 18
    BY <1>3, PlacesLeftType DEF Called
  <2>2. PlacesLeft(pc) * (MaxPolls + 1) - polls \in 1 .. 18 * (MaxPolls + 1)
    BY <1>1, <2>1, LeftInRange
  <2>3. AccessesLeft \in 1 .. 18 * (MaxPolls + 1)
    BY <1>3, <2>2 DEF AccessesLeft
  <2> QED
    BY <1>1, <2>3
<1> QED
  BY <1>2, <1>3

LEMMA FurtherOnIsNearer ==
  ASSUME Called, Called', PlacesLeft(pc') < PlacesLeft(pc), polls' = 0
  PROVE  AccessesLeft' < AccessesLeft
<1>1. MaxPolls \in Nat /\ polls \in 0 .. MaxPolls
  BY FlashSessionAssumption DEF Called
<1>2. PlacesLeft(pc) \in Nat /\ PlacesLeft(pc') \in Nat
  BY PlacesLeftType DEF Called
<1>3. pc # "idle"
  BY <1>2, PlacesLeftAre
<1>4. CASE pc' = "idle"
  BY <1>3, <1>4, AccessesLeftType DEF AccessesLeft
<1>5. CASE pc' # "idle"
  <2>1. PlacesLeft(pc') * (MaxPolls + 1) < PlacesLeft(pc) * (MaxPolls + 1) - polls
    BY <1>1, <1>2, FurtherOn
  <2>2. AccessesLeft' = PlacesLeft(pc') * (MaxPolls + 1) - 0
    BY <1>5 DEF AccessesLeft
  <2>3. AccessesLeft = PlacesLeft(pc) * (MaxPolls + 1) - polls
    BY <1>3 DEF AccessesLeft
  <2>4. PlacesLeft(pc') * (MaxPolls + 1) - 0 = PlacesLeft(pc') * (MaxPolls + 1)
    BY <1>1, <1>2
  <2> QED
    BY <2>1, <2>2, <2>3, <2>4
<1> QED
  BY <1>4, <1>5

\* Where a WriteBlock goes on: past the erasure, or past the unlocking.
LEMMA OnwardPlaces ==
  ASSUME NEW b, NEW j
  PROVE  /\ PlacesLeft(LoadFrom(b)) < 10
         /\ PlacesLeft(Unlocked(j)) < 16
BY PlacesLeftAre DEF LoadFrom, Unlocked

\* A poll in vain is one of MaxPolls.
LEMMA PollIsNearer ==
  ASSUME IInv, PollAgain
  PROVE  AccessesLeft' < AccessesLeft
<1>1. MaxPolls \in Nat /\ polls \in 0 .. MaxPolls /\ pc \in Places
  BY FlashSessionAssumption DEF IInv, Called
<1>2. polls' = polls + 1 /\ pc' = pc /\ pc # "idle"
  BY DEF PollAgain, Polling
<1>3. PlacesLeft(pc) * (MaxPolls + 1) \in Nat
  BY <1>1, PlacesLeftType
<1> QED
  BY <1>1, <1>2, <1>3 DEF AccessesLeft

LEMMA StepIsNearer ==
  ASSUME IInv, IInv', Programmer
  PROVE  AccessesLeft' < AccessesLeft
<1>1. CASE PollAgain
  BY <1>1, PollIsNearer
<1>2. CASE ~PollAgain
  <2>0. SUFFICES polls' = 0 /\ PlacesLeft(pc') < PlacesLeft(pc)
    BY FurtherOnIsNearer DEF IInv
  <2>1. CASE PollEnds
    BY <2>1, PlacesLeftAre DEF PollEnds, Goto, Fail, Success, Return, Polling
  <2>2. CASE ReadLock
    <3>1. pc = "unlock" /\ polls' = 0 /\ pc' \in {"keys", Unlocked(job)}
      BY <2>2 DEF ReadLock, Goto
    <3>2. PlacesLeft(Unlocked(job)) < 16 /\ PlacesLeft(Unlocked(job)) \in Nat
      BY OnwardPlaces, PlacesToGo, WorkingPlaces, PlacesLeftType
    <3> QED
      BY <3>1, <3>2, PlacesLeftAre
  <2>3. CASE SendKeys
    BY <2>3, PlacesLeftAre DEF SendKeys, Goto
  <2>4. CASE RereadLock
    BY <2>4, PlacesLeftAre, OnwardPlaces DEF RereadLock, Goto, Fail, Return
  <2>5. CASE SetErase \/ SetEraseAddr \/ StartErase
    BY <2>5, PlacesLeftAre DEF SetErase, SetEraseAddr, StartErase, Step, Goto
  <2>6. CASE EndErase
    BY <2>6, PlacesLeftAre, OnwardPlaces DEF EndErase, Step, Goto
  <2>7. CASE SetProgram \/ ResetBuffer
    BY <2>7, PlacesLeftAre DEF SetProgram, ResetBuffer, Step, Goto
  <2>8. CASE Load
    BY <2>8, PlacesLeftAre DEF Load, Success, Return, Goto
  <2>9. CASE SetProgramAddr \/ StartProgram
    BY <2>9, PlacesLeftAre DEF SetProgramAddr, StartProgram, Step, Goto
  <2> QED
    BY <1>2, <2>1, <2>2, <2>3, <2>4, <2>5, <2>6, <2>7, <2>8, <2>9 DEF Programmer
<1> QED
  BY <1>1, <1>2

\* A command is one at a time: until it has ended, none begins or disturbs it.
LEMMA CommandAlone ==
  ASSUME Next, pc # "idle"
  PROVE  Programmer \/ UNCHANGED call
BY DEF Next, Host, WriteBlock, Wait, NoTarget, ResetInternalProgrammingState,
       InitializeSWDSWIO, PowerCycle, FlashDone, LinkChanges

\* A command of the session makes at most 18 * (MaxPolls + 1) accesses, the words
\* of a block and the keys taken as one each: whatever the controller answers, the
\* wires do and the protection refuses, every access brings it nearer its end
\* (the loop of WaitForFlash is bitbang_rvswdio.h:863-867), and nothing in
\* between takes it back.
THEOREM AccessesAreNumbered ==
  Spec => /\ [](AccessesLeft \in 0 .. 18 * (MaxPolls + 1))
          /\ [][/\ Programmer => AccessesLeft' < AccessesLeft
                /\ pc # "idle" => Programmer \/ UNCHANGED call]_vars
<1>1. IInv => AccessesLeft \in 0 .. 18 * (MaxPolls + 1)
  BY AccessesLeftType DEF IInv
<1>2. IInv /\ IInv' /\ [Next]_vars =>
        [/\ Programmer => AccessesLeft' < AccessesLeft
         /\ pc # "idle" => Programmer \/ UNCHANGED call]_vars
  BY StepIsNearer, CommandAlone
<1> QED
  BY <1>1, <1>2, InvariantHolds, PTL DEF Spec
===============================================================================
