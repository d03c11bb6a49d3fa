------------------------------ MODULE UpdiNvm ------------------------------
(***************************************************************************)
(* Programming an AVR over UPDI (updi_bitbang.h): UPDISetup, UPDIErase,    *)
(* UPDIFlash, UPDIReadMemoryArea and UPDIReset, for the commands 0x90 to   *)
(* 0x96 of the programmer, which are given in any order.                   *)
(*                                                                         *)
(* A step is one access to the target: a byte stored or loaded, with the   *)
(* pointer stored before it where that is done, a key, a status, a reset.  *)
(* UPDIFlash and UPDIReadMemoryArea keep a copy of the target's pointer,   *)
(* which the target advances by itself, and store the pointer only when    *)
(* the copy says it is elsewhere; the acknowledgements are not looked at.  *)
(* The wire may lose an access or only its answer, at any time.  How bits  *)
(* become words (UPDISendWord, UPDIReceive) is left out: a word that       *)
(* arrives damaged is a lost one.                                          *)
(*                                                                         *)
(* A definition marked "slip" is a likely mistake in the operator after it *)
(* and is part of no behaviour: with it in the operator's place, TLC finds *)
(* one of the properties violated.                                         *)
(***************************************************************************)
EXTENDS Integers, Sequences

CONSTANTS
  PageSize,   \* bytes of a page (64 in the code)
  Pages,      \* the pages of the flash, numbered from 0
  Base,       \* where the flash is mapped, past the registers (0x8000)
  Byte,       \* values of a byte of an address (256)
  Images,     \* Images[p]: the contents that page p may be asked to hold
  Erased,     \* an erased byte
  Torn,       \* a byte whose writing was cut off
  MaxTries,   \* 10 in the code
  MaxPolls,   \* to_max of UPDIFlash: 10 in the code
  MaxRetry,   \* max_retry of UPDISetup, UPDIErase (200) and UPDIReset (100)
  MaxLosses   \* bound: stores lost in a behaviour

\* NVMCTRL, from 0x1000
CTRLA == 0
STATUS == 2
ADDR == 8

Address(p) == Base + p * PageSize
Offsets == 0 .. PageSize - 1
Top == Base + PageSize * (Pages + 1)
PageNumbers == 0 .. Pages - 1
AllImages == UNION {Images[p] : p \in PageNumbers}
Bytes == UNION {{image[o] : o \in Offsets} : image \in AllImages}

ASSUME UpdiNvmAssumption ==
  /\ PageSize \in Nat \ {0} /\ Pages \in Nat \ {0} /\ Byte \in Nat \ {0}
  /\ Base \in Nat /\ Base > ADDR + 2 /\ Base % PageSize = 0
  /\ DOMAIN Images = PageNumbers
  /\ AllImages \subseteq [Offsets -> Bytes] /\ AllImages # {}
  /\ Bytes \subseteq 0 .. Byte - 1 /\ Top < Byte * Byte /\ Byte > 4
  /\ Erased \notin Bytes /\ Torn \notin Bytes /\ Erased # Torn
  /\ MaxTries \in Nat /\ MaxPolls \in Nat \ {0} /\ MaxRetry \in Nat \ {0}
  /\ MaxLosses \in Nat

VARIABLES
  avr,       \* the target: see Targets
  flash,     \* its flash: flash[p][o]
  pc,        \* where the command in progress stands
  job,       \* the command, and the page and image it is about
  updi_ptr,  \* updi_ptr: the copy of the target's pointer, -1 for none
  count,     \* bytes done, or polls made
  tries,     \* tries
  got,       \* the bytes read so far
  done,      \* whether the command that ended last answered 0
  unsure,    \* ghost: something stored by this command was lost, or it began
             \*   with the page of another one still being written
  losses     \* stores lost so far

target == <<avr, flash>>
programmer == <<pc, job, updi_ptr, count, tries, got, done>>
ghosts == <<unsure, losses>>
vars == <<target, programmer, ghosts>>

-----------------------------------------------------------------------------
(***************************************************************************)
(* The target.                                                             *)
(***************************************************************************)
Blank == [o \in Offsets |-> Erased]
Keys == {"none", "setup", "erase"}  \* NVMProg, NVMErase

Targets ==
  [on     : BOOLEAN,
   locked : BOOLEAN,                             \* LOCKSTATUS of ASI_SYS_STATUS
   mode   : {"run", "entering", "programming", "erasing"},
   key    : Keys,                                \* ASI_KEY_STATUS
   ptr    : 0 .. Top,
   lo     : 0 .. Byte - 1,                       \* NVMCTRL.ADDR
   hi     : 0 .. Byte - 1,
   buf    : [Offsets -> Bytes \cup {Erased}],    \* the page buffer
   busy   : BOOLEAN]                             \* FBUSY of NVMCTRL.STATUS

PowerUp(locked) ==
  [on |-> TRUE, locked |-> locked, mode |-> "run", key |-> "none", ptr |-> 0,
   lo |-> 0, hi |-> 0, buf |-> Blank, busy |-> FALSE]

\* It executes loads and stores only in programming mode.
Serves == avr.on /\ avr.mode = "programming"

Addressed == {p \in PageNumbers : Address(p) = avr.lo + Byte * avr.hi}

\* A byte stored at q; a busy controller takes nothing.
Stored(q, v) ==
  IF avr.busy THEN avr ELSE
  CASE q = ADDR -> [avr EXCEPT !.lo = v % Byte]
    [] q = ADDR + 1 -> [avr EXCEPT !.hi = v]
    [] q = CTRLA /\ v = 4 -> [avr EXCEPT !.buf = Blank]
    [] q = CTRLA /\ v = 3 -> [avr EXCEPT !.busy = TRUE]
    [] q \in Base .. Top - 1 /\ v \in Bytes -> [avr EXCEPT !.buf[(q - Base) % PageSize] = v]
    [] OTHER -> avr

\* A byte loaded from q: of anything but the status and the flash, any.
Loaded(q) ==
  IF q = STATUS THEN {IF avr.busy THEN 1 ELSE 0}
  ELSE IF q \in Base .. Address(Pages) - 1
  THEN {flash[(q - Base) \div PageSize][(q - Base) % PageSize]}
  ELSE {0, 1}

Advanced(q) == IF q < Top THEN q + 1 ELSE q

\* The page being written is torn when the target stops, and all of them in an
\* erasure.
Cut ==
  LET cut == IF avr.mode = "erasing" THEN PageNumbers ELSE IF avr.busy THEN Addressed ELSE {}
  IN flash' = [p \in PageNumbers |-> IF p \in cut THEN [o \in Offsets |-> Torn] ELSE flash[p]]

\* A reset: a key takes effect and is gone, the registers are cleared.
Restart ==
  /\ avr' = [PowerUp(avr.locked) EXCEPT !.ptr = avr.ptr,
                !.mode = CASE avr.key = "setup" /\ ~avr.locked -> "entering"
                           [] avr.key = "erase" -> "erasing"
                           [] OTHER -> "run"]
  /\ Cut

Enter ==
  /\ avr.mode = "entering"
  /\ avr' = [avr EXCEPT !.mode = "programming"]
  /\ UNCHANGED <<flash, programmer, ghosts>>

ChipErased ==
  /\ avr.mode = "erasing"
  /\ avr' = [avr EXCEPT !.mode = "run", !.locked = FALSE]
  /\ flash' = [p \in PageNumbers |-> Blank]
  /\ UNCHANGED <<programmer, ghosts>>

PageWritten ==
  /\ avr.busy
  /\ avr' = [avr EXCEPT !.busy = FALSE]
  /\ flash' = [p \in PageNumbers |-> IF p \in Addressed THEN avr.buf ELSE flash[p]]
  /\ UNCHANGED <<programmer, ghosts>>

-----------------------------------------------------------------------------
NoJob == [command |-> "none", page |-> 0, image |-> CHOOSE i \in AllImages : TRUE]

Init ==
  /\ \E locked \in BOOLEAN : avr = PowerUp(locked)
  /\ flash = [p \in PageNumbers |-> Blank]
  /\ pc = "idle" /\ job = NoJob /\ updi_ptr = -1 /\ count = 0 /\ tries = 0
  /\ got = <<>> /\ done = FALSE /\ unsure = FALSE /\ losses = 0

Return(ok) ==
  /\ pc' = "idle" /\ done' = ok
  /\ updi_ptr' = -1 /\ count' = 0 /\ tries' = 0
  /\ got' = IF ok THEN got ELSE <<>>
  /\ UNCHANGED job

Goto(p) == pc' = p /\ count' = 0 /\ UNCHANGED <<job, updi_ptr, tries, got, done>>

\* slip: the tries of one loop are not counted
TryAgainSlip(p) ==
  /\ tries < MaxTries
  /\ pc' = p /\ tries' = IF p = "key" THEN tries ELSE tries + 1
  /\ count' = 0 /\ UNCHANGED <<job, updi_ptr, got, done>>

\* tries++ < 10, and back to p.
\* slip: one try too many
TryAgainOnceMore(p) ==
  /\ tries <= MaxTries
  /\ pc' = p /\ tries' = tries + 1 /\ count' = 0
  /\ UNCHANGED <<job, updi_ptr, got, done>>

TryAgain(p) ==
  /\ tries < MaxTries
  /\ pc' = p /\ tries' = tries + 1 /\ count' = 0
  /\ UNCHANGED <<job, updi_ptr, got, done>>

\* A lost reset request does nothing, nor does one during an erasure.
RequestReset ==
  \/ avr.on /\ avr.mode # "erasing" /\ Restart
  \/ UNCHANGED target

\* What is asked of a target is heard only from one that is on.
Heard == IF avr.on THEN BOOLEAN ELSE {FALSE}

-----------------------------------------------------------------------------
(***************************************************************************)
(* UPDISetup, UPDIErase and UPDIReset.                                     *)
(***************************************************************************)
\* UPDISyncStart, the break and the 16 bytes of the SIB.
Sync ==
  /\ pc = "sync"
  /\ \/ Return(FALSE)  \* the line is low, or no acknowledgement
     \/ \E sib \in Heard :
          \/ sib /\ Goto("key")
          \/ ~sib /\ avr.on /\ TryAgain("sync")
          \/ ~sib /\ avr.on /\ tries = MaxTries /\ Return(FALSE)
  /\ UNCHANGED <<target, ghosts>>

SendKey ==
  /\ pc = "key"
  /\ \E arrives \in Heard : avr' = IF arrives THEN [avr EXCEPT !.key = job.command] ELSE avr
  /\ Goto("keystatus")
  /\ UNCHANGED <<flash, ghosts>>

KeyTaken ==
  /\ pc = "keystatus" /\ TRUE \in Heard /\ avr.key = job.command
  /\ Goto("reset")
  /\ UNCHANGED <<target, ghosts>>

KeyRefused ==
  /\ pc = "keystatus" /\ TRUE \in Heard /\ avr.key # job.command
  /\ IF job.command = "setup" /\ tries < MaxTries
     THEN TryAgain("key") /\ RequestReset
     ELSE Return(FALSE) /\ UNCHANGED target  \* -13
  /\ UNCHANGED ghosts

KeyUnheard ==
  /\ pc = "keystatus"
  /\ IF job.command = "erase" /\ tries < MaxTries
     THEN TryAgain("key")
     ELSE Return(FALSE)  \* -12
  /\ UNCHANGED <<target, ghosts>>

ResetRequested ==
  /\ pc = "reset"
  /\ RequestReset
  /\ Goto("sysstatus")
  /\ UNCHANGED ghosts

\* The bit of ASI_SYS_STATUS that is looked for: NVMPROG, LOCKSTATUS or RSTSYS.
Ready ==
  CASE job.command = "setup" -> {Serves}
    [] job.command = "erase" -> {~avr.locked}
    [] OTHER -> BOOLEAN

\* What a command answers that has asked max_retry times.
\* slip: it answers 0 in all of them
GivenUpSlip == TRUE

GivenUp == job.command = "reset"

StatusIsReady ==
  /\ pc = "sysstatus" /\ TRUE \in Heard /\ TRUE \in Ready
  /\ Return(TRUE)
  /\ UNCHANGED <<target, ghosts>>

StatusIsNot ==
  /\ pc = "sysstatus" /\ TRUE \in Heard /\ FALSE \in Ready
  /\ \/ /\ count < MaxRetry - 1
        /\ count' = count + 1
        /\ UNCHANGED <<pc, job, tries, done, updi_ptr, got>>
     \/ count = MaxRetry - 1 /\ job.command = "setup" /\ TryAgain("reset")
     \/ /\ count = MaxRetry - 1 /\ (job.command # "setup" \/ tries = MaxTries)
        /\ Return(GivenUp)
  /\ UNCHANGED <<target, ghosts>>

StatusUnheard ==
  /\ pc = "sysstatus"
  /\ Return(FALSE)
  /\ UNCHANGED <<target, ghosts>>

-----------------------------------------------------------------------------
(***************************************************************************)
(* UPDICheckAddress, UPDIWriteMemory and UPDIReadMemory.                   *)
(***************************************************************************)
\* slip: the flag that has the target advance its pointer is not looked at
CopyPointerSlip(a, increment) == updi_ptr' = a + 1

CopyPointer(a, increment) == updi_ptr' = IF increment THEN a + 1 ELSE a

Arrives == IF ~Serves THEN {FALSE} ELSE IF losses < MaxLosses THEN BOOLEAN ELSE {TRUE}

\* Whether the pointer is where the access needs it, for all that was stored: it is
\* stored only if the copy says it is elsewhere.
PointerArrives(a) == IF updi_ptr = a THEN {TRUE} ELSE Arrives

PointerFor(a, arrives) == IF updi_ptr # a /\ arrives THEN a ELSE avr.ptr

Noted(lost) ==
  /\ unsure' = (unsure \/ lost)
  /\ losses' = IF lost /\ Serves /\ losses < MaxLosses THEN losses + 1 ELSE losses

\* Always with UPDI_MEM_INCREMENT.
WriteMemory(a, v) ==
  \E pointed \in PointerArrives(a), arrives \in Arrives :
    /\ LET q == PointerFor(a, pointed)
       IN avr' = IF arrives THEN [Stored(q, v) EXCEPT !.ptr = Advanced(q)]
                 ELSE [avr EXCEPT !.ptr = q]
    /\ Noted(~pointed \/ ~arrives)
    /\ CopyPointer(a, TRUE)

\* r is -1 of an answer that is not heard.
\* slip: the flag is not passed on to the target
ReadMemorySlip(a, increment, r) ==
  \E pointed \in PointerArrives(a), arrives \in Arrives :
    /\ r \in (IF arrives THEN Loaded(PointerFor(a, pointed)) ELSE {}) \cup {-1}
    /\ avr' = [avr EXCEPT !.ptr = PointerFor(a, pointed)]
    /\ Noted(~pointed)

ReadMemory(a, increment, r) ==
  \E pointed \in PointerArrives(a), arrives \in Arrives :
    /\ LET q == PointerFor(a, pointed)
       IN /\ r \in (IF arrives THEN Loaded(q) ELSE {}) \cup {-1}
          /\ avr' = [avr EXCEPT !.ptr = IF arrives /\ increment THEN Advanced(q) ELSE q]
    /\ Noted(~pointed)

Results == Bytes \cup {Erased, Torn, 0, 1, -1}

-----------------------------------------------------------------------------
(***************************************************************************)
(* UPDIFlash, of one block as the command has it, and UPDIReadMemoryArea.  *)
(***************************************************************************)
LastStore == PageSize + 3

\* What is stored, in order.
\* slip: both bytes of the address are stored in the same place
StoresSlip(n) ==
  CASE n = 0 -> <<ADDR + 1, Address(job.page) % Byte>>
    [] n = 1 -> <<ADDR + 1, Address(job.page) \div Byte>>
    [] n = 2 -> <<CTRLA, 4>>
    [] n = LastStore -> <<CTRLA, 3>>
    [] OTHER -> <<Address(job.page) + n - 3, job.image[n - 3]>>

Stores(n) ==
  CASE n = 0 -> <<ADDR, Address(job.page) % Byte>>
    [] n = 1 -> <<ADDR + 1, Address(job.page) \div Byte>>
    [] n = 2 -> <<CTRLA, 4>>
    [] n = LastStore -> <<CTRLA, 3>>
    [] OTHER -> <<Address(job.page) + n - 3, job.image[n - 3]>>

FlashStore ==
  /\ pc = "flash"
  /\ WriteMemory(Stores(count)[1], Stores(count)[2])
  /\ IF count < LastStore THEN count' = count + 1 /\ UNCHANGED pc
     ELSE count' = 0 /\ pc' = "fbusy"
  /\ UNCHANGED <<flash, job, tries, got, done>>

\* The poll goes on on a bad read and on FBUSY; of anything but the status, which
\* a lost pointer makes it read, either.
PollFlash ==
  /\ pc = "fbusy" /\ count < MaxPolls
  /\ \E r \in Results :
       /\ ReadMemory(STATUS, FALSE, r) /\ CopyPointer(STATUS, FALSE)
       /\ \/ r # 0 /\ count' = count + 1 /\ UNCHANGED pc
          \/ r \notin {1, -1} /\ pc' = "status" /\ UNCHANGED count
  /\ UNCHANGED <<flash, job, tries, got, done>>

\* slip: the poll's last status is not read again
StatusOfSlip(r) == count # MaxPolls \/ r \in {0, 1}

\* r != 0x00 || to == to_max
StatusOf(r) == r = 0 /\ count # MaxPolls

FlashEnds ==
  /\ pc = "status" \/ (pc = "fbusy" /\ count = MaxPolls)
  /\ \E r \in Results : ReadMemory(STATUS, FALSE, r) /\ Return(StatusOf(r))
  /\ UNCHANGED flash

Read ==
  /\ pc = "read" /\ count < PageSize
  /\ \E r \in Results :
       /\ ReadMemory(Address(job.page) + count, TRUE, r)
       /\ IF r = -1 THEN Return(FALSE)
          ELSE /\ CopyPointer(Address(job.page) + count, TRUE)
               /\ got' = Append(got, r) /\ count' = count + 1
               /\ UNCHANGED <<pc, job, tries, done>>
  /\ UNCHANGED flash

ReadEnds ==
  /\ pc = "read" /\ count = PageSize
  /\ Return(TRUE)
  /\ UNCHANGED <<target, ghosts>>

-----------------------------------------------------------------------------
(***************************************************************************)
(* The commands 0x90 to 0x96.                                              *)
(***************************************************************************)
Begin(command, p) ==
  /\ pc = "idle" /\ pc' = p
  /\ \E page \in IF command \in {"flash", "read"} THEN PageNumbers ELSE {0} :
       \E image \in IF command = "flash" THEN Images[page] ELSE {NoJob.image} :
         job' = [command |-> command, page |-> page, image |-> image]
  /\ done' = FALSE /\ unsure' = avr.busy /\ got' = <<>>
  /\ UNCHANGED <<updi_ptr, count, tries, losses>>

PowerOn == avr' = (IF avr.on THEN avr ELSE PowerUp(avr.locked)) /\ UNCHANGED flash

Setup == Begin("setup", "sync") /\ PowerOn
Erase == Begin("erase", "key") /\ UNCHANGED target
Reset == Begin("reset", "reset") /\ UNCHANGED target
Flash == Begin("flash", "flash") /\ UNCHANGED target
ReadArea == Begin("read", "read") /\ UNCHANGED target

UPDIPowerOn == Begin("none", "idle") /\ PowerOn

UPDIPowerOff ==
  /\ Begin("none", "idle")
  /\ avr' = [PowerUp(avr.locked) EXCEPT !.on = FALSE]
  /\ Cut

Programmer ==
  \/ Sync \/ SendKey \/ KeyTaken \/ KeyRefused \/ KeyUnheard
  \/ ResetRequested \/ StatusIsReady \/ StatusIsNot \/ StatusUnheard
  \/ FlashStore \/ PollFlash \/ FlashEnds \/ Read \/ ReadEnds

Host == Setup \/ Erase \/ Reset \/ Flash \/ ReadArea \/ UPDIPowerOn \/ UPDIPowerOff

Next == Programmer \/ Host \/ Enter \/ ChipErased \/ PageWritten

Spec == Init /\ [][Next]_vars /\ WF_vars(Programmer)

-----------------------------------------------------------------------------
(***************************************************************************)
(* Properties.                                                             *)
(***************************************************************************)
Places == {"idle", "sync", "key", "keystatus", "reset", "sysstatus",
           "flash", "fbusy", "status", "read"}
Commands == {"none", "setup", "erase", "reset", "flash", "read"}

\* Every variable has its type.
TypeOK ==
  /\ avr \in Targets
  /\ flash \in [PageNumbers -> [Offsets -> Bytes \cup {Erased, Torn}]]
  /\ pc \in Places
  /\ job \in [command : Commands, page : PageNumbers, image : AllImages]
  /\ updi_ptr \in -1 .. Top /\ count \in Nat /\ tries \in 0 .. MaxTries
  /\ got \in Seq(Bytes \cup {Erased, Torn, 0, 1})
  /\ done \in BOOLEAN /\ unsure \in BOOLEAN /\ losses \in 0 .. MaxLosses

\* The copy of the pointer is right after every mix of accesses that advance the
\* pointer and that do not, as long as nothing stored was lost.
PointerInStep ==
  pc \in {"flash", "fbusy", "status", "read"} /\ updi_ptr # -1 /\ ~unsure => updi_ptr = avr.ptr

\* A UPDIFlash that answers 0 has put the whole page in the flash, however its
\* polls and their answers fell, if nothing it stored was lost.
ReportedIsStored ==
  job.command = "flash" /\ done /\ ~unsure => flash[job.page] = job.image

\* A UPDIReadMemoryArea that answers 0 has read what the flash holds.
ReadIsRight ==
  job.command = "read" /\ done /\ ~unsure =>
    \A o \in Offsets : got[o + 1] = flash[job.page][o]

\* Whatever was lost: after a setup that answers 0 the target is in programming
\* mode, and after an erasure that answers 0 it is unlocked.
AnswersAreTrue ==
  /\ job.command = "setup" /\ done => Serves
  /\ job.command = "erase" /\ done => ~avr.locked

\* Pages change one by one as asked for, or in an erasure, or by a power loss.
OnlyAskedPage ==
  [][\A p \in PageNumbers :
       flash'[p] # flash[p] /\ avr.mode # "erasing" /\ ~unsure => p = job.page]_vars

\* Every command answers, with any of its accesses lost.
EveryCommandAnswers == pc # "idle" ~> pc = "idle"
=============================================================================
