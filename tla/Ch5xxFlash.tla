------------------------------ MODULE Ch5xxFlash ------------------------------
(***************************************************************************)
(* Writing and erasing the flash of a CH5xx, ch5xx.c: the block writes of  *)
(* ch5xx_write_flash (0x20) and ch5xx_write_flash_using_microblob (0x21),  *)
(* their end (0x22), CH5xxErase (0x25), the reads that open and close the  *)
(* flash on their way (0x23, 0x24), and what else moves the core or the    *)
(* programmer's idea of it: 0x01 and 0x0e, 0x05, 0x10 and the power.       *)
(*                                                                         *)
(* Three parties act here: the programmer, the flash, which is busy on its *)
(* own, and the microblob, a program that the programmer leaves running on *)
(* the target's core and that takes the words of a page from DATA0.        *)
(* Between two accesses of the programmer the blob gets to its next poll,  *)
(* of DATA0 or of the flash; a wire is that much slower than a core.       *)
(*                                                                         *)
(* No page has a part in what happens to another, so one page is watched,  *)
(* any one.  A lost read leaves the programmer with what its variable held *)
(* before, which is any value.                                             *)
(*                                                                         *)
(* A definition marked "slip" is a likely mistake in the operator after it *)
(* and is part of no behaviour: with it in the operator's place, TLC finds *)
(* one of the properties violated.                                         *)
(***************************************************************************)
EXTENDS Integers

CONSTANTS
  Chips,      \* "CH570" has sectors of 4 KB and can erase 32 KB, "CH58x" not
  PageSize, SectorSize, HalfSize, BankSize,   \* 256 bytes, 4, 32 and 64 KB
  FlashSize,  \* in the unit of the other sizes
  Watched,    \* the pages one of which is watched
  Written,    \* the pages the host writes
  Ranges,     \* <<first, length>> of what it erases
  MaxPolls    \* how often the end of a page is asked for again (200 in the code)

Pages == 0 .. FlashSize \div PageSize - 1

ASSUME Ch5xxFlashAssumption ==
  /\ Chips \subseteq {"CH570", "CH58x"}
  /\ {PageSize, SectorSize, HalfSize, BankSize, FlashSize, MaxPolls} \subseteq Nat \ {0}
  /\ SectorSize % PageSize = 0 /\ HalfSize % SectorSize = 0
  /\ BankSize % HalfSize = 0 /\ FlashSize % SectorSize = 0
  /\ Watched \cup Written \subseteq Pages
  /\ \A range \in Ranges : /\ range \in Nat \X Nat
                           /\ range[1] < FlashSize /\ range[1] + range[2] <= FlashSize

VARIABLES
  chip,               \* the chip on the wires
  watched,            \* the page that is looked at
  microblob_running,  \* of SWIOState: below -1 no blob, -1 stopped, 0 and on running
  writing_flash,      \* of SWIOState: a 0x20 has opened the flash
  known,              \* whether target_chip_type and sectorsize are the chip's
  core,               \* the core is halted, runs the blob or something else
  loaded,             \* whether the blob is in the target's RAM
  blob,               \* the running microblob
  rom,                \* what R8_GLOB_ROM_CFG lets pass to the flash
  flash,              \* whether the flash is busy, what the watched page holds
                      \*   and what it will hold then
  cmd,                \* the command in progress, or the last one
  told,               \* ghost: what the host may believe of the watched page
  good                \* ghost: since its state was last voided with the core
                      \*   halted, the host kept to Orderly and every flash
                      \*   command was heard and answered 0

session == <<microblob_running, writing_flash, known>>
target == <<core, loaded, blob, rom>>
vars == <<chip, watched, session, target, flash, cmd, told, good>>

-----------------------------------------------------------------------------
(***************************************************************************)
(* The flash and the pages of it that a command is about.                  *)
(***************************************************************************)
\* What the host asks a page to hold is its image.
Contents == {"other", "erased", "image"}

\* The watched page lies in the units from first up to before end.
Inside(first, end) == first <= watched * PageSize /\ (watched + 1) * PageSize <= end
Touches(first, end) == first < (watched + 1) * PageSize /\ watched * PageSize < end

Down(a, size) == a - (a % size)
Up(a, size) == Down(a + size - 1, size)

\* A command reaches the flash: busy, or with the flash closed, it takes none.
Listens == rom = "open" /\ ~flash.busy

Start(result) == flash' = IF Listens THEN [flash EXCEPT !.busy = TRUE, !.result = result] ELSE flash

\* Programming adds zeros to what is there.
Programmed(data) ==
  IF data = "image" /\ flash.page # "other" THEN "image" ELSE "other"

Program(page, data) == Start(IF page = watched THEN Programmed(data) ELSE flash.page)

FlashDone ==
  /\ flash.busy
  /\ flash' = [flash EXCEPT !.busy = FALSE, !.page = flash.result]
  /\ UNCHANGED <<chip, watched, session, target, cmd, told, good>>

-----------------------------------------------------------------------------
(***************************************************************************)
(* The microblob: it sends the head of a page program, clears DATA0, takes *)
(* a page of words, each time clearing DATA0, then puts the address of the *)
(* next page into DATA0 until the flash has finished.                      *)
(***************************************************************************)
Fresh(page) == [page |-> page, at |-> "word", clean |-> TRUE]

\* The blob's page is full: it was fed the words of page p.
PageFull(p) ==
  /\ Program(blob.page, IF p = blob.page /\ blob.clean THEN "image" ELSE "other")
  /\ blob' = [blob EXCEPT !.page = IF @ \in Pages THEN @ + 1 ELSE @, !.at = "flash"]

BlobDone ==
  /\ core = "blob" /\ blob.at = "flash" /\ ~flash.busy
  /\ blob' = [blob EXCEPT !.at = "word"]
  /\ UNCHANGED <<chip, watched, session, core, loaded, rom, flash, cmd, told, good>>

\* A blob that took what was not meant for it fills its pages with that.
BlobStrays ==
  /\ core = "blob" /\ ~blob.clean /\ blob.at = "word" /\ cmd.pc # "idle"
  /\ PageFull(FlashSize)
  /\ UNCHANGED <<chip, watched, session, core, loaded, rom, cmd, told, good>>

\* It waits for words: DATA0 is 0, the last page is in the flash.
Taken == core = "blob" /\ blob.at = "word"

\* Accesses that are not meant for the running blob write to DATA0 too.
Disturb ==
  IF core = "blob" THEN blob' = [blob EXCEPT !.clean = FALSE] /\ told' = "nothing"
  ELSE UNCHANGED <<blob, told>>

\* The core is halted: what is in the blob's page goes into the flash when its
\* program command ends.
Halt ==
  /\ core' = "halted" /\ blob' = Fresh(0)
  /\ IF core = "blob" /\ ~blob.clean THEN Program(blob.page, "other") ELSE UNCHANGED flash

-----------------------------------------------------------------------------
(***************************************************************************)
(* The commands.  may and whole are about what the host asks for: the      *)
(* command may touch the watched page, and is to do so with all of it (for *)
(* a write: after the page was erased).                                    *)
(***************************************************************************)
NoCommand == [op |-> "none", pc |-> "idle", page |-> 0, chunk |-> 0, left |-> 0,
              eeprom |-> FALSE, polls |-> 0, may |-> FALSE, whole |-> FALSE]

Places == {"idle", "write_open", "words", "write_wait", "init", "feed", "poll",
           "erase_open", "chunk", "erase_wait"}

\* At power-up of the programmer its state is zero: the blob counts as running.
Init ==
  /\ chip \in Chips /\ watched \in Watched
  /\ microblob_running = 0 /\ writing_flash = 0 /\ known = FALSE
  /\ core = "other" /\ loaded = FALSE /\ blob = Fresh(0) /\ rom = "closed"
  /\ flash = [busy |-> FALSE, page |-> "other", result |-> "other"]
  /\ cmd = NoCommand /\ told = "nothing" /\ good = FALSE

Idle == cmd.pc = "idle"

\* What the host has to keep to.  It identifies the chip first; while the blob
\* runs it sends the pages in order; and before it erases or reads, and after
\* the blob, it ends the writing.
Orderly(c) ==
  /\ known
  /\ core = "blob" => c.op = "blob" /\ c.page = blob.page
  /\ writing_flash = 1 => c.op \in {"write", "blob"}

Begin(c) ==
  /\ Idle
  /\ good' = (good /\ Orderly(c))
  /\ cmd' = IF good' THEN c ELSE [c EXCEPT !.may = FALSE, !.whole = FALSE]
  /\ IF core = "blob" /\ c.op # "blob" THEN Disturb
     ELSE told' = (IF c.may \/ ~Orderly(c) THEN "nothing" ELSE told) /\ UNCHANGED blob
  /\ UNCHANGED <<chip, watched, session, core, loaded, rom, flash>>

Goto(pc) == cmd' = [cmd EXCEPT !.pc = pc]

\* The answer, 0 or not.
Answer(r) ==
  /\ cmd' = NoCommand
  /\ told' = IF r = 0 /\ good' /\ cmd.whole
             THEN IF cmd.op = "erase" THEN "erased" ELSE "image"
             ELSE told

Heard == good' = good
Missed == good' = FALSE

\* ch5xx_flash_open(mode): with the read of R8_GLOB_ROM_CFG lost, it may take
\* the flash for open.  A core that runs executes nothing for the programmer.
Opened(mode) == IF core = "halted" THEN mode ELSE rom
Open(mode) == (Heard /\ rom' = Opened(mode)) \/ (Missed /\ rom' = rom)

Closed == Opened("closed")

WaitedNot == Heard                                                            \* slip

\* ch5xx_flash_wait ends when the flash is idle; otherwise when a read is lost,
\* which it takes for idle, or after half a million polls.
Waited == (~flash.busy /\ Heard) \/ (flash.busy /\ Missed)

-----------------------------------------------------------------------------
(***************************************************************************)
(* 0x20: ch5xx_write_flash.                                                *)
(***************************************************************************)
WriteFlash ==
  \E p \in Written : Begin([NoCommand EXCEPT !.op = "write", !.pc = "write_open", !.page = p,
                                           !.may = p = watched, !.whole = p = watched /\ flash.page # "other"])

WriteOpen ==
  /\ cmd.pc = "write_open" /\ Goto("words")
  /\ IF writing_flash = 0 THEN Open("open") ELSE Heard /\ UNCHANGED rom
  /\ writing_flash' = 1
  /\ UNCHANGED <<chip, watched, microblob_running, known, core, loaded, blob, flash, told>>

WriteWords ==
  /\ cmd.pc = "words"
  /\ \/ core = "halted" /\ Program(cmd.page, "image") /\ Goto("write_wait") /\ Heard /\ UNCHANGED told
     \/ core = "halted" /\ Program(cmd.page, "other") /\ Missed /\ Answer(-1)
     \/ core # "halted" /\ UNCHANGED flash /\ Missed /\ Answer(-1)
  /\ UNCHANGED <<chip, watched, session, target>>

\* What the wait comes to is not looked at.
WriteWait ==
  /\ cmd.pc = "write_wait" /\ Waited /\ Answer(0)
  /\ UNCHANGED <<chip, watched, session, target, flash>>

-----------------------------------------------------------------------------
(***************************************************************************)
(* 0x21: ch5xx_write_flash_using_microblob.                                *)
(***************************************************************************)
WriteFlashUsingMicroblob ==
  \E p \in Written : Begin([NoCommand EXCEPT !.op = "blob", !.pc = "init", !.page = p,
                                           !.may = p = watched, !.whole = p = watched /\ flash.page # "other"])

\* The blob is put into the RAM only when there is none, not when it was stopped.
Load == loaded' = (loaded \/ (core = "halted" /\ microblob_running < -1))

MicroblobInit ==
  /\ Load
  /\ Open("open")
  /\ microblob_running' = 0
  /\ IF core = "halted"
     THEN core' = (IF loaded' THEN "blob" ELSE "other") /\ blob' = Fresh(cmd.page) /\ UNCHANGED told
     ELSE UNCHANGED core /\ Disturb

BeginMicroblob ==
  /\ cmd.pc = "init" /\ Goto("feed")
  /\ IF microblob_running < 0 THEN MicroblobInit
     ELSE Heard /\ UNCHANGED <<microblob_running, target, told>>
  /\ UNCHANGED <<chip, watched, writing_flash, known, flash>>

\* The words of the page; they are not all zero.  A blob that is still busy
\* with the last page loses some of them.
Feed ==
  /\ cmd.pc = "feed" /\ Goto("poll")
  /\ IF Taken THEN PageFull(cmd.page) /\ UNCHANGED told ELSE Disturb /\ UNCHANGED flash
  /\ UNCHANGED <<chip, watched, session, core, loaded, rom, good>>

\* A read that is lost may seem either.
Poll ==
  /\ cmd.pc = "poll"
  /\ \E empty \in BOOLEAN :
       LET again == ~empty /\ cmd.polls < MaxPolls
       IN /\ good' = (good /\ empty = Taken /\ (empty \/ again))
          /\ IF again THEN cmd' = [cmd EXCEPT !.polls = @ + 1] /\ UNCHANGED told
             ELSE Answer(IF empty THEN 0 ELSE -2)
  /\ UNCHANGED <<chip, watched, session, target, flash>>

-----------------------------------------------------------------------------
(***************************************************************************)
(* 0x22 ends both ways of writing.  It answers nothing.                    *)
(***************************************************************************)
\* slip
EndStillWriting ==
  /\ Idle
  /\ microblob_running' = IF microblob_running > -1 THEN -1 ELSE microblob_running
  /\ UNCHANGED writing_flash
  /\ IF microblob_running > -1 THEN Halt ELSE UNCHANGED <<core, blob, flash>>
  /\ rom' = IF microblob_running > -1 \/ (writing_flash > 0 /\ core = "halted") THEN "closed" ELSE rom
  /\ UNCHANGED <<chip, watched, known, loaded, cmd, told, good>>

End ==
  /\ Idle
  /\ microblob_running' = IF microblob_running > -1 THEN -1 ELSE microblob_running
  /\ writing_flash' = 0
  /\ IF microblob_running > -1 THEN Halt ELSE UNCHANGED <<core, blob, flash>>
  /\ rom' = IF microblob_running > -1 \/ (writing_flash > 0 /\ core = "halted") THEN "closed" ELSE rom
  /\ UNCHANGED <<chip, watched, known, loaded, cmd, told, good>>

-----------------------------------------------------------------------------
(***************************************************************************)
(* 0x25: CH5xxErase.                                                       *)
(***************************************************************************)
Sectorsize == IF chip = "CH570" THEN SectorSize ELSE PageSize

\* An unknown chip counts as one with sectors of 64 bytes.
Erase ==
  \E range \in Ranges, eeprom \in BOOLEAN :
    LET first == range[1]
        end   == range[1] + range[2]
    IN Begin([NoCommand EXCEPT
         !.op = "erase", !.pc = "erase_open", !.eeprom = eeprom,
         !.chunk = IF known THEN Down(first, Sectorsize) ELSE first, !.left = range[2],
         !.may = range[2] > 0 /\ Touches(Down(first, Sectorsize), Up(end, Sectorsize)),
         !.whole = first % Sectorsize = 0 /\ Inside(first, end)])

EraseOpen ==
  /\ cmd.pc = "erase_open" /\ Open("open") /\ Goto("chunk")
  /\ UNCHANGED <<chip, watched, session, core, loaded, blob, flash, told>>

FitsAnyway(size) == cmd.chunk % size = 0                                      \* slip

\* The largest chunk that starts here and is asked for, or the smallest there is.
Fits(size) == cmd.chunk % size = 0 /\ cmd.left >= size

ChunkSize ==
  CASE Fits(BankSize) -> BankSize
    [] ~Fits(BankSize) /\ known /\ chip = "CH570" /\ Fits(HalfSize) -> HalfSize
    [] OTHER -> IF Fits(SectorSize) \/ ~((known /\ Sectorsize = PageSize) \/ cmd.eeprom)
                THEN SectorSize ELSE PageSize

LeftUnchecked == cmd.left - ChunkSize                                         \* slip

Left == IF cmd.left < ChunkSize THEN 0 ELSE cmd.left - ChunkSize

EraseChunk ==
  /\ cmd.pc = "chunk" /\ cmd.left > 0
  /\ core = "halted"
  /\ Start(IF Touches(Down(cmd.chunk, ChunkSize), Down(cmd.chunk, ChunkSize) + ChunkSize)
           THEN "erased" ELSE flash.page)
  /\ cmd' = [cmd EXCEPT !.pc = "erase_wait", !.chunk = @ + ChunkSize,
                        !.left = Left]
  /\ UNCHANGED <<chip, watched, session, target, told, good>>

EraseWait ==
  /\ cmd.pc = "erase_wait"
  /\ \/ Waited /\ Goto("chunk") /\ UNCHANGED told
     \/ flash.busy /\ Missed /\ Answer(-1)
  /\ UNCHANGED <<chip, watched, session, target, flash>>

\* A core that runs executes none of it, and every wait takes that for idle.
EraseEnd ==
  /\ cmd.pc = "chunk" /\ (cmd.left = 0 \/ core # "halted")
  /\ rom' = Closed /\ Heard /\ Answer(0)
  /\ UNCHANGED <<chip, watched, session, core, loaded, blob, flash>>

-----------------------------------------------------------------------------
(***************************************************************************)
(* 0x23 and 0x24 read through the flash controller and change nothing in   *)
(* the flash, but they open it for reading and close it.  Both may stop    *)
(* before they close it, 0x23 on a CH570 always does.                      *)
(***************************************************************************)
Read(c) ==
  /\ Idle
  /\ good' = (good /\ Orderly(c))
  /\ told' = IF core = "blob" THEN "nothing" ELSE told
  /\ UNCHANGED <<chip, watched, microblob_running, writing_flash, loaded, cmd>>

ReadEeprom ==
  /\ Read([NoCommand EXCEPT !.op = "eeprom"])
  /\ rom' \in {rom, Opened("read")} \cup (IF known /\ chip = "CH570" THEN {} ELSE {Closed})
  /\ blob' = [blob EXCEPT !.clean = @ /\ core # "blob"]
  /\ UNCHANGED <<known, core, flash>>

\* It identifies the chip first, if need be, which halts the core.
ReadOptions ==
  /\ Read([NoCommand EXCEPT !.op = "options"])
  /\ known' = TRUE
  /\ IF known THEN blob' = [blob EXCEPT !.clean = @ /\ core # "blob"] /\ UNCHANGED <<core, flash>>
     ELSE Halt
  /\ rom' \in IF core' = "halted" THEN {"read", "closed", rom} ELSE {rom}

-----------------------------------------------------------------------------
(***************************************************************************)
(* What else moves the core, or what the programmer knows of it.           *)
(***************************************************************************)
\* 0x01, 0x0e: "don't halt the part".
Attach ==
  /\ Idle /\ known' = FALSE
  /\ UNCHANGED <<chip, watched, microblob_running, writing_flash, target, flash, cmd, told, good>>

\* 0x10 halts the core to find out what it is.
Identify ==
  /\ Idle /\ known' = TRUE
  /\ Halt
  /\ good' = (good /\ core = "halted")
  /\ UNCHANGED <<chip, watched, microblob_running, writing_flash, loaded, rom, cmd, told>>

\* 0x05 forgets the blob and the open flash, whatever the target does.
ResetInternalProgrammingState ==
  /\ Idle
  /\ microblob_running' = -2 /\ writing_flash' = 0
  /\ good' = (core = "halted" /\ ~flash.busy)
  /\ told' = IF core = "blob" THEN "nothing" ELSE told
  /\ UNCHANGED <<chip, watched, known, target, flash, cmd>>

\* Commands 0x02 and 0x03, or a supply that fails: nothing tells the state.
PowerCycle ==
  /\ core' = "other" /\ loaded' = FALSE /\ blob' = Fresh(0) /\ rom' = "closed"
  /\ LET page == IF flash.busy /\ flash.result # flash.page THEN "other" ELSE flash.page
     IN flash' = [busy |-> FALSE, page |-> page, result |-> page]
  /\ told' = IF flash'.page # flash.page THEN "nothing" ELSE told
  /\ good' = FALSE
  /\ UNCHANGED <<chip, watched, session, cmd>>

-----------------------------------------------------------------------------
Commands == WriteFlash \/ WriteFlashUsingMicroblob \/ End \/ Erase \/ ReadEeprom \/ ReadOptions
            \/ Attach \/ Identify \/ ResetInternalProgrammingState

Steps == WriteOpen \/ WriteWords \/ WriteWait \/ BeginMicroblob \/ Feed \/ Poll
         \/ EraseOpen \/ EraseChunk \/ EraseWait \/ EraseEnd

Next == Commands \/ Steps \/ FlashDone \/ BlobDone \/ BlobStrays \/ PowerCycle

Spec == Init /\ [][Next]_vars

-----------------------------------------------------------------------------
(***************************************************************************)
(* Properties.                                                             *)
(***************************************************************************)
\* Every variable keeps its type: above all, what is left to erase never
\* passes zero, where the unsigned count would begin again from the top.
TypeOK ==
  /\ chip \in Chips /\ watched \in Pages
  /\ microblob_running \in {-2, -1, 0} /\ writing_flash \in {0, 1} /\ known \in BOOLEAN
  /\ core \in {"halted", "blob", "other"} /\ loaded \in BOOLEAN
  /\ blob \in [page : Nat, at : {"word", "flash"}, clean : BOOLEAN]
  /\ rom \in {"closed", "read", "open"}
  /\ flash \in [busy : BOOLEAN, page : Contents, result : Contents]
  /\ cmd \in [op : {"none", "write", "blob", "erase"}, pc : Places, page : Pages,
               chunk : Nat, left : Nat, eeprom : BOOLEAN, polls : 0 .. MaxPolls,
               may : BOOLEAN, whole : BOOLEAN]
  /\ told \in {"nothing", "erased", "image"} /\ good \in BOOLEAN

\* What microblob_running and writing_flash say is so.
Settled ==
  /\ core \in {"halted", "blob"} /\ ~flash.busy
  /\ (core = "blob") = (microblob_running > -1)
  /\ core = "blob" => blob.clean /\ blob.at = "word" /\ rom = "open"
  /\ microblob_running = -1 => loaded
  /\ writing_flash = 1 => rom = "open"

\* While the host keeps to Orderly and every command is heard and answers 0,
\* the programmer's idea of the target is right between any two of them: the
\* blob is where it believes it to be, what is open is open, nothing is still
\* being written.  (The clean-up of one command is what the next relies on:
\* microblob_init loads no blob after microblob_end, write_flash opens nothing
\* when writing_flash is set, and neither asks the target.)
SettledWhileGood == good /\ Idle => Settled

\* A page that a good command reported as written or erased is so, and stays
\* so whatever later commands do to other pages: blocks written by program
\* buffer and by blob in any order, erased in chunks of any size.
ReportedIsThere == told # "nothing" /\ ~flash.busy => flash.page = told

\* A good command changes nothing in a page that was not asked for: no chunk
\* reaches beyond the sectors the range lies in, and no block goes to the
\* page after the one meant.
OnlyAsked == [][flash'.page # flash.page => ~good \/ cmd.may]_vars
=============================================================================
