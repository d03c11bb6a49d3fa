-------------------------- MODULE Ch5xxFlash_proofs --------------------------
(***************************************************************************)
(* Type correctness of the CH5xx flash sequences; that the programmer's    *)
(* idea of the target is right between the commands of a good session; and *)
(* that a page holds what was reported of it, and that one that was not    *)
(* asked for is left alone; for every size of page, sector and flash,      *)
(* every range and every poll limit.                                       *)
(***************************************************************************)
EXTENDS Ch5xxFlash, TLAPS

-----------------------------------------------------------------------------
(***************************************************************************)
(* The inductive invariant.  SettledWhileGood speaks of idle moments only; *)
(* Agreed and InPlace say how much of it holds within each command.        *)
(***************************************************************************)
TargetType ==
  /\ chip \in Chips /\ watched \in Pages
  /\ core \in {"halted", "blob", "other"} /\ loaded \in BOOLEAN
  /\ blob \in [page : Nat, at : {"word", "flash"}, clean : BOOLEAN]
  /\ rom \in {"closed", "read", "open"}
  /\ flash \in [busy : BOOLEAN, page : Contents, result : Contents]

SessionType ==
  /\ microblob_running \in {-2, -1, 0} /\ writing_flash \in {0, 1} /\ known \in BOOLEAN
  /\ told \in {"nothing", "erased", "image"} /\ good \in BOOLEAN

CommandRecords ==
  [op : {"none", "write", "blob", "erase"}, pc : Places, page : Pages,
   chunk : Nat, left : Nat, eeprom : BOOLEAN, polls : 0 .. MaxPolls,
   may : BOOLEAN, whole : BOOLEAN]

CommandType == cmd \in CommandRecords

Typed == TargetType /\ SessionType /\ CommandType

\* A running blob was loaded, whatever the programmer believes.
BlobIsLoaded == core = "blob" => loaded

\* What the programmer remembers is so, in the middle of a command as well.
Agreed ==
  good => /\ core \in {"halted", "blob"}
          /\ core = "blob" <=> microblob_running > -1
          /\ core = "blob" => /\ blob.clean /\ rom = "open"
                              /\ blob.at = "word" => ~flash.busy
          /\ microblob_running = -1 => loaded
          /\ writing_flash = 1 => rom = "open"

\* Which command may find, or leave, what.
InPlace ==
  good => /\ flash.busy => cmd.pc \in {"write_wait", "poll", "erase_wait"}
          /\ core = "blob" /\ blob.at # "word" => cmd.pc = "poll"
          /\ cmd.pc \in {"write_open", "words", "write_wait"} => core = "halted"
          /\ cmd.pc \in {"feed", "poll"} => core = "blob"
          /\ cmd.pc \in {"erase_open", "chunk", "erase_wait"} =>
               core = "halted" /\ writing_flash = 0

Trusted == BlobIsLoaded /\ Agreed /\ InPlace

IInv == Typed /\ Trusted

LEMMA InvariantImplies ==
  IInv => TypeOK /\ SettledWhileGood
<1> SUFFICES ASSUME IInv
             PROVE  TypeOK /\ SettledWhileGood
  OBVIOUS
<1>1. TypeOK
  BY DEF IInv, Typed, TargetType, SessionType, CommandType, CommandRecords, TypeOK
<1>2. ASSUME good, Idle PROVE Settled
  BY <1>2 DEF IInv, Typed, TargetType, Trusted, Agreed, InPlace, Idle, Settled
<1> QED
  BY <1>1, <1>2 DEF SettledWhileGood

-----------------------------------------------------------------------------
(***************************************************************************)
(* Sizes, pages and the flash.                                             *)
(***************************************************************************)
\* The flash has a first page, and pages are numbers.
LEMMA PageNumbers ==
  ASSUME watched \in Pages
  PROVE  0 \in Pages /\ Pages \subseteq Nat
<1>1. FlashSize \div PageSize \in Int
  BY Ch5xxFlashAssumption
<1> QED
  BY <1>1 DEF Pages

\* Rounded down, an address is an address.
LEMMA DownType ==
  ASSUME NEW a \in Nat, NEW size \in Nat \ {0}
  PROVE  Down(a, size) \in Nat
<1>1. a % size \in Nat /\ a % size <= a
  OBVIOUS
<1> QED
  BY <1>1 DEF Down

LEMMA SectorsizeType == Sectorsize \in Nat \ {0}
BY Ch5xxFlashAssumption DEF Sectorsize

LEMMA ChunkSizeType == ChunkSize \in Nat
BY Ch5xxFlashAssumption DEF ChunkSize

FlashType == flash \in [busy : BOOLEAN, page : Contents, result : Contents]

\* A command leaves the flash a flash.
LEMMA StartType ==
  ASSUME FlashType, NEW result \in Contents, Start(result)
  PROVE  FlashType'
BY DEF FlashType, Start

LEMMA ProgramType ==
  ASSUME FlashType, NEW page, NEW data, Program(page, data)
  PROVE  FlashType'
<1>1. Programmed(data) \in Contents /\ flash.page \in Contents
  BY DEF Programmed, Contents, FlashType
<1> QED
  BY <1>1, StartType DEF Program

BlobType == blob \in [page : Nat, at : {"word", "flash"}, clean : BOOLEAN]

\* A blob begins at the page it was given.
LEMMA FreshType ==
  ASSUME NEW page \in Nat
  PROVE  /\ Fresh(page) \in [page : Nat, at : {"word", "flash"}, clean : BOOLEAN]
         /\ Fresh(page).clean /\ Fresh(page).at = "word"
BY DEF Fresh

\* A full page starts a program command and the blob waits for it.
LEMMA PageFullType ==
  ASSUME FlashType, BlobType, NEW p, PageFull(p)
  PROVE  FlashType' /\ BlobType' /\ blob'.clean = blob.clean /\ blob'.at = "flash"
<1>1. FlashType'
  BY ProgramType DEF PageFull
<1>2. (IF blob.page \in Pages THEN blob.page + 1 ELSE blob.page) \in Nat
  BY DEF BlobType
<1> QED
  BY <1>1, <1>2 DEF PageFull, BlobType

\* Halting the core ends the blob, and leaves the flash alone unless the blob took
\* what was not meant for it.
LEMMA HaltType ==
  ASSUME FlashType, BlobType, Halt
  PROVE  /\ core' = "halted" /\ BlobType' /\ FlashType'
         /\ (core = "blob" => blob.clean) => UNCHANGED flash
<1>1. BlobType'
  BY FreshType DEF Halt, BlobType
<1>2. FlashType'
  BY ProgramType DEF Halt, FlashType
<1> QED
  BY <1>1, <1>2 DEF Halt

\* An access the blob was not meant to see leaves it and the host's belief typed.
LEMMA DisturbType ==
  ASSUME BlobType, told \in {"nothing", "erased", "image"}, Disturb
  PROVE  /\ BlobType' /\ told' \in {"nothing", "erased", "image"}
         /\ core # "blob" => UNCHANGED blob
         /\ blob'.at = blob.at
BY DEF Disturb, BlobType

LEMMA NoCommandType ==
  ASSUME watched \in Pages
  PROVE  NoCommand \in CommandRecords
<1>1. 0 \in Pages /\ 0 \in 0 .. MaxPolls
  BY PageNumbers, Ch5xxFlashAssumption
<1> QED
  BY <1>1 DEF NoCommand, CommandRecords, Places

\* Answering ends the command.
LEMMA AnswerType ==
  ASSUME SessionType, watched \in Pages, NEW r, Answer(r), UNCHANGED watched
  PROVE  CommandType' /\ told' \in {"nothing", "erased", "image"} /\ cmd'.pc = "idle"
<1>1. CommandType' /\ cmd'.pc = "idle"
  <2>1. cmd' = NoCommand /\ NoCommand.pc = "idle"
    BY DEF Answer, NoCommand
  <2> QED
    BY <2>1, NoCommandType DEF CommandType
<1>2. told' \in {"nothing", "erased", "image"}
  BY DEF Answer, SessionType
<1> QED
  BY <1>1, <1>2

LEMMA GotoType ==
  ASSUME CommandType, NEW pc \in Places, Goto(pc)
  PROVE  CommandType' /\ cmd'.pc = pc
BY DEF CommandType, CommandRecords, Goto

-----------------------------------------------------------------------------
(***************************************************************************)
(* The commands begin.                                                     *)
(***************************************************************************)
\* A command is taken as it is, or with less asked of it.
LEMMA BeginType ==
  ASSUME Typed, NEW c \in CommandRecords, Begin(c)
  PROVE  Typed' /\ cmd'.pc = c.pc
<1>1. good' \in BOOLEAN
  BY DEF Begin, Typed, SessionType, Orderly
<1>2. BlobType' /\ told' \in {"nothing", "erased", "image"}
  BY DisturbType DEF Begin, Typed, TargetType, SessionType, BlobType
<1>3. CommandType' /\ cmd'.pc = c.pc
  BY DEF Begin, CommandType, CommandRecords
<1> QED
  BY <1>1, <1>2, <1>3
  DEF Begin, Typed, TargetType, SessionType, BlobType, session, vars

\* A good session begins only what it is in the state for.
LEMMA BeginTrusted ==
  ASSUME IInv, NEW c \in CommandRecords, Begin(c),
         \/ c.op = "write" /\ c.pc = "write_open"
         \/ c.op = "blob" /\ c.pc = "init"
         \/ c.op = "erase" /\ c.pc = "erase_open"
  PROVE  Trusted'
<1>1. cmd'.pc = c.pc
  BY BeginType DEF IInv
<1>2. UNCHANGED <<core, loaded, rom, flash, microblob_running, writing_flash>>
  BY DEF Begin, session
<1>3. BlobIsLoaded'
  BY <1>2 DEF IInv, Trusted, BlobIsLoaded
<1>4. ASSUME good' PROVE Agreed' /\ InPlace'
  <2>1. good /\ Orderly(c) /\ cmd.pc = "idle"
    BY <1>4 DEF Begin, Idle
  <2>2. UNCHANGED blob
    BY <2>1 DEF Begin, Orderly
  <2>3. Agreed'
    BY <1>2, <2>1, <2>2 DEF IInv, Trusted, Agreed
  <2>4. core = "blob" => c.op = "blob"
    BY <2>1 DEF Orderly
  <2>5. writing_flash = 1 => c.op \in {"write", "blob"}
    BY <2>1 DEF Orderly
  <2>6. ~flash.busy /\ (core = "blob" => blob.at = "word") /\ core \in {"halted", "blob"}
    BY <2>1 DEF IInv, Trusted, Agreed, InPlace
  <2>7. writing_flash \in {0, 1}
    BY DEF IInv, Typed, SessionType
  <2>8. InPlace'
    BY <1>1, <1>2, <2>2, <2>4, <2>5, <2>6, <2>7 DEF InPlace
  <2> QED
    BY <2>3, <2>8
<1> QED
  BY <1>3, <1>4 DEF Trusted, Agreed, InPlace

LEMMA WriteFlashKeeps ==
  ASSUME IInv, WriteFlash
  PROVE  IInv'
<1>1. PICK p \in Written :
        Begin([NoCommand EXCEPT !.op = "write", !.pc = "write_open", !.page = p,
                 !.may = p = watched, !.whole = p = watched /\ flash.page # "other"])
  BY DEF WriteFlash
<1> DEFINE c == [NoCommand EXCEPT !.op = "write", !.pc = "write_open", !.page = p,
                   !.may = p = watched, !.whole = p = watched /\ flash.page # "other"]
<1>2. NoCommand \in CommandRecords /\ p \in Pages
  BY NoCommandType, Ch5xxFlashAssumption DEF IInv, Typed, TargetType
<1>3. c \in CommandRecords /\ c.op = "write" /\ c.pc = "write_open"
  BY <1>2 DEF CommandRecords, Places
<1> QED
  BY <1>1, <1>3, BeginType, BeginTrusted DEF IInv

LEMMA WriteFlashUsingMicroblobKeeps ==
  ASSUME IInv, WriteFlashUsingMicroblob
  PROVE  IInv'
<1>1. PICK p \in Written :
        Begin([NoCommand EXCEPT !.op = "blob", !.pc = "init", !.page = p,
                 !.may = p = watched, !.whole = p = watched /\ flash.page # "other"])
  BY DEF WriteFlashUsingMicroblob
<1> DEFINE c == [NoCommand EXCEPT !.op = "blob", !.pc = "init", !.page = p,
                   !.may = p = watched, !.whole = p = watched /\ flash.page # "other"]
<1>2. NoCommand \in CommandRecords /\ p \in Pages
  BY NoCommandType, Ch5xxFlashAssumption DEF IInv, Typed, TargetType
<1>3. c \in CommandRecords /\ c.op = "blob" /\ c.pc = "init"
  BY <1>2 DEF CommandRecords, Places
<1> QED
  BY <1>1, <1>3, BeginType, BeginTrusted DEF IInv

LEMMA EraseKeeps ==
  ASSUME IInv, Erase
  PROVE  IInv'
<1>1. PICK range \in Ranges, eeprom \in BOOLEAN :
        LET first == range[1]
            end   == range[1] + range[2]
        IN Begin([NoCommand EXCEPT
             !.op = "erase", !.pc = "erase_open", !.eeprom = eeprom,
             !.chunk = IF known THEN Down(first, Sectorsize) ELSE first, !.left = range[2],
             !.may = range[2] > 0 /\ Touches(Down(first, Sectorsize), Up(end, Sectorsize)),
             !.whole = first % Sectorsize = 0 /\ Inside(first, end)])
  BY DEF Erase
<1> DEFINE start == IF known THEN Down(range[1], Sectorsize) ELSE range[1]
           may == range[2] > 0 /\ Touches(Down(range[1], Sectorsize), Up(range[1] + range[2], Sectorsize))
           whole == range[1] % Sectorsize = 0 /\ Inside(range[1], range[1] + range[2])
           c == [NoCommand EXCEPT
                  !.op = "erase", !.pc = "erase_open", !.eeprom = eeprom,
                  !.chunk = start, !.left = range[2], !.may = may, !.whole = whole]
<1>2. range[1] \in Nat /\ range[2] \in Nat
  BY Ch5xxFlashAssumption
<1>3. start \in Nat
  BY <1>2, DownType, SectorsizeType
<1>4. may \in BOOLEAN /\ whole \in BOOLEAN
  OBVIOUS
<1>5. NoCommand \in CommandRecords
  BY NoCommandType DEF IInv, Typed, TargetType
<1>6. Begin(c)
  BY <1>1
<1> HIDE DEF start, may, whole
<1>7. c \in CommandRecords /\ c.op = "erase" /\ c.pc = "erase_open"
  BY <1>2, <1>3, <1>4, <1>5 DEF CommandRecords, Places
<1> QED
  BY <1>6, <1>7, BeginType, BeginTrusted DEF IInv

-----------------------------------------------------------------------------
(***************************************************************************)
(* The steps of the block writes.                                          *)
(***************************************************************************)
\* What opens the flash for programming either did, or ends the good session.
LEMMA OpenEffect ==
  ASSUME SessionType, rom \in {"closed", "read", "open"}, Open("open")
  PROVE  /\ rom' \in {"closed", "read", "open"} /\ good' \in BOOLEAN
         /\ good' => good /\ (core = "halted" => rom' = "open") /\ (core # "halted" => rom' = rom)
<1>1. CASE good' = good /\ rom' = Opened("open")
  BY <1>1 DEF Opened, SessionType
<1>2. CASE good' = FALSE /\ rom' = rom
  BY <1>2
<1> QED
  BY <1>1, <1>2 DEF Open, Heard, Missed

\* A wait that is over has left the flash idle, or ends the good session.
LEMMA WaitedEffect ==
  ASSUME SessionType, Waited
  PROVE  good' \in BOOLEAN /\ (good' => good /\ ~flash.busy)
<1>1. CASE ~flash.busy /\ good' = good
  BY <1>1 DEF SessionType
<1>2. CASE good' = FALSE
  BY <1>2
<1> QED
  BY <1>1, <1>2 DEF Waited, Heard, Missed

LEMMA WriteOpenKeeps ==
  ASSUME IInv, WriteOpen
  PROVE  IInv'
<1>1. CommandType' /\ cmd'.pc = "words" /\ cmd.pc = "write_open"
  BY GotoType DEF WriteOpen, Places, IInv, Typed
<1>2. /\ rom' \in {"closed", "read", "open"} /\ good' \in BOOLEAN
      /\ good' => good /\ (core = "halted" /\ writing_flash = 0 => rom' = "open")
                       /\ (writing_flash = 1 => rom' = rom) /\ (core # "halted" => rom' = rom)
  BY OpenEffect DEF WriteOpen, Heard, IInv, Typed, TargetType, SessionType
<1>3. Typed'
  BY <1>1, <1>2 DEF WriteOpen, IInv, Typed, TargetType, SessionType
<1>4. Trusted'
  BY <1>1, <1>2
  DEF WriteOpen, IInv, Typed, SessionType, Trusted, BlobIsLoaded, Agreed, InPlace
<1> QED
  BY <1>3, <1>4 DEF IInv

LEMMA WriteWordsKeeps ==
  ASSUME IInv, WriteWords
  PROVE  IInv'
<1>1. UNCHANGED <<chip, watched, microblob_running, writing_flash, known, core, loaded, blob, rom>>
  BY DEF WriteWords, session, target
<1>2. FlashType'
  BY ProgramType DEF WriteWords, IInv, Typed, TargetType, FlashType
<1>3. CommandType' /\ told' \in {"nothing", "erased", "image"}
  <2>1. CASE Goto("write_wait") /\ UNCHANGED told
    BY <2>1, GotoType DEF IInv, Typed, SessionType, Places
  <2>2. CASE Answer(-1)
    BY <2>2, <1>1, AnswerType DEF IInv, Typed, TargetType
  <2> QED
    BY <2>1, <2>2 DEF WriteWords
<1>4. good' \in BOOLEAN /\ (good' => good /\ cmd.pc = "words" /\ cmd'.pc = "write_wait" /\ core = "halted")
  <2>1. CASE core = "halted" /\ Goto("write_wait") /\ good' = good
    BY <2>1, GotoType DEF WriteWords, IInv, Typed, SessionType, Places
  <2>2. CASE good' = FALSE
    BY <2>2
  <2> QED
    BY <2>1, <2>2 DEF WriteWords, Heard, Missed
<1>5. Typed'
  BY <1>1, <1>2, <1>3, <1>4 DEF IInv, Typed, TargetType, SessionType, FlashType
<1>6. Trusted'
  BY <1>1, <1>4 DEF IInv, Trusted, BlobIsLoaded, Agreed, InPlace
<1> QED
  BY <1>5, <1>6 DEF IInv

LEMMA WriteWaitKeeps ==
  ASSUME IInv, WriteWait
  PROVE  IInv'
<1>1. UNCHANGED <<chip, watched, microblob_running, writing_flash, known, core, loaded, blob, rom, flash>>
  BY DEF WriteWait, session, target
<1>2. CommandType' /\ told' \in {"nothing", "erased", "image"} /\ cmd'.pc = "idle"
  BY <1>1, AnswerType DEF WriteWait, IInv, Typed, TargetType
<1>3. good' \in BOOLEAN /\ (good' => good /\ ~flash.busy /\ cmd.pc = "write_wait")
  BY WaitedEffect DEF WriteWait, IInv, Typed
<1>4. Typed'
  BY <1>1, <1>2, <1>3 DEF IInv, Typed, TargetType, SessionType
<1>5. Trusted'
  BY <1>1, <1>2, <1>3 DEF IInv, Trusted, BlobIsLoaded, Agreed, InPlace
<1> QED
  BY <1>4, <1>5 DEF IInv

\* The blob is started on a halted core only, loaded now or before.
LEMMA BeginMicroblobKeeps ==
  ASSUME IInv, BeginMicroblob
  PROVE  IInv'
<1>1. CommandType' /\ cmd'.pc = "feed" /\ cmd.pc = "init"
  BY GotoType DEF BeginMicroblob, Places, IInv, Typed
<1>2. UNCHANGED <<chip, watched, writing_flash, known, flash>>
  BY DEF BeginMicroblob
<1>3. CASE microblob_running < 0 /\ core = "halted"
  <2>1. /\ loaded' = (loaded \/ microblob_running < -1) /\ microblob_running' = 0
        /\ core' = (IF loaded' THEN "blob" ELSE "other") /\ blob' = Fresh(cmd.page)
        /\ UNCHANGED told /\ Open("open")
    BY <1>3 DEF BeginMicroblob, MicroblobInit, Load
  <2>2. /\ rom' \in {"closed", "read", "open"} /\ good' \in BOOLEAN
        /\ good' => good /\ rom' = "open"
    BY <2>1, <1>3, OpenEffect DEF IInv, Typed, TargetType
  <2>3. cmd.page \in Nat
    BY PageNumbers DEF IInv, Typed, TargetType, CommandType, CommandRecords
  <2>4. BlobType' /\ blob'.clean /\ blob'.at = "word"
    BY <2>1, <2>3, FreshType DEF BlobType
  <2>5. loaded' \in BOOLEAN
    BY <2>1 DEF IInv, Typed, TargetType
  <2>6. Typed'
    BY <1>1, <1>2, <2>1, <2>2, <2>4, <2>5 DEF IInv, Typed, TargetType, SessionType, BlobType
  <2>7. good' => loaded' /\ ~flash.busy
    <3>1. good' => ~flash.busy /\ (microblob_running = -1 => loaded)
      BY <1>1, <2>2 DEF IInv, Trusted, Agreed, InPlace
    <3>2. microblob_running = -1 \/ microblob_running < -1
      BY <1>3 DEF IInv, Typed, SessionType
    <3> QED
      BY <3>1, <3>2, <2>1
  <2>8. Trusted'
    BY <1>1, <1>2, <2>1, <2>2, <2>4, <2>7 DEF Trusted, BlobIsLoaded, Agreed, InPlace
  <2> QED
    BY <2>6, <2>8 DEF IInv
<1>4. CASE microblob_running < 0 /\ core # "halted"
  <2>1. /\ loaded' = loaded /\ microblob_running' = 0 /\ core' = core
        /\ Open("open") /\ Disturb
    BY <1>4 DEF BeginMicroblob, MicroblobInit, Load, IInv, Typed, TargetType
  <2>2. /\ rom' \in {"closed", "read", "open"} /\ good' \in BOOLEAN /\ (good' => good)
    BY <2>1, OpenEffect DEF IInv, Typed, TargetType
  <2>3. BlobType' /\ told' \in {"nothing", "erased", "image"}
    BY <2>1, DisturbType DEF IInv, Typed, TargetType, SessionType, BlobType
  <2>4. Typed'
    BY <1>1, <1>2, <2>1, <2>2, <2>3 DEF IInv, Typed, TargetType, SessionType, BlobType
  <2>5. ~good
    BY <1>4 DEF IInv, Typed, SessionType, Trusted, Agreed
  <2>6. Trusted'
    BY <2>1, <2>2, <2>5 DEF IInv, Trusted, BlobIsLoaded, Agreed, InPlace
  <2> QED
    BY <2>4, <2>6 DEF IInv
<1>5. CASE ~(microblob_running < 0)
  <2>1. good' = good /\ UNCHANGED <<microblob_running, core, loaded, blob, rom, told>>
    BY <1>5 DEF BeginMicroblob, Heard, target
  <2>2. Typed'
    BY <1>1, <1>2, <2>1 DEF IInv, Typed, TargetType, SessionType
  <2>3. good => core = "blob" /\ ~flash.busy /\ blob.at = "word"
    BY <1>1, <1>5 DEF IInv, Typed, SessionType, Trusted, Agreed, InPlace
  <2>4. Trusted'
    BY <1>1, <1>2, <2>1, <2>3 DEF IInv, Trusted, BlobIsLoaded, Agreed, InPlace
  <2> QED
    BY <2>2, <2>4 DEF IInv
<1> QED
  BY <1>3, <1>4, <1>5

LEMMA FeedKeeps ==
  ASSUME IInv, Feed
  PROVE  IInv'
<1>1. CommandType' /\ cmd'.pc = "poll" /\ cmd.pc = "feed"
  BY GotoType DEF Feed, Places, IInv, Typed
<1>2. UNCHANGED <<chip, watched, microblob_running, writing_flash, known, core, loaded, rom, good>>
  BY DEF Feed, session
<1>3. /\ BlobType' /\ FlashType' /\ told' \in {"nothing", "erased", "image"}
      /\ Taken => blob'.clean = blob.clean /\ blob'.at = "flash"
  BY PageFullType, DisturbType
  DEF Feed, IInv, Typed, TargetType, SessionType, BlobType, FlashType
<1>4. Typed'
  BY <1>1, <1>2, <1>3 DEF IInv, Typed, TargetType, SessionType, BlobType, FlashType
<1>5. good => Taken
  BY <1>1 DEF IInv, Typed, TargetType, Trusted, InPlace, Taken
<1>6. Trusted'
  BY <1>1, <1>2, <1>3, <1>5 DEF IInv, Trusted, BlobIsLoaded, Agreed, InPlace
<1> QED
  BY <1>4, <1>6 DEF IInv

LEMMA PollKeeps ==
  ASSUME IInv, Poll
  PROVE  IInv'
<1>1. UNCHANGED <<chip, watched, microblob_running, writing_flash, known, core, loaded, blob, rom, flash>>
      /\ cmd.pc = "poll"
  BY DEF Poll, session, target
<1>2. PICK empty \in BOOLEAN :
        LET again == ~empty /\ cmd.polls < MaxPolls
        IN /\ good' = (good /\ empty = Taken /\ (empty \/ again))
           /\ IF again THEN cmd' = [cmd EXCEPT !.polls = @ + 1] /\ UNCHANGED told
              ELSE Answer(IF empty THEN 0 ELSE -2)
  BY DEF Poll
<1>3. CASE ~empty /\ cmd.polls < MaxPolls
  <2>1. cmd' = [cmd EXCEPT !.polls = @ + 1] /\ UNCHANGED told /\ good' = (good /\ empty = Taken)
    BY <1>2, <1>3
  <2>2. cmd.polls + 1 \in 0 .. MaxPolls
    BY <1>3, Ch5xxFlashAssumption DEF IInv, Typed, CommandType, CommandRecords
  <2>3. CommandType' /\ cmd'.pc = cmd.pc
    BY <2>1, <2>2 DEF IInv, Typed, CommandType, CommandRecords
  <2>4. good' \in BOOLEAN /\ (good' => good)
    BY <2>1 DEF IInv, Typed, SessionType
  <2>5. Typed'
    BY <1>1, <2>1, <2>3, <2>4 DEF IInv, Typed, TargetType, SessionType
  <2>6. Trusted'
    BY <1>1, <2>3, <2>4 DEF IInv, Trusted, BlobIsLoaded, Agreed, InPlace
  <2> QED
    BY <2>5, <2>6 DEF IInv
<1>4. CASE ~(~empty /\ cmd.polls < MaxPolls)
  <2>1. CommandType' /\ told' \in {"nothing", "erased", "image"} /\ cmd'.pc = "idle"
    BY <1>1, <1>2, <1>4, AnswerType DEF IInv, Typed, TargetType
  <2>2. good' \in BOOLEAN /\ (good' => good /\ Taken)
    BY <1>2, <1>4 DEF IInv, Typed, SessionType
  <2>3. Typed'
    BY <1>1, <2>1, <2>2 DEF IInv, Typed, TargetType, SessionType
  <2>4. Trusted'
    BY <1>1, <2>1, <2>2 DEF IInv, Trusted, BlobIsLoaded, Agreed, InPlace, Taken
  <2> QED
    BY <2>3, <2>4 DEF IInv
<1> QED
  BY <1>3, <1>4

LEMMA EndKeeps ==
  ASSUME IInv, End
  PROVE  IInv'
<1>1. /\ UNCHANGED <<chip, watched, known, loaded, cmd, told, good>> /\ cmd.pc = "idle"
      /\ writing_flash' = 0 /\ microblob_running' \in {-2, -1}
      /\ microblob_running > -1 => microblob_running' = -1
      /\ ~(microblob_running > -1) => microblob_running' = microblob_running
  BY DEF End, Idle, IInv, Typed, SessionType
<1>2. rom' \in {"closed", "read", "open"}
  BY DEF End, IInv, Typed, TargetType
<1>3. CASE microblob_running > -1
  <2>1. core' = "halted" /\ BlobType' /\ FlashType'
        /\ ((core = "blob" => blob.clean) => UNCHANGED flash)
    BY <1>3, HaltType DEF End, IInv, Typed, TargetType, BlobType, FlashType
  <2>2. Typed'
    BY <1>1, <1>2, <2>1 DEF IInv, Typed, TargetType, SessionType, CommandType, BlobType, FlashType
  <2>3. good => core = "blob" /\ loaded /\ ~flash.busy /\ UNCHANGED flash
    BY <1>1, <1>3, <2>1 DEF IInv, Trusted, BlobIsLoaded, Agreed, InPlace
  <2>4. Trusted'
    BY <1>1, <1>3, <2>1, <2>3 DEF Trusted, BlobIsLoaded, Agreed, InPlace
  <2> QED
    BY <2>2, <2>4 DEF IInv
<1>4. CASE ~(microblob_running > -1)
  <2>1. UNCHANGED <<core, blob, flash>>
    BY <1>4 DEF End
  <2>2. Typed'
    BY <1>1, <1>2, <2>1 DEF IInv, Typed, TargetType, SessionType, CommandType
  <2>3. good => core = "halted" /\ ~flash.busy
    BY <1>1, <1>4 DEF IInv, Typed, SessionType, Trusted, Agreed, InPlace
  <2>4. Trusted'
    BY <1>1, <1>4, <2>1, <2>3 DEF IInv, Trusted, BlobIsLoaded, Agreed, InPlace
  <2> QED
    BY <2>2, <2>4 DEF IInv
<1> QED
  BY <1>3, <1>4

-----------------------------------------------------------------------------
(***************************************************************************)
(* The steps of an erasure.                                                *)
(***************************************************************************)
LEMMA EraseOpenKeeps ==
  ASSUME IInv, EraseOpen
  PROVE  IInv'
<1>1. CommandType' /\ cmd'.pc = "chunk" /\ cmd.pc = "erase_open"
  BY GotoType DEF EraseOpen, Places, IInv, Typed
<1>2. UNCHANGED <<chip, watched, microblob_running, writing_flash, known, core, loaded, blob, flash, told>>
  BY DEF EraseOpen, session
<1>3. /\ rom' \in {"closed", "read", "open"} /\ good' \in BOOLEAN
      /\ good' => good /\ (core = "halted" => rom' = "open")
  BY OpenEffect DEF EraseOpen, IInv, Typed, TargetType
<1>4. Typed'
  BY <1>1, <1>2, <1>3 DEF IInv, Typed, TargetType, SessionType
<1>5. Trusted'
  BY <1>1, <1>2, <1>3 DEF IInv, Trusted, BlobIsLoaded, Agreed, InPlace
<1> QED
  BY <1>4, <1>5 DEF IInv

LEMMA EraseChunkKeeps ==
  ASSUME IInv, EraseChunk
  PROVE  IInv'
<1>1. UNCHANGED <<chip, watched, microblob_running, writing_flash, known, core, loaded, blob, rom, told, good>>
      /\ cmd.pc = "chunk" /\ cmd' = [cmd EXCEPT !.pc = "erase_wait", !.chunk = @ + ChunkSize, !.left = Left]
  BY DEF EraseChunk, session, target
<1>2. cmd.chunk + ChunkSize \in Nat
  BY ChunkSizeType DEF IInv, Typed, CommandType, CommandRecords
<1>3. Left \in Nat
  BY ChunkSizeType DEF Left, IInv, Typed, CommandType, CommandRecords
<1>4. CommandType' /\ cmd'.pc = "erase_wait"
  BY <1>1, <1>2, <1>3 DEF IInv, Typed, CommandType, CommandRecords, Places
<1>5. FlashType'
  <2>1. flash.page \in Contents /\ "erased" \in Contents
    BY DEF IInv, Typed, TargetType, Contents
  <2>2. PICK result \in Contents : Start(result)
    BY <2>1 DEF EraseChunk
  <2> QED
    BY <2>2, StartType DEF IInv, Typed, TargetType, FlashType
<1>6. Typed'
  BY <1>1, <1>4, <1>5 DEF IInv, Typed, TargetType, SessionType, FlashType
<1>7. Trusted'
  BY <1>1, <1>4 DEF IInv, Trusted, BlobIsLoaded, Agreed, InPlace
<1> QED
  BY <1>6, <1>7 DEF IInv

LEMMA EraseWaitKeeps ==
  ASSUME IInv, EraseWait
  PROVE  IInv'
<1>1. UNCHANGED <<chip, watched, microblob_running, writing_flash, known, core, loaded, blob, rom, flash>>
      /\ cmd.pc = "erase_wait"
  BY DEF EraseWait, session, target
<1>2. CASE Waited /\ Goto("chunk") /\ UNCHANGED told
  <2>1. CommandType' /\ cmd'.pc = "chunk"
    BY <1>2, GotoType DEF IInv, Typed, Places
  <2>2. good' \in BOOLEAN /\ (good' => good /\ ~flash.busy)
    BY <1>2, WaitedEffect DEF IInv, Typed
  <2>3. Typed'
    BY <1>1, <1>2, <2>1, <2>2 DEF IInv, Typed, TargetType, SessionType
  <2>4. Trusted'
    BY <1>1, <2>1, <2>2 DEF IInv, Trusted, BlobIsLoaded, Agreed, InPlace
  <2> QED
    BY <2>3, <2>4 DEF IInv
<1>3. CASE good' = FALSE /\ Answer(-1)
  <2>1. CommandType' /\ told' \in {"nothing", "erased", "image"}
    BY <1>1, <1>3, AnswerType DEF IInv, Typed, TargetType
  <2>2. Typed'
    BY <1>1, <1>3, <2>1 DEF IInv, Typed, TargetType, SessionType
  <2>3. Trusted'
    BY <1>1, <1>3 DEF IInv, Trusted, BlobIsLoaded, Agreed, InPlace
  <2> QED
    BY <2>2, <2>3 DEF IInv
<1> QED
  BY <1>2, <1>3 DEF EraseWait, Missed

LEMMA EraseEndKeeps ==
  ASSUME IInv, EraseEnd
  PROVE  IInv'
<1>1. UNCHANGED <<chip, watched, microblob_running, writing_flash, known, core, loaded, blob, flash, good>>
      /\ cmd.pc = "chunk"
  BY DEF EraseEnd, session, Heard
<1>2. CommandType' /\ told' \in {"nothing", "erased", "image"} /\ cmd'.pc = "idle"
  BY <1>1, AnswerType DEF EraseEnd, IInv, Typed, TargetType
<1>3. rom' \in {"closed", "read", "open"}
  BY DEF EraseEnd, Closed, Opened, IInv, Typed, TargetType
<1>4. Typed'
  BY <1>1, <1>2, <1>3 DEF IInv, Typed, TargetType, SessionType
<1>5. Trusted'
  BY <1>1, <1>2 DEF IInv, Trusted, BlobIsLoaded, Agreed, InPlace
<1> QED
  BY <1>4, <1>5 DEF IInv

-----------------------------------------------------------------------------
(***************************************************************************)
(* The other commands, and what the flash and the blob do.                 *)
(***************************************************************************)
\* A read of a good session finds the core halted and the writing ended.
LEMMA ReadEffect ==
  ASSUME IInv, NEW c, c.op \in {"eeprom", "options"}, Read(c)
  PROVE  /\ UNCHANGED <<chip, watched, microblob_running, writing_flash, loaded, cmd>>
         /\ cmd.pc = "idle"
         /\ good' \in BOOLEAN /\ told' \in {"nothing", "erased", "image"}
         /\ good' => /\ good /\ known /\ core = "halted" /\ ~flash.busy
                     /\ writing_flash = 0
<1>1. good' = (good /\ Orderly(c)) /\ cmd.pc = "idle"
      /\ UNCHANGED <<chip, watched, microblob_running, writing_flash, loaded, cmd>>
  BY DEF Read, Idle
<1>2. good' \in BOOLEAN
  BY <1>1 DEF IInv, Typed, SessionType
<1>3. told' \in {"nothing", "erased", "image"}
  BY DEF Read, IInv, Typed, SessionType
<1>4. ASSUME good' PROVE good /\ known /\ core = "halted" /\ ~flash.busy /\ writing_flash = 0
  <2>1. good /\ Orderly(c)
    BY <1>1, <1>4
  <2>2. known /\ core # "blob" /\ writing_flash # 1
    BY <2>1 DEF Orderly
  <2>3. core \in {"halted", "blob"} /\ ~flash.busy /\ writing_flash \in {0, 1}
    BY <1>1, <2>1 DEF IInv, Typed, SessionType, Trusted, Agreed, InPlace
  <2> QED
    BY <2>1, <2>2, <2>3
<1> QED
  BY <1>1, <1>2, <1>3, <1>4

LEMMA ReadEepromKeeps ==
  ASSUME IInv, ReadEeprom
  PROVE  IInv'
<1> DEFINE c == [NoCommand EXCEPT !.op = "eeprom"]
<1>1. c.op = "eeprom" /\ Read(c)
  BY DEF ReadEeprom, NoCommand
<1> HIDE DEF c
<1>2. /\ UNCHANGED <<chip, watched, microblob_running, writing_flash, loaded, cmd>>
      /\ cmd.pc = "idle"
      /\ good' \in BOOLEAN /\ told' \in {"nothing", "erased", "image"}
      /\ good' => /\ good /\ known /\ core = "halted" /\ ~flash.busy
                  /\ writing_flash = 0
  BY <1>1, ReadEffect
<1>3. UNCHANGED <<known, core, flash>> /\ blob' = [blob EXCEPT !.clean = @ /\ core # "blob"]
  BY DEF ReadEeprom
<1>4. rom' \in {"closed", "read", "open"}
  BY DEF ReadEeprom, Closed, Opened, IInv, Typed, TargetType
<1>5. BlobType'
  <2>1. (blob.clean /\ core # "blob") \in BOOLEAN
    OBVIOUS
  <2> QED
    BY <1>3, <2>1 DEF IInv, Typed, TargetType, BlobType
<1>6. Typed'
  BY <1>2, <1>3, <1>4, <1>5 DEF IInv, Typed, TargetType, SessionType, CommandType, BlobType
<1>7. Trusted'
  BY <1>2, <1>3 DEF IInv, Trusted, BlobIsLoaded, Agreed, InPlace
<1> QED
  BY <1>6, <1>7 DEF IInv

LEMMA ReadOptionsKeeps ==
  ASSUME IInv, ReadOptions
  PROVE  IInv'
<1> DEFINE c == [NoCommand EXCEPT !.op = "options"]
<1>1. c.op = "options" /\ Read(c)
  BY DEF ReadOptions, NoCommand
<1> HIDE DEF c
<1>2. /\ UNCHANGED <<chip, watched, microblob_running, writing_flash, loaded, cmd>>
      /\ cmd.pc = "idle"
      /\ good' \in BOOLEAN /\ told' \in {"nothing", "erased", "image"}
      /\ good' => /\ good /\ known /\ core = "halted" /\ ~flash.busy
                  /\ writing_flash = 0
  BY <1>1, ReadEffect
<1>3. known' = TRUE /\ rom' \in {"closed", "read", "open"}
  BY DEF ReadOptions, IInv, Typed, TargetType
<1>4. CASE known
  <2>1. UNCHANGED <<core, flash>> /\ blob' = [blob EXCEPT !.clean = @ /\ core # "blob"]
    BY <1>4 DEF ReadOptions
  <2>2. BlobType'
    <3>1. (blob.clean /\ core # "blob") \in BOOLEAN
      OBVIOUS
    <3> QED
      BY <2>1, <3>1 DEF IInv, Typed, TargetType, BlobType
  <2>3. Typed'
    BY <1>2, <1>3, <2>1, <2>2 DEF IInv, Typed, TargetType, SessionType, CommandType, BlobType
  <2>4. Trusted'
    BY <1>2, <2>1 DEF IInv, Trusted, BlobIsLoaded, Agreed, InPlace
  <2> QED
    BY <2>3, <2>4 DEF IInv
<1>5. CASE ~known
  <2>1. core' = "halted" /\ BlobType' /\ FlashType'
    BY <1>5, HaltType DEF ReadOptions, IInv, Typed, TargetType, BlobType, FlashType
  <2>2. Typed'
    BY <1>2, <1>3, <2>1 DEF IInv, Typed, TargetType, SessionType, CommandType, BlobType, FlashType
  <2>3. good' = FALSE
    BY <1>2, <1>5
  <2>4. BlobIsLoaded'
    <3>1. core' # "blob"
      BY <2>1
    <3> QED
      BY <3>1 DEF BlobIsLoaded
  <2>5. Agreed' /\ InPlace'
    BY <2>3 DEF Agreed, InPlace
  <2> QED
    BY <2>2, <2>4, <2>5 DEF IInv, Trusted
<1> QED
  BY <1>4, <1>5

LEMMA AttachKeeps ==
  ASSUME IInv, Attach
  PROVE  IInv'
BY DEF Attach, Idle, target, IInv, Typed, TargetType, SessionType, CommandType,
       Trusted, BlobIsLoaded, Agreed, InPlace

LEMMA IdentifyKeeps ==
  ASSUME IInv, Identify
  PROVE  IInv'
<1>1. /\ UNCHANGED <<chip, watched, microblob_running, writing_flash, loaded, rom, cmd, told>>
      /\ cmd.pc = "idle" /\ known' = TRUE /\ good' = (good /\ core = "halted") /\ Halt
  BY DEF Identify, Idle
<1>2. core' = "halted" /\ BlobType' /\ FlashType' /\ (core # "blob" => UNCHANGED flash)
  BY <1>1, HaltType DEF IInv, Typed, TargetType, BlobType, FlashType
<1>3. Typed'
  BY <1>1, <1>2 DEF IInv, Typed, TargetType, SessionType, CommandType, BlobType, FlashType
<1>4. Trusted'
  BY <1>1, <1>2 DEF IInv, Trusted, BlobIsLoaded, Agreed, InPlace
<1> QED
  BY <1>3, <1>4 DEF IInv

LEMMA ResetKeeps ==
  ASSUME IInv, ResetInternalProgrammingState
  PROVE  IInv'
<1>1. /\ UNCHANGED <<chip, watched, known, core, loaded, blob, rom, flash, cmd>>
      /\ cmd.pc = "idle" /\ microblob_running' = -2 /\ writing_flash' = 0
      /\ good' = (core = "halted" /\ ~flash.busy)
  BY DEF ResetInternalProgrammingState, Idle, target
<1>2. told' \in {"nothing", "erased", "image"} /\ good' \in BOOLEAN
  BY <1>1 DEF ResetInternalProgrammingState, IInv, Typed, SessionType
<1>3. Typed'
  BY <1>1, <1>2 DEF IInv, Typed, TargetType, SessionType, CommandType
<1>4. BlobIsLoaded'
  BY <1>1 DEF IInv, Trusted, BlobIsLoaded
<1>5. ASSUME good' PROVE Agreed' /\ InPlace'
  <2>1. core' = "halted" /\ ~flash'.busy
    BY <1>1, <1>5
  <2>2. ~(microblob_running' > -1) /\ microblob_running' # -1 /\ writing_flash' = 0 /\ cmd'.pc = "idle"
    BY <1>1
  <2> QED
    BY <2>1, <2>2 DEF Agreed, InPlace
<1>6. Trusted'
  BY <1>4, <1>5 DEF Trusted, Agreed, InPlace
<1> QED
  BY <1>3, <1>6 DEF IInv

LEMMA PowerCycleKeeps ==
  ASSUME IInv, PowerCycle
  PROVE  IInv'
<1>1. /\ UNCHANGED <<chip, watched, microblob_running, writing_flash, known, cmd>>
      /\ core' = "other" /\ loaded' = FALSE /\ blob' = Fresh(0) /\ rom' = "closed" /\ good' = FALSE
  BY DEF PowerCycle, session
<1>2. PICK page \in Contents : flash' = [busy |-> FALSE, page |-> page, result |-> page]
  BY DEF PowerCycle, IInv, Typed, TargetType, Contents
<1>3. BlobType'
  BY <1>1, FreshType DEF BlobType
<1>4. told' \in {"nothing", "erased", "image"}
  BY DEF PowerCycle, IInv, Typed, SessionType
<1>5. Typed'
  BY <1>1, <1>2, <1>3, <1>4 DEF IInv, Typed, TargetType, SessionType, CommandType, BlobType
<1>6. Trusted'
  BY <1>1 DEF Trusted, BlobIsLoaded, Agreed, InPlace
<1> QED
  BY <1>5, <1>6 DEF IInv

LEMMA FlashDoneKeeps ==
  ASSUME IInv, FlashDone
  PROVE  IInv'
BY DEF FlashDone, session, target, IInv, Typed, TargetType, SessionType, CommandType,
       Trusted, BlobIsLoaded, Agreed, InPlace

LEMMA BlobDoneKeeps ==
  ASSUME IInv, BlobDone
  PROVE  IInv'
BY DEF BlobDone, session, IInv, Typed, TargetType, SessionType, CommandType,
       Trusted, BlobIsLoaded, Agreed, InPlace

LEMMA BlobStraysKeeps ==
  ASSUME IInv, BlobStrays
  PROVE  IInv'
<1>1. /\ UNCHANGED <<chip, watched, microblob_running, writing_flash, known, core, loaded, rom, cmd, told, good>>
      /\ core = "blob" /\ ~blob.clean
  BY DEF BlobStrays, session
<1>2. FlashType' /\ BlobType'
  BY PageFullType DEF BlobStrays, IInv, Typed, TargetType, BlobType, FlashType
<1>3. ~good
  BY <1>1 DEF IInv, Trusted, Agreed
<1>4. Typed'
  BY <1>1, <1>2 DEF IInv, Typed, TargetType, SessionType, CommandType, BlobType, FlashType
<1>5. Trusted'
  BY <1>1, <1>3 DEF IInv, Trusted, BlobIsLoaded, Agreed, InPlace
<1> QED
  BY <1>4, <1>5 DEF IInv

-----------------------------------------------------------------------------
LEMMA InvariantKept ==
  IInv /\ [Next]_vars => IInv'
<1> SUFFICES ASSUME IInv, [Next]_vars
             PROVE  IInv'
  OBVIOUS
<1>1. CASE Commands
  BY <1>1, WriteFlashKeeps, WriteFlashUsingMicroblobKeeps, EndKeeps, EraseKeeps, ReadEepromKeeps,
     ReadOptionsKeeps, AttachKeeps, IdentifyKeeps, ResetKeeps DEF Commands
<1>2. CASE Steps
  BY <1>2, WriteOpenKeeps, WriteWordsKeeps, WriteWaitKeeps, BeginMicroblobKeeps, FeedKeeps,
     PollKeeps, EraseOpenKeeps, EraseChunkKeeps, EraseWaitKeeps, EraseEndKeeps DEF Steps
<1>3. CASE FlashDone \/ BlobDone \/ BlobStrays \/ PowerCycle
  BY <1>3, FlashDoneKeeps, BlobDoneKeeps, BlobStraysKeeps, PowerCycleKeeps
<1>4. CASE UNCHANGED vars
  BY <1>4 DEF vars, session, target, IInv, Typed, TargetType, SessionType, CommandType,
     Trusted, BlobIsLoaded, Agreed, InPlace
<1> QED
  BY <1>1, <1>2, <1>3, <1>4 DEF Next

LEMMA InvariantAtFirst ==
  Init => IInv
<1> SUFFICES ASSUME Init
             PROVE  IInv
  OBVIOUS
<1>1. watched \in Pages
  BY Ch5xxFlashAssumption DEF Init
<1>2. NoCommand \in CommandRecords
  BY <1>1, NoCommandType
<1>3. Fresh(0) \in [page : Nat, at : {"word", "flash"}, clean : BOOLEAN]
  BY FreshType
<1>4. Typed
  BY <1>1, <1>2, <1>3 DEF Init, Typed, TargetType, SessionType, CommandType, Contents
<1> QED
  BY <1>4 DEF Init, IInv, Trusted, BlobIsLoaded, Agreed, InPlace

\* The invariant of the sequences: the variables keep their types, and within
\* each command of a good session the programmer's idea of the target is right.
THEOREM InvariantHolds == Spec => []IInv
<1>1. Init => IInv
  BY InvariantAtFirst
<1>2. IInv /\ [Next]_vars => IInv'
  BY InvariantKept
<1> QED
  BY <1>1, <1>2, PTL DEF Spec

\* Every variable keeps its type: CH5xxErase's count of what is left never passes
\* zero, whatever the range, the sizes and the chip.
THEOREM TypeCorrect == Spec => []TypeOK
<1>1. IInv => TypeOK
  BY InvariantImplies
<1> QED
  BY <1>1, InvariantHolds, PTL

\* Between two commands of a good session, microblob_running and writing_flash
\* say what the target's core and flash do, for any order of block writes by
\* program buffer and by microblob, of erasures, reads and resets.
THEOREM SettledHolds == Spec => []SettledWhileGood
<1>1. IInv => SettledWhileGood
  BY InvariantImplies
<1> QED
  BY <1>1, InvariantHolds, PTL

-----------------------------------------------------------------------------
(***************************************************************************)
(* What the watched page has to fear and to expect from the command in     *)
(* progress.  told outlives good: a session that went wrong may still not  *)
(* change a page it was not about.                                         *)
(***************************************************************************)
ErasePlaces == {"erase_open", "chunk", "erase_wait"}

\* Where the next chunk starts, a chip that was identified has a page, and away
\* from the EEPROM a sector.
Aligned ==
  /\ cmd.chunk % PageSize = 0
  /\ chip = "CH570" /\ ~cmd.eeprom => cmd.chunk % SectorSize = 0

\* The session is good, or was when the page was last reported: the blob takes
\* nothing but the words of the page it was sent, and a chip was identified
\* before it is erased.
Heeded ==
  good \/ told # "nothing" =>
    /\ core = "blob" => blob.clean
    /\ cmd.pc \in {"init", "feed"} /\ core = "blob" => blob.page = cmd.page
    /\ cmd.pc \in ErasePlaces => known /\ Aligned

\* The command is not about the watched page and leaves it alone.
Spared ==
  (good /\ ~cmd.may) \/ told # "nothing" =>
    /\ cmd.pc \in {"write_open", "words", "init", "feed"} => cmd.page # watched
    /\ cmd.pc \in ErasePlaces /\ cmd.left > 0 =>
         ~Touches(cmd.chunk, Up(cmd.chunk + cmd.left, Sectorsize))
    /\ flash.busy => flash.result = flash.page

\* What the watched page holds, once the flash is idle.
Becomes(data) == (IF flash.busy THEN flash.result ELSE flash.page) = data

\* The command is about all of the watched page and is on its way to do so.
Due ==
  good =>
    /\ cmd.pc = "words" => writing_flash = 1
    /\ cmd.pc \in {"chunk", "erase_wait"} => rom = "open"
    /\ cmd.whole =>
         /\ cmd.op = "erase" /\ cmd.pc # "idle" <=> cmd.pc \in ErasePlaces
         /\ cmd.pc \in {"write_open", "words", "init", "feed"} =>
              cmd.page = watched /\ flash.page # "other"
         /\ cmd.pc \in {"write_wait", "poll"} => Becomes("image")
         /\ cmd.pc \in ErasePlaces =>
              \/ Inside(cmd.chunk, cmd.chunk + cmd.left)
              \/ Becomes("erased")

\* The page is what the host was told.
Kept == told # "nothing" => flash.page = told

PageInv == Heeded /\ Spared /\ Due /\ Kept

-----------------------------------------------------------------------------
(***************************************************************************)
(* Multiples of the sizes.                                                 *)
(***************************************************************************)
\* Quotient and remainder.
LEMMA Division ==
  ASSUME NEW a \in Nat, NEW m \in Nat \ {0}
  PROVE  a = (a \div m) * m + (a % m) /\ a % m \in 0 .. m - 1 /\ a \div m \in Nat
  OBVIOUS

\* What leaves no remainder is a multiple,
LEMMA Quotient ==
  ASSUME NEW a \in Nat, NEW m \in Nat \ {0}, a % m = 0
  PROVE  \E k \in Nat : a = k * m
<1> DEFINE k == a \div m
<1>1. a = k * m + (a % m) /\ k \in Nat
  BY Division
<1> HIDE DEF k
<1>2. a = k * m
  BY <1>1
<1> QED
  BY <1>1, <1>2

\* and the other way round.
LEMMA MultipleIs ==
  ASSUME NEW k \in Nat, NEW m \in Nat \ {0}
  PROVE  (k * m) % m = 0
  OBVIOUS

\* Multiples of a size add up to one,
LEMMA SumOfMultiples ==
  ASSUME NEW a \in Nat, NEW b \in Nat, NEW m \in Nat \ {0}, a % m = 0, b % m = 0
  PROVE  (a + b) % m = 0
<1>1. PICK k \in Nat : a = k * m
  BY Quotient
<1>2. PICK l \in Nat : b = l * m
  BY Quotient
<1> DEFINE n == k + l
<1>3. a + b = n * m /\ n \in Nat
  BY <1>1, <1>2
<1> HIDE DEF n
<1> QED
  BY <1>3, MultipleIs

\* a multiple of a multiple is one,
LEMMA MultipleOfMultiple ==
  ASSUME NEW a \in Nat, NEW m \in Nat \ {0}, NEW n \in Nat \ {0}, a % m = 0, m % n = 0
  PROVE  a % n = 0
<1>1. PICK k \in Nat : a = k * m
  BY Quotient
<1>2. PICK l \in Nat : m = l * n
  BY Quotient
<1> DEFINE j == k * l
<1>3. a = j * n /\ j \in Nat
  BY <1>1, <1>2
<1> HIDE DEF j
<1> QED
  BY <1>3, MultipleIs

\* and between two of them lies at least the size.
LEMMA NextMultiple ==
  ASSUME NEW a \in Nat, NEW b \in Nat, NEW m \in Nat \ {0}, a % m = 0, b % m = 0, a < b
  PROVE  a + m <= b
<1>1. PICK k \in Nat : a = k * m
  BY Quotient
<1>2. PICK l \in Nat : b = l * m
  BY Quotient
<1>3. k < l
  BY <1>1, <1>2
<1>4. (k + 1) * m <= l * m
  BY <1>3
<1> QED
  BY <1>1, <1>2, <1>4

\* Down is the last multiple of the size that is not above,
LEMMA DownIs ==
  ASSUME NEW a \in Nat, NEW m \in Nat \ {0}
  PROVE  /\ Down(a, m) \in Nat /\ Down(a, m) <= a /\ a < Down(a, m) + m
         /\ Down(a, m) % m = 0
         /\ a % m = 0 => Down(a, m) = a
<1> DEFINE k == a \div m
           r == a % m
<1>0. a = k * m + r /\ r \in 0 .. m - 1 /\ k \in Nat
  BY Division
<1>1. Down(a, m) = a - r
  BY DEF Down
<1> HIDE DEF k, r
<1>4. Down(a, m) = k * m
  BY <1>0, <1>1
<1>2. Down(a, m) \in Nat /\ Down(a, m) <= a /\ a < Down(a, m) + m
  BY <1>0, <1>1
<1>3. Down(a, m) % m = 0
  BY <1>0, <1>4, MultipleIs
<1>5. a % m = 0 => Down(a, m) = a
  BY <1>1 DEF r
<1> QED
  BY <1>2, <1>3, <1>5

\* and Up the first that is not below.
LEMMA UpIs ==
  ASSUME NEW a \in Nat, NEW m \in Nat \ {0}
  PROVE  /\ Up(a, m) \in Nat /\ a <= Up(a, m) /\ Up(a, m) < a + m
         /\ Up(a, m) % m = 0
<1> DEFINE b == a + m - 1
<1>1. b \in Nat /\ b = a + m - 1
  OBVIOUS
<1>2. Up(a, m) = Down(b, m)
  BY DEF Up
<1> HIDE DEF b
<1>3. /\ Down(b, m) \in Nat /\ b < Down(b, m) + m /\ Down(b, m) <= b
      /\ Down(b, m) % m = 0
  BY <1>1, DownIs
<1> QED
  BY <1>1, <1>2, <1>3

\* A higher end is not rounded up to a lower one.
LEMMA UpMono ==
  ASSUME NEW a \in Nat, NEW b \in Nat, NEW m \in Nat \ {0}, a <= b
  PROVE  Up(a, m) <= Up(b, m)
<1>1. /\ Up(a, m) % m = 0 /\ Up(b, m) % m = 0
      /\ Up(a, m) \in Nat /\ Up(b, m) \in Nat
      /\ Up(a, m) < a + m /\ b <= Up(b, m)
  BY UpIs
<1>2. CASE Up(b, m) < Up(a, m)
  <2>1. Up(b, m) + m <= Up(a, m)
    BY <1>1, <1>2, NextMultiple
  <2> QED
    BY <1>1, <2>1
<1> QED
  BY <1>1, <1>2

\* The sizes are multiples of one another.
LEMMA Sizes ==
  /\ {PageSize, SectorSize, HalfSize, BankSize, Sectorsize} \subseteq Nat \ {0}
  /\ \A size \in {PageSize, SectorSize, HalfSize, BankSize, Sectorsize} : size % PageSize = 0
  /\ \A size \in {SectorSize, HalfSize, BankSize} : size % SectorSize = 0
<1>1. {PageSize, SectorSize, HalfSize, BankSize, Sectorsize} \subseteq Nat \ {0}
  BY Ch5xxFlashAssumption, SectorsizeType
<1>2. \A size \in Nat \ {0} : size % size = 0
  OBVIOUS
<1>3. HalfSize % SectorSize = 0 /\ BankSize % SectorSize = 0
  BY <1>1, Ch5xxFlashAssumption, MultipleOfMultiple
<1>4. SectorSize % PageSize = 0 /\ HalfSize % PageSize = 0 /\ BankSize % PageSize = 0
  BY <1>1, <1>3, Ch5xxFlashAssumption, MultipleOfMultiple
<1>5. Sectorsize % PageSize = 0
  BY <1>1, <1>2, <1>4 DEF Sectorsize
<1> QED
  BY <1>1, <1>2, <1>3, <1>4, <1>5

\* A chunk begins where a unit of its size does, and ends with the sectors of
\* what is left to erase.
LEMMA ChunkIs ==
  ASSUME Typed, known, Aligned, cmd.left > 0
  PROVE  /\ ChunkSize \in Nat \ {0} /\ ChunkSize % PageSize = 0
         /\ chip = "CH570" /\ ~cmd.eeprom => ChunkSize % SectorSize = 0
         /\ Down(cmd.chunk, ChunkSize) = cmd.chunk
         /\ cmd.chunk + ChunkSize <= Up(cmd.chunk + cmd.left, Sectorsize)
<1> DEFINE end == Up(cmd.chunk + cmd.left, Sectorsize)
           s == ChunkSize
<1>1. cmd.chunk \in Nat /\ cmd.left \in Nat /\ cmd.left > 0 /\ cmd.eeprom \in BOOLEAN
  BY DEF Typed, CommandType, CommandRecords
<1>2. /\ end \in Nat /\ cmd.chunk + cmd.left <= end /\ end % Sectorsize = 0
      /\ end % PageSize = 0
  <2> DEFINE e == cmd.chunk + cmd.left
  <2>2. e \in Nat /\ Sectorsize \in Nat \ {0}
    BY <1>1, SectorsizeType
  <2> HIDE DEF e
  <2>3. Up(e, Sectorsize) \in Nat /\ e <= Up(e, Sectorsize) /\ Up(e, Sectorsize) % Sectorsize = 0
    BY <2>2, UpIs
  <2>1. end \in Nat /\ cmd.chunk + cmd.left <= end /\ end % Sectorsize = 0
    BY <2>3 DEF e
  <2> QED
    BY <2>1, Sizes, MultipleOfMultiple
<1>3. ASSUME NEW size \in {BankSize, HalfSize, SectorSize}, Fits(size), s = size
      PROVE  cmd.chunk % s = 0 /\ s \in Nat \ {0} /\ cmd.chunk + s <= end
             /\ s % PageSize = 0 /\ s % SectorSize = 0
  BY <1>1, <1>2, <1>3, Sizes DEF Fits
<1>4. ASSUME s = SectorSize, Sectorsize = SectorSize, cmd.chunk % SectorSize = 0
      PROVE  cmd.chunk % s = 0 /\ s \in Nat \ {0} /\ cmd.chunk + s <= end
             /\ s % PageSize = 0 /\ s % SectorSize = 0
  <2>1. cmd.chunk < end
    BY <1>1, <1>2
  <2>2. cmd.chunk + s <= end
    BY <1>1, <1>2, <1>4, <2>1, Sizes, NextMultiple
  <2> QED
    BY <1>4, <2>2, Sizes
<1>5. ASSUME s = PageSize, Sectorsize = PageSize \/ cmd.eeprom
      PROVE  cmd.chunk % s = 0 /\ s \in Nat \ {0} /\ cmd.chunk + s <= end
             /\ s % PageSize = 0 /\ (chip = "CH570" /\ ~cmd.eeprom => s % SectorSize = 0)
  <2>1. cmd.chunk % PageSize = 0 /\ cmd.chunk < end
    BY <1>1, <1>2 DEF Aligned
  <2>2. cmd.chunk + PageSize <= end
    BY <1>1, <1>2, <2>1, Sizes, NextMultiple
  <2>3. chip = "CH570" /\ ~cmd.eeprom => s = SectorSize
    BY <1>5 DEF Sectorsize
  <2> QED
    BY <1>5, <2>1, <2>2, <2>3, Sizes
<1>6. /\ cmd.chunk % s = 0 /\ s \in Nat \ {0} /\ cmd.chunk + s <= end
      /\ s % PageSize = 0 /\ (chip = "CH570" /\ ~cmd.eeprom => s % SectorSize = 0)
  <2>1. CASE Fits(BankSize)
    <3>1. s = BankSize
      BY <2>1 DEF ChunkSize
    <3> QED
      BY <1>3, <2>1, <3>1
  <2>2. CASE ~Fits(BankSize) /\ chip = "CH570" /\ Fits(HalfSize)
    <3>1. s = HalfSize
      BY <2>2 DEF ChunkSize
    <3> QED
      BY <1>3, <2>2, <3>1
  <2>3. CASE ~Fits(BankSize) /\ ~(chip = "CH570" /\ Fits(HalfSize))
    <3>1. s = IF Fits(SectorSize) \/ ~(Sectorsize = PageSize \/ cmd.eeprom)
              THEN SectorSize ELSE PageSize
      BY <2>3 DEF ChunkSize
    <3>2. CASE Fits(SectorSize)
      BY <1>3, <3>1, <3>2
    <3>3. CASE ~Fits(SectorSize) /\ ~(Sectorsize = PageSize \/ cmd.eeprom)
      <4>1. Sectorsize = SectorSize /\ chip = "CH570"
        BY <3>3 DEF Sectorsize
      <4>2. cmd.chunk % SectorSize = 0
        BY <3>3, <4>1 DEF Aligned
      <4> QED
        BY <1>4, <3>1, <3>3, <4>1, <4>2
    <3>4. CASE ~Fits(SectorSize) /\ (Sectorsize = PageSize \/ cmd.eeprom)
      BY <1>5, <3>1, <3>4
    <3> QED
      BY <3>2, <3>3, <3>4
  <2> QED
    BY <2>1, <2>2, <2>3
<1>7. Down(cmd.chunk, s) = cmd.chunk
  BY <1>1, <1>6, DownIs
<1> QED
  BY <1>6, <1>7

-----------------------------------------------------------------------------
(***************************************************************************)
(* The watched page: the commands begin.                                   *)
(***************************************************************************)
\* What a command asks of the watched page is what its arguments say.
Asked(c) ==
  /\ c.pc \in {"write_open", "init", "erase_open"}
  /\ c.op = "erase" <=> c.pc = "erase_open"
  /\ c.pc # "erase_open" =>
       /\ ~c.may => c.page # watched
       /\ c.whole => c.page = watched /\ flash.page # "other"
  /\ c.pc = "erase_open" /\ known =>
       /\ c.chunk % PageSize = 0
       /\ chip = "CH570" /\ ~c.eeprom => c.chunk % SectorSize = 0
       /\ ~c.may /\ c.left > 0 => ~Touches(c.chunk, Up(c.chunk + c.left, Sectorsize))
       /\ c.whole => Inside(c.chunk, c.chunk + c.left)

LEMMA BeginKeepsPage ==
  ASSUME IInv, PageInv, NEW c \in CommandRecords, Asked(c), Begin(c)
  PROVE  PageInv'
<1>1. /\ UNCHANGED <<chip, watched, microblob_running, writing_flash, known, core, loaded, rom, flash>>
      /\ Sectorsize' = Sectorsize /\ cmd.pc = "idle"
      /\ good' => good
  BY DEF Begin, session, Idle, Sectorsize
<1>2. /\ cmd'.pc = c.pc /\ cmd'.op = c.op /\ cmd'.page = c.page /\ cmd'.chunk = c.chunk
      /\ cmd'.left = c.left /\ cmd'.eeprom = c.eeprom
      /\ good' => cmd'.may = c.may /\ cmd'.whole = c.whole
  BY DEF Begin, CommandRecords
<1>3. ASSUME good' \/ told' # "nothing" PROVE Orderly(c) /\ UNCHANGED blob
  BY <1>3 DEF Begin, Orderly, Disturb
<1>4. ASSUME told' # "nothing" PROVE told' = told /\ ~c.may
  BY <1>4 DEF Begin, Orderly, Disturb
<1>5. good => ~flash.busy
  BY <1>1 DEF IInv, Trusted, InPlace
<1>6. Heeded'
  <2> SUFFICES ASSUME good' \/ told' # "nothing"
               PROVE  /\ core' = "blob" => blob'.clean
                      /\ cmd'.pc \in {"init", "feed"} /\ core' = "blob" => blob'.page = cmd'.page
                      /\ cmd'.pc \in ErasePlaces => known' /\ Aligned'
    BY DEF Heeded
  <2>1. good \/ told # "nothing"
    BY <1>1, <1>4
  <2>2. known /\ (core = "blob" => c.page = blob.page) /\ UNCHANGED blob
    BY <1>3 DEF Orderly
  <2>3. core = "blob" => blob.clean
    BY <2>1 DEF PageInv, Heeded
  <2>4. cmd'.pc \in ErasePlaces => Aligned'
    BY <1>1, <1>2, <2>2 DEF Aligned, Asked, ErasePlaces
  <2> QED
    BY <1>1, <1>2, <2>2, <2>3, <2>4
<1>7. Spared'
  <2> SUFFICES ASSUME (good' /\ ~cmd'.may) \/ told' # "nothing"
               PROVE  /\ cmd'.pc \in {"write_open", "words", "init", "feed"} => cmd'.page # watched'
                      /\ cmd'.pc \in ErasePlaces /\ cmd'.left > 0 =>
                           ~Touches(cmd.chunk, Up(cmd.chunk + cmd.left, Sectorsize))'
                      /\ flash'.busy => flash'.result = flash'.page
    BY DEF Spared
  <2>1. ~c.may /\ known
    BY <1>2, <1>3, <1>4 DEF Orderly
  <2>2. flash.busy => flash.result = flash.page
    BY <1>1, <1>4, <1>5 DEF PageInv, Spared
  <2>3. cmd'.pc \in ErasePlaces /\ cmd'.left > 0 =>
          ~Touches(cmd.chunk, Up(cmd.chunk + cmd.left, Sectorsize))'
    BY <1>1, <1>2, <2>1 DEF Asked, ErasePlaces, Touches, Up, Down
  <2> QED
    BY <1>1, <1>2, <2>1, <2>2, <2>3 DEF Asked, ErasePlaces
<1>8. Due'
  <2>1. good' => known
    BY <1>3 DEF Orderly
  <2>2. good' /\ cmd'.whole /\ cmd'.pc = "erase_open" => Inside(cmd.chunk, cmd.chunk + cmd.left)'
    BY <1>1, <1>2, <2>1 DEF Asked, Inside
  <2> QED
    BY <1>1, <1>2, <2>2 DEF Due, Asked, ErasePlaces
<1>9. Kept'
  BY <1>1, <1>4 DEF PageInv, Kept
<1> QED
  BY <1>6, <1>7, <1>8, <1>9 DEF PageInv

\* The block writes.
LEMMA WriteFlashKeepsPage ==
  ASSUME IInv, PageInv, WriteFlash
  PROVE  PageInv'
<1>1. PICK p \in Written :
        Begin([NoCommand EXCEPT !.op = "write", !.pc = "write_open", !.page = p,
                 !.may = p = watched, !.whole = p = watched /\ flash.page # "other"])
  BY DEF WriteFlash
<1> DEFINE c == [NoCommand EXCEPT !.op = "write", !.pc = "write_open", !.page = p,
                   !.may = p = watched, !.whole = p = watched /\ flash.page # "other"]
<1>2. NoCommand \in CommandRecords /\ p \in Pages
  BY NoCommandType, Ch5xxFlashAssumption DEF IInv, Typed, TargetType
<1>3. c \in CommandRecords /\ c.op = "write" /\ c.pc = "write_open" /\ c.page = p
  BY <1>2 DEF CommandRecords, Places
<1>4. c.may = (p = watched) /\ c.whole = (p = watched /\ flash.page # "other")
  BY <1>2 DEF CommandRecords
<1>5. Begin(c)
  BY <1>1
<1> HIDE DEF c
<1>6. Asked(c)
  BY <1>3, <1>4 DEF Asked
<1> QED
  BY <1>3, <1>5, <1>6, BeginKeepsPage

LEMMA WriteFlashUsingMicroblobKeepsPage ==
  ASSUME IInv, PageInv, WriteFlashUsingMicroblob
  PROVE  PageInv'
<1>1. PICK p \in Written :
        Begin([NoCommand EXCEPT !.op = "blob", !.pc = "init", !.page = p,
                 !.may = p = watched, !.whole = p = watched /\ flash.page # "other"])
  BY DEF WriteFlashUsingMicroblob
<1> DEFINE c == [NoCommand EXCEPT !.op = "blob", !.pc = "init", !.page = p,
                   !.may = p = watched, !.whole = p = watched /\ flash.page # "other"]
<1>2. NoCommand \in CommandRecords /\ p \in Pages
  BY NoCommandType, Ch5xxFlashAssumption DEF IInv, Typed, TargetType
<1>3. c \in CommandRecords /\ c.op = "blob" /\ c.pc = "init" /\ c.page = p
  BY <1>2 DEF CommandRecords, Places
<1>4. c.may = (p = watched) /\ c.whole = (p = watched /\ flash.page # "other")
  BY <1>2 DEF CommandRecords
<1>5. Begin(c)
  BY <1>1
<1> HIDE DEF c
<1>6. Asked(c)
  BY <1>3, <1>4 DEF Asked
<1> QED
  BY <1>3, <1>5, <1>6, BeginKeepsPage

\* The range of an erasure, which is rounded to whole sectors only at its start.
LEMMA EraseKeepsPage ==
  ASSUME IInv, PageInv, Erase
  PROVE  PageInv'
<1>1. PICK range \in Ranges, eeprom \in BOOLEAN :
        LET first == range[1]
            end   == range[1] + range[2]
        IN Begin([NoCommand EXCEPT
             !.op = "erase", !.pc = "erase_open", !.eeprom = eeprom,
             !.chunk = IF known THEN Down(first, Sectorsize) ELSE first, !.left = range[2],
             !.may = range[2] > 0 /\ Touches(Down(first, Sectorsize), Up(end, Sectorsize)),
             !.whole = first % Sectorsize = 0 /\ Inside(first, end)])
  BY DEF Erase
<1> DEFINE start == IF known THEN Down(range[1], Sectorsize) ELSE range[1]
           may == range[2] > 0 /\ Touches(Down(range[1], Sectorsize), Up(range[1] + range[2], Sectorsize))
           whole == range[1] % Sectorsize = 0 /\ Inside(range[1], range[1] + range[2])
           c == [NoCommand EXCEPT
                  !.op = "erase", !.pc = "erase_open", !.eeprom = eeprom,
                  !.chunk = start, !.left = range[2], !.may = may, !.whole = whole]
<1>2. range[1] \in Nat /\ range[2] \in Nat
  BY Ch5xxFlashAssumption
<1>3. start \in Nat
  BY <1>2, DownType, SectorsizeType
<1>4. may \in BOOLEAN /\ whole \in BOOLEAN
  OBVIOUS
<1>5. NoCommand \in CommandRecords
  BY NoCommandType DEF IInv, Typed, TargetType
<1>6. Begin(c)
  BY <1>1
<1>7. ASSUME known
      PROVE  /\ start % Sectorsize = 0 /\ start <= range[1]
             /\ range[1] % Sectorsize = 0 => start = range[1]
             /\ start = Down(range[1], Sectorsize)
  BY <1>2, <1>7, DownIs, SectorsizeType
<1>8. ASSUME known PROVE /\ start % PageSize = 0
                         /\ chip = "CH570" => start % SectorSize = 0
  <2>1. start % PageSize = 0
    BY <1>3, <1>7, <1>8, Sizes, MultipleOfMultiple
  <2> QED
    BY <1>7, <1>8, <2>1 DEF Sectorsize
<1>9. ASSUME known, ~may, range[2] > 0
      PROVE  ~Touches(start, Up(start + range[2], Sectorsize))
  <2>1. Up(start + range[2], Sectorsize) <= Up(range[1] + range[2], Sectorsize)
    BY <1>2, <1>3, <1>7, <1>9, UpMono, SectorsizeType
  <2>2. ~Touches(start, Up(range[1] + range[2], Sectorsize))
    BY <1>7, <1>9
  <2>3. /\ Up(start + range[2], Sectorsize) \in Nat
        /\ Up(range[1] + range[2], Sectorsize) \in Nat
    <3>1. start + range[2] \in Nat /\ range[1] + range[2] \in Nat
      BY <1>2, <1>3
    <3>2. \A a \in Nat : Up(a, Sectorsize) \in Nat
      BY UpIs, SectorsizeType
    <3> QED
      BY <3>1, <3>2
  <2>4. watched * PageSize \in Nat
    BY PageNumbers, Sizes DEF IInv, Typed, TargetType
  <2> QED
    BY <1>3, <2>1, <2>2, <2>3, <2>4 DEF Touches
<1>10. ASSUME known, whole PROVE Inside(start, start + range[2])
  BY <1>7, <1>10
<1> HIDE DEF start, may, whole
<1>11. /\ c \in CommandRecords /\ c.op = "erase" /\ c.pc = "erase_open" /\ c.eeprom = eeprom
       /\ c.chunk = start /\ c.left = range[2]
  BY <1>2, <1>3, <1>4, <1>5 DEF CommandRecords, Places
<1>12. c.may = may /\ c.whole = whole
  BY <1>5 DEF CommandRecords
<1> HIDE DEF c
<1>13. Asked(c)
  BY <1>8, <1>9, <1>10, <1>11, <1>12 DEF Asked
<1> QED
  BY <1>6, <1>11, <1>13, BeginKeepsPage

-----------------------------------------------------------------------------
(***************************************************************************)
(* The watched page: the steps of the commands.                            *)
(***************************************************************************)
\* A program command for another page rewrites this one with what it holds.
LEMMA ProgramElsewhere ==
  ASSUME NEW page, NEW data, page # watched, Program(page, data)
  PROVE  \/ UNCHANGED flash
         \/ flash' = [flash EXCEPT !.busy = TRUE, !.result = flash.page]
BY DEF Program, Start

\* An answer of a good session finds the flash idle.
LEMMA AnswerKeepsPage ==
  ASSUME IInv, IInv', PageInv, NEW r, Answer(r), UNCHANGED <<chip, watched, flash>>,
         \/ UNCHANGED <<core, blob>>
         \/ ~good /\ told = "nothing",
         good' => good,
         good' /\ r = 0 /\ cmd.whole => flash.page = IF cmd.op = "erase" THEN "erased" ELSE "image"
  PROVE  PageInv'
<1>1. cmd' = NoCommand /\ cmd'.pc = "idle" /\ ~cmd'.whole /\ ~cmd'.may
  BY DEF Answer, NoCommand
<1>2. good' => good /\ ~flash.busy
  BY <1>1 DEF IInv, Trusted, InPlace
<1>3. told' # "nothing" => (told' = told /\ ~good') \/ (good' /\ (told' = told \/ flash.page = told'))
  BY DEF Answer, IInv, Typed, SessionType
<1>4. good' \/ told' # "nothing" => good \/ told # "nothing"
  BY <1>2, <1>3
<1>5. Heeded'
  BY <1>1, <1>4 DEF PageInv, Heeded, ErasePlaces
<1>6. Spared'
  BY <1>1, <1>2, <1>3 DEF PageInv, Spared, ErasePlaces
<1>7. Due'
  BY <1>1 DEF Due
<1>8. Kept'
  BY <1>3 DEF PageInv, Kept
<1> QED
  BY <1>5, <1>6, <1>7, <1>8 DEF PageInv

LEMMA WriteOpenKeepsPage ==
  ASSUME IInv, PageInv, WriteOpen
  PROVE  PageInv'
<1>1. /\ UNCHANGED <<chip, watched, known, core, blob, flash, told>>
      /\ cmd.pc = "write_open" /\ cmd' = [cmd EXCEPT !.pc = "words"] /\ writing_flash' = 1
  BY DEF WriteOpen, Goto
<1>2. good' => good
  BY DEF WriteOpen, Open, Heard, Missed
<1>3. /\ cmd'.pc = "words" /\ cmd'.page = cmd.page /\ cmd'.op = cmd.op
      /\ cmd'.may = cmd.may /\ cmd'.whole = cmd.whole
  BY <1>1 DEF IInv, Typed, CommandType, CommandRecords
<1>4. Heeded'
  BY <1>1, <1>2, <1>3 DEF PageInv, Heeded, ErasePlaces
<1>5. Spared'
  BY <1>1, <1>2, <1>3 DEF PageInv, Spared, ErasePlaces
<1>6. Due'
  BY <1>1, <1>2, <1>3 DEF PageInv, Due, ErasePlaces
<1>7. Kept'
  BY <1>1 DEF PageInv, Kept
<1> QED
  BY <1>4, <1>5, <1>6, <1>7 DEF PageInv

LEMMA WriteWordsKeepsPage ==
  ASSUME IInv, IInv', PageInv, WriteWords
  PROVE  PageInv'
<1>1. /\ UNCHANGED <<chip, watched, known, core, blob, rom, writing_flash>>
      /\ cmd.pc = "words"
  BY DEF WriteWords, session, target
<1>2. CASE /\ core = "halted" /\ Program(cmd.page, "image")
           /\ Goto("write_wait") /\ good' = good /\ UNCHANGED told
  <2>1. /\ cmd'.pc = "write_wait" /\ cmd'.op = cmd.op
        /\ cmd'.may = cmd.may /\ cmd'.whole = cmd.whole
    BY <1>2 DEF Goto, IInv, Typed, CommandType, CommandRecords
  <2>2. Heeded'
    BY <1>1, <1>2, <2>1 DEF PageInv, Heeded, ErasePlaces
  <2>3. flash'.page = flash.page
    BY <1>2 DEF Program, Start, IInv, Typed, TargetType
  <2>4. Spared'
    <3> SUFFICES ASSUME (good /\ ~cmd.may) \/ told # "nothing"
                 PROVE  flash'.busy => flash'.result = flash'.page
      BY <1>2, <2>1 DEF Spared, ErasePlaces
    <3>1. cmd.page # watched /\ (flash.busy => flash.result = flash.page)
      BY <1>1 DEF PageInv, Spared
    <3>2. \/ UNCHANGED flash
          \/ flash' = [flash EXCEPT !.busy = TRUE, !.result = flash.page]
      BY <1>2, <3>1, ProgramElsewhere
    <3> QED
      BY <3>1, <3>2 DEF IInv, Typed, TargetType
  <2>5. Due'
    <3>1. ASSUME good, cmd.whole PROVE Becomes("image")' /\ cmd'.op # "erase"
      <4>1. /\ cmd.page = watched /\ flash.page # "other" /\ cmd.op # "erase"
            /\ writing_flash = 1
        BY <1>1, <3>1 DEF PageInv, Due, ErasePlaces
      <4>2. Listens
        BY <1>1, <3>1, <4>1 DEF IInv, Trusted, Agreed, InPlace, Listens
      <4>3. flash' = [flash EXCEPT !.busy = TRUE, !.result = "image"]
        BY <1>2, <4>1, <4>2 DEF Program, Programmed, Start
      <4> QED
        BY <2>1, <4>1, <4>3 DEF Becomes, IInv, Typed, TargetType
    <3> QED
      BY <1>2, <2>1, <3>1 DEF Due, ErasePlaces
  <2>6. Kept'
    BY <1>2, <2>3 DEF PageInv, Kept
  <2> QED
    BY <2>2, <2>4, <2>5, <2>6 DEF PageInv
<1>3. CASE (Program(cmd.page, "other") \/ UNCHANGED flash) /\ good' = FALSE /\ Answer(-1)
  <2>1. told' = told /\ cmd'.pc = "idle"
    BY <1>3 DEF Answer, NoCommand
  <2>2. flash'.page = flash.page
    BY <1>3 DEF Program, Start, IInv, Typed, TargetType
  <2>3. Heeded'
    BY <1>1, <1>3, <2>1 DEF PageInv, Heeded, ErasePlaces
  <2>4. Spared'
    <3> SUFFICES ASSUME told # "nothing"
                 PROVE  flash'.busy => flash'.result = flash'.page
      BY <1>3, <2>1 DEF Spared, ErasePlaces
    <3>1. cmd.page # watched /\ (flash.busy => flash.result = flash.page)
      BY <1>1 DEF PageInv, Spared
    <3>2. \/ UNCHANGED flash
          \/ flash' = [flash EXCEPT !.busy = TRUE, !.result = flash.page]
      BY <1>3, <3>1, ProgramElsewhere
    <3> QED
      BY <3>1, <3>2 DEF IInv, Typed, TargetType
  <2>5. Due' /\ Kept'
    BY <1>3, <2>1, <2>2 DEF PageInv, Due, Kept
  <2> QED
    BY <2>3, <2>4, <2>5 DEF PageInv
<1> QED
  BY <1>2, <1>3 DEF WriteWords, Heard, Missed

LEMMA WriteWaitKeepsPage ==
  ASSUME IInv, IInv', PageInv, WriteWait
  PROVE  PageInv'
<1>1. UNCHANGED <<chip, watched, core, blob, flash>> /\ cmd.pc = "write_wait" /\ Answer(0)
  BY DEF WriteWait, target
<1>2. good' => good /\ ~flash.busy
  BY WaitedEffect DEF WriteWait, IInv, Typed
<1>3. good' /\ cmd.whole => flash.page = "image" /\ cmd.op # "erase"
  BY <1>1, <1>2 DEF PageInv, Due, Becomes, ErasePlaces
<1> QED
  BY <1>1, <1>2, <1>3, AnswerKeepsPage

\* The blob is started at the page it is about to be sent.
LEMMA BeginMicroblobKeepsPage ==
  ASSUME IInv, PageInv, BeginMicroblob
  PROVE  PageInv'
<1>1. /\ UNCHANGED <<chip, watched, known, flash>>
      /\ cmd.pc = "init" /\ cmd' = [cmd EXCEPT !.pc = "feed"]
  BY DEF BeginMicroblob, Goto
<1>2. /\ cmd'.pc = "feed" /\ cmd'.page = cmd.page /\ cmd'.op = cmd.op
      /\ cmd'.may = cmd.may /\ cmd'.whole = cmd.whole
  BY <1>1 DEF IInv, Typed, CommandType, CommandRecords
<1>3. /\ good' => good
      /\ told' # "nothing" => told' = told
      /\ (good' \/ told' # "nothing") /\ core' = "blob" => blob'.clean /\ blob'.page = cmd.page
  <2>1. CASE microblob_running < 0 /\ MicroblobInit
    <3>1. good' => good
      BY <2>1 DEF MicroblobInit, Open, Heard, Missed
    <3>2. CASE core = "halted"
      BY <2>1, <3>1, <3>2 DEF MicroblobInit, Fresh
    <3>3. CASE core # "halted"
      <4>1. core' = core /\ Disturb
        BY <2>1, <3>3 DEF MicroblobInit
      <4>2. ~good \/ core # "blob"
        BY <2>1 DEF IInv, Typed, SessionType, Trusted, Agreed
      <4> QED
        BY <3>1, <4>1, <4>2 DEF Disturb
    <3> QED
      BY <3>2, <3>3
  <2>2. CASE good' = good /\ UNCHANGED <<core, blob, told>>
    BY <1>1, <2>2 DEF PageInv, Heeded
  <2> QED
    BY <2>1, <2>2 DEF BeginMicroblob, Heard, target
<1>4. Heeded'
  BY <1>2, <1>3 DEF Heeded, ErasePlaces
<1>5. Spared'
  BY <1>1, <1>2, <1>3 DEF PageInv, Spared, ErasePlaces
<1>6. Due'
  BY <1>1, <1>2, <1>3 DEF PageInv, Due, ErasePlaces
<1>7. Kept'
  BY <1>1, <1>3 DEF PageInv, Kept
<1> QED
  BY <1>4, <1>5, <1>6, <1>7 DEF PageInv

LEMMA FeedKeepsPage ==
  ASSUME IInv, PageInv, Feed
  PROVE  PageInv'
<1>1. /\ UNCHANGED <<chip, watched, known, core, rom, good>>
      /\ cmd.pc = "feed" /\ cmd' = [cmd EXCEPT !.pc = "poll"]
  BY DEF Feed, Goto, session
<1>2. /\ cmd'.pc = "poll" /\ cmd'.op = cmd.op
      /\ cmd'.may = cmd.may /\ cmd'.whole = cmd.whole
  BY <1>1 DEF IInv, Typed, CommandType, CommandRecords
<1>3. CASE Taken /\ PageFull(cmd.page) /\ UNCHANGED told
  <2>1. blob'.clean = blob.clean /\ flash'.page = flash.page
    BY <1>3 DEF PageFull, Program, Start, IInv, Typed, TargetType
  <2>2. Heeded'
    BY <1>1, <1>2, <1>3, <2>1 DEF PageInv, Heeded, ErasePlaces
  <2>3. Spared'
    <3> SUFFICES ASSUME (good /\ ~cmd.may) \/ told # "nothing"
                 PROVE  flash'.busy => flash'.result = flash'.page
      BY <1>1, <1>2, <1>3 DEF Spared, ErasePlaces
    <3>1. /\ cmd.page # watched /\ (flash.busy => flash.result = flash.page)
          /\ blob.page = cmd.page
      BY <1>1, <1>3 DEF PageInv, Spared, Heeded, Taken
    <3>2. \/ UNCHANGED flash
          \/ flash' = [flash EXCEPT !.busy = TRUE, !.result = flash.page]
      BY <1>3, <3>1, ProgramElsewhere DEF PageFull
    <3> QED
      BY <3>1, <3>2 DEF IInv, Typed, TargetType
  <2>4. Due'
    <3>1. ASSUME good, cmd.whole PROVE Becomes("image")' /\ cmd'.op # "erase"
      <4>1. /\ cmd.page = watched /\ flash.page # "other" /\ cmd.op # "erase"
            /\ blob.page = cmd.page /\ blob.clean
        BY <1>1, <1>3, <3>1 DEF PageInv, Due, Heeded, ErasePlaces, Taken
      <4>2. Listens
        BY <1>1, <1>3, <3>1 DEF IInv, Trusted, Agreed, InPlace, Listens, Taken
      <4>3. flash' = [flash EXCEPT !.busy = TRUE, !.result = "image"]
        BY <1>3, <4>1, <4>2 DEF PageFull, Program, Programmed, Start
      <4> QED
        BY <1>2, <4>1, <4>3 DEF Becomes, IInv, Typed, TargetType
    <3> QED
      BY <1>1, <1>2, <3>1 DEF Due, ErasePlaces
  <2>5. Kept'
    BY <1>3, <2>1 DEF PageInv, Kept
  <2> QED
    BY <2>2, <2>3, <2>4, <2>5 DEF PageInv
<1>4. CASE ~Taken /\ Disturb /\ UNCHANGED flash
  <2>1. ~good
    BY <1>1, <1>4 DEF IInv, Trusted, InPlace, Taken
  <2>2. told' # "nothing" => told' = told /\ core # "blob"
    BY <1>4 DEF Disturb
  <2>3. Heeded' /\ Spared' /\ Due' /\ Kept'
    BY <1>1, <1>2, <1>4, <2>1, <2>2 DEF PageInv, Heeded, Spared, Due, Kept, ErasePlaces
  <2> QED
    BY <2>3 DEF PageInv
<1> QED
  BY <1>3, <1>4 DEF Feed

LEMMA PollKeepsPage ==
  ASSUME IInv, IInv', PageInv, Poll
  PROVE  PageInv'
<1>1. UNCHANGED <<chip, watched, core, blob, flash, known, rom>> /\ cmd.pc = "poll"
  BY DEF Poll, session, target
<1>2. PICK empty \in BOOLEAN :
        LET again == ~empty /\ cmd.polls < MaxPolls
        IN /\ good' = (good /\ empty = Taken /\ (empty \/ again))
           /\ IF again THEN cmd' = [cmd EXCEPT !.polls = @ + 1] /\ UNCHANGED told
              ELSE Answer(IF empty THEN 0 ELSE -2)
  BY DEF Poll
<1>3. good' => good
  BY <1>2
<1>4. CASE cmd' = [cmd EXCEPT !.polls = @ + 1] /\ UNCHANGED told
  <2>1. /\ cmd'.pc = "poll" /\ cmd'.op = cmd.op
        /\ cmd'.may = cmd.may /\ cmd'.whole = cmd.whole
    BY <1>1, <1>4 DEF IInv, Typed, CommandType, CommandRecords
  <2>2. Heeded' /\ Kept'
    BY <1>1, <1>3, <1>4, <2>1 DEF PageInv, Heeded, Kept, ErasePlaces
  <2>3. Spared'
    BY <1>1, <1>3, <1>4, <2>1 DEF PageInv, Spared, ErasePlaces
  <2>4. Due'
    BY <1>1, <1>3, <1>4, <2>1 DEF PageInv, Due, Becomes, ErasePlaces
  <2> QED
    BY <2>2, <2>3, <2>4 DEF PageInv
<1>5. CASE Answer(IF empty THEN 0 ELSE -2)
  <2>1. ASSUME good', cmd.whole PROVE flash.page = "image" /\ cmd.op # "erase"
    <3>1. cmd'.pc = "idle"
      BY <1>5 DEF Answer, NoCommand
    <3>2. ~flash.busy
      BY <1>1, <2>1, <3>1 DEF IInv, Trusted, InPlace
    <3> QED
      BY <1>1, <1>3, <2>1, <3>2 DEF PageInv, Due, Becomes, ErasePlaces
  <2> QED
    BY <1>1, <1>3, <1>5, <2>1, AnswerKeepsPage
<1> QED
  BY <1>2, <1>4, <1>5

LEMMA EraseOpenKeepsPage ==
  ASSUME IInv, PageInv, EraseOpen
  PROVE  PageInv'
<1>1. /\ UNCHANGED <<chip, watched, known, core, blob, flash, told>>
      /\ cmd.pc = "erase_open" /\ cmd' = [cmd EXCEPT !.pc = "chunk"]
      /\ Sectorsize' = Sectorsize
  BY DEF EraseOpen, Goto, session, Sectorsize
<1>2. good' => good /\ (core = "halted" => rom' = "open")
  BY OpenEffect DEF EraseOpen, IInv, Typed, TargetType
<1>3. /\ cmd'.pc = "chunk" /\ cmd'.op = cmd.op /\ cmd'.may = cmd.may /\ cmd'.whole = cmd.whole
      /\ cmd'.chunk = cmd.chunk /\ cmd'.left = cmd.left /\ cmd'.eeprom = cmd.eeprom
  BY <1>1 DEF IInv, Typed, CommandType, CommandRecords
<1>4. Heeded'
  BY <1>1, <1>2, <1>3 DEF PageInv, Heeded, Aligned, ErasePlaces
<1>5. Spared'
  BY <1>1, <1>2, <1>3 DEF PageInv, Spared, Touches, Up, Down, ErasePlaces
<1>6. good => core = "halted"
  BY <1>1 DEF IInv, Trusted, InPlace
<1>7. Due'
  BY <1>1, <1>2, <1>3, <1>6 DEF PageInv, Due, Becomes, Inside, ErasePlaces
<1>8. Kept'
  BY <1>1 DEF PageInv, Kept
<1> QED
  BY <1>4, <1>5, <1>7, <1>8 DEF PageInv

\* Where the watched page lies.
LEMMA PageAt ==
  ASSUME watched \in Pages
  PROVE  /\ watched * PageSize \in Nat /\ (watched + 1) * PageSize = watched * PageSize + PageSize
         /\ (watched * PageSize) % PageSize = 0
<1>1. watched \in Nat /\ PageSize \in Nat \ {0}
  BY PageNumbers, Sizes
<1> QED
  BY <1>1, MultipleIs

\* A chunk erases the watched page if it reaches it, and reaches it only if the
\* command is about it.
LEMMA EraseChunkKeepsPage ==
  ASSUME IInv, PageInv, EraseChunk
  PROVE  PageInv'
<1> DEFINE s == ChunkSize
           hit == Touches(cmd.chunk, cmd.chunk + s)
<1>1. /\ UNCHANGED <<chip, watched, known, core, blob, rom, told, good>>
      /\ cmd.pc = "chunk" /\ core = "halted" /\ Sectorsize' = Sectorsize
      /\ cmd' = [cmd EXCEPT !.pc = "erase_wait", !.chunk = @ + s, !.left = Left]
      /\ Start(IF Touches(Down(cmd.chunk, s), Down(cmd.chunk, s) + s) THEN "erased" ELSE flash.page)
  BY DEF EraseChunk, session, target, Sectorsize
<1>2. cmd.chunk \in Nat /\ cmd.left \in Nat /\ cmd.left > 0 /\ cmd.eeprom \in BOOLEAN
  BY DEF EraseChunk, IInv, Typed, CommandType, CommandRecords
<1>3. /\ cmd'.pc = "erase_wait" /\ cmd'.op = cmd.op /\ cmd'.may = cmd.may /\ cmd'.whole = cmd.whole
      /\ cmd'.chunk = cmd.chunk + s /\ cmd'.left = Left /\ cmd'.eeprom = cmd.eeprom
  BY <1>1 DEF IInv, Typed, CommandType, CommandRecords
<1>4. flash'.page = flash.page
  BY <1>1 DEF Start, IInv, Typed, TargetType
<1>5. ASSUME good \/ told # "nothing"
      PROVE  /\ known /\ Aligned
             /\ s \in Nat \ {0} /\ s % PageSize = 0
             /\ chip = "CH570" /\ ~cmd.eeprom => s % SectorSize = 0
             /\ cmd.chunk + s <= Up(cmd.chunk + cmd.left, Sectorsize)
             /\ Start(IF hit THEN "erased" ELSE flash.page)
  <2>1. known /\ Aligned
    BY <1>1, <1>5 DEF PageInv, Heeded, ErasePlaces
  <2>2. /\ s \in Nat \ {0} /\ s % PageSize = 0
        /\ chip = "CH570" /\ ~cmd.eeprom => s % SectorSize = 0
        /\ Down(cmd.chunk, s) = cmd.chunk
        /\ cmd.chunk + s <= Up(cmd.chunk + cmd.left, Sectorsize)
    BY <1>2, <2>1, ChunkIs DEF IInv
  <2> QED
    BY <1>1, <2>1, <2>2
<1>6. watched * PageSize \in Nat /\ (watched + 1) * PageSize = watched * PageSize + PageSize
      /\ (watched * PageSize) % PageSize = 0
  BY PageAt DEF IInv, Typed, TargetType
<1>7. Left = IF cmd.left < s THEN 0 ELSE cmd.left - s
  BY DEF Left
<1> HIDE DEF s
<1>8. Heeded'
  <2>1. ASSUME good \/ told # "nothing" PROVE Aligned'
    <3>1. (cmd.chunk + s) % PageSize = 0
      BY <1>2, <1>5, <2>1, Sizes, SumOfMultiples DEF Aligned
    <3>2. chip = "CH570" /\ ~cmd.eeprom => (cmd.chunk + s) % SectorSize = 0
      BY <1>2, <1>5, <2>1, Sizes, SumOfMultiples DEF Aligned
    <3> QED
      BY <1>1, <1>3, <3>1, <3>2 DEF Aligned
  <2> QED
    BY <1>1, <1>3, <1>5, <2>1 DEF PageInv, Heeded, ErasePlaces
<1>9. Spared'
  <2> SUFFICES ASSUME (good /\ ~cmd.may) \/ told # "nothing"
               PROVE  /\ Left > 0 => ~Touches(cmd.chunk + s, Up(cmd.chunk + s + Left, Sectorsize))
                      /\ flash'.busy => flash'.result = flash'.page
    BY <1>1, <1>3 DEF Spared, ErasePlaces, Touches, Up, Down
  <2>1. ~Touches(cmd.chunk, Up(cmd.chunk + cmd.left, Sectorsize))
        /\ (flash.busy => flash.result = flash.page)
    BY <1>1, <1>2 DEF PageInv, Spared, ErasePlaces
  <2>2. Up(cmd.chunk + cmd.left, Sectorsize) \in Nat
    <3>1. cmd.chunk + cmd.left \in Nat
      BY <1>2
    <3>2. \A a \in Nat : Up(a, Sectorsize) \in Nat
      BY UpIs, SectorsizeType
    <3> QED
      BY <3>1, <3>2
  <2>3. ~hit
    BY <1>2, <1>5, <1>6, <2>1, <2>2 DEF Touches
  <2>4. Left > 0 => cmd.chunk + s + Left = cmd.chunk + cmd.left
    BY <1>2, <1>5, <1>7
  <2>5. ~Touches(cmd.chunk + s, Up(cmd.chunk + cmd.left, Sectorsize))
    <3> DEFINE e == Up(cmd.chunk + cmd.left, Sectorsize)
               low == watched * PageSize
               high == (watched + 1) * PageSize
    <3>1. ~(cmd.chunk < high /\ low < e)
      BY <2>1 DEF Touches
    <3>2. cmd.chunk \in Nat /\ s \in Nat /\ high \in Nat
      BY <1>2, <1>5, <1>6, Sizes
    <3> HIDE DEF e, low, high
    <3>3. ~(cmd.chunk + s < high /\ low < e)
      BY <3>1, <3>2
    <3> QED
      BY <3>3 DEF Touches, e, low, high
  <2>6. flash' = IF Listens THEN [flash EXCEPT !.busy = TRUE, !.result = flash.page] ELSE flash
    BY <1>5, <2>3 DEF Start
  <2>7. flash'.busy => flash'.result = flash'.page
    BY <2>1, <2>6 DEF IInv, Typed, TargetType
  <2> QED
    BY <2>4, <2>5, <2>7
<1>10. Due'
  <2>1. ASSUME good PROVE rom' = "open"
    BY <1>1, <2>1 DEF PageInv, Due
  <2>2. ASSUME good, cmd.whole
        PROVE  /\ cmd.op = "erase"
               /\ Inside(cmd.chunk + s, cmd.chunk + s + Left) \/ Becomes("erased")'
    <3>1. /\ cmd.op = "erase"
          /\ Inside(cmd.chunk, cmd.chunk + cmd.left) \/ Becomes("erased")
      BY <1>1, <2>2 DEF PageInv, Due, ErasePlaces
    <3>2. Listens
      BY <1>1, <2>1, <2>2 DEF IInv, Trusted, InPlace, Listens
    <3>3. flash' = [flash EXCEPT !.busy = TRUE, !.result = IF hit THEN "erased" ELSE flash.page]
      BY <1>5, <2>2, <3>2 DEF Start
    <3>4. flash'.busy /\ flash'.result = IF hit THEN "erased" ELSE flash.page
      BY <3>3 DEF IInv, Typed, TargetType
    <3>5. CASE hit \/ Becomes("erased")
      <4>1. Becomes("erased")'
        BY <3>2, <3>4, <3>5 DEF Becomes, Listens
      <4> QED
        BY <3>1, <4>1
    <3>6. CASE ~hit /\ Inside(cmd.chunk, cmd.chunk + cmd.left)
      <4>1. PageSize \in Nat \ {0}
        BY Sizes
      <4>2. cmd.chunk + s <= watched * PageSize
        BY <1>2, <1>5, <1>6, <2>2, <3>6, <4>1 DEF Touches, Inside
      <4>3. cmd.chunk + s + Left = cmd.chunk + cmd.left
        BY <1>2, <1>5, <1>6, <1>7, <2>2, <3>6, <4>1, <4>2 DEF Inside
      <4>4. Inside(cmd.chunk + s, cmd.chunk + s + Left)
        BY <3>6, <4>2, <4>3 DEF Inside
      <4> QED
        BY <3>1, <4>4
    <3> QED
      BY <3>1, <3>5, <3>6
  <2> QED
    BY <1>1, <1>3, <2>1, <2>2 DEF Due, Inside, ErasePlaces
<1>11. Kept'
  BY <1>1, <1>4 DEF PageInv, Kept
<1> QED
  BY <1>8, <1>9, <1>10, <1>11 DEF PageInv

LEMMA EraseWaitKeepsPage ==
  ASSUME IInv, IInv', PageInv, EraseWait
  PROVE  PageInv'
<1>1. UNCHANGED <<chip, watched, known, core, blob, rom, flash>> /\ cmd.pc = "erase_wait"
      /\ Sectorsize' = Sectorsize
  BY DEF EraseWait, session, target, Sectorsize
<1>2. CASE Waited /\ cmd' = [cmd EXCEPT !.pc = "chunk"] /\ UNCHANGED told
  <2>1. good' => good
    BY <1>2, WaitedEffect DEF IInv, Typed
  <2>2. /\ cmd'.pc = "chunk" /\ cmd'.op = cmd.op /\ cmd'.may = cmd.may /\ cmd'.whole = cmd.whole
        /\ cmd'.chunk = cmd.chunk /\ cmd'.left = cmd.left /\ cmd'.eeprom = cmd.eeprom
    BY <1>2 DEF IInv, Typed, CommandType, CommandRecords
  <2>3. Heeded' /\ Kept'
    BY <1>1, <1>2, <2>1, <2>2 DEF PageInv, Heeded, Kept, Aligned, ErasePlaces
  <2>4. Spared'
    BY <1>1, <1>2, <2>1, <2>2 DEF PageInv, Spared, Touches, Up, Down, ErasePlaces
  <2>5. Due'
    BY <1>1, <2>1, <2>2 DEF PageInv, Due, Becomes, Inside, ErasePlaces
  <2> QED
    BY <2>3, <2>4, <2>5 DEF PageInv
<1>3. CASE good' = FALSE /\ Answer(-1)
  BY <1>1, <1>3, AnswerKeepsPage
<1> QED
  BY <1>2, <1>3 DEF EraseWait, Goto, Missed

\* Nothing is left, so the page was in one of the chunks.
LEMMA EraseEndKeepsPage ==
  ASSUME IInv, IInv', PageInv, EraseEnd
  PROVE  PageInv'
<1>1. /\ UNCHANGED <<chip, watched, core, blob, flash, good>>
      /\ cmd.pc = "chunk" /\ (cmd.left = 0 \/ core # "halted") /\ Answer(0)
  BY DEF EraseEnd, Heard
<1>2. ASSUME good, cmd.whole PROVE flash.page = "erased" /\ cmd.op = "erase"
  <2>1. cmd.left = 0 /\ ~flash.busy
    BY <1>1, <1>2 DEF IInv, Trusted, InPlace
  <2>2. /\ cmd.op = "erase"
        /\ Inside(cmd.chunk, cmd.chunk + cmd.left) \/ Becomes("erased")
    BY <1>1, <1>2 DEF PageInv, Due, ErasePlaces
  <2>3. /\ watched * PageSize \in Nat /\ (watched + 1) * PageSize = watched * PageSize + PageSize
        /\ PageSize \in Nat \ {0}
    BY PageAt, Sizes DEF IInv, Typed, TargetType
  <2>4. cmd.chunk \in Nat
    BY DEF IInv, Typed, CommandType, CommandRecords
  <2>5. ~Inside(cmd.chunk, cmd.chunk + cmd.left)
    BY <2>1, <2>3, <2>4 DEF Inside
  <2> QED
    BY <2>1, <2>2, <2>5 DEF Becomes
<1> QED
  BY <1>1, <1>2, AnswerKeepsPage

-----------------------------------------------------------------------------
(***************************************************************************)
(* The watched page: the other commands, the flash and the blob.           *)
(***************************************************************************)
\* A halt that finds no blob, or one that took only what was meant for it,
\* leaves the flash alone.
LEMMA HaltSpares ==
  ASSUME PageInv, Halt, good \/ told # "nothing"
  PROVE  UNCHANGED flash
<1>1. ~(core = "blob" /\ ~blob.clean)
  BY DEF PageInv, Heeded
<1> QED
  BY <1>1 DEF Halt

\* Between commands only the flash and what the host may believe count.
LEMMA IdleKeepsPage ==
  ASSUME PageInv, UNCHANGED <<chip, watched, cmd>>, cmd.pc = "idle", flash.page \in Contents,
         good' => \/ good /\ UNCHANGED flash
                  \/ ~flash.busy /\ UNCHANGED flash,
         told' # "nothing" => told' = told /\ UNCHANGED flash,
         (good' \/ told' # "nothing") /\ core' = "blob" => blob'.clean
  PROVE  PageInv'
<1>1. Heeded'
  BY DEF PageInv, Heeded, ErasePlaces
<1>2. Spared'
  BY DEF PageInv, Spared, ErasePlaces
<1>3. Due'
  BY DEF PageInv, Due, Becomes, ErasePlaces
<1>4. Kept'
  BY DEF PageInv, Kept
<1> QED
  BY <1>1, <1>2, <1>3, <1>4 DEF PageInv

LEMMA EndKeepsPage ==
  ASSUME IInv, PageInv, End
  PROVE  PageInv'
<1>1. UNCHANGED <<chip, watched, cmd, told, good>> /\ cmd.pc = "idle" /\ flash.page \in Contents
  BY DEF End, Idle, IInv, Typed, TargetType
<1>2. good \/ told # "nothing" => UNCHANGED flash
  BY HaltSpares DEF End
<1>3. core' = "blob" => UNCHANGED <<core, blob>>
  BY DEF End, Halt
<1>4. (good \/ told # "nothing") /\ core' = "blob" => blob'.clean
  BY <1>3 DEF PageInv, Heeded
<1> QED
  BY <1>1, <1>2, <1>4, IdleKeepsPage

LEMMA ReadEepromKeepsPage ==
  ASSUME IInv, PageInv, ReadEeprom
  PROVE  PageInv'
<1> DEFINE c == [NoCommand EXCEPT !.op = "eeprom"]
<1>1. c.op = "eeprom" /\ Read(c)
  BY DEF ReadEeprom, NoCommand
<1> HIDE DEF c
<1>2. /\ UNCHANGED <<chip, watched, cmd>> /\ cmd.pc = "idle" /\ flash.page \in Contents
      /\ good' => good /\ core = "halted"
  BY <1>1, ReadEffect DEF IInv, Typed, TargetType
<1>3. UNCHANGED <<core, flash>>
  BY DEF ReadEeprom
<1>4. told' # "nothing" => told' = told /\ core # "blob"
  BY <1>1 DEF Read
<1> QED
  BY <1>2, <1>3, <1>4, IdleKeepsPage

LEMMA ReadOptionsKeepsPage ==
  ASSUME IInv, PageInv, ReadOptions
  PROVE  PageInv'
<1> DEFINE c == [NoCommand EXCEPT !.op = "options"]
<1>1. c.op = "options" /\ Read(c)
  BY DEF ReadOptions, NoCommand
<1> HIDE DEF c
<1>2. /\ UNCHANGED <<chip, watched, cmd>> /\ cmd.pc = "idle" /\ flash.page \in Contents
      /\ good' => good /\ core = "halted"
  BY <1>1, ReadEffect DEF IInv, Typed, TargetType
<1>3. told' # "nothing" => told' = told /\ core # "blob"
  BY <1>1 DEF Read
<1>4. good' \/ told' # "nothing" => UNCHANGED flash
  BY <1>2, <1>3, HaltSpares DEF ReadOptions
<1>5. (good' \/ told' # "nothing") => core' # "blob"
  BY <1>2, <1>3 DEF ReadOptions, Halt
<1> QED
  BY <1>2, <1>3, <1>4, <1>5, IdleKeepsPage

LEMMA AttachKeepsPage ==
  ASSUME IInv, PageInv, Attach
  PROVE  PageInv'
<1>1. /\ UNCHANGED <<chip, watched, cmd, told, good, flash, core, blob>>
      /\ cmd.pc = "idle" /\ flash.page \in Contents
  BY DEF Attach, Idle, target, IInv, Typed, TargetType
<1>2. (good \/ told # "nothing") /\ core' = "blob" => blob'.clean
  BY <1>1 DEF PageInv, Heeded
<1> QED
  BY <1>1, <1>2, IdleKeepsPage

LEMMA IdentifyKeepsPage ==
  ASSUME IInv, PageInv, Identify
  PROVE  PageInv'
<1>1. /\ UNCHANGED <<chip, watched, cmd, told>> /\ Halt /\ good' = (good /\ core = "halted")
      /\ cmd.pc = "idle" /\ flash.page \in Contents
  BY DEF Identify, Idle, IInv, Typed, TargetType
<1>2. good' \/ told # "nothing" => UNCHANGED flash
  BY <1>1, HaltSpares
<1>3. core' # "blob"
  BY <1>1 DEF Halt
<1> QED
  BY <1>1, <1>2, <1>3, IdleKeepsPage

LEMMA ResetKeepsPage ==
  ASSUME IInv, PageInv, ResetInternalProgrammingState
  PROVE  PageInv'
<1>1. /\ UNCHANGED <<chip, watched, cmd, flash, core, blob>>
      /\ good' = (core = "halted" /\ ~flash.busy)
      /\ told' = IF core = "blob" THEN "nothing" ELSE told
      /\ cmd.pc = "idle" /\ flash.page \in Contents
  BY DEF ResetInternalProgrammingState, Idle, target, IInv, Typed, TargetType
<1>2. good' \/ told' # "nothing" => core' # "blob"
  BY <1>1
<1> QED
  BY <1>1, <1>2, IdleKeepsPage

LEMMA PowerCycleKeepsPage ==
  ASSUME IInv, PageInv, PowerCycle
  PROVE  PageInv'
<1> DEFINE page == IF flash.busy /\ flash.result # flash.page THEN "other" ELSE flash.page
<1>1. /\ UNCHANGED <<chip, watched, known, cmd>> /\ core' = "other" /\ ~good'
      /\ Sectorsize' = Sectorsize
  BY DEF PowerCycle, session, Sectorsize
<1>2. flash' = [busy |-> FALSE, page |-> page, result |-> page]
  BY DEF PowerCycle
<1>3. ~flash'.busy
  BY <1>2
<1>4. told' # "nothing" => told' = told /\ flash'.page = flash.page
  BY DEF PowerCycle
<1>5. Heeded'
  BY <1>1, <1>4 DEF PageInv, Heeded, Aligned, ErasePlaces
<1>6. Spared'
  BY <1>1, <1>3, <1>4 DEF PageInv, Spared, Touches, Up, Down, ErasePlaces
<1>7. Due' /\ Kept'
  BY <1>1, <1>4 DEF PageInv, Due, Kept
<1> QED
  BY <1>5, <1>6, <1>7 DEF PageInv

LEMMA FlashDoneKeepsPage ==
  ASSUME IInv, PageInv, FlashDone
  PROVE  PageInv'
<1>1. /\ UNCHANGED <<chip, watched, known, core, blob, rom, writing_flash, cmd, told, good>>
      /\ Sectorsize' = Sectorsize
  BY DEF FlashDone, session, target, Sectorsize
<1>2. flash.busy /\ ~flash'.busy /\ flash'.page = flash.result
  BY DEF FlashDone, IInv, Typed, TargetType
<1>3. Heeded'
  BY <1>1 DEF PageInv, Heeded, Aligned, ErasePlaces
<1>4. Spared'
  BY <1>1, <1>2 DEF PageInv, Spared, Touches, Up, Down, ErasePlaces
<1>5. good => cmd.pc \in {"write_wait", "poll", "erase_wait"}
  BY <1>2 DEF IInv, Trusted, InPlace
<1>6. Due'
  BY <1>1, <1>2, <1>5 DEF PageInv, Due, Becomes, Inside, ErasePlaces
<1>7. Kept'
  BY <1>1, <1>2 DEF PageInv, Spared, Kept
<1> QED
  BY <1>3, <1>4, <1>6, <1>7 DEF PageInv

\* What leaves everything alone but the blob's place in its program.
LEMMA BlobKeepsPage ==
  ASSUME IInv, PageInv, BlobDone \/ BlobStrays \/ UNCHANGED vars
  PROVE  PageInv'
<1>1. CASE BlobStrays
  <2>1. ~good /\ told = "nothing" /\ UNCHANGED <<told, good>>
    BY <1>1 DEF BlobStrays, PageInv, Heeded
  <2> QED
    BY <2>1 DEF PageInv, Heeded, Spared, Due, Kept
<1>2. CASE BlobDone \/ UNCHANGED vars
  <2>1. /\ UNCHANGED <<chip, watched, known, core, rom, flash, writing_flash, cmd, told, good>>
        /\ Sectorsize' = Sectorsize /\ blob'.clean = blob.clean /\ blob'.page = blob.page
    BY <1>2 DEF BlobDone, vars, session, target, Sectorsize, IInv, Typed, TargetType
  <2>2. Heeded' /\ Kept'
    BY <2>1 DEF PageInv, Heeded, Aligned, Kept, ErasePlaces
  <2>3. Spared'
    BY <2>1 DEF PageInv, Spared, Touches, Up, Down, ErasePlaces
  <2>4. Due'
    BY <2>1 DEF PageInv, Due, Becomes, Inside, ErasePlaces
  <2> QED
    BY <2>2, <2>3, <2>4 DEF PageInv
<1> QED
  BY <1>1, <1>2

-----------------------------------------------------------------------------
LEMMA PageInvKept ==
  IInv /\ PageInv /\ [Next]_vars => PageInv'
<1> SUFFICES ASSUME IInv, PageInv, [Next]_vars
             PROVE  PageInv'
  OBVIOUS
<1>0. IInv'
  BY InvariantKept
<1>1. CASE Commands
  BY <1>1, WriteFlashKeepsPage, WriteFlashUsingMicroblobKeepsPage, EndKeepsPage, EraseKeepsPage,
     ReadEepromKeepsPage, ReadOptionsKeepsPage, AttachKeepsPage, IdentifyKeepsPage, ResetKeepsPage
  DEF Commands
<1>2. CASE Steps
  BY <1>0, <1>2, WriteOpenKeepsPage, WriteWordsKeepsPage, WriteWaitKeepsPage,
     BeginMicroblobKeepsPage, FeedKeepsPage, PollKeepsPage, EraseOpenKeepsPage,
     EraseChunkKeepsPage, EraseWaitKeepsPage, EraseEndKeepsPage
  DEF Steps
<1>3. CASE FlashDone \/ BlobDone \/ BlobStrays \/ PowerCycle \/ UNCHANGED vars
  BY <1>3, FlashDoneKeepsPage, BlobKeepsPage, PowerCycleKeepsPage
<1> QED
  BY <1>1, <1>2, <1>3 DEF Next

LEMMA PageInvAtFirst ==
  Init => PageInv
BY DEF Init, NoCommand, Fresh, PageInv, Heeded, Spared, Due, Kept, ErasePlaces

\* A page that a good command reported as erased or written holds just that, and
\* goes on to do so until a command is asked for that is about it, or one that a
\* host keeping the order would not send: for every size of page, sector and
\* flash, every chunking of every range, blocks by program buffer or by
\* microblob, lost reads and power that fails at any moment.
THEOREM ReportsAreTrue == Spec => []ReportedIsThere
<1>1. PageInv => ReportedIsThere
  BY DEF PageInv, Kept, ReportedIsThere
<1>2. Init => PageInv
  BY PageInvAtFirst
<1>3. IInv /\ PageInv /\ [Next]_vars => PageInv'
  BY PageInvKept
<1> QED
  BY <1>1, <1>2, <1>3, InvariantHolds, PTL DEF Spec

\* Who changes what a page holds: the flash when it is done, or the loss of power.
LEMMA PageChanges ==
  ASSUME IInv, PageInv, [Next]_vars, flash'.page # flash.page
  PROVE  ~good \/ cmd.may
<1> SUFFICES ASSUME good, ~cmd.may
             PROVE  FALSE
  BY DEF IInv, Typed, CommandType, CommandRecords
<1>1. flash.busy => flash.result = flash.page
  BY DEF PageInv, Spared
<1>2. FlashType
  BY DEF IInv, Typed, TargetType, FlashType
<1>3. \A result : Start(result) => flash'.page = flash.page
  BY <1>2 DEF Start, FlashType
<1>4. \A page, data : Program(page, data) => flash'.page = flash.page
  BY <1>3 DEF Program
<1>5. Halt => flash'.page = flash.page
  BY <1>4 DEF Halt
<1>6. \A p : PageFull(p) => flash'.page = flash.page
  BY <1>4 DEF PageFull
<1>7. ~FlashDone
  BY <1>1, <1>2 DEF FlashDone, FlashType
<1>8. ~PowerCycle
  BY <1>1 DEF PowerCycle
<1>9. \A c : Begin(c) => UNCHANGED flash
  BY DEF Begin
<1>10. ~Commands
  BY <1>5, <1>9 DEF Commands, WriteFlash, WriteFlashUsingMicroblob, Erase, End, ReadEeprom,
     ReadOptions, Attach, Identify, ResetInternalProgrammingState
<1>11. ~Steps
  BY <1>3, <1>4, <1>6 DEF Steps, WriteOpen, WriteWords, WriteWait, BeginMicroblob, Feed, Poll,
     EraseOpen, EraseChunk, EraseWait, EraseEnd
<1>12. ~BlobDone /\ ~BlobStrays /\ ~UNCHANGED vars
  BY <1>6 DEF BlobDone, BlobStrays, vars
<1> QED
  BY <1>7, <1>8, <1>10, <1>11, <1>12 DEF Next

\* A good command changes nothing in a page that it was not asked to: no chunk
\* reaches beyond the sectors that the range lies in, no block goes to the page
\* after the one that was meant, for every size and every range.
THEOREM AskedOnly == Spec => OnlyAsked
<1>1. Init => PageInv
  BY PageInvAtFirst
<1>2. IInv /\ PageInv /\ [Next]_vars => PageInv'
  BY PageInvKept
<1>3. IInv /\ PageInv /\ [Next]_vars => (flash'.page # flash.page => ~good \/ cmd.may)
  BY PageChanges
<1>4. IInv /\ PageInv /\ [Next]_vars => [flash'.page # flash.page => ~good \/ cmd.may]_vars
  BY <1>3
<1> QED
  BY <1>1, <1>2, <1>4, InvariantHolds, PTL DEF Spec, OnlyAsked
===============================================================================
