---------------------------- MODULE UpdiNvm_proofs ----------------------------
(***************************************************************************)
(* The safety of UPDI programming, for every size of page, flash and byte, *)
(* all images, and any number of tries, polls and losses: type correctness,*)
(* that the copy of the pointer is right, that what is reported as written *)
(* is in the flash, that what is read is what it holds, that the answers   *)
(* are true, that only the page asked for changes, and that every access   *)
(* takes a command nearer its end.                                         *)
(***************************************************************************)
EXTENDS UpdiNvm, TLAPS

-----------------------------------------------------------------------------
(***************************************************************************)
(* The inductive invariant.                                                *)
(***************************************************************************)
TargetType ==
  /\ avr \in Targets
  /\ flash \in [PageNumbers -> [Offsets -> Bytes \cup {Erased, Torn}]]

Jobs == [command : Commands, page : PageNumbers, image : AllImages]

ProgrammerType ==
  /\ pc \in Places /\ job \in Jobs
  /\ updi_ptr \in -1 .. Top /\ count \in Nat /\ tries \in 0 .. MaxTries
  /\ got \in Seq(Bytes \cup {Erased, Torn, 0, 1}) /\ done \in BOOLEAN

GhostType == unsure \in BOOLEAN /\ losses \in 0 .. MaxLosses

Typed == TargetType /\ ProgrammerType /\ GhostType

Accessing == {"flash", "fbusy", "status", "read"}
WithKey == {"sync", "key", "keystatus"}
Asking == WithKey \cup {"reset", "sysstatus"}

\* Which command is where, and how far.
InPlace ==
  /\ pc \in Asking => job.command \in {"setup", "erase", "reset"}
  /\ pc \in WithKey => job.command \in {"setup", "erase"}
  /\ pc = "flash" => job.command = "flash" /\ count <= LastStore
  /\ pc \in {"fbusy", "status"} => job.command = "flash"
  /\ pc = "read" => job.command = "read" /\ count <= PageSize /\ Len(got) = count
  /\ pc \notin Accessing => updi_ptr = -1
  /\ IF pc = "idle" THEN count = 0 ELSE ~done

Programming == avr.on /\ avr.mode = "programming"

\* NVMCTRL.ADDR holds the address of the page, its buffer the image.
Named == avr.lo + Byte * avr.hi = Address(job.page)
Prepared == Named /\ avr.buf = job.image /\ Programming

\* What is in the target before the n-th store of UPDIFlash.
Before(n, to) ==
  /\ ~to.busy
  /\ n > 0 => to.lo = Address(job.page) % Byte
  /\ n > 1 => to.hi = Address(job.page) \div Byte
  /\ \A o \in Offsets : o < n - 3 => to.buf[o] = job.image[o]

\* UPDIFlash, while nothing it stored was lost: what was stored so far is there,
\* the page is being written or was, and a success means that it was.
FlashOnTheWay ==
  /\ pc = "flash" => Before(count, avr)
  /\ pc \in {"fbusy", "status"} =>
       Prepared /\ (~avr.busy => flash[job.page] = job.image)
  /\ job.command = "flash" /\ done =>
       Programming /\ ~avr.busy /\ flash[job.page] = job.image

\* UPDIReadMemoryArea: what was read so far is what the page holds.
ReadOnTheWay ==
  /\ pc = "read" => /\ ~avr.busy
                    /\ count > 0 => Programming
                    /\ \A o \in Offsets : o < count => got[o + 1] = flash[job.page][o]
  /\ job.command = "read" /\ done =>
       /\ Programming /\ ~avr.busy
       /\ \A o \in Offsets : got[o + 1] = flash[job.page][o]

\* A page is being written only on behalf of the last UPDIFlash.
BusyWithTheJob ==
  avr.busy => job.command = "flash" /\ pc \in {"fbusy", "status", "idle"} /\ Prepared

Certain == ~unsure => FlashOnTheWay /\ ReadOnTheWay /\ BusyWithTheJob

IInv == Typed /\ InPlace /\ PointerInStep /\ Certain /\ AnswersAreTrue

LEMMA InvariantImplies ==
  IInv => TypeOK /\ PointerInStep /\ ReportedIsStored /\ ReadIsRight /\ AnswersAreTrue
BY DEF IInv, Typed, TargetType, ProgrammerType, GhostType, Jobs, Certain, FlashOnTheWay,
       ReadOnTheWay, TypeOK, PointerInStep, ReportedIsStored, ReadIsRight, AnswersAreTrue

-----------------------------------------------------------------------------
(***************************************************************************)
(* Addresses.                                                              *)
(***************************************************************************)
LEMMA Sizes ==
  /\ PageSize \in Nat /\ PageSize > 0 /\ Pages \in Nat /\ Byte \in Nat /\ Byte > 4
  /\ Base \in Nat /\ Base > ADDR + 2 /\ Top \in Nat /\ Top < Byte * Byte
  /\ Address(Pages) \in Nat /\ Address(Pages) < Top
  /\ CTRLA = 0 /\ STATUS = 2 /\ ADDR = 8
<1>1. /\ PageSize \in Nat /\ PageSize > 0 /\ Pages \in Nat /\ Byte \in Nat /\ Byte > 4
      /\ Base \in Nat /\ Base > ADDR + 2 /\ Top < Byte * Byte
  BY UpdiNvmAssumption
<1>2. Pages * PageSize \in Nat /\ PageSize * (Pages + 1) = Pages * PageSize + PageSize
  BY <1>1
<1>3. Top \in Nat /\ Address(Pages) \in Nat /\ Address(Pages) < Top
  BY <1>1, <1>2 DEF Top, Address
<1> QED
  BY <1>1, <1>3 DEF CTRLA, STATUS, ADDR

\* A page lies between the start of the flash and its end.
LEMMA PageInside ==
  ASSUME NEW page \in PageNumbers
  PROVE  /\ page \in Nat /\ Address(page) \in Nat /\ Address(page) >= Base
         /\ Address(page) + PageSize <= Address(Pages)
<1>1. page \in Nat /\ page + 1 <= Pages
  BY Sizes DEF PageNumbers
<1>2. page * PageSize \in Nat /\ page * PageSize + PageSize = (page + 1) * PageSize
  BY <1>1, Sizes
<1>3. (page + 1) * PageSize <= Pages * PageSize
  BY <1>1, Sizes
<1> QED
  BY <1>1, <1>2, <1>3, Sizes DEF Address

\* No two pages have the same address.
LEMMA PageUnique ==
  ASSUME NEW p \in PageNumbers, NEW q \in PageNumbers, Address(p) = Address(q)
  PROVE  p = q
<1>1. p \in Nat /\ q \in Nat /\ p * PageSize = q * PageSize
  BY PageInside, Sizes DEF Address
<1>2. CASE p < q
  <2>1. (p + 1) * PageSize <= q * PageSize /\ (p + 1) * PageSize = p * PageSize + PageSize
    BY <1>1, <1>2, Sizes
  <2> QED
    BY <1>1, <2>1, Sizes
<1>3. CASE q < p
  <2>1. (q + 1) * PageSize <= p * PageSize /\ (q + 1) * PageSize = q * PageSize + PageSize
    BY <1>1, <1>3, Sizes
  <2> QED
    BY <1>1, <2>1, Sizes
<1> QED
  BY <1>1, <1>2, <1>3

\* The byte at an offset of a page is found by division.
LEMMA ByteOfPage ==
  ASSUME NEW page \in PageNumbers, NEW o \in Offsets
  PROVE  /\ Address(page) + o \in Base .. Address(Pages) - 1
         /\ (Address(page) + o - Base) % PageSize = o
         /\ (Address(page) + o - Base) \div PageSize = page
<1>1. page \in Nat /\ o \in Nat /\ o < PageSize
  BY PageInside, Sizes DEF Offsets
<1>2. Address(page) + o - Base = page * PageSize + o
  BY <1>1, Sizes DEF Address
<1>3. (page * PageSize + o) % PageSize = o /\ (page * PageSize + o) \div PageSize = page
  BY <1>1, Sizes
<1>4. Address(page) + o \in Base .. Address(Pages) - 1
  BY <1>1, PageInside, Sizes
<1> QED
  BY <1>2, <1>3, <1>4

LEMMA Division ==
  ASSUME NEW a \in Nat, NEW b \in Nat, b > 0
  PROVE  a % b \in 0 .. b - 1 /\ a \div b \in Nat /\ a = b * (a \div b) + (a % b)
<1>1. a % b \in 0 .. b - 1
  OBVIOUS
<1>2. a \div b \in Nat
  OBVIOUS
<1>3. a = b * (a \div b) + (a % b)
  OBVIOUS
<1> QED
  BY <1>1, <1>2, <1>3

\* An address is put together again from its two bytes.
LEMMA TwoBytes ==
  ASSUME NEW page \in PageNumbers
  PROVE  /\ Address(page) % Byte \in 0 .. Byte - 1
         /\ Address(page) \div Byte \in 0 .. Byte - 1
         /\ (Address(page) % Byte) + Byte * (Address(page) \div Byte) = Address(page)
<1> DEFINE a == Address(page)
           low == a % Byte
           high == a \div Byte
<1>1. a \in Nat /\ a < Byte * Byte
  BY PageInside, Sizes
<1>2. low \in 0 .. Byte - 1 /\ high \in Nat /\ a = Byte * high + low
  <2>1. Byte \in Nat /\ Byte > 0 /\ a \in Nat
    BY <1>1, Sizes
  <2> HIDE DEF a
  <2>2. a % Byte \in 0 .. Byte - 1 /\ a \div Byte \in Nat /\ a = Byte * (a \div Byte) + (a % Byte)
    BY <2>1, Division, Zenon
  <2> QED
    BY <2>2
<1> HIDE DEF a, low, high
<1>3. ASSUME high >= Byte PROVE FALSE
  <2>1. Byte * high >= Byte * Byte
    BY <1>2, <1>3, Sizes
  <2> QED
    BY <1>1, <1>2, <2>1, Sizes
<1>4. high \in 0 .. Byte - 1 /\ low + Byte * high = a
  <2>1. Byte * high \in Nat
    BY <1>2, Sizes
  <2> QED
    BY <1>2, <1>3, <2>1, Sizes
<1> QED
  BY <1>2, <1>4 DEF a, low, high

-----------------------------------------------------------------------------
(***************************************************************************)
(* The target.                                                             *)
(***************************************************************************)
LEMMA BlankType == Blank \in [Offsets -> Bytes \cup {Erased}]
BY DEF Blank

LEMMA PowerUpType ==
  ASSUME NEW locked \in BOOLEAN
  PROVE  /\ PowerUp(locked) \in Targets
         /\ ~PowerUp(locked).busy /\ PowerUp(locked).locked = locked
         /\ PowerUp(locked).mode = "run"
<1>1. 0 \in 0 .. Top /\ 0 \in 0 .. Byte - 1
  BY Sizes
<1> QED
  BY <1>1, BlankType DEF PowerUp, Targets, Keys

\* A store changes at most the registers and the buffer.
LEMMA StoredType ==
  ASSUME avr \in Targets, NEW q \in 0 .. Top, NEW v \in 0 .. Byte - 1
  PROVE  /\ Stored(q, v) \in Targets
         /\ Stored(q, v).on = avr.on /\ Stored(q, v).mode = avr.mode
         /\ Stored(q, v).locked = avr.locked
<1>1. CASE avr.busy
  BY <1>1 DEF Stored
<1>2. CASE ~avr.busy /\ q = ADDR
  <2>1. v % Byte \in 0 .. Byte - 1
    BY Sizes
  <2>2. Stored(q, v) = [avr EXCEPT !.lo = v % Byte]
    BY <1>2, Sizes DEF Stored
  <2> QED
    BY <2>1, <2>2 DEF Targets
<1>3. CASE ~avr.busy /\ q = ADDR + 1
  <2>1. Stored(q, v) = [avr EXCEPT !.hi = v]
    BY <1>3, Sizes DEF Stored
  <2> QED
    BY <2>1 DEF Targets
<1>4. CASE ~avr.busy /\ q = CTRLA /\ v = 4
  <2>1. Stored(q, v) = [avr EXCEPT !.buf = Blank]
    BY <1>4, Sizes DEF Stored
  <2> QED
    BY <2>1, BlankType DEF Targets
<1>5. CASE ~avr.busy /\ q = CTRLA /\ v = 3
  <2>1. Stored(q, v) = [avr EXCEPT !.busy = TRUE]
    BY <1>5, Sizes DEF Stored
  <2> QED
    BY <2>1 DEF Targets
<1>6. CASE ~avr.busy /\ q > ADDR + 1 /\ q \in Base .. Top - 1 /\ v \in Bytes
  <2> DEFINE place == (q - Base) % PageSize
  <2>1. place \in Offsets
    BY <1>6, Sizes, Division DEF Offsets
  <2> HIDE DEF place
  <2>2. [avr.buf EXCEPT ![place] = v] \in [Offsets -> Bytes \cup {Erased}]
    BY <1>6, <2>1 DEF Targets
  <2>3. Stored(q, v) = [avr EXCEPT !.buf[place] = v]
    BY <1>6, Sizes DEF Stored, place
  <2>4. Stored(q, v) = [avr EXCEPT !.buf = [avr.buf EXCEPT ![place] = v]]
    BY <2>3
  <2> QED
    BY <2>2, <2>4 DEF Targets
<1>7. CASE /\ ~avr.busy /\ q \notin {ADDR, ADDR + 1} /\ ~(q = CTRLA /\ v \in {3, 4})
           /\ ~(q \in Base .. Top - 1 /\ v \in Bytes)
  BY <1>7 DEF Stored
<1> QED
  BY <1>1, <1>2, <1>3, <1>4, <1>5, <1>6, <1>7, Sizes

LEMMA CutType ==
  ASSUME TargetType, Cut
  PROVE  flash' \in [PageNumbers -> [Offsets -> Bytes \cup {Erased, Torn}]]
BY DEF Cut, TargetType

\* A restarted target is not busy, and as locked as before.
LEMMA RestartType ==
  ASSUME TargetType, Restart
  PROVE  TargetType' /\ ~avr'.busy /\ avr'.locked = avr.locked
<1> DEFINE mode == CASE avr.key = "setup" /\ ~avr.locked -> "entering"
                     [] avr.key = "erase" -> "erasing"
                     [] OTHER -> "run"
<1>1. mode \in {"run", "entering", "programming", "erasing"}
  OBVIOUS
<1>2. avr.ptr \in 0 .. Top /\ avr.locked \in BOOLEAN
  BY DEF TargetType, Targets
<1>3. avr' = [PowerUp(avr.locked) EXCEPT !.ptr = avr.ptr, !.mode = mode]
  BY DEF Restart
<1> HIDE DEF mode
<1>4. avr' \in Targets /\ ~avr'.busy /\ avr'.locked = avr.locked
  BY <1>1, <1>2, <1>3, PowerUpType DEF Targets
<1> QED
  BY <1>4, CutType DEF Restart, TargetType

LEMMA RequestResetType ==
  ASSUME TargetType, RequestReset
  PROVE  TargetType' /\ avr'.locked = avr.locked /\ (avr'.busy => UNCHANGED target)
<1>1. CASE Restart
  BY <1>1, RestartType
<1>2. CASE UNCHANGED target
  BY <1>2 DEF target, TargetType
<1> QED
  BY <1>1, <1>2 DEF RequestReset

-----------------------------------------------------------------------------
(***************************************************************************)
(* Accesses to the target's memory.                                        *)
(***************************************************************************)
LEMMA ImageBytes ==
  ASSUME NEW image \in AllImages, NEW o \in Offsets
  PROVE  image[o] \in Bytes /\ image[o] \in 0 .. Byte - 1
BY UpdiNvmAssumption

\* What UPDIFlash stores, in order.
LEMMA StoresAre ==
  ASSUME job \in Jobs, NEW n \in 0 .. LastStore
  PROVE  /\ n = 0 => Stores(n) = <<ADDR, Address(job.page) % Byte>>
         /\ n = 1 => Stores(n) = <<ADDR + 1, Address(job.page) \div Byte>>
         /\ n = 2 => Stores(n) = <<CTRLA, 4>>
         /\ n = LastStore => Stores(n) = <<CTRLA, 3>>
         /\ n > 2 /\ n < LastStore =>
              /\ n - 3 \in Offsets
              /\ Stores(n) = <<Address(job.page) + n - 3, job.image[n - 3]>>
<1>1. LastStore \in Nat /\ LastStore > 3
  BY Sizes DEF LastStore
<1>2. n > 2 /\ n < LastStore => n - 3 \in Offsets
  BY Sizes DEF LastStore, Offsets
<1> QED
  BY <1>1, <1>2 DEF Stores

LEMMA StoresType ==
  ASSUME job \in Jobs, NEW n \in 0 .. LastStore
  PROVE  Stores(n)[1] \in 0 .. Top - 1 /\ Stores(n)[2] \in 0 .. Byte - 1
<1>1. job.page \in PageNumbers /\ job.image \in AllImages
  BY DEF Jobs
<1>2. CASE n \in {0, 1, 2, LastStore}
  <2>1. {CTRLA, ADDR, ADDR + 1} \subseteq 0 .. Top - 1 /\ {3, 4} \subseteq 0 .. Byte - 1
    BY Sizes DEF Top
  <2> QED
    BY <1>1, <1>2, <2>1, StoresAre, TwoBytes
<1>3. CASE n > 2 /\ n < LastStore
  <2>1. n - 3 \in Offsets /\ Stores(n) = <<Address(job.page) + n - 3, job.image[n - 3]>>
    BY <1>3, StoresAre
  <2>2. job.image[n - 3] \in 0 .. Byte - 1
    BY <1>1, <2>1, ImageBytes
  <2>3. Address(job.page) + (n - 3) \in Base .. Address(Pages) - 1
    BY <1>1, <2>1, ByteOfPage
  <2>4. Address(job.page) \in Nat /\ n \in Nat
    BY <1>1, <1>3, PageInside, Sizes DEF LastStore
  <2>5. Address(job.page) + n - 3 \in 0 .. Top - 1
    BY <2>3, <2>4, Sizes
  <2> QED
    BY <2>1, <2>2, <2>5
<1> QED
  BY <1>2, <1>3, Sizes DEF LastStore

LEMMA PointerForType ==
  ASSUME avr \in Targets, NEW a \in 0 .. Top, NEW arrives
  PROVE  PointerFor(a, arrives) \in 0 .. Top
BY DEF PointerFor, Targets

LEMMA AdvancedType ==
  ASSUME NEW q \in 0 .. Top
  PROVE  Advanced(q) \in 0 .. Top
BY Sizes DEF Advanced

LEMMA NotedType ==
  ASSUME GhostType, NEW lost \in BOOLEAN, Noted(lost)
  PROVE  GhostType' /\ (~unsure' => ~unsure /\ ~lost)
<1>1. unsure' \in BOOLEAN /\ (~unsure' => ~unsure /\ ~lost)
  BY DEF Noted, GhostType
<1>2. losses' \in 0 .. MaxLosses
  BY UpdiNvmAssumption DEF Noted, GhostType
<1> QED
  BY <1>1, <1>2 DEF GhostType

\* The pointer is where the copy says, or was stored, or it is known that it may
\* not be.
LEMMA PointedRight ==
  ASSUME PointerInStep, pc \in Accessing, ~unsure, NEW a \in 0 .. Top
  PROVE  PointerFor(a, TRUE) = a
<1>1. CASE updi_ptr = a
  <2>1. updi_ptr # -1
    BY <1>1, Sizes
  <2> QED
    BY <1>1, <2>1 DEF PointerFor, PointerInStep, Accessing
<1>2. CASE updi_ptr # a
  BY <1>2 DEF PointerFor
<1> QED
  BY <1>1, <1>2

LEMMA ArrivesType ==
  /\ Arrives \subseteq BOOLEAN /\ (TRUE \in Arrives => Serves)
  /\ \A a : PointerArrives(a) \subseteq BOOLEAN
BY DEF Arrives, PointerArrives

\* A store that was not lost goes where it was meant to.
LEMMA WriteEffect ==
  ASSUME Typed, PointerInStep, pc \in Accessing,
         NEW a \in 0 .. Top - 1, NEW v \in 0 .. Byte - 1, WriteMemory(a, v)
  PROVE  /\ avr' \in Targets /\ GhostType'
         /\ updi_ptr' = a + 1 /\ updi_ptr' \in -1 .. Top
         /\ ~unsure' => /\ ~unsure /\ Serves
                        /\ avr' = [Stored(a, v) EXCEPT !.ptr = Advanced(a)]
                        /\ updi_ptr' = avr'.ptr
<1>1. PICK pointed \in PointerArrives(a), arrives \in Arrives :
        /\ avr' = IF arrives
                  THEN [Stored(PointerFor(a, pointed), v) EXCEPT !.ptr = Advanced(PointerFor(a, pointed))]
                  ELSE [avr EXCEPT !.ptr = PointerFor(a, pointed)]
        /\ Noted(~pointed \/ ~arrives)
        /\ CopyPointer(a, TRUE)
  BY DEF WriteMemory
<1>2. pointed \in BOOLEAN /\ arrives \in BOOLEAN
  BY ArrivesType
<1>3. avr \in Targets /\ a \in 0 .. Top
  BY Sizes DEF Typed, TargetType
<1>4. PointerFor(a, pointed) \in 0 .. Top
  BY <1>3, PointerForType
<1>5. avr' \in Targets
  <2>1. CASE arrives
    <3>1. Stored(PointerFor(a, pointed), v) \in Targets /\ Advanced(PointerFor(a, pointed)) \in 0 .. Top
      BY <1>3, <1>4, StoredType, AdvancedType
    <3> QED
      BY <1>1, <2>1, <3>1 DEF Targets
  <2>2. CASE ~arrives
    BY <1>1, <1>3, <1>4, <2>2 DEF Targets
  <2> QED
    BY <2>1, <2>2
<1>6. GhostType' /\ (~unsure' => ~unsure /\ pointed /\ arrives)
  BY <1>1, <1>2, NotedType DEF Typed
<1>7. updi_ptr' = a + 1 /\ updi_ptr' \in -1 .. Top
  BY <1>1, Sizes DEF CopyPointer
<1>8. ASSUME ~unsure'
      PROVE  /\ ~unsure /\ Serves /\ updi_ptr' = avr'.ptr
             /\ avr' = [Stored(a, v) EXCEPT !.ptr = Advanced(a)]
  <2>1. ~unsure /\ pointed = TRUE /\ arrives = TRUE /\ Serves
    BY <1>2, <1>6, <1>8, ArrivesType
  <2>2. PointerFor(a, pointed) = a
    BY <1>3, <2>1, PointedRight
  <2>3. avr' = [Stored(a, v) EXCEPT !.ptr = Advanced(a)]
    BY <1>1, <2>1, <2>2
  <2>4. Stored(a, v) \in Targets
    BY <1>3, StoredType
  <2>5. avr'.ptr = Advanced(a) /\ Advanced(a) = a + 1
    BY <2>3, <2>4, Sizes DEF Targets, Advanced
  <2> QED
    BY <1>7, <2>1, <2>3, <2>5
<1> QED
  BY <1>5, <1>6, <1>7, <1>8

\* A read leaves all but the pointer alone, and what is heard of one whose pointer
\* was not lost comes from its address.
LEMMA ReadEffect ==
  ASSUME Typed, PointerInStep, pc \in Accessing,
         NEW a \in 0 .. Top - 1, NEW increment \in BOOLEAN, NEW r, ReadMemory(a, increment, r)
  PROVE  /\ avr' \in Targets /\ avr' = [avr EXCEPT !.ptr = avr'.ptr] /\ GhostType'
         /\ ~unsure' => /\ ~unsure
                        /\ r # -1 => Serves /\ r \in Loaded(a)
                        /\ ~increment => avr'.ptr = a
                        /\ increment /\ r # -1 => avr'.ptr = a + 1
<1>1. PICK pointed \in PointerArrives(a), arrives \in Arrives :
        /\ r \in (IF arrives THEN Loaded(PointerFor(a, pointed)) ELSE {}) \cup {-1}
        /\ avr' = [avr EXCEPT !.ptr = IF arrives /\ increment THEN Advanced(PointerFor(a, pointed))
                                      ELSE PointerFor(a, pointed)]
        /\ Noted(~pointed)
  BY DEF ReadMemory
<1>2. pointed \in BOOLEAN /\ arrives \in BOOLEAN
  BY ArrivesType
<1>3. avr \in Targets /\ a \in 0 .. Top
  BY Sizes DEF Typed, TargetType
<1> DEFINE q == PointerFor(a, pointed)
           p == IF arrives /\ increment THEN Advanced(q) ELSE q
<1>4. q \in 0 .. Top /\ p \in 0 .. Top
  BY <1>3, PointerForType, AdvancedType
<1>5. avr' = [avr EXCEPT !.ptr = p] /\ avr' \in Targets /\ avr'.ptr = p
  BY <1>1, <1>3, <1>4 DEF Targets
<1>6. GhostType' /\ (~unsure' => ~unsure /\ pointed)
  BY <1>1, <1>2, NotedType DEF Typed
<1>7. ASSUME ~unsure'
      PROVE  /\ ~unsure
             /\ r # -1 => Serves /\ r \in Loaded(a)
             /\ ~increment => avr'.ptr = a
             /\ increment /\ r # -1 => avr'.ptr = a + 1
  <2>1. ~unsure /\ pointed = TRUE
    BY <1>2, <1>6, <1>7
  <2>2. q = a
    BY <1>3, <2>1, PointedRight
  <2>3. r # -1 => arrives = TRUE /\ r \in Loaded(q)
    BY <1>1, <1>2
  <2>4. r # -1 => Serves
    BY <2>3, ArrivesType
  <2>5. Advanced(a) = a + 1
    BY Sizes DEF Advanced
  <2> HIDE DEF q
  <2> QED
    BY <1>5, <2>1, <2>2, <2>3, <2>4, <2>5
<1> QED
  BY <1>5, <1>6, <1>7

-----------------------------------------------------------------------------
(***************************************************************************)
(* Setup, erasure and reset: every step keeps the invariant.               *)
(***************************************************************************)
\* Where a command goes on, goes back and ends.
LEMMA GoesOn ==
  ASSUME ProgrammerType, InPlace, pc \in Asking, NEW p \in Asking, Goto(p) \/ TryAgain(p),
         pc \in WithKey \/ p \notin WithKey
  PROVE  ProgrammerType' /\ InPlace' /\ job' = job /\ pc' \in Asking /\ ~done'
<1>1. pc' = p /\ count' = 0 /\ UNCHANGED <<job, updi_ptr, got, done>>
  BY DEF Goto, TryAgain
<1>2. tries' \in 0 .. MaxTries
  BY UpdiNvmAssumption DEF Goto, TryAgain, ProgrammerType
<1>3. p \in Places /\ p \notin Accessing /\ p # "idle" /\ pc \notin Accessing /\ pc # "idle"
  BY DEF Asking, WithKey, Places, Accessing
<1>4. ProgrammerType'
  BY <1>1, <1>2, <1>3 DEF ProgrammerType, Jobs
<1>5. updi_ptr = -1 /\ ~done /\ job.command \in {"setup", "erase", "reset"}
  BY <1>3 DEF InPlace
<1>6. InPlace'
  BY <1>1, <1>3, <1>5 DEF InPlace, Accessing, Asking, WithKey
<1> QED
  BY <1>1, <1>4, <1>5, <1>6

LEMMA Returns ==
  ASSUME ProgrammerType, InPlace, NEW ok \in BOOLEAN, Return(ok)
  PROVE  ProgrammerType' /\ InPlace' /\ job' = job /\ pc' = "idle" /\ done' = ok
<1>1. /\ pc' = "idle" /\ done' = ok /\ updi_ptr' = -1 /\ count' = 0 /\ tries' = 0
      /\ job' = job /\ got' \in {got, <<>>}
  BY DEF Return
<1>2. "idle" \in Places /\ "idle" \notin Asking \cup Accessing
  BY DEF Places, Asking, WithKey, Accessing
<1>3. -1 \in -1 .. Top /\ 0 \in 0 .. MaxTries /\ got' \in Seq(Bytes \cup {Erased, Torn, 0, 1})
  <2>1. <<>> \in Seq(Bytes \cup {Erased, Torn, 0, 1})
    OBVIOUS
  <2>2. got \in Seq(Bytes \cup {Erased, Torn, 0, 1})
    BY DEF ProgrammerType
  <2>3. got' \in Seq(Bytes \cup {Erased, Torn, 0, 1})
    BY <1>1, <2>1, <2>2
  <2>4. MaxTries \in Nat
    BY UpdiNvmAssumption
  <2>5. -1 \in -1 .. Top /\ 0 \in 0 .. MaxTries
    BY <2>4, Sizes
  <2> QED
    BY <2>3, <2>5
<1>4. ProgrammerType'
  BY <1>1, <1>2, <1>3 DEF ProgrammerType, Jobs
<1>5. InPlace'
  BY <1>1, <1>2 DEF InPlace, Accessing, Asking
<1> QED
  BY <1>1, <1>4, <1>5

\* Nothing is promised of pages and pointers by a command that is about neither.
LEMMA AskingKeeps ==
  ASSUME IInv, pc \in Asking, TargetType', ProgrammerType', InPlace', UNCHANGED ghosts,
         job' = job, pc' \in Asking \cup {"idle"}, avr'.busy => avr.busy,
         done' => AnswersAreTrue'
  PROVE  IInv'
<1>1. Typed'
  BY DEF IInv, Typed, GhostType, ghosts
<1>2. job.command \in {"setup", "erase", "reset"}
  BY DEF IInv, InPlace
<1>3. PointerInStep'
  BY DEF PointerInStep, Asking, WithKey
<1>4. Certain'
  <2>1. ~unsure => ~avr.busy
    BY <1>2 DEF IInv, Certain, BusyWithTheJob
  <2>2. unsure' = unsure
    BY DEF ghosts
  <2>3. FlashOnTheWay' /\ ReadOnTheWay'
    BY <1>2 DEF FlashOnTheWay, ReadOnTheWay, Asking, WithKey
  <2>4. ~unsure' => BusyWithTheJob'
    BY <2>1, <2>2 DEF BusyWithTheJob
  <2> QED
    BY <2>3, <2>4 DEF Certain
<1>5. AnswersAreTrue'
  BY DEF AnswersAreTrue
<1> QED
  BY <1>1, <1>3, <1>4, <1>5 DEF IInv

LEMMA SyncKeeps ==
  ASSUME IInv, Sync
  PROVE  IInv'
<1>1. pc \in WithKey /\ pc \in Asking /\ "key" \in Asking /\ "sync" \in Asking
  BY DEF Sync, Asking, WithKey
<1>2. ProgrammerType' /\ InPlace' /\ job' = job /\ pc' \in Asking \cup {"idle"} /\ ~done'
  <2>1. Return(FALSE) \/ Goto("key") \/ TryAgain("sync")
    BY DEF Sync
  <2> QED
    BY <1>1, <2>1, GoesOn, Returns DEF IInv, Typed
<1>3. UNCHANGED <<target, ghosts>>
  BY DEF Sync
<1>4. TargetType' /\ avr' = avr
  BY <1>3 DEF IInv, Typed, TargetType, target
<1> QED
  BY <1>1, <1>2, <1>3, <1>4, AskingKeeps

LEMMA SendKeyKeeps ==
  ASSUME IInv, SendKey
  PROVE  IInv'
<1>1. pc \in WithKey /\ pc \in Asking /\ "keystatus" \in Asking
  BY DEF SendKey, Asking, WithKey
<1>2. PICK arrives \in Heard : avr' = IF arrives THEN [avr EXCEPT !.key = job.command] ELSE avr
  BY DEF SendKey
<1>3. Goto("keystatus") /\ flash' = flash /\ UNCHANGED ghosts
  BY DEF SendKey
<1>4. ProgrammerType' /\ InPlace' /\ job' = job /\ pc' \in Asking /\ ~done'
  BY <1>1, <1>3, GoesOn DEF IInv, Typed
<1>5. avr' \in Targets /\ avr'.busy = avr.busy
  <2>1. avr \in Targets /\ job.command \in Keys
    BY <1>1 DEF IInv, Typed, TargetType, InPlace, Keys
  <2>2. CASE arrives
    <3>1. avr' = [avr EXCEPT !.key = job.command]
      BY <1>2, <2>2
    <3> QED
      BY <2>1, <3>1 DEF Targets
  <2>3. CASE ~arrives
    BY <1>2, <2>1, <2>3
  <2> QED
    BY <2>2, <2>3
<1> QED
  BY <1>1, <1>3, <1>4, <1>5, AskingKeeps DEF IInv, Typed, TargetType

LEMMA KeyTakenKeeps ==
  ASSUME IInv, KeyTaken
  PROVE  IInv'
<1>1. pc \in WithKey /\ pc \in Asking /\ "reset" \in Asking
  BY DEF KeyTaken, Asking, WithKey
<1>2. Goto("reset") /\ UNCHANGED <<target, ghosts>>
  BY DEF KeyTaken
<1>3. ProgrammerType' /\ InPlace' /\ job' = job /\ pc' \in Asking /\ ~done'
  BY <1>1, <1>2, GoesOn DEF IInv, Typed
<1>4. TargetType' /\ avr' = avr
  BY <1>2 DEF IInv, Typed, TargetType, target
<1> QED
  BY <1>1, <1>2, <1>3, <1>4, AskingKeeps

LEMMA KeyRefusedKeeps ==
  ASSUME IInv, KeyRefused
  PROVE  IInv'
<1>1. pc \in WithKey /\ pc \in Asking /\ "key" \in Asking
  BY DEF KeyRefused, Asking, WithKey
<1>2. ProgrammerType' /\ InPlace' /\ job' = job /\ pc' \in Asking \cup {"idle"} /\ ~done'
  <2>1. TryAgain("key") \/ Return(FALSE)
    BY DEF KeyRefused
  <2> QED
    BY <1>1, <2>1, GoesOn, Returns DEF IInv, Typed
<1>3. UNCHANGED ghosts /\ (RequestReset \/ UNCHANGED target)
  BY DEF KeyRefused
<1>4. TargetType' /\ (avr'.busy => avr.busy)
  <2>1. CASE RequestReset
    BY <2>1, RequestResetType DEF IInv, Typed, target
  <2>2. CASE UNCHANGED target
    BY <2>2 DEF IInv, Typed, TargetType, target
  <2> QED
    BY <1>3, <2>1, <2>2
<1> QED
  BY <1>1, <1>2, <1>3, <1>4, AskingKeeps

LEMMA KeyUnheardKeeps ==
  ASSUME IInv, KeyUnheard
  PROVE  IInv'
<1>1. pc \in WithKey /\ pc \in Asking /\ "key" \in Asking
  BY DEF KeyUnheard, Asking, WithKey
<1>2. ProgrammerType' /\ InPlace' /\ job' = job /\ pc' \in Asking \cup {"idle"} /\ ~done'
  <2>1. TryAgain("key") \/ Return(FALSE)
    BY DEF KeyUnheard
  <2> QED
    BY <1>1, <2>1, GoesOn, Returns DEF IInv, Typed
<1>3. UNCHANGED <<target, ghosts>>
  BY DEF KeyUnheard
<1>4. TargetType' /\ avr' = avr
  BY <1>3 DEF IInv, Typed, TargetType, target
<1> QED
  BY <1>1, <1>2, <1>3, <1>4, AskingKeeps

LEMMA ResetRequestedKeeps ==
  ASSUME IInv, ResetRequested
  PROVE  IInv'
<1>1. pc \in Asking /\ "sysstatus" \in Asking \ WithKey
  BY DEF ResetRequested, Asking, WithKey
<1>2. Goto("sysstatus") /\ RequestReset /\ UNCHANGED ghosts
  BY DEF ResetRequested
<1>3. ProgrammerType' /\ InPlace' /\ job' = job /\ pc' \in Asking /\ ~done'
  BY <1>1, <1>2, GoesOn DEF IInv, Typed
<1>4. TargetType' /\ (avr'.busy => avr.busy)
  BY <1>2, RequestResetType DEF IInv, Typed, target
<1> QED
  BY <1>1, <1>2, <1>3, <1>4, AskingKeeps

\* A setup and an erasure succeed on what the status says.
LEMMA StatusIsReadyKeeps ==
  ASSUME IInv, StatusIsReady
  PROVE  IInv'
<1>1. pc \in Asking
  BY DEF StatusIsReady, Asking
<1>2. Return(TRUE) /\ UNCHANGED <<target, ghosts>>
  BY DEF StatusIsReady
<1>3. ProgrammerType' /\ InPlace' /\ job' = job /\ pc' = "idle" /\ done' = TRUE
  BY <1>2, Returns DEF IInv, Typed
<1>4. TargetType' /\ avr' = avr
  BY <1>2 DEF IInv, Typed, TargetType, target
<1>5. AnswersAreTrue'
  <2>1. job.command = "setup" => Serves
    BY DEF StatusIsReady, Ready
  <2>2. job.command = "erase" => ~avr.locked
    BY DEF StatusIsReady, Ready
  <2> QED
    BY <1>3, <1>4, <2>1, <2>2 DEF AnswersAreTrue, Serves
<1> QED
  BY <1>1, <1>2, <1>3, <1>4, <1>5, AskingKeeps

LEMMA StatusIsNotKeeps ==
  ASSUME IInv, StatusIsNot
  PROVE  IInv'
<1>1. pc = "sysstatus" /\ pc \in Asking /\ "reset" \in Asking \ WithKey /\ pc \notin WithKey
  BY DEF StatusIsNot, Asking, WithKey
<1>2. UNCHANGED <<target, ghosts>>
  BY DEF StatusIsNot
<1>3. TargetType' /\ avr' = avr
  BY <1>2 DEF IInv, Typed, TargetType, target
<1>4. CASE count' = count + 1 /\ UNCHANGED <<pc, job, tries, done, updi_ptr, got>>
  <2>1. ~done'
    BY <1>1, <1>4 DEF IInv, InPlace
  <2>2. ProgrammerType'
    BY <1>4 DEF IInv, Typed, ProgrammerType, Jobs
  <2>3. InPlace'
    BY <1>1, <1>4, <2>1 DEF IInv, InPlace, Accessing
  <2> QED
    BY <1>1, <1>2, <1>3, <1>4, <2>1, <2>2, <2>3, AskingKeeps
<1>5. CASE TryAgain("reset")
  <2>1. ProgrammerType' /\ InPlace' /\ job' = job /\ pc' \in Asking /\ ~done'
    BY <1>1, <1>5, GoesOn DEF IInv, Typed
  <2> QED
    BY <1>1, <1>2, <1>3, <2>1, AskingKeeps
<1>6. CASE Return(GivenUp)
  <2>1. GivenUp \in BOOLEAN
    BY DEF GivenUp
  <2>2. ProgrammerType' /\ InPlace' /\ job' = job /\ pc' = "idle" /\ done' = GivenUp
    BY <1>6, <2>1, Returns DEF IInv, Typed
  <2>3. done' => AnswersAreTrue'
    BY <2>2 DEF GivenUp, AnswersAreTrue
  <2> QED
    BY <1>1, <1>2, <1>3, <2>2, <2>3, AskingKeeps
<1> QED
  BY <1>4, <1>5, <1>6 DEF StatusIsNot

LEMMA StatusUnheardKeeps ==
  ASSUME IInv, StatusUnheard
  PROVE  IInv'
<1>1. pc \in Asking /\ Return(FALSE) /\ UNCHANGED <<target, ghosts>>
  BY DEF StatusUnheard, Asking
<1>2. ProgrammerType' /\ InPlace' /\ job' = job /\ pc' = "idle" /\ done' = FALSE
  BY <1>1, Returns DEF IInv, Typed
<1>3. TargetType' /\ avr' = avr
  BY <1>1 DEF IInv, Typed, TargetType, target
<1> QED
  BY <1>1, <1>2, <1>3, AskingKeeps

-----------------------------------------------------------------------------
(***************************************************************************)
(* UPDIFlash.                                                              *)
(***************************************************************************)
\* Each store adds its part.
LEMMA StoreLands ==
  ASSUME avr \in Targets, job \in Jobs, NEW n \in 0 .. LastStore - 1, Before(n, avr)
  PROVE  Before(n + 1, Stored(Stores(n)[1], Stores(n)[2]))
<1>1. n \in Nat /\ n \in 0 .. LastStore /\ n < LastStore /\ LastStore \in Nat
  BY Sizes DEF LastStore
<1>2. job.page \in PageNumbers /\ job.image \in AllImages
  BY DEF Jobs
<1>3. ~avr.busy
  BY DEF Before
<1>4. CASE n = 0
  <2>1. Stores(n) = <<ADDR, Address(job.page) % Byte>>
    BY <1>1, <1>4, StoresAre
  <2> DEFINE low == Address(job.page) % Byte
  <2>2. low \in 0 .. Byte - 1
    BY <1>2, TwoBytes
  <2> HIDE DEF low
  <2>3. low % Byte = low
    BY <2>2, Sizes
  <2>4. Stored(ADDR, low) = [avr EXCEPT !.lo = low]
    BY <1>3, <2>3, Sizes DEF Stored
  <2>5. Stored(ADDR, low).lo = low /\ ~Stored(ADDR, low).busy
    BY <1>3, <2>4 DEF Targets
  <2>6. \A o \in Offsets : ~(o < (n + 1) - 3)
    BY <1>4, Sizes DEF Offsets
  <2> QED
    BY <1>4, <2>1, <2>5, <2>6 DEF Before, low
<1>5. CASE n = 1
  <2> DEFINE high == Address(job.page) \div Byte
  <2>1. Stores(n) = <<ADDR + 1, high>>
    BY <1>1, <1>5, StoresAre
  <2>2. Stored(ADDR + 1, high) = [avr EXCEPT !.hi = high]
    BY <1>3, Sizes DEF Stored
  <2>3. /\ Stored(ADDR + 1, high).lo = avr.lo /\ Stored(ADDR + 1, high).hi = high
        /\ Stored(ADDR + 1, high).busy = avr.busy
    BY <2>2 DEF Targets
  <2>4. \A o \in Offsets : ~(o < (n + 1) - 3)
    BY <1>5, Sizes DEF Offsets
  <2> QED
    BY <1>5, <2>1, <2>3, <2>4 DEF Before
<1>6. CASE n = 2
  <2>1. Stores(n) = <<CTRLA, 4>>
    BY <1>1, <1>6, StoresAre
  <2>2. Stored(CTRLA, 4) = [avr EXCEPT !.buf = Blank]
    BY <1>3, Sizes DEF Stored
  <2>3. /\ Stored(CTRLA, 4).lo = avr.lo /\ Stored(CTRLA, 4).hi = avr.hi
        /\ Stored(CTRLA, 4).busy = avr.busy
    BY <2>2 DEF Targets
  <2>4. \A o \in Offsets : ~(o < (n + 1) - 3)
    BY <1>6, Sizes DEF Offsets
  <2> QED
    BY <1>6, <2>1, <2>3, <2>4 DEF Before
<1>7. CASE n > 2
  <2> DEFINE place == n - 3
             q == Address(job.page) + place
             v == job.image[place]
  <2>1. place \in Offsets /\ Stores(n) = <<Address(job.page) + n - 3, v>>
    BY <1>1, <1>7, StoresAre
  <2>2. Address(job.page) \in Nat
    BY <1>2, PageInside
  <2>3. Stores(n) = <<q, v>>
    BY <1>1, <2>1, <2>2
  <2>4. place + 1 = (n + 1) - 3 /\ place \in Nat
    BY <1>1, <1>7
  <2>5. v \in Bytes /\ avr.buf \in [Offsets -> Bytes \cup {Erased}]
    BY <1>2, <2>1, ImageBytes DEF Targets
  <2> HIDE DEF place, q, v
  <2>6. q \in Base .. Address(Pages) - 1 /\ (q - Base) % PageSize = place
    <3>1. job.page \in PageNumbers /\ place \in Offsets
      BY <1>2, <2>1
    <3>2. /\ Address(job.page) + place \in Base .. Address(Pages) - 1
          /\ (Address(job.page) + place - Base) % PageSize = place
      BY <3>1, ByteOfPage, Zenon
    <3>3. q = Address(job.page) + place
      BY DEF q
    <3> QED
      BY <2>2, <2>4, <3>2, <3>3, Sizes
  <2>7. q \in Base .. Top - 1 /\ q # ADDR /\ q # ADDR + 1 /\ q # CTRLA
    BY <2>6, Sizes
  <2>8. Stored(q, v) = [avr EXCEPT !.buf[place] = v]
    BY <1>3, <2>5, <2>6, <2>7 DEF Stored
  <2>9. Stored(q, v) = [avr EXCEPT !.buf = [avr.buf EXCEPT ![place] = v]]
    BY <2>8
  <2>10. /\ Stored(q, v).lo = avr.lo /\ Stored(q, v).hi = avr.hi
         /\ Stored(q, v).busy = avr.busy
         /\ Stored(q, v).buf = [avr.buf EXCEPT ![place] = v]
    BY <2>9 DEF Targets
  <2>11. ASSUME NEW o \in Offsets, o < place + 1
         PROVE  Stored(q, v).buf[o] = job.image[o]
    <3>1. CASE o = place
      BY <2>1, <2>5, <2>10, <3>1 DEF v
    <3>2. CASE o # place
      <4>1. o < place /\ place = n - 3
        BY <1>1, <2>4, <2>11, <3>2, Sizes DEF Offsets, place
      <4>2. avr.buf[o] = job.image[o]
        BY <4>1 DEF Before
      <4> QED
        BY <2>5, <2>10, <3>2, <4>2
    <3> QED
      BY <3>1, <3>2
  <2>12. avr.lo = Address(job.page) % Byte /\ avr.hi = Address(job.page) \div Byte
    BY <1>7 DEF Before
  <2>13. Stores(n)[1] = q /\ Stores(n)[2] = v
    BY <2>3
  <2>14. \A o \in Offsets : o < (n + 1) - 3 => Stored(q, v).buf[o] = job.image[o]
    BY <2>4, <2>11
  <2>15. Before(n + 1, Stored(q, v))
    BY <1>3, <2>10, <2>12, <2>14 DEF Before
  <2> QED
    BY <2>13, <2>15
<1> QED
  BY <1>1, <1>4, <1>5, <1>6, <1>7

\* The last store starts the writing, of the page and with the image that were
\* asked for.
LEMMA LastStoreLands ==
  ASSUME avr \in Targets, job \in Jobs, Before(LastStore, avr)
  PROVE  /\ Stored(Stores(LastStore)[1], Stores(LastStore)[2]) = [avr EXCEPT !.busy = TRUE]
         /\ Named /\ avr.buf = job.image
<1>1. LastStore \in 0 .. LastStore /\ LastStore > 1 /\ LastStore - 3 = PageSize
  BY Sizes DEF LastStore
<1>2. job.page \in PageNumbers /\ job.image \in AllImages
  BY DEF Jobs
<1>3. Stores(LastStore) = <<CTRLA, 3>>
  BY <1>1, StoresAre
<1>4. Stored(CTRLA, 3) = [avr EXCEPT !.busy = TRUE]
  BY Sizes DEF Stored, Before
<1>5. Named
  <2>1. avr.lo = Address(job.page) % Byte /\ avr.hi = Address(job.page) \div Byte
    BY <1>1 DEF Before
  <2> QED
    BY <1>2, <2>1, TwoBytes DEF Named
<1>6. avr.buf = job.image
  <2>1. \A o \in Offsets : avr.buf[o] = job.image[o]
    BY <1>1, Sizes DEF Before, Offsets
  <2>2. avr.buf \in [Offsets -> Bytes \cup {Erased}] /\ job.image \in [Offsets -> Bytes]
    BY <1>2, UpdiNvmAssumption DEF Targets
  <2> QED
    BY <2>1, <2>2
<1> QED
  BY <1>3, <1>4, <1>5, <1>6

\* The pointer's advance disturbs nothing of it.
LEMMA BeforeWithPointer ==
  ASSUME NEW n, NEW to, to \in Targets, NEW ptr, Before(n, to)
  PROVE  Before(n, [to EXCEPT !.ptr = ptr])
BY DEF Before, Targets

LEMMA FlashStoreKeeps ==
  ASSUME IInv, FlashStore
  PROVE  IInv'
<1> DEFINE a == Stores(count)[1]
           v == Stores(count)[2]
<1>1. /\ pc = "flash" /\ pc \in Accessing /\ job.command = "flash" /\ ~done /\ job \in Jobs
      /\ count \in 0 .. LastStore /\ LastStore \in Nat /\ count \in Nat /\ avr \in Targets
  BY Sizes DEF FlashStore, IInv, InPlace, Typed, ProgrammerType, TargetType, Accessing, LastStore
<1>2. WriteMemory(a, v) /\ a \in 0 .. Top - 1 /\ v \in 0 .. Byte - 1
  BY <1>1, StoresType DEF FlashStore
<1> HIDE DEF a, v
<1>3. /\ avr' \in Targets /\ GhostType'
      /\ updi_ptr' = a + 1 /\ updi_ptr' \in -1 .. Top
      /\ ~unsure' => /\ ~unsure /\ Serves
                     /\ avr' = [Stored(a, v) EXCEPT !.ptr = Advanced(a)]
                     /\ updi_ptr' = avr'.ptr
  BY <1>1, <1>2, WriteEffect DEF IInv
<1>4. UNCHANGED <<flash, job, tries, got, done>>
  BY DEF FlashStore
<1>5. \/ count < LastStore /\ count' = count + 1 /\ pc' = "flash"
      \/ count = LastStore /\ count' = 0 /\ pc' = "fbusy"
  BY <1>1 DEF FlashStore
<1>6. Typed'
  <2>1. pc' \in Places /\ count' \in Nat
    BY <1>1, <1>5 DEF Places
  <2> QED
    BY <1>3, <1>4, <2>1 DEF IInv, Typed, TargetType, ProgrammerType, Jobs
<1>7. InPlace'
  <2>1. pc' \in {"flash", "fbusy"} /\ (pc' = "flash" => count' <= LastStore)
    BY <1>1, <1>5
  <2> QED
    BY <1>1, <1>4, <2>1 DEF InPlace, Accessing, Asking, WithKey, LastStore
<1>8. PointerInStep'
  BY <1>3 DEF PointerInStep
<1>9. AnswersAreTrue'
  BY <1>1, <1>4 DEF AnswersAreTrue
<1>10. ASSUME ~unsure' PROVE FlashOnTheWay' /\ ReadOnTheWay' /\ BusyWithTheJob'
  <2>1. ~unsure /\ Serves /\ avr' = [Stored(a, v) EXCEPT !.ptr = Advanced(a)] /\ Before(count, avr)
    BY <1>1, <1>3, <1>10 DEF IInv, Certain, FlashOnTheWay
  <2>2. Stored(a, v) \in Targets /\ Stored(a, v).on = avr.on /\ Stored(a, v).mode = avr.mode
    <3>1. a \in 0 .. Top
      BY <1>2, Sizes
    <3> QED
      BY <1>1, <1>2, <3>1, StoredType
  <2>3. ReadOnTheWay'
    BY <1>1, <1>4, <1>5 DEF ReadOnTheWay
  <2>4. CASE count < LastStore /\ count' = count + 1 /\ pc' = "flash"
    <3>1. count \in 0 .. LastStore - 1
      BY <1>1, <2>4
    <3>2. Before(count + 1, Stored(a, v))
      BY <1>1, <2>1, <3>1, StoreLands DEF a, v
    <3>3. Before(count + 1, avr')
      BY <2>1, <2>2, <3>2, BeforeWithPointer
    <3>4. Before(count, avr)'
      BY <1>4, <2>4, <3>3 DEF Before
    <3>5. ~avr'.busy
      BY <3>3 DEF Before
    <3> QED
      BY <1>1, <1>4, <2>3, <2>4, <3>4, <3>5 DEF FlashOnTheWay, BusyWithTheJob
  <2>5. CASE count = LastStore /\ pc' = "fbusy"
    <3>1. Stored(a, v) = [avr EXCEPT !.busy = TRUE] /\ Named /\ avr.buf = job.image
      BY <1>1, <2>1, <2>5, LastStoreLands DEF a, v
    <3>2. /\ avr'.busy = TRUE /\ avr'.lo = avr.lo /\ avr'.hi = avr.hi /\ avr'.buf = avr.buf
          /\ avr'.on = avr.on /\ avr'.mode = avr.mode
      BY <1>1, <2>1, <2>2, <3>1 DEF Targets
    <3>3. Prepared'
      BY <1>4, <2>1, <3>1, <3>2 DEF Prepared, Named, Programming, Serves
    <3> QED
      BY <1>1, <1>4, <2>3, <2>5, <3>2, <3>3 DEF FlashOnTheWay, BusyWithTheJob
  <2> QED
    BY <1>5, <2>4, <2>5
<1> QED
  BY <1>6, <1>7, <1>8, <1>9, <1>10 DEF IInv, Certain

\* What is promised of a page that is written does not depend on the pointer.
LEMMA PreparedWithPointer ==
  ASSUME avr \in Targets, avr' \in Targets, avr' = [avr EXCEPT !.ptr = avr'.ptr], job' = job
  PROVE  avr'.busy = avr.busy /\ avr'.locked = avr.locked /\ Serves' = Serves
         /\ Prepared' = Prepared
<1>1. /\ avr'.busy = avr.busy /\ avr'.locked = avr.locked /\ avr'.lo = avr.lo
      /\ avr'.hi = avr.hi /\ avr'.buf = avr.buf /\ avr'.on = avr.on /\ avr'.mode = avr.mode
  BY DEF Targets
<1>2. Serves' = Serves
  BY <1>1 DEF Serves
<1>3. Prepared' = Prepared
  BY <1>1 DEF Prepared, Named, Programming
<1> QED
  BY <1>1, <1>2, <1>3

LEMMA StatusPlace == STATUS \in 0 .. Top - 1
BY Sizes DEF Top

LEMMA PollFlashKeeps ==
  ASSUME IInv, PollFlash
  PROVE  IInv'
<1>1. /\ pc = "fbusy" /\ pc \in Accessing /\ job.command = "flash" /\ ~done /\ job \in Jobs
      /\ count \in Nat /\ avr \in Targets
  BY DEF PollFlash, IInv, InPlace, Typed, ProgrammerType, TargetType, Accessing
<1>2. PICK r \in Results :
        /\ ReadMemory(STATUS, FALSE, r) /\ CopyPointer(STATUS, FALSE)
        /\ \/ r # 0 /\ count' = count + 1 /\ UNCHANGED pc
           \/ r \notin {1, -1} /\ pc' = "status" /\ UNCHANGED count
  BY DEF PollFlash
<1>3. UNCHANGED <<flash, job, tries, got, done>>
  BY DEF PollFlash
<1>4. /\ avr' \in Targets /\ avr' = [avr EXCEPT !.ptr = avr'.ptr] /\ GhostType'
      /\ ~unsure' => ~unsure /\ avr'.ptr = STATUS
  BY <1>1, <1>2, StatusPlace, ReadEffect DEF IInv
<1>5. updi_ptr' = STATUS /\ updi_ptr' \in -1 .. Top
  BY <1>2, Sizes DEF CopyPointer, Top
<1>6. pc' \in {"fbusy", "status"} /\ count' \in Nat
  BY <1>1, <1>2
<1>7. Typed'
  BY <1>3, <1>4, <1>5, <1>6 DEF IInv, Typed, TargetType, ProgrammerType, Jobs, Places
<1>8. InPlace'
  BY <1>1, <1>3, <1>6 DEF InPlace, Accessing, Asking, WithKey
<1>9. PointerInStep'
  BY <1>4, <1>5 DEF PointerInStep
<1>10. AnswersAreTrue'
  BY <1>1, <1>3 DEF AnswersAreTrue
<1>11. ASSUME ~unsure' PROVE FlashOnTheWay' /\ ReadOnTheWay' /\ BusyWithTheJob'
  <2>1. Prepared /\ (~avr.busy => flash[job.page] = job.image)
    BY <1>1, <1>4, <1>11 DEF IInv, Certain, FlashOnTheWay
  <2>2. Prepared' /\ (~avr'.busy => flash'[job'.page] = job'.image)
    BY <1>1, <1>3, <1>4, <2>1, PreparedWithPointer
  <2> QED
    BY <1>1, <1>3, <1>6, <2>2 DEF FlashOnTheWay, ReadOnTheWay, BusyWithTheJob
<1> QED
  BY <1>7, <1>8, <1>9, <1>10, <1>11 DEF IInv, Certain

\* A success is answered on a status that is not busy.
LEMMA FlashEndsKeeps ==
  ASSUME IInv, FlashEnds
  PROVE  IInv'
<1>1. /\ pc \in {"fbusy", "status"} /\ pc \in Accessing /\ job.command = "flash" /\ job \in Jobs
      /\ avr \in Targets
  BY DEF FlashEnds, IInv, InPlace, Typed, ProgrammerType, TargetType, Accessing
<1>2. PICK r \in Results : ReadMemory(STATUS, FALSE, r) /\ Return(StatusOf(r))
  BY DEF FlashEnds
<1>3. flash' = flash
  BY DEF FlashEnds
<1>4. /\ avr' \in Targets /\ avr' = [avr EXCEPT !.ptr = avr'.ptr] /\ GhostType'
      /\ ~unsure' => ~unsure /\ (r # -1 => r \in Loaded(STATUS))
  BY <1>1, <1>2, StatusPlace, ReadEffect DEF IInv
<1>5. StatusOf(r) \in BOOLEAN
  BY DEF StatusOf
<1>6. ProgrammerType' /\ InPlace' /\ job' = job /\ pc' = "idle" /\ done' = StatusOf(r)
  BY <1>2, <1>5, Returns DEF IInv, Typed
<1>7. Typed'
  BY <1>3, <1>4, <1>6 DEF IInv, Typed, TargetType
<1>8. PointerInStep'
  BY <1>6 DEF PointerInStep
<1>9. AnswersAreTrue'
  BY <1>1, <1>6 DEF AnswersAreTrue
<1>10. ASSUME ~unsure' PROVE FlashOnTheWay' /\ ReadOnTheWay' /\ BusyWithTheJob'
  <2>1. Prepared /\ (~avr.busy => flash[job.page] = job.image)
    BY <1>1, <1>4, <1>10 DEF IInv, Certain, FlashOnTheWay
  <2>2. Prepared' /\ avr'.busy = avr.busy /\ (~avr'.busy => flash'[job'.page] = job'.image)
    BY <1>1, <1>3, <1>4, <1>6, <2>1, PreparedWithPointer
  <2>3. done' => ~avr.busy
    <3>1. ASSUME done' PROVE r = 0
      BY <1>6, <3>1 DEF StatusOf
    <3>2. r = 0 => r \in Loaded(STATUS)
      BY <1>4, <1>10
    <3>3. 0 \in Loaded(STATUS) => ~avr.busy
      BY DEF Loaded
    <3> QED
      BY <3>1, <3>2, <3>3
  <2>4. FlashOnTheWay'
    BY <1>6, <2>2, <2>3 DEF FlashOnTheWay, Prepared
  <2> QED
    BY <1>1, <1>6, <2>2, <2>4 DEF ReadOnTheWay, BusyWithTheJob
<1> QED
  BY <1>6, <1>7, <1>8, <1>9, <1>10 DEF IInv, Certain

-----------------------------------------------------------------------------
(***************************************************************************)
(* UPDIReadMemoryArea.                                                     *)
(***************************************************************************)
LEMMA ReadKeeps ==
  ASSUME IInv, Read
  PROVE  IInv'
<1> DEFINE a == Address(job.page) + count
           Heards == Bytes \cup {Erased, Torn, 0, 1}
<1>1. /\ pc = "read" /\ pc \in Accessing /\ job.command = "read" /\ ~done /\ job \in Jobs
      /\ count \in Offsets /\ count \in Nat /\ count < PageSize /\ PageSize \in Nat
      /\ avr \in Targets /\ job.page \in PageNumbers /\ got \in Seq(Heards) /\ Len(got) = count
  BY Sizes DEF Read, IInv, InPlace, Typed, ProgrammerType, TargetType, Accessing, Offsets, Jobs
<1>2. PICK r \in Results :
        /\ ReadMemory(a, TRUE, r)
        /\ IF r = -1 THEN Return(FALSE)
           ELSE /\ CopyPointer(a, TRUE)
                /\ got' = Append(got, r) /\ count' = count + 1
                /\ UNCHANGED <<pc, job, tries, done>>
  BY DEF Read
<1>3. flash' = flash
  BY DEF Read
<1>4. a \in Base .. Address(Pages) - 1 /\ a \in 0 .. Top - 1
  <2>1. a \in Base .. Address(Pages) - 1
    BY <1>1, ByteOfPage
  <2> QED
    BY <2>1, Sizes
<1>5. (a - Base) % PageSize = count /\ (a - Base) \div PageSize = job.page
  <2>1. job.page \in PageNumbers /\ count \in Offsets
    BY <1>1
  <2>2. /\ (Address(job.page) + count - Base) % PageSize = count
        /\ (Address(job.page) + count - Base) \div PageSize = job.page
    BY <2>1, ByteOfPage, Zenon
  <2>3. a = Address(job.page) + count /\ Address(job.page) \in Nat
    BY <2>1, PageInside
  <2> HIDE DEF a
  <2> QED
    BY <1>1, <2>2, <2>3, Sizes
<1> HIDE DEF a
<1>6. /\ avr' \in Targets /\ avr' = [avr EXCEPT !.ptr = avr'.ptr] /\ GhostType'
      /\ ~unsure' => /\ ~unsure
                     /\ r # -1 => Serves /\ r \in Loaded(a) /\ avr'.ptr = a + 1
  <2>1. Typed /\ PointerInStep /\ TRUE \in BOOLEAN /\ ReadMemory(a, TRUE, r)
    BY <1>2 DEF IInv
  <2>2. /\ avr' \in Targets /\ avr' = [avr EXCEPT !.ptr = avr'.ptr] /\ GhostType'
        /\ ~unsure' => /\ ~unsure
                       /\ r # -1 => Serves /\ r \in Loaded(a)
                       /\ ~TRUE => avr'.ptr = a
                       /\ TRUE /\ r # -1 => avr'.ptr = a + 1
    BY <1>1, <1>4, <2>1, ReadEffect, Zenon
  <2> QED
    BY <2>2
<1>7. avr'.busy = avr.busy /\ Serves' = Serves
  BY <1>1, <1>2, <1>6, PreparedWithPointer DEF Return
<1>8. CASE r = -1
  <2>1. ProgrammerType' /\ InPlace' /\ job' = job /\ pc' = "idle" /\ done' = FALSE
    BY <1>2, <1>8, Returns DEF IInv, Typed
  <2>2. Typed'
    BY <1>3, <1>6, <2>1 DEF IInv, Typed, TargetType
  <2>3. PointerInStep' /\ AnswersAreTrue'
    BY <2>1 DEF PointerInStep, AnswersAreTrue
  <2>4. ASSUME ~unsure' PROVE ~avr'.busy
    BY <1>1, <1>6, <1>7, <2>4 DEF IInv, Certain, ReadOnTheWay
  <2>5. Certain'
    BY <1>1, <2>1, <2>4 DEF Certain, FlashOnTheWay, ReadOnTheWay, BusyWithTheJob
  <2> QED
    BY <2>1, <2>2, <2>3, <2>5 DEF IInv
<1>9. CASE r # -1
  <2>1. /\ updi_ptr' = a + 1 /\ got' = Append(got, r) /\ count' = count + 1
        /\ pc' = "read" /\ job' = job /\ tries' = tries /\ done' = done
    BY <1>1, <1>2, <1>9 DEF CopyPointer
  <2>2. updi_ptr' \in -1 .. Top
    BY <1>4, <2>1, Sizes
  <2>3. r \in Heards
    BY <1>9 DEF Results
  <2> HIDE DEF Heards
  <2>4. got' \in Seq(Heards) /\ Len(got') = count + 1 /\ got'[count + 1] = r
    BY <1>1, <2>1, <2>3
  <2>5. ASSUME NEW i \in 1 .. count PROVE got'[i] = got[i]
    BY <1>1, <2>1, <2>3
  <2>6. ProgrammerType'
    BY <1>1, <2>1, <2>2, <2>4 DEF IInv, Typed, ProgrammerType, Jobs, Places, Heards
  <2>7. Typed'
    BY <1>3, <1>6, <2>6 DEF IInv, Typed, TargetType
  <2>8. InPlace'
    BY <1>1, <2>1, <2>4 DEF InPlace, Accessing, Asking, WithKey
  <2>9. PointerInStep'
    BY <1>6, <1>9, <2>1 DEF PointerInStep
  <2>10. AnswersAreTrue'
    BY <1>1, <2>1 DEF AnswersAreTrue
  <2>11. ASSUME ~unsure' PROVE FlashOnTheWay' /\ ReadOnTheWay' /\ BusyWithTheJob'
    <3>1. /\ ~unsure /\ Serves /\ r \in Loaded(a) /\ ~avr.busy
          /\ \A o \in Offsets : o < count => got[o + 1] = flash[job.page][o]
      BY <1>1, <1>6, <1>9, <2>11 DEF IInv, Certain, ReadOnTheWay
    <3>2. r = flash[job.page][count]
      <4>1. a # STATUS
        BY <1>4, Sizes
      <4>2. Loaded(a) = {flash[(a - Base) \div PageSize][(a - Base) % PageSize]}
        BY <1>4, <4>1 DEF Loaded
      <4> QED
        BY <1>5, <3>1, <4>2
    <3>3. ASSUME NEW o \in Offsets, o < count + 1 PROVE got'[o + 1] = flash[job.page][o]
      <4>1. CASE o = count
        BY <2>4, <3>2, <4>1
      <4>2. CASE o # count
        <5>1. o \in Nat /\ o < count /\ o + 1 \in 1 .. count
          BY <1>1, <3>3, <4>2, Sizes DEF Offsets
        <5>2. got'[o + 1] = got[o + 1]
          BY <2>5, <5>1
        <5> QED
          BY <3>1, <5>1, <5>2
      <4> QED
        BY <4>1, <4>2
    <3>4. Programming' /\ ~avr'.busy
      BY <1>7, <3>1 DEF Programming, Serves
    <3>5. ReadOnTheWay'
      BY <1>1, <1>3, <2>1, <3>3, <3>4 DEF ReadOnTheWay
    <3> QED
      BY <1>1, <2>1, <3>4, <3>5 DEF FlashOnTheWay, BusyWithTheJob
  <2> QED
    BY <2>7, <2>8, <2>9, <2>10, <2>11 DEF IInv, Certain
<1> QED
  BY <1>8, <1>9

LEMMA ReadEndsKeeps ==
  ASSUME IInv, ReadEnds
  PROVE  IInv'
<1>1. /\ pc = "read" /\ job.command = "read" /\ count = PageSize
      /\ Return(TRUE) /\ UNCHANGED <<target, ghosts>>
  BY DEF ReadEnds, IInv, InPlace
<1>2. ProgrammerType' /\ InPlace' /\ job' = job /\ pc' = "idle" /\ done' = TRUE /\ got' = got
  BY <1>1, Returns DEF IInv, Typed, Return
<1>3. avr' = avr /\ flash' = flash /\ unsure' = unsure
  BY <1>1 DEF target, ghosts
<1>4. Typed'
  BY <1>1, <1>2, <1>3 DEF IInv, Typed, TargetType, GhostType, ghosts
<1>5. PointerInStep' /\ AnswersAreTrue'
  BY <1>1, <1>2 DEF PointerInStep, AnswersAreTrue
<1>6. ASSUME ~unsure' PROVE FlashOnTheWay' /\ ReadOnTheWay' /\ BusyWithTheJob'
  <2>1. /\ ~avr.busy /\ Programming
        /\ \A o \in Offsets : o < count => got[o + 1] = flash[job.page][o]
    BY <1>1, <1>3, <1>6, Sizes DEF IInv, Certain, ReadOnTheWay
  <2>2. \A o \in Offsets : got[o + 1] = flash[job.page][o]
    BY <1>1, <2>1, Sizes DEF Offsets
  <2> QED
    BY <1>1, <1>2, <1>3, <2>1, <2>2 DEF FlashOnTheWay, ReadOnTheWay, BusyWithTheJob, Programming
<1> QED
  BY <1>2, <1>4, <1>5, <1>6 DEF IInv, Certain

-----------------------------------------------------------------------------
(***************************************************************************)
(* The target by itself.                                                   *)
(***************************************************************************)
\* A step of the target leaves the programmer as it is.
LEMMA ProgrammerUnchanged ==
  ASSUME IInv, TargetType', UNCHANGED <<programmer, ghosts>>
  PROVE  /\ Typed' /\ InPlace'
         /\ pc' = pc /\ job' = job /\ count' = count /\ done' = done /\ got' = got
         /\ unsure' = unsure /\ updi_ptr' = updi_ptr
<1>1. /\ pc' = pc /\ job' = job /\ count' = count /\ done' = done /\ got' = got
      /\ unsure' = unsure /\ updi_ptr' = updi_ptr /\ tries' = tries /\ losses' = losses
  BY DEF programmer, ghosts
<1>2. Typed'
  BY <1>1 DEF IInv, Typed, ProgrammerType, GhostType, Jobs
<1>3. InPlace'
  BY <1>1 DEF IInv, InPlace
<1> QED
  BY <1>1, <1>2, <1>3

LEMMA EnterKeeps ==
  ASSUME IInv, Enter
  PROVE  IInv'
<1>1. /\ avr.mode = "entering" /\ avr' = [avr EXCEPT !.mode = "programming"] /\ flash' = flash
      /\ UNCHANGED <<programmer, ghosts>> /\ avr \in Targets
  BY DEF Enter, IInv, Typed, TargetType
<1>2. /\ avr' \in Targets /\ avr'.busy = avr.busy /\ avr'.locked = avr.locked /\ avr'.on = avr.on
      /\ avr'.ptr = avr.ptr /\ avr'.lo = avr.lo /\ avr'.hi = avr.hi /\ avr'.buf = avr.buf
      /\ avr'.mode = "programming" /\ ~Programming /\ ~Serves
  BY <1>1 DEF Targets, Programming, Serves
<1>3. TargetType'
  BY <1>1, <1>2 DEF IInv, Typed, TargetType
<1>4. /\ Typed' /\ InPlace'
      /\ pc' = pc /\ job' = job /\ count' = count /\ done' = done /\ got' = got
      /\ unsure' = unsure /\ updi_ptr' = updi_ptr
  BY <1>1, <1>3, ProgrammerUnchanged
<1>5. PointerInStep' /\ AnswersAreTrue'
  BY <1>2, <1>4 DEF IInv, PointerInStep, AnswersAreTrue
<1>6. ASSUME ~unsure' PROVE FlashOnTheWay' /\ ReadOnTheWay' /\ BusyWithTheJob'
  <2>1. ~unsure /\ FlashOnTheWay /\ ReadOnTheWay /\ BusyWithTheJob
    BY <1>4, <1>6 DEF IInv, Certain
  <2>2. FlashOnTheWay'
    BY <1>1, <1>2, <1>4, <2>1 DEF FlashOnTheWay, Prepared, Before
  <2>3. ReadOnTheWay'
    BY <1>1, <1>2, <1>4, <2>1 DEF ReadOnTheWay
  <2>4. BusyWithTheJob'
    BY <1>1, <1>2, <1>4, <2>1 DEF BusyWithTheJob, Prepared
  <2> QED
    BY <2>2, <2>3, <2>4
<1> QED
  BY <1>4, <1>5, <1>6 DEF IInv, Certain

\* An erasure is of a target that has left the programming mode.
LEMMA ChipErasedKeeps ==
  ASSUME IInv, ChipErased
  PROVE  IInv'
<1>1. /\ avr.mode = "erasing" /\ avr' = [avr EXCEPT !.mode = "run", !.locked = FALSE]
      /\ flash' = [p \in PageNumbers |-> Blank]
      /\ UNCHANGED <<programmer, ghosts>> /\ avr \in Targets
  BY DEF ChipErased, IInv, Typed, TargetType
<1>2. /\ avr' \in Targets /\ avr'.busy = avr.busy /\ avr'.locked = FALSE
      /\ avr'.ptr = avr.ptr /\ avr'.lo = avr.lo /\ avr'.hi = avr.hi /\ avr'.buf = avr.buf
      /\ ~Programming /\ ~Serves
  BY <1>1 DEF Targets, Programming, Serves
<1>3. TargetType'
  BY <1>1, <1>2, BlankType DEF TargetType
<1>4. /\ Typed' /\ InPlace'
      /\ pc' = pc /\ job' = job /\ count' = count /\ done' = done /\ got' = got
      /\ unsure' = unsure /\ updi_ptr' = updi_ptr
  BY <1>1, <1>3, ProgrammerUnchanged
<1>5. PointerInStep' /\ AnswersAreTrue'
  BY <1>2, <1>4 DEF IInv, PointerInStep, AnswersAreTrue
<1>6. ASSUME ~unsure' PROVE FlashOnTheWay' /\ ReadOnTheWay' /\ BusyWithTheJob'
  <2>1. ~unsure /\ FlashOnTheWay /\ ReadOnTheWay /\ BusyWithTheJob
    BY <1>4, <1>6 DEF IInv, Certain
  <2>2. FlashOnTheWay'
    BY <1>1, <1>2, <1>4, <2>1 DEF FlashOnTheWay, Prepared, Before
  <2>3. ReadOnTheWay'
    BY <1>1, <1>2, <1>4, <2>1, Sizes DEF ReadOnTheWay, IInv, Typed, ProgrammerType, Offsets
  <2>4. BusyWithTheJob'
    BY <1>1, <1>2, <1>4, <2>1 DEF BusyWithTheJob, Prepared
  <2> QED
    BY <2>2, <2>3, <2>4
<1> QED
  BY <1>4, <1>5, <1>6 DEF IInv, Certain

\* A controller that is busy with the job, and knows the right address, writes that
\* page alone.
LEMMA AddressedIsAsked ==
  ASSUME IInv, ~unsure, avr.busy
  PROVE  /\ job.command = "flash" /\ pc \in {"fbusy", "status", "idle"} /\ Prepared
         /\ job.page \in PageNumbers /\ Addressed = {job.page}
<1>1. /\ job.command = "flash" /\ pc \in {"fbusy", "status", "idle"} /\ Prepared
      /\ job.page \in PageNumbers
  BY DEF IInv, Certain, BusyWithTheJob, Typed, ProgrammerType, Jobs
<1>2. \A p \in PageNumbers : Address(p) = avr.lo + Byte * avr.hi <=> p = job.page
  BY <1>1, PageUnique DEF Prepared, Named
<1> QED
  BY <1>1, <1>2 DEF Addressed

LEMMA PageWrittenKeeps ==
  ASSUME IInv, PageWritten
  PROVE  IInv'
<1>1. /\ avr.busy /\ avr' = [avr EXCEPT !.busy = FALSE]
      /\ flash' = [p \in PageNumbers |-> IF p \in Addressed THEN avr.buf ELSE flash[p]]
      /\ UNCHANGED <<programmer, ghosts>> /\ avr \in Targets
      /\ flash \in [PageNumbers -> [Offsets -> Bytes \cup {Erased, Torn}]]
  BY DEF PageWritten, IInv, Typed, TargetType
<1>2. /\ avr' \in Targets /\ ~avr'.busy /\ avr'.locked = avr.locked
      /\ avr'.on = avr.on /\ avr'.mode = avr.mode
      /\ avr'.ptr = avr.ptr /\ avr'.lo = avr.lo /\ avr'.hi = avr.hi /\ avr'.buf = avr.buf
  BY <1>1 DEF Targets
<1>3. TargetType'
  <2>1. avr.buf \in [Offsets -> Bytes \cup {Erased, Torn}]
    BY <1>1 DEF Targets
  <2> QED
    BY <1>1, <1>2, <2>1 DEF TargetType
<1>4. /\ Typed' /\ InPlace'
      /\ pc' = pc /\ job' = job /\ count' = count /\ done' = done /\ got' = got
      /\ unsure' = unsure /\ updi_ptr' = updi_ptr
  BY <1>1, <1>3, ProgrammerUnchanged
<1>5. PointerInStep' /\ AnswersAreTrue'
  BY <1>2, <1>4 DEF IInv, PointerInStep, AnswersAreTrue, Serves
<1>6. ASSUME ~unsure' PROVE FlashOnTheWay' /\ ReadOnTheWay' /\ BusyWithTheJob'
  <2>1. /\ job.command = "flash" /\ pc \in {"fbusy", "status", "idle"} /\ Prepared
        /\ job.page \in PageNumbers /\ Addressed = {job.page} /\ FlashOnTheWay
    BY <1>1, <1>4, <1>6, AddressedIsAsked DEF IInv, Certain
  <2>2. ~done
    BY <1>1, <2>1 DEF FlashOnTheWay
  <2>3. Prepared' /\ flash'[job.page] = job.image
    BY <1>1, <1>2, <1>4, <2>1 DEF Prepared, Named, Programming
  <2>4. FlashOnTheWay'
    BY <1>4, <2>1, <2>2, <2>3 DEF FlashOnTheWay
  <2>5. ReadOnTheWay'
    BY <1>4, <2>1 DEF ReadOnTheWay
  <2> QED
    BY <1>2, <2>4, <2>5 DEF BusyWithTheJob
<1> QED
  BY <1>4, <1>5, <1>6 DEF IInv, Certain

-----------------------------------------------------------------------------
(***************************************************************************)
(* The commands.                                                           *)
(***************************************************************************)
LEMMA NoImage == NoJob.image \in AllImages
<1>1. \E image \in AllImages : TRUE
  BY UpdiNvmAssumption
<1>2. (CHOOSE image \in AllImages : TRUE) \in AllImages
  BY <1>1
<1> QED
  BY <1>2 DEF NoJob

\* Where each command begins.
Begins == {<<"setup", "sync">>, <<"erase", "key">>, <<"reset", "reset">>,
           <<"flash", "flash">>, <<"read", "read">>, <<"none", "idle">>}

LEMMA JobOf ==
  ASSUME NEW command, NEW p, <<command, p>> \in Begins, Begin(command, p)
  PROVE  job' \in Jobs /\ job'.command = command
<1>1. PICK page \in IF command \in {"flash", "read"} THEN PageNumbers ELSE {0} :
        \E image \in IF command = "flash" THEN Images[page] ELSE {NoJob.image} :
          job' = [command |-> command, page |-> page, image |-> image]
  BY DEF Begin
<1>2. PICK image \in IF command = "flash" THEN Images[page] ELSE {NoJob.image} :
        job' = [command |-> command, page |-> page, image |-> image]
  BY <1>1
<1>3. 0 \in PageNumbers
  BY UpdiNvmAssumption DEF PageNumbers
<1>4. page \in PageNumbers
  BY <1>1, <1>3
<1>5. image \in AllImages
  <2>1. CASE command = "flash"
    BY <1>2, <1>4, <2>1 DEF AllImages
  <2>2. CASE command # "flash"
    BY <1>2, <2>2, NoImage
  <2> QED
    BY <2>1, <2>2
<1>6. command \in Commands
  BY DEF Begins, Commands
<1> QED
  BY <1>2, <1>4, <1>5, <1>6 DEF Jobs

LEMMA BeginKeeps ==
  ASSUME IInv, NEW command, NEW p, <<command, p>> \in Begins, Begin(command, p),
         TargetType', avr'.busy => avr.busy
  PROVE  IInv'
<1>1. /\ pc = "idle" /\ pc' = p /\ done' = FALSE /\ unsure' = avr.busy /\ got' = <<>>
      /\ updi_ptr' = updi_ptr /\ count' = count /\ tries' = tries /\ losses' = losses
  BY DEF Begin
<1>2. job' \in Jobs /\ job'.command = command
  BY JobOf
<1>3. /\ updi_ptr = -1 /\ count = 0 /\ avr.busy \in BOOLEAN
      /\ p \in {"sync", "key", "reset", "flash", "read", "idle"}
  BY <1>1 DEF IInv, Typed, TargetType, Targets, InPlace, Accessing, Begins
<1>4. Typed'
  <2>1. p \in Places /\ <<>> \in Seq(Bytes \cup {Erased, Torn, 0, 1})
    BY <1>3 DEF Places
  <2>2. ProgrammerType'
    BY <1>1, <1>2, <2>1 DEF IInv, Typed, ProgrammerType
  <2>3. GhostType'
    BY <1>1, <1>3 DEF IInv, Typed, GhostType
  <2> QED
    BY <2>2, <2>3 DEF Typed
<1>5. InPlace'
  <2>1. Len(got') = 0 /\ 0 <= LastStore /\ 0 <= PageSize
    BY <1>1, Sizes DEF LastStore
  <2> QED
    BY <1>1, <1>2, <1>3, <2>1 DEF InPlace, Begins, Accessing, Asking, WithKey
<1>6. PointerInStep' /\ AnswersAreTrue'
  BY <1>1, <1>3 DEF PointerInStep, AnswersAreTrue
<1>7. ASSUME ~unsure' PROVE FlashOnTheWay' /\ ReadOnTheWay' /\ BusyWithTheJob'
  <2>1. ~avr'.busy
    BY <1>1, <1>7
  <2>2. \A o \in Offsets : o \in Nat
    BY Sizes DEF Offsets
  <2>3. Before(count, avr)'
    BY <1>1, <1>3, <2>1, <2>2 DEF Before
  <2>4. FlashOnTheWay'
    BY <1>1, <1>3, <2>3 DEF FlashOnTheWay
  <2>5. ReadOnTheWay'
    BY <1>1, <1>3, <2>1, <2>2 DEF ReadOnTheWay
  <2> QED
    BY <2>1, <2>4, <2>5 DEF BusyWithTheJob
<1> QED
  BY <1>4, <1>5, <1>6, <1>7 DEF IInv, Certain

LEMMA PowerOnType ==
  ASSUME TargetType, PowerOn
  PROVE  TargetType' /\ (avr'.busy => avr.busy) /\ flash' = flash
<1>1. avr \in Targets /\ avr.locked \in BOOLEAN /\ flash' = flash
  BY DEF TargetType, Targets, PowerOn
<1>2. PowerUp(avr.locked) \in Targets /\ ~PowerUp(avr.locked).busy
  BY <1>1, PowerUpType
<1>3. avr' \in Targets /\ (avr'.busy => avr.busy)
  BY <1>1, <1>2 DEF PowerOn
<1> QED
  BY <1>1, <1>3 DEF TargetType

LEMMA HostKeeps ==
  ASSUME IInv, Host
  PROVE  IInv'
<1>1. TargetType
  BY DEF IInv, Typed
<1>2. CASE Setup
  <2>1. Begin("setup", "sync") /\ <<"setup", "sync">> \in Begins /\ PowerOn
    BY <1>2 DEF Setup, Begins
  <2> QED
    BY <1>1, <2>1, PowerOnType, BeginKeeps
<1>3. CASE UPDIPowerOn
  <2>1. Begin("none", "idle") /\ <<"none", "idle">> \in Begins /\ PowerOn
    BY <1>3 DEF UPDIPowerOn, Begins
  <2> QED
    BY <1>1, <2>1, PowerOnType, BeginKeeps
<1>4. ASSUME NEW command, NEW p, <<command, p>> \in Begins, Begin(command, p), UNCHANGED target
      PROVE  IInv'
  <2>1. TargetType' /\ avr' = avr
    BY <1>1, <1>4 DEF TargetType, target
  <2> QED
    BY <1>4, <2>1, BeginKeeps
<1>5. CASE Erase
  <2>1. Begin("erase", "key") /\ <<"erase", "key">> \in Begins /\ UNCHANGED target
    BY <1>5 DEF Erase, Begins
  <2> QED
    BY <1>4, <2>1
<1>6. CASE Reset
  <2>1. Begin("reset", "reset") /\ <<"reset", "reset">> \in Begins /\ UNCHANGED target
    BY <1>6 DEF Reset, Begins
  <2> QED
    BY <1>4, <2>1
<1>7. CASE Flash
  <2>1. Begin("flash", "flash") /\ <<"flash", "flash">> \in Begins /\ UNCHANGED target
    BY <1>7 DEF Flash, Begins
  <2> QED
    BY <1>4, <2>1
<1>8. CASE ReadArea
  <2>1. Begin("read", "read") /\ <<"read", "read">> \in Begins /\ UNCHANGED target
    BY <1>8 DEF ReadArea, Begins
  <2> QED
    BY <1>4, <2>1
<1>9. CASE UPDIPowerOff
  <2>1. /\ Begin("none", "idle") /\ <<"none", "idle">> \in Begins
        /\ avr' = [PowerUp(avr.locked) EXCEPT !.on = FALSE] /\ Cut /\ avr.locked \in BOOLEAN
    BY <1>1, <1>9 DEF UPDIPowerOff, Begins, TargetType, Targets
  <2>2. avr' \in Targets /\ ~avr'.busy
    BY <2>1, PowerUpType DEF Targets
  <2>3. TargetType'
    BY <1>1, <2>1, <2>2, CutType DEF TargetType
  <2> QED
    BY <2>1, <2>2, <2>3, BeginKeeps
<1> QED
  BY <1>2, <1>3, <1>5, <1>6, <1>7, <1>8, <1>9 DEF Host

-----------------------------------------------------------------------------
(***************************************************************************)
(* The theorems.                                                           *)
(***************************************************************************)
LEMMA InvariantAtFirst ==
  ASSUME Init
  PROVE  IInv
<1>1. PICK locked \in BOOLEAN : avr = PowerUp(locked)
  BY DEF Init
<1>2. /\ flash = [p \in PageNumbers |-> Blank] /\ pc = "idle" /\ job = NoJob
      /\ updi_ptr = -1 /\ count = 0 /\ tries = 0 /\ got = <<>> /\ done = FALSE
      /\ unsure = FALSE /\ losses = 0
  BY DEF Init
<1>3. TargetType /\ ~avr.busy
  <2>1. avr \in Targets /\ ~avr.busy
    BY <1>1, PowerUpType
  <2> QED
    BY <1>2, <2>1, BlankType DEF TargetType
<1>4. ProgrammerType
  <2>1. job \in Jobs
    <3>1. NoJob.page = 0 /\ 0 \in PageNumbers /\ NoJob.command = "none"
      BY UpdiNvmAssumption DEF NoJob, PageNumbers
    <3> QED
      BY <1>2, <3>1, NoImage DEF NoJob, Jobs, Commands
  <2>2. -1 \in -1 .. Top /\ 0 \in 0 .. MaxTries
    BY Sizes, UpdiNvmAssumption
  <2>3. got \in Seq(Bytes \cup {Erased, Torn, 0, 1})
    BY <1>2
  <2> QED
    BY <1>2, <2>1, <2>2, <2>3 DEF ProgrammerType, Places
<1>5. GhostType
  <2>1. MaxLosses \in Nat
    BY UpdiNvmAssumption
  <2>2. 0 \in 0 .. MaxLosses
    BY <2>1
  <2> QED
    BY <1>2, <2>2 DEF GhostType
<1>6. InPlace /\ PointerInStep /\ AnswersAreTrue
  BY <1>2 DEF InPlace, PointerInStep, AnswersAreTrue, Accessing, Asking, WithKey
<1>7. Certain
  BY <1>2, <1>3 DEF Certain, FlashOnTheWay, ReadOnTheWay, BusyWithTheJob
<1> QED
  BY <1>3, <1>4, <1>5, <1>6, <1>7 DEF IInv, Typed

LEMMA InvariantKept ==
  ASSUME IInv, [Next]_vars
  PROVE  IInv'
<1>1. CASE Programmer
  BY <1>1, SyncKeeps, SendKeyKeeps, KeyTakenKeeps, KeyRefusedKeeps, KeyUnheardKeeps,
     ResetRequestedKeeps, StatusIsReadyKeeps, StatusIsNotKeeps, StatusUnheardKeeps,
     FlashStoreKeeps, PollFlashKeeps, FlashEndsKeeps, ReadKeeps, ReadEndsKeeps DEF Programmer
<1>2. CASE Host
  BY <1>2, HostKeeps
<1>3. CASE Enter \/ ChipErased \/ PageWritten
  BY <1>3, EnterKeeps, ChipErasedKeeps, PageWrittenKeeps
<1>4. CASE UNCHANGED vars
  <2>1. TargetType' /\ avr' = avr /\ flash' = flash /\ UNCHANGED <<programmer, ghosts>>
    BY <1>4 DEF vars, target, IInv, Typed, TargetType
  <2>2. /\ Typed' /\ InPlace'
        /\ pc' = pc /\ job' = job /\ count' = count /\ done' = done /\ got' = got
        /\ unsure' = unsure /\ updi_ptr' = updi_ptr
    BY <2>1, ProgrammerUnchanged
  <2>3. PointerInStep' /\ AnswersAreTrue'
    BY <2>1, <2>2 DEF IInv, PointerInStep, AnswersAreTrue, Serves
  <2>4. Certain'
    BY <2>1, <2>2 DEF IInv, Certain, FlashOnTheWay, ReadOnTheWay, BusyWithTheJob, Prepared,
                      Named, Programming, Before
  <2> QED
    BY <2>2, <2>3, <2>4 DEF IInv
<1> QED
  BY <1>1, <1>2, <1>3, <1>4 DEF Next

\* The inductive invariant holds of every behaviour of the programmer and its target.
THEOREM InvariantHolds == Spec => []IInv
<1>1. Init => IInv
  BY InvariantAtFirst
<1>2. IInv /\ [Next]_vars => IInv'
  BY InvariantKept
<1> QED
  BY <1>1, <1>2, PTL DEF Spec

\* Every variable keeps its type: registers, pointer and its copy stay within their
\* widths.
THEOREM TypeCorrect == Spec => []TypeOK
<1>1. IInv => TypeOK
  BY InvariantImplies
<1> QED
  BY <1>1, InvariantHolds, PTL

\* The copy of the pointer that UPDICheckAddress goes by is the target's, for every
\* mix of accesses, as long as nothing stored was lost.
THEOREM PointerStaysInStep == Spec => []PointerInStep
<1>1. IInv => PointerInStep
  BY InvariantImplies
<1> QED
  BY <1>1, InvariantHolds, PTL

\* A UPDIFlash that answers 0 has put the whole page in the flash.
THEOREM WrittenIsStored == Spec => []ReportedIsStored
<1>1. IInv => ReportedIsStored
  BY InvariantImplies
<1> QED
  BY <1>1, InvariantHolds, PTL

\* A UPDIReadMemoryArea that answers 0 has read what the flash holds.
THEOREM ReadIsWhatIsThere == Spec => []ReadIsRight
<1>1. IInv => ReadIsRight
  BY InvariantImplies
<1> QED
  BY <1>1, InvariantHolds, PTL

\* UPDISetup and UPDIErase answer 0 only of a target that is in programming mode,
\* unlocked, whatever was lost.
THEOREM AnswersHold == Spec => []AnswersAreTrue
<1>1. IInv => AnswersAreTrue
  BY InvariantImplies
<1> QED
  BY <1>1, InvariantHolds, PTL

\* When a page is cut off, it is the one being written.
LEMMA CutAsked ==
  ASSUME IInv, Cut, NEW p \in PageNumbers, flash'[p] # flash[p], avr.mode # "erasing", ~unsure
  PROVE  p = job.page
<1>1. flash' = [r \in PageNumbers |-> IF r \in (IF avr.busy THEN Addressed ELSE {})
                                      THEN [o \in Offsets |-> Torn] ELSE flash[r]]
  BY DEF Cut
<1>2. avr.busy /\ p \in Addressed
  BY <1>1
<1> QED
  BY <1>2, AddressedIsAsked

LEMMA OnlyAskedStep ==
  ASSUME IInv, [Next]_vars, NEW p \in PageNumbers, flash'[p] # flash[p],
         avr.mode # "erasing", ~unsure
  PROVE  p = job.page
<1>1. flash' # flash
  OBVIOUS
<1>2. CASE Cut
  BY <1>2, CutAsked
<1>3. CASE PageWritten
  <2>1. avr.busy /\ flash' = [r \in PageNumbers |-> IF r \in Addressed THEN avr.buf ELSE flash[r]]
    BY <1>3 DEF PageWritten
  <2>2. p \in Addressed
    BY <2>1
  <2> QED
    BY <2>1, <2>2, AddressedIsAsked
<1>4. CASE ChipErased
  BY <1>4 DEF ChipErased
<1>5. CASE Programmer
  <2>1. RequestReset \/ flash' = flash
    BY <1>5 DEF Programmer, Sync, SendKey, KeyTaken, KeyRefused, KeyUnheard, ResetRequested,
       StatusIsReady, StatusIsNot, StatusUnheard, FlashStore, PollFlash, FlashEnds, Read,
       ReadEnds, target
  <2>2. Cut
    BY <1>1, <2>1 DEF RequestReset, Restart, target
  <2> QED
    BY <1>2, <2>2
<1>6. CASE Host
  <2>1. Cut \/ flash' = flash
    BY <1>6 DEF Host, Setup, Erase, Reset, Flash, ReadArea, UPDIPowerOn, UPDIPowerOff, PowerOn,
       target
  <2> QED
    BY <1>1, <1>2, <2>1
<1>7. CASE Enter \/ UNCHANGED vars
  BY <1>1, <1>7 DEF Enter, vars, target
<1> QED
  BY <1>3, <1>4, <1>5, <1>6, <1>7 DEF Next

\* Only the page that UPDIFlash was asked for changes, but in an erasure.
THEOREM PagesChangeAsAsked == Spec => OnlyAskedPage
<1>1. IInv /\ [Next]_vars =>
        [\A p \in PageNumbers :
           flash'[p] # flash[p] /\ avr.mode # "erasing" /\ ~unsure => p = job.page]_vars
  BY OnlyAskedStep
<1> QED
  BY <1>1, InvariantHolds, PTL DEF Spec, OnlyAskedPage

-----------------------------------------------------------------------------
(***************************************************************************)
(* What EveryCommandAnswers rests on: the tries a command has left, in     *)
(* each the places still to come, and in each place the bytes or polls.    *)
(***************************************************************************)
TriesLeft == IF pc = "idle" THEN 0 ELSE MaxTries - tries + 1

PlacesLeft(p) ==
  CASE p = "sync" -> 5 [] p = "key" -> 4 [] p \in {"keystatus", "flash"} -> 3
    [] p \in {"reset", "fbusy"} -> 2 [] p \in {"sysstatus", "status", "read"} -> 1
    [] OTHER -> 0

Most(p) ==
  CASE p = "sysstatus" -> MaxRetry - 1 [] p = "flash" -> LastStore
    [] p \in {"fbusy", "status"} -> MaxPolls [] p = "read" -> PageSize [] OTHER -> 0

CountLeft == Most(pc) - count

Nearer ==
  \/ TriesLeft' < TriesLeft
  \/ TriesLeft' = TriesLeft /\ PlacesLeft(pc') < PlacesLeft(pc)
  \/ TriesLeft' = TriesLeft /\ pc' = pc /\ CountLeft' < CountLeft

Counted == count <= Most(pc)

LEMMA PlacesLeftAre ==
  /\ PlacesLeft("sync") = 5 /\ PlacesLeft("key") = 4 /\ PlacesLeft("keystatus") = 3
  /\ PlacesLeft("reset") = 2 /\ PlacesLeft("sysstatus") = 1 /\ PlacesLeft("flash") = 3
  /\ PlacesLeft("fbusy") = 2 /\ PlacesLeft("status") = 1 /\ PlacesLeft("read") = 1
BY DEF PlacesLeft

LEMMA MostAre ==
  /\ Most("sysstatus") = MaxRetry - 1 /\ Most("flash") = LastStore
  /\ Most("fbusy") = MaxPolls /\ Most("status") = MaxPolls /\ Most("read") = PageSize
BY DEF Most

LEMMA MostType ==
  ASSUME NEW p
  PROVE  Most(p) \in Nat
<1>1. MaxRetry - 1 \in Nat /\ LastStore \in Nat /\ MaxPolls \in Nat /\ PageSize \in Nat
  BY UpdiNvmAssumption DEF LastStore
<1>2. CASE p \in {"sysstatus", "flash", "fbusy", "status", "read"}
  BY <1>1, <1>2, MostAre
<1>3. CASE p \notin {"sysstatus", "flash", "fbusy", "status", "read"}
  BY <1>3 DEF Most
<1> QED
  BY <1>2, <1>3

\* The three ways a step of a command takes it nearer its end.
LEMMA EndsIsNearer ==
  ASSUME ProgrammerType, pc # "idle", pc' = "idle", count' = 0
  PROVE  Nearer /\ Counted'
<1>1. TriesLeft > 0 /\ TriesLeft' = 0
  BY UpdiNvmAssumption DEF TriesLeft, ProgrammerType
<1>2. Counted'
  BY MostType DEF Counted
<1> QED
  BY <1>1, <1>2 DEF Nearer

LEMMA TryIsNearer ==
  ASSUME ProgrammerType, pc # "idle", NEW p, p # "idle", TryAgain(p)
  PROVE  Nearer /\ Counted'
<1>1. TriesLeft' < TriesLeft
  BY UpdiNvmAssumption DEF TriesLeft, ProgrammerType, TryAgain
<1>2. Counted'
  BY MostType DEF Counted, TryAgain
<1> QED
  BY <1>1, <1>2 DEF Nearer

LEMMA GoIsNearer ==
  ASSUME pc # "idle", pc' # "idle", PlacesLeft(pc') < PlacesLeft(pc), count' = 0,
         UNCHANGED tries
  PROVE  Nearer /\ Counted'
<1>1. TriesLeft' = TriesLeft
  BY DEF TriesLeft
<1>2. Counted'
  BY MostType DEF Counted
<1> QED
  BY <1>1, <1>2 DEF Nearer

LEMMA CountIsNearer ==
  ASSUME count \in Nat, count < Most(pc), count' = count + 1, UNCHANGED <<pc, tries>>
  PROVE  Nearer /\ Counted'
<1>1. TriesLeft' = TriesLeft
  BY DEF TriesLeft
<1>2. Most(pc) \in Nat /\ pc' = pc
  BY MostType
<1>3. CountLeft' < CountLeft /\ Counted'
  BY <1>2 DEF CountLeft, Counted
<1> QED
  BY <1>1, <1>2, <1>3 DEF Nearer

LEMMA ReturnIsNearer ==
  ASSUME ProgrammerType, pc # "idle", NEW ok, Return(ok)
  PROVE  Nearer /\ Counted'
BY EndsIsNearer DEF Return

LEMMA GotoIsNearer ==
  ASSUME pc # "idle", NEW p, p # "idle", PlacesLeft(p) < PlacesLeft(pc), Goto(p)
  PROVE  Nearer /\ Counted'
BY GoIsNearer DEF Goto

\* The commands that ask for a status.
LEMMA AskingIsNearer ==
  ASSUME ProgrammerType, Counted,
         \/ Sync \/ SendKey \/ KeyTaken \/ KeyRefused \/ KeyUnheard
         \/ ResetRequested \/ StatusIsReady \/ StatusIsNot \/ StatusUnheard
  PROVE  Nearer /\ Counted'
<1>1. CASE Sync
  <2>1. pc = "sync"
    BY <1>1 DEF Sync
  <2>2. Return(FALSE) \/ Goto("key") \/ TryAgain("sync")
    BY <1>1 DEF Sync
  <2>3. CASE Goto("key")
    <3>1. PlacesLeft("key") < PlacesLeft(pc)
      BY <2>1, PlacesLeftAre
    <3> QED
      BY <2>1, <2>3, <3>1, GotoIsNearer
  <2>4. CASE Return(FALSE) \/ TryAgain("sync")
    BY <2>1, <2>4, ReturnIsNearer, TryIsNearer
  <2> QED
    BY <2>2, <2>3, <2>4
<1>2. CASE SendKey
  BY <1>2, PlacesLeftAre, GotoIsNearer DEF SendKey
<1>3. CASE KeyTaken
  BY <1>3, PlacesLeftAre, GotoIsNearer DEF KeyTaken
<1>4. CASE KeyRefused \/ KeyUnheard
  <2>1. pc = "keystatus" /\ (Return(FALSE) \/ TryAgain("key"))
    BY <1>4 DEF KeyRefused, KeyUnheard
  <2> QED
    BY <2>1, ReturnIsNearer, TryIsNearer
<1>5. CASE ResetRequested
  BY <1>5, PlacesLeftAre, GotoIsNearer DEF ResetRequested
<1>6. CASE StatusIsReady \/ StatusUnheard
  <2>1. pc = "sysstatus" /\ (Return(TRUE) \/ Return(FALSE))
    BY <1>6 DEF StatusIsReady, StatusUnheard
  <2> QED
    BY <2>1, ReturnIsNearer
<1>7. CASE StatusIsNot
  <2>1. pc = "sysstatus"
    BY <1>7 DEF StatusIsNot
  <2>2. CASE count < MaxRetry - 1
    <3>1. count' = count + 1 /\ UNCHANGED <<pc, tries>>
      BY <1>7, <2>2, UpdiNvmAssumption DEF StatusIsNot
    <3> QED
      BY <2>1, <2>2, <3>1, MostAre, CountIsNearer DEF ProgrammerType
  <2>3. CASE ~(count < MaxRetry - 1)
    <3>1. TryAgain("reset") \/ Return(GivenUp)
      BY <1>7, <2>3 DEF StatusIsNot
    <3> QED
      BY <2>1, <3>1, ReturnIsNearer, TryIsNearer
  <2> QED
    BY <2>2, <2>3
<1> QED
  BY <1>1, <1>2, <1>3, <1>4, <1>5, <1>6, <1>7

\* UPDIFlash and UPDIReadMemoryArea.
LEMMA AccessingIsNearer ==
  ASSUME ProgrammerType, Counted,
         FlashStore \/ PollFlash \/ FlashEnds \/ Read \/ ReadEnds
  PROVE  Nearer /\ Counted'
<1>1. CASE FlashStore
  <2>1. pc = "flash" /\ UNCHANGED tries
    BY <1>1 DEF FlashStore
  <2>2. CASE count < LastStore
    <3>1. count' = count + 1 /\ UNCHANGED pc
      BY <1>1, <2>2 DEF FlashStore
    <3> QED
      BY <2>1, <2>2, <3>1, MostAre, CountIsNearer DEF ProgrammerType
  <2>3. CASE ~(count < LastStore)
    <3>1. count' = 0 /\ pc' = "fbusy"
      BY <1>1, <2>3 DEF FlashStore
    <3> QED
      BY <2>1, <3>1, PlacesLeftAre, GoIsNearer
  <2> QED
    BY <2>2, <2>3
<1>2. CASE PollFlash
  <2>1. pc = "fbusy" /\ count < MaxPolls /\ UNCHANGED tries
    BY <1>2 DEF PollFlash
  <2>2. CASE count' = count + 1 /\ UNCHANGED pc
    BY <2>1, <2>2, MostAre, CountIsNearer DEF ProgrammerType
  <2>3. CASE pc' = "status" /\ UNCHANGED count
    <3>1. TriesLeft' = TriesLeft
      BY <2>1, <2>3 DEF TriesLeft
    <3>2. Counted'
      BY <2>1, <2>3, MostAre, UpdiNvmAssumption DEF Counted, ProgrammerType
    <3> QED
      BY <2>1, <2>3, <3>1, <3>2, PlacesLeftAre DEF Nearer
  <2> QED
    BY <1>2, <2>2, <2>3 DEF PollFlash
<1>3. CASE FlashEnds
  <2>1. pc \in {"status", "fbusy"} /\ \E r \in Results : Return(StatusOf(r))
    BY <1>3 DEF FlashEnds
  <2> QED
    BY <2>1, ReturnIsNearer
<1>4. CASE Read
  <2>1. pc = "read" /\ count < PageSize
    BY <1>4 DEF Read
  <2>2. Return(FALSE) \/ (count' = count + 1 /\ UNCHANGED <<pc, tries>>)
    BY <1>4 DEF Read
  <2> QED
    BY <2>1, <2>2, MostAre, ReturnIsNearer, CountIsNearer DEF ProgrammerType
<1>5. CASE ReadEnds
  <2>1. pc = "read" /\ Return(TRUE)
    BY <1>5 DEF ReadEnds
  <2> QED
    BY <2>1, ReturnIsNearer
<1> QED
  BY <1>1, <1>2, <1>3, <1>4, <1>5

\* A command begins where there is nothing to count yet, when none is in progress.
LEMMA BeginIsCounted ==
  ASSUME InPlace, NEW command, NEW p, Begin(command, p)
  PROVE  Counted' /\ pc = "idle"
<1>1. pc = "idle" /\ count = 0 /\ count' = 0
  BY DEF Begin, InPlace
<1> QED
  BY <1>1, MostType DEF Counted

LEMMA CountedKept ==
  ASSUME ProgrammerType, InPlace, Counted, [Next]_vars
  PROVE  /\ Counted'
         /\ Programmer => Nearer
         /\ pc # "idle" => Programmer \/ UNCHANGED programmer
<1>1. CASE Programmer
  BY <1>1, AskingIsNearer, AccessingIsNearer DEF Programmer
<1>2. CASE ~Programmer /\ UNCHANGED programmer
  BY <1>2 DEF programmer, Counted
<1>3. CASE ~Programmer /\ Host
  <2>1. \E command \in Commands, p \in Places : Begin(command, p)
    BY <1>3 DEF Host, Setup, Erase, Reset, Flash, ReadArea, UPDIPowerOn, UPDIPowerOff,
       Commands, Places
  <2> QED
    BY <1>3, <2>1, BeginIsCounted
<1> QED
  BY <1>1, <1>2, <1>3 DEF Next, vars, Enter, ChipErased, PageWritten

\* A command of the UPDI programmer makes no more tries than MaxTries and one, in
\* each try visits no place twice, and in each place moves no more bytes and asks
\* for no more statuses than its limit (updi_bitbang.h:299-364, 389-423, 437-464
\* and 494-498): every access, whatever is lost of it,
\* takes the command nearer its end, and nothing in between takes it back.
THEOREM AccessesAreNumbered ==
  Spec => /\ [](TriesLeft \in 0 .. MaxTries + 1 /\ CountLeft \in Nat)
          /\ [][/\ Programmer => Nearer
                /\ pc # "idle" => Programmer \/ UNCHANGED programmer]_vars
<1>1. Init => Counted
  BY MostType DEF Init, Counted
<1>2. IInv /\ Counted /\ [Next]_vars => Counted'
  BY CountedKept DEF IInv, Typed
<1>3. IInv /\ Counted => TriesLeft \in 0 .. MaxTries + 1 /\ CountLeft \in Nat
  <2>1. SUFFICES ASSUME IInv, Counted
                 PROVE  TriesLeft \in 0 .. MaxTries + 1 /\ CountLeft \in Nat
    OBVIOUS
  <2>2. count \in Nat /\ tries \in 0 .. MaxTries
    BY <2>1 DEF IInv, Typed, ProgrammerType
  <2>3. CountLeft \in Nat
    BY <2>1, <2>2, MostType DEF CountLeft, Counted
  <2> QED
    BY <2>2, <2>3, UpdiNvmAssumption DEF TriesLeft
<1>4. IInv /\ Counted /\ [Next]_vars =>
        [/\ Programmer => Nearer
         /\ pc # "idle" => Programmer \/ UNCHANGED programmer]_vars
  BY CountedKept DEF IInv, Typed
<1>5. Spec => []Counted
  BY <1>1, <1>2, InvariantHolds, PTL DEF Spec
<1> QED
  BY <1>3, <1>4, <1>5, InvariantHolds, PTL DEF Spec
===============================================================================
