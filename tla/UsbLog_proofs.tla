---------------------------- MODULE UsbLog_proofs ----------------------------
(***************************************************************************)
(* The log's ring is the queue it promises to be, for every size of the    *)
(* ring, every length and alphabet of the texts and every room a reply     *)
(* has, as long as at most one task logs and it cannot preempt the USB     *)
(* task.  The sizes of types need no such assumption.                      *)
(*                                                                         *)
(* The argument: what waits is a segment of the ring between tail and      *)
(* head.  Only Advance and Take change it, each in one step; between the   *)
(* check of the logging task and its Advance the reader can only make      *)
(* room, and between the reader's Count and its Take nothing else can      *)
(* take a character away.                                                  *)
(***************************************************************************)
EXTENDS UsbLog, SequenceTheorems, TLAPS

-----------------------------------------------------------------------------
(***************************************************************************)
(* The invariant.                                                          *)
(***************************************************************************)
\* How many characters wait between tail l and head h, where the i-th of them
\* is, and what they are; l may stand at SIZE, as in Wrap.
Length(h, l) == IF l <= h THEN h - l ELSE h - l + SIZE
Place(l, i) == IF l + i - 1 < SIZE THEN l + i - 1 ELSE l + i - 1 - SIZE
Queue(b, h, l) == [i \in 1 .. Length(h, l) |-> b[Place(l, i)]]

\* A text is at hand whenever one of its characters is to be stored.
LogSteps == {"log_alloc", "begin", "check", "store", "advance"}
HasText(t) ==
  /\ pc[t] \notin LogSteps => rest[t] = <<>>
  /\ pc[t] \in {"store", "advance"} => rest[t] # <<>>
TextInv == TypeOK /\ \A t \in Tasks : HasText(t)

\* Who may be where: loggers log, and the reader reads.
ReadSteps == {"get_alloc", "count", "take", "wrap"}
OwnSteps(t) ==
  /\ pc[t] \in LogSteps => t \in loggers
  /\ pc[t] \in ReadSteps => t = Reader

\* What a task on its way through advanced_usb_write_log relies on.
Writing(t) ==
  /\ pc[t] \in {"begin", "check", "store", "advance"} => allocated
  /\ pc[t] = "log_alloc" => head = tail
  /\ pc[t] \in {"check", "store", "advance"} => next[t] = Up(head)
  /\ pc[t] \in {"store", "advance"} => Length(head, tail) < SIZE - 1
  /\ pc[t] = "advance" => buffer[head] = Head(rest[t])

\* What the reader relies on: its togo characters are still there.
Reading ==
  /\ ~allocated => head = tail
  /\ pc[Reader] = "get_alloc" => ~allocated
  /\ pc[Reader] = "take" => togo - Len(reply) \in 1 .. Length(head, tail)
  /\ pc[Reader] = "wrap" => togo - Len(reply) \in 0 .. Length(head, tail)
  /\ pc[Reader] \in {"get_alloc", "count"} => reply = <<>>

RingInv ==
  /\ TextInv /\ Reading
  /\ \A t \in Tasks : OwnSteps(t) /\ Writing(t)

-----------------------------------------------------------------------------
(***************************************************************************)
(* Types.                                                                  *)
(***************************************************************************)
\* The next place of the ring.
LEMMA UpType == ASSUME NEW i \in 0 .. SIZE - 1 PROVE Up(i) \in 0 .. SIZE - 1
  BY UsbLogAssumption DEF Up

\* A function on 1 .. n is a sequence of length n.
LEMMA FunctionIsSeq ==
  ASSUME NEW S, NEW n \in Nat, NEW s \in [1 .. n -> S]
  PROVE  s \in Seq(S) /\ Len(s) = n
<1>1. s \in Seq(S)
  BY SeqDef
<1>2. 1 .. Len(s) = 1 .. n /\ Len(s) \in Nat
  BY <1>1, LenProperties
<1> QED
  BY <1>1, <1>2

\* What vsnprintf leaves is a text of as many characters.
LEMMA FormattedType == ASSUME NEW s \in Texts PROVE Formatted(s) \in Seq(Chars)
<1>1. PICK n \in 0 .. MaxText : s \in [1 .. n -> Letters]
  BY DEF Texts
<1>2. n \in Nat
  BY UsbLogAssumption
<1>3. Len(s) = n
  BY <1>1, <1>2, FunctionIsSeq
<1>4. Formatted(s) \in [1 .. n -> Chars]
  BY <1>1, <1>3 DEF Formatted, Chars
<1> QED
  BY <1>2, <1>4, FunctionIsSeq

\* Every step keeps the types, and a text at hand for the one who stores it.
LEMMA StepKeepsText == ASSUME TextInv, [Next]_vars PROVE TextInv'
<1>0. SIZE \in Nat /\ SIZE > 1 /\ Reader \in Tasks
  BY UsbLogAssumption
<1> USE DEF TextInv, TypeOK, HasText, At, Goto, ring, Steps, LogSteps
<1>1. ASSUME NEW t \in Tasks, StartLog(t) PROVE TextInv'
  <2>1. PICK s \in Texts : rest' = [rest EXCEPT ![t] = Formatted(s)]
    BY <1>1 DEF StartLog
  <2>2. rest' \in [Tasks -> Seq(Chars)]
    BY <2>1, FormattedType
  <2> QED
    BY <1>1, <2>1, <2>2 DEF StartLog
<1>2. ASSUME NEW t \in Tasks, Allocate(t) PROVE TextInv'
  BY <1>2 DEF Allocate, Blank, Chars
<1>3. ASSUME NEW t \in Tasks, Begin(t) PROVE TextInv'
  <2>1. Up(head) \in 0 .. SIZE - 1
    BY UpType
  <2> QED
    BY <1>3, <2>1 DEF Begin
<1>4. ASSUME NEW t \in Tasks, Check(t) PROVE TextInv'
  <2>1. <<>> \in Seq(Chars)
    OBVIOUS
  <2> QED
    BY <1>4, <2>1 DEF Check
<1>5. ASSUME NEW t \in Tasks, Store(t) PROVE TextInv'
  <2>1. Head(rest[t]) \in Chars
    BY <1>5, HeadTailProperties DEF Store
  <2> QED
    BY <1>5, <2>1 DEF Store
<1>6. ASSUME NEW t \in Tasks, Advance(t) PROVE TextInv'
  <2>1. Tail(rest[t]) \in Seq(Chars) /\ Up(next[t]) \in 0 .. SIZE - 1
    BY <1>6, HeadTailProperties, UpType DEF Advance
  <2> QED
    BY <1>6, <2>1 DEF Advance
<1>7. CASE StartGet
  BY <1>0, <1>7, UsbLogAssumption DEF StartGet
<1>8. CASE Count
  <2>1. (head - tail + SIZE) % SIZE \in 0 .. SIZE - 1
    BY <1>0
  <2>2. togo' \in 0 .. SIZE - 1
    BY <1>0, <1>8, <2>1 DEF Count, Least
  <2> QED
    BY <1>0, <1>8, <2>2 DEF Count
<1>9. CASE Take
  <2>1. tail \in 0 .. SIZE - 1
    BY <1>0, <1>9 DEF Take
  <2>2. buffer[tail] \in Chars
    BY <2>1
  <2>3. Append(reply, buffer[tail]) \in Seq(Chars)
    BY <2>2, AppendProperties
  <2> QED
    BY <1>0, <1>9, <2>1, <2>3 DEF Take
<1>10. CASE Wrap
  BY <1>0, <1>10 DEF Wrap
<1>11. CASE UNCHANGED vars
  BY <1>11 DEF vars
<1> QED
  BY <1>1, <1>2, <1>3, <1>4, <1>5, <1>6, <1>7, <1>8, <1>9, <1>10, <1>11 DEF Next, Step

\* Before anything is logged.
LEMMA InitText == Init => TextInv
<1> SUFFICES ASSUME Init PROVE TextInv
  OBVIOUS
<1>1. <<>> \in Seq(Chars)
  OBVIOUS
<1> QED
  BY <1>1, UsbLogAssumption
  DEF Init, TextInv, TypeOK, HasText, Blank, Chars, Steps, LogSteps

\* The ring, its indices and the tasks' locals keep their ranges in every session,
\* whichever tasks log and however they preempt one another; tail stands at SIZE
\* only between Take and Wrap, where the USB task alone sees it.
THEOREM TypeCorrect == Spec => []TypeOK
<1>1. TextInv => TypeOK
  BY DEF TextInv
<1> QED
  BY <1>1, InitText, StepKeepsText, PTL DEF Spec

-----------------------------------------------------------------------------
(***************************************************************************)
(* The ring as a queue.                                                    *)
(***************************************************************************)
\* A remainder of what is less than twice the size.
LEMMA Once ==
  ASSUME NEW a \in Nat, a < SIZE + SIZE
  PROVE  a % SIZE = IF a < SIZE THEN a ELSE a - SIZE
  BY UsbLogAssumption

\* The next place is one on, or the first.
LEMMA UpIs ==
  ASSUME NEW h \in 0 .. SIZE - 1
  PROVE  Up(h) = IF h = SIZE - 1 THEN 0 ELSE h + 1
  BY UsbLogAssumption, Once DEF Up

\* How many wait.
LEMMA LengthIs ==
  ASSUME NEW h \in 0 .. SIZE - 1, NEW l \in 0 .. SIZE
  PROVE  (h - l + SIZE) % SIZE = Length(h, l)
  BY UsbLogAssumption, Once DEF Length

\* Never more than the size less one.
LEMMA LengthRange ==
  ASSUME NEW h \in 0 .. SIZE - 1, NEW l \in 0 .. SIZE
  PROVE  Length(h, l) \in 0 .. SIZE - 1
  BY UsbLogAssumption DEF Length

\* Where they are.
LEMMA PlaceIs ==
  ASSUME NEW h \in 0 .. SIZE - 1, NEW l \in 0 .. SIZE, NEW i \in 1 .. Length(h, l)
  PROVE  /\ (l + i - 1) % SIZE = Place(l, i)
         /\ Place(l, i) \in 0 .. SIZE - 1
         /\ Place(l, i) # h
<1>1. Length(h, l) \in 0 .. SIZE - 1 /\ SIZE \in Nat /\ SIZE > 1
  BY LengthRange, UsbLogAssumption
<1>2. (l + i - 1) % SIZE = Place(l, i)
  BY <1>1, Once DEF Place
<1> QED
  BY <1>1, <1>2 DEF Place, Length

\* What is waiting is the segment.
LEMMA WaitingIs ==
  ASSUME NEW b, NEW h \in 0 .. SIZE - 1, NEW l \in 0 .. SIZE
  PROVE  [i \in 1 .. (h - l + SIZE) % SIZE |-> b[(l + i - 1) % SIZE]] = Queue(b, h, l)
<1>1. \A i \in 1 .. Length(h, l) : b[(l + i - 1) % SIZE] = b[Place(l, i)]
  BY PlaceIs
<1>2. (h - l + SIZE) % SIZE = Length(h, l)
  BY LengthIs
<1> QED
  BY <1>1, <1>2 DEF Queue

\* It is a sequence.
LEMMA QueueIsSeq ==
  ASSUME NEW b \in [0 .. SIZE - 1 -> Chars], NEW h \in 0 .. SIZE - 1, NEW l \in 0 .. SIZE
  PROVE  /\ Queue(b, h, l) \in Seq(Chars)
         /\ Len(Queue(b, h, l)) = Length(h, l)
         /\ \A i \in 1 .. Length(h, l) : Queue(b, h, l)[i] = b[Place(l, i)]
<1>1. Length(h, l) \in Nat
  BY LengthRange, UsbLogAssumption
<1>2. \A i \in 1 .. Length(h, l) : b[Place(l, i)] \in Chars
  BY PlaceIs
<1>3. Queue(b, h, l) \in [1 .. Length(h, l) -> Chars]
  BY <1>2 DEF Queue
<1> QED
  BY <1>1, <1>3, FunctionIsSeq DEF Queue

\* Store writes where nothing waits.
LEMMA StoreOutside ==
  ASSUME NEW b \in [0 .. SIZE - 1 -> Chars], NEW c \in Chars,
         NEW h \in 0 .. SIZE - 1, NEW l \in 0 .. SIZE
  PROVE  Queue([b EXCEPT ![h] = c], h, l) = Queue(b, h, l)
<1>1. \A i \in 1 .. Length(h, l) : [b EXCEPT ![h] = c][Place(l, i)] = b[Place(l, i)]
  BY PlaceIs
<1> QED
  BY <1>1 DEF Queue

\* Advance puts the stored character at the end, if there is room for it.
LEMMA AdvanceAppends ==
  ASSUME NEW b \in [0 .. SIZE - 1 -> Chars],
         NEW h \in 0 .. SIZE - 1, NEW l \in 0 .. SIZE - 1, Length(h, l) < SIZE - 1
  PROVE  /\ Length(Up(h), l) = Length(h, l) + 1
         /\ Queue(b, Up(h), l) = Append(Queue(b, h, l), b[h])
<1> DEFINE n == Length(h, l)
           q == Queue(b, h, l)
           r == Queue(b, Up(h), l)
<1>1. SIZE \in Nat /\ SIZE > 1 /\ n \in 0 .. SIZE - 1 /\ Up(h) \in 0 .. SIZE - 1 /\ l \in 0 .. SIZE
  BY UsbLogAssumption, LengthRange, UpType
<1>2. Length(Up(h), l) = n + 1
  BY <1>1, UpIs DEF Length
<1>3. b[h] \in Chars
  OBVIOUS
<1>4. /\ q \in Seq(Chars) /\ Len(q) = n
      /\ \A i \in 1 .. n : q[i] = b[Place(l, i)]
  BY <1>1, QueueIsSeq
<1>5. /\ r \in Seq(Chars) /\ Len(r) = n + 1
      /\ \A i \in 1 .. n + 1 : r[i] = b[Place(l, i)]
  BY <1>1, <1>2, QueueIsSeq
<1>6. Place(l, n + 1) = h
  BY <1>1 DEF Place, Length
<1>7. /\ Append(q, b[h]) \in Seq(Chars) /\ Len(Append(q, b[h])) = n + 1
      /\ \A i \in 1 .. n : Append(q, b[h])[i] = q[i]
      /\ Append(q, b[h])[n + 1] = b[h]
  BY <1>3, <1>4, AppendProperties
<1>8. r = Append(q, b[h])
  <2> HIDE DEF n, q, r
  <2>1. \A i \in 1 .. n + 1 : r[i] = Append(q, b[h])[i]
    <3> SUFFICES ASSUME NEW i \in 1 .. n + 1 PROVE r[i] = Append(q, b[h])[i]
      OBVIOUS
    <3>1. CASE i = n + 1
      BY <1>1, <1>5, <1>6, <1>7, <3>1
    <3>2. CASE i # n + 1
      BY <1>1, <1>4, <1>5, <1>7, <3>2
    <3> QED
      BY <3>1, <3>2
  <2> QED
    BY <1>5, <1>7, <2>1, SeqEqual
<1> QED
  BY <1>2, <1>8

\* Take removes the first.
LEMMA TakeRemoves ==
  ASSUME NEW b \in [0 .. SIZE - 1 -> Chars],
         NEW h \in 0 .. SIZE - 1, NEW l \in 0 .. SIZE - 1, Length(h, l) > 0
  PROVE  /\ Length(h, l + 1) = Length(h, l) - 1
         /\ Queue(b, h, l) # <<>>
         /\ Head(Queue(b, h, l)) = b[l]
         /\ Queue(b, h, l + 1) = Tail(Queue(b, h, l))
<1> DEFINE n == Length(h, l)
           q == Queue(b, h, l)
           r == Queue(b, h, l + 1)
<1>1. SIZE \in Nat /\ SIZE > 1 /\ n \in 1 .. SIZE - 1 /\ l \in 0 .. SIZE /\ l + 1 \in 0 .. SIZE
  BY UsbLogAssumption, LengthRange
<1>2. Length(h, l + 1) = n - 1
  BY <1>1 DEF Length
<1>3. /\ q \in Seq(Chars) /\ Len(q) = n
      /\ \A i \in 1 .. n : q[i] = b[Place(l, i)]
  BY <1>1, QueueIsSeq
<1>4. /\ r \in Seq(Chars) /\ Len(r) = n - 1
      /\ \A i \in 1 .. n - 1 : r[i] = b[Place(l + 1, i)]
  BY <1>1, <1>2, QueueIsSeq
<1>5. Place(l, 1) = l /\ \A i \in 1 .. n - 1 : Place(l + 1, i) = Place(l, i + 1)
  BY <1>1 DEF Place
<1> HIDE DEF n, q, r
<1>6. q # <<>>
  BY <1>1, <1>3, EmptySeq
<1>7. Head(q) = b[l]
  BY <1>1, <1>3, <1>5
<1>8. /\ Tail(q) \in Seq(Chars) /\ Len(Tail(q)) = n - 1
      /\ \A i \in 1 .. n - 1 : Tail(q)[i] = q[i + 1]
  BY <1>1, <1>3, <1>6, HeadTailProperties
<1>9. \A i \in 1 .. n - 1 : r[i] = Tail(q)[i]
  BY <1>1, <1>3, <1>4, <1>5, <1>8
<1>10. r = Tail(q)
  BY <1>1, <1>4, <1>8, <1>9, SeqEqual
<1> QED
  BY <1>2, <1>6, <1>7, <1>10 DEF n, q, r

\* Wrap changes the name of a place.
LEMMA WrapSame ==
  ASSUME NEW b, NEW h \in 0 .. SIZE - 1
  PROVE  Length(h, SIZE) = Length(h, 0) /\ Queue(b, h, SIZE) = Queue(b, h, 0)
<1>1. SIZE \in Nat /\ SIZE > 1
  BY UsbLogAssumption
<1>2. Length(h, SIZE) = Length(h, 0)
  BY <1>1 DEF Length
<1>3. \A i \in 1 .. Length(h, 0) : Place(SIZE, i) = Place(0, i)
  BY <1>1 DEF Place, Length
<1> QED
  BY <1>2, <1>3 DEF Queue

\* Nothing waits when head and tail meet.
LEMMA NothingWaits ==
  ASSUME NEW b, NEW c, NEW h \in 0 .. SIZE - 1
  PROVE  /\ Length(h, h) = 0
         /\ Queue(b, h, h) = Queue(c, h, h)
         /\ Queue(b, h, h) = <<>>
<1>1. Length(h, h) = 0
  BY UsbLogAssumption DEF Length
<1> QED
  BY <1>1 DEF Queue

\* The ring is full when the next place is the tail, and only then.
LEMMA FullWhen ==
  ASSUME NEW h \in 0 .. SIZE - 1, NEW l \in 0 .. SIZE - 1
  PROVE  Up(h) = l <=> Length(h, l) = SIZE - 1
  BY UsbLogAssumption, UpIs DEF Length

-----------------------------------------------------------------------------
(***************************************************************************)
(* Who logs.                                                               *)
(***************************************************************************)
\* At most one task logs, and it is the USB task or one that the USB task
\* preempts: app_main, at priority 1 (with two that log the ring breaks, as the
\* run log_two shows).
LoggersApart ==
  \A choice \in LoggerChoices :
    \E t \in Tasks :
      /\ choice \subseteq {t}
      /\ t = Reader \/ Priority[t] < Priority[Reader]

\* While a logging task runs the reader is between requests, or is that task.
LEMMA LoggerAlone ==
  ASSUME LoggersApart, TypeOK, NEW t \in Tasks, t \in loggers, Scheduled(t)
  PROVE  /\ \A u \in Tasks : u \in loggers => u = t
         /\ t = Reader \/ pc[Reader] = "idle"
<1>1. PICK s \in Tasks : /\ loggers \subseteq {s}
                         /\ s = Reader \/ Priority[s] < Priority[Reader]
  BY DEF LoggersApart, TypeOK
<1>2. s = t
  BY <1>1
<1>3. Reader \in Tasks /\ Priority \in [Tasks -> Nat]
  BY UsbLogAssumption
<1>4. CASE Priority[t] < Priority[Reader]
  BY <1>3, <1>4, <1>1, <1>2 DEF Scheduled
<1> QED
  BY <1>1, <1>2, <1>4

-----------------------------------------------------------------------------
(***************************************************************************)
(* The invariant is inductive.                                             *)
(***************************************************************************)
Others == Reading /\ \A t \in Tasks : OwnSteps(t) /\ Writing(t)

\* A text is begun.
LEMMA StartLogKeeps ==
  ASSUME LoggersApart, RingInv, NEW t \in Tasks, StartLog(t)
  PROVE  Others'
<1>1. /\ TypeOK /\ pc[t] = "idle" /\ t \in loggers /\ Scheduled(t)
      /\ pc' = [pc EXCEPT ![t] = IF allocated THEN "begin" ELSE "log_alloc"]
      /\ UNCHANGED <<loggers, allocated, buffer, head, tail, next, limit, togo, reply>>
  BY DEF StartLog, RingInv, TextInv, At, Goto, ring
<1>2. \A u \in Tasks : u # t => pc[u] \notin LogSteps
  BY <1>1, LoggerAlone DEF RingInv, OwnSteps
<1>3. \A u \in Tasks : OwnSteps(u)'
  BY <1>1 DEF RingInv, OwnSteps, LogSteps, ReadSteps, TypeOK
<1>4. \A u \in Tasks : Writing(u)'
  <2>1. Writing(t)'
    BY <1>1 DEF RingInv, Reading, Writing, TypeOK
  <2>2. ASSUME NEW u \in Tasks, u # t PROVE Writing(u)'
    BY <1>1, <1>2, <2>2 DEF Writing, TypeOK, LogSteps
  <2> QED
    BY <2>1, <2>2
<1>5. Reading'
  BY <1>1 DEF RingInv, Reading, TypeOK
<1> QED
  BY <1>3, <1>4, <1>5 DEF Others

\* A buffer is made; nothing waits in it.
LEMMA AllocateKeeps ==
  ASSUME LoggersApart, RingInv, NEW t \in Tasks, Allocate(t)
  PROVE  Others' /\ head = tail
<1>1. /\ TypeOK /\ pc[t] \in {"log_alloc", "get_alloc"} /\ Scheduled(t) /\ allocated'
      /\ pc' = [pc EXCEPT ![t] = IF pc[t] = "log_alloc" THEN "begin" ELSE "count"]
      /\ UNCHANGED <<loggers, head, tail, next, limit, togo, reply>>
  BY DEF Allocate, RingInv, TextInv, Goto
<1>2. head = tail
  BY <1>1 DEF RingInv, Writing, Reading, OwnSteps, ReadSteps
<1>3. \A u \in Tasks : OwnSteps(u)'
  BY <1>1 DEF RingInv, OwnSteps, LogSteps, ReadSteps, TypeOK
<1>4. \A u \in Tasks : u # t => pc[u] \notin {"check", "store", "advance"}
  <2>1. CASE pc[t] = "log_alloc"
    BY <1>1, <2>1, LoggerAlone DEF RingInv, OwnSteps, LogSteps
  <2>2. CASE pc[t] = "get_alloc"
    BY <1>1, <2>2 DEF RingInv, OwnSteps, ReadSteps, Reading, Writing
  <2> QED
    BY <1>1, <2>1, <2>2
<1>5. \A u \in Tasks : Writing(u)'
  BY <1>1, <1>2, <1>4 DEF Writing, TypeOK
<1>6. Reading'
  <2>1. CASE t = Reader
    BY <1>1, <2>1 DEF RingInv, OwnSteps, LogSteps, ReadSteps, Reading, TypeOK
  <2>2. CASE t # Reader
    <3>1. pc[Reader] = "idle"
      BY <1>1, <2>2, LoggerAlone DEF RingInv, OwnSteps, LogSteps, ReadSteps
    <3> QED
      BY <1>1, <2>2, <3>1 DEF Reading, TypeOK
  <2> QED
    BY <2>1, <2>2
<1> QED
  BY <1>2, <1>3, <1>5, <1>6 DEF Others

\* The local next is taken.
LEMMA BeginKeeps ==
  ASSUME LoggersApart, RingInv, NEW t \in Tasks, Begin(t)
  PROVE  Others'
<1>1. /\ TypeOK /\ pc[t] = "begin" /\ Scheduled(t)
      /\ pc' = [pc EXCEPT ![t] = "check"] /\ next' = [next EXCEPT ![t] = Up(head)]
      /\ UNCHANGED <<loggers, allocated, buffer, head, tail, rest, limit, togo, reply>>
  BY DEF Begin, RingInv, TextInv, At, Goto, ring
<1>2. \A u \in Tasks : OwnSteps(u)'
  BY <1>1 DEF RingInv, OwnSteps, LogSteps, ReadSteps, TypeOK
<1>3. Up(head)' = Up(head) /\ Up(head) \in 0 .. SIZE - 1
  BY <1>1, UpType DEF TypeOK
<1>4. ASSUME NEW u \in Tasks PROVE Writing(u)'
  <2>1. CASE u = t
    BY <1>1, <1>3, <2>1 DEF RingInv, Writing, TypeOK
  <2>2. CASE u # t
    BY <1>1, <1>3, <2>2 DEF RingInv, Writing, TypeOK
  <2> QED
    BY <2>1, <2>2
<1>5. Reading'
  BY <1>1 DEF RingInv, Reading, TypeOK
<1> QED
  BY <1>2, <1>4, <1>5 DEF Others

\* Room is found for a character, or the rest is dropped; the reader is not
\* between Take and Wrap, so the test means what it says.
LEMMA CheckKeeps ==
  ASSUME LoggersApart, RingInv, NEW t \in Tasks, Check(t)
  PROVE  /\ Others'
         /\ \/ UNCHANGED rest
            \/ Length(head, tail) = SIZE - 1 /\ rest' = [rest EXCEPT ![t] = <<>>]
<1> DEFINE more == next[t] # tail /\ rest[t] # <<>>
<1>1. /\ TypeOK /\ pc[t] = "check" /\ Scheduled(t) /\ next[t] = Up(head)
      /\ pc' = [pc EXCEPT ![t] = IF more THEN "store" ELSE "idle"]
      /\ rest' = IF more THEN rest ELSE [rest EXCEPT ![t] = <<>>]
      /\ UNCHANGED <<loggers, allocated, buffer, head, tail, next, limit, togo, reply>>
  BY DEF Check, RingInv, TextInv, Writing, At, Goto, ring
<1>2. \A u \in Tasks : OwnSteps(u)'
  BY <1>1 DEF RingInv, OwnSteps, LogSteps, ReadSteps, TypeOK
<1>3. /\ head \in 0 .. SIZE - 1 /\ tail \in 0 .. SIZE - 1
  <2>1. pc[Reader] # "wrap"
    BY <1>1, LoggerAlone DEF RingInv, OwnSteps, LogSteps
  <2> QED
    BY <1>1, <2>1, UsbLogAssumption DEF TypeOK
<1>4. tail # next[t] => Length(head, tail) < SIZE - 1
  <2>1. Length(head, tail) = SIZE - 1 => tail = next[t]
    BY <1>1, <1>3, FullWhen
  <2>2. Length(head, tail) \in 0 .. SIZE - 1
    BY <1>3, LengthRange, UsbLogAssumption
  <2> QED
    BY <2>1, <2>2, UsbLogAssumption
<1>5. \A u \in Tasks : Writing(u)'
  <2>1. Writing(t)'
    BY <1>1, <1>4 DEF RingInv, Writing, TypeOK
  <2>2. ASSUME NEW u \in Tasks, u # t PROVE Writing(u)'
    BY <1>1, <2>2 DEF RingInv, Writing, TypeOK
  <2> QED
    BY <2>1, <2>2
<1>6. Reading'
  BY <1>1 DEF RingInv, Reading, TypeOK
<1>7. \/ UNCHANGED rest
      \/ Length(head, tail) = SIZE - 1 /\ rest' = [rest EXCEPT ![t] = <<>>]
  <2>1. CASE more
    BY <1>1, <2>1
  <2>2. CASE next[t] = tail
    <3>1. Length(head, tail) = SIZE - 1
      BY <1>1, <1>3, <2>2, FullWhen
    <3> QED
      BY <1>1, <2>2, <3>1
  <2>3. CASE rest[t] = <<>>
    BY <1>1, <2>3 DEF TypeOK
  <2> QED
    BY <2>1, <2>2, <2>3
<1> QED
  BY <1>2, <1>5, <1>6, <1>7 DEF Others

\* A character is stored, where nothing waits.
LEMMA StoreKeeps ==
  ASSUME LoggersApart, RingInv, NEW t \in Tasks, Store(t)
  PROVE  Others'
<1>1. /\ TypeOK /\ pc[t] = "store" /\ Scheduled(t)
      /\ pc' = [pc EXCEPT ![t] = "advance"]
      /\ buffer' = [buffer EXCEPT ![head] = Head(rest[t])]
      /\ UNCHANGED <<loggers, allocated, head, tail, rest, next, limit, togo, reply>>
  BY DEF Store, RingInv, TextInv, At, Goto
<1>2. \A u \in Tasks : OwnSteps(u)'
  BY <1>1 DEF RingInv, OwnSteps, LogSteps, ReadSteps, TypeOK
<1>3. \A u \in Tasks : u # t => pc[u] \notin LogSteps
  BY <1>1, LoggerAlone DEF RingInv, OwnSteps, LogSteps
<1>4. \A u \in Tasks : Writing(u)'
  <2>1. Writing(t)'
    BY <1>1 DEF RingInv, Writing, TypeOK
  <2>2. ASSUME NEW u \in Tasks, u # t PROVE Writing(u)'
    BY <1>1, <1>3, <2>2 DEF Writing, TypeOK, LogSteps
  <2> QED
    BY <2>1, <2>2
<1>5. Reading'
  BY <1>1 DEF RingInv, Reading, TypeOK
<1> QED
  BY <1>2, <1>4, <1>5 DEF Others

\* A character joins those that wait.
LEMMA AdvanceKeeps ==
  ASSUME LoggersApart, RingInv, NEW t \in Tasks, Advance(t)
  PROVE  /\ Others'
         /\ rest[t] # <<>> /\ Length(head, tail) < SIZE - 1
         /\ rest' = [rest EXCEPT ![t] = Tail(@)]
         /\ Queue(buffer, head', tail) = Append(Queue(buffer, head, tail), Head(rest[t]))
<1>1. /\ TypeOK /\ pc[t] = "advance" /\ Scheduled(t) /\ t \in loggers
      /\ next[t] = Up(head) /\ rest[t] # <<>>
      /\ Length(head, tail) < SIZE - 1 /\ buffer[head] = Head(rest[t])
      /\ pc' = [pc EXCEPT ![t] = "check"]
      /\ head' = next[t] /\ next' = [next EXCEPT ![t] = Up(next[t])]
      /\ rest' = [rest EXCEPT ![t] = Tail(@)]
      /\ UNCHANGED <<loggers, allocated, buffer, tail, limit, togo, reply>>
  BY DEF Advance, RingInv, TextInv, HasText, OwnSteps, Writing, At, Goto, LogSteps
<1>2. \A u \in Tasks : OwnSteps(u)'
  BY <1>1 DEF RingInv, OwnSteps, LogSteps, ReadSteps, TypeOK
<1>3. \A u \in Tasks : u # t => pc[u] \notin LogSteps
  BY <1>1, LoggerAlone DEF RingInv, OwnSteps, LogSteps
<1>4. /\ Up(head)' = Up(head') /\ Up(next[t]) \in 0 .. SIZE - 1
      /\ t = Reader \/ pc[Reader] = "idle"
  BY <1>1, UpType, LoggerAlone DEF TypeOK, Up
<1>5. \A u \in Tasks : Writing(u)'
  <2>1. Writing(t)'
    BY <1>1, <1>4 DEF RingInv, Writing, TypeOK
  <2>2. ASSUME NEW u \in Tasks, u # t PROVE Writing(u)'
    BY <1>1, <1>3, <2>2 DEF Writing, TypeOK, LogSteps
  <2> QED
    BY <2>1, <2>2
<1>6. Reading'
  <2>1. allocated /\ pc'[Reader] \in {"idle", "check"}
    BY <1>1, <1>4, UsbLogAssumption DEF RingInv, Writing, TypeOK
  <2> QED
    BY <1>1, <2>1 DEF Reading
<1>7. head \in 0 .. SIZE - 1 /\ tail \in 0 .. SIZE - 1 /\ buffer \in [0 .. SIZE - 1 -> Chars]
  BY <1>1, <1>4, UsbLogAssumption DEF TypeOK
<1>8. Queue(buffer, head', tail) = Append(Queue(buffer, head, tail), Head(rest[t]))
  BY <1>1, <1>7, AdvanceAppends
<1> QED
  BY <1>1, <1>2, <1>5, <1>6, <1>8 DEF Others

\* A request is begun.
LEMMA StartGetKeeps == ASSUME RingInv, StartGet PROVE Others'
<1>1. /\ TypeOK /\ Reader \in Tasks /\ pc[Reader] = "idle" /\ reply' = <<>>
      /\ pc' = [pc EXCEPT ![Reader] = IF allocated THEN "count" ELSE "get_alloc"]
      /\ UNCHANGED <<loggers, allocated, buffer, head, tail, rest, next, togo>>
  BY UsbLogAssumption DEF StartGet, RingInv, TextInv, At, Goto, ring
<1>2. \A u \in Tasks : OwnSteps(u)'
  BY <1>1 DEF RingInv, OwnSteps, LogSteps, ReadSteps, TypeOK
<1>3. \A u \in Tasks : Writing(u)'
  BY <1>1 DEF RingInv, Writing, TypeOK
<1>4. Reading'
  BY <1>1 DEF RingInv, Reading, TypeOK
<1> QED
  BY <1>2, <1>3, <1>4 DEF Others

\* The reader counts what waits, or as much of it as the reply has room for.
LEMMA CountKeeps == ASSUME RingInv, Count PROVE Others'
<1>1. /\ TypeOK /\ Reader \in Tasks /\ pc[Reader] = "count" /\ reply = <<>>
      /\ togo' = Least((head - tail + SIZE) % SIZE, limit)
      /\ pc' = [pc EXCEPT ![Reader] = IF togo' > 0 THEN "take" ELSE "idle"]
      /\ UNCHANGED <<loggers, allocated, buffer, head, tail, rest, next, limit, reply>>
  BY UsbLogAssumption DEF Count, RingInv, TextInv, Reading, At, Goto, ring
<1>2. \A u \in Tasks : OwnSteps(u)'
  BY <1>1 DEF RingInv, OwnSteps, LogSteps, ReadSteps, TypeOK
<1>3. \A u \in Tasks : Writing(u)'
  BY <1>1 DEF RingInv, Writing, TypeOK
<1>4. /\ (head - tail + SIZE) % SIZE = Length(head, tail)
      /\ Length(head, tail) \in Nat /\ limit \in Nat /\ Len(<<>>) = 0
  <2>1. SIZE \in Nat /\ head \in 0 .. SIZE - 1 /\ tail \in 0 .. SIZE /\ limit \in Nat
    BY <1>1, UsbLogAssumption DEF TypeOK
  <2>2. (head - tail + SIZE) % SIZE = Length(head, tail)
    BY <2>1, LengthIs
  <2>3. Length(head, tail) \in 0 .. SIZE - 1
    BY <2>1, LengthRange
  <2> QED
    BY <2>1, <2>2, <2>3
<1>5. togo' \in 0 .. Length(head, tail)
  BY <1>1, <1>4 DEF Least
<1>6. Reading'
  BY <1>1, <1>4, <1>5 DEF RingInv, Reading, TypeOK
<1> QED
  BY <1>2, <1>3, <1>6 DEF Others

\* The reader takes the first of those that wait.
LEMMA TakeKeeps ==
  ASSUME RingInv, Take
  PROVE  /\ Others'
         /\ Queue(buffer, head, tail) # <<>>
         /\ reply' = Append(reply, Head(Queue(buffer, head, tail)))
         /\ Queue(buffer, head, tail') = Tail(Queue(buffer, head, tail))
<1>1. /\ TypeOK /\ Reader \in Tasks /\ pc[Reader] = "take"
      /\ togo - Len(reply) \in 1 .. Length(head, tail)
      /\ reply' = Append(reply, buffer[tail]) /\ tail' = tail + 1
      /\ pc' = [pc EXCEPT ![Reader] = "wrap"]
      /\ UNCHANGED <<loggers, allocated, buffer, head, rest, next, limit, togo>>
  BY UsbLogAssumption DEF Take, RingInv, TextInv, Reading, At, Goto
<1>2. /\ SIZE \in Nat /\ SIZE > 1
      /\ head \in 0 .. SIZE - 1 /\ tail \in 0 .. SIZE - 1
      /\ buffer \in [0 .. SIZE - 1 -> Chars] /\ buffer[tail] \in Chars
  <2>1. SIZE \in Nat /\ SIZE > 1 /\ tail \in 0 .. SIZE - 1
    BY <1>1, UsbLogAssumption DEF TypeOK
  <2> QED
    BY <1>1, <2>1 DEF TypeOK
<1>3. Length(head, tail) \in 1 .. SIZE - 1 /\ Len(reply) \in Nat /\ togo \in Nat
  <2>1. Len(reply) \in Nat /\ togo \in Nat
    BY <1>1, <1>2, LenProperties DEF TypeOK
  <2>2. Length(head, tail) \in 0 .. SIZE - 1
    BY <1>2, LengthRange
  <2> QED
    BY <1>1, <1>2, <2>1, <2>2
<1>4. /\ Length(head, tail') = Length(head, tail) - 1
      /\ Queue(buffer, head, tail) # <<>>
      /\ Head(Queue(buffer, head, tail)) = buffer[tail]
      /\ Queue(buffer, head, tail') = Tail(Queue(buffer, head, tail))
  BY <1>1, <1>2, <1>3, TakeRemoves
<1>5. Len(reply') = Len(reply) + 1
  BY <1>1, <1>2, AppendProperties DEF TypeOK
<1>6. \A u \in Tasks : OwnSteps(u)'
  BY <1>1 DEF RingInv, OwnSteps, LogSteps, ReadSteps, TypeOK
<1>7. head # tail
  BY <1>2, <1>3 DEF Length
<1>8. allocated
  BY <1>7 DEF RingInv, Reading
<1>9. ASSUME NEW u \in Tasks PROVE Writing(u)'
  <2>1. Writing(u) /\ pc[u] # "log_alloc"
    BY <1>7 DEF RingInv, Writing
  <2>2. CASE u = Reader
    BY <1>1, <1>8, <2>2 DEF Writing, TypeOK
  <2>3. CASE u # Reader
    BY <1>1, <1>2, <1>3, <1>4, <2>1, <2>3 DEF Writing, TypeOK, Up
  <2> QED
    BY <2>2, <2>3
<1>10. Reading'
  BY <1>1, <1>3, <1>4, <1>5, <1>8 DEF Reading, TypeOK
<1> QED
  BY <1>1, <1>4, <1>6, <1>9, <1>10 DEF Others

\* The tail's other name for the first place is given up.
LEMMA WrapKeeps ==
  ASSUME RingInv, Wrap
  PROVE  Others' /\ Queue(buffer, head, tail') = Queue(buffer, head, tail)
<1>1. /\ TypeOK /\ Reader \in Tasks /\ pc[Reader] = "wrap"
      /\ togo - Len(reply) \in 0 .. Length(head, tail)
      /\ tail' = IF tail = SIZE THEN 0 ELSE tail
      /\ pc' = [pc EXCEPT ![Reader] = IF Len(reply) < togo THEN "take" ELSE "idle"]
      /\ UNCHANGED <<loggers, allocated, buffer, head, rest, next, limit, togo, reply>>
  BY UsbLogAssumption DEF Wrap, RingInv, TextInv, Reading, At, Goto
<1>2. /\ SIZE \in Nat /\ SIZE > 1 /\ head \in 0 .. SIZE - 1 /\ tail \in 0 .. SIZE
      /\ Len(reply) \in Nat /\ togo \in Nat
  BY <1>1, UsbLogAssumption, LenProperties DEF TypeOK
<1>3. /\ Length(head, tail') = Length(head, tail)
      /\ Queue(buffer, head, tail') = Queue(buffer, head, tail)
  BY <1>1, <1>2, WrapSame
<1>4. \A u \in Tasks : OwnSteps(u)'
  BY <1>1 DEF RingInv, OwnSteps, LogSteps, ReadSteps, TypeOK
<1>5. head = tail => tail' = tail
  BY <1>1, <1>2
<1>6. ASSUME NEW u \in Tasks PROVE Writing(u)'
  <2>1. CASE u = Reader
    BY <1>1, <2>1 DEF Writing, TypeOK
  <2>2. CASE u # Reader
    BY <1>1, <1>3, <1>5, <2>2 DEF RingInv, Writing, TypeOK, Up
  <2> QED
    BY <2>1, <2>2
<1>7. Reading'
  BY <1>1, <1>2, <1>3, <1>5 DEF RingInv, Reading, TypeOK
<1> QED
  BY <1>3, <1>4, <1>6, <1>7 DEF Others

\* All steps together.
LEMMA StepKeepsRing == ASSUME LoggersApart, RingInv, [Next]_vars PROVE RingInv'
<1>1. TextInv'
  BY StepKeepsText DEF RingInv
<1>2. Others'
  <2>1. ASSUME NEW t \in Tasks, StartLog(t) PROVE Others'
    BY <2>1, StartLogKeeps
  <2>2. ASSUME NEW t \in Tasks, Step(t) PROVE Others'
    BY <2>2, AllocateKeeps, BeginKeeps, CheckKeeps, StoreKeeps, AdvanceKeeps,
       CountKeeps, TakeKeeps, WrapKeeps DEF Step
  <2>3. CASE StartGet
    BY <2>3, StartGetKeeps
  <2>4. CASE UNCHANGED vars
    BY <2>4 DEF vars, ring, RingInv, Others, Reading, OwnSteps, Writing, Up
  <2> QED
    BY <2>1, <2>2, <2>3, <2>4 DEF Next
<1> QED
  BY <1>1, <1>2 DEF RingInv, Others

\* Nothing waits at first.
LEMMA InitRing == Init => RingInv
<1> SUFFICES ASSUME Init PROVE RingInv
  OBVIOUS
<1> QED
  BY InitText, UsbLogAssumption
  DEF Init, RingInv, Reading, OwnSteps, Writing, LogSteps, ReadSteps

-----------------------------------------------------------------------------
(***************************************************************************)
(* The ring implements the channel.                                        *)
(***************************************************************************)
\* What waits, in this state and in the next.
LEMMA WaitingNow ==
  ASSUME TypeOK, TypeOK'
  PROVE  /\ Waiting = Queue(buffer, head, tail)
         /\ Waiting' = Queue(buffer', head', tail')
         /\ Len(Waiting) = Length(head, tail)
         /\ Waiting \in Seq(Chars)
<1>1. Waiting = Queue(buffer, head, tail)
  BY WaitingIs DEF Waiting, Pending, TypeOK
<1>2. Waiting' = Queue(buffer', head', tail')
  BY WaitingIs DEF Waiting, Pending, TypeOK
<1> QED
  BY <1>1, <1>2, QueueIsSeq DEF TypeOK

\* Every step of the ring is a step of the channel, or none.
LEMMA StepSimulates ==
  ASSUME LoggersApart, RingInv, [Next]_vars
  PROVE  [Channel!Next]_(Channel!vars)
<1>1. TextInv'
  BY StepKeepsText DEF RingInv
<1>2. /\ TypeOK /\ TypeOK'
      /\ Waiting = Queue(buffer, head, tail)
      /\ Waiting' = Queue(buffer', head', tail')
      /\ Len(Waiting) = Length(head, tail)
  BY <1>1, WaitingNow DEF RingInv, TextInv
<1>3. ASSUME UNCHANGED <<buffer, head, tail>> PROVE UNCHANGED Waiting
  BY <1>2, <1>3
<1>4. ASSUME NEW t \in Tasks, StartLog(t) PROVE Channel!Log(t)
  <2>1. /\ pc[t] = "idle" /\ UNCHANGED <<buffer, head, tail, reply>>
        /\ \E s \in Texts : rest' = [rest EXCEPT ![t] = Formatted(s)]
    BY <1>4 DEF StartLog, At, ring
  <2>2. rest[t] = <<>>
    BY <2>1 DEF RingInv, TextInv, HasText, LogSteps
  <2>3. rest'[t] \in Seq(Chars) /\ rest' = [rest EXCEPT ![t] = rest'[t]]
    BY <1>2, <2>1 DEF TypeOK
  <2> QED
    BY <1>3, <2>1, <2>2, <2>3 DEF Channel!Log
<1>5. ASSUME NEW t \in Tasks, Allocate(t) PROVE UNCHANGED Channel!vars
  <2>1. head = tail /\ UNCHANGED <<head, tail, rest, reply>> /\ head \in 0 .. SIZE - 1
    BY <1>2, <1>5, AllocateKeeps DEF Allocate, TypeOK
  <2>2. Waiting' = Waiting
    BY <1>2, <2>1, NothingWaits
  <2> QED
    BY <2>1, <2>2 DEF Channel!vars
<1>6. ASSUME NEW t \in Tasks, Begin(t) PROVE UNCHANGED Channel!vars
  BY <1>3, <1>6 DEF Begin, ring, Channel!vars
<1>7. ASSUME NEW t \in Tasks, Check(t)
      PROVE  Channel!DropRest(t) \/ UNCHANGED Channel!vars
  <2>1. UNCHANGED <<Waiting, reply>>
    BY <1>3, <1>7 DEF Check, ring
  <2>2. \/ UNCHANGED rest
        \/ Len(Waiting) = SIZE - 1 /\ rest' = [rest EXCEPT ![t] = <<>>]
    BY <1>2, <1>7, CheckKeeps
  <2> QED
    BY <2>1, <2>2 DEF Channel!DropRest, Channel!vars
<1>8. ASSUME NEW t \in Tasks, Store(t) PROVE UNCHANGED Channel!vars
  <2>1. /\ UNCHANGED <<head, tail, rest, reply>>
        /\ buffer' = [buffer EXCEPT ![head] = Head(rest[t])]
        /\ rest[t] # <<>> /\ rest[t] \in Seq(Chars)
    BY <1>2, <1>8 DEF Store, At, RingInv, TextInv, HasText, TypeOK
  <2>2. Head(rest[t]) \in Chars
    BY <2>1, HeadTailProperties
  <2>3. /\ buffer \in [0 .. SIZE - 1 -> Chars]
        /\ head \in 0 .. SIZE - 1 /\ tail \in 0 .. SIZE
    BY <1>2 DEF TypeOK
  <2>4. Queue(buffer', head, tail) = Queue(buffer, head, tail)
    BY <2>1, <2>2, <2>3, StoreOutside
  <2>5. Waiting' = Waiting
    BY <1>2, <2>1, <2>4
  <2> QED
    BY <2>1, <2>5 DEF Channel!vars
<1>9. ASSUME NEW t \in Tasks, Advance(t) PROVE Channel!Accept(t)
  <2>1. UNCHANGED <<buffer, tail, reply>>
    BY <1>9 DEF Advance
  <2>2. /\ rest[t] # <<>> /\ Length(head, tail) < SIZE - 1
        /\ rest' = [rest EXCEPT ![t] = Tail(@)]
        /\ Waiting' = Append(Waiting, Head(rest[t]))
    BY <1>2, <1>9, <2>1, AdvanceKeeps
  <2> QED
    BY <1>2, <2>1, <2>2 DEF Channel!Accept
<1>10. CASE StartGet
  <2>1. reply' = <<>> /\ UNCHANGED <<rest, Waiting>>
    BY <1>3, <1>10 DEF StartGet, ring
  <2> QED
    BY <2>1 DEF Channel!Next, Channel!StartReply
<1>11. CASE Count
  BY <1>3, <1>11 DEF Count, ring, Channel!vars
<1>12. CASE Take
  <2>1. UNCHANGED <<buffer, head, rest>>
    BY <1>12 DEF Take
  <2>2. /\ Waiting # <<>> /\ reply' = Append(reply, Head(Waiting))
        /\ Waiting' = Tail(Waiting)
    BY <1>2, <1>12, <2>1, TakeKeeps
  <2> QED
    BY <2>1, <2>2 DEF Channel!Next, Channel!Deliver
<1>13. CASE Wrap
  <2>1. UNCHANGED <<buffer, head, rest, reply>>
    BY <1>13 DEF Wrap
  <2>2. UNCHANGED Waiting
    BY <1>2, <1>13, <2>1, WrapKeeps
  <2> QED
    BY <2>1, <2>2 DEF Channel!vars
<1>14. CASE UNCHANGED vars
  BY <1>3, <1>14 DEF vars, ring, Channel!vars
<1> QED
  BY <1>4, <1>5, <1>6, <1>7, <1>8, <1>9, <1>10, <1>11, <1>12, <1>13, <1>14
  DEF Next, Step, Channel!Next

\* Nothing waits, and nothing is said, at first.
LEMMA InitSimulates == Init => Channel!Init
<1> SUFFICES ASSUME Init PROVE Channel!Init
  OBVIOUS
<1>1. head \in 0 .. SIZE - 1 /\ tail \in 0 .. SIZE /\ tail = head
  BY UsbLogAssumption DEF Init
<1>2. Waiting = Queue(buffer, head, tail)
  BY <1>1, WaitingIs DEF Waiting, Pending
<1>3. Waiting = <<>>
  BY <1>1, <1>2, NothingWaits
<1> QED
  BY <1>3 DEF Init, Channel!Init

\* What is logged comes out at the host in the order it went in, each character
\* once, and only what does not fit is dropped, for every size of the ring and
\* however the USB task preempts the one that logs: advanced_usb_write_log and
\* handle_advanced_usb_terminal_get implement the channel as long as no second
\* task logs and none above the USB task does.
THEOREM RingIsAChannel ==
  ASSUME LoggersApart
  PROVE  Spec => DropsOnlyExtra
<1>1. Init => RingInv
  BY InitRing
<1>2. RingInv /\ [Next]_vars => RingInv'
  BY StepKeepsRing
<1>3. RingInv /\ [Next]_vars => [Channel!Next]_(Channel!vars)
  BY StepSimulates
<1>4. Init => Channel!Init
  BY InitSimulates
<1> QED
  BY <1>1, <1>2, <1>3, <1>4, PTL DEF Spec, DropsOnlyExtra, Channel!Spec
===============================================================================
