------------------------------- MODULE UsbLog -------------------------------
(***************************************************************************)
(* The log of advanced_usb_control.c: a ring that uprintf and the vprintf  *)
(* hook of ESP-IDF fill from any task, and that the USB task empties into  *)
(* the replies to report 0xac.  There is no lock: one core runs the tasks, *)
(* and a task of higher priority may take over between any two steps of    *)
(* another.  Which tasks log depends on the build (DEBUG_PRINT, log levels)*)
(* and is chosen at the start.                                             *)
(***************************************************************************)
EXTENDS Integers, Sequences

CONSTANTS
  Tasks,          \* app_main, the USB task, and others that may log
  Priority,       \* their FreeRTOS priorities
  Reader,         \* the task that serves report 0xac
  LoggerChoices,  \* the sets of tasks that may log
  SIZE,           \* AUPB_SIZE
  Letters,        \* the characters of a text
  MaxText,        \* bound: the longest text logged at once
  Kept,           \* how much of it fits the buffer of vsnprintf
  Other,          \* a character that is none of the text's
  Limits          \* how many characters a reply has room for (reqlen - 2)

Chars == Letters \cup {Other}

ASSUME UsbLogAssumption ==
  /\ SIZE \in Nat /\ SIZE > 1
  /\ Reader \in Tasks /\ Priority \in [Tasks -> Nat]
  /\ \A loggers \in LoggerChoices : loggers \subseteq Tasks
  /\ MaxText \in Nat /\ Kept \in Nat
  /\ Limits \subseteq Nat \ {0}

VARIABLES
  loggers,    \* the tasks that log
  allocated, buffer, head, tail,   \* advanced_usb_printf_buffer, _head, _tail
  pc,         \* where each task stands
  rest,       \* rest[t]: data[idx .. size - 1] in advanced_usb_write_log
  next,       \* next[t]: its local next
  limit,      \* reqlen - 2 of the present request
  togo,       \* the reader's local togo
  reply       \* the characters it has put in the reply

ring == <<allocated, buffer, head, tail>>
vars == <<loggers, ring, pc, rest, next, limit, togo, reply>>

Steps == {"idle", "log_alloc", "begin", "check", "store", "advance",
          "get_alloc", "count", "take", "wrap"}
Up(i) == (i + 1) % SIZE
Blank == [i \in 0 .. SIZE - 1 |-> Other]

Init ==
  /\ loggers \in LoggerChoices
  /\ allocated = FALSE /\ buffer = Blank /\ head = 0 /\ tail = 0
  /\ pc = [t \in Tasks |-> "idle"]
  /\ rest = [t \in Tasks |-> <<>>]
  /\ next = [t \in Tasks |-> 0]
  /\ limit = 1 /\ togo = 0 /\ reply = <<>>

\* The scheduler of the one core: no task of higher priority is ready.
Scheduled(t) == \A u \in Tasks : Priority[u] > Priority[t] => pc[u] = "idle"
At(t, step) == pc[t] = step /\ Scheduled(t)
Goto(t, step) == pc' = [pc EXCEPT ![t] = step]

-----------------------------------------------------------------------------
\* advanced_usb_write_log_printf: vsnprintf keeps the start of the text but
\* returns the length of all of it, which is then taken from its buffer.
Texts == UNION {[1 .. n -> Letters] : n \in 0 .. MaxText}
Formatted(s) == [i \in 1 .. Len(s) |-> IF i <= Kept THEN s[i] ELSE Other]

StartLog(t) ==
  /\ At(t, "idle") /\ t \in loggers
  /\ \E s \in Texts : rest' = [rest EXCEPT ![t] = Formatted(s)]
  /\ Goto(t, IF allocated THEN "begin" ELSE "log_alloc")
  /\ UNCHANGED <<loggers, ring, next, limit, togo, reply>>

\* heap_caps_calloc, for a task that found no buffer.
Allocate(t) ==
  /\ Scheduled(t) /\ pc[t] \in {"log_alloc", "get_alloc"}
  /\ allocated' = TRUE /\ buffer' = Blank
  /\ Goto(t, IF pc[t] = "log_alloc" THEN "begin" ELSE "count")
  /\ UNCHANGED <<loggers, head, tail, rest, next, limit, togo, reply>>

Begin(t) ==
  /\ At(t, "begin")
  /\ next' = [next EXCEPT ![t] = Up(head)]
  /\ Goto(t, "check")
  /\ UNCHANGED <<loggers, ring, rest, limit, togo, reply>>

\* Slip: the writer does not stop at the reader's position.
CheckSizeOnly(t) ==
  /\ At(t, "check")
  /\ Goto(t, IF rest[t] # <<>> THEN "store" ELSE "idle")
  /\ UNCHANGED <<loggers, ring, rest, next, limit, togo, reply>>

\* The condition of the loop; what does not fit is dropped.
Check(t) ==
  /\ At(t, "check")
  /\ LET more == next[t] # tail /\ rest[t] # <<>>
     IN  /\ Goto(t, IF more THEN "store" ELSE "idle")
         /\ rest' = IF more THEN rest ELSE [rest EXCEPT ![t] = <<>>]
  /\ UNCHANGED <<loggers, ring, next, limit, togo, reply>>

Store(t) ==
  /\ At(t, "store")
  /\ buffer' = [buffer EXCEPT ![head] = Head(rest[t])]
  /\ Goto(t, "advance")
  /\ UNCHANGED <<loggers, allocated, head, tail, rest, next, limit, togo, reply>>

\* idx, a local, is counted here although the code does so with the store.
Advance(t) ==
  /\ At(t, "advance")
  /\ head' = next[t]
  /\ next' = [next EXCEPT ![t] = Up(next[t])]
  /\ rest' = [rest EXCEPT ![t] = Tail(@)]
  /\ Goto(t, "check")
  /\ UNCHANGED <<loggers, allocated, buffer, tail, limit, togo, reply>>

-----------------------------------------------------------------------------
\* handle_advanced_usb_terminal_get, in the USB task.
StartGet ==
  /\ At(Reader, "idle")
  /\ limit' \in Limits
  /\ reply' = <<>>
  /\ Goto(Reader, IF allocated THEN "count" ELSE "get_alloc")
  /\ UNCHANGED <<loggers, ring, rest, next, togo>>

Least(m, n) == IF m < n THEN m ELSE n

\* Slip: a head behind the tail counts as nothing to send.
CountUnwrapped ==
  /\ At(Reader, "count")
  /\ togo' = IF head < tail THEN 0 ELSE Least(head - tail, limit)
  /\ Goto(Reader, IF togo' > 0 THEN "take" ELSE "idle")
  /\ UNCHANGED <<loggers, ring, rest, next, limit, reply>>

Count ==
  /\ At(Reader, "count")
  /\ togo' = Least((head - tail + SIZE) % SIZE, limit)
  /\ Goto(Reader, IF togo' > 0 THEN "take" ELSE "idle")
  /\ UNCHANGED <<loggers, ring, rest, next, limit, reply>>

Take ==
  /\ At(Reader, "take")
  /\ reply' = Append(reply, buffer[tail])
  /\ tail' = tail + 1
  /\ Goto(Reader, "wrap")
  /\ UNCHANGED <<loggers, allocated, buffer, head, rest, next, limit, togo>>

\* Slip: the wrap is tested one too late.
WrapLate ==
  /\ At(Reader, "wrap")
  /\ tail' = IF tail > SIZE THEN 0 ELSE tail
  /\ Goto(Reader, IF Len(reply) < togo THEN "take" ELSE "idle")
  /\ UNCHANGED <<loggers, allocated, buffer, head, rest, next, limit, togo, reply>>

\* The tail stands at SIZE until this step puts it back to 0.
Wrap ==
  /\ At(Reader, "wrap")
  /\ tail' = IF tail = SIZE THEN 0 ELSE tail
  /\ Goto(Reader, IF Len(reply) < togo THEN "take" ELSE "idle")
  /\ UNCHANGED <<loggers, allocated, buffer, head, rest, next, limit, togo, reply>>

Step(t) ==
  \/ Allocate(t) \/ Begin(t) \/ Check(t) \/ Store(t) \/ Advance(t)
  \/ t = Reader /\ (Count \/ Take \/ Wrap)

Next == StartGet \/ \E t \in Tasks : StartLog(t) \/ Step(t)

\* The core never idles while a task is ready; the host polls for ever
\* (swadgeterm.c:44-85) and the USB task serves its requests in turn.
Fairness ==
  /\ \A t \in Tasks : WF_vars(Step(t))
  /\ SF_vars(StartGet)

Spec == Init /\ [][Next]_vars /\ Fairness

-----------------------------------------------------------------------------
\* The ring, its indices and the locals of the tasks have their ranges
\* (advanced_usb_control.c:27-29, 63, 123); only the reader sees tail = SIZE.
TypeOK ==
  /\ loggers \in LoggerChoices
  /\ allocated \in BOOLEAN /\ buffer \in [0 .. SIZE - 1 -> Chars]
  /\ head \in 0 .. SIZE - 1
  /\ tail \in 0 .. SIZE /\ (tail = SIZE => pc[Reader] = "wrap")
  /\ pc \in [Tasks -> Steps]
  /\ rest \in [Tasks -> Seq(Chars)]
  /\ next \in [Tasks -> 0 .. SIZE - 1]
  /\ limit \in Nat \ {0} /\ togo \in 0 .. SIZE - 1 /\ reply \in Seq(Chars)

Pending == (head - tail + SIZE) % SIZE
Waiting == [i \in 1 .. Pending |-> buffer[(tail + i - 1) % SIZE]]

Channel == INSTANCE LogChannel WITH
  Capacity <- SIZE - 1, text <- rest, queue <- Waiting

\* "Drop extra characters on the floor." (advanced_usb_control.c:66): the ring
\* is a queue that refuses a character only when it is full, whenever the USB
\* task preempts the one that logs.
DropsOnlyExtra == Channel!Spec

\* What waits in the ring gets to a host that keeps polling.
WaitingIsRead ==
  \A i \in 0 .. SIZE - 1 : (tail = i /\ head # i) ~> (tail # i)
=============================================================================
