------------------------- MODULE FeatureReport_proofs -------------------------
(***************************************************************************)
(* The command interpreter's safety, for every size of the reply buffer,   *)
(* of the reports and of the lengths in them: the types, that the reply    *)
(* fits, that a patient host gets its own answers, which commands lose the *)
(* step, and that a report has an end.  Only which commands are in use is  *)
(* restricted for one of them: "determine" appends seven bytes where the   *)
(* interpreter has made sure of six, and the run report_full shows what    *)
(* becomes of ReplyFits then.                                              *)
(***************************************************************************)
EXTENDS FeatureReport, TLAPS

\* A command other than "determine" that begins with six bytes to spare
\* leaves the reply within retbuff.
LEMMA ReplyBound ==
  ASSUME NEW n \in 0 .. CAP, NEW c \in Commands, c # "determine",
         NEW l \in Lengths, HasRoom(n, 6),
         c = "setup" => HasRoom(n, 18)
  PROVE  Reply(n, c, l) \subseteq 0 .. CAP
<1>1. CAP \in Nat /\ CAP > 17 /\ l \in Nat
  BY FeatureReportAssumption
<1>2. n + 6 <= CAP
  BY <1>1 DEF HasRoom
<1>3. c \in LinkCommands \cup RegisterCommands \cup UpdiCommands \cup {"mode"}
  BY FeatureReportAssumption
<1>4. CASE c = "terminal"
  BY <1>1, <1>2, <1>4 DEF Reply
<1>5. CASE c \in {"readout", "memory"}
  BY <1>1, <1>2, <1>5 DEF Reply, HasRoom
<1>6. CASE c = "setup"
  BY <1>1, <1>2, <1>6 DEF Reply, HasRoom
<1>7. CASE c \in {"init", "status", "write", "block64", "override", "block", "page",
              "ch5xx_block", "ch5xx_erase", "set_clock", "updi_status", "unknown",
              "read", "register_read", "mode"}
  BY <1>1, <1>2, <1>7 DEF Reply
<1>8. CASE c \in {"silent", "delay", "clock", "register_write", "updi_power"}
  BY <1>1, <1>2, <1>8 DEF Reply
<1> QED
  BY <1>3, <1>4, <1>5, <1>6, <1>7, <1>8
     DEF LinkCommands, RegisterCommands, UpdiCommands

\* Any answer is a natural number of bytes.
LEMMA ReplyType ==
  ASSUME NEW n \in Nat, NEW c \in Commands, NEW l \in Lengths
  PROVE  Reply(n, c, l) \subseteq Nat
<1>1. CAP \in Nat /\ CAP > 17 /\ l \in Nat
  BY FeatureReportAssumption
<1>2. c \in LinkCommands \cup RegisterCommands \cup UpdiCommands \cup {"mode"}
  BY FeatureReportAssumption
<1>3. CASE c = "terminal"
  BY <1>1, <1>3 DEF Reply
<1>4. CASE c \in {"readout", "memory"}
  BY <1>1, <1>4 DEF Reply
<1>5. CASE c \in {"setup", "determine"}
  BY <1>1, <1>5 DEF Reply
<1>6. CASE c \in {"init", "status", "write", "block64", "override", "block", "page",
              "ch5xx_block", "ch5xx_erase", "set_clock", "updi_status", "unknown",
              "read", "register_read", "mode"}
  BY <1>1, <1>6 DEF Reply
<1>7. CASE c \in {"silent", "delay", "clock", "register_write", "updi_power"}
  BY <1>1, <1>7 DEF Reply
<1> QED
  BY <1>2, <1>3, <1>4, <1>5, <1>6, <1>7
     DEF LinkCommands, RegisterCommands, UpdiCommands

\* The sizes programmer.c has (64-byte pages, 260-byte slots, lengths of one
\* byte in its block commands): a slot holds a page or a block with its
\* address.
SizesFit == PAGE + 6 <= SLOT /\ 9 <= SLOT /\ \A l \in Lengths : l + 2 <= SLOT

\* No command steps over more than SLOT bytes.
LEMMA AdvanceBound ==
  ASSUME SizesFit, NEW c \in Commands, NEW l \in Lengths
  PROVE  Advance(c, l) \in 0 .. SLOT
<1>1. PAGE \in Nat /\ SLOT \in Nat /\ l \in Nat
  BY FeatureReportAssumption
<1>2. l + 2 <= SLOT /\ PAGE + 6 <= SLOT /\ 9 <= SLOT
  BY DEF SizesFit
<1>3. CASE c \in {"block", "ch5xx_block", "readout"}
  BY <1>1, <1>2, <1>3 DEF Advance
<1>4. CASE c \notin {"block", "ch5xx_block", "readout"}
  <2>1. Advance(c, l) = Operands(c, l)
    BY <1>4 DEF Advance
  <2>2. CASE c \in {"page", "block64"}
    <3>1. Operands(c, l) \in {PAGE + 2, PAGE + 4}
      BY <2>2 DEF Operands
    <3> QED
      BY <1>1, <1>2, <2>1, <3>1
  <2>3. CASE c \notin {"page", "block64"}
    <3>1. Operands(c, l) \in {0, 1, 2, 3, 4, 8, 9}
      BY <1>4, <2>3 DEF Operands
    <3> QED
      BY <1>1, <1>2, <2>1, <3>1
  <2> QED
    BY <2>1, <2>2, <2>3
<1> QED
  BY <1>3, <1>4

-----------------------------------------------------------------------------
\* A command keeps every variable within its range.
LEMMA CommandKeepsType ==
  ASSUME SizesFit, TypeOK, NEW c \in Commands, NEW l \in Lengths, Command(c, l)
  PROVE  TypeOK'
<1>1. SLOT \in Nat /\ ReportLengths \subseteq Nat \ {0}
  BY FeatureReportAssumption
<1>2. Advance(c, l) \in 0 .. SLOT /\ Prefix(c) \in {1, 2}
  BY AdvanceBound DEF Prefix
<1>3. reqlen \in Nat /\ pos \in Nat /\ pos < reqlen
  BY <1>1 DEF TypeOK, Command, Reading
<1>4. pos' \in 0 .. reqlen' + SLOT + 2
  <2>1. PICK n \in 0 .. SLOT : pos' = pos + Prefix(c) + n
    BY <1>1, <1>2 DEF Command
  <2>2. reqlen' = reqlen
    BY DEF Command
  <2> QED
    BY <1>1, <1>2, <1>3, <2>1, <2>2
<1>5. retlen' \in Nat
  BY ReplyType DEF TypeOK, Command
<1>6. culprit' \in Commands \cup {"none"}
  BY DEF TypeOK, Command
<1>7. programmer_mode' \in Modes
  BY DEF TypeOK, Command
<1> QED
  BY <1>4, <1>5, <1>6, <1>7 DEF TypeOK, Command, host

\* Type correctness of the interpreter: in particular its pointer into the
\* report never passes the end by more than the longest command.
THEOREM TypeCorrect == ASSUME SizesFit PROVE Spec => []TypeOK
<1>1. Init => TypeOK
  <2>1. SUFFICES ASSUME Init PROVE TypeOK
    OBVIOUS
  <2>2. pos \in 0 .. reqlen + SLOT + 2
    BY <2>1, FeatureReportAssumption DEF Init
  <2> QED
    BY <2>1, <2>2 DEF Init, TypeOK, Modes
<1>2. TypeOK /\ [Next]_vars => TypeOK'
  <2>0. SUFFICES ASSUME TypeOK, [Next]_vars PROVE TypeOK'
    OBVIOUS
  <2>1. SLOT \in Nat /\ ReportLengths \subseteq Nat \ {0}
    BY FeatureReportAssumption
  <2>2. CASE SetReport
    <3>1. reqlen' \in ReportLengths /\ pos' = 1
      BY <2>2 DEF SetReport
    <3>3. pos' \in 0 .. reqlen' + SLOT + 2
      <4>1. \A r \in Nat : 1 \in 0 .. r + SLOT + 2
        BY <2>1
      <4> QED
        BY <2>1, <3>1, <4>1
    <3>2. stale' \in BOOLEAN /\ owed' \in BOOLEAN /\ patient' \in BOOLEAN
      BY <2>0, <2>2 DEF SetReport, TypeOK
    <3> QED
      BY <2>0, <2>2, <3>1, <3>2, <3>3 DEF SetReport, TypeOK
  <2>3. CASE GetReport
    <3>1. retlen' \in Nat
      BY <2>0, <2>3 DEF GetReport, TypeOK
    <3>2. retisready' \in BOOLEAN
      BY <2>0, <2>3, Zenon DEF GetReport, TypeOK
    <3> QED
      BY <2>0, <2>3, <3>1, <3>2 DEF GetReport, TypeOK
  <2>4. CASE EndOfReport
    BY <2>0, <2>1, <2>4 DEF EndOfReport, Finish, TypeOK, host
  <2>5. CASE Fill
    BY <2>0, <2>1, <2>5 DEF Fill, Finish, TypeOK, host
  <2>6. CASE UnknownMode
    BY <2>0, <2>1, <2>6 DEF UnknownMode, Finish, TypeOK, host
  <2>7. ASSUME NEW c \in Commands, NEW l \in Lengths, Command(c, l) PROVE TypeOK'
    BY <2>0, <2>7, CommandKeepsType
  <2>8. CASE UNCHANGED vars
    BY <2>0, <2>8 DEF vars, host, TypeOK
  <2> QED
    BY <2>0, <2>2, <2>3, <2>4, <2>5, <2>6, <2>7, <2>8 DEF Next, Interpret
<1> QED
  BY <1>1, <1>2, PTL DEF Spec

-----------------------------------------------------------------------------
\* The length of the reply is a number that fits retbuff.
FitInv == retlen \in Nat /\ ReplyFits

\* The reply never outgrows retbuff, however many reports come before one is
\* fetched and whatever bytes they hold, as long as "determine" is not among
\* the commands: six bytes of room are enough for each of the others, or they
\* look for more themselves.
THEOREM ReplyAlwaysFits ==
  ASSUME "determine" \notin Commands PROVE Spec => []ReplyFits
<1>1. Init => FitInv
  BY FeatureReportAssumption DEF Init, FitInv, ReplyFits
<1>2. FitInv /\ [Next]_vars => FitInv'
  <2>0. SUFFICES ASSUME FitInv, [Next]_vars PROVE FitInv'
    OBVIOUS
  <2>1. CAP \in Nat /\ retlen \in 0 .. CAP
    BY <2>0, FeatureReportAssumption DEF FitInv, ReplyFits
  <2>2. CASE SetReport
    BY <2>0, <2>2 DEF SetReport, FitInv, ReplyFits
  <2>3. CASE GetReport
    BY <2>0, <2>1, <2>3 DEF GetReport, FitInv, ReplyFits
  <2>4. CASE EndOfReport
    BY <2>0, <2>4 DEF EndOfReport, FitInv, ReplyFits
  <2>5. CASE Fill
    BY <2>0, <2>5 DEF Fill, FitInv, ReplyFits
  <2>6. CASE UnknownMode
    BY <2>1, <2>6 DEF UnknownMode, Reading, HasRoom, FitInv, ReplyFits
  <2>7. ASSUME NEW c \in Commands, NEW l \in Lengths, Command(c, l) PROVE FitInv'
    <3>1. HasRoom(retlen, 6) /\ c # "determine"
      BY <2>7 DEF Command, Reading
    <3>2. CASE CarriedOut(c)
      <4>1. Reply(retlen, c, l) \subseteq 0 .. CAP
        BY <2>1, <3>1, <3>2, ReplyBound DEF CarriedOut
      <4>2. retlen' \in 0 .. CAP
        BY <2>7, <3>2, <4>1 DEF Command
      <4> QED
        BY <2>1, <4>2 DEF FitInv, ReplyFits
    <3>3. CASE ~CarriedOut(c)
      BY <2>1, <2>7, <3>3 DEF Command, FitInv, ReplyFits
    <3> QED
      BY <3>2, <3>3
  <2>8. CASE UNCHANGED vars
    BY <2>0, <2>8 DEF vars, FitInv, ReplyFits
  <2> QED
    BY <2>0, <2>2, <2>3, <2>4, <2>5, <2>6, <2>7, <2>8 DEF Next, Interpret
<1>3. FitInv => ReplyFits
  BY DEF FitInv
<1> QED
  BY <1>1, <1>2, <1>3, PTL DEF Spec

-----------------------------------------------------------------------------
\* A host that has fetched its reply left retbuff empty and no report is being
\* interpreted; and when there is nothing to fetch yet, nothing is there.
FreshInv ==
  /\ ~owed => ~Interpreting /\ retlen = 0
  /\ ~Interpreting /\ ~retisready => retlen = 0
  /\ OwnAnswersOnly

\* A host that fetches the reply to each report before it sends the next one
\* gets no answer to an earlier report, whatever the reports hold and however
\* long their replies are.
THEOREM AnswersAreOwn ==
  ASSUME SizesFit PROVE Spec => []OwnAnswersOnly
<1>1. Init => FreshInv
  BY DEF Init, FreshInv, Interpreting, OwnAnswersOnly
<1>2. TypeOK /\ FreshInv /\ [Next]_vars => FreshInv'
  <2>0. SUFFICES ASSUME TypeOK, FreshInv, [Next]_vars PROVE FreshInv'
    OBVIOUS
  <2>2. CASE SetReport
    <3>1. ~owed => ~(retlen > 0)
      BY <2>0 DEF FreshInv
    <3>2. patient' => ~stale'
      BY <2>2, <3>1 DEF SetReport
    <3>3. owed' /\ Interpreting'
      BY <2>2 DEF SetReport, Interpreting
    <3> QED
      BY <3>2, <3>3 DEF FreshInv, OwnAnswersOnly
  <2>3. CASE GetReport
    BY <2>0, <2>3 DEF GetReport, FreshInv, Interpreting, OwnAnswersOnly
  <2>4. CASE EndOfReport
    BY <2>0, <2>4 DEF EndOfReport, Finish, FreshInv, Interpreting, OwnAnswersOnly, host
  <2>5. CASE Fill
    BY <2>0, <2>5
       DEF Fill, Reading, Finish, FreshInv, Interpreting, OwnAnswersOnly, host
  <2>6. CASE UnknownMode
    BY <2>0, <2>6
       DEF UnknownMode, Reading, Finish, FreshInv, Interpreting, OwnAnswersOnly, host
  <2>7. ASSUME NEW c \in Commands, NEW l \in Lengths, Command(c, l) PROVE FreshInv'
    <3>1. Interpreting /\ owed /\ UNCHANGED host
      BY <2>0, <2>7 DEF Command, Reading, FreshInv
    <3>2. pos \in Nat
      BY <2>0, FeatureReportAssumption DEF TypeOK
    <3>3. Advance(c, l) \in Nat /\ Prefix(c) \in {1, 2}
      BY AdvanceBound, FeatureReportAssumption DEF Prefix
    <3>4. Interpreting'
      BY <2>7, <3>2, <3>3 DEF Command, Interpreting
    <3> QED
      BY <2>0, <3>1, <3>4 DEF FreshInv, OwnAnswersOnly, host
  <2>8. CASE UNCHANGED vars
    BY <2>0, <2>8 DEF vars, host, FreshInv, Interpreting, OwnAnswersOnly
  <2> QED
    BY <2>0, <2>2, <2>3, <2>4, <2>5, <2>6, <2>7, <2>8 DEF Next, Interpret
<1>3. FreshInv => OwnAnswersOnly
  BY DEF FreshInv
<1>4. Spec => []TypeOK
  BY TypeCorrect
<1> QED
  BY <1>1, <1>2, <1>3, <1>4, PTL DEF Spec

-----------------------------------------------------------------------------
\* When a command is all there, its own test for its operands does not skip
\* it.  (A register_read asks for one byte more than it uses: the last one of
\* a report may be skipped, but it has no operands to lose.)
LEMMA CompleteIsEnough ==
  ASSUME TypeOK, NEW c \in Commands, NEW l \in Lengths, Complete(c, l),
         c \notin {"block", "ch5xx_block", "readout", "register_read"}
  PROVE  reqlen - (pos + 1) >= Need(c)
<1>1. /\ PAGE \in Nat /\ SLOT \in Nat
      /\ c \in LinkCommands \cup RegisterCommands \cup UpdiCommands \cup {"mode"}
  BY FeatureReportAssumption
<1>2. pos \in Nat /\ reqlen \in Nat
  BY FeatureReportAssumption DEF TypeOK
<1>3. CASE c \in {"page", "block64"}
  <2>1. /\ Need(c) = (IF c = "page" THEN PAGE + 2 ELSE PAGE + 4)
        /\ Operands(c, l) = (IF c = "page" THEN PAGE + 2 ELSE PAGE + 4)
    BY <1>3 DEF Need, Operands
  <2>2. Prefix(c) \in {1, 2}
    BY DEF Prefix
  <2> QED
    BY <1>1, <1>2, <2>1, <2>2 DEF Complete
<1>4. CASE c \in {"register_write", "setup", "memory"}
  <2>1. Prefix(c) = 1
    BY <1>4 DEF Prefix, LinkCommands
  <2>2. Need(c) = Operands(c, l) /\ Need(c) \in {2, 3, 4}
    BY <1>4 DEF Need, Operands
  <2> QED
    BY <1>2, <2>1, <2>2 DEF Complete
<1>5. CASE c \in {"read", "set_clock", "clock", "terminal", "override", "write",
                  "ch5xx_erase"}
  <2>1. Prefix(c) = 2
    BY <1>5 DEF Prefix, LinkCommands
  <2>2. Need(c) \in {4, 8, 9} /\ Operands(c, l) \in {4, 8, 9}
        /\ Need(c) <= Operands(c, l) + 1
    BY <1>5 DEF Need, Operands
  <2> QED
    BY <1>2, <2>1, <2>2 DEF Complete
<1>6. CASE c \in {"init", "silent", "delay", "status", "determine", "mode",
                  "updi_power", "updi_status", "unknown"}
  <2>1. Need(c) = 0 /\ Operands(c, l) \in {0, 1, 2} /\ Prefix(c) \in {1, 2}
    BY <1>6 DEF Need, Operands, Prefix
  <2> QED
    BY <1>2, <2>1 DEF Complete
<1> QED
  BY <1>1, <1>3, <1>4, <1>5, <1>6 DEF LinkCommands, RegisterCommands, UpdiCommands

\* Only the three commands that count their operands differently, and a setup
\* that finds no room for its answer, can make the interpreter take an operand
\* for a command: for every report of complete commands, every number of
\* replies not yet fetched and every length of the buffers.
THEOREM StaysInStep ==
  ASSUME SizesFit PROVE Spec => []InStep
<1>1. Init => InStep
  BY DEF Init, InStep
<1>2. TypeOK /\ InStep /\ [Next]_vars => InStep'
  <2>0. SUFFICES ASSUME TypeOK, InStep, [Next]_vars PROVE InStep'
    OBVIOUS
  <2>2. CASE SetReport
    BY <2>2 DEF SetReport, InStep
  <2>3. CASE GetReport
    BY <2>0, <2>3 DEF GetReport, InStep
  <2>4. CASE EndOfReport \/ Fill \/ UnknownMode
    BY <2>0, <2>4 DEF EndOfReport, Fill, UnknownMode, Finish, InStep
  <2>5. ASSUME NEW c \in Commands, NEW l \in Lengths, Command(c, l) PROVE InStep'
    <3>1. CASE culprit' = culprit
      BY <2>0, <3>1 DEF InStep
    <3>2. CASE culprit' # culprit
      <4>1. /\ culprit = "none" /\ culprit' = c /\ Complete(c, l)
            /\ pos + Prefix(c) + (IF CarriedOut(c) THEN Advance(c, l) ELSE 0)
                 # pos + Prefix(c) + Operands(c, l)
        BY <2>5, <3>2 DEF Command
      <4>2. ASSUME c \notin {"block", "ch5xx_block", "readout", "setup"} PROVE FALSE
        <5>1. Advance(c, l) = Operands(c, l)
          BY <4>2 DEF Advance
        <5>2. CASE c = "register_read"
          BY <4>1, <5>1, <5>2 DEF Operands
        <5>3. CASE c # "register_read"
          <6>1. CarriedOut(c)
            BY <2>0, <4>1, <4>2, <5>3, CompleteIsEnough DEF CarriedOut
          <6> QED
            BY <4>1, <5>1, <6>1
        <5> QED
          BY <5>2, <5>3
      <4> QED
        BY <4>1, <4>2 DEF InStep
    <3> QED
      BY <3>1, <3>2
  <2>6. CASE UNCHANGED vars
    BY <2>0, <2>6 DEF vars, InStep
  <2> QED
    BY <2>0, <2>2, <2>3, <2>4, <2>5, <2>6 DEF Next, Interpret
<1>3. Spec => []TypeOK
  BY TypeCorrect
<1> QED
  BY <1>1, <1>2, <1>3, PTL DEF Spec

-----------------------------------------------------------------------------
(***************************************************************************)
(* What SetEnds rests on: the turns the loop of a report has left.         *)
(***************************************************************************)
TurnsLeft == IF ~Interpreting THEN 0 ELSE IF pos < reqlen THEN reqlen - pos + 1 ELSE 1

Reported == Interpreting => reqlen > 0

\* While a report is interpreted, nothing but a turn of the loop happens.
LEMMA TurnsAlone ==
  ASSUME Next, Interpreting
  PROVE  Interpret
BY DEF Next, SetReport, GetReport

\* The report keeps its length.
LEMMA ReportedAtFirst == Init => Reported
BY DEF Init, Reported, Interpreting

LEMMA ReportedKept ==
  ASSUME Reported, [Next]_vars
  PROVE  Reported'
<1>1. CASE UNCHANGED vars \/ GetReport
  BY <1>1 DEF vars, GetReport, Reported, Interpreting
<1>2. CASE SetReport
  BY <1>2, FeatureReportAssumption DEF SetReport, Reported
<1>3. CASE Interpret
  <2>1. reqlen' = reqlen /\ Interpreting
    BY <1>3 DEF Interpret, EndOfReport, Fill, UnknownMode, Finish, Command, Reading
  <2> QED
    BY <2>1 DEF Reported
<1> QED
  BY <1>1, <1>2, <1>3 DEF Next

\* What is known of the report and the place in it.
LEMMA PlaceType ==
  ASSUME TypeOK
  PROVE  pos \in Nat /\ reqlen \in Nat
<1>1. SLOT \in Nat /\ ReportLengths \subseteq Nat
  BY FeatureReportAssumption
<1>2. reqlen \in Nat
  BY <1>1 DEF TypeOK
<1> QED
  BY <1>1, <1>2 DEF TypeOK

\* A turn that leaves the place in the report behind.
LEMMA FewerLeft ==
  ASSUME NEW p \in Nat, NEW q \in Nat, NEW r \in Nat, p < q, p < r
  PROVE  (IF q < r THEN r - q + 1 ELSE 1) < r - p + 1
OBVIOUS

\* A command is at least a byte long, carried out or skipped.
LEMMA CommandIsATurn ==
  ASSUME SizesFit, TypeOK, NEW c \in Commands, NEW l \in Lengths, Command(c, l)
  PROVE  TurnsLeft' < TurnsLeft
<1>1. Advance(c, l) \in Nat /\ Prefix(c) \in {1, 2}
  BY AdvanceBound, FeatureReportAssumption DEF Prefix
<1>2. pos \in Nat /\ reqlen \in Nat /\ pos > 0 /\ pos < reqlen /\ reqlen' = reqlen
  BY PlaceType DEF Command, Reading, Interpreting
<1>3. pos' \in Nat /\ pos < pos'
  BY <1>1, <1>2 DEF Command
<1>4. TurnsLeft = reqlen - pos + 1
  BY <1>2 DEF TurnsLeft, Interpreting
<1>5. Interpreting /\ Interpreting'
  BY <1>2, <1>3 DEF Interpreting
<1>6. TurnsLeft' = IF pos' < reqlen THEN reqlen - pos' + 1 ELSE 1
  BY <1>2, <1>5 DEF TurnsLeft
<1> QED
  BY <1>2, <1>3, <1>4, <1>6, FewerLeft

\* Interpreting a report takes no more turns of the loop (programmer.c:208-665)
\* than the report has bytes: nothing else happens in between, and each turn
\* comes nearer the end, whatever lengths the commands that return have and
\* however far the last one steps beyond the report.
THEOREM TurnsAreNumbered ==
  ASSUME SizesFit
  PROVE  Spec => /\ [](TurnsLeft \in 0 .. reqlen)
                 /\ [][Interpreting => TurnsLeft' < TurnsLeft]_vars
<1>1. TypeOK /\ Reported => TurnsLeft \in 0 .. reqlen
  BY PlaceType DEF Reported, TurnsLeft, Interpreting
<1>2. TypeOK /\ [Next]_vars => [Interpreting => TurnsLeft' < TurnsLeft]_vars
  <2>0. SUFFICES ASSUME TypeOK, Next, Interpreting PROVE TurnsLeft' < TurnsLeft
    OBVIOUS
  <2>1. Interpret
    BY <2>0, TurnsAlone
  <2>2. CASE EndOfReport \/ Fill \/ UnknownMode
    <3>1. pos' = 0
      BY <2>2 DEF EndOfReport, Fill, UnknownMode, Finish
    <3>2. TurnsLeft' = 0
      BY <3>1 DEF TurnsLeft, Interpreting
    <3>3. TurnsLeft > 0
      BY <2>0, PlaceType DEF TurnsLeft
    <3> QED
      BY <3>2, <3>3
  <2> QED
    BY <2>0, <2>1, <2>2, CommandIsATurn DEF Interpret
<1>3. Spec => []Reported
  BY ReportedAtFirst, ReportedKept, PTL DEF Spec
<1> QED
  BY <1>1, <1>2, <1>3, TypeCorrect, PTL DEF Spec
=============================================================================
