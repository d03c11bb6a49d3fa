---------------------------- MODULE FeatureReport ----------------------------
(***************************************************************************)
(* The command interpreter of programmer.c: a SET of report 0xad or 0xae   *)
(* holds commands one after another, which append their answers to         *)
(* retbuff; a GET collects what has been appended.  Both run in the USB    *)
(* task.  What a command does to the target is the business of DebugLink;  *)
(* here it matters how many bytes it takes from the report and how many it *)
(* puts in the reply.                                                      *)
(*                                                                         *)
(* The host lays out complete commands and fills the report up with 0xff.  *)
(* Once the interpreter takes a byte for a command that the host did not   *)
(* mean as one, any command may follow.                                    *)
(***************************************************************************)
EXTENDS Naturals

CONSTANTS
  Commands,       \* the commands in use
  Lengths,        \* the lengths they ask for
  ReportLengths,  \* reqlen of a SET, with the report's ID
  CAP,            \* sizeof(retbuff), 264
  PAGE,           \* the data of a page or block command, 64
  SLOT            \* the operands of a ch5xx_block command, 260

Modes == {0, 1, 2}            \* SWIO, UPDI, and any other the host may name

LinkCommands ==
  {"init", "silent", "delay", "status", "write", "read", "block64", "clock",
   "terminal", "override", "determine", "block", "ch5xx_block", "readout",
   "ch5xx_erase", "set_clock"}
RegisterCommands == {"register_write", "register_read"}
UpdiCommands == {"setup", "updi_power", "page", "memory", "updi_status", "unknown"}

ASSUME FeatureReportAssumption ==
  /\ Commands \subseteq LinkCommands \cup RegisterCommands \cup UpdiCommands
                        \cup {"mode"}
  /\ Lengths \subseteq Nat
  /\ ReportLengths \subseteq Nat \ {0}
  /\ CAP \in Nat /\ CAP > 17 /\ PAGE \in Nat /\ SLOT \in Nat

VARIABLES
  programmer_mode,
  retlen,       \* retbuffptr - retbuff
  retisready,
  reqlen,       \* of the SET being interpreted
  pos,          \* iptr - buffer; 0 when no SET is being interpreted
  culprit,      \* ghost: the command after which a byte that is none of the
                \*   host's commands was taken for one, or "none"
  stale,        \* ghost: retbuff held answers when the latest SET came
  owed,         \* ghost: the host has not fetched the reply to its latest SET
  patient       \* ghost: it fetched every reply before the next SET

host == <<stale, owed, patient>>
vars == <<programmer_mode, retlen, retisready, reqlen, pos, culprit, host>>

Init ==
  /\ programmer_mode = 0 /\ retlen = 0 /\ retisready = FALSE
  /\ reqlen = 0 /\ pos = 0 /\ culprit = "none"
  /\ stale = FALSE /\ owed = FALSE /\ patient = TRUE

-----------------------------------------------------------------------------
(***************************************************************************)
(* The layout of the commands for length l: the bytes that name it, how    *)
(* many must remain after the first of them, the operand bytes it uses and *)
(* those it steps over.                                                    *)
(***************************************************************************)
Prefix(c) == IF c \in LinkCommands \cup {"mode"} THEN 2 ELSE 1

Need(c) ==
  CASE c = "register_read" -> 1 [] c = "setup" -> 2 [] c = "memory" -> 3
    [] c \in {"register_write", "read", "set_clock"} -> 4
    [] c = "readout" -> 6
    [] c \in {"clock", "terminal", "override"} -> 8
    [] c \in {"write", "ch5xx_erase"} -> 9
    [] c = "page" -> PAGE + 2 [] c = "block64" -> PAGE + 4 [] c = "block" -> PAGE + 6
    [] c = "ch5xx_block" -> SLOT
    [] OTHER -> 0

\* A ch5xx_block has a slot of at least SLOT bytes; its length 0 means 256, and
\* the address and the length before the data take 5.
Operands(c, l) ==
  CASE c = "mode" -> 1 [] c \in {"delay", "setup"} -> 2 [] c = "memory" -> 3
    [] c \in {"register_write", "read", "set_clock"} -> 4
    [] c = "readout" -> 6
    [] c \in {"clock", "terminal", "override", "write"} -> 8
    [] c = "ch5xx_erase" -> 9
    [] c = "page" -> PAGE + 2 [] c = "block64" -> PAGE + 4 [] c = "block" -> 6 + l
    [] c = "ch5xx_block" -> IF l = 0 THEN SLOT + 1 ELSE SLOT
    [] OTHER -> 0

\* Slip: a set_clock does not step over its operand.
AdvanceShort(c, l) ==
  CASE c = "block" -> l + 2 [] c = "ch5xx_block" -> SLOT [] c = "readout" -> 8
    [] c = "set_clock" -> 0 [] OTHER -> Operands(c, l)

Advance(c, l) ==
  CASE c = "block" -> l + 2 [] c = "ch5xx_block" -> SLOT [] c = "readout" -> 8
    [] OTHER -> Operands(c, l)

\* sizeof(retbuff) - n is unsigned: beyond CAP it is huge.
HasRoom(n, bytes) == n > CAP \/ CAP - n >= bytes

\* Slip: a readout leaves no room for its status.
ReplyWithoutStatus(n, c, l) ==
  IF c = "readout" /\ HasRoom(n, l) THEN {n + l + 1} ELSE {n}

\* How long the reply may be after command c, from n on.  A terminal polls as
\* long as more than 16 bytes are left, for at most 7 characters at a time; a
\* readout, of either kind, whose answer does not fit goes unanswered.
Reply(n, c, l) ==
  CASE c \in {"init", "status", "write", "block64", "override", "block", "page",
              "ch5xx_block", "ch5xx_erase", "set_clock", "updi_status"} -> {n + 1}
    [] c = "unknown" -> {n + 2}
    [] c \in {"read", "register_read", "mode"} -> {n + 5}
    [] c = "determine" -> {n + 7}
    [] c = "terminal" -> IF n + 17 < CAP THEN n + 1 .. CAP - 10 ELSE {n + 1}
    [] c \in {"readout", "memory"} /\ HasRoom(n, l + 1) -> {n + l + 1}
    [] c = "setup" -> {n + 18}
    [] OTHER -> {n}

-----------------------------------------------------------------------------
Interpreting == pos > 0

SetReport ==
  /\ ~Interpreting
  /\ reqlen' \in ReportLengths
  /\ pos' = 1 /\ culprit' = "none"
  /\ stale' = (retlen > 0)
  /\ owed' = TRUE
  /\ patient' = (patient /\ ~owed)
  /\ UNCHANGED <<programmer_mode, retlen, retisready>>

\* The loop ends: at the end of the report, for want of room for a reply, at the
\* byte 0xff, or after any byte in a mode that does not exist.
Finish ==
  /\ pos' = 0 /\ retisready' = TRUE
  /\ UNCHANGED <<programmer_mode, reqlen, culprit, host>>

\* Slip: the end is compared for equality.
EndOfReportExactly ==
  /\ Interpreting
  /\ pos = reqlen \/ ~HasRoom(retlen, 6)
  /\ Finish /\ UNCHANGED retlen

EndOfReport ==
  /\ Interpreting
  /\ pos >= reqlen \/ ~HasRoom(retlen, 6)
  /\ Finish /\ UNCHANGED retlen

\* Slip: the end of the report is not looked for.
ReadingOn == Interpreting /\ HasRoom(retlen, 6)

Reading == Interpreting /\ pos < reqlen /\ HasRoom(retlen, 6)

Fill == Reading /\ programmer_mode < 2 /\ Finish /\ UNCHANGED retlen

UnknownMode == Reading /\ programmer_mode = 2 /\ Finish /\ retlen' = retlen + 2

\* In mode 1 the byte 0xfe with anything but 0xfd after it is a silent command.
Offered == Commands \cap
  IF programmer_mode = 0 THEN LinkCommands \cup RegisterCommands \cup {"mode"}
  ELSE UpdiCommands \cup {"mode", "silent"}

\* A command the host sends is all there; what a stray byte starts may not be.
Complete(c, l) == pos + Prefix(c) + Operands(c, l) <= reqlen

\* A command whose operands are missing is skipped without them; so is a setup
\* whose answer does not fit.
CarriedOut(c) ==
  /\ reqlen - (pos + 1) >= Need(c)
  /\ c = "setup" => HasRoom(retlen, 18)

\* A WriteBlock of 1 to 3 bytes never gets to its end in the flash, and one of
\* none divides by zero: the handler does not return, and these are left out.
Returns(c, l) == c = "block" => l >= 4

Command(c, l) ==
  LET next == pos + Prefix(c) + IF CarriedOut(c) THEN Advance(c, l) ELSE 0
  IN  /\ Reading /\ programmer_mode < 2 /\ c \in Offered
      /\ culprit = "none" => Complete(c, l)
      /\ CarriedOut(c) => Returns(c, l)
      /\ pos' = next
      /\ retlen' \in IF CarriedOut(c) THEN Reply(retlen, c, l) ELSE {retlen}
      /\ IF c = "mode" THEN programmer_mode' \in Modes
         ELSE UNCHANGED programmer_mode
      /\ culprit' = IF culprit = "none" /\ next # pos + Prefix(c) + Operands(c, l)
                       /\ next < reqlen
                    THEN c ELSE culprit
      /\ UNCHANGED <<retisready, reqlen, host>>

\* Slip: the reply is not taken back to its start.
GetReportKeeping ==
  /\ ~Interpreting
  /\ retisready' = FALSE
  /\ owed' = FALSE
  /\ UNCHANGED <<programmer_mode, retlen, reqlen, pos, culprit, stale, patient>>

\* A GET answers 0xff until a SET has been interpreted; otherwise it copies as
\* much of the reply as was asked for, and the rest is gone.
GetReport ==
  /\ ~Interpreting
  /\ IF retisready THEN retlen' = 0 /\ retisready' = FALSE
     ELSE UNCHANGED <<retlen, retisready>>
  /\ owed' = FALSE
  /\ UNCHANGED <<programmer_mode, reqlen, pos, culprit, stale, patient>>

Interpret ==
  \/ EndOfReport \/ Fill \/ UnknownMode
  \/ \E c \in Commands, l \in Lengths : Command(c, l)

Next == SetReport \/ GetReport \/ Interpret

\* The handler runs on in the USB task once it has begun.
Spec == Init /\ [][Next]_vars /\ WF_vars(Interpret)

-----------------------------------------------------------------------------
\* The interpreter's variables have their ranges (programmer.c:70-74); the
\* pointer into the report may pass its end, by the longest command at most.
TypeOK ==
  /\ programmer_mode \in Modes
  /\ retlen \in Nat /\ retisready \in BOOLEAN
  /\ reqlen \in ReportLengths \cup {0} /\ pos \in 0 .. reqlen + SLOT + 2
  /\ culprit \in Commands \cup {"none"}
  /\ stale \in BOOLEAN /\ owed \in BOOLEAN /\ patient \in BOOLEAN

\* "Make sure there is plenty of space." (programmer.c:212): the reply never
\* outgrows retbuff, however many reports are sent before one is fetched.
ReplyFits == retlen <= CAP

\* When the host sends complete commands, the interpreter takes an operand for a
\* command only after the three that do not step over exactly the operands they
\* use (programmer.c:403-426, 440-476) and after a setup without room for its
\* answer (561), however commands, lengths and unfetched replies combine.
InStep == culprit \in {"none", "block", "ch5xx_block", "readout", "setup"}

\* A host that fetches each reply before it sends the next report never gets
\* answers to an earlier one (programmer.c:191-202).
OwnAnswersOnly == patient => ~stale

\* Interpreting a report comes to an end wherever its commands leave the
\* interpreter, also beyond the end of the report and with operands taken for
\* commands, if each command returns: a block of less than a word (programmer.c:403,
\* bitbang_rvswdio.h:1285, 1304) does not.
SetEnds == Interpreting ~> ~Interpreting
=============================================================================
