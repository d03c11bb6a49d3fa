----------------------------- MODULE MCUpdiNvm -----------------------------
(***************************************************************************)
(* Instances of UpdiNvm for TLC.                                           *)
(***************************************************************************)
EXTENDS UpdiNvm

\* The first page is rewritten with something else; one of the bytes is the command
\* that starts the writing of a page.
MCImages ==
  [p \in PageNumbers |-> {[o \in Offsets |-> o + 2]} \cup (IF p = 0 THEN {[o \in Offsets |-> 3]} ELSE {})]
=============================================================================
