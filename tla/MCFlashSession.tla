--------------------------- MODULE MCFlashSession ---------------------------
(***************************************************************************)
(* Instances of FlashSession for TLC.                                      *)
(***************************************************************************)
EXTENDS FlashSession

\* The first block is rewritten with something else; its neighbours in the
\* sector and in the next one differ.
MCWanted == [b \in Blocks |-> CASE b = 0 -> {1, 2} [] b = 1 -> {2} [] OTHER -> {1}]
=============================================================================
