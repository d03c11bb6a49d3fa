-------------------------- MODULE MCFeatureReport --------------------------
(***************************************************************************)
(* All commands, or all but the one whose reply is longer than the room it *)
(* is given; buffer, page and slot are scaled down.                        *)
(***************************************************************************)
EXTENDS FeatureReport

AllCommands == LinkCommands \cup RegisterCommands \cup UpdiCommands \cup {"mode"}
AllButDetermine == AllCommands \ {"determine"}
=============================================================================
