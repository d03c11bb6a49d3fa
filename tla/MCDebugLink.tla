---------------------------- MODULE MCDebugLink ----------------------------
(***************************************************************************)
(* Instances of DebugLink for TLC, and three bounds on how far             *)
(* link_session looks.                                                     *)
(***************************************************************************)
EXTENDS DebugLink

\* What a stray program did to the target is not known: nothing after it is
\* looked at.
NothingStrayed == ~dev.t.stray

\* Every call is tried after a raw register access, but not what follows it: a
\* byte operation voids the tag as a raw access to PROGBUF does, and a power
\* cycle disturbs more than any other register.
NotPastRawAccess ==
  /\ ~dev'.setup => dev'.sync \/ ~RawRegister
  /\ dev'.setup => dev'.statetag # "XXXX" \/ dev.t.pb = dev'.t.pb \/ ~RawProgbuf

\* Nor is what follows the loss of the interface, when nothing is sent.
NotPastLostLink == dev.opmode => dev'.opmode
============================================================================
