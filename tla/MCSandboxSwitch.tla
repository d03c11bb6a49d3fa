-------------------------- MODULE MCSandboxSwitch --------------------------
(***************************************************************************)
(* Two or three builds, of which one need not have an fnIdle or an fnDecom.*)
(***************************************************************************)
EXTENDS SandboxSwitch
=============================================================================
