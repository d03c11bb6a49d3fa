------------------------------ MODULE MCUsbLog ------------------------------
(***************************************************************************)
(* app_main logs below the USB task, or the USB task logs in its handlers  *)
(* (log_one), or both do (log_two).                                        *)
(***************************************************************************)
EXTENDS UsbLog

MCPriority == [t \in {"main", "usb"} |-> IF t = "usb" THEN 5 ELSE 1]
=============================================================================
