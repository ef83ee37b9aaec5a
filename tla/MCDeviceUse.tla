---------------------------- MODULE MCDeviceUse ----------------------------
(***************************************************************************)
(* Two frontends on one scanner.                                           *)
(***************************************************************************)
EXTENDS DeviceUse

CONSTANTS p1, p2

TwoProcesses == {p1, p2}
OneMortal == {p1}

\* Between calls, before and after dev->fd is set, and while a scan is wound up;
\* not between usb_LampOn and usb_StopLampTimer.
SomeAlarms ==
    {"idle", "s_lock", "s_probe", "s_setup", "b_read", "x_use", "scan", "e_stop"}

=============================================================================
