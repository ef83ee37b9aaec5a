------------------------------ MODULE DeviceUse ------------------------------
(***************************************************************************)
(* Several frontends and one scanner: who has the lock file, who has the   *)
(* device open, and when the lamp burns.  Every process has one handle.    *)
(*                                                                         *)
(*    sane_init    attach: lock, open, unlock, use, close, unlock again    *)
(*    sane_start   lock, open, describe the device, light the lamp         *)
(*    the end of a scan   stop, start the lamp timer, close, unlock        *)
(*    a button is read    lock, open, read, close, unlock                  *)
(*    sane_exit    open, use, close, without the lock                      *)
(*    SIGALRM      open if need be, lamp off, close, without the lock      *)
(*                                                                         *)
(* The device can be claimed by one process at a time; who asks meanwhile  *)
(* is refused by the kernel.  What the lock adds is that nobody has to be. *)
(***************************************************************************)
EXTENDS AccessLock

CONSTANTS
    Uses,        \* of {"attach", "button", "shutdown"}
    AlarmAt,     \* points at which the lamp timer may go off
    Faults       \* of {"probe", "late", "pipe"}: what may fail

ASSUME UseAssumption ==
    /\ Uses \subseteq {"attach", "button", "shutdown"}
    /\ Faults \subseteq {"probe", "late", "pipe"}

VARIABLES
    at,          \* where a process is in the backend
    claim,       \* who has the interface of the device
    fd,          \* dev->fd is a descriptor
    desc,        \* dev->usbDev describes the device
    timer,       \* the alarm of the lamp timer is set
    masked,      \* SIGALRM is blocked
    irq,         \* where the handler of SIGALRM is
    litBy,       \* who lit the lamp last, if it burns
    missed,      \* he has lost the chance to switch it off again
    unforked     \* history: no reader could be forked, nobody unlocked since

lampVars == <<timer, masked, irq, litBy>>
history == <<missed, unforked>>
vars == <<lockVars, at, claim, fd, desc, lampVars, history>>

AttachPoints == {"new", "a_lock", "a_open", "a_probe", "a_unlock", "a_use", "a_end"}

RestPoints == {"new", "idle", "unattached", "exited", "scan"}

Points == RestPoints \cup AttachPoints \cup
    {"s_lock", "s_open", "s_probe", "s_setup", "s_lit", "s_pipe",
     "close_then_unlock", "then_unlock", "unlock_then_close", "then_close",
     "e_stop", "e_close", "e_unlock",
     "b_lock", "b_open", "b_read", "b_unlock",
     "x_open", "x_use", "x_timer"}

TypeOK ==
    /\ LockTypeOK
    /\ at \in [Proc -> Points]
    /\ claim \in Proc \cup {"nobody"}
    /\ {fd, desc, timer, masked} \subseteq [Proc -> BOOLEAN]
    /\ irq \in [Proc -> {"none", "open", "opened", "held"}]
    /\ litBy \in Proc \cup {"nobody"}
    /\ missed \in BOOLEAN
    /\ unforked \subseteq Proc

Init ==
    /\ LockInit
    /\ at = [p \in Proc |-> IF "attach" \in Uses THEN "new" ELSE "idle"]
    /\ claim = "nobody"
    /\ desc = [p \in Proc |-> "attach" \notin Uses]
    /\ fd = [p \in Proc |-> FALSE]
    /\ timer = [p \in Proc |-> FALSE]
    /\ masked = [p \in Proc |-> FALSE]
    /\ irq = [p \in Proc |-> "none"]
    /\ litBy = "nobody"
    /\ missed = FALSE
    /\ unforked = {}

-----------------------------------------------------------------------------

\* p goes from one point to another; nothing runs while a signal handler does.
Move(p, from, to) ==
    /\ alive[p]
    /\ irq[p] = "none"
    /\ at[p] = from
    /\ at' = [at EXCEPT ![p] = to]

Misses(p) == missed' = (missed \/ litBy = p)

LampOff == litBy' = "nobody" /\ missed' = FALSE

GivesBack(p) == Unlock(p) /\ unforked' = unforked \ {p}

\* The frontends are all past sane_init before the first of them scans.
Settled == \A q \in Proc : at[q] \notin AttachPoints

\* usbDev_open begins by clearing dev->usbDev, before it asks for the lock.
OpenCall(p, from, to) ==
    /\ Move(p, from, to)
    /\ LockCall(p)
    /\ desc' = [desc EXCEPT ![p] = FALSE]
    /\ UNCHANGED <<claim, fd, lampVars, history>>

SaneInit(p)  == OpenCall(p, "new", "a_lock")
SaneStart(p) == Settled /\ OpenCall(p, "idle", "s_lock")

UpdateButton(p) ==
    /\ "button" \in Uses
    /\ Settled
    /\ Move(p, "idle", "b_lock")
    /\ LockCall(p)
    /\ UNCHANGED <<claim, fd, desc, lampVars, history>>

LockObtained(p) ==
    /\ lpc[p] = "good"
    /\ \/ Move(p, "s_lock", "s_open")
       \/ Move(p, "a_lock", "a_open")
       \/ Move(p, "b_lock", "b_open")
    /\ LockReturn(p)
    /\ UNCHANGED <<claim, fd, desc, lampVars, history>>

\* A sane_start that fails has cleared the description the timer needs.
LockRefused(p) ==
    /\ lpc[p] = "denied"
    /\ \/ Move(p, "s_lock", "idle") /\ Misses(p) /\ UNCHANGED unforked
       \/ Move(p, "a_lock", "unattached") /\ UNCHANGED history
       \/ Move(p, "b_lock", "idle") /\ UNCHANGED history
    /\ LockReturn(p)
    /\ UNCHANGED <<claim, fd, desc, lampVars>>

\* sanei_usb_open, into dev->fd except in usbDev_open.
UsbOpen(p) ==
    /\ claim = "nobody"
    /\ claim' = p
    /\ \/ Move(p, "s_open", "s_probe") /\ UNCHANGED fd
       \/ Move(p, "a_open", "a_probe") /\ UNCHANGED fd
       \/ Move(p, "b_open", "b_read") /\ fd' = [fd EXCEPT ![p] = TRUE]
       \/ Move(p, "x_open", "x_use") /\ fd' = [fd EXCEPT ![p] = TRUE]
    /\ UNCHANGED <<lockVars, desc, lampVars, history>>

\* Mutant: a start whose open fails does not unlock.
UsbOpenFailsKeepsLock(p) ==
    /\ claim # "nobody"
    /\ Move(p, "s_open", "idle")
    /\ holds' = holds
    /\ Misses(p)
    /\ UNCHANGED <<file, lpc, tries, alive, claim, fd, desc, lampVars, unforked>>

\* The interface is busy.  attach unlocks another name than it has locked, as
\* dev->sane.name is set after the open.
UsbOpenFails(p) ==
    /\ claim # "nobody"
    /\ \/ Move(p, "s_open", "idle") /\ GivesBack(p) /\ Misses(p)
       \/ /\ Move(p, "a_open", "unattached")
          /\ holds' = [holds EXCEPT ![p] = FALSE]
          /\ UNCHANGED <<file, lpc, tries, alive, history>>
       \/ Move(p, "b_open", "idle") /\ GivesBack(p) /\ UNCHANGED missed
       \/ Move(p, "x_open", "x_timer") /\ Misses(p) /\ UNCHANGED <<lockVars, unforked>>
    /\ UNCHANGED <<claim, fd, desc, lampVars>>

\* Mutant: usbDev_open unlocks whether or not it was told to keep the lock.
ProbeAlwaysUnlocks(p) ==
    /\ Move(p, "s_probe", "s_setup") \/ Move(p, "a_probe", "a_unlock")
    /\ fd' = [fd EXCEPT ![p] = TRUE]
    /\ desc' = [desc EXCEPT ![p] = TRUE]
    /\ Unlock(p)
    /\ UNCHANGED <<claim, lampVars, history>>

\* The device is the one expected: usb_initDev fills in dev->usbDev.
Probe(p) ==
    /\ Move(p, "s_probe", "s_setup") \/ Move(p, "a_probe", "a_unlock")
    /\ fd' = [fd EXCEPT ![p] = TRUE]
    /\ desc' = [desc EXCEPT ![p] = TRUE]
    /\ UNCHANGED <<lockVars, claim, lampVars, history>>

\* Vendor, chip, table of devices, or what is asked of it says no.
StartFails(p) ==
    /\ "probe" \in Faults
    /\ \E from \in {"s_probe", "s_setup"}, to \in {"close_then_unlock", "unlock_then_close"} :
          Move(p, from, to)
    /\ Misses(p)
    /\ UNCHANGED <<lockVars, claim, fd, desc, lampVars, unforked>>

\* usbDev_startScan up to usb_LampOn.
LampOn(p) ==
    /\ Move(p, "s_setup", "s_lit")
    /\ litBy' = p
    /\ missed' = FALSE
    /\ UNCHANGED <<lockVars, claim, fd, desc, timer, masked, irq, unforked>>

\* Mutant: nothing is blocked, nothing is cleared.
StopLampTimerNot(p) == p \in Proc /\ UNCHANGED <<timer, masked>>

StopLampTimer(p) ==
    /\ timer' = [timer EXCEPT ![p] = FALSE]
    /\ masked' = [masked EXCEPT ![p] = TRUE]

StartLampTimer(p) ==
    /\ timer' = [timer EXCEPT ![p] = TRUE]
    /\ masked' = [masked EXCEPT ![p] = FALSE]

StartScan(p) ==
    /\ Move(p, "s_lit", "s_pipe")
    /\ StopLampTimer(p)
    /\ UNCHANGED <<lockVars, claim, fd, desc, irq, litBy, history>>

\* Nothing to scan, or no memory.
StartFailsLate(p) ==
    /\ "late" \in Faults
    /\ Move(p, "s_pipe", "close_then_unlock")
    /\ Misses(p)
    /\ UNCHANGED <<lockVars, claim, fd, desc, lampVars, unforked>>

\* pipe or fork fails: the device is closed, and that is all.
NoReader(p) ==
    /\ "pipe" \in Faults
    /\ Move(p, "s_pipe", "idle")
    /\ claim' = "nobody"
    /\ fd' = [fd EXCEPT ![p] = FALSE]
    /\ Misses(p)
    /\ unforked' = unforked \cup {p}
    /\ UNCHANGED <<lockVars, desc, lampVars>>

ReaderStarted(p) ==
    /\ Move(p, "s_pipe", "scan")
    /\ UNCHANGED <<lockVars, claim, fd, desc, lampVars, history>>

EndOfScan(p) ==
    /\ Move(p, "scan", "e_stop")
    /\ UNCHANGED <<lockVars, claim, fd, desc, lampVars, history>>

\* do_cancel starts the timer before drvclose, and drvclose again.
Cancel(p) ==
    /\ Move(p, "scan", "e_stop")
    /\ StartLampTimer(p)
    /\ UNCHANGED <<lockVars, claim, fd, desc, irq, litBy, history>>

\* Mutant: the timer is left to whoever needs it.
StopScanWithoutTimer(p) ==
    /\ Move(p, "e_stop", "e_close")
    /\ UNCHANGED <<lockVars, claim, fd, desc, lampVars, history>>

StopScan(p) ==
    /\ Move(p, "e_stop", "e_close")
    /\ StartLampTimer(p)
    /\ UNCHANGED <<lockVars, claim, fd, desc, irq, litBy, history>>

\* usbDev_close, and sanei_usb_close of a handle of one's own.
UsbClose(p) ==
    /\ \/ Move(p, "e_close", "e_unlock")
       \/ Move(p, "a_use", "a_end")
       \/ Move(p, "b_read", "b_unlock")
       \/ Move(p, "close_then_unlock", "then_unlock")
       \/ Move(p, "then_close", "idle")
    /\ claim' = "nobody"
    /\ fd' = [fd EXCEPT ![p] = FALSE]
    /\ UNCHANGED <<lockVars, desc, lampVars, history>>

\* attach unlocks in usbDev_open and again in drvclose.
UnlockCall(p) ==
    /\ \/ Move(p, "e_unlock", "idle")
       \/ Move(p, "a_unlock", "a_use")
       \/ Move(p, "a_end", "idle")
       \/ Move(p, "b_unlock", "idle")
       \/ Move(p, "then_unlock", "idle")
       \/ Move(p, "unlock_then_close", "then_close")
    /\ GivesBack(p)
    /\ UNCHANGED <<claim, fd, desc, lampVars, missed>>

-----------------------------------------------------------------------------

\* usbDev_shutdown does nothing for a device without a description.
SaneExit(p) ==
    /\ "shutdown" \in Uses
    /\ Settled
    /\ desc[p]
    /\ Move(p, "idle", "x_open")
    /\ UNCHANGED <<lockVars, claim, fd, desc, lampVars, history>>

ShutdownUse(p) ==
    /\ Move(p, "x_use", "x_timer")
    /\ LampOff
    /\ claim' = "nobody"
    /\ fd' = [fd EXCEPT ![p] = FALSE]
    /\ UNCHANGED <<lockVars, desc, timer, masked, irq, unforked>>

\* The process ends here with sane_exit.
ShutdownDone(p) ==
    /\ Move(p, "x_timer", "exited")
    /\ StopLampTimer(p)
    /\ Ends(p)
    /\ UNCHANGED <<claim, fd, desc, irq, litBy, history>>

\* usbDev_shutdown returns before it comes to usb_StopLampTimer.  An alarm that is
\* set stays so, for a device that sane_exit frees, and is not followed any
\* further: the process ends here as well.
SaneExitIgnored(p) ==
    /\ "shutdown" \in Uses
    /\ ~desc[p]
    /\ \E from \in {"idle", "unattached"} : Move(p, from, "exited")
    /\ Ends(p)
    /\ Misses(p)
    /\ UNCHANGED <<claim, fd, desc, lampVars, unforked>>

\* SIGKILL at any time.
Killed(p) ==
    /\ Die(p)
    /\ at' = [at EXCEPT ![p] = "exited"]
    /\ claim' = IF claim = p THEN "nobody" ELSE claim
    /\ irq' = [irq EXCEPT ![p] = "none"]
    /\ StopLampTimer(p)
    /\ fd' = [fd EXCEPT ![p] = FALSE]
    /\ Misses(p)
    /\ UNCHANGED <<desc, litBy, unforked>>

\* usb_LampTimerIrq, usb_LampSwitch.
Alarm(p) ==
    /\ alive[p]
    /\ timer[p] /\ ~masked[p]
    /\ irq[p] = "none"
    /\ at[p] \in AlarmAt
    /\ timer' = [timer EXCEPT ![p] = FALSE]
    /\ irq' = [irq EXCEPT ![p] = IF fd[p] THEN "held" ELSE "open"]
    /\ UNCHANGED <<lockVars, at, claim, fd, desc, masked, litBy, history>>

IrqOpen(p) ==
    /\ irq[p] = "open"
    /\ IF claim = "nobody"
       THEN /\ claim' = p
            /\ irq' = [irq EXCEPT ![p] = "opened"]
            /\ UNCHANGED missed
       ELSE /\ irq' = [irq EXCEPT ![p] = "none"]
            /\ Misses(p)
            /\ UNCHANGED claim
    /\ UNCHANGED <<lockVars, at, fd, desc, timer, masked, litBy, unforked>>

\* Without a description nobody knows which register the lamp is at.
IrqSwitch(p) ==
    /\ irq[p] \in {"opened", "held"}
    /\ \/ LampOff
       \/ ~desc[p] /\ Misses(p) /\ UNCHANGED litBy
    /\ claim' = IF irq[p] = "opened" THEN "nobody" ELSE claim
    /\ irq' = [irq EXCEPT ![p] = "none"]
    /\ UNCHANGED <<lockVars, at, fd, desc, timer, masked, unforked>>

-----------------------------------------------------------------------------

\* What a process does without being asked.
Goes(p) ==
    \/ irq[p] = "none" /\ LockStep(p) /\ UNCHANGED <<at, claim, fd, desc, lampVars, history>>
    \/ LockObtained(p) \/ LockRefused(p) \/ UsbOpen(p) \/ UsbOpenFails(p)
    \/ Probe(p) \/ StartFails(p) \/ LampOn(p) \/ StartScan(p)
    \/ StartFailsLate(p) \/ NoReader(p) \/ ReaderStarted(p)
    \/ StopScan(p) \/ UsbClose(p) \/ UnlockCall(p)
    \/ ShutdownUse(p) \/ ShutdownDone(p)
    \/ IrqOpen(p) \/ IrqSwitch(p)

Asked(p) ==
    \/ SaneInit(p) \/ SaneStart(p) \/ UpdateButton(p)
    \/ EndOfScan(p) \/ Cancel(p)
    \/ SaneExit(p) \/ SaneExitIgnored(p)

Next == \E p \in Proc : Goes(p) \/ Asked(p) \/ Alarm(p) \/ Killed(p)

Spec == Init /\ [][Next]_vars

\* A process inside a call goes on, and an alarm that is set comes.
FairSpec == Spec /\ \A p \in Proc : WF_vars(Goes(p)) /\ WF_vars(Alarm(p))

-----------------------------------------------------------------------------

\* What the lock is for: from the start of a scan to its end the file is there
\* and is the scanning process's, whatever another does with the device.
LockIsKept ==
    \A p \in Proc : at[p] \in {"scan", "e_stop", "e_close", "e_unlock"} =>
        file = [by |-> p, written |-> TRUE]

\* Whichever way a call ends, the device is closed and no lock file of the
\* process's left - but for a start whose reader could not be forked, until it
\* unlocks again, an attach that failed, and a process that ended with the lock.
NothingHeldIdle ==
    \A p \in Proc : at[p] \in {"idle", "unattached", "exited"} =>
        /\ claim = p => irq[p] = "opened"
        /\ holds[p] \/ (at[p] = "idle" /\ file.by = p) => p \in unforked

\* No timer, one's own or another frontend's, puts the lamp out during a scan.
ScanIsLit == \A p \in Proc : at[p] = "scan" => litBy = p

\* A lamp whose process is done with the device goes off, unless the timer came
\* while the device was busy or the process lost its timer or its description.
NeverLeftLit ==
    \A p \in Proc : at[p] = "idle" /\ litBy = p ~> at[p] # "idle" \/ litBy # p \/ missed

\* No call waits for ever, for the lock or for the device.
CallsReturn == \A p \in Proc : at[p] \notin RestPoints ~> at[p] \in RestPoints

=============================================================================
