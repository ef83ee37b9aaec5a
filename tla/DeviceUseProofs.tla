--------------------------- MODULE DeviceUseProofs ---------------------------
(***************************************************************************)
(* Safety of DeviceUse for any number of frontends and any number of       *)
(* attempts at the lock.                                                   *)
(*                                                                         *)
(* Inv needs no assumption: where a process is when it believes to have    *)
(* the lock, and who has the device.  What a call leaves behind follows    *)
(* from it, killed processes, failed forks and attaches included.          *)
(*                                                                         *)
(* Lamps needs Unhurried: the lamp timer does not go off between           *)
(* usb_LampOn and usb_StopLampTimer.                                       *)
(*                                                                         *)
(* FileFits needs Undisturbed, which leaves out what breaks the lock:      *)
(* a process that is killed, a device that is attached while the others    *)
(* use theirs, a file without a pid that is taken for a dead or for one's  *)
(* own, and a process that exits with the lock its failed start kept.      *)
(***************************************************************************)
EXTENDS DeviceUse, TLAPS

Unhurried == "s_lit" \notin AlarmAt

Undisturbed ==
    /\ Mortal = {}
    /\ EmptyPid = {"other"}
    /\ "attach" \notin Uses
    /\ "pipe" \notin Faults \/ "shutdown" \notin Uses

\* From the lock's being granted to its being given back.
LockPointsOf ==
    {"s_open", "s_probe", "s_setup", "s_lit", "s_pipe", "scan",
     "e_stop", "e_close", "e_unlock", "close_then_unlock", "then_unlock",
     "unlock_then_close", "b_open", "b_read", "b_unlock",
     "a_open", "a_probe", "a_unlock"}

\* From sanei_usb_open to sanei_usb_close.
OpenPoints ==
    {"s_probe", "s_setup", "s_lit", "s_pipe", "scan", "e_stop", "e_close",
     "close_then_unlock", "unlock_then_close", "then_close", "b_read", "x_use",
     "a_probe", "a_unlock", "a_use"}

ShutdownPoints == {"x_open", "x_use", "x_timer"}

\* Where a process is in sanei_access_lock, since when it holds the lock, and
\* whose file it may be.
Locking ==
    \A p \in Proc :
        /\ lpc[p] # "out" <=> at[p] \in {"s_lock", "a_lock", "b_lock"}
        /\ lpc[p] \in {"open", "write", "check", "unlink"} => tries[p] >= 1
        /\ at[p] \in LockPointsOf \/ lpc[p] = "good" => holds[p]
        /\ holds[p] => at[p] \in LockPointsOf \/ lpc[p] = "good" \/ p \in unforked
        /\ file.by = p =>
              holds[p] \/ lpc[p] = "write" \/ at[p] \in {"unattached", "exited"}
        /\ alive[p] \/ (at[p] = "exited" /\ ~holds[p])

\* The interface is claimed by who is at a point that needs it, or by a signal
\* handler that found nothing open.
Claims ==
    \A p \in Proc :
        /\ claim = p => at[p] \in OpenPoints \/ irq[p] = "opened"
        /\ at[p] \in OpenPoints \/ irq[p] = "opened" => claim = p
        /\ fd[p] => at[p] \in OpenPoints
        /\ irq[p] = "held" => fd[p]
        /\ irq[p] = "opened" => at[p] \notin OpenPoints

Inv == TypeOK /\ Locking /\ Claims

\* Who scans has lit the lamp, and his own timer is stopped.
Lamps ==
    \A p \in Proc :
        /\ at[p] \in {"s_lit", "s_pipe", "scan"} => litBy = p /\ irq[p] = "none"
        /\ at[p] \in {"s_pipe", "scan"} => ~timer[p]

\* What does not happen where nothing disturbs the lock.
Orderly ==
    /\ \A p \in Proc :
          /\ at[p] \notin AttachPoints \cup {"unattached"}
          /\ lpc[p] # "unlink"
          /\ at[p] \in ShutdownPoints => "shutdown" \in Uses
    /\ unforked # {} => "pipe" \in Faults

\* The file belongs to who holds the lock or is about to write his pid.
FileFits ==
    /\ \A p \in Proc :
          /\ holds[p] => file = [by |-> p, written |-> TRUE]
          /\ lpc[p] = "write" => file = [by |-> p, written |-> FALSE]
    /\ file # NoFile => /\ file.written => holds[file.by]
                        /\ ~file.written => lpc[file.by] = "write"
-----------------------------------------------------------------------------
(* Inv: the start, and every step.                                         *)

LEMMA FileTypes ==
    /\ NoFile \in Files /\ NoFile.by = "nobody" /\ "nobody" \notin Proc
    /\ \A p \in Proc, w \in BOOLEAN :
          [by |-> p, written |-> w] \in Files /\ [by |-> p, written |-> w] # NoFile
    /\ \A f \in Files \ {NoFile} :
          f.by \in Proc /\ f.written \in BOOLEAN /\ f = [by |-> f.by, written |-> f.written]
  BY LockAssumption DEF Files, NoFile

LEMMA InvInit == Init => Inv
<1> SUFFICES ASSUME Init PROVE Inv
  OBVIOUS
<1>1. TypeOK
  <2>1. tries \in [Proc -> 0 .. Tries]
    BY LockAssumption DEF Init, LockInit
  <2> QED
    BY <2>1, FileTypes
       DEF Init, LockInit, TypeOK, LockTypeOK, LockPoints, Points, RestPoints
<1>2. Locking /\ Claims
  BY FileTypes
     DEF Init, LockInit, Locking, LockPointsOf, Claims, OpenPoints
<1> QED
  BY <1>1, <1>2 DEF Inv

LEMMA InvFrame == Inv /\ UNCHANGED vars => Inv'
  BY DEF vars, lockVars, lampVars, history, Inv, TypeOK, LockTypeOK, Locking, Claims

LEMMA SaneInitKeeps ==
  ASSUME Inv, NEW p \in Proc, SaneInit(p)
  PROVE  Inv'
<1> USE LockAssumption DEF Inv, SaneInit, OpenCall, Move, LockCall, Go,
    lockVars, lampVars, history
<1>1. TypeOK'
  BY DEF TypeOK, LockTypeOK, Points, RestPoints, AttachPoints, LockPoints
<1>2. Locking'
  BY FileTypes DEF TypeOK, LockTypeOK, Locking, LockPointsOf
<1>3. Claims'
  BY FileTypes DEF TypeOK, Claims, OpenPoints
<1> QED
  BY <1>1, <1>2, <1>3

LEMMA SaneStartKeeps ==
  ASSUME Inv, NEW p \in Proc, SaneStart(p)
  PROVE  Inv'
<1> USE LockAssumption DEF Inv, SaneStart, OpenCall, Move, LockCall, Go,
    lockVars, lampVars, history
<1>1. TypeOK'
  BY DEF TypeOK, LockTypeOK, Points, RestPoints, AttachPoints, LockPoints
<1>2. Locking'
  BY FileTypes DEF TypeOK, LockTypeOK, Locking, LockPointsOf
<1>3. Claims'
  BY FileTypes DEF TypeOK, Claims, OpenPoints
<1> QED
  BY <1>1, <1>2, <1>3

LEMMA UpdateButtonKeeps ==
  ASSUME Inv, NEW p \in Proc, UpdateButton(p)
  PROVE  Inv'
<1> USE LockAssumption DEF Inv, UpdateButton, Move, LockCall, Go,
    lockVars, lampVars, history
<1>1. TypeOK'
  BY DEF TypeOK, LockTypeOK, Points, RestPoints, AttachPoints, LockPoints
<1>2. Locking'
  BY FileTypes DEF TypeOK, LockTypeOK, Locking, LockPointsOf
<1>3. Claims'
  BY FileTypes DEF TypeOK, Claims, OpenPoints
<1> QED
  BY <1>1, <1>2, <1>3

LEMMA LockObtainedKeeps ==
  ASSUME Inv, NEW p \in Proc, LockObtained(p)
  PROVE  Inv'
<1> USE LockAssumption DEF Inv, LockObtained, Move, LockReturn, Go,
    lockVars, lampVars, history
<1>1. TypeOK'
  BY DEF TypeOK, LockTypeOK, Points, RestPoints, AttachPoints, LockPoints
<1>2. Locking'
  BY FileTypes DEF TypeOK, LockTypeOK, Locking, LockPointsOf
<1>3. Claims'
  BY FileTypes DEF TypeOK, Claims, OpenPoints
<1> QED
  BY <1>1, <1>2, <1>3

LEMMA LockRefusedKeeps ==
  ASSUME Inv, NEW p \in Proc, LockRefused(p)
  PROVE  Inv'
<1> USE LockAssumption DEF Inv, LockRefused, Move, LockReturn, Go, Misses,
    lockVars, lampVars, history
<1>1. TypeOK'
  <2>1. at' \in [Proc -> Points]
    BY DEF TypeOK, Points, RestPoints, AttachPoints
  <2>2. lpc' \in [Proc -> LockPoints] /\ missed' \in BOOLEAN
    BY FileTypes DEF TypeOK, LockTypeOK, LockPoints
  <2> QED
    BY <2>1, <2>2 DEF TypeOK, LockTypeOK
<1>2. Locking'
  BY FileTypes DEF TypeOK, LockTypeOK, Locking, LockPointsOf
<1>3. Claims'
  BY FileTypes DEF TypeOK, Claims, OpenPoints
<1> QED
  BY <1>1, <1>2, <1>3

LEMMA UsbOpenKeeps ==
  ASSUME Inv, NEW p \in Proc, UsbOpen(p)
  PROVE  Inv'
<1> USE LockAssumption DEF Inv, UsbOpen, Move, lockVars, lampVars, history
<1>1. TypeOK'
  <2>1. PICK to \in {"s_probe", "a_probe", "b_read", "x_use"} : at' = [at EXCEPT ![p] = to]
    OBVIOUS
  <2>2. at' \in [Proc -> Points] /\ fd' \in [Proc -> BOOLEAN]
    BY <2>1 DEF TypeOK, Points, RestPoints, AttachPoints
  <2> QED
    BY <2>2 DEF TypeOK, LockTypeOK
<1>2. Locking'
  BY FileTypes DEF TypeOK, LockTypeOK, Locking, LockPointsOf
<1>3. Claims'
  <2>1. at[p] \notin OpenPoints /\ at'[p] \in OpenPoints /\ irq[p] = "none"
    <3>1. PICK from \in {"s_open", "a_open", "b_open", "x_open"},
               to \in {"s_probe", "a_probe", "b_read", "x_use"} :
             at[p] = from /\ at' = [at EXCEPT ![p] = to]
      OBVIOUS
    <3> QED
      BY <3>1 DEF TypeOK, OpenPoints
  <2>2. \A q \in Proc \ {p} : at'[q] = at[q] /\ fd'[q] = fd[q]
    BY DEF TypeOK
  <2> QED
    BY <2>1, <2>2, FileTypes DEF TypeOK, Claims
<1> QED
  BY <1>1, <1>2, <1>3

LEMMA UsbOpenFailsKeeps ==
  ASSUME Inv, NEW p \in Proc, UsbOpenFails(p)
  PROVE  Inv'
<1> USE LockAssumption DEF Inv, UsbOpenFails, Move, Misses, GivesBack, Unlock,
    lockVars, lampVars, history
<1>1. TypeOK'
  <2>1. at' \in [Proc -> Points]
    BY DEF TypeOK, Points, RestPoints, AttachPoints
  <2>2. file' \in Files /\ holds' \in [Proc -> BOOLEAN]
        /\ missed' \in BOOLEAN /\ unforked' \subseteq Proc
    BY FileTypes DEF TypeOK, LockTypeOK, LockPoints
  <2> QED
    BY <2>1, <2>2 DEF TypeOK, LockTypeOK
<1>2. Locking'
  BY FileTypes DEF TypeOK, LockTypeOK, Locking, LockPointsOf
<1>3. Claims'
  BY FileTypes DEF TypeOK, Claims, OpenPoints
<1> QED
  BY <1>1, <1>2, <1>3

LEMMA ProbeKeeps ==
  ASSUME Inv, NEW p \in Proc, Probe(p)
  PROVE  Inv'
<1> USE LockAssumption DEF Inv, Probe, Move, lockVars, lampVars, history
<1>1. TypeOK'
  BY DEF TypeOK, LockTypeOK, Points, RestPoints, AttachPoints, LockPoints
<1>2. Locking'
  BY FileTypes DEF TypeOK, LockTypeOK, Locking, LockPointsOf
<1>3. Claims'
  <2>1. at[p] \in OpenPoints /\ at'[p] \in OpenPoints /\ irq[p] = "none"
    BY DEF TypeOK, OpenPoints
  <2>2. \A q \in Proc \ {p} : at'[q] = at[q] /\ fd'[q] = fd[q]
    BY DEF TypeOK
  <2> QED
    BY <2>1, <2>2 DEF TypeOK, Claims
<1> QED
  BY <1>1, <1>2, <1>3

LEMMA StartFailsKeeps ==
  ASSUME Inv, NEW p \in Proc, StartFails(p)
  PROVE  Inv'
<1> USE LockAssumption DEF Inv, StartFails, Move, Misses,
    lockVars, lampVars, history
<1>1. TypeOK'
  BY DEF TypeOK, LockTypeOK, Points, RestPoints, AttachPoints, LockPoints
<1>2. Locking'
  BY FileTypes DEF TypeOK, LockTypeOK, Locking, LockPointsOf
<1>3. Claims'
  BY FileTypes DEF TypeOK, Claims, OpenPoints
<1> QED
  BY <1>1, <1>2, <1>3

LEMMA LampOnKeeps ==
  ASSUME Inv, NEW p \in Proc, LampOn(p)
  PROVE  Inv'
<1> USE LockAssumption DEF Inv, LampOn, Move, lockVars, lampVars, history
<1>1. TypeOK'
  BY DEF TypeOK, LockTypeOK, Points, RestPoints, AttachPoints, LockPoints
<1>2. Locking'
  BY FileTypes DEF TypeOK, LockTypeOK, Locking, LockPointsOf
<1>3. Claims'
  BY FileTypes DEF TypeOK, Claims, OpenPoints
<1> QED
  BY <1>1, <1>2, <1>3

LEMMA StartScanKeeps ==
  ASSUME Inv, NEW p \in Proc, StartScan(p)
  PROVE  Inv'
<1> USE LockAssumption DEF Inv, StartScan, Move, StopLampTimer,
    lockVars, lampVars, history
<1>1. TypeOK'
  BY DEF TypeOK, LockTypeOK, Points, RestPoints, AttachPoints, LockPoints
<1>2. Locking'
  BY FileTypes DEF TypeOK, LockTypeOK, Locking, LockPointsOf
<1>3. Claims'
  BY FileTypes DEF TypeOK, Claims, OpenPoints
<1> QED
  BY <1>1, <1>2, <1>3

LEMMA StartFailsLateKeeps ==
  ASSUME Inv, NEW p \in Proc, StartFailsLate(p)
  PROVE  Inv'
<1> USE LockAssumption DEF Inv, StartFailsLate, Move, Misses,
    lockVars, lampVars, history
<1>1. TypeOK'
  BY DEF TypeOK, LockTypeOK, Points, RestPoints, AttachPoints, LockPoints
<1>2. Locking'
  BY FileTypes DEF TypeOK, LockTypeOK, Locking, LockPointsOf
<1>3. Claims'
  BY FileTypes DEF TypeOK, Claims, OpenPoints
<1> QED
  BY <1>1, <1>2, <1>3

LEMMA NoReaderKeeps ==
  ASSUME Inv, NEW p \in Proc, NoReader(p)
  PROVE  Inv'
<1> USE LockAssumption DEF Inv, NoReader, Move, Misses, lockVars, lampVars, history
<1>1. TypeOK'
  <2>1. at' \in [Proc -> Points]
    BY DEF TypeOK, Points, RestPoints, AttachPoints
  <2>2. fd' \in [Proc -> BOOLEAN] /\ missed' \in BOOLEAN /\ unforked' \subseteq Proc
    BY FileTypes DEF TypeOK, LockTypeOK, LockPoints
  <2> QED
    BY <2>1, <2>2 DEF TypeOK, LockTypeOK
<1>2. Locking'
  BY FileTypes DEF TypeOK, LockTypeOK, Locking, LockPointsOf
<1>3. Claims'
  BY FileTypes DEF TypeOK, Claims, OpenPoints
<1> QED
  BY <1>1, <1>2, <1>3

LEMMA ReaderStartedKeeps ==
  ASSUME Inv, NEW p \in Proc, ReaderStarted(p)
  PROVE  Inv'
<1> USE LockAssumption DEF Inv, ReaderStarted, Move, lockVars, lampVars, history
<1>1. TypeOK'
  BY DEF TypeOK, LockTypeOK, Points, RestPoints, AttachPoints, LockPoints
<1>2. Locking'
  BY FileTypes DEF TypeOK, LockTypeOK, Locking, LockPointsOf
<1>3. Claims'
  BY FileTypes DEF TypeOK, Claims, OpenPoints
<1> QED
  BY <1>1, <1>2, <1>3

LEMMA EndOfScanKeeps ==
  ASSUME Inv, NEW p \in Proc, EndOfScan(p)
  PROVE  Inv'
<1> USE LockAssumption DEF Inv, EndOfScan, Move, lockVars, lampVars, history
<1>1. TypeOK'
  BY DEF TypeOK, LockTypeOK, Points, RestPoints, AttachPoints, LockPoints
<1>2. Locking'
  BY FileTypes DEF TypeOK, LockTypeOK, Locking, LockPointsOf
<1>3. Claims'
  BY FileTypes DEF TypeOK, Claims, OpenPoints
<1> QED
  BY <1>1, <1>2, <1>3

LEMMA CancelKeeps ==
  ASSUME Inv, NEW p \in Proc, Cancel(p)
  PROVE  Inv'
<1> USE LockAssumption DEF Inv, Cancel, Move, StartLampTimer,
    lockVars, lampVars, history
<1>1. TypeOK'
  BY DEF TypeOK, LockTypeOK, Points, RestPoints, AttachPoints, LockPoints
<1>2. Locking'
  BY FileTypes DEF TypeOK, LockTypeOK, Locking, LockPointsOf
<1>3. Claims'
  BY FileTypes DEF TypeOK, Claims, OpenPoints
<1> QED
  BY <1>1, <1>2, <1>3

LEMMA StopScanKeeps ==
  ASSUME Inv, NEW p \in Proc, StopScan(p)
  PROVE  Inv'
<1> USE LockAssumption DEF Inv, StopScan, Move, StartLampTimer,
    lockVars, lampVars, history
<1>1. TypeOK'
  BY DEF TypeOK, LockTypeOK, Points, RestPoints, AttachPoints, LockPoints
<1>2. Locking'
  BY FileTypes DEF TypeOK, LockTypeOK, Locking, LockPointsOf
<1>3. Claims'
  BY FileTypes DEF TypeOK, Claims, OpenPoints
<1> QED
  BY <1>1, <1>2, <1>3

LEMMA UsbCloseKeeps ==
  ASSUME Inv, NEW p \in Proc, UsbClose(p)
  PROVE  Inv'
<1> USE LockAssumption DEF Inv, UsbClose, Move, lockVars, lampVars, history
<1>1. TypeOK'
  <2>1. at' \in [Proc -> Points]
    BY DEF TypeOK, Points, RestPoints, AttachPoints
  <2>2. fd' \in [Proc -> BOOLEAN]
    BY FileTypes DEF TypeOK, LockTypeOK, LockPoints
  <2> QED
    BY <2>1, <2>2 DEF TypeOK, LockTypeOK
<1>2. Locking'
  BY FileTypes DEF TypeOK, LockTypeOK, Locking, LockPointsOf
<1>3. Claims'
  <2>1. at[p] \in OpenPoints /\ at'[p] \notin OpenPoints /\ irq[p] = "none" /\ ~fd'[p]
    BY DEF TypeOK, OpenPoints
  <2>2. \A q \in Proc \ {p} : at'[q] = at[q] /\ fd'[q] = fd[q]
    BY DEF TypeOK
  <2> QED
    BY <2>1, <2>2, FileTypes DEF TypeOK, Claims
<1> QED
  BY <1>1, <1>2, <1>3

LEMMA UnlockCallKeeps ==
  ASSUME Inv, NEW p \in Proc, UnlockCall(p)
  PROVE  Inv'
<1> USE LockAssumption DEF Inv, UnlockCall, Move, GivesBack, Unlock,
    lockVars, lampVars, history
<1>1. TypeOK'
  <2>1. at' \in [Proc -> Points]
    BY DEF TypeOK, Points, RestPoints, AttachPoints
  <2>2. file' \in Files /\ holds' \in [Proc -> BOOLEAN] /\ unforked' \subseteq Proc
    BY FileTypes DEF TypeOK, LockTypeOK, LockPoints
  <2> QED
    BY <2>1, <2>2 DEF TypeOK, LockTypeOK
<1>2. Locking'
  BY FileTypes DEF TypeOK, LockTypeOK, Locking, LockPointsOf
<1>3. Claims'
  BY FileTypes DEF TypeOK, Claims, OpenPoints
<1> QED
  BY <1>1, <1>2, <1>3

LEMMA SaneExitKeeps ==
  ASSUME Inv, NEW p \in Proc, SaneExit(p)
  PROVE  Inv'
<1> USE LockAssumption DEF Inv, SaneExit, Move, lockVars, lampVars, history
<1>1. TypeOK'
  BY DEF TypeOK, LockTypeOK, Points, RestPoints, AttachPoints, LockPoints
<1>2. Locking'
  BY FileTypes DEF TypeOK, LockTypeOK, Locking, LockPointsOf
<1>3. Claims'
  BY FileTypes DEF TypeOK, Claims, OpenPoints
<1> QED
  BY <1>1, <1>2, <1>3

LEMMA ShutdownUseKeeps ==
  ASSUME Inv, NEW p \in Proc, ShutdownUse(p)
  PROVE  Inv'
<1> USE LockAssumption DEF Inv, ShutdownUse, Move, LampOff,
    lockVars, lampVars, history
<1>1. TypeOK'
  <2>1. at' \in [Proc -> Points]
    BY DEF TypeOK, Points, RestPoints, AttachPoints
  <2>2. claim' \in Proc \cup {"nobody"} /\ litBy' \in Proc \cup {"nobody"}
        /\ fd' \in [Proc -> BOOLEAN] /\ missed' \in BOOLEAN
    BY FileTypes DEF TypeOK, LockTypeOK, LockPoints
  <2> QED
    BY <2>1, <2>2 DEF TypeOK, LockTypeOK
<1>2. Locking'
  BY FileTypes DEF TypeOK, LockTypeOK, Locking, LockPointsOf
<1>3. Claims'
  BY FileTypes DEF TypeOK, Claims, OpenPoints
<1> QED
  BY <1>1, <1>2, <1>3

LEMMA ShutdownDoneKeeps ==
  ASSUME Inv, NEW p \in Proc, ShutdownDone(p)
  PROVE  Inv'
<1> USE LockAssumption DEF Inv, ShutdownDone, Move, StopLampTimer, Ends, Go,
    lockVars, lampVars, history
<1>1. TypeOK'
  BY DEF TypeOK, LockTypeOK, Points, RestPoints, AttachPoints, LockPoints
<1>2. Locking'
  BY FileTypes DEF TypeOK, LockTypeOK, Locking, LockPointsOf
<1>3. Claims'
  BY FileTypes DEF TypeOK, Claims, OpenPoints
<1> QED
  BY <1>1, <1>2, <1>3

LEMMA SaneExitIgnoredKeeps ==
  ASSUME Inv, NEW p \in Proc, SaneExitIgnored(p)
  PROVE  Inv'
<1> USE LockAssumption DEF Inv, SaneExitIgnored, Move, Ends, Go, Misses,
    lockVars, lampVars, history
<1>1. TypeOK'
  BY DEF TypeOK, LockTypeOK, Points, RestPoints, AttachPoints, LockPoints
<1>2. Locking'
  BY FileTypes DEF TypeOK, LockTypeOK, Locking, LockPointsOf
<1>3. Claims'
  BY FileTypes DEF TypeOK, Claims, OpenPoints
<1> QED
  BY <1>1, <1>2, <1>3

LEMMA KilledKeeps ==
  ASSUME Inv, NEW p \in Proc, Killed(p)
  PROVE  Inv'
<1> USE LockAssumption DEF Inv, Killed, Die, StopLampTimer, Ends, Go, Misses,
    lockVars, lampVars, history
<1>1. TypeOK'
  <2>1. at' \in [Proc -> Points]
    BY DEF TypeOK, Points, RestPoints, AttachPoints
  <2>2. claim' \in Proc \cup {"nobody"} /\ missed' \in BOOLEAN
    BY DEF TypeOK
  <2>3. LockTypeOK'
    BY DEF TypeOK, LockTypeOK, LockPoints
  <2>4. /\ {fd', desc', timer', masked'} \subseteq [Proc -> BOOLEAN]
        /\ irq' \in [Proc -> {"none", "open", "opened", "held"}]
    BY DEF TypeOK
  <2>5. UNCHANGED <<litBy, unforked>>
    OBVIOUS
  <2> HIDE DEF Killed, Die, StopLampTimer, Ends, Misses
  <2> QED
    BY <2>1, <2>2, <2>3, <2>4, <2>5 DEF TypeOK
<1>2. Locking'
  BY FileTypes DEF TypeOK, LockTypeOK, Locking, LockPointsOf
<1>3. Claims'
  BY FileTypes DEF TypeOK, Claims, OpenPoints
<1> QED
  BY <1>1, <1>2, <1>3

LEMMA AlarmKeeps ==
  ASSUME Inv, NEW p \in Proc, Alarm(p)
  PROVE  Inv'
<1> USE LockAssumption DEF Inv, Alarm, lockVars, lampVars, history
<1>1. TypeOK'
  BY DEF TypeOK, LockTypeOK
<1>2. Locking'
  BY DEF Locking
<1>3. Claims'
  BY DEF TypeOK, Claims
<1> QED
  BY <1>1, <1>2, <1>3

LEMMA IrqOpenKeeps ==
  ASSUME Inv, NEW p \in Proc, IrqOpen(p)
  PROVE  Inv'
<1> USE LockAssumption DEF Inv, IrqOpen, Misses, lockVars, lampVars, history
<1>1. TypeOK'
  BY DEF TypeOK, LockTypeOK
<1>2. Locking'
  BY DEF Locking
<1>3. Claims'
  BY FileTypes DEF TypeOK, Claims
<1> QED
  BY <1>1, <1>2, <1>3

LEMMA IrqSwitchKeeps ==
  ASSUME Inv, NEW p \in Proc, IrqSwitch(p)
  PROVE  Inv'
<1> USE LockAssumption DEF Inv, IrqSwitch, LampOff, Misses,
    lockVars, lampVars, history
<1>1. TypeOK'
  BY DEF TypeOK, LockTypeOK
<1>2. Locking'
  BY DEF Locking
<1>3. Claims'
  BY FileTypes DEF TypeOK, Claims
<1> QED
  BY <1>1, <1>2, <1>3

LEMMA LockStepKeeps ==
  ASSUME Inv, NEW p \in Proc, irq[p] = "none", LockStep(p),
         UNCHANGED <<at, claim, fd, desc, lampVars, history>>
  PROVE  Inv'
<1> USE LockAssumption DEF Inv, Go, Granted, NextTry, lampVars, history
<1>1. Claims'
  BY DEF Claims
<1>2. CASE TryCreate(p)
  <2>0. [by |-> p, written |-> FALSE] \in Files
    BY DEF Files
  <2>1. file' \in Files /\ lpc' \in [Proc -> LockPoints]
    BY <1>2, <2>0 DEF TryCreate, TypeOK, LockTypeOK, LockPoints
  <2>2. TypeOK'
    BY <1>2, <2>1 DEF TryCreate, TypeOK, LockTypeOK
  <2>3. Locking'
    BY <1>2, FileTypes DEF TryCreate, TypeOK, LockTypeOK, Locking, LockPointsOf
  <2> QED
    BY <1>1, <2>2, <2>3
<1>3. CASE WritePid(p)
  <2>1. /\ file' \in Files /\ file'.by = file.by
        /\ lpc' = [lpc EXCEPT ![p] = "good"] /\ holds' = [holds EXCEPT ![p] = TRUE]
    <3>1. CASE file.by = p
      <4>1. file = [by |-> p, written |-> file.written]
        BY <3>1, FileTypes DEF TypeOK, LockTypeOK
      <4>2. file' = [by |-> p, written |-> TRUE]
        BY <1>3, <3>1, <4>1 DEF WritePid
      <4> QED
        BY <1>3, <3>1, <4>2, FileTypes DEF WritePid
    <3>2. CASE file.by # p
      BY <1>3, <3>2 DEF WritePid, TypeOK, LockTypeOK
    <3> QED
      BY <3>1, <3>2
  <2>2. TypeOK'
    BY <1>3, <2>1 DEF WritePid, TypeOK, LockTypeOK, LockPoints
  <2>3. Locking'
    BY <1>3, <2>1 DEF WritePid, TypeOK, LockTypeOK, Locking, LockPointsOf
  <2> QED
    BY <1>1, <2>2, <2>3
<1>4. CASE CheckLock(p)
  <2>1. lpc[p] = "check" /\ tries[p] \in 1 .. Tries /\ UNCHANGED <<file, alive>>
    BY <1>4 DEF CheckLock, TypeOK, LockTypeOK, Locking
  <2>2. \/ Granted(p) /\ UNCHANGED tries
        \/ Go(p, "unlink") /\ UNCHANGED <<tries, holds>>
        \/ NextTry(p) /\ UNCHANGED holds
    <3>1. PICK status \in LockStatus(p) :
             CASE status = "self"  -> Granted(p) /\ UNCHANGED tries
               [] status = "dead"  -> Go(p, "unlink") /\ UNCHANGED <<tries, holds>>
               [] status = "other" -> NextTry(p) /\ UNCHANGED holds
      BY <1>4 DEF CheckLock
    <3>2. status \in {"self", "dead", "other"}
      BY DEF LockStatus
    <3> QED
      BY <3>1, <3>2
  <2>3. TypeOK'
    <3>1. lpc' \in [Proc -> LockPoints] /\ holds' \in [Proc -> BOOLEAN]
      BY <2>2 DEF TypeOK, LockTypeOK, LockPoints
    <3>2. tries' \in [Proc -> 0 .. Tries]
      BY <2>1, <2>2 DEF TypeOK, LockTypeOK
    <3> QED
      BY <2>1, <3>1, <3>2 DEF TypeOK, LockTypeOK
  <2>4. Locking'
    BY <2>1, <2>2 DEF TypeOK, LockTypeOK, Locking
  <2> QED
    BY <1>1, <2>3, <2>4
<1>5. CASE UnlinkDead(p)
  <2>1. tries[p] \in 1 .. Tries
    BY <1>5 DEF UnlinkDead, TypeOK, LockTypeOK, Locking
  <2>2. TypeOK'
    BY <1>5, <2>1, FileTypes DEF UnlinkDead, TypeOK, LockTypeOK, LockPoints
  <2>3. Locking'
    BY <1>5, <2>1, FileTypes DEF UnlinkDead, TypeOK, LockTypeOK, Locking
  <2> QED
    BY <1>1, <2>2, <2>3
<1> QED
  BY <1>2, <1>3, <1>4, <1>5 DEF LockStep

LEMMA StepKeeps == Inv /\ [Next]_vars => Inv'
<1> SUFFICES ASSUME Inv, [Next]_vars PROVE Inv'
  OBVIOUS
<1>1. CASE UNCHANGED vars
  BY <1>1, InvFrame
<1>2. ASSUME NEW p \in Proc, Goes(p) PROVE Inv'
  BY <1>2, LockStepKeeps, LockObtainedKeeps, LockRefusedKeeps, UsbOpenKeeps,
     UsbOpenFailsKeeps, ProbeKeeps, StartFailsKeeps, LampOnKeeps, StartScanKeeps,
     StartFailsLateKeeps, NoReaderKeeps, ReaderStartedKeeps, StopScanKeeps,
     UsbCloseKeeps, UnlockCallKeeps, ShutdownUseKeeps, ShutdownDoneKeeps,
     IrqOpenKeeps, IrqSwitchKeeps
     DEF Goes
<1>3. ASSUME NEW p \in Proc, Asked(p) PROVE Inv'
  BY <1>3, SaneInitKeeps, SaneStartKeeps, UpdateButtonKeeps, EndOfScanKeeps,
     CancelKeeps, SaneExitKeeps, SaneExitIgnoredKeeps DEF Asked
<1>4. ASSUME NEW p \in Proc, Alarm(p) \/ Killed(p) PROVE Inv'
  BY <1>4, AlarmKeeps, KilledKeeps
<1> QED
  BY <1>1, <1>2, <1>3, <1>4 DEF Next

LEMMA Invariance == Spec => []Inv
  BY InvInit, StepKeeps, PTL DEF Spec
-----------------------------------------------------------------------------
(* Lamps: a step disturbs it that moves a process to one of the points     *)
(* from usb_LampOn on, or that changes a timer, a handler or who lit the   *)
(* lamp.                                                                   *)

LitPoints == {"s_lit", "s_pipe", "scan"}

\* A step that changes none of these, and takes nobody into the scan.
LEMMA LampsFrame ==
  ASSUME Inv, Lamps, NEW p \in Proc, NEW to, to \notin LitPoints,
         at' = [at EXCEPT ![p] = to], irq'[p] \in {irq[p], "none"},
         \A q \in Proc \ {p} : irq'[q] = irq[q] /\ timer'[q] = timer[q],
         UNCHANGED litBy
  PROVE  Lamps'
  BY DEF Inv, TypeOK, Lamps, LitPoints

\* Nor does one in which a handler goes on, which finds no scan of its own.
LEMMA LampsIrq ==
  ASSUME Unhurried, Inv, Lamps, NEW p \in Proc, Alarm(p) \/ IrqOpen(p) \/ IrqSwitch(p)
  PROVE  Lamps'
<1> USE DEF Inv, TypeOK, Lamps, lockVars
<1>1. CASE Alarm(p)
  BY <1>1 DEF Alarm, Unhurried
<1>2. CASE IrqOpen(p)
  BY <1>2 DEF IrqOpen
<1>3. CASE IrqSwitch(p)
  <2>1. claim = p
    BY <1>3 DEF IrqSwitch, Claims
  <2>2. \A q \in Proc : at[q] \notin LitPoints
    BY <1>3, <2>1 DEF IrqSwitch, Claims, OpenPoints, LitPoints
  <2> QED
    BY <1>3, <2>2 DEF IrqSwitch, LitPoints
<1> QED
  BY <1>1, <1>2, <1>3

\* The steps into the scan, and the lamp's being switched off by sane_exit.
LEMMA LampsScan ==
  ASSUME Inv, Lamps, NEW p \in Proc,
         LampOn(p) \/ StartScan(p) \/ ReaderStarted(p) \/ ShutdownUse(p)
  PROVE  Lamps'
<1> USE DEF Inv, TypeOK, Lamps, Move
<1>1. CASE LampOn(p)
  <2>1. \A q \in Proc \ {p} : at[q] \notin LitPoints
    BY <1>1 DEF LampOn, Claims, OpenPoints, LitPoints
  <2> QED
    BY <1>1, <2>1 DEF LampOn, LitPoints
<1>2. CASE StartScan(p)
  BY <1>2 DEF StartScan, StopLampTimer
<1>3. CASE ReaderStarted(p)
  BY <1>3 DEF ReaderStarted, lampVars
<1>4. CASE ShutdownUse(p)
  <2>1. \A q \in Proc : at'[q] \notin LitPoints
    BY <1>4 DEF ShutdownUse, Claims, OpenPoints, LitPoints
  <2> QED
    BY <2>1 DEF LitPoints
<1> QED
  BY <1>1, <1>2, <1>3, <1>4

LEMMA LampsKept ==
  ASSUME Unhurried, Inv, Lamps, [Next]_vars
  PROVE  Lamps'
<1> USE DEF lampVars
<1>1. CASE UNCHANGED vars
  BY <1>1 DEF vars, Lamps
<1>2. ASSUME NEW p \in Proc, irq[p] = "none", LockStep(p), UNCHANGED <<at, lampVars>>
      PROVE  Lamps'
  BY <1>2 DEF Lamps
<1>3. ASSUME NEW p \in Proc,
             \/ SaneInit(p) \/ SaneStart(p) \/ UpdateButton(p) \/ LockObtained(p)
             \/ LockRefused(p) \/ UsbOpen(p) \/ UsbOpenFails(p) \/ Probe(p)
             \/ StartFails(p) \/ StartFailsLate(p) \/ NoReader(p) \/ EndOfScan(p)
             \/ UsbClose(p) \/ UnlockCall(p) \/ SaneExit(p) \/ SaneExitIgnored(p)
      PROVE  Lamps'
  <2>1. UNCHANGED <<timer, irq, litBy>>
    BY <1>3 DEF SaneInit, SaneStart, OpenCall, UpdateButton, LockObtained, LockRefused,
       UsbOpen, UsbOpenFails, Probe, StartFails, StartFailsLate, NoReader, EndOfScan,
       UsbClose, UnlockCall, SaneExit, SaneExitIgnored
  <2>2. PICK to \in Points \ LitPoints : at' = [at EXCEPT ![p] = to]
    BY <1>3 DEF SaneInit, SaneStart, OpenCall, UpdateButton, LockObtained, LockRefused,
       UsbOpen, UsbOpenFails, Probe, StartFails, StartFailsLate, NoReader, EndOfScan,
       UsbClose, UnlockCall, SaneExit, SaneExitIgnored, Move, Points, RestPoints,
       AttachPoints, LitPoints
  <2> QED
    BY <2>1, <2>2, LampsFrame
<1>4. ASSUME NEW p \in Proc, Cancel(p) \/ StopScan(p) \/ ShutdownDone(p) \/ Killed(p)
      PROVE  Lamps'
  <2>1. /\ irq'[p] \in {irq[p], "none"} /\ UNCHANGED litBy
        /\ \A q \in Proc \ {p} : irq'[q] = irq[q] /\ timer'[q] = timer[q]
    BY <1>4 DEF Cancel, StopScan, ShutdownDone, Killed, StartLampTimer, StopLampTimer,
       Inv, TypeOK
  <2>2. PICK to \in {"e_stop", "e_close", "exited"} : at' = [at EXCEPT ![p] = to]
    BY <1>4 DEF Cancel, StopScan, ShutdownDone, Killed, Move
  <2> QED
    BY <2>1, <2>2, LampsFrame DEF LitPoints
<1> QED
  BY <1>1, <1>2, <1>3, <1>4, LampsIrq, LampsScan DEF Next, Goes, Asked

LEMMA LampsInvariance ==
  ASSUME Unhurried
  PROVE  Spec => []Lamps
<1>1. Init => Lamps
  BY DEF Init, Lamps
<1>2. Inv /\ Lamps /\ [Next]_vars => Lamps'
  BY LampsKept
<1> QED
  BY <1>1, <1>2, Invariance, PTL DEF Spec
-----------------------------------------------------------------------------
(* FileFits: a step disturbs it that changes the file, who holds the lock  *)
(* or where somebody is in sanei_access_lock.                              *)

\* Who finds a file gets the lock if the file is his own, and waits otherwise:
\* nobody is dead.
LEMMA CheckWaits ==
  ASSUME Undisturbed, Inv, FileFits, NEW p \in Proc, CheckLock(p)
  PROVE  /\ UNCHANGED <<file, alive>>
         /\ \/ holds[p] /\ Granted(p) /\ UNCHANGED tries
            \/ NextTry(p) /\ UNCHANGED holds
<1>1. ASSUME file # NoFile, file.written
      PROVE  holds[file.by] /\ alive[file.by]
  <2>1. holds[file.by] /\ file.by \in Proc
    BY <1>1, FileTypes DEF Inv, FileFits, TypeOK, LockTypeOK
  <2> QED
    BY <2>1 DEF Inv, Locking
<1>2. \/ LockStatus(p) = {"other"}
      \/ LockStatus(p) = {"self"} /\ holds[p]
  BY <1>1 DEF LockStatus, Undisturbed
<1> QED
  BY <1>2 DEF CheckLock

\* A process that goes away without unlocking holds nothing.
LEMMA ExitsWithoutLock ==
  ASSUME Undisturbed, Inv, Orderly, NEW p \in Proc,
         ShutdownDone(p) \/ SaneExitIgnored(p)
  PROVE  ~holds[p] /\ lpc[p] = "out"
<1>1. "shutdown" \in Uses /\ at[p] \in {"idle", "unattached", "x_timer"}
  BY DEF ShutdownDone, SaneExitIgnored, Move, Orderly, ShutdownPoints
<1>2. unforked = {}
  BY <1>1 DEF Undisturbed, Orderly
<1>3. lpc[p] = "out"
  BY <1>1 DEF Inv, Locking
<1> QED
  BY <1>1, <1>2, <1>3 DEF Inv, Locking, LockPointsOf

LEMMA OrderlyKept ==
  ASSUME Undisturbed, Inv, FileFits, Orderly, [Next]_vars
  PROVE  Orderly'
<1> USE LockAssumption DEF Undisturbed, Inv, Orderly, TypeOK, LockTypeOK, history
<1>1. CASE UNCHANGED vars
  BY <1>1 DEF vars, lockVars
<1>2. ASSUME NEW p \in Proc, irq[p] = "none", LockStep(p), UNCHANGED <<at, history>>
      PROVE  Orderly'
  <2>1. ~UnlinkDead(p)
    BY DEF UnlinkDead
  <2>2. lpc'[p] # "unlink" /\ \A q \in Proc \ {p} : lpc'[q] = lpc[q]
    BY <1>2, <2>1, CheckWaits
       DEF LockStep, TryCreate, WritePid, Granted, NextTry, Go
  <2> QED
    BY <1>2, <2>2
<1>3. ASSUME NEW p \in Proc,
             \/ SaneStart(p) \/ UpdateButton(p) \/ LockObtained(p) \/ LockRefused(p)
      PROVE  Orderly'
  <2>1. PICK to \in {"s_lock", "b_lock", "s_open", "b_open", "idle"} :
             at' = [at EXCEPT ![p] = to]
    BY <1>3 DEF SaneStart, OpenCall, UpdateButton, LockObtained, LockRefused, Move,
       AttachPoints
  <2>2. PICK l \in {"open", "out"} : lpc' = [lpc EXCEPT ![p] = l]
    BY <1>3 DEF SaneStart, OpenCall, UpdateButton, LockObtained, LockRefused, LockCall,
       LockReturn, Go
  <2>3. UNCHANGED unforked
    BY <1>3 DEF SaneStart, OpenCall, UpdateButton, LockObtained, LockRefused
  <2> QED
    BY <2>1, <2>2, <2>3 DEF AttachPoints, ShutdownPoints
<1>4. ASSUME NEW p \in Proc,
             \/ UsbOpen(p) \/ UsbOpenFails(p) \/ Probe(p) \/ StartFails(p) \/ LampOn(p)
             \/ StartScan(p) \/ StartFailsLate(p) \/ ReaderStarted(p) \/ EndOfScan(p)
             \/ Cancel(p) \/ StopScan(p) \/ UsbClose(p) \/ UnlockCall(p) \/ SaneExit(p)
             \/ ShutdownUse(p) \/ NoReader(p)
      PROVE  Orderly'
  <2>1. UNCHANGED lpc
    BY <1>4 DEF UsbOpen, UsbOpenFails, Probe, StartFails, LampOn, StartScan,
       StartFailsLate, ReaderStarted, EndOfScan, Cancel, StopScan, UsbClose, UnlockCall,
       SaneExit, ShutdownUse, NoReader, GivesBack, Unlock, lockVars
  <2>2. PICK to \in {"s_probe", "b_read", "x_use", "idle", "x_open", "x_timer", "s_setup",
                       "s_lit", "s_pipe", "scan", "e_stop", "e_close", "e_unlock", "b_unlock",
                       "close_then_unlock", "unlock_then_close", "then_unlock",
                       "then_close"} :
             /\ at' = [at EXCEPT ![p] = to]
             /\ to \in ShutdownPoints => at[p] \in ShutdownPoints \/ "shutdown" \in Uses
    <3>1. CASE UsbOpen(p) \/ UsbOpenFails(p) \/ Probe(p) \/ StartFails(p)
      BY <3>1 DEF UsbOpen, UsbOpenFails, Probe, StartFails, Move, AttachPoints,
         ShutdownPoints
    <3>2. CASE \/ LampOn(p) \/ StartScan(p) \/ StartFailsLate(p) \/ ReaderStarted(p)
               \/ EndOfScan(p) \/ Cancel(p) \/ StopScan(p) \/ NoReader(p)
      BY <3>2 DEF LampOn, StartScan, StartFailsLate, ReaderStarted, EndOfScan, Cancel,
         StopScan, NoReader, Move, ShutdownPoints
    <3>3. CASE UsbClose(p) \/ UnlockCall(p) \/ SaneExit(p) \/ ShutdownUse(p)
      BY <3>3 DEF UsbClose, UnlockCall, SaneExit, ShutdownUse, Move, AttachPoints,
         ShutdownPoints
    <3> QED
      BY <1>4, <3>1, <3>2, <3>3
  <2>3. unforked' \subseteq unforked \/ "pipe" \in Faults
    BY <1>4 DEF UsbOpen, UsbOpenFails, Probe, StartFails, LampOn, StartScan,
       StartFailsLate, ReaderStarted, EndOfScan, Cancel, StopScan, UsbClose, UnlockCall,
       SaneExit, ShutdownUse, NoReader, GivesBack
  <2> QED
    BY <2>1, <2>2, <2>3 DEF AttachPoints
<1>5. ASSUME NEW p \in Proc, ShutdownDone(p) \/ SaneExitIgnored(p)
      PROVE  Orderly'
  BY <1>5 DEF ShutdownDone, SaneExitIgnored, Move, Ends, Go, AttachPoints, ShutdownPoints
<1>6. ASSUME NEW p \in Proc, Alarm(p) \/ IrqOpen(p) \/ IrqSwitch(p)
      PROVE  Orderly'
  BY <1>6 DEF Alarm, IrqOpen, IrqSwitch, lockVars
<1>7. ASSUME NEW p \in Proc PROVE ~Killed(p) /\ ~SaneInit(p)
  BY DEF Killed, Die, SaneInit, OpenCall, Move, AttachPoints
<1> QED
  BY <1>1, <1>2, <1>3, <1>4, <1>5, <1>6, <1>7 DEF Next, Goes, Asked

LEMMA FileFitsKept ==
  ASSUME Undisturbed, Inv, FileFits, Orderly, [Next]_vars
  PROVE  FileFits'
<1> USE LockAssumption DEF Inv, TypeOK, LockTypeOK
<1>1. CASE UNCHANGED vars
  BY <1>1 DEF vars, lockVars, FileFits
<1>2. ASSUME NEW p \in Proc, irq[p] = "none", LockStep(p) PROVE FileFits'
  <2>1. CASE TryCreate(p)
    <3>1. CASE file = NoFile
      <4>1. /\ file' = [by |-> p, written |-> FALSE] /\ lpc'[p] = "write"
            /\ UNCHANGED holds /\ \A q \in Proc \ {p} : lpc'[q] = lpc[q]
        BY <2>1, <3>1 DEF TryCreate, Go
      <4>2. \A q \in Proc : ~holds[q] /\ lpc[q] # "write"
        BY <3>1, FileTypes DEF FileFits
      <4> QED
        BY <4>1, <4>2, FileTypes DEF FileFits
    <3>2. CASE file # NoFile
      BY <2>1, <3>2, FileTypes DEF TryCreate, Go, FileFits
    <3> QED
      BY <3>1, <3>2
  <2>2. CASE WritePid(p)
    <3>1. file = [by |-> p, written |-> FALSE]
      BY <2>2 DEF WritePid, FileFits
    <3>2. file' = [by |-> p, written |-> TRUE] /\ holds'[p] /\ lpc'[p] = "good"
      BY <2>2, <3>1 DEF WritePid, Granted, Go
    <3>3. \A q \in Proc \ {p} : ~holds'[q] /\ lpc'[q] # "write"
      BY <2>2, <3>1 DEF WritePid, Granted, Go, FileFits
    <3> QED
      BY <3>2, <3>3, FileTypes DEF FileFits
  <2>3. CASE CheckLock(p)
    <3>1. /\ UNCHANGED file
          /\ \/ holds[p] /\ Granted(p)
             \/ NextTry(p) /\ UNCHANGED holds
      BY <2>3, CheckWaits
    <3>2. \A q \in Proc : /\ holds'[q] <=> holds[q]
                          /\ lpc'[q] = "write" <=> lpc[q] = "write"
      BY <2>3, <3>1 DEF CheckLock, Granted, NextTry, Go
    <3>3. file # NoFile => file.by \in Proc
      BY FileTypes
    <3> QED
      BY <3>1, <3>2, <3>3 DEF FileFits
  <2>4. ~UnlinkDead(p)
    BY DEF UnlinkDead, Orderly
  <2> QED
    BY <1>2, <2>1, <2>2, <2>3, <2>4 DEF LockStep
<1>3. ASSUME NEW p \in Proc,
             \/ SaneStart(p) \/ UpdateButton(p) \/ LockObtained(p) \/ LockRefused(p)
      PROVE  FileFits'
  <2>1. PICK l \in {"open", "out"} : lpc' = [lpc EXCEPT ![p] = l] /\ lpc[p] # "write"
    BY <1>3 DEF SaneStart, OpenCall, UpdateButton, LockObtained, LockRefused, LockCall,
       LockReturn, Go
  <2>2. UNCHANGED <<file, holds>>
    BY <1>3 DEF SaneStart, OpenCall, UpdateButton, LockObtained, LockRefused, LockCall,
       LockReturn
  <2> QED
    BY <2>1, <2>2, FileTypes DEF FileFits
<1>4. ASSUME NEW p \in Proc,
             \/ UsbOpen(p) \/ Probe(p) \/ StartFails(p) \/ LampOn(p)
             \/ StartScan(p) \/ StartFailsLate(p) \/ ReaderStarted(p) \/ EndOfScan(p)
             \/ Cancel(p) \/ StopScan(p) \/ UsbClose(p) \/ SaneExit(p)
             \/ ShutdownUse(p) \/ NoReader(p) \/ Alarm(p) \/ IrqOpen(p) \/ IrqSwitch(p)
             \/ Move(p, "x_open", "x_timer") /\ UNCHANGED lockVars
      PROVE  FileFits'
  <2>1. UNCHANGED <<file, holds, lpc>>
    BY <1>4 DEF UsbOpen, Probe, StartFails, LampOn, StartScan, StartFailsLate,
       ReaderStarted, EndOfScan, Cancel, StopScan, UsbClose, SaneExit, ShutdownUse,
       NoReader, Alarm, IrqOpen, IrqSwitch, lockVars
  <2> QED
    BY <2>1 DEF FileFits
<1>5. ASSUME NEW p \in Proc, holds[p], Unlock(p)
      PROVE  FileFits'
  <2>1. \A q \in Proc \ {p} : ~holds[q] /\ lpc[q] # "write"
    BY <1>5 DEF FileFits
  <2>2. lpc[p] # "write"
    BY <1>5 DEF FileFits
  <2> QED
    BY <1>5, <2>1, <2>2 DEF Unlock, FileFits
<1>6. ASSUME NEW p \in Proc, UnlockCall(p)
      PROVE  FileFits'
  BY <1>5, <1>6 DEF UnlockCall, GivesBack, Move, Locking, LockPointsOf, Orderly,
     AttachPoints
<1>7. ASSUME NEW p \in Proc, UsbOpenFails(p)
      PROVE  FileFits'
  <2>1. at[p] # "a_open"
    BY DEF Orderly, AttachPoints
  <2>2. \/ at[p] \in {"s_open", "b_open"} /\ Unlock(p)
        \/ Move(p, "x_open", "x_timer") /\ UNCHANGED lockVars
    BY <1>7, <2>1 DEF UsbOpenFails, GivesBack, Move
  <2> QED
    BY <1>4, <1>5, <2>2 DEF Locking, LockPointsOf
<1>8. ASSUME NEW p \in Proc, ShutdownDone(p) \/ SaneExitIgnored(p)
      PROVE  FileFits'
  <2>1. ~holds[p] /\ lpc[p] = "out"
    BY <1>8, ExitsWithoutLock
  <2>2. /\ UNCHANGED file
        /\ \A q \in Proc : (holds'[q] <=> holds[q]) /\ lpc'[q] = lpc[q]
    BY <1>8, <2>1 DEF ShutdownDone, SaneExitIgnored, Ends, Go
  <2>3. file # NoFile => file.by \in Proc
    BY FileTypes
  <2> QED
    BY <2>2, <2>3 DEF FileFits
<1>9. ASSUME NEW p \in Proc PROVE ~Killed(p) /\ ~SaneInit(p)
  BY DEF Killed, Die, SaneInit, OpenCall, Move, Orderly, AttachPoints, Undisturbed
<1> QED
  BY <1>1, <1>2, <1>3, <1>4, <1>6, <1>7, <1>8, <1>9 DEF Next, Goes, Asked

LEMMA FileInvariance ==
  ASSUME Undisturbed
  PROVE  Spec => []FileFits
<1>1. Init => FileFits /\ Orderly
  BY FileTypes DEF Init, LockInit, FileFits, Orderly, Undisturbed, AttachPoints,
     ShutdownPoints
<1>2. Inv /\ FileFits /\ Orderly /\ [Next]_vars => FileFits' /\ Orderly'
  BY FileFitsKept, OrderlyKept
<1> QED
  BY <1>1, <1>2, Invariance, PTL DEF Spec
-----------------------------------------------------------------------------
(* The theorems.                                                           *)

\* Types, and the attempts at the lock are counted down to zero at most, whoever
\* is killed and whatever fails.
THEOREM DeviceUseTypes == Spec => []TypeOK
<1>1. Inv => TypeOK
  BY DEF Inv
<1> QED
  BY <1>1, Invariance, PTL

\* Whoever is killed and whatever fails: between calls the device is closed, and
\* the lock given back but where NothingHeldIdle says that it is not (plustek.c:
\* the ends of sane_start, sane_read, do_cancel, attach and usbDev_updateButton).
THEOREM NothingEverHeldIdle == Spec => []NothingHeldIdle
<1>1. Inv => NothingHeldIdle
  BY DEF Inv, Locking, LockPointsOf, Claims, OpenPoints, NothingHeldIdle
<1> QED
  BY <1>1, Invariance, PTL

\* A scan in progress is never put in the dark by a timer, whoever is killed and
\* whatever fails, provided that no alarm comes between usb_LampOn and
\* usb_StopLampTimer of the scan's own process.
THEOREM ScanAlwaysLit ==
  ASSUME Unhurried
  PROVE  Spec => []ScanIsLit
<1>1. Lamps => ScanIsLit
  BY DEF Lamps, ScanIsLit
<1> QED
  BY <1>1, LampsInvariance, PTL

\* At most one process believes that it has the lock, provided that nobody is
\* killed, nobody attaches, a file without a pid is taken for another's, and
\* either every fork succeeds or nobody exits (sanei_access_lock).
THEOREM AlwaysExclusive ==
  ASSUME Undisturbed
  PROVE  Spec => []Exclusion
<1>1. FileFits => Exclusion
  BY DEF FileFits, Exclusion
<1> QED
  BY <1>1, FileInvariance, PTL

\* The lock file of a scan stays until the scan's end, under the same conditions
\* (usbDev_open with keepLock, drvclose).
THEOREM LockAlwaysKept ==
  ASSUME Undisturbed
  PROVE  Spec => []LockIsKept
<1>1. Inv /\ FileFits => LockIsKept
  BY DEF Inv, Locking, LockPointsOf, FileFits, LockIsKept
<1> QED
  BY <1>1, Invariance, FileInvariance, PTL
=============================================================================
