-------------------------- MODULE CalibrationProofs --------------------------
(***************************************************************************)
(* Safety of Calibration for any number of processes: one handle, whose    *)
(* processes can be forked, take longer than the statements after the fork *)
(* and do not outlast do_cancel.  The properties follow from Inv, which    *)
(* says that sc names a handle exactly while its calibration runs.         *)
(***************************************************************************)
EXTENDS Calibration, TLAPS

\* What the run assumes, too.  With two handles sc forgets one of them.
Alone == Faults = {} /\ \A g, h \in Handles : g = h

\* A process that lives is known to the handle it works for.
Processes ==
  \A p \in Procs :
    /\ proc[p] # "dying"
    /\ p > used => proc[p] = "none"
    /\ proc[p] \in Live => of[p] \in Handles /\ open[of[p]] /\ reader_pid[of[p]] = p

Scans ==
  \A p \in Procs : proc[p] = "scan" =>
    scanning[of[p]] \/ (at = "waitpid" /\ who = of[p])

Calibrations ==
  \A p \in Procs : proc[p] = "calib" =>
    /\ sc = of[p]
    /\ calibrating[of[p]] \/ (at \in {"forked", "waitpid"} /\ who = of[p])

\* The handler finds the handle whose child goes down.
Caught ==
  sc # None => /\ reader_pid[sc] \in Procs /\ proc[reader_pid[sc]] = "calib"
               /\ caught \/ at \in {"forked", "marked"}

Flags ==
  \A h \in Handles :
    /\ calibrating[h] => sc = h /\ open[h] /\ ~scanning[h]
    /\ scanning[h] => open[h] /\ reader_pid[h] \in 1 .. used

\* What a call has made sure of.
Calling ==
  /\ at # "idle" => open[who] /\ ~scanning[who]
  /\ at \in {"forked", "start", "close", "leave", "waitpid"} => ~calibrating[who]
  /\ at \in {"forked", "marked"} => sc = who
  /\ at = "waitpid" => cont # "idle"

Inv == TypeOK /\ Processes /\ Scans /\ Calibrations /\ Caught /\ Flags /\ Calling
-----------------------------------------------------------------------------
(* The start, and every step.                                              *)

LEMMA Constants == NoPid \notin Procs /\ ZeroPid \notin Procs /\ None \notin Handles
  BY CalibrationAssumption DEF NoPid, ZeroPid, Procs

LEMMA InvInit == Init => Inv
<1> SUFFICES ASSUME Init PROVE Inv
  OBVIOUS
<1>1. TypeOK
  <2>1. reader_pid \in [Handles -> Procs \cup {NoPid, ZeroPid}]
    BY DEF Init
  <2>2. of \in [Procs -> Handles \cup {None}] /\ used \in 0 .. MaxProcs
    BY CalibrationAssumption DEF Init
  <2> QED
    BY <2>1, <2>2 DEF Init, TypeOK
<1>2. Processes /\ Scans /\ Calibrations /\ Caught /\ Flags /\ Calling
  BY DEF Init, Processes, Scans, Calibrations, Caught, Flags, Calling, Live
<1> QED
  BY <1>1, <1>2 DEF Inv

LEMMA InvFrame == Inv /\ UNCHANGED vars => Inv'
  BY DEF vars, parent, handle, globals, procs, Inv, TypeOK, Processes, Scans, Calibrations, Caught, Flags, Calling

LEMMA SaneOpenKeeps ==
  ASSUME Alone, Inv, NEW h \in Handles, SaneOpen(h)
  PROVE  Inv'
<1> USE Constants, CalibrationAssumption DEF Alone, Inv, SaneOpen, parent, handle, globals, procs, Live, Procs
<1>1. TypeOK'
  BY DEF TypeOK, Processes, Caught, Flags, Calling, NoPid, ZeroPid
<1>2. Processes'
  BY DEF Processes
<1>3. Scans'
  BY DEF TypeOK, Processes, Scans
<1>4. Calibrations'
  BY DEF TypeOK, Processes, Calibrations
<1>5. Caught'
  BY DEF TypeOK, Processes, Caught
<1>6. Flags'
  BY DEF Flags
<1>7. Calling'
  BY DEF Calling
<1> QED
  BY <1>1, <1>2, <1>3, <1>4, <1>5, <1>6, <1>7

\* Who calibrates or scans has a process to wait for.
LEMMA HasProcess ==
  ASSUME Inv, NEW h \in Handles, calibrating[h] \/ scanning[h]
  PROVE  reader_pid[h] \in 1 .. used /\ reader_pid[h] # NoPid
<1>1. CASE scanning[h]
  BY <1>1 DEF Inv, Flags, NoPid
<1>2. CASE calibrating[h]
  <2>1. reader_pid[h] \in Procs /\ proc[reader_pid[h]] = "calib"
    BY <1>2, Constants DEF Inv, Flags, Caught
  <2> QED
    BY <2>1 DEF Inv, Processes, TypeOK, Procs, NoPid
<1> QED
  BY <1>1, <1>2

LEMMA ForkType ==
  ASSUME Alone, TypeOK, NEW h \in Handles, NEW what \in Live, Fork(h, what)
  PROVE  /\ used' \in 0 .. MaxProcs /\ used' \in Procs /\ used' = used + 1
         /\ reader_pid' \in [Handles -> Procs \cup {NoPid, ZeroPid}]
         /\ proc' \in [Procs -> Live \cup {"none", "zombie", "reaped"}]
         /\ of' \in [Procs -> Handles \cup {None}]
<1>1. used < MaxProcs /\ used' = used + 1
  BY DEF Alone, Fork
<1>2. used' \in 0 .. MaxProcs /\ used' \in Procs
  BY <1>1, CalibrationAssumption DEF TypeOK, Procs
<1> QED
  BY <1>1, <1>2 DEF Alone, Fork, TypeOK

LEMMA SaneCloseKeeps ==
  ASSUME Alone, Inv, NEW h \in Handles, SaneClose(h)
  PROVE  Inv'
<1> USE Constants, CalibrationAssumption DEF Alone, Inv, SaneClose, DoCancel, Enter, parent, handle, globals, procs, Live, Procs
<1>1. TypeOK'
  <2>1. CASE calibrating[h]
    <3>1. reader_pid[h] \in 1 .. used /\ reader_pid[h] # NoPid
      BY <2>1, HasProcess
    <3>2. at' = "waitpid" /\ who' = h /\ cancelRead' = TRUE
      BY <2>1, <3>1
    <3> QED
      BY <2>1, <3>1, <3>2 DEF TypeOK
  <2>2. CASE ~calibrating[h]
    BY <2>2 DEF TypeOK
  <2> QED
    BY <2>1, <2>2
<1>2. Processes'
  BY DEF Processes
<1>3. Scans'
  BY DEF TypeOK, Processes, Scans
<1>4. Calibrations'
  BY DEF TypeOK, Processes, Calibrations
<1>5. Caught'
  BY DEF Caught
<1>6. Flags'
  BY DEF TypeOK, Flags
<1>7. Calling'
  BY DEF TypeOK, Calling
<1> QED
  BY <1>1, <1>2, <1>3, <1>4, <1>5, <1>6, <1>7

LEMMA SaneCancelKeeps ==
  ASSUME Alone, Inv, NEW h \in Handles, SaneCancel(h)
  PROVE  Inv'
<1> USE Constants, CalibrationAssumption DEF Alone, Inv, SaneCancel, DoCancel, Enter, parent, handle, globals, procs, Live, Procs
<1>1. TypeOK'
  <2>1. reader_pid[h] \in 1 .. used /\ reader_pid[h] # NoPid
    BY HasProcess
  <2>2. at' = "waitpid" /\ who' = h /\ cancelRead' = TRUE
    BY <2>1
  <2> QED
    BY <2>1, <2>2 DEF TypeOK
<1>2. Processes'
  BY DEF Processes
<1>3. Scans'
  BY DEF TypeOK, Processes, Scans
<1>4. Calibrations'
  BY DEF TypeOK, Processes, Calibrations
<1>5. Caught'
  BY DEF Caught
<1>6. Flags'
  BY DEF Flags
<1>7. Calling'
  BY DEF TypeOK, Calling
<1> QED
  BY <1>1, <1>2, <1>3, <1>4, <1>5, <1>6, <1>7

LEMMA CalibrateKeeps ==
  ASSUME Alone, Inv, NEW h \in Handles, Calibrate(h)
  PROVE  Inv'
<1> USE Constants, CalibrationAssumption DEF Alone, Inv, Calibrate, DoCancel, Fork, Enter, parent, handle, globals, procs, Live, Procs
<1>1. TypeOK'
  <2>1. CASE calibrating[h]
    BY <2>1, HasProcess DEF TypeOK
  <2>2. CASE ~calibrating[h]
    <3>1. Fork(h, "calib")
      BY <2>2
    <3> HIDE DEF Fork
    <3> QED
      BY <2>2, <3>1, ForkType DEF TypeOK
  <2> QED
    BY <2>1, <2>2
<1>2. Processes'
  BY DEF TypeOK, Processes, Scans, Calibrations, Caught, Flags, Calling
<1>3. Scans'
  BY DEF TypeOK, Processes, Scans
<1>4. Calibrations'
  BY DEF TypeOK, Processes, Calibrations
<1>5. Caught'
  BY DEF TypeOK, Caught
<1>6. Flags'
  BY DEF TypeOK, Flags
<1>7. Calling'
  BY DEF TypeOK, Calling
<1> QED
  BY <1>1, <1>2, <1>3, <1>4, <1>5, <1>6, <1>7

LEMMA SaneStartKeeps ==
  ASSUME Alone, Inv, NEW h \in Handles, SaneStart(h)
  PROVE  Inv'
<1> USE Constants, CalibrationAssumption DEF Alone, Inv, SaneStart, Enter, parent, handle, globals, procs, Live, Procs
<1>1. TypeOK'
  BY DEF TypeOK, Processes, Caught, Flags, Calling, NoPid, ZeroPid
<1>2. Processes'
  BY DEF Processes
<1>3. Scans'
  BY DEF Scans
<1>4. Calibrations'
  BY DEF Calibrations
<1>5. Caught'
  BY DEF Caught
<1>6. Flags'
  BY DEF Flags
<1>7. Calling'
  BY DEF Calling
<1> QED
  BY <1>1, <1>2, <1>3, <1>4, <1>5, <1>6, <1>7

LEMMA EndOfScanKeeps ==
  ASSUME Alone, Inv, NEW h \in Handles, EndOfScan(h)
  PROVE  Inv'
<1> USE Constants, CalibrationAssumption DEF Alone, Inv, EndOfScan, parent, handle, globals, procs, Live, Procs
<1>1. TypeOK'
  BY DEF TypeOK, Processes, Caught, Flags, Calling, NoPid, ZeroPid
<1>2. Processes'
  BY DEF Processes
<1>3. Scans'
  BY DEF TypeOK, Processes, Scans
<1>4. Calibrations'
  BY DEF Calibrations
<1>5. Caught'
  BY DEF Caught
<1>6. Flags'
  BY DEF TypeOK, Flags
<1>7. Calling'
  BY DEF Calling
<1> QED
  BY <1>1, <1>2, <1>3, <1>4, <1>5, <1>6, <1>7

LEMMA CalibrateMarksKeeps ==
  ASSUME Alone, Inv, CalibrateMarks
  PROVE  Inv'
<1> USE Constants, CalibrationAssumption DEF Alone, Inv, CalibrateMarks, Enter, parent, handle, globals, procs, Live, Procs
<1>1. TypeOK'
  BY DEF TypeOK, Processes, Caught, Flags, Calling, NoPid, ZeroPid
<1>2. Processes'
  BY DEF Processes
<1>3. Scans'
  BY DEF Scans
<1>4. Calibrations'
  BY DEF TypeOK, Calibrations
<1>5. Caught'
  BY DEF Caught
<1>6. Flags'
  BY DEF Flags, Calling
<1>7. Calling'
  BY DEF Calling
<1> QED
  BY <1>1, <1>2, <1>3, <1>4, <1>5, <1>6, <1>7

LEMMA CalibrateCatchesKeeps ==
  ASSUME Alone, Inv, CalibrateCatches
  PROVE  Inv'
<1> USE Constants, CalibrationAssumption DEF Alone, Inv, CalibrateCatches, Leave, parent, handle, globals, procs, Live, Procs
<1>1. TypeOK'
  BY DEF TypeOK, Processes, Caught, Flags, Calling, NoPid, ZeroPid
<1>2. Processes'
  BY DEF Processes
<1>3. Scans'
  BY DEF Scans
<1>4. Calibrations'
  BY DEF Calibrations
<1>5. Caught'
  BY DEF Caught
<1>6. Flags'
  BY DEF Flags
<1>7. Calling'
  BY DEF Calling
<1> QED
  BY <1>1, <1>2, <1>3, <1>4, <1>5, <1>6, <1>7

LEMMA StartWaitedKeeps ==
  ASSUME Alone, Inv, StartWaited
  PROVE  Inv'
<1> USE Constants, CalibrationAssumption DEF Alone, Inv, StartWaited, Enter, parent, handle, globals, procs, Live, Procs
<1>1. TypeOK'
  BY DEF TypeOK, Processes, Caught, Flags, Calling, NoPid, ZeroPid
<1>2. Processes'
  BY DEF Processes
<1>3. Scans'
  BY DEF Scans
<1>4. Calibrations'
  BY DEF Calibrations
<1>5. Caught'
  BY DEF Caught
<1>6. Flags'
  BY DEF Flags
<1>7. Calling'
  BY DEF Calling
<1> QED
  BY <1>1, <1>2, <1>3, <1>4, <1>5, <1>6, <1>7

LEMMA StartCancelledKeeps ==
  ASSUME Alone, Inv, StartCancelled
  PROVE  Inv'
<1> USE Constants, CalibrationAssumption DEF Alone, Inv, StartCancelled, Leave, parent, handle, globals, procs, Live, Procs
<1>1. TypeOK'
  BY DEF TypeOK, Processes, Caught, Flags, Calling, NoPid, ZeroPid
<1>2. Processes'
  BY DEF Processes
<1>3. Scans'
  BY DEF Scans
<1>4. Calibrations'
  BY DEF Calibrations
<1>5. Caught'
  BY DEF Caught
<1>6. Flags'
  BY DEF Flags
<1>7. Calling'
  BY DEF Calling
<1> QED
  BY <1>1, <1>2, <1>3, <1>4, <1>5, <1>6, <1>7

LEMMA StartRejectedKeeps ==
  ASSUME Alone, Inv, StartRejected
  PROVE  Inv'
<1> USE Constants, CalibrationAssumption DEF Alone, Inv, StartRejected, Leave, parent, handle, globals, procs, Live, Procs
<1>1. TypeOK'
  BY DEF TypeOK, Processes, Caught, Flags, Calling, NoPid, ZeroPid
<1>2. Processes'
  BY DEF Processes
<1>3. Scans'
  BY DEF Scans
<1>4. Calibrations'
  BY DEF Calibrations
<1>5. Caught'
  BY DEF Caught
<1>6. Flags'
  BY DEF Flags
<1>7. Calling'
  BY DEF Calling
<1> QED
  BY <1>1, <1>2, <1>3, <1>4, <1>5, <1>6, <1>7

LEMMA StartReaderKeeps ==
  ASSUME Alone, Inv, StartReader
  PROVE  Inv'
<1> USE Constants, CalibrationAssumption DEF Alone, Inv, StartReader, Fork, Leave, parent, handle, globals, procs, Live, Procs
<1>1. TypeOK'
  <2> HIDE DEF Fork
  <2>1. who \in Handles /\ Fork(who, "scan")
    BY DEF TypeOK
  <2> QED
    BY <2>1, ForkType DEF TypeOK
<1>2. Processes'
  BY DEF TypeOK, Processes, Scans, Calibrations, Caught, Flags, Calling
<1>3. Scans'
  BY DEF TypeOK, Scans, Calling
<1>4. Calibrations'
  BY DEF TypeOK, Calibrations
<1>5. Caught'
  BY DEF TypeOK, Calibrations, Caught, Calling
<1>6. Flags'
  BY DEF TypeOK, Flags, Calling
<1>7. Calling'
  BY DEF Calling
<1> QED
  BY <1>1, <1>2, <1>3, <1>4, <1>5, <1>6, <1>7

LEMMA CancelDoneKeeps ==
  ASSUME Alone, Inv, CancelDone
  PROVE  Inv'
<1> USE Constants, CalibrationAssumption DEF Alone, Inv, CancelDone, Enter, parent, handle, globals, procs, Live, Procs
<1>1. TypeOK'
  BY DEF TypeOK, Processes, Caught, Flags, Calling, NoPid, ZeroPid
<1>2. Processes'
  BY DEF TypeOK, Processes
<1>3. Scans'
  BY DEF TypeOK, Processes, Scans
<1>4. Calibrations'
  BY DEF TypeOK, Processes, Calibrations
<1>5. Caught'
  BY DEF TypeOK, Caught
<1>6. Flags'
  BY DEF Flags, Calling
<1>7. Calling'
  BY DEF TypeOK, Calling
<1> QED
  BY <1>1, <1>2, <1>3, <1>4, <1>5, <1>6, <1>7

LEMMA CancelLeavesKeeps ==
  ASSUME Alone, Inv, CancelLeaves
  PROVE  Inv'
<1> USE Constants, CalibrationAssumption DEF Alone, Inv, CancelLeaves, Leave, parent, handle, globals, procs, Live, Procs
<1>1. TypeOK'
  BY DEF TypeOK, Processes, Caught, Flags, Calling, NoPid, ZeroPid
<1>2. Processes'
  BY DEF Processes
<1>3. Scans'
  BY DEF Scans
<1>4. Calibrations'
  BY DEF Calibrations
<1>5. Caught'
  BY DEF Caught
<1>6. Flags'
  BY DEF Flags
<1>7. Calling'
  BY DEF Calling
<1> QED
  BY <1>1, <1>2, <1>3, <1>4, <1>5, <1>6, <1>7

LEMMA CloseHandleKeeps ==
  ASSUME Alone, Inv, CloseHandle
  PROVE  Inv'
<1> USE Constants, CalibrationAssumption DEF Alone, Inv, CloseHandle, Leave, parent, handle, globals, procs, Live, Procs
<1>1. TypeOK'
  BY DEF TypeOK, Processes, Caught, Flags, Calling, NoPid, ZeroPid
<1>2. Processes'
  BY DEF TypeOK, Processes, Scans, Calibrations, Caught, Flags, Calling
<1>3. Scans'
  BY DEF Scans
<1>4. Calibrations'
  BY DEF Calibrations
<1>5. Caught'
  BY DEF Caught
<1>6. Flags'
  BY DEF Flags, Calling
<1>7. Calling'
  BY DEF Calling
<1> QED
  BY <1>1, <1>2, <1>3, <1>4, <1>5, <1>6, <1>7

LEMMA SignalCancelKeeps ==
  ASSUME Alone, Inv, SignalCancel
  PROVE  Inv'
<1> USE Constants, CalibrationAssumption DEF Alone, Inv, SignalCancel, DoCancel, Enter, parent, handle, globals, procs, Live, Procs
<1>1. TypeOK'
  <2>1. who \in Handles
    BY DEF TypeOK
  <2> QED
    BY <2>1, HasProcess DEF TypeOK
<1>2. Processes'
  BY DEF Processes
<1>3. Scans'
  BY DEF Scans, Calling
<1>4. Calibrations'
  BY DEF TypeOK, Processes, Calibrations
<1>5. Caught'
  BY DEF Caught
<1>6. Flags'
  BY DEF Flags
<1>7. Calling'
  BY DEF TypeOK, Calling
<1> QED
  BY <1>1, <1>2, <1>3, <1>4, <1>5, <1>6, <1>7

LEMMA ChildExitsKeeps ==
  ASSUME Alone, Inv, NEW p \in Procs, ChildExits(p)
  PROVE  Inv'
<1> USE Constants, CalibrationAssumption DEF Alone, Inv, ChildExits, ChildDown, ClearedBy, SigChld, parent, handle, globals, procs, Live, Procs
<1>1. TypeOK'
  BY DEF TypeOK, Processes, Caught, Flags, Calling, NoPid, ZeroPid
<1>2. Processes'
  BY DEF Processes
<1>3. Scans'
  BY DEF Scans
<1>4. Calibrations'
  BY DEF TypeOK, Processes, Calibrations
<1>5. Caught'
  BY DEF Caught
<1>6. Flags'
  BY DEF TypeOK, Flags
<1>7. Calling'
  BY DEF TypeOK, Processes, Caught, Calling
<1> QED
  BY <1>1, <1>2, <1>3, <1>4, <1>5, <1>6, <1>7

LEMMA Invariance ==
  ASSUME Alone
  PROVE  Spec => []Inv
<1>1. Inv /\ [Next]_vars => Inv'
  BY SaneOpenKeeps, SaneCloseKeeps, SaneCancelKeeps, CalibrateKeeps, SaneStartKeeps,
     EndOfScanKeeps, CalibrateMarksKeeps, CalibrateCatchesKeeps, StartWaitedKeeps,
     StartCancelledKeeps, StartRejectedKeeps, StartReaderKeeps, CancelDoneKeeps,
     CancelLeavesKeeps, CloseHandleKeeps, SignalCancelKeeps, ChildExitsKeeps, InvFrame
     DEF Next, Call, Inside
<1> QED
  BY <1>1, InvInit, PTL DEF Spec
-----------------------------------------------------------------------------
(* The theorems.                                                           *)

\* Types, and do_cancel waits for a process that was forked.
THEOREM CalibrationTypes ==
  ASSUME Alone
  PROVE  Spec => []TypeOK
<1>1. Inv => TypeOK
  BY DEF Inv
<1> QED
  BY <1>1, Invariance, PTL

\* The handle of a running calibration process knows of it, so that options are
\* refused and sane_start waits.
THEOREM CalibrationAlwaysKnown ==
  ASSUME Alone
  PROVE  Spec => []KnownCalibration
<1>1. Inv => KnownCalibration
  BY DEF Inv, Calibrations, KnownCalibration
<1> QED
  BY <1>1, Invariance, PTL

\* A calibration and a scan never drive the device together.
THEOREM AlwaysOneProcess ==
  ASSUME Alone
  PROVE  Spec => []OneProcess
<1>1. Inv => OneProcess
  BY DEF Inv, Processes, OneProcess
<1> QED
  BY <1>1, Invariance, PTL

\* Between calls sig_chldhandler finds the handle that calibrates, and no other.
THEOREM ScAlwaysNames ==
  ASSUME Alone
  PROVE  Spec => []ScNamesTheCalibrating
<1>1. Inv => ScNamesTheCalibrating
  <2> SUFFICES ASSUME Inv, at = "idle", NEW h \in Handles
               PROVE  sc = h <=> open[h] /\ calibrating[h]
    BY DEF ScNamesTheCalibrating
  <2>1. calibrating[h] => sc = h
    BY DEF Inv, Flags
  <2>2. ASSUME sc = h PROVE open[h] /\ calibrating[h]
    <3>1. reader_pid[h] \in Procs /\ proc[reader_pid[h]] = "calib"
      BY <2>2, Constants DEF Inv, Caught
    <3>2. of[reader_pid[h]] = h /\ calibrating[h]
      BY <2>2, <3>1 DEF Inv, Calibrations
    <3> QED
      BY <3>2 DEF Inv, Flags
  <2> QED
    BY <2>1, <2>2
<1> QED
  BY <1>1, Invariance, PTL
=============================================================================
