------------------------- MODULE ScanSessionProofs -------------------------
(***************************************************************************)
(* Safety of ScanSession for every image size, pipe capacity and number of *)
(* scans.  The properties are not inductive by themselves: they follow     *)
(* from Inv, which relates where the frontend's process stands to the      *)
(* reader it knows and to what that reader may still do.                   *)
(* That the session is a SANE handle (module SaneHandle) needs FlowInv as  *)
(* well: during a scan the pipe holds what the reader wrote and the        *)
(* frontend has not taken yet, in order and nothing else.                  *)
(***************************************************************************)
EXTENDS ScanSession, SequenceTheorems, TLAPS

\* Scan p has a process that nobody waited for yet (and that was not given up
\* with SIGKILL).
Unreaped(p) == pc[p] \in Alive \/ (pc[p] = "zombie" /\ result[p] # "sigkill")

\* do_cancel is waiting for the reader, in a call or in a signal handler.
Waiting == at = "waitpid" \/ sig = "waitpid"

\* sane_start holds the device until it knows its reader, unless a signal
\* handler cancels it.
Starting == /\ ~early /\ at = "starting" =>
                 scanning /\ sig = "none" /\ hw = "open" /\ sigalrmBlocked
            /\ at \in {"forked", "valid"} => reader_pid # ZeroPid

\* A scan in progress has a reader and reads that reader's pipe.
Scanning == scanning => /\ at \notin {"closed", "waitpid", "dead"}
                        /\ sig = "none"
                        /\ at \notin {"starting", "forked"} => reader_pid \in Scans
                        /\ at # "starting" /\ reader_pid \in Scans =>
                             r_pipe \in {NoFd, reader_pid}

\* do_cancel waits for a reader, after the scan was marked as over; a handler
\* does so inside sane_read or sane_start only.
WaitsForReader == /\ Waiting => reader_pid \in Scans /\ ~scanning
                  /\ sig = "waitpid" =>
                       InRead \/ at \in {"starting", "forked", "valid"}

\* The device is open only during a scan or until do_cancel closes it, and
\* not after the end of the file.
DeviceInUse == /\ hw = "open" => scanning \/ Waiting \/ at = "dead"
               /\ at = "status" => hw # "open"

\* Once the IPC record was read, or a pipe made, a reader_pid was assigned; the
\* end of the file is met during a scan, which only a cancel ends under it.
PidAssigned == /\ ipc_read_done \/ r_pipe # NoFd => reader_pid # ZeroPid
               /\ at = "data" => ipc_read_done
               /\ at = "status" /\ sig = "none" /\ reader_pid \in Scans => scanning

\* The backend knows every unreaped reader, and is scanning or waiting for it.
KnownReader == /\ \A p \in Scans : Unreaped(p) => /\ reader_pid = p
                                                  /\ scanning \/ Waiting
               /\ at = "starting" => \A p \in Scans : ~Unreaped(p)

Processes  == KnownReader /\ DeviceHeld

SessionInv == Starting /\ Scanning /\ WaitsForReader /\ DeviceInUse /\ PidAssigned
ProcessInv == ~early => Processes
Inv        == TypeOK /\ SessionInv /\ ProcessInv
-----------------------------------------------------------------------------
(* The types.                                                              *)

LEMMA Constants == /\ NoPid \notin Scans /\ ZeroPid \notin Scans /\ NoFd \notin Scans
                   /\ NoPid # ZeroPid
                   /\ Ipc \in 0 .. Lines
  BY SessionAssumption DEF Scans, NoPid, ZeroPid, NoFd, Ipc

\* A group of variables that does not change keeps its types.
LEMMA Frame == TypeOK => /\ UNCHANGED parent => ParentOK'
                         /\ UNCHANGED frontend => FrontendOK'
                         /\ UNCHANGED handle => HandleOK'
                         /\ UNCHANGED system => SystemOK'
                         /\ UNCHANGED device => DeviceOK'
                         /\ UNCHANGED reader => ReaderOK'
                         /\ UNCHANGED pipe => PipeOK'
<1> SUFFICES ASSUME TypeOK PROVE /\ UNCHANGED parent => ParentOK'
                                 /\ UNCHANGED frontend => FrontendOK'
                                 /\ UNCHANGED handle => HandleOK'
                                 /\ UNCHANGED system => SystemOK'
                                 /\ UNCHANGED device => DeviceOK'
                                 /\ UNCHANGED reader => ReaderOK'
                                 /\ UNCHANGED pipe => PipeOK'
  OBVIOUS
<1>1. UNCHANGED parent => ParentOK'
  BY DEF TypeOK, ParentOK, parent
<1>2. UNCHANGED frontend => FrontendOK'
  BY DEF TypeOK, FrontendOK, frontend
<1>3. UNCHANGED handle => HandleOK'
  BY DEF TypeOK, HandleOK, handle
<1>4. UNCHANGED system => SystemOK'
  BY DEF TypeOK, SystemOK, system
<1>5. UNCHANGED device => DeviceOK'
  BY DEF TypeOK, DeviceOK, device
<1>6. UNCHANGED reader => ReaderOK'
  BY DEF TypeOK, ReaderOK, reader
<1>7. UNCHANGED pipe => PipeOK'
  BY DEF TypeOK, PipeOK
<1> QED
  BY <1>1, <1>2, <1>3, <1>4, <1>5, <1>6, <1>7

\* Taking units out of the pipe that is read leaves the pipes well typed.
LEMMA TakeUnitsType ==
  ASSUME PipeOK, r_pipe \in Scans,
         NEW n \in 1 .. Len(pipe[r_pipe]), TakeUnits(n)
  PROVE  PipeOK' /\ SubSeq(pipe[r_pipe], 1, n) \in Seq(0 .. Lines)
<1> DEFINE s == pipe[r_pipe]
<1>1. s \in Seq(0 .. Lines) /\ Len(s) \in Nat
  BY DEF PipeOK
<1>2. \A i \in 1 .. Len(s) : s[i] \in 0 .. Lines
  BY <1>1, ElementOfSeq
<1>3. SubSeq(s, n + 1, Len(s)) \in Seq(0 .. Lines)
  BY <1>1, <1>2, SubSeqProperties
<1>4. SubSeq(s, 1, n) \in Seq(0 .. Lines)
  BY <1>1, <1>2, SubSeqProperties
<1> QED
  BY <1>3, <1>4 DEF TakeUnits, PipeOK

\* So does a write of the reader.
LEMMA WriteUnitType ==
  ASSUME PipeOK, NEW p \in Scans, NEW u \in 0 .. Lines, WriteUnit(p, u)
  PROVE  PipeOK'
<1>1. pipe[p] \in Seq(0 .. Lines)
  BY DEF PipeOK
<1>2. Append(pipe[p], u) \in Seq(0 .. Lines)
  BY <1>1
<1> QED
  BY <1>2 DEF WriteUnit, PipeOK

LEMMA SignalType ==
  ASSUME ReaderOK, NEW S, Signal(S)
  PROVE  ReaderOK'
<1>1. /\ pc' \in [Scans -> Alive \cup {"none", "zombie", "reaped"}]
      /\ result' \in [Scans -> Results]
      /\ line' \in [Scans -> 0 .. Lines]
  BY DEF ReaderOK, Signal, Alive, Results
<1>2. usr1' \in [Scans -> BOOLEAN]
  BY DEF ReaderOK, Signal
<1> QED
  BY <1>1, <1>2 DEF ReaderOK

LEMMA ReapType ==
  ASSUME ReaderOK, NEW p, Reap(p), UNCHANGED <<line, usr1, result>>
  PROVE  ReaderOK'
  BY DEF ReaderOK, Reap

LEMMA ClosePipeType ==
  ASSUME HandleOK, SystemOK, NEW close,
         IF close THEN ClosePipe ELSE UNCHANGED <<fds, r_pipe, w_pipe>>
  PROVE  /\ fds' \subseteq {"r", "w"} \X Scans
         /\ r_pipe' \in Scans \cup {NoFd}
         /\ w_pipe' \in Scans \cup {NoFd}
  BY DEF HandleOK, SystemOK, ClosePipe

LEMMA DrvCloseType ==
  ASSUME DeviceOK, DrvClose
  PROVE  DeviceOK'
  BY DEF DeviceOK, DrvClose, HwStates

LEMMA UsbCloseType ==
  ASSUME DeviceOK, UsbClose
  PROVE  DeviceOK'
  BY DEF DeviceOK, UsbClose, HwStates

LEMMA DoCancelType ==
  ASSUME TypeOK, NEW close \in BOOLEAN, NEW r \in Statuses, DoCancel(close, r)
  PROVE  /\ ParentOK' /\ FrontendOK' /\ HandleOK'
         /\ SystemOK' /\ DeviceOK' /\ ReaderOK'
<1> USE DEF TypeOK
<1>1. ParentOK' /\ FrontendOK'
  BY DEF DoCancel, Return, ParentOK, FrontendOK
<1>2. /\ IF close /\ reader_pid = NoPid THEN ClosePipe ELSE UNCHANGED <<fds, r_pipe, w_pipe>>
      /\ DrvClose \/ UNCHANGED device
      /\ KillReader \/ KillGroup \/ UNCHANGED reader
  BY Constants DEF DoCancel, CancelRest
<1>3. HandleOK' /\ SystemOK'
  <2>1. /\ fds' \subseteq {"r", "w"} \X Scans
        /\ r_pipe' \in Scans \cup {NoFd}
        /\ w_pipe' \in Scans \cup {NoFd}
    BY <1>2, ClosePipeType
  <2> QED
    BY <2>1 DEF DoCancel, HandleOK, SystemOK
<1>4. DeviceOK' /\ ReaderOK'
  BY <1>2, Frame, DrvCloseType, SignalType DEF KillReader, KillGroup
<1> QED
  BY <1>1, <1>3, <1>4

LEMMA AfterWaitType ==
  ASSUME TypeOK, NEW close, AfterWait(close)
  PROVE  HandleOK' /\ SystemOK' /\ DeviceOK' /\ ReaderOK' /\ PipeOK'
<1> USE DEF TypeOK
<1>1. /\ fds' \subseteq {"r", "w"} \X Scans
      /\ r_pipe' \in Scans \cup {NoFd}
      /\ w_pipe' \in Scans \cup {NoFd}
  BY ClosePipeType DEF AfterWait
<1>2. HandleOK' /\ SystemOK'
  BY <1>1 DEF AfterWait, HandleOK, SystemOK
<1>3. DeviceOK' /\ PipeOK'
  BY Frame DEF AfterWait, DeviceOK, HwStates
<1>4. ReaderOK'
  BY ReapType DEF AfterWait, KillHard, ReaderOK, Results
<1> QED
  BY <1>2, <1>3, <1>4

LEMMA TypeInit == Init => TypeOK
<1> SUFFICES ASSUME Init PROVE TypeOK
  OBVIOUS
<1>1. ParentOK /\ DeviceOK
  BY DEF Init, NoCall, ParentOK, DeviceOK, Statuses, HwStates
<1>6. FrontendOK
  <2>1. image \in Seq(0 .. Lines)
    BY DEF Init
  <2> QED
    BY <2>1 DEF Init, FrontendOK, Statuses
<1>2. HandleOK
  BY DEF Init, HandleOK
<1>3. SystemOK
  <2>1. fds \subseteq {"r", "w"} \X Scans
    BY DEF Init
  <2>2. used \in 0 .. MaxScans
    BY SessionAssumption DEF Init
  <2>3. nonblock \in BOOLEAN
    BY DEF Init
  <2> QED
    BY <2>1, <2>2, <2>3 DEF SystemOK
<1>4. ReaderOK
  <2>1. pc \in [Scans -> Alive \cup {"none", "zombie", "reaped"}]
        /\ usr1 \in [Scans -> BOOLEAN] /\ result \in [Scans -> Results]
    BY DEF Init, Results
  <2>2. line \in [Scans -> 0 .. Lines]
    BY SessionAssumption DEF Init
  <2> QED
    BY <2>1, <2>2 DEF ReaderOK
<1>5. PipeOK
  BY DEF Init, PipeOK
<1> QED
  BY <1>1, <1>2, <1>3, <1>4, <1>5, <1>6 DEF TypeOK

LEMMA TypeStep == TypeOK /\ [Next]_vars => TypeOK'
<1> SUFFICES ASSUME TypeOK, [Next]_vars PROVE TypeOK'
  OBVIOUS
<1> USE DEF TypeOK
<1>1. CASE SaneOpen
  <2>1. ParentOK' /\ image' \in Seq(0 .. Lines)
    BY <1>1 DEF SaneOpen, ParentOK
  <2>2. FrontendOK'
    BY <1>1, <2>1 DEF SaneOpen, FrontendOK, Statuses
  <2>3. HandleOK'
    BY <1>1 DEF SaneOpen, HandleOK
  <2> QED
    BY <1>1, <2>1, <2>2, <2>3, Frame DEF SaneOpen
<1>2. CASE StartWhileScanning
  <2>1. ParentOK' /\ FrontendOK'
    BY <1>2 DEF StartWhileScanning, ParentOK, FrontendOK, Statuses, Return
  <2> QED
    BY <1>2, <2>1, Frame DEF StartWhileScanning
<1>3. CASE StartRejected
  <2>1. ParentOK' /\ FrontendOK'
    BY <1>3 DEF StartRejected, ParentOK, FrontendOK, Statuses, Return
  <2>2. DeviceOK'
    BY <1>3 DEF StartRejected, DeviceOK, HwStates
  <2> QED
    BY <1>3, <2>1, <2>2, Frame DEF StartRejected
<1>4. CASE SaneStart
  <2>1. ParentOK' /\ image' \in Seq(0 .. Lines)
    BY <1>4 DEF SaneStart, ParentOK
  <2>4. FrontendOK'
    BY <1>4, <2>1 DEF SaneStart, FrontendOK
  <2>2. HandleOK'
    BY <1>4 DEF SaneStart, HandleOK
  <2>3. DeviceOK'
    BY <1>4 DEF SaneStart, DeviceOK, HwStates
  <2> QED
    BY <1>4, <2>1, <2>2, <2>3, <2>4, Frame DEF SaneStart
<1>5. CASE SaneRead
  <2>1. ParentOK'
    BY <1>5 DEF SaneRead, ParentOK
  <2> QED
    BY <1>5, <2>1, Frame DEF SaneRead
<1>6. CASE SaneCancel
  <2>1. ret \in Statuses
    BY <1>6 DEF SaneCancel, FrontendOK
  <2>2. ParentOK' /\ FrontendOK' /\ HandleOK' /\ SystemOK' /\ DeviceOK' /\ ReaderOK'
    BY <1>6, <2>1, DoCancelType DEF SaneCancel
  <2> QED
    BY <1>6, <2>1, <2>2, Frame DEF SaneCancel
<1>7. CASE SaneClose
  <2>1. ParentOK'
    BY <1>7 DEF SaneClose, ParentOK
  <2>2. HandleOK' /\ SystemOK'
    BY <1>7, ClosePipeType DEF SaneClose, HandleOK, SystemOK, ClosePipe
  <2>3. DeviceOK'
    BY <1>7, DrvCloseType DEF SaneClose
  <2> QED
    BY <1>7, <2>1, <2>2, <2>3, Frame DEF SaneClose
<1>8. CASE SaneSetIoMode
  <2>1. SystemOK'
    BY <1>8 DEF SaneSetIoMode, SystemOK
  <2> QED
    BY <1>8, <2>1, Frame DEF SaneSetIoMode
<1>9. CASE StartWithoutPipe
  <2>1. ParentOK' /\ FrontendOK'
    BY <1>9 DEF StartWithoutPipe, ParentOK, FrontendOK, Statuses, Return
  <2>2. HandleOK'
    BY <1>9 DEF StartWithoutPipe, HandleOK
  <2>3. DeviceOK'
    BY <1>9, UsbCloseType DEF StartWithoutPipe
  <2> QED
    BY <1>9, <2>1, <2>2, <2>3, Frame DEF StartWithoutPipe
<1>10. CASE StartReader
  <2>1. used < MaxScans
    BY <1>10 DEF StartReader
  <2>2. used' \in Scans /\ used' \in 0 .. MaxScans
    BY <1>10, <2>1, SessionAssumption DEF StartReader, Scans, SystemOK
  <2>6. fds' \subseteq {"r", "w"} \X Scans
    BY <1>10, <2>2 DEF StartReader, SystemOK
  <2>3. SystemOK'
    BY <1>10, <2>2, <2>6 DEF StartReader, SystemOK
  <2>4. ParentOK' /\ HandleOK'
    BY <1>10, <2>2 DEF StartReader, ParentOK, HandleOK
  <2>5. ReaderOK'
    BY <1>10, <2>2 DEF StartReader, ReaderOK, Alive, Running
  <2> QED
    BY <1>10, <2>3, <2>4, <2>5, Frame DEF StartReader
<1>11. CASE ReaderStarted
  <2>1. ParentOK' /\ FrontendOK'
    BY <1>11 DEF ReaderStarted, ParentOK, FrontendOK, Statuses, Return
  <2>2. HandleOK'
    BY <1>11 DEF ReaderStarted, HandleOK
  <2>3. SystemOK'
    BY <1>11 DEF ReaderStarted, SystemOK
  <2> QED
    BY <1>11, <2>1, <2>2, <2>3, Frame DEF ReaderStarted
<1>12. CASE ReaderNotStarted
  <2>1. ParentOK' /\ FrontendOK'
    BY <1>12 DEF ReaderNotStarted, ParentOK, FrontendOK, Statuses, Return
  <2>2. HandleOK'
    BY <1>12 DEF ReaderNotStarted, HandleOK
  <2>3. DeviceOK'
    BY <1>12, UsbCloseType DEF ReaderNotStarted
  <2> QED
    BY <1>12, <2>1, <2>2, <2>3, Frame DEF ReaderNotStarted
<1>13. CASE ReadIpc
  <2>1. TakeUnits(1) /\ r_pipe \in Scans /\ 1 \in 1 .. Len(pipe[r_pipe])
    BY <1>13 DEF ReadIpc, Readable, HandleOK, PipeOK
  <2>2. PipeOK'
    BY <2>1, TakeUnitsType
  <2>3. ParentOK' /\ HandleOK'
    BY <1>13 DEF ReadIpc, ParentOK, HandleOK
  <2> QED
    BY <1>13, <2>2, <2>3, Frame DEF ReadIpc
<1>14. CASE ReadIpcAgain
  <2>1. ParentOK' /\ FrontendOK'
    BY <1>14 DEF ReadIpcAgain, ParentOK, FrontendOK, Statuses, Return
  <2> QED
    BY <1>14, <2>1, Frame DEF ReadIpcAgain
<1>16. CASE ReadIpcSpins
  BY <1>16, Frame DEF ReadIpcSpins, vars
<1>17. CASE ReadAfterCancel
  <2>1. PipeOK'
    BY <1>17, TakeUnitsType, Frame DEF ReadAfterCancel, Readable, HandleOK
  <2>2. /\ ParentOK' /\ FrontendOK' /\ HandleOK'
        /\ SystemOK' /\ DeviceOK' /\ ReaderOK'
    BY <1>17, DoCancelType DEF ReadAfterCancel, Statuses
  <2> QED
    BY <2>1, <2>2
<1>18. CASE ReadData
  <2>1. PICK n \in 1 .. Len(pipe[r_pipe]) :
          TakeUnits(n) /\ image' = image \o SubSeq(pipe[r_pipe], 1, n)
    BY <1>18 DEF ReadData
  <2>2. r_pipe \in Scans
    BY <1>18 DEF ReadData, Readable, HandleOK
  <2>3. PipeOK' /\ SubSeq(pipe[r_pipe], 1, n) \in Seq(0 .. Lines)
    BY <2>1, <2>2, TakeUnitsType
  <2>4. image' \in Seq(0 .. Lines)
    BY <2>1, <2>3, ConcatProperties DEF FrontendOK
  <2>5. ParentOK' /\ FrontendOK'
    BY <1>18, <2>4 DEF ReadData, Return, ParentOK, FrontendOK, Statuses
  <2> QED
    BY <1>18, <2>3, <2>5, Frame DEF ReadData
<1>19. CASE ReadAgain
  <2>1. ParentOK' /\ FrontendOK'
    BY <1>19 DEF ReadAgain, ParentOK, FrontendOK, Statuses, Return
  <2> QED
    BY <1>19, <2>1, Frame DEF ReadAgain
<1>20. CASE ReadFails
  <2>1. ParentOK' /\ FrontendOK' /\ HandleOK' /\ SystemOK' /\ DeviceOK' /\ ReaderOK'
    BY <1>20, DoCancelType DEF ReadFails, Statuses
  <2> QED
    BY <1>20, <2>1, Frame DEF ReadFails
<1>21. CASE EndAfterWait
  <2>1. ParentOK' /\ FrontendOK'
    BY <1>21 DEF EndAfterWait, ParentOK, FrontendOK, Statuses, Return
  <2>2. HandleOK' /\ SystemOK'
    BY <1>21, ClosePipeType DEF EndAfterWait, HandleOK, SystemOK, ClosePipe
  <2>3. DeviceOK'
    BY <1>21, DrvCloseType DEF EndAfterWait
  <2>4. ReaderOK'
    BY <1>21, ReapType, Frame DEF EndAfterWait, reader
  <2> QED
    BY <1>21, <2>1, <2>2, <2>3, <2>4, Frame DEF EndAfterWait
<1>22. CASE ReadEndOfFile
  <2>1. ParentOK'
    BY <1>22 DEF ReadEndOfFile, ParentOK
  <2>2. DeviceOK'
    BY <1>22, DrvCloseType DEF ReadEndOfFile
  <2> QED
    BY <1>22, <2>1, <2>2, Frame DEF ReadEndOfFile
<1>23. CASE EndOfScan
  <2>1. ParentOK' /\ FrontendOK'
    BY <1>23 DEF EndOfScan, ParentOK, FrontendOK, Statuses, Return, ExitCode
  <2>2. HandleOK' /\ SystemOK'
    BY <1>23, ClosePipeType DEF EndOfScan, HandleOK, SystemOK, ClosePipe
  <2>3. ReaderOK'
    BY <1>23, ReapType, Frame DEF EndOfScan, reader
  <2> QED
    BY <1>23, <2>1, <2>2, <2>3, Frame DEF EndOfScan
<1>24. CASE CancelDone
  <2>1. ParentOK' /\ FrontendOK'
    BY <1>24 DEF CancelDone, AfterWait, ParentOK, FrontendOK, Return, NoCall, Statuses
  <2>2. HandleOK' /\ SystemOK' /\ DeviceOK' /\ ReaderOK' /\ PipeOK'
    BY <1>24, AfterWaitType DEF CancelDone
  <2> QED
    BY <1>24, <2>1, <2>2, Frame DEF CancelDone
<1>25. CASE SignalCancel
  <2>1. ParentOK'
    BY <1>25 DEF SignalCancel, ParentOK
  <2>2. HandleOK'
    BY <1>25 DEF SignalCancel, HandleOK
  <2>4. FrontendOK'
    BY <1>25 DEF SignalCancel, FrontendOK
  <2>3. DeviceOK' /\ ReaderOK'
    BY <1>25, Frame, DrvCloseType, SignalType DEF SignalCancel, KillReader, KillGroup
  <2> QED
    BY <1>25, <2>1, <2>2, <2>3, <2>4, Frame DEF SignalCancel
<1>26. CASE SignalCancelDone
  <2>1. ParentOK' /\ FrontendOK'
    BY <1>26 DEF SignalCancelDone, AfterWait, ParentOK, FrontendOK
  <2>2. HandleOK' /\ SystemOK' /\ DeviceOK' /\ ReaderOK' /\ PipeOK'
    BY <1>26, AfterWaitType DEF SignalCancelDone
  <2> QED
    BY <1>26, <2>1, <2>2, Frame DEF SignalCancelDone
<1>27. ASSUME NEW p \in Scans, ReaderEntry(p) PROVE TypeOK'
  <2>1. ReaderOK'
    BY <1>27 DEF ReaderEntry, ReaderOK, Alive, Running, Results
  <2> QED
    BY <1>27, <2>1, Frame DEF ReaderEntry
<1>28. ASSUME NEW p \in Scans, ReaderPrepare(p) PROVE TypeOK'
  <2>1. ReaderOK'
    BY <1>28 DEF ReaderPrepare, ReaderOK, Alive, Running, Results
  <2> QED
    BY <1>28, <2>1, Frame DEF ReaderPrepare
<1>29. ASSUME NEW p \in Scans, ReaderIpc(p) PROVE TypeOK'
  <2>1. ReaderOK'
    BY <1>29 DEF ReaderIpc, ReaderOK, Alive, Running, Results
  <2>2. PipeOK'
    BY <1>29, WriteUnitType, Constants DEF ReaderIpc, ReaderOK
  <2> QED
    BY <1>29, <2>1, <2>2, Frame DEF ReaderIpc
<1>30. ASSUME NEW p \in Scans, ReaderLine(p) PROVE TypeOK'
  <2>1. line' \in [Scans -> 0 .. Lines]
    BY <1>30, SessionAssumption DEF ReaderLine, ReaderOK
  <2>2. /\ pc' \in [Scans -> Alive \cup {"none", "zombie", "reaped"}]
        /\ result' \in [Scans -> Results]
    BY <1>30 DEF ReaderLine, ReaderOK, Alive, Running, Results
  <2>3. ReaderOK'
    BY <1>30, <2>1, <2>2 DEF ReaderLine, ReaderOK
  <2> QED
    BY <1>30, <2>3, Frame DEF ReaderLine
<1>31. ASSUME NEW p \in Scans, ReaderWrite(p) PROVE TypeOK'
  <2>1. ReaderOK'
    BY <1>31 DEF ReaderWrite, ReaderOK, Alive, Running, Results
  <2>2. PipeOK'
    BY <1>31, WriteUnitType, Constants DEF ReaderWrite, ReaderOK
  <2> QED
    BY <1>31, <2>1, <2>2, Frame DEF ReaderWrite
<1>32. ASSUME NEW p \in Scans, ReaderClose(p) PROVE TypeOK'
  <2>1. ReaderOK'
    BY <1>32 DEF ReaderClose, ReaderOK, Alive, Running, Results
  <2> QED
    BY <1>32, <2>1, Frame DEF ReaderClose
<1>33. ASSUME NEW p \in Scans, ReaderExit(p) PROVE TypeOK'
  <2>1. ReaderOK'
    BY <1>33 DEF ReaderExit, ReaderOK, Alive, Running, Results
  <2> QED
    BY <1>33, <2>1, Frame DEF ReaderExit
<1>34. CASE UNCHANGED vars
  BY <1>34, Frame DEF vars
<1>35. CASE ReaderValid
  <2>1. ParentOK'
    BY <1>35 DEF ReaderValid, ParentOK
  <2> QED
    BY <1>35, <2>1, Frame DEF ReaderValid
<1>36. CASE ReadIpcFails
  <2>1. ParentOK' /\ FrontendOK' /\ HandleOK' /\ SystemOK' /\ DeviceOK' /\ ReaderOK'
    BY <1>36, DoCancelType DEF ReadIpcFails, Statuses
  <2> QED
    BY <1>36, <2>1, Frame DEF ReadIpcFails
<1> QED
  BY <1>1, <1>2, <1>3, <1>4, <1>5, <1>6, <1>7, <1>8, <1>9, <1>10, <1>11,
     <1>12, <1>13, <1>14, <1>16, <1>17, <1>18, <1>19, <1>20, <1>21,
     <1>22, <1>23, <1>24, <1>25, <1>26, <1>27, <1>28, <1>29, <1>30, <1>31,
     <1>32, <1>33, <1>34, <1>35, <1>36
     DEF Next, Calls, InsideStart, InsideRead, Reader

\* Every variable keeps its type, for every image size, pipe and number of
\* scans.
THEOREM TypeCorrect == Spec => []TypeOK
  BY TypeInit, TypeStep, PTL DEF Spec
-----------------------------------------------------------------------------
(* The session: where the frontend's process stands.                       *)

LEMMA SessionInit == Init => SessionInv /\ ProcessInv
  BY Constants
     DEF Init, SessionInv, Starting, Scanning, WaitsForReader, DeviceInUse,
     PidAssigned, InRead, Waiting, ProcessInv, Processes, KnownReader, DeviceHeld,
     Unreaped, Alive, Running

\* The part of DoCancel that the session depends on.
LEMMA DoCancelSession ==
  ASSUME TypeOK, SessionInv, NEW close, NEW r, DoCancel(close, r), sig = "none",
         at \in {"idle", "ipc", "data"}
  PROVE  SessionInv'
<1> USE DEF SessionInv, Starting, Scanning, WaitsForReader, DeviceInUse, PidAssigned,
            Waiting, InRead
<1>1. CASE reader_pid = NoPid
  BY <1>1, Constants DEF DoCancel, CancelRest, ClosePipe, DrvClose, Return
<1>2. CASE reader_pid \in Scans
  BY <1>2, Constants DEF DoCancel
<1>3. CASE reader_pid = ZeroPid
  BY <1>3, Constants DEF DoCancel
<1> QED
  BY <1>1, <1>2, <1>3 DEF TypeOK, HandleOK

\* A step of a reader process touches nothing of the session.
LEMMA ReaderLeavesSession ==
  ASSUME NEW p \in Scans, Reader(p)
  PROVE  UNCHANGED <<parent, frontend, handle, system, device>>
  BY DEF Reader, ReaderEntry, ReaderPrepare, ReaderIpc, ReaderLine, ReaderWrite,
     ReaderClose, ReaderExit

LEMMA SessionFrame ==
  ASSUME SessionInv, UNCHANGED <<at, sig, early, scanning, reader_pid, r_pipe,
                                 ipc_read_done, hw, sigalrmBlocked>>
  PROVE  SessionInv'
  BY DEF SessionInv, Starting, Scanning, WaitsForReader, DeviceInUse,
     PidAssigned, Waiting, InRead

LEMMA SessionStep ==
  ASSUME TypeOK, SessionInv, [Next]_vars
  PROVE  SessionInv'
<1> USE Constants DEF SessionInv, Starting, Scanning, WaitsForReader, DeviceInUse, PidAssigned, Waiting, InRead
<1>1. CASE SaneOpen
  BY <1>1 DEF TypeOK, HandleOK, ParentOK, SaneOpen, device
<1>2. CASE StartWhileScanning
  BY <1>2
     DEF TypeOK, HandleOK, ParentOK, StartWhileScanning, Return, handle,
         device, MayStep
<1>3. CASE StartRejected
  BY <1>3 DEF TypeOK, HandleOK, ParentOK, StartRejected, Return, handle, MayStep
<1>4. CASE SaneStart
  BY <1>4 DEF TypeOK, HandleOK, ParentOK, SaneStart, MayStep
<1>5. CASE SaneRead
  BY <1>5
     DEF TypeOK, HandleOK, ParentOK, SaneRead, frontend, handle, device, MayStep
<1>6. CASE SaneCancel
  BY <1>6, DoCancelSession DEF SaneCancel
<1>7. CASE ~scanning /\ SaneClose
  BY <1>7
     DEF TypeOK, HandleOK, ParentOK, SaneClose, ClosePipe, DrvClose, frontend
<1>8. CASE SaneSetIoMode
  BY <1>8
     DEF TypeOK, HandleOK, ParentOK, SaneSetIoMode, parent, frontend, handle,
         device, MayStep
<1>9. CASE StartWithoutPipe
  BY <1>9
     DEF TypeOK, HandleOK, ParentOK, StartWithoutPipe, Return, UsbClose, MayStep
<1>10. CASE StartReader
  <2>1. used' \in Scans
    BY <1>10, SessionAssumption DEF StartReader, TypeOK, SystemOK, Scans
  <2> QED
    BY <1>10, <2>1
       DEF TypeOK, HandleOK, ParentOK, StartReader, frontend, device, MayStep
<1>11. CASE ReaderStarted
  BY <1>11
     DEF TypeOK, HandleOK, ParentOK, ReaderStarted, Return, device, MayStep
<1>12. CASE ReaderNotStarted
  BY <1>12
     DEF TypeOK, HandleOK, ParentOK, ReaderNotStarted, Return, UsbClose, MayStep
<1>13. CASE ReadIpc
  BY <1>13 DEF TypeOK, HandleOK, ParentOK, ReadIpc, Readable, frontend, device, MayStep
<1>14. CASE ReadIpcAgain
  BY <1>14
     DEF TypeOK, HandleOK, ParentOK, ReadIpcAgain, Return, handle, device,
         MayStep
<1>16. CASE ReadIpcSpins
  BY <1>16
     DEF TypeOK, HandleOK, ParentOK, ReadIpcSpins, vars, parent, frontend,
         handle, device, MayStep
<1>17. CASE ReadAfterCancel
  BY <1>17, DoCancelSession DEF ReadAfterCancel, MayStep
<1>18. CASE ReadData
  BY <1>18
     DEF TypeOK, HandleOK, ParentOK, ReadData, Return, handle, device, MayStep
<1>19. CASE ReadAgain
  BY <1>19
     DEF TypeOK, HandleOK, ParentOK, ReadAgain, Return, handle, device, MayStep
<1>20. CASE ReadFails
  BY <1>20, DoCancelSession DEF ReadFails, MayStep
<1>21. CASE EndAfterWait
  BY <1>21
     DEF TypeOK, HandleOK, ParentOK, EndAfterWait, Return, ClosePipe,
         DrvClose, MayStep
<1>22. CASE ReadEndOfFile
  BY <1>22
     DEF TypeOK, HandleOK, ParentOK, ReadEndOfFile, frontend, handle,
         DrvClose, MayStep
<1>23. CASE EndOfScan
  BY <1>23
     DEF TypeOK, HandleOK, ParentOK, EndOfScan, Return, ClosePipe, device,
         MayStep
<1>24. CASE CancelDone
  BY <1>24
     DEF TypeOK, HandleOK, ParentOK, CancelDone, AfterWait, ClosePipe, Return,
         MayStep
<1>25. CASE SignalCancel
  BY <1>25
     DEF TypeOK, HandleOK, ParentOK, SignalCancel, Interruptible, frontend,
         device, DrvClose, MayStep
<1>26. CASE SignalCancelDone
  BY <1>26
     DEF TypeOK, HandleOK, ParentOK, SignalCancelDone, AfterWait, ClosePipe,
         MayStep
<1>27. ASSUME NEW p \in Scans, Reader(p) PROVE SessionInv'
  BY <1>27, ReaderLeavesSession, SessionFrame
     DEF parent, frontend, handle, device
<1>28. CASE UNCHANGED vars
  BY <1>28, SessionFrame DEF vars, parent, frontend, handle, device
<1>29. CASE ReaderValid
  BY <1>29
     DEF TypeOK, HandleOK, ParentOK, ReaderValid, frontend, handle, device, MayStep
<1>30. CASE ReadIpcFails
  BY <1>30, DoCancelSession DEF ReadIpcFails, MayStep
<1> QED
  BY <1>1, <1>2, <1>3, <1>4, <1>5, <1>6, <1>7, <1>8, <1>9, <1>10, <1>11,
     <1>12, <1>13, <1>14, <1>16, <1>17, <1>18, <1>19, <1>20, <1>21,
     <1>22, <1>23, <1>24, <1>25, <1>26, <1>27, <1>28, <1>29, <1>30
     DEF Next, Calls, InsideStart, InsideRead
-----------------------------------------------------------------------------
(* The processes: no step but fork makes a new one.                        *)

NoneUnreaped == \A p \in Scans : ~Unreaped(p)

\* No process starts to run, and none becomes one to wait for.
Shrinks == \A p \in Scans : /\ pc'[p] \in Running => pc[p] \in Running
                            /\ Unreaped(p)' => Unreaped(p)

LEMMA SignalShrinks ==
  ASSUME ReaderOK, NEW S, Signal(S)
  PROVE  Shrinks
  BY DEF ReaderOK, Signal, Shrinks, Unreaped, Alive, Running

LEMMA ReapShrinks ==
  ASSUME ReaderOK, NEW p \in Scans, Reap(p), UNCHANGED result
  PROVE  Shrinks /\ ~Unreaped(p)'
  BY DEF ReaderOK, Reap, Shrinks, Unreaped, Alive, Running

LEMMA KillHardShrinks ==
  ASSUME ReaderOK, NEW p \in Scans, p = reader_pid, KillHard
  PROVE  Shrinks /\ ~Unreaped(p)'
  BY DEF ReaderOK, KillHard, Shrinks, Unreaped, Alive, Running

LEMMA ReaderShrinks ==
  ASSUME ReaderOK, NEW p \in Scans, Reader(p)
  PROVE  Shrinks
<1> USE DEF ReaderOK, Shrinks, Unreaped, Alive, Running
<1>1. CASE ReaderEntry(p)
  BY <1>1 DEF ReaderEntry
<1>2. CASE ReaderPrepare(p)
  BY <1>2 DEF ReaderPrepare
<1>3. CASE ReaderIpc(p)
  BY <1>3 DEF ReaderIpc
<1>4. CASE ReaderLine(p)
  BY <1>4 DEF ReaderLine
<1>5. CASE ReaderWrite(p)
  BY <1>5 DEF ReaderWrite
<1>6. CASE ReaderClose(p)
  BY <1>6 DEF ReaderClose
<1>7. CASE ReaderExit(p)
  BY <1>7 DEF ReaderExit
<1> QED
  BY <1>1, <1>2, <1>3, <1>4, <1>5, <1>6, <1>7 DEF Reader

\* With the processes as they are, or fewer of them, and the device as it is.
LEMMA KeepsReader ==
  ASSUME Processes, Shrinks, UNCHANGED <<reader_pid, hw, sigalrmBlocked>>,
         scanning \/ Waiting => scanning' \/ Waiting', at' # "starting"
  PROVE  Processes'
  BY DEF Processes, KnownReader, DeviceHeld, Shrinks

\* Without a process to wait for, anything goes.
LEMMA NoReader ==
  ASSUME NoneUnreaped, Shrinks
  PROVE  NoneUnreaped'
  BY DEF NoneUnreaped, Shrinks

LEMMA NoneLeft ==
  ASSUME NoneUnreaped'
  PROVE  Processes'
  BY DEF NoneUnreaped, Processes, KnownReader, DeviceHeld, Unreaped,
     Alive

LEMMA SameProcesses ==
  ASSUME UNCHANGED <<pc, result>>
  PROVE  Shrinks
  BY DEF Shrinks, Unreaped

\* Between scans, and when the fork failed, there is no such process.
LEMMA Idle ==
  ASSUME TypeOK, SessionInv, Processes,
         (at \in {"idle", "closed"} /\ ~scanning) \/ reader_pid \notin Scans
  PROVE  NoneUnreaped
  BY DEF Processes, KnownReader, NoneUnreaped, SessionInv, WaitsForReader,
     Waiting, InRead

LEMMA DoCancelProcess ==
  ASSUME TypeOK, SessionInv, Processes, NEW close, NEW r, DoCancel(close, r)
  PROVE  Processes'
<1>1. CASE reader_pid \in Scans
  <2>1. Shrinks
    BY <1>1, Constants, SignalShrinks DEF DoCancel, KillReader, TypeOK
  <2> QED
    BY <1>1, <2>1, Constants, KeepsReader DEF DoCancel, Waiting, device
<1>2. CASE reader_pid \notin Scans
  <2>1. NoneUnreaped
    BY <1>2, Idle
  <2>2. Shrinks
    BY <1>2, SameProcesses, SignalShrinks DEF DoCancel, KillGroup, reader, TypeOK
  <2> QED
    BY <2>1, <2>2, NoReader, NoneLeft
<1> QED
  BY <1>1, <1>2

LEMMA AfterWaitProcess ==
  ASSUME TypeOK, SessionInv, Processes, NEW close, AfterWait(close), Waiting
  PROVE  Processes'
<1>1. PICK p \in Scans : p = reader_pid
  BY DEF SessionInv, WaitsForReader
<1>2. Shrinks /\ ~Unreaped(p)'
  BY <1>1, ReapShrinks, KillHardShrinks DEF AfterWait, TypeOK
<1>3. \A q \in Scans : Unreaped(q) => q = p
  BY <1>1 DEF Processes, KnownReader
<1>4. NoneUnreaped'
  BY <1>2, <1>3 DEF NoneUnreaped, Shrinks
<1> QED
  BY <1>4, NoneLeft

LEMMA ProcessStep ==
  ASSUME TypeOK, SessionInv, Processes, ~early, ~early', [Next]_vars
  PROVE  Processes'
<1>1. CASE SaneOpen
  <2>1. ~scanning
    BY <1>1 DEF SaneOpen, SessionInv, Scanning
  <2>2. NoneUnreaped /\ UNCHANGED <<pc, result>>
    BY <1>1, <2>1, Idle DEF SaneOpen, reader
  <2> QED
    BY <2>2, SameProcesses, NoReader, NoneLeft
<1>2. CASE StartWhileScanning
  BY <1>2, SameProcesses, KeepsReader
     DEF StartWhileScanning, Return, handle, MayStep, device, reader, Waiting
<1>3. CASE StartRejected
  <2>1. NoneUnreaped /\ UNCHANGED <<pc, result>>
    BY <1>3, Idle DEF StartRejected, reader
  <2> QED
    BY <2>1, SameProcesses, NoReader, NoneLeft
<1>4. CASE SaneStart
  <2>1. NoneUnreaped /\ UNCHANGED <<pc, result>>
    BY <1>4, Idle DEF SaneStart, reader
  <2> QED
    BY <2>1, SameProcesses, NoReader, NoneLeft
<1>5. CASE SaneRead
  BY <1>5, SameProcesses, KeepsReader
     DEF SaneRead, handle, MayStep, device, reader, Waiting
<1>6. CASE SaneCancel
  BY <1>6, DoCancelProcess DEF SaneCancel
<1>7. CASE ~scanning /\ SaneClose
  <2>1. NoneUnreaped /\ UNCHANGED <<pc, result>>
    BY <1>7, Idle DEF SaneClose, reader
  <2> QED
    BY <2>1, SameProcesses, NoReader, NoneLeft
<1>8. CASE SaneSetIoMode
  BY <1>8, SameProcesses, KeepsReader
     DEF SaneSetIoMode, parent, handle, MayStep, device, reader, Waiting
<1>9. CASE StartWithoutPipe
  <2>1. NoneUnreaped /\ UNCHANGED <<pc, result>>
    BY <1>9 DEF StartWithoutPipe, reader, Processes, KnownReader, NoneUnreaped
  <2> QED
    BY <2>1, SameProcesses, NoReader, NoneLeft
<1>10. CASE StartReader
  <2>1. NoneUnreaped /\ scanning
    BY <1>10
       DEF StartReader, Processes, KnownReader, NoneUnreaped, SessionInv,
           Starting
  <2>2. hw = "open" /\ sigalrmBlocked
    BY <1>10 DEF StartReader, SessionInv, Starting
  <2>3. CASE UNCHANGED pc
    BY <1>10, <2>1, <2>3, SameProcesses, NoReader, NoneLeft DEF StartReader
  <2>4. CASE reader_pid' = used' /\ pc' = [pc EXCEPT ![used'] = "entry"]
    <3>1. \A p \in Scans : p # used' => pc'[p] = pc[p] /\ result'[p] = result[p]
      BY <1>10, <2>4 DEF StartReader, TypeOK, ReaderOK
    <3>2. \A p \in Scans : p # used' => ~Unreaped(p)' /\ pc'[p] \notin Running
      BY <2>1, <3>1 DEF NoneUnreaped, Unreaped, Alive
    <3> QED
      BY <1>10, <2>1, <2>2, <2>4, <3>2
         DEF StartReader, device, Processes, KnownReader, DeviceHeld
  <2> QED
    BY <1>10, <2>3, <2>4 DEF StartReader
<1>11. CASE ReaderStarted
  BY <1>11, SameProcesses, KeepsReader
     DEF ReaderStarted, Return, MayStep, device, reader, Waiting
<1>12. CASE ReaderNotStarted
  <2>1. NoneUnreaped /\ UNCHANGED <<pc, result>>
    BY <1>12, Constants, Idle DEF ReaderNotStarted, reader
  <2> QED
    BY <2>1, SameProcesses, NoReader, NoneLeft
<1>13. CASE ReadIpc
  BY <1>13, SameProcesses, KeepsReader
     DEF ReadIpc, MayStep, device, reader, Waiting
<1>14. CASE ReadIpcAgain
  BY <1>14, SameProcesses, KeepsReader
     DEF ReadIpcAgain, Return, handle, MayStep, device, reader, Waiting
<1>16. CASE ReadIpcSpins
  BY <1>16, SameProcesses, KeepsReader
     DEF ReadIpcSpins, vars, parent, handle, device, reader, Waiting
<1>17. CASE ReadAfterCancel
  BY <1>17, DoCancelProcess DEF ReadAfterCancel
<1>18. CASE ReadData
  BY <1>18, SameProcesses, KeepsReader
     DEF ReadData, Return, handle, MayStep, device, reader, Waiting
<1>19. CASE ReadAgain
  BY <1>19, SameProcesses, KeepsReader
     DEF ReadAgain, Return, handle, MayStep, device, reader, Waiting
<1>20. CASE ReadFails
  BY <1>20, DoCancelProcess DEF ReadFails
<1>21. CASE EndAfterWait
  <2>1. CASE reader_pid \in Scans
    <3>1. PICK p \in Scans : p = reader_pid
      BY <2>1
    <3>2. Shrinks /\ ~Unreaped(p)'
      BY <1>21, <3>1, Constants, ReapShrinks DEF EndAfterWait, TypeOK
    <3>3. \A q \in Scans : Unreaped(q) => q = p
      BY <3>1 DEF Processes, KnownReader
    <3> QED
      BY <3>2, <3>3, NoneLeft DEF NoneUnreaped, Shrinks
  <2>2. CASE reader_pid \notin Scans
    <3>1. NoneUnreaped
      BY <2>2, Idle
    <3>2. Shrinks
      BY <1>21, <2>2, SameProcesses, ReapShrinks DEF EndAfterWait, TypeOK
    <3> QED
      BY <3>1, <3>2, NoReader, NoneLeft
  <2> QED
    BY <2>1, <2>2
<1>22. CASE ReadEndOfFile
  <2>1. \A p \in Scans : pc[p] \notin Running
    <3>1. r_pipe = reader_pid /\ r_pipe \in Scans
      BY <1>22 DEF ReadEndOfFile, EndOfFile, MayStep, SessionInv, Scanning
    <3>2. pc[r_pipe] \notin Running
      BY <1>22 DEF ReadEndOfFile, EndOfFile, HasWriter
    <3> QED
      BY <3>1, <3>2 DEF Processes, DeviceHeld
  <2>2. UNCHANGED <<pc, result>>
    BY <1>22 DEF ReadEndOfFile, reader
  <2>3. DeviceHeld'
    BY <2>1, <2>2 DEF DeviceHeld
  <2>4. KnownReader'
    BY <1>22, <2>2
       DEF ReadEndOfFile, handle, Processes, KnownReader, Unreaped, MayStep,
           Waiting
  <2> QED
    BY <2>3, <2>4 DEF Processes
<1>23. CASE EndOfScan
  <2>1. CASE UNCHANGED <<reader_pid, scanning>>
    <3>1. Shrinks
      BY <1>23, SameProcesses, ReapShrinks DEF EndOfScan, TypeOK
    <3> QED
      BY <1>23, <2>1, <3>1, KeepsReader
         DEF EndOfScan, Return, MayStep, Waiting, device
  <2>2. CASE reader_pid \in Scans /\ Reap(reader_pid)
    <3>1. PICK p \in Scans : p = reader_pid
      BY <2>2
    <3>2. Shrinks /\ ~Unreaped(p)'
      BY <1>23, <2>2, <3>1, ReapShrinks DEF EndOfScan, TypeOK
    <3>3. \A q \in Scans : Unreaped(q) => q = p
      BY <3>1 DEF Processes, KnownReader
    <3> QED
      BY <3>2, <3>3, NoneLeft DEF NoneUnreaped, Shrinks
  <2> QED
    BY <1>23, <2>1, <2>2 DEF EndOfScan
<1>24. CASE CancelDone
  BY <1>24, AfterWaitProcess DEF CancelDone, Waiting
<1>25. CASE SignalCancel
  <2>1. CASE reader_pid \in Scans
    <3>1. Shrinks
      BY <1>25, <2>1, Constants, SignalShrinks DEF SignalCancel, KillReader, TypeOK
    <3>2. at' # "starting"
      BY <1>25, <2>1, Constants DEF SignalCancel, Interruptible, InRead
    <3> QED
      BY <1>25, <2>1, <3>1, <3>2, Constants, KeepsReader
         DEF SignalCancel, Waiting, device
  <2>2. CASE reader_pid \notin Scans
    <3>1. NoneUnreaped
      BY <2>2, Idle
    <3>2. Shrinks
      BY <1>25, <2>2, SameProcesses, SignalShrinks
         DEF SignalCancel, KillGroup, reader, TypeOK
    <3> QED
      BY <3>1, <3>2, NoReader, NoneLeft
  <2> QED
    BY <2>1, <2>2
<1>26. CASE SignalCancelDone
  BY <1>26, AfterWaitProcess DEF SignalCancelDone, Waiting
<1>27. ASSUME NEW p \in Scans, Reader(p) PROVE Processes'
  <2>1. Shrinks
    BY <1>27, ReaderShrinks DEF TypeOK
  <2>2. UNCHANGED <<at, sig, scanning, reader_pid, hw, sigalrmBlocked>>
    BY <1>27, ReaderLeavesSession DEF parent, handle, device
  <2>3. at = "starting" => NoneUnreaped'
    BY <2>1 DEF Processes, KnownReader, NoneUnreaped, Shrinks
  <2> QED
    BY <2>1, <2>2, <2>3, NoneLeft, KeepsReader DEF Waiting
<1>28. CASE UNCHANGED vars
  <2>1. UNCHANGED <<at, sig, scanning, reader_pid, hw, sigalrmBlocked, pc, result>>
    BY <1>28 DEF vars, parent, handle, device, reader
  <2>2. at = "starting" => NoneUnreaped'
    BY <2>1, SameProcesses, NoReader DEF Processes, KnownReader, NoneUnreaped
  <2> QED
    BY <2>1, <2>2, SameProcesses, NoneLeft, KeepsReader DEF Waiting
<1>29. CASE ReaderValid
  BY <1>29, SameProcesses, KeepsReader
     DEF ReaderValid, handle, MayStep, device, reader, Waiting
<1>30. CASE ReadIpcFails
  BY <1>30, DoCancelProcess DEF ReadIpcFails
<1> QED
  BY <1>1, <1>2, <1>3, <1>4, <1>5, <1>6, <1>7, <1>8, <1>9, <1>10, <1>11,
     <1>12, <1>13, <1>14, <1>16, <1>17, <1>18, <1>19, <1>20, <1>21,
     <1>22, <1>23, <1>24, <1>25, <1>26, <1>27, <1>28, <1>29, <1>30
     DEF Next, Calls, InsideStart, InsideRead
-----------------------------------------------------------------------------
(* The theorems.                                                           *)

\* What was cancelled too early stays so.
LEMMA EarlyStays ==
  ASSUME [Next]_vars, early
  PROVE  early'
<1>1. CASE SignalCancel
  BY <1>1 DEF SignalCancel
<1>2. CASE \E p \in Scans : Reader(p)
  BY <1>2, ReaderLeavesSession DEF frontend
<1>3. CASE Calls \/ InsideStart
  BY <1>3 DEF Calls, SaneOpen, StartWhileScanning, StartRejected, SaneStart, SaneRead,
              SaneCancel, SaneClose, SaneSetIoMode, DoCancel, InsideStart,
              StartWithoutPipe, StartReader, ReaderValid, ReaderStarted,
              ReaderNotStarted, frontend
<1>4. CASE InsideRead \/ CancelDone \/ SignalCancelDone
  BY <1>4 DEF InsideRead, ReadIpc, ReadIpcFails, ReadIpcAgain, ReadIpcSpins,
              ReadAfterCancel, ReadData, ReadAgain, ReadFails, EndAfterWait,
              ReadEndOfFile, EndOfScan, DoCancel, CancelDone, SignalCancelDone,
              AfterWait, frontend, vars
<1> QED
  BY <1>1, <1>2, <1>3, <1>4 DEF Next, vars, frontend

LEMMA Invariance == Spec => []Inv
<1>1. Init => Inv
  BY TypeInit, SessionInit DEF Inv
<1>2. Inv /\ [Next]_vars => Inv'
  <2> SUFFICES ASSUME Inv, [Next]_vars PROVE Inv'
    OBVIOUS
  <2>1. TypeOK' /\ SessionInv'
    BY TypeStep, SessionStep DEF Inv
  <2>2. early => early'
    BY EarlyStays DEF Inv
  <2>3. ProcessInv'
    BY <2>2, ProcessStep DEF Inv, ProcessInv
  <2> QED
    BY <2>1, <2>3 DEF Inv
<1> QED
  BY <1>1, <1>2, PTL DEF Spec

\* drvclose never takes the device from under a reader process, and there are
\* never two of them, as long as no signal handler cancels inside sane_start
\* before its reader is known; a handler may cancel anywhere else.
THEOREM ReaderHoldsDeviceAlways == Spec => []ReaderHoldsDevice
<1>1. Inv => ReaderHoldsDevice
  BY DEF Inv, ProcessInv, Processes, ReaderHoldsDevice
<1> QED
  BY <1>1, Invariance, PTL

\* Whatever ended a scan, between scans the device is closed and no reader
\* process is left, the latter unless sane_start was cancelled too early.
THEOREM SessionAlwaysCleared == Spec => []SessionCleared
<1>1. Inv => SessionCleared
  <2> SUFFICES ASSUME Inv, Settled PROVE SessionCleared
    BY DEF SessionCleared
  <2>1. ~early => NoneUnreaped
    BY Idle DEF Inv, ProcessInv, Settled
  <2>2. hw # "open"
    BY DEF Inv, Settled, SessionInv, DeviceInUse, WaitsForReader, Waiting,
       InRead
  <2> QED
    BY <2>1, <2>2
       DEF NoneUnreaped, Unreaped, SessionCleared, Inv, TypeOK, ReaderOK
<1> QED
  BY <1>1, Invariance, PTL

LEMMA DoCancelSpares ==
  ASSUME NEW close, NEW r, DoCancel(close, r), SignalsOwnGroup
  PROVE  reader_pid = ZeroPid
  BY DEF DoCancel, Return, SignalsOwnGroup

\* do_cancel has a reader_pid that some sane_start assigned, except in the two
\* places CancelSparesOwnGroup names, whenever and however often handlers
\* cancel.
THEOREM CancelAlwaysSparesOwnGroup == Spec => CancelSparesOwnGroup
<1> DEFINE Where == \/ at = "starting" /\ scanning
                    \/ at = "ipc" /\ ~scanning /\ r_pipe = NoFd
<1>1. Inv /\ [Next]_vars => [SignalsOwnGroup => Where]_vars
  <2> SUFFICES ASSUME Inv, Next, SignalsOwnGroup PROVE Where
    OBVIOUS
  <2> USE Constants DEF Inv, SessionInv, Scanning, PidAssigned
  <2>1. CASE SaneCancel
    BY <2>1, DoCancelSpares DEF SaneCancel
  <2>2. CASE ReadIpcFails
    BY <2>2, DoCancelSpares DEF ReadIpcFails
  <2>3. CASE ReadAfterCancel
    BY <2>3, DoCancelSpares DEF ReadAfterCancel
  <2>4. CASE ReadFails
    BY <2>4, DoCancelSpares DEF ReadFails
  <2>5. CASE SignalCancel
    BY <2>5 DEF SignalCancel, SignalsOwnGroup, Interruptible, InRead, Starting
  <2>6. ASSUME NEW p \in Scans, Reader(p) PROVE at' = at
    BY <2>6, ReaderLeavesSession DEF parent
  <2>7. CASE Calls /\ ~SaneCancel
    BY <2>7 DEF Calls, SaneOpen, StartWhileScanning, StartRejected, SaneStart, SaneRead,
                SaneClose, SaneSetIoMode, Return, parent, SignalsOwnGroup
  <2>8. CASE InsideStart
    BY <2>8 DEF InsideStart, StartWithoutPipe, StartReader, ReaderValid, ReaderStarted,
                ReaderNotStarted, Return, SignalsOwnGroup
  <2>9. CASE InsideRead /\ ~(ReadIpcFails \/ ReadAfterCancel \/ ReadFails)
    BY <2>9 DEF InsideRead, ReadIpc, ReadIpcAgain, ReadIpcSpins, ReadData, ReadAgain,
                EndAfterWait, ReadEndOfFile, EndOfScan, Return, vars, parent,
                SignalsOwnGroup
  <2>10. CASE CancelDone \/ SignalCancelDone
    BY <2>10 DEF CancelDone, SignalCancelDone, Return, SignalsOwnGroup
  <2> QED
    BY <2>1, <2>2, <2>3, <2>4, <2>5, <2>6, <2>7, <2>8, <2>9, <2>10
       DEF Next, SignalsOwnGroup
<1> QED
  BY <1>1, Invariance, PTL DEF Spec, CancelSparesOwnGroup
-----------------------------------------------------------------------------
(* The picture: what the reader has written, what is in the pipe and what  *)
(* the frontend has read.  Unit 0 is the IPC record, unit i is line i.     *)

\* Units the reader of scan p has put into its pipe, as long as it is read.
Written(p) == IF pc[p] \in {"none", "entry", "prepare", "ipc"} THEN 0
              ELSE IF pc[p] = "write" THEN line[p] ELSE line[p] + 1

Taken == IF ipc_read_done THEN Len(image) + 1 ELSE 0

\* Of the pipes not made yet, nothing was used.
Fresh == /\ \A p \in Scans : used < p => /\ pc[p] = "none" /\ line[p] = 0
                                         /\ pipe[p] = <<>>
         /\ reader_pid <= used /\ r_pipe <= used

Pictured == /\ Len(image) <= Lines
            /\ \A i \in 1 .. Len(image) : image[i] = i
            /\ at = "starting" \/ ~ipc_read_done => image = <<>>
            /\ at = "wait_end" => Len(image) = Lines

\* During a scan the pipe holds what was written and not taken yet.
Streaming == scanning /\ at # "starting" /\ r_pipe \in Scans
Streamed ==
  Streaming =>
    /\ <<"r", r_pipe>> \in fds
    /\ Len(pipe[r_pipe]) = Written(r_pipe) - Taken
    /\ \A j \in 1 .. Len(pipe[r_pipe]) : pipe[r_pipe][j] = Taken + j - 1
    /\ pc[r_pipe] \in {"none", "entry", "prepare", "ipc"} => line[r_pipe] = 0
    /\ pc[r_pipe] \in {"close", "exit", "zombie"} /\ result[r_pipe] = "ok" =>
         line[r_pipe] = Lines

\* Where sane_read is, and what it has seen.
ReadSoFar ==
  /\ at = "ipc" => ~ipc_read_done
  /\ at \in {"data", "status"} => ipc_read_done
  /\ at = "status" /\ scanning =>
       /\ r_pipe \in Scans /\ pipe[r_pipe] = <<>>
       /\ pc[r_pipe] \notin Running \cup {"close"}
  /\ at = "waitpid" => cont.ret \in {ret, "CANCELLED", "IO_ERROR"}

FlowInv == Fresh /\ Pictured /\ Streamed /\ ReadSoFar

LEMMA FlowInit == Init => FlowInv
  BY SessionAssumption, Constants
      DEF Init, FlowInv, Fresh, Pictured, Streamed, Streaming, ReadSoFar,
          NoPid, ZeroPid, NoFd

\* What a step of anybody leaves alone of the pipes not made yet.
LEMMA FreshKept ==
  ASSUME TypeOK, Fresh, used' = used,
         reader_pid' \in {reader_pid, NoPid, ZeroPid}, r_pipe' \in {r_pipe, NoFd},
         \A p \in Scans : used < p => /\ pc'[p] = pc[p] /\ line'[p] = line[p]
                                      /\ pipe'[p] = pipe[p]
  PROVE  Fresh'
<1>1. used \in Nat
  BY SessionAssumption DEF TypeOK, SystemOK
<1> QED
  BY <1>1 DEF Fresh, NoPid, ZeroPid, NoFd

\* A scan goes on and its pipe is as it was.
LEMMA StreamedKept ==
  ASSUME Streamed,
         Streaming' => /\ Streaming
                       /\ UNCHANGED <<r_pipe, ipc_read_done, image>>
                       /\ <<"r", r_pipe>> \in fds => <<"r", r_pipe>> \in fds'
                       /\ pipe'[r_pipe] = pipe[r_pipe] /\ line'[r_pipe] = line[r_pipe]
                       /\ pc'[r_pipe] = pc[r_pipe] /\ result'[r_pipe] = result[r_pipe]
  PROVE  Streamed'
<1> SUFFICES ASSUME Streaming' PROVE Streamed'
  BY DEF Streamed
<1>1. Written(r_pipe)' = Written(r_pipe) /\ Taken' = Taken
  BY DEF Written, Taken
<1> QED
  BY <1>1 DEF Streamed

LEMMA OverStreamed == ~scanning' => Streamed'
  BY DEF Streamed, Streaming

\* A step of the frontend's process that moves no line and ends no scan.
LEMMA FlowKept ==
  ASSUME TypeOK, FlowInv,
         UNCHANGED <<image, scanning, reader_pid, r_pipe, ipc_read_done, fds, used,
                     pc, line, result, pipe>>,
         \/ at # "starting" /\ at' = "idle"
         \/ at = "idle" /\ at' = IF ipc_read_done THEN "data" ELSE "ipc"
         \/ UNCHANGED <<at, cont, ret>>
  PROVE  FlowInv'
<1>1. Fresh'
  BY FreshKept DEF FlowInv
<1>2. Pictured' /\ ReadSoFar'
  BY DEF FlowInv, Pictured, ReadSoFar
<1>3. Streamed'
  BY StreamedKept DEF FlowInv, Streaming
<1> QED
  BY <1>1, <1>2, <1>3 DEF FlowInv

\* A step that ends the scan, or takes place behind its end.
LEMMA FlowOver ==
  ASSUME TypeOK, FlowInv, ~scanning', UNCHANGED <<image, ipc_read_done, used, line>>,
         reader_pid' \in {reader_pid, NoPid, ZeroPid}, r_pipe' \in {r_pipe, NoFd},
         \A p \in Scans : used < p => pc'[p] = pc[p] /\ pipe'[p] = pipe[p],
         \/ at' \in {"idle", "closed", "dead"}
         \/ at' = "waitpid" /\ cont'.ret \in {ret', "CANCELLED", "IO_ERROR"}
         \/ UNCHANGED <<at, cont, ret>>
  PROVE  FlowInv'
<1>1. Fresh'
  BY FreshKept DEF FlowInv
<1>2. Pictured' /\ ReadSoFar'
  BY DEF FlowInv, Pictured, ReadSoFar
<1> QED
  BY <1>1, <1>2, OverStreamed DEF FlowInv

\* The process numbers in use.
LEMMA InUse ==
  ASSUME TypeOK, FlowInv
  PROVE  /\ used \in Nat
         /\ reader_pid \in Scans => ~(used < reader_pid)
         /\ r_pipe \in Scans => ~(used < r_pipe)
         /\ \A p \in Scans : pc[p] # "none" => ~(used < p)
<1>1. used \in Nat /\ Scans \subseteq Nat
  BY SessionAssumption DEF TypeOK, SystemOK, Scans
<1>2. \A p \in Scans : used < p => pc[p] = "none"
  BY DEF FlowInv, Fresh
<1>3. reader_pid <= used /\ r_pipe <= used
  BY DEF FlowInv, Fresh
<1>4. \A p \in Scans : p <= used => ~(used < p)
  BY <1>1
<1> QED
  BY <1>1, <1>2, <1>3, <1>4

LEMMA KillFlow ==
  ASSUME TypeOK, FlowInv, \/ reader_pid \in Scans /\ KillHard
                          \/ KillReader \/ KillGroup
  PROVE  \A p \in Scans : used < p => pc'[p] = pc[p]
<1>1. CASE reader_pid \in Scans /\ KillHard
  BY <1>1, InUse DEF KillHard, TypeOK, ReaderOK
<1>2. ASSUME NEW S, Signal(S) PROVE \A p \in Scans : used < p => pc'[p] = pc[p]
  BY <1>2 DEF Signal, FlowInv, Fresh
<1> QED
  BY <1>1, <1>2 DEF KillReader, KillGroup

LEMMA DoCancelFlow ==
  ASSUME TypeOK, FlowInv, NEW close, NEW r, DoCancel(close, r),
         r \in {ret, "CANCELLED", "IO_ERROR"},
         \A p \in Scans : used < p => pipe'[p] = pipe[p]
  PROVE  FlowInv'
<1>1. CASE reader_pid = NoPid
  <2>1. r_pipe' \in {r_pipe, NoFd}
    BY <1>1, Constants DEF DoCancel, CancelRest, ClosePipe
  <2> QED
    BY <1>1, <2>1, FlowOver, Constants DEF DoCancel, Return, reader
<1>2. CASE reader_pid \in Scans
   <2>1. /\ KillReader /\ at' = "waitpid" /\ cont'.ret = r
         /\ UNCHANGED <<r_pipe, ret>>
    BY <1>2, Constants DEF DoCancel
  <2>2. UNCHANGED <<image, ipc_read_done, used, line, reader_pid>> /\ ~scanning'
    BY <2>1 DEF DoCancel, KillReader, Signal
  <2> QED
    BY <1>2, <2>1, <2>2, FlowOver, KillFlow
<1>3. CASE reader_pid = ZeroPid
  <2>1. /\ KillGroup /\ at' = "dead"
        /\ UNCHANGED <<r_pipe, image, ipc_read_done, used, line, reader_pid>> /\ ~scanning'
    BY <1>3, Constants DEF DoCancel, KillGroup, Signal
  <2> QED
    BY <2>1, FlowOver, KillFlow
<1> QED
  BY <1>1, <1>2, <1>3 DEF TypeOK, HandleOK

LEMMA ReapFlow ==
  ASSUME TypeOK, FlowInv, NEW p \in Scans, pc[p] # "none", Reap(p)
  PROVE  \A q \in Scans : used < q => pc'[q] = pc[q]
  BY InUse DEF Reap, TypeOK, ReaderOK

LEMMA AfterWaitFlow ==
  ASSUME TypeOK, FlowInv, ~scanning, reader_pid \in Scans, NEW close, AfterWait(close),
         at' = "idle" \/ UNCHANGED <<at, cont, ret>>
  PROVE  FlowInv'
<1>1. \A q \in Scans : used < q => pc'[q] = pc[q]
  <2>1. CASE Gone /\ Reap(reader_pid)
    BY <2>1, ReapFlow DEF Gone
  <2>2. CASE KillHard
    BY <2>2, KillFlow
  <2> QED
    BY <2>1, <2>2 DEF AfterWait
<1>2. r_pipe' \in {r_pipe, NoFd}
  BY DEF AfterWait, ClosePipe
<1> QED
  BY <1>1, <1>2, FlowOver DEF AfterWait

\* Taking units from the front of the pipe.
LEMMA TakenFrom ==
  ASSUME PipeOK, r_pipe \in Scans, NEW n \in 1 .. Len(pipe[r_pipe]), TakeUnits(n)
  PROVE  /\ \A p \in Scans : p # r_pipe => pipe'[p] = pipe[p]
         /\ Len(pipe'[r_pipe]) = Len(pipe[r_pipe]) - n
         /\ \A j \in 1 .. Len(pipe[r_pipe]) - n : pipe'[r_pipe][j] = pipe[r_pipe][n + j]
<1> DEFINE s == pipe[r_pipe]
<1>1. s \in Seq(0 .. Lines) /\ Len(s) \in Nat
  BY DEF PipeOK
<1>2. /\ pipe'[r_pipe] = SubSeq(s, n + 1, Len(s))
      /\ \A p \in Scans : p # r_pipe => pipe'[p] = pipe[p]
  BY DEF TakeUnits, PipeOK
<1>3. /\ Len(SubSeq(s, n + 1, Len(s))) = Len(s) - n
      /\ \A j \in 1 .. Len(s) - n : SubSeq(s, n + 1, Len(s))[j] = s[n + j]
  BY <1>1
<1> QED
  BY <1>2, <1>3

LEMMA TakingKeepsFresh ==
   ASSUME TypeOK, FlowInv, r_pipe \in Scans,
          NEW n \in 1 .. Len(pipe[r_pipe]), TakeUnits(n)
  PROVE  \A p \in Scans : used < p => pipe'[p] = pipe[p]
  BY InUse, TakenFrom DEF TypeOK

LEMMA PipeRead ==
  ASSUME TypeOK, Readable
  PROVE  /\ r_pipe \in Scans /\ pipe[r_pipe] \in Seq(0 .. Lines)
         /\ Len(pipe[r_pipe]) \in Nat \ {0}
<1>1. r_pipe \in Scans /\ pipe[r_pipe] # <<>>
  BY DEF Readable, TypeOK, HandleOK
<1>2. pipe[r_pipe] \in Seq(0 .. Lines)
  BY <1>1 DEF TypeOK, PipeOK
<1> QED
  BY <1>1, <1>2

LEMMA ReadIpcFlow ==
  ASSUME TypeOK, FlowInv, ReadIpc
  PROVE  FlowInv'
<1>1. r_pipe \in Scans /\ 1 \in 1 .. Len(pipe[r_pipe]) /\ TakeUnits(1)
  BY PipeRead DEF ReadIpc
<1>2. Fresh'
  BY <1>1, FreshKept, TakingKeepsFresh DEF ReadIpc, reader, system, FlowInv
<1>3. Pictured' /\ ReadSoFar'
  BY DEF FlowInv, Pictured, ReadSoFar, ReadIpc, frontend
<1>4. Streamed'
  <2> SUFFICES ASSUME Streaming' PROVE Streamed'
    BY DEF Streamed
  <2>1. Streaming /\ UNCHANGED <<r_pipe, image, fds, pc, line, result>>
    BY <1>1 DEF ReadIpc, Streaming, reader, system, frontend
  <2>2. Taken = 0 /\ Taken' = 1
    BY DEF ReadIpc, FlowInv, ReadSoFar, Pictured, Taken, frontend
  <2>3. Written(r_pipe)' = Written(r_pipe)
    BY <2>1 DEF Written
  <2>4. /\ Len(pipe'[r_pipe]) = Len(pipe[r_pipe]) - 1
        /\ \A j \in 1 .. Len(pipe[r_pipe]) - 1 : pipe'[r_pipe][j] = pipe[r_pipe][1 + j]
    BY <1>1, TakenFrom DEF TypeOK
  <2>5. Len(pipe[r_pipe]) \in Nat /\ Written(r_pipe) \in Nat
    BY <1>1, PipeRead, SessionAssumption DEF ReadIpc, TypeOK, ReaderOK, Written
  <2>6. /\ Len(pipe[r_pipe]) = Written(r_pipe)
        /\ \A j \in 1 .. Len(pipe[r_pipe]) : pipe[r_pipe][j] = j - 1
    BY <2>1, <2>2, <2>5 DEF FlowInv, Streamed
  <2>7. /\ Len(pipe'[r_pipe]) = Written(r_pipe)' - Taken'
        /\ \A j \in 1 .. Len(pipe'[r_pipe]) : pipe'[r_pipe][j] = Taken' + j - 1
    BY <2>2, <2>3, <2>4, <2>5, <2>6
  <2> QED
    BY <2>1, <2>7 DEF FlowInv, Streamed
<1> QED
  BY <1>2, <1>3, <1>4 DEF FlowInv

\* What sane_read hands over are the next lines of the picture.
LEMMA NextLines ==
  ASSUME TypeOK, FlowInv, Streaming, ipc_read_done, NEW n \in 1 .. Len(pipe[r_pipe])
  PROVE  /\ image \o SubSeq(pipe[r_pipe], 1, n) = [i \in 1 .. Len(image) + n |-> i]
         /\ Len(image) \in Nat /\ Len(image) + n <= Lines
<1> DEFINE q == pipe[r_pipe]
           c == SubSeq(q, 1, n)
           s == image \o c
<1>1. q \in Seq(0 .. Lines) /\ Len(q) \in Nat
  BY DEF TypeOK, PipeOK, Streaming
<1>2. image \in Seq(0 .. Lines) /\ Len(image) \in Nat
  BY DEF TypeOK, FrontendOK
<1>3. /\ Len(q) = Written(r_pipe) - (Len(image) + 1)
      /\ \A j \in 1 .. Len(q) : q[j] = Len(image) + 1 + j - 1
  BY DEF FlowInv, Streamed, Taken
<1>4. Written(r_pipe) <= Lines + 1 /\ Written(r_pipe) \in Nat
  BY SessionAssumption DEF Written, TypeOK, ReaderOK, Streaming
<1>5. c \in Seq(0 .. Lines) /\ Len(c) = n /\ \A j \in 1 .. n : c[j] = q[j]
  <2>1. \A i \in 1 .. Len(q) : q[i] \in 0 .. Lines
    BY <1>1, ElementOfSeq
  <2> QED
    BY <1>1, <2>1, SubSeqProperties
<1>6. \A i \in 1 .. Len(image) : image[i] = i
  BY DEF FlowInv, Pictured
<1>7. n \in 1 .. Len(q)
  OBVIOUS
<1> HIDE DEF q, c
<1>8. s \in Seq(0 .. Lines) /\ Len(s) = Len(image) + n
  BY <1>2, <1>5
<1>9. ASSUME NEW i \in 1 .. Len(image) + n
      PROVE  s[i] = i
  <2>1. CASE i <= Len(image)
    BY <1>2, <1>5, <1>6, <2>1
  <2>2. CASE i > Len(image)
    <3>1. i - Len(image) \in 1 .. n /\ i - Len(image) \in 1 .. Len(q)
      BY <1>1, <1>2, <1>7, <2>2
    <3>2. s[i] = c[i - Len(image)]
      BY <1>2, <1>5, <2>2
    <3> QED
      BY <1>2, <1>3, <1>5, <3>1, <3>2
  <2>3. i <= Len(image) \/ i > Len(image)
    BY <1>1, <1>2, <1>7
  <2> QED
    BY <2>1, <2>2, <2>3
<1>10. s = [i \in 1 .. Len(image) + n |-> i]
  <2> HIDE DEF s
  <2>1. s = [i \in 1 .. Len(s) |-> s[i]]
    BY <1>8
  <2> QED
    BY <1>8, <1>9, <2>1
<1>11. Len(image) + n <= Lines
  BY <1>1, <1>2, <1>3, <1>4, <1>7, SessionAssumption
<1> QED
  BY <1>2, <1>10, <1>11 DEF q, c

LEMMA ReadDataFlow ==
  ASSUME TypeOK, SessionInv, FlowInv, ReadData
  PROVE  FlowInv'
<1>1. PICK n \in 1 .. Len(pipe[r_pipe]) :
        TakeUnits(n) /\ image' = image \o SubSeq(pipe[r_pipe], 1, n)
  BY DEF ReadData
<1>2. r_pipe \in Scans /\ Streaming /\ ipc_read_done
  BY PipeRead DEF ReadData, Streaming, FlowInv, ReadSoFar
<1>3. /\ image' = [i \in 1 .. Len(image) + n |-> i] /\ Len(image) \in Nat
      /\ Len(image) + n <= Lines
  BY <1>1, <1>2, NextLines
<1>7. Len(image') = Len(image) + n /\ \A i \in 1 .. Len(image') : image'[i] = i
  BY <1>3
<1>4. Fresh'
   BY <1>1, <1>2, FreshKept, TakingKeepsFresh
      DEF ReadData, reader, system, handle, FlowInv
<1>5. Pictured' /\ ReadSoFar'
  BY <1>2, <1>3, <1>7 DEF Pictured, ReadSoFar, ReadData, handle, Return
<1>6. Streamed'
  <2>1. UNCHANGED <<r_pipe, ipc_read_done, fds, pc, line, result>>
    BY DEF ReadData, handle, system, reader
  <2>2. Taken = Len(image) + 1 /\ Taken' = Len(image) + n + 1
    BY <1>2, <1>7, <2>1 DEF Taken
  <2>3. Written(r_pipe)' = Written(r_pipe)
    BY <2>1 DEF Written
  <2>4. /\ Len(pipe'[r_pipe]) = Len(pipe[r_pipe]) - n
        /\ \A j \in 1 .. Len(pipe[r_pipe]) - n : pipe'[r_pipe][j] = pipe[r_pipe][n + j]
    BY <1>1, <1>2, TakenFrom DEF TypeOK
  <2>5. Len(pipe[r_pipe]) \in Nat /\ Written(r_pipe) \in Nat
    BY <1>2, PipeRead, SessionAssumption DEF ReadData, TypeOK, ReaderOK, Written
  <2>6. /\ Len(pipe[r_pipe]) = Written(r_pipe) - Taken
        /\ \A j \in 1 .. Len(pipe[r_pipe]) : pipe[r_pipe][j] = Taken + j - 1
    BY <1>2 DEF FlowInv, Streamed
  <2>7. Len(pipe'[r_pipe]) = Written(r_pipe)' - Taken'
    BY <1>3, <2>2, <2>3, <2>4, <2>5, <2>6
  <2>8. ASSUME NEW j \in 1 .. Len(pipe[r_pipe]) - n
        PROVE  pipe'[r_pipe][j] = Taken' + j - 1
    <3>1. n + j \in 1 .. Len(pipe[r_pipe])
      BY <2>5
    <3>2. pipe'[r_pipe][j] = pipe[r_pipe][n + j]
      BY <2>4
    <3>3. pipe[r_pipe][n + j] = Taken + (n + j) - 1
      BY <2>6, <3>1
    <3>4. Len(image) \in Nat
      BY <1>3
    <3> QED
      BY <2>2, <2>5, <3>2, <3>3, <3>4
  <2> QED
    BY <1>2, <2>1, <2>4, <2>7, <2>8 DEF FlowInv, Streamed
<1> QED
  BY <1>4, <1>5, <1>6 DEF FlowInv

LEMMA StartReaderFlow ==
  ASSUME TypeOK, FlowInv, StartReader
  PROVE  FlowInv'
<1>1. used \in Nat /\ used' = used + 1 /\ used' \in Scans /\ r_pipe' = used'
  BY InUse, SessionAssumption DEF StartReader, Scans
<1>2. /\ pc[used'] = "none" /\ line[used'] = 0 /\ pipe[used'] = <<>>
      /\ UNCHANGED <<line, result, pipe, image>>
      /\ image = <<>>
  BY <1>1, InUse DEF FlowInv, Fresh, Pictured, StartReader, frontend
<1>3. pc'[used'] \in {"none", "entry"} /\ \A p \in Scans : p # used' => pc'[p] = pc[p]
  BY <1>1, <1>2 DEF StartReader, TypeOK, ReaderOK
<1>4. Fresh'
  <2>1. reader_pid' <= used' /\ r_pipe' <= used'
    BY <1>1 DEF StartReader, NoPid
  <2>2. \A p \in Scans : used' < p => used < p /\ p # used'
    BY <1>1 DEF Scans
  <2> QED
    BY <1>2, <1>3, <2>1, <2>2 DEF FlowInv, Fresh
<1>5. Pictured' /\ ReadSoFar'
  BY <1>2, SessionAssumption DEF Pictured, ReadSoFar, StartReader
<1>6. Streamed'
  <2>1. Written(r_pipe)' = 0 /\ Taken' = 0
    BY <1>1, <1>3 DEF Written, Taken, StartReader
  <2>2. <<"r", r_pipe'>> \in fds'
    BY <1>1 DEF StartReader
  <2> QED
    BY <1>1, <1>2, <1>3, <2>1, <2>2 DEF Streamed
<1> QED
  BY <1>4, <1>5, <1>6 DEF FlowInv

\* A write of the reader whose pipe is read adds the next unit.
LEMMA WriteStreams ==
  ASSUME TypeOK, Streamed, Streaming, NEW u \in 0 .. Lines, WriteUnit(r_pipe, u),
         u = Written(r_pipe)
  PROVE  /\ Len(pipe'[r_pipe]) = Written(r_pipe) + 1 - Taken
         /\ \A j \in 1 .. Len(pipe'[r_pipe]) : pipe'[r_pipe][j] = Taken + j - 1
<1> DEFINE q == pipe[r_pipe]
<1>1. q \in Seq(0 .. Lines) /\ Len(q) \in Nat
  BY DEF TypeOK, PipeOK, Streaming
<1>2. pipe'[r_pipe] = Append(q, u)
  BY DEF WriteUnit, Streamed, Streaming, TypeOK, PipeOK
<1>3. Len(q) = Written(r_pipe) - Taken /\ \A j \in 1 .. Len(q) : q[j] = Taken + j - 1
  BY DEF Streamed
<1>4. Taken \in Nat
  BY DEF Taken, TypeOK, FrontendOK
<1> HIDE DEF q
<1>5. Len(Append(q, u)) = Len(q) + 1 /\ Append(q, u)[Len(q) + 1] = u
      /\ \A j \in 1 .. Len(q) : Append(q, u)[j] = q[j]
  BY <1>1
<1>6. Len(Append(q, u)) = Written(r_pipe) + 1 - Taken
  BY <1>1, <1>3, <1>4, <1>5
<1>7. ASSUME NEW j \in 1 .. Len(q) + 1
      PROVE  Append(q, u)[j] = Taken + j - 1
  <2>1. CASE j \in 1 .. Len(q)
    BY <1>3, <1>5, <2>1
  <2>2. CASE j = Len(q) + 1
    BY <1>1, <1>3, <1>4, <1>5, <2>2
  <2>3. j \in 1 .. Len(q) \/ j = Len(q) + 1
    BY <1>1
  <2> QED
    BY <2>1, <2>2, <2>3
<1> QED
  BY <1>2, <1>5, <1>6, <1>7

LEMMA ReaderFlow ==
  ASSUME TypeOK, FlowInv, NEW p \in Scans, Reader(p)
  PROVE  FlowInv'
<1>1. UNCHANGED <<at, cont, image, ret, scanning, reader_pid, r_pipe, ipc_read_done,
                  fds, used>>
  BY ReaderLeavesSession DEF parent, frontend, handle, system
<1>2. /\ pc[p] # "none"
      /\ \A q \in Scans : q # p => /\ pc'[q] = pc[q] /\ line'[q] = line[q]
                                   /\ result'[q] = result[q] /\ pipe'[q] = pipe[q]
  BY DEF Reader, ReaderEntry, ReaderPrepare, ReaderIpc, ReaderLine, ReaderWrite,
         ReaderClose, ReaderExit, WriteUnit, TypeOK, ReaderOK, PipeOK
<1>3. Fresh'
  BY <1>1, <1>2, InUse, FreshKept DEF FlowInv
<1>4. Pictured'
  BY <1>1 DEF FlowInv, Pictured
<1>5. ReadSoFar'
  <2>1. pc[p] \notin Running \cup {"close"} => pipe' = pipe /\ pc'[p] = "zombie"
    BY DEF Reader, ReaderEntry, ReaderPrepare, ReaderIpc, ReaderLine, ReaderWrite,
           ReaderClose, ReaderExit, TypeOK, ReaderOK, Running
  <2>2. \A q \in Scans : pc[q] \notin Running \cup {"close"} =>
          pipe'[q] = pipe[q] /\ pc'[q] \notin Running \cup {"close"}
    BY <1>2, <2>1 DEF Running
  <2> QED
    BY <1>1, <2>2 DEF FlowInv, ReadSoFar
<1>6. Streamed'
  <2>1. CASE ~Streaming
    BY <1>1, <2>1 DEF Streamed, Streaming
  <2>2. CASE p # r_pipe
    BY <1>1, <1>2, <2>2, StreamedKept DEF FlowInv, Streaming
  <2>3. CASE p = r_pipe /\ Streaming
    <3> USE <2>3
    <3> USE DEF FlowInv
    <3>0. Taken' = Taken /\ <<"r", r_pipe>> \in fds' /\ Streamed
      BY <1>1 DEF Taken, Streamed
    <3>5. Taken \in Nat /\ Written(p) \in Nat
      BY SessionAssumption DEF Taken, Written, TypeOK, FrontendOK, ReaderOK
    <3>1. CASE ReaderEntry(p) \/ ReaderPrepare(p) \/ ReaderClose(p) \/ ReaderExit(p)
      <4>1. Written(p)' = Written(p) /\ pipe' = pipe /\ line' = line
        BY <3>1 DEF ReaderEntry, ReaderPrepare, ReaderClose, ReaderExit, Written, TypeOK,
                    ReaderOK, reader
      <4>2. pc'[p] \in {"none", "entry", "prepare", "ipc"} => line[p] = 0
        BY <3>0, <3>1 DEF ReaderEntry, ReaderPrepare, ReaderClose, ReaderExit, Streamed,
                          TypeOK, ReaderOK
       <4>3. pc'[p] \in {"close", "exit", "zombie"} /\ result'[p] = "ok" =>
               line[p] = Lines
        BY <3>0, <3>1 DEF ReaderEntry, ReaderPrepare, ReaderClose, ReaderExit, Streamed,
                          TypeOK, ReaderOK
      <4> QED
        BY <1>1, <3>0, <4>1, <4>2, <4>3 DEF Streamed
    <3>2. CASE ReaderIpc(p)
      <4>1. Written(p) = 0 /\ line[p] = 0 /\ WriteUnit(r_pipe, 0) /\ 0 \in 0 .. Lines
        BY <3>0, <3>2, SessionAssumption DEF ReaderIpc, Written, Streamed, Ipc
      <4>2. /\ Len(pipe'[r_pipe]) = Written(r_pipe) + 1 - Taken
            /\ \A j \in 1 .. Len(pipe'[r_pipe]) : pipe'[r_pipe][j] = Taken + j - 1
        BY <3>0, <4>1, WriteStreams
      <4>3. /\ Written(p)' = Written(p) + 1 /\ line' = line /\ result' = result
            /\ pc'[p] \in {"scan", "close"} /\ (pc'[p] = "close" => result[p] # "ok")
        BY <3>2, <4>1 DEF ReaderIpc, Written, TypeOK, ReaderOK
      <4>4. Len(pipe'[p]) = Written(p)' - Taken'
        BY <3>0, <3>5, <4>2, <4>3
      <4>5. Written(r_pipe)' = Written(p)'
        BY <1>1
      <4> QED
        BY <1>1, <3>0, <4>1, <4>2, <4>3, <4>4, <4>5 DEF Streamed
    <3>3. CASE ReaderWrite(p)
      <4>1. Written(p) = line[p] /\ WriteUnit(r_pipe, line[p]) /\ line[p] \in 0 .. Lines
        BY <3>3, SessionAssumption DEF ReaderWrite, Written, TypeOK, ReaderOK
      <4>2. /\ Len(pipe'[r_pipe]) = Written(r_pipe) + 1 - Taken
            /\ \A j \in 1 .. Len(pipe'[r_pipe]) : pipe'[r_pipe][j] = Taken + j - 1
        BY <3>0, <4>1, WriteStreams
      <4>3. Written(p)' = Written(p) + 1 /\ pc'[p] = "scan"
        BY <3>3, <4>1 DEF ReaderWrite, Written, TypeOK, ReaderOK
      <4>4. Len(pipe'[p]) = Written(p)' - Taken'
        BY <3>0, <3>5, <4>2, <4>3
      <4>5. Written(r_pipe)' = Written(p)'
        BY <1>1
      <4> QED
        BY <1>1, <3>0, <4>2, <4>3, <4>4, <4>5 DEF Streamed
    <3>4. CASE ReaderLine(p)
      <4>1. Written(p)' = Written(p) /\ pipe' = pipe
        BY <3>4 DEF ReaderLine, Written, TypeOK, ReaderOK
       <4>2. /\ pc'[p] \in {"close", "write"}
             /\ pc'[p] = "close" /\ result'[p] = "ok" => line'[p] = Lines
        BY <3>4 DEF ReaderLine, TypeOK, ReaderOK
      <4> QED
        BY <1>1, <3>0, <4>1, <4>2 DEF Streamed
    <3> QED
      BY <3>1, <3>2, <3>3, <3>4 DEF Reader
  <2> QED
    BY <2>1, <2>2, <2>3
<1> QED
  BY <1>3, <1>4, <1>5, <1>6 DEF FlowInv

LEMMA FlowStep ==
  ASSUME Inv, FlowInv, [Next]_vars
  PROVE  FlowInv'
<1> USE DEF Inv
<1> USE Constants
<1>1. CASE SaneOpen
  <2>1. /\ Pictured' /\ Streamed' /\ ReadSoFar'
    BY <1>1, SessionAssumption DEF SaneOpen, Pictured, Streamed, Streaming, ReadSoFar
  <2>2. Fresh'
    BY <1>1, FreshKept DEF SaneOpen, FlowInv, system, reader
  <2> QED
    BY <2>1, <2>2 DEF FlowInv
<1>2. CASE StartWhileScanning
  BY <1>2, FlowKept DEF StartWhileScanning, Return, handle, system, reader
<1>3. CASE StartRejected
  BY <1>3, FlowKept DEF StartRejected, Return, handle, system, reader
<1>4. CASE SaneStart
  <2>1. Fresh'
    BY <1>4, FreshKept DEF SaneStart, FlowInv, system, reader
  <2> QED
    BY <1>4, <2>1, SessionAssumption
       DEF SaneStart, FlowInv, Pictured, Streamed, Streaming, ReadSoFar
<1>5. CASE SaneRead
  BY <1>5, FlowKept DEF SaneRead, frontend, handle, system, reader
<1>6. CASE SaneCancel
  BY <1>6, DoCancelFlow DEF SaneCancel
<1>7. CASE ~scanning /\ SaneClose
  BY <1>7, FlowOver DEF SaneClose, ClosePipe, frontend, reader
<1>8. CASE SaneSetIoMode
  BY <1>8, FlowKept DEF SaneSetIoMode, parent, frontend, handle, reader
<1>9. CASE StartWithoutPipe
  BY <1>9, FlowOver DEF StartWithoutPipe, Return, system, reader
<1>10. CASE StartReader
  BY <1>10, StartReaderFlow
<1>11. CASE ReaderStarted
  <2>1. Fresh'
    BY <1>11, FreshKept DEF ReaderStarted, FlowInv, reader
  <2>2. Streamed'
    BY <1>11, StreamedKept DEF ReaderStarted, FlowInv, Streaming, reader
  <2> QED
    BY <1>11, <2>1, <2>2 DEF ReaderStarted, Return, FlowInv, Pictured, ReadSoFar
<1>12. CASE ReaderNotStarted
  BY <1>12, FlowOver DEF ReaderNotStarted, Return, system, reader
<1>13. CASE ReadIpc
  BY <1>13, ReadIpcFlow
<1>14. CASE ReadIpcAgain
  BY <1>14, FlowKept DEF ReadIpcAgain, Return, handle, system, reader
<1>15. CASE ReadIpcSpins
  BY <1>15, FlowKept DEF ReadIpcSpins, vars, parent, frontend, handle, system, reader
<1>16. CASE ReadAfterCancel
  <2>1. \A p \in Scans : used < p => pipe'[p] = pipe[p]
    <3>1. CASE Readable
      BY <1>16, <3>1, PipeRead, TakingKeepsFresh
         DEF ReadAfterCancel, EndOfFile, WouldBlock, Readable
    <3>2. CASE ~Readable
      BY <1>16, <3>2 DEF ReadAfterCancel
    <3> QED
      BY <3>1, <3>2
  <2> QED
    BY <1>16, <2>1, DoCancelFlow DEF ReadAfterCancel
<1>17. CASE ReadData
  BY <1>17, ReadDataFlow
<1>18. CASE ReadAgain
  <2>1. CASE at' = "idle"
    BY <1>18, <2>1, FlowKept DEF ReadAgain, handle, system, reader
  <2>2. CASE at' = "wait_end"
    <3>1. Fresh'
      BY <1>18, FreshKept DEF ReadAgain, FlowInv, handle, system, reader
    <3>2. Streamed'
      BY <1>18, StreamedKept DEF ReadAgain, FlowInv, Streaming, handle, system, reader
    <3> QED
      BY <1>18, <2>2, <3>1, <3>2
         DEF ReadAgain, Return, FlowInv, Pictured, ReadSoFar, handle
  <2> QED
    BY <1>18, <2>1, <2>2 DEF ReadAgain, Return
<1>19. CASE ReadFails
  BY <1>19, DoCancelFlow DEF ReadFails
<1>20. CASE EndAfterWait
  <2>1. \A p \in Scans : used < p => pc'[p] = pc[p]
    BY <1>20, ReapFlow DEF EndAfterWait
  <2> QED
    BY <1>20, <2>1, FlowOver DEF EndAfterWait, ClosePipe, Return
<1>21. CASE ReadEndOfFile
  <2>1. Fresh'
    BY <1>21, FreshKept DEF ReadEndOfFile, FlowInv, handle, system, reader
  <2>2. Streamed'
    BY <1>21, StreamedKept
       DEF ReadEndOfFile, FlowInv, Streaming, frontend, handle, system, reader
  <2>3. ReadSoFar'
    BY <1>21 DEF ReadEndOfFile, FlowInv, ReadSoFar, EndOfFile, HasWriter, handle, reader,
                 TypeOK, HandleOK
  <2> QED
    BY <1>21, <2>1, <2>2, <2>3 DEF ReadEndOfFile, FlowInv, Pictured, frontend, handle
<1>22. CASE EndOfScan
  <2>1. \A p \in Scans : used < p => pc'[p] = pc[p]
    BY <1>22, ReapFlow DEF EndOfScan
  <2>2. Fresh'
    BY <1>22, <2>1, FreshKept DEF EndOfScan, ClosePipe, FlowInv, Return
  <2>3. Streamed'
    BY <1>22 DEF EndOfScan, ClosePipe, Streamed, Streaming
  <2> QED
    BY <1>22, <2>2, <2>3 DEF EndOfScan, FlowInv, Pictured, ReadSoFar, Return
<1>23. CASE CancelDone
  BY <1>23, AfterWaitFlow
     DEF CancelDone, Return, SessionInv, WaitsForReader, Waiting
<1>24. CASE SignalCancel
  <2>1. UNCHANGED at \/ at' = "dead"
    BY <1>24 DEF SignalCancel
  <2>2. \A p \in Scans : used < p => pc'[p] = pc[p]
    BY <1>24, KillFlow DEF SignalCancel, reader
  <2>3. UNCHANGED line
    BY <1>24 DEF SignalCancel, KillReader, KillGroup, Signal, reader
  <2> QED
    BY <1>24, <2>1, <2>2, <2>3, FlowOver DEF SignalCancel, system
<1>25. CASE SignalCancelDone
  BY <1>25, AfterWaitFlow
     DEF SignalCancelDone, SessionInv, WaitsForReader, Waiting
<1>26. ASSUME NEW p \in Scans, Reader(p) PROVE FlowInv'
  BY <1>26, ReaderFlow
<1>27. CASE UNCHANGED vars
  BY <1>27, FlowKept DEF vars, parent, frontend, handle, system, reader
<1>28. CASE ReaderValid
  <2>1. Fresh'
    BY <1>28, FreshKept DEF ReaderValid, FlowInv, handle, system, reader
  <2>2. Streamed'
    BY <1>28, StreamedKept
       DEF ReaderValid, FlowInv, Streaming, frontend, handle, system, reader
  <2> QED
    BY <1>28, <2>1, <2>2 DEF ReaderValid, FlowInv, Pictured, ReadSoFar, frontend, handle
<1>29. CASE ReadIpcFails
  BY <1>29, DoCancelFlow DEF ReadIpcFails
<1> QED
  BY <1>1, <1>2, <1>3, <1>4, <1>5, <1>6, <1>7, <1>8, <1>9, <1>10, <1>11,
     <1>12, <1>13, <1>14, <1>15, <1>16, <1>17, <1>18, <1>19, <1>20, <1>21,
     <1>22, <1>23, <1>24, <1>25, <1>26, <1>27, <1>28, <1>29
     DEF Next, Calls, InsideStart, InsideRead
-----------------------------------------------------------------------------
(* The refinement: every step of the session is a step of a SANE handle,   *)
(* or none.                                                                *)

\* sane_read says that the picture is over only when all of it was read: the
\* reader that ended well has written every line, and the pipe is empty.
LEMMA AllRead ==
  ASSUME Inv, FlowInv, sig = "none", at = "status", reader_pid \in Scans,
         pc[reader_pid] = "zombie", result[reader_pid] = "ok"
  PROVE  Len(image) = Lines
<1>1. scanning
  BY DEF Inv, SessionInv, PidAssigned
<1>2. r_pipe = reader_pid /\ Streaming /\ pipe[r_pipe] = <<>> /\ ipc_read_done
  BY <1>1, Constants
     DEF Inv, SessionInv, Scanning, FlowInv, ReadSoFar, Streaming
<1>3. Len(pipe[r_pipe]) = 0 /\ line[r_pipe] = Lines /\ Written(r_pipe) = Lines + 1
  BY <1>2 DEF FlowInv, Streamed, Written
<1>4. Len(pipe[r_pipe]) = Written(r_pipe) - Taken
  BY <1>2 DEF FlowInv, Streamed
<1>5. Taken = Len(image) + 1
  BY <1>2 DEF Taken
<1>6. Len(image) \in Nat
  BY DEF Inv, TypeOK, FrontendOK
<1> QED
  BY <1>3, <1>4, <1>5, <1>6, SessionAssumption

LEMMA WholeRead ==
  ASSUME Inv, FlowInv, Len(image) = Lines
  PROVE  image = SANE!WholeImage
<1>1. image \in Seq(0 .. Lines)
  BY DEF Inv, TypeOK, FrontendOK
<1>2. image = [i \in 1 .. Len(image) |-> image[i]]
  BY <1>1
<1>3. \A i \in 1 .. Len(image) : image[i] = i
  BY DEF FlowInv, Pictured
<1> QED
  BY <1>2, <1>3 DEF SANE!WholeImage

\* do_cancel called from a function that returns r.
LEMMA DoCancelRefines ==
  ASSUME Inv, at # "closed", NEW close, NEW r, DoCancel(close, r),
         r = ret \/ r \in {"CANCELLED", "IO_ERROR"}
  PROVE  SANE!Cancel \/ SANE!Fail
  BY DEF DoCancel, Return, SANE!Cancel, SANE!Fail, SANE!Failures

\* What a step leaves alone if a SANE handle does not show it.
LEMMA Stutters ==
  ASSUME UNCHANGED <<scanning, image, ret>>, (at' # "closed") = (at # "closed")
  PROVE  UNCHANGED SANE!hvars
  BY DEF SANE!hvars

LEMMA Refines ==
  ASSUME Inv, FlowInv, [Next]_vars
  PROVE  [SANE!Next]_(SANE!hvars)
<1> USE DEF SANE!Next
<1>1. CASE SaneOpen
  BY <1>1 DEF SaneOpen, SANE!Open
<1>2. CASE StartWhileScanning
  BY <1>2 DEF StartWhileScanning, Return, handle, SANE!Fail, SANE!Failures
<1>3. CASE StartRejected
  BY <1>3 DEF StartRejected, Return, handle, SANE!Fail, SANE!Failures
<1>4. CASE SaneStart
  BY <1>4 DEF SaneStart, SANE!Start
<1>5. CASE SaneRead
  BY <1>5, Stutters DEF SaneRead, frontend, handle
<1>6. CASE SaneCancel
  BY <1>6, DoCancelRefines DEF SaneCancel
<1>7. CASE ~scanning /\ SaneClose
  BY <1>7 DEF SaneClose, frontend, SANE!Close
<1>8. CASE SaneSetIoMode
  BY <1>8, Stutters DEF SaneSetIoMode, parent, frontend, handle
<1>9. CASE StartWithoutPipe
  BY <1>9 DEF StartWithoutPipe, Return, SANE!Fail, SANE!Failures, Inv, TypeOK, HandleOK
<1>10. CASE StartReader
  BY <1>10, Stutters DEF StartReader, frontend
<1>11. CASE ReaderStarted
  BY <1>11 DEF ReaderStarted, Return, SANE!Nothing
<1>12. CASE ReaderNotStarted
  BY <1>12 DEF ReaderNotStarted, Return, SANE!Fail, SANE!Failures, Inv, TypeOK, HandleOK
<1>13. CASE ReadIpc
  BY <1>13, Stutters DEF ReadIpc, frontend
<1>14. CASE ReadIpcAgain
  BY <1>14 DEF ReadIpcAgain, Return, handle, SANE!Nothing
<1>15. CASE ReadIpcSpins
  BY <1>15, Stutters DEF ReadIpcSpins, vars, parent, frontend, handle
<1>16. CASE ReadAfterCancel
  BY <1>16, DoCancelRefines DEF ReadAfterCancel
<1>17. CASE ReadData
  <2>1. PICK n \in 1 .. Len(pipe[r_pipe]) :
          TakeUnits(n) /\ image' = image \o SubSeq(pipe[r_pipe], 1, n)
    BY <1>17 DEF ReadData
  <2>2. r_pipe \in Scans /\ Streaming /\ ipc_read_done /\ Len(pipe[r_pipe]) \in Nat
    BY <1>17, PipeRead DEF ReadData, Streaming, FlowInv, ReadSoFar, Inv
  <2>3. /\ image' = [i \in 1 .. Len(image) + n |-> i] /\ Len(image) \in Nat
        /\ Len(image) + n <= Lines
    BY <2>1, <2>2, NextLines DEF Inv
  <2>4. n \in 0 .. Lines - Len(image)
    BY <2>2, <2>3, SessionAssumption
  <2>5. /\ at # "closed" /\ at' # "closed" /\ scanning /\ scanning' = scanning
        /\ ret' = "GOOD"
    BY <1>17 DEF ReadData, Return, handle
  <2>6. SANE!Deliver
    BY <2>3, <2>4, <2>5 DEF SANE!Deliver
  <2> QED
    BY <2>6
<1>18. CASE ReadAgain
  <2>1. CASE at' = "wait_end" /\ UNCHANGED ret
    BY <1>18, <2>1, Stutters DEF ReadAgain, handle
  <2>2. CASE Return("GOOD")
    BY <1>18, <2>2 DEF ReadAgain, Return, handle, SANE!Nothing
  <2> QED
    BY <1>18, <2>1, <2>2 DEF ReadAgain
<1>19. CASE ReadFails
  BY <1>19, DoCancelRefines DEF ReadFails
<1>20. CASE EndAfterWait
  <2>1. image = SANE!WholeImage
    BY <1>20, WholeRead DEF EndAfterWait, FlowInv, Pictured
  <2> QED
    BY <1>20, <2>1 DEF EndAfterWait, Return, SANE!Finish
<1>21. CASE ReadEndOfFile
  BY <1>21, Stutters DEF ReadEndOfFile, frontend, handle
<1>22. CASE EndOfScan
  <2>1. CASE /\ reader_pid \in Scans /\ pc[reader_pid] = "zombie"
             /\ ExitCode(reader_pid) = "GOOD"
    <3>1. result[reader_pid] = "ok"
      BY <2>1 DEF ExitCode
    <3>2. image = SANE!WholeImage
      BY <1>22, <2>1, <3>1, AllRead, WholeRead DEF EndOfScan, MayStep
    <3> QED
      BY <1>22, <2>1, <3>2 DEF EndOfScan, Return, SANE!Finish
  <2>2. CASE ~(/\ reader_pid \in Scans /\ pc[reader_pid] = "zombie"
               /\ ExitCode(reader_pid) = "GOOD")
    <3>1. ret' \in SANE!Failures /\ UNCHANGED <<scanning, image>> /\ at' = "idle"
      BY <1>22, <2>2 DEF EndOfScan, Return, ExitCode, SANE!Failures
    <3> QED
      BY <1>22, <3>1 DEF EndOfScan, SANE!Fail
  <2> QED
    BY <2>1, <2>2
<1>23. CASE CancelDone
  <2>1. cont.ret \in {ret, "CANCELLED", "IO_ERROR"} /\ at' = "idle" /\ ret' = cont.ret
        /\ UNCHANGED <<scanning, image>> /\ ~scanning
    BY <1>23 DEF CancelDone, AfterWait, Return, FlowInv, ReadSoFar, Inv, SessionInv,
                 WaitsForReader, Waiting
  <2>2. CASE ret' = ret
    BY <1>23, <2>1, <2>2, Stutters DEF CancelDone
  <2>3. CASE ret' \in {"CANCELLED", "IO_ERROR"}
    BY <1>23, <2>1, <2>3 DEF CancelDone, SANE!Fail, SANE!Failures
  <2> QED
    BY <2>1, <2>2, <2>3
<1>24. CASE SignalCancel
  <2>1. at # "closed" /\ at' # "closed" /\ ~scanning' /\ UNCHANGED <<image, ret>>
    BY <1>24 DEF SignalCancel, Interruptible, InRead
  <2> QED
    BY <1>24, <2>1 DEF SANE!Cancel, SignalCancel
<1>25. CASE SignalCancelDone
  BY <1>25, Stutters DEF SignalCancelDone, AfterWait
<1>26. ASSUME NEW p \in Scans, Reader(p) PROVE UNCHANGED SANE!hvars
  BY <1>26, ReaderLeavesSession, Stutters DEF parent, frontend, handle
<1>27. CASE UNCHANGED vars
  BY <1>27, Stutters DEF vars, parent, frontend, handle
<1>28. CASE ReaderValid
  BY <1>28, Stutters DEF ReaderValid, frontend, handle
<1>29. CASE ReadIpcFails
  BY <1>29, DoCancelRefines DEF ReadIpcFails
<1> QED
  BY <1>1, <1>2, <1>3, <1>4, <1>5, <1>6, <1>7, <1>8, <1>9, <1>10, <1>11,
     <1>12, <1>13, <1>14, <1>15, <1>16, <1>17, <1>18, <1>19, <1>20, <1>21,
     <1>22, <1>23, <1>24, <1>25, <1>26, <1>27, <1>28, <1>29
     DEF Next, Calls, InsideStart, InsideRead

\* The session is a SANE handle: lines come in order and once, SANE_STATUS_EOF
\* means that the whole picture was handed over, and no scan starts by itself,
\* however the processes, the pipe, cancel and failures interleave.
THEOREM SessionIsSaneHandle == Spec => ImplementsSaneHandle
<1>1. Init => SANE!Init
  BY DEF Init, SANE!Init
<1>2. FlowInv /\ Inv /\ [Next]_vars => FlowInv'
  BY FlowStep
<1>3. FlowInv /\ Inv /\ [Next]_vars => [SANE!Next]_(SANE!hvars)
  BY Refines
<1> QED
   BY <1>1, <1>2, <1>3, FlowInit, Invariance, PTL
      DEF Spec, ImplementsSaneHandle, SANE!Spec
=============================================================================
