---------------------------- MODULE ScanSession ----------------------------
(***************************************************************************)
(* One scanner handle of backend/plustek.c in a fork build: the frontend's *)
(* process, the reader process sane_start forks, the pipe between them and *)
(* the signals and waits do_cancel uses to take the session down again.    *)
(* Calibration by option (OPT_CALIBRATE) is module Calibration's: here     *)
(* s->calibrating is FALSE throughout.                                     *)
(*                                                                         *)
(* The frontend's process has one thread.  `at' is where it stands, `sig'  *)
(* whether a signal handler of the frontend interrupted it and is inside   *)
(* sane_cancel.  A step of it is the code from one point where the reader  *)
(* process can be observed to the next (a read of the pipe, a waitpid).    *)
(***************************************************************************)
EXTENDS Integers, Sequences

CONSTANTS Lines,         \* lines of the image, each one unit in the pipe
          PipeCap,       \* units the pipe holds before a write blocks
          MaxScans,      \* bound: pipes made in a run, one per scan
          AsyncCancel    \* calls of the frontend that a signal handler may
                         \* interrupt with sane_cancel: "read", "start"

ASSUME SessionAssumption == /\ Lines \in Nat \ {0}
                            /\ PipeCap \in Nat \ {0}
                            /\ MaxScans \in Nat \ {0}
                            /\ AsyncCancel \subseteq {"read", "start"}

Scans == 1 .. MaxScans   \* the n-th pipe and the process forked to fill it

NoPid   == -1            \* sanei_thread_invalidate
ZeroPid == 0             \* the memset of sane_open: kill(0) is the process group
NoFd    == -1
Ipc     == 0             \* the IPCDef record; line i of the image is i

VARIABLES
  at, sig, cont,              \* the frontend's process: position, handler, caller of do_cancel
  early,                      \* history: sane_cancel ran inside sane_start
                              \* before that one knew its reader
  image, ret,                 \* the frontend: has read, last result
  scanning, reader_pid,       \* Plustek_Scanner
  r_pipe, w_pipe, ipc_read_done,
  nonblock,                   \* O_NONBLOCK of the pipe's read end
  fds,                        \* pipe ends this process has open
  hw,                         \* Plustek_Device: is the device open?
  sigalrmBlocked,             \* SIGALRM in the signal mask, scan buffer allocated
  used,                       \* pipes made so far
  pc, line, usr1, result,     \* the reader processes
  pipe                        \* units written and not read yet

parent   == <<at, sig, cont>>
frontend == <<early, image, ret>>
handle   == <<scanning, reader_pid, r_pipe, w_pipe, ipc_read_done>>
system   == <<nonblock, fds, used>>
device   == <<hw, sigalrmBlocked>>
reader   == <<pc, line, usr1, result>>
vars     == <<parent, frontend, handle, system, device, reader, pipe>>

HwStates == {"closed", "open"}    \* dev->fd < 0, dev->fd >= 0
Running  == {"entry", "prepare", "ipc", "scan", "write"}
Alive    == Running \cup {"close", "exit"}
Statuses == {"GOOD", "EOF", "CANCELLED", "DEVICE_BUSY", "IO_ERROR"}
Results  == {"ok", "abort", "error", "busy", "killed", "sigkill"}

NoCall == [close |-> FALSE, ret |-> "GOOD"]    \* do_cancel was not called

Init == /\ at = "closed" /\ sig = "none" /\ cont = NoCall
        /\ early = FALSE /\ image = <<>> /\ ret = "GOOD"
        /\ scanning = FALSE /\ reader_pid = ZeroPid
        /\ r_pipe = NoFd /\ w_pipe = NoFd /\ ipc_read_done = FALSE
        /\ nonblock = FALSE /\ fds = {} /\ used = 0
        /\ hw = "closed" /\ sigalrmBlocked = FALSE
        /\ pc = [p \in Scans |-> "none"]
        /\ line = [p \in Scans |-> 0]
        /\ usr1 = [p \in Scans |-> FALSE]
        /\ result = [p \in Scans |-> "ok"]
        /\ pipe = [p \in Scans |-> <<>>]
-----------------------------------------------------------------------------
(* Helpers of the frontend's process.                                      *)

MayStep == sig = "none"     \* no signal handler is running on top

Return(r) == at' = "idle" /\ ret' = r

\* close_pipe: both ends this handle still names.
ClosePipe == /\ fds' = fds \ {<<"r", r_pipe>>, <<"w", w_pipe>>}
             /\ r_pipe' = NoFd
             /\ w_pipe' = NoFd

\* drvclose: usbDev_stopScan frees the scan buffer and unblocks SIGALRM.
DrvClose == /\ hw' = "closed"
            /\ sigalrmBlocked' = (sigalrmBlocked /\ hw = "closed")

\* usbDev_close: the handle is closed, but the scan buffer stays allocated and
\* SIGALRM blocked.
UsbClose == /\ hw' = "closed"
            /\ UNCHANGED sigalrmBlocked

\* Inside sane_read.
InRead == at \in {"ipc", "data", "wait_end", "status"}

\* Has the pipe of scan p a write end open, in the reader or here?
HasWriter(p) == pc[p] \in Running \cup {"close"} \/ <<"w", p>> \in fds

Readable   == r_pipe # NoFd /\ pipe[r_pipe] # <<>>
EndOfFile  == r_pipe # NoFd /\ pipe[r_pipe] = <<>> /\ ~HasWriter(r_pipe)
WouldBlock == r_pipe # NoFd /\ pipe[r_pipe] = <<>> /\ HasWriter(r_pipe)

TakeUnits(n) == pipe' = [pipe EXCEPT ![r_pipe] = SubSeq(@, n + 1, Len(@))]

\* kill(.., SIGUSR1) of the readers of the scans S.  Before thread_entry has
\* run, a reader has the default action; afterwards the signal is blocked and
\* stays pending.
Signal(S) ==
  /\ pc' = [p \in Scans |-> IF p \in S /\ pc[p] = "entry" THEN "zombie" ELSE pc[p]]
  /\ result' = [p \in Scans |->
                  IF p \in S /\ pc[p] = "entry" THEN "killed" ELSE result[p]]
  /\ usr1' = [p \in Scans |->
                usr1[p] \/ (p \in S /\ pc[p] \in Alive \ {"entry"})]
  /\ UNCHANGED line

KillReader == Signal({reader_pid})
KillGroup  == Signal(Scans)       \* pid 0: the frontend's own process group

Reap(p) == pc' = [pc EXCEPT ![p] = "reaped"]

\* The rest of do_cancel once there is no reader to wait for.
CancelRest(close) ==
  /\ IF close THEN ClosePipe ELSE UNCHANGED <<fds, r_pipe, w_pipe>>
  /\ DrvClose

\* do_cancel(scanner, close) called from a sane_* function that returns r.
DoCancel(close, r) ==
  /\ scanning' = FALSE
  /\ \/ /\ reader_pid = NoPid
        /\ CancelRest(close)
        /\ Return(r)
        /\ UNCHANGED <<cont, reader>>
     \/ /\ reader_pid \in Scans
        /\ KillReader
        /\ at' = "waitpid"
        /\ cont' = [close |-> close, ret |-> r]
        /\ UNCHANGED <<ret, fds, r_pipe, w_pipe, device>>
     \/ /\ reader_pid = ZeroPid          \* it ends the frontend, too
        /\ KillGroup
        /\ at' = "dead"
        /\ UNCHANGED <<cont, ret, fds, r_pipe, w_pipe, device>>
  /\ UNCHANGED <<sig, early, image, reader_pid, ipc_read_done, nonblock, used>>

-----------------------------------------------------------------------------
(* Calls of the frontend.                                                  *)

SaneOpen ==
  /\ at = "closed"
  /\ at' = "idle" /\ ret' = "GOOD"
  /\ image' = <<>>
  /\ scanning' = FALSE /\ reader_pid' = ZeroPid
  /\ r_pipe' = NoFd /\ w_pipe' = NoFd /\ ipc_read_done' = FALSE
  /\ UNCHANGED <<sig, cont, early, system, device, reader, pipe>>

StartWhileScanning ==
  /\ at = "idle" /\ scanning
  /\ Return("DEVICE_BUSY")
  /\ UNCHANGED <<sig, cont, early, image, handle, system, device, reader, pipe>>

\* local_sane_start fails: without a device, or with an error after which the
\* device is closed again, before or after usbDev_startScan allocated the scan
\* buffer and blocked SIGALRM.
StartRejected ==
  /\ at = "idle" /\ ~scanning
  /\ Return("IO_ERROR")
  /\ hw' = "closed"
  /\ sigalrmBlocked' \in {sigalrmBlocked, TRUE}
  /\ UNCHANGED <<sig, cont, early, image, handle, system, reader, pipe>>

\* sane_start up to the point where the pipe is made.
SaneStart ==
  /\ at = "idle" /\ ~scanning /\ used < MaxScans
  /\ at' = "starting"
  /\ image' = <<>>
  /\ scanning' = TRUE
  /\ hw' = "open" /\ sigalrmBlocked' = TRUE
  /\ UNCHANGED <<sig, cont, early, ret, reader_pid, r_pipe, w_pipe,
                 ipc_read_done, system, reader, pipe>>

\* pipe() fails.
StartWithoutPipe ==
  /\ MayStep /\ at = "starting"
  /\ Return("IO_ERROR")
  /\ scanning' = FALSE
  /\ UsbClose
  /\ UNCHANGED <<sig, cont, early, image, reader_pid, r_pipe, w_pipe,
                 ipc_read_done, system, reader, pipe>>

\* pipe() and fork(), which may fail.
StartReader ==
  /\ MayStep /\ at = "starting" /\ used < MaxScans
  /\ at' = "forked"
  /\ used' = used + 1
  /\ fds' = fds \cup {<<"r", used'>>, <<"w", used'>>}
  /\ r_pipe' = used' /\ w_pipe' = used'
  /\ nonblock' = FALSE
  /\ ipc_read_done' = FALSE
  /\ \/ reader_pid' = used' /\ pc' = [pc EXCEPT ![used'] = "entry"]
     \/ reader_pid' = NoPid /\ UNCHANGED pc
  /\ UNCHANGED <<sig, cont, frontend, scanning, device, line, usr1, result, pipe>>

ReaderValid ==
  /\ MayStep /\ at = "forked" /\ reader_pid # NoPid
  /\ at' = "valid"
  /\ UNCHANGED <<sig, cont, frontend, handle, system, device, reader, pipe>>

ReaderStarted ==
  /\ MayStep /\ at = "valid"
  /\ Return("GOOD")
  /\ fds' = fds \ {<<"w", w_pipe>>}
  /\ w_pipe' = NoFd
  /\ UNCHANGED <<sig, cont, early, image, scanning, reader_pid, r_pipe,
                 ipc_read_done, nonblock, used, device, reader, pipe>>

\* fork failed, or a signal handler has cancelled since.  Both ends of the new
\* pipe stay open.
ReaderNotStarted ==
  /\ MayStep /\ at = "forked" /\ reader_pid = NoPid
  /\ Return("IO_ERROR")
  /\ scanning' = FALSE
  /\ UsbClose
  /\ UNCHANGED <<sig, cont, early, image, reader_pid, r_pipe, w_pipe,
                 ipc_read_done, system, reader, pipe>>

\* On any open handle, whether it was ever started or not.
SaneRead ==
  /\ at = "idle"
  /\ at' = IF ipc_read_done THEN "data" ELSE "ipc"
  /\ UNCHANGED <<sig, cont, frontend, handle, system, device, reader, pipe>>

\* Mutant: sane_cancel does not look whether a scan is going on.
SaneCancelAlways ==
  /\ at = "idle"
  /\ DoCancel(FALSE, ret)
  /\ UNCHANGED pipe

SaneCancel ==
  /\ at = "idle" /\ scanning
  /\ DoCancel(FALSE, ret)
  /\ UNCHANGED pipe

SaneClose ==
  /\ at = "idle"
  /\ at' = "closed"
  /\ ClosePipe
  /\ DrvClose
  /\ UNCHANGED <<sig, cont, frontend, scanning, reader_pid, ipc_read_done,
                 nonblock, used, reader, pipe>>

SaneSetIoMode ==
  /\ at = "idle"
  /\ \/ /\ scanning /\ r_pipe # NoFd
        /\ nonblock' = ~nonblock
     \/ /\ ~scanning \/ r_pipe = NoFd     \* INVAL, UNSUPPORTED
        /\ UNCHANGED nonblock
  /\ UNCHANGED <<parent, frontend, handle, fds, used, device, reader, pipe>>
-----------------------------------------------------------------------------
(* Inside sane_read.                                                       *)

\* Mutant: that the IPC record was read is forgotten.
ReadIpcForgotten ==
  /\ MayStep /\ at = "ipc"
  /\ Readable
  /\ TakeUnits(1)
  /\ at' = "data"
  /\ UNCHANGED <<sig, cont, frontend, handle, system, device, reader>>

\* A read of the pipe returns the IPC record, written in one piece.
ReadIpc ==
  /\ MayStep /\ at = "ipc"
  /\ Readable
  /\ TakeUnits(1)
  /\ ipc_read_done' = TRUE
  /\ at' = "data"
  /\ UNCHANGED <<sig, cont, frontend, scanning, reader_pid, r_pipe, w_pipe,
                 system, device, reader>>

\* EBADF: no scan was started, or its pipe is closed.
ReadIpcFails ==
  /\ MayStep /\ at = "ipc"
  /\ r_pipe = NoFd
  /\ DoCancel(TRUE, "IO_ERROR")
  /\ UNCHANGED pipe

ReadIpcAgain ==
  /\ MayStep /\ at = "ipc"
  /\ WouldBlock /\ nonblock
  /\ Return("GOOD")
  /\ UNCHANGED <<sig, cont, early, image, handle, system, device, reader, pipe>>

\* read returns 0: c stays below sizeof(ipc) and the loop reads again.
ReadIpcSpins ==
  /\ MayStep /\ at = "ipc"
  /\ EndOfFile
  /\ UNCHANGED vars

ReadAfterCancel ==
  /\ MayStep /\ at = "data" /\ ~scanning
  /\ \/ Readable /\ \E n \in 1 .. Len(pipe[r_pipe]) : TakeUnits(n)
     \/ /\ r_pipe = NoFd \/ EndOfFile \/ (WouldBlock /\ nonblock)
        /\ UNCHANGED pipe
  /\ DoCancel(TRUE, "CANCELLED")

ReadData ==
  /\ MayStep /\ at = "data" /\ scanning
  /\ Readable
  /\ \E n \in 1 .. Len(pipe[r_pipe]) :
       /\ TakeUnits(n)
       /\ image' = image \o SubSeq(pipe[r_pipe], 1, n)
  /\ Return("GOOD")
  /\ UNCHANGED <<sig, cont, early, handle, system, device, reader>>

ReadAgain ==
  /\ MayStep /\ at = "data" /\ scanning
  /\ WouldBlock /\ nonblock
  /\ IF Len(image) = Lines
     THEN at' = "wait_end" /\ UNCHANGED ret
     ELSE Return("GOOD")
  /\ UNCHANGED <<sig, cont, early, image, handle, system, device, reader, pipe>>

ReadFails ==
  /\ MayStep /\ at = "data" /\ scanning
  /\ r_pipe = NoFd
  /\ DoCancel(TRUE, "IO_ERROR")
  /\ UNCHANGED pipe

\* The whole picture was read, but EAGAIN came instead of the end of file.
EndAfterWait ==
  /\ MayStep /\ at = "wait_end"
  /\ \/ /\ reader_pid \in Scans
        /\ pc[reader_pid] \in {"zombie", "reaped"}
        /\ Reap(reader_pid)
     \/ /\ reader_pid = NoPid             \* cancelled: waitpid(-1), any child,
        /\ \/ \E p \in Scans : pc[p] = "zombie" /\ Reap(p)
           \/ UNCHANGED pc                \* or ECHILD
  /\ reader_pid' = NoPid
  /\ scanning' = FALSE
  /\ DrvClose
  /\ ClosePipe
  /\ Return("EOF")
  /\ UNCHANGED <<sig, cont, early, image, ipc_read_done, nonblock, used,
                 line, usr1, result, pipe>>

\* Mutant: the device is left open at the end of the file.
ReadEndOfFileOnly ==
  /\ MayStep /\ at = "data" /\ scanning
  /\ EndOfFile
  /\ at' = "status"
  /\ UNCHANGED <<sig, cont, frontend, handle, system, device, reader, pipe>>

ReadEndOfFile ==
  /\ MayStep /\ at = "data" /\ scanning
  /\ EndOfFile
  /\ DrvClose
  /\ at' = "status"
  /\ UNCHANGED <<sig, cont, frontend, handle, system, reader, pipe>>

\* Mutant: only a cancelled reader counts as one that failed.
ExitCodeOfFailed(p) == IF result[p] = "abort" THEN "CANCELLED" ELSE "GOOD"

\* sanei_thread_get_status of the reader: waitpid(WNOHANG).
ExitCode(p) == CASE result[p] = "ok"    -> "GOOD"
                 [] result[p] = "abort" -> "CANCELLED"
                 [] result[p] = "busy"  -> "DEVICE_BUSY"
                 [] OTHER               -> "IO_ERROR"

\* Mutant: the end of the file does not end the scan.
EndOfScanGoesOn ==
  /\ MayStep /\ at = "status"
  /\ Return("GOOD")
  /\ UNCHANGED <<sig, cont, early, image, handle, system, device, reader, pipe>>

EndOfScan ==
  /\ MayStep /\ at = "status"
  /\ \/ /\ reader_pid \in Scans /\ pc[reader_pid] = "zombie"
        /\ Reap(reader_pid)
        /\ IF ExitCode(reader_pid) = "GOOD"
           THEN reader_pid' = NoPid /\ scanning' = FALSE /\ Return("EOF")
           ELSE Return(ExitCode(reader_pid)) /\ UNCHANGED <<reader_pid, scanning>>
     \/ /\ reader_pid \in Scans => pc[reader_pid] # "zombie"
        /\ Return("IO_ERROR")
        /\ UNCHANGED <<pc, reader_pid, scanning>>
  /\ ClosePipe
  /\ UNCHANGED <<sig, cont, early, image, ipc_read_done, nonblock, used,
                 device, line, usr1, result, pipe>>
-----------------------------------------------------------------------------
(* Inside do_cancel, after SIGUSR1 and alarm(10).  ECHILD counts as done.  *)

Gone == pc[reader_pid] \in {"zombie", "reaped"}

\* SIGALRM interrupts the waitpid: do it the hard way.  A process that was
\* sent SIGKILL runs no further and nobody waits for it.
KillHard ==
  /\ ~sigalrmBlocked
  /\ ~Gone
  /\ pc' = [pc EXCEPT ![reader_pid] = "zombie"]
  /\ result' = [result EXCEPT ![reader_pid] = "sigkill"]

\* Mutant: do_cancel looks after the reader, but does not wait for it.
AfterWaitNoHang(close) ==
  /\ IF Gone THEN Reap(reader_pid) ELSE UNCHANGED pc
  /\ reader_pid' = NoPid
  /\ sigalrmBlocked' = FALSE
  /\ hw' = "closed"
  /\ IF close THEN ClosePipe ELSE UNCHANGED <<fds, r_pipe, w_pipe>>
  /\ UNCHANGED <<early, image, scanning, ipc_read_done, nonblock, used,
                 line, usr1, result, pipe>>

\* What follows the waitpid, up to the end of do_cancel.  usb_StartLampTimer
\* unblocks SIGALRM even if drvclose has nothing to close.
AfterWait(close) ==
  /\ \/ Gone /\ Reap(reader_pid) /\ UNCHANGED result
     \/ KillHard
  /\ reader_pid' = NoPid
  /\ sigalrmBlocked' = FALSE
  /\ hw' = "closed"
  /\ IF close THEN ClosePipe ELSE UNCHANGED <<fds, r_pipe, w_pipe>>
  /\ UNCHANGED <<early, image, scanning, ipc_read_done, nonblock, used,
                 line, usr1, pipe>>

CancelDone ==
  /\ MayStep /\ at = "waitpid"
  /\ AfterWait(cont.close)
  /\ Return(cont.ret)
  /\ cont' = NoCall
  /\ UNCHANGED sig

\* sane_cancel called by a signal handler of the frontend inside sane_read or
\* sane_start.  It is a signal() handler: an interrupted system call restarts.
Interruptible == \/ "read" \in AsyncCancel /\ InRead
                 \/ "start" \in AsyncCancel /\ at \in {"starting", "forked", "valid"}

SignalCancel ==
  /\ MayStep /\ Interruptible /\ scanning
  /\ scanning' = FALSE
  /\ early' = (early \/ at = "starting")
  /\ \/ /\ reader_pid = NoPid
        /\ DrvClose
        /\ UNCHANGED <<at, sig, reader>>
     \/ /\ reader_pid \in Scans
        /\ KillReader
        /\ sig' = "waitpid"
        /\ UNCHANGED <<at, device>>
     \/ /\ reader_pid = ZeroPid
        /\ KillGroup
        /\ at' = "dead"
        /\ UNCHANGED <<sig, device>>
  /\ UNCHANGED <<cont, image, ret, reader_pid, r_pipe, w_pipe, ipc_read_done,
                 system, pipe>>

SignalCancelDone ==
  /\ sig = "waitpid"
  /\ AfterWait(FALSE)
  /\ sig' = "none"
  /\ UNCHANGED <<at, cont, ret>>
-----------------------------------------------------------------------------
(* The reader process of scan p.                                           *)

\* thread_entry: from here on SIGUSR1 is only pending.
ReaderEntry(p) ==
  /\ pc[p] = "entry"
  /\ pc' = [pc EXCEPT ![p] = "prepare"]
  /\ UNCHANGED <<parent, frontend, handle, system, device, line, usr1, result, pipe>>

\* usbDev_Prepare: calibration and the first data from the device.
ReaderPrepare(p) ==
  /\ pc[p] = "prepare"
  /\ pc' = [pc EXCEPT ![p] = "ipc"]
  /\ \E r \in {"ok", "abort", "error", "busy"} : result' = [result EXCEPT ![p] = r]
  /\ UNCHANGED <<parent, frontend, handle, system, device, line, usr1, pipe>>

\* A write blocks while the pipe is full; with nobody left to read it fails
\* (SIGPIPE is blocked) and the result is not looked at.
WriteUnit(p, u) ==
  \/ /\ <<"r", p>> \in fds
     /\ Len(pipe[p]) < PipeCap
     /\ pipe' = [pipe EXCEPT ![p] = Append(@, u)]
  \/ /\ <<"r", p>> \notin fds
     /\ UNCHANGED pipe

ReaderIpc(p) ==
  /\ pc[p] = "ipc"
  /\ WriteUnit(p, Ipc)
  /\ pc' = [pc EXCEPT ![p] = IF result[p] = "ok" THEN "scan" ELSE "close"]
  /\ UNCHANGED <<parent, frontend, handle, system, device, line, usr1, result>>

\* Mutant: a cancelled reader tries its line again.
ReaderLineAgain(p) ==
  /\ pc[p] = "scan"
  /\ \/ line[p] = Lines /\ pc' = [pc EXCEPT ![p] = "close"] /\ UNCHANGED line
     \/ line[p] < Lines /\ usr1[p] /\ UNCHANGED <<pc, line>>
     \/ /\ line[p] < Lines /\ ~usr1[p]
        /\ pc' = [pc EXCEPT ![p] = "write"]
        /\ line' = [line EXCEPT ![p] = @ + 1]
  /\ UNCHANGED <<parent, frontend, handle, system, device, usr1, result, pipe>>

\* The head of the loop and usbDev_ReadLine, which looks for SIGUSR1 first.
ReaderLine(p) ==
  /\ pc[p] = "scan"
  /\ \/ /\ line[p] = Lines
        /\ pc' = [pc EXCEPT ![p] = "close"]
        /\ UNCHANGED <<line, result>>
     \/ /\ line[p] < Lines /\ usr1[p]
        /\ pc' = [pc EXCEPT ![p] = "close"]
        /\ result' = [result EXCEPT ![p] = "abort"]
        /\ UNCHANGED line
     \/ /\ line[p] < Lines /\ ~usr1[p]
        /\ pc' = [pc EXCEPT ![p] = "write"]
        /\ line' = [line EXCEPT ![p] = @ + 1]
        /\ UNCHANGED result
  /\ UNCHANGED <<parent, frontend, handle, system, device, usr1, pipe>>

ReaderWrite(p) ==
  /\ pc[p] = "write"
  /\ WriteUnit(p, line[p])
  /\ pc' = [pc EXCEPT ![p] = "scan"]
  /\ UNCHANGED <<parent, frontend, handle, system, device, line, usr1, result>>

ReaderClose(p) ==
  /\ pc[p] = "close"
  /\ pc' = [pc EXCEPT ![p] = "exit"]
  /\ UNCHANGED <<parent, frontend, handle, system, device, line, usr1, result, pipe>>

ReaderExit(p) ==
  /\ pc[p] = "exit"
  /\ pc' = [pc EXCEPT ![p] = "zombie"]
  /\ UNCHANGED <<parent, frontend, handle, system, device, line, usr1, result, pipe>>
-----------------------------------------------------------------------------
Reader(p) == \/ ReaderEntry(p) \/ ReaderPrepare(p) \/ ReaderIpc(p)
             \/ ReaderLine(p) \/ ReaderWrite(p) \/ ReaderClose(p) \/ ReaderExit(p)

InsideRead == \/ ReadIpc \/ ReadIpcFails \/ ReadIpcAgain \/ ReadIpcSpins
              \/ ReadAfterCancel \/ ReadData \/ ReadAgain \/ ReadFails
              \/ EndAfterWait \/ ReadEndOfFile \/ EndOfScan

\* The frontend cancels a scan before it closes the handle, as the SANE
\* frontends do.
Calls == \/ SaneOpen \/ StartWhileScanning \/ StartRejected \/ SaneStart
         \/ SaneRead \/ SaneCancel
         \/ ~scanning /\ SaneClose
         \/ SaneSetIoMode

InsideStart == \/ StartWithoutPipe \/ StartReader
               \/ ReaderValid \/ ReaderStarted \/ ReaderNotStarted

Next == \/ Calls
        \/ InsideStart
        \/ InsideRead
        \/ CancelDone \/ SignalCancel \/ SignalCancelDone
        \/ \E p \in Scans : Reader(p)

Spec == Init /\ [][Next]_vars

\* The scheduler runs both processes; whether the frontend calls again, and
\* when it is interrupted, is the user's.
Fairness == /\ WF_vars(InsideStart)
            /\ WF_vars(InsideRead)
            /\ WF_vars(CancelDone)
            /\ WF_vars(SignalCancelDone)
            /\ \A p \in Scans : WF_vars(Reader(p))

FairSpec == Spec /\ Fairness

\* A frontend that also keeps reading during a scan, as scan_it of scanimage.c
\* does.
EagerSpec == FairSpec /\ WF_vars(scanning /\ SaneRead)
-----------------------------------------------------------------------------
(* Every variable has its type.                                            *)
ParentOK   == /\ at \in {"closed", "idle", "starting", "forked", "valid", "ipc",
                         "data", "wait_end", "status", "waitpid", "dead"}
              /\ sig \in {"none", "waitpid"}
              /\ cont \in [close : BOOLEAN, ret : Statuses]
FrontendOK == /\ early \in BOOLEAN
              /\ image \in Seq(0 .. Lines)
              /\ ret \in Statuses
HandleOK   == /\ scanning \in BOOLEAN
              /\ reader_pid \in Scans \cup {NoPid, ZeroPid}
              /\ r_pipe \in Scans \cup {NoFd}
              /\ w_pipe \in Scans \cup {NoFd}
              /\ ipc_read_done \in BOOLEAN
SystemOK   == /\ nonblock \in BOOLEAN
              /\ fds \subseteq {"r", "w"} \X Scans
              /\ used \in 0 .. MaxScans
DeviceOK   == hw \in HwStates /\ sigalrmBlocked \in BOOLEAN
ReaderOK   == /\ pc \in [Scans -> Alive \cup {"none", "zombie", "reaped"}]
              /\ line \in [Scans -> 0 .. Lines]
              /\ usr1 \in [Scans -> BOOLEAN]
              /\ result \in [Scans -> Results]
PipeOK     == pipe \in [Scans -> Seq(0 .. Lines)]

TypeOK == /\ ParentOK /\ FrontendOK /\ HandleOK /\ SystemOK
          /\ DeviceOK /\ ReaderOK /\ PipeOK

DeviceHeld == \A p \in Scans : pc[p] \in Running =>
                hw = "open" /\ reader_pid = p /\ sigalrmBlocked

(* As long as a reader process may still drive the scanner, the backend    *)
(* holds the device open (and with it the access lock and the scan buffer, *)
(* the lamp timer stopped) and that process is the one it knows as its     *)
(* reader: drvclose never pulls the device from under a reader, and there  *)
(* are never two of them, in whatever order cancel, end of file, failures  *)
(* and the next sane_start come.  What breaks it is a sane_cancel that a   *)
(* signal handler makes inside sane_start before the reader is known       *)
(* (plustek.c:2603-2622): the reader is forked all the same.               *)
ReaderHoldsDevice == ~early => DeviceHeld

(* Between scans nothing is left of the last one: its reader was waited    *)
(* for, or had to be sent SIGKILL, and the device was closed.  After such  *)
(* an early sane_cancel that is true of the device only.                   *)
Settled == at \in {"idle", "closed"} /\ ~scanning
SessionCleared ==
  Settled => /\ hw # "open"
             /\ ~early => \A p \in Scans :
                            \/ pc[p] \in {"none", "reaped"}
                            \/ pc[p] = "zombie" /\ result[p] = "sigkill"

(* do_cancel runs before a reader_pid was ever assigned, and so sends      *)
(* SIGUSR1 to process group 0, the frontend's own, in two places only:     *)
(* from a signal handler inside the first sane_start of a handle, and from *)
(* a sane_read on a handle no scan was started on.  No order of other      *)
(* calls, failures and signals gets there.                                 *)
SignalsOwnGroup    == at # "dead" /\ at' = "dead"
CancelSparesOwnGroup ==
  [][SignalsOwnGroup => \/ at = "starting" /\ scanning
                        \/ at = "ipc" /\ ~scanning /\ r_pipe = NoFd]_vars

(* The session is a SANE handle: see SaneHandle for what that promises.    *)
SANE == INSTANCE SaneHandle WITH open <- at # "closed"
ImplementsSaneHandle == SANE!Spec

(* sane_cancel, and the do_cancel inside a failing sane_read, come back:   *)
(* the reader sees the pending SIGUSR1 at its next line, or is gone.       *)
CancelReturns == /\ (at = "waitpid") ~> (at # "waitpid")
                 /\ (sig = "waitpid") ~> (sig = "none")

(* With a pipe smaller than the picture, as it is in practice, the only    *)
(* thing that can keep do_cancel waiting is a reader blocked in write.     *)
WriteBlocked == /\ reader_pid \in Scans /\ pc[reader_pid] = "write"
                /\ Len(pipe[reader_pid]) = PipeCap
CancelReturnsUnlessBlocked ==
  /\ (at = "waitpid") ~> (at # "waitpid" \/ WriteBlocked)
  /\ (sig = "waitpid") ~> (sig = "none" \/ WriteBlocked)

(* A sane_read during a scan comes back, with data, the end or an error,   *)
(* unless a signal handler cancels the scan under it.                      *)
ReadReturns == (InRead /\ scanning) ~> (~InRead \/ ~scanning)

(* Every sane_read after a sane_start that returned SANE_STATUS_GOOD comes *)
(* back: the reader process writes its IPC record "back to parent in any   *)
(* case" (plustek.c:518), and the loop that reads it counts on that.       *)
ReaderWasStarted == r_pipe # NoFd /\ w_pipe = NoFd
EveryReadReturns == (InRead /\ ReaderWasStarted) ~> ~InRead

(* A frontend that keeps calling sane_read gets the scan over with, in the *)
(* blocking mode and the other one, whatever the reader ran into.          *)
ScanEnds == scanning ~> ~scanning
=============================================================================
