---------------------------- MODULE Calibration ----------------------------
(***************************************************************************)
(* Calibration started by option (OPT_CALIBRATE) and its part in the scans *)
(* of backend/plustek.c, in a fork build: a child process runs             *)
(* do_calibration while s->calibrating is TRUE in the frontend's process,  *)
(* and the handler of SIGCHLD resets it when "a child is going down",      *)
(* through the one global variable sc.  sane_start waits for that.         *)
(*                                                                         *)
(* How a scan runs in detail is module ScanSession's; here a reader simply *)
(* ends at some time and the frontend reads up to that.  The handler runs  *)
(* the moment a child dies, before the frontend's process goes on.         *)
(***************************************************************************)
EXTENDS Integers, FiniteSets

CONSTANTS Handles,
          None,       \* the null handle
          MaxProcs,   \* bound: processes forked in a run
          Faults      \* "nofork": fork may fail;  "fast": do_calibration may be
                      \* over before the two statements that follow the fork;
                      \* "stuck": a child may outlast the alarm of do_cancel

ASSUME CalibrationAssumption == /\ None \notin Handles
                                /\ MaxProcs \in Nat \ {0}
                                /\ Faults \subseteq {"nofork", "fast", "stuck"}

Procs   == 1 .. MaxProcs
NoPid   == -1              \* fork failed, or sanei_thread_invalidate
ZeroPid == 0               \* the memset of sane_open

VARIABLES
  at, who, cont,           \* the frontend's process: position, handle, caller of do_cancel
  open,                    \* first_handle
  scanning, calibrating, reader_pid,     \* Plustek_Scanner
  sc, cancelRead,          \* globals of plustek.c
  caught,                  \* is sig_chldhandler installed?
  used,                    \* processes forked so far
  proc, of                 \* what a process does, and for which handle

parent  == <<at, who, cont>>
handle  == <<open, scanning, calibrating, reader_pid>>
globals == <<sc, cancelRead, caught>>
procs   == <<used, proc, of>>
vars    == <<parent, handle, globals, procs>>

Live == {"calib", "scan", "dying"}    \* dying: SIGKILL is on its way

Init == /\ at = "idle" /\ who = None /\ cont = "idle"
        /\ open = [h \in Handles |-> FALSE]
        /\ scanning = [h \in Handles |-> FALSE]
        /\ calibrating = [h \in Handles |-> FALSE]
        /\ reader_pid = [h \in Handles |-> ZeroPid]
        /\ sc = None /\ cancelRead = FALSE /\ caught = FALSE
        /\ used = 0
        /\ proc = [p \in Procs |-> "none"]
        /\ of = [p \in Procs |-> None]
-----------------------------------------------------------------------------
Enter(pos, h) == at' = pos /\ who' = h
Leave         == at' = "idle" /\ who' = None

\* sig_chldhandler, when a child dies and the handler is there.
SigChld == caught /\ sc # None
ClearedBy(flags) == IF SigChld THEN [flags EXCEPT ![sc] = FALSE] ELSE flags

\* Mutant: the handler leaves sc as it is.
ChildDownKeeps == UNCHANGED sc

ChildDown == sc' = IF SigChld THEN None ELSE sc

\* fork(): a process that does `what' for handle h, or none.
Fork(h, what) ==
  \/ /\ used < MaxProcs
     /\ used' = used + 1
     /\ proc' = [proc EXCEPT ![used'] = what]
     /\ of' = [of EXCEPT ![used'] = h]
     /\ reader_pid' = [reader_pid EXCEPT ![h] = used']
  \/ /\ "nofork" \in Faults
     /\ reader_pid' = [reader_pid EXCEPT ![h] = NoPid]
     /\ UNCHANGED procs

\* do_cancel up to its waitpid; `then' is where its caller goes on.
DoCancel(h, then) ==
  /\ scanning' = [scanning EXCEPT ![h] = FALSE]
  /\ calibrating' = [calibrating EXCEPT ![h] = FALSE]
  /\ cont' = then
  /\ IF reader_pid[h] # NoPid
     THEN Enter("waitpid", h) /\ cancelRead' = TRUE
     ELSE at' = then /\ who' = h /\ UNCHANGED cancelRead
  /\ UNCHANGED <<open, reader_pid, sc, caught, procs>>
-----------------------------------------------------------------------------
SaneOpen(h) ==
  /\ at = "idle" /\ ~open[h]
  /\ open' = [open EXCEPT ![h] = TRUE]
  /\ scanning' = [scanning EXCEPT ![h] = FALSE]
  /\ calibrating' = [calibrating EXCEPT ![h] = FALSE]
  /\ reader_pid' = [reader_pid EXCEPT ![h] = ZeroPid]
  /\ UNCHANGED <<parent, globals, procs>>

\* Frontends cancel a scan before they close its handle.
SaneClose(h) ==
  /\ at = "idle" /\ open[h] /\ ~scanning[h]
  /\ IF calibrating[h]
     THEN DoCancel(h, "close")
     ELSE Enter("close", h) /\ UNCHANGED <<cont, handle, globals, procs>>

CloseHandle ==
  /\ at = "close"
  /\ open' = [open EXCEPT ![who] = FALSE]
  /\ Leave
  /\ UNCHANGED <<cont, scanning, calibrating, reader_pid, globals, procs>>

\* Mutant: sane_cancel cancels whatever the handle is doing.
SaneCancelAlways(h) ==
  /\ at = "idle" /\ open[h]
  /\ DoCancel(h, "leave")

SaneCancel(h) ==
  /\ at = "idle" /\ open[h] /\ (scanning[h] \/ calibrating[h])
  /\ DoCancel(h, "leave")

\* sane_control_option sets OPT_CALIBRATE: while calibrating it cancels.
Calibrate(h) ==
  /\ at = "idle" /\ open[h] /\ ~scanning[h]
  /\ \/ calibrating[h] /\ DoCancel(h, "leave")
     \/ /\ ~calibrating[h]
        /\ Fork(h, "calib")
        /\ sc' = h
        /\ Enter("forked", h)
        /\ UNCHANGED <<cont, open, scanning, calibrating, cancelRead, caught>>

\* Mutant: s->calibrating is not set.
CalibrateMarksNothing ==
  /\ at = "forked"
  /\ Enter("marked", who)
  /\ UNCHANGED <<cont, handle, globals, procs>>

CalibrateMarks ==
  /\ at = "forked"
  /\ calibrating' = [calibrating EXCEPT ![who] = TRUE]
  /\ Enter("marked", who)
  /\ UNCHANGED <<cont, open, scanning, reader_pid, globals, procs>>

\* Mutant: without the handler of SIGCHLD.
CalibrateCatchesNothing ==
  /\ at = "marked"
  /\ Leave
  /\ UNCHANGED <<cont, handle, globals, procs>>

CalibrateCatches ==
  /\ at = "marked"
  /\ caught' = TRUE
  /\ Leave
  /\ UNCHANGED <<cont, handle, sc, cancelRead, procs>>

\* Mutant: sane_start does not wait for the calibration.
SaneStartAtOnce(h) ==
  /\ at = "idle" /\ open[h] /\ ~scanning[h]
  /\ Enter("start", h)
  /\ UNCHANGED <<cont, handle, globals, procs>>

SaneStart(h) ==
  /\ at = "idle" /\ open[h] /\ ~scanning[h]
  /\ Enter(IF calibrating[h] THEN "wait" ELSE "start", h)
  /\ UNCHANGED <<cont, handle, globals, procs>>

\* In the end we wait until the calibration is done...
StartWaited ==
  /\ at = "wait" /\ ~calibrating[who]
  /\ ~cancelRead
  /\ Enter("start", who)
  /\ UNCHANGED <<cont, handle, globals, procs>>

StartCancelled ==
  /\ at = "wait" /\ ~calibrating[who]
  /\ cancelRead
  /\ Leave
  /\ UNCHANGED <<cont, handle, globals, procs>>

\* A signal handler of the frontend calls sane_cancel meanwhile.
SignalCancel ==
  /\ at = "wait" /\ calibrating[who]
  /\ DoCancel(who, "wait")

StartRejected ==
  /\ at = "start"
  /\ Leave
  /\ UNCHANGED <<cont, handle, globals, procs>>

StartReader ==
  /\ at = "start"
  /\ Fork(who, "scan")
  /\ scanning' = [scanning EXCEPT ![who] = reader_pid'[who] # NoPid]
  /\ cancelRead' = FALSE
  /\ caught' = (caught \/ reader_pid'[who] # NoPid)
  /\ Leave
  /\ UNCHANGED <<cont, open, calibrating, sc>>

\* The frontend reads up to the end of the file and the reader has exited.
EndOfScan(h) ==
  /\ at = "idle" /\ scanning[h]
  /\ reader_pid[h] \in Procs /\ proc[reader_pid[h]] = "zombie"
  /\ proc' = [proc EXCEPT ![reader_pid[h]] = "reaped"]
  /\ reader_pid' = [reader_pid EXCEPT ![h] = NoPid]
  /\ scanning' = [scanning EXCEPT ![h] = FALSE]
  /\ UNCHANGED <<parent, open, calibrating, globals, used, of>>

\* The waitpid of do_cancel returns, after 10 seconds at the latest, when
\* SIGKILL follows and nobody waits for it to do its work.
CancelDone ==
  /\ at = "waitpid"
  /\ \/ /\ proc[reader_pid[who]] \notin Live
        /\ proc' = [proc EXCEPT ![reader_pid[who]] = "reaped"]
     \/ /\ "stuck" \in Faults
        /\ proc[reader_pid[who]] \in Live
        /\ proc' = [proc EXCEPT ![reader_pid[who]] = "dying"]
  /\ calibrating' = [calibrating EXCEPT ![who] = FALSE]
  /\ reader_pid' = [reader_pid EXCEPT ![who] = NoPid]
  /\ Enter(cont, who)
  /\ UNCHANGED <<cont, open, scanning, globals, used, of>>

CancelLeaves ==
  /\ at = "leave"
  /\ Leave
  /\ UNCHANGED <<cont, handle, globals, procs>>

\* A child of the frontend's process exits.
ChildExits(p) ==
  /\ proc[p] \in Live
  /\ "fast" \in Faults \/ at \notin {"forked", "marked"} \/ proc[p] # "calib"
  /\ proc' = [proc EXCEPT ![p] = "zombie"]
  /\ calibrating' = ClearedBy(calibrating)
  /\ ChildDown
  /\ UNCHANGED <<parent, open, scanning, reader_pid, cancelRead, caught, used, of>>
-----------------------------------------------------------------------------
Call(h) == \/ SaneOpen(h) \/ SaneClose(h) \/ SaneCancel(h)
           \/ Calibrate(h) \/ SaneStart(h) \/ EndOfScan(h)

Inside == \/ CalibrateMarks \/ CalibrateCatches
          \/ StartWaited \/ StartCancelled \/ StartRejected \/ StartReader
          \/ CancelDone \/ CancelLeaves \/ CloseHandle

Next == \/ \E h \in Handles : Call(h)
        \/ Inside
        \/ SignalCancel
        \/ \E p \in Procs : ChildExits(p)

Spec == Init /\ [][Next]_vars

\* A call goes on to its end and a child does not run for ever.  What the user
\* calls, and whether a signal comes, is left open.
FairSpec == Spec /\ WF_vars(Inside) /\ \A p \in Procs : WF_vars(ChildExits(p))
-----------------------------------------------------------------------------
(* Every variable has its type, and do_cancel only ever waits for a child  *)
(* that was forked: waitpid(-1) and waitpid(0) would wait for any.         *)
TypeOK ==
  /\ at \in {"idle", "forked", "marked", "wait", "start", "waitpid", "leave", "close"}
  /\ who \in Handles \cup {None} /\ cont \in {"idle", "leave", "close", "wait"}
  /\ (who = None) <=> (at = "idle")
  /\ at = "waitpid" => reader_pid[who] \in 1 .. used
  /\ open \in [Handles -> BOOLEAN]
  /\ scanning \in [Handles -> BOOLEAN] /\ calibrating \in [Handles -> BOOLEAN]
  /\ reader_pid \in [Handles -> Procs \cup {NoPid, ZeroPid}]
  /\ sc \in Handles \cup {None} /\ cancelRead \in BOOLEAN /\ caught \in BOOLEAN
  /\ used \in 0 .. MaxProcs
  /\ proc \in [Procs -> Live \cup {"none", "zombie", "reaped"}]
  /\ of \in [Procs -> Handles \cup {None}]

(* While the calibration process of a handle runs, the handle knows it:    *)
(* options are refused and sane_start waits, until the process is down or  *)
(* do_cancel is waiting for it.                                            *)
KnownCalibration ==
  \A p \in Procs : proc[p] = "calib" =>
    \/ calibrating[of[p]]
    \/ who = of[p] /\ at \in {"forked", "waitpid"}

(* A handle's calibration and its scan never drive the device together.    *)
OneProcess ==
  \A p, q \in Procs : p # q /\ proc[p] \in Live /\ proc[q] \in Live => of[p] # of[q]

(* Between calls sc names the handle that calibrates and nothing else, so  *)
(* sig_chldhandler neither misses one nor writes to a handle that          *)
(* sane_close has freed.                                                   *)
ScNamesTheCalibrating ==
  at = "idle" => \A h \in Handles : sc = h <=> open[h] /\ calibrating[h]

(* sane_start comes back from its wait: "in the end we wait until the      *)
(* calibration is done..." (plustek.c:2587).                               *)
StartReturns == (at = "wait") ~> (at # "wait")
=============================================================================
