----------------------------- MODULE AccessLock -----------------------------
(***************************************************************************)
(* The lock file of sanei/sanei_access.c, as built with ENABLE_LOCKING:    *)
(* several frontends, each a process, and one device.  A process takes the *)
(* lock by creating the file exclusively and then writes its pid into it;  *)
(* one that finds the file looks whether its owner lives, removes it if    *)
(* not, and tries again, `Tries' times.                                    *)
(*                                                                         *)
(* Creating and writing are two system calls, and so are judging a file    *)
(* and removing it.  Between any two of them the others go on, and a       *)
(* process may die.                                                        *)
(***************************************************************************)
EXTENDS Integers

CONSTANTS
    Proc,        \* processes; a pid is never used again
    Mortal,      \* those that may be killed
    Tries,       \* the timeout handed to sanei_access_lock, in attempts
    EmptyPid     \* what a file without a pid may be taken for

ASSUME LockAssumption ==
    /\ Mortal \subseteq Proc
    /\ Tries \in Nat \ {0}
    /\ EmptyPid \subseteq {"dead", "self", "other"}
    /\ EmptyPid # {}
    /\ "nobody" \notin Proc

VARIABLES
    file,        \* the lock file: who created it, and whether the pid is in
    lpc,         \* where a process is in sanei_access_lock
    tries,       \* attempts left
    holds,       \* who was told that the lock is his, and has not unlocked
    alive

lockVars == <<file, lpc, tries, holds, alive>>

NoFile == [by |-> "nobody", written |-> FALSE]

Files == {NoFile} \cup [by : Proc, written : BOOLEAN]

LockPoints ==
    {"out",      \* not in sanei_access_lock
     "open",     \* before open( O_CREAT | O_EXCL )
     "write",    \* the file is created, the pid not written
     "check",    \* the file exists: get_lock_status
     "unlink",   \* its owner was found dead
     "good", "denied"}

LockTypeOK ==
    /\ file \in Files
    /\ lpc \in [Proc -> LockPoints]
    /\ tries \in [Proc -> 0 .. Tries]
    /\ holds \in [Proc -> BOOLEAN]
    /\ alive \in [Proc -> BOOLEAN]

LockInit ==
    /\ file = NoFile
    /\ lpc = [p \in Proc |-> "out"]
    /\ tries = [p \in Proc |-> 0]
    /\ holds = [p \in Proc |-> FALSE]
    /\ alive = [p \in Proc |-> TRUE]

-----------------------------------------------------------------------------

Go(p, point) == lpc' = [lpc EXCEPT ![p] = point]

\* Mutant: the timeout is not counted down.
NextTryForEver(p) == Go(p, "open") /\ UNCHANGED tries

\* The loop is entered again, or left with SANE_STATUS_ACCESS_DENIED.
NextTry(p) ==
    /\ tries' = [tries EXCEPT ![p] = @ - 1]
    /\ Go(p, IF tries[p] > 1 THEN "open" ELSE "denied")

Granted(p) ==
    /\ Go(p, "good")
    /\ holds' = [holds EXCEPT ![p] = TRUE]

LockCall(p) ==
    /\ lpc[p] = "out"
    /\ tries' = [tries EXCEPT ![p] = Tries]
    /\ Go(p, "open")
    /\ UNCHANGED <<file, holds, alive>>

\* Mutant: the file is opened without O_EXCL.
TryCreateNotExclusive(p) ==
    /\ lpc[p] = "open"
    /\ file' = [by |-> p, written |-> FALSE]
    /\ Go(p, "write")
    /\ UNCHANGED <<tries, holds, alive>>

TryCreate(p) ==
    /\ lpc[p] = "open"
    /\ IF file = NoFile
       THEN file' = [by |-> p, written |-> FALSE] /\ Go(p, "write")
       ELSE Go(p, "check") /\ UNCHANGED file
    /\ UNCHANGED <<tries, holds, alive>>

\* The pid goes into the file that was created, which may have been removed.
WritePid(p) ==
    /\ lpc[p] = "write"
    /\ file' = IF file.by = p THEN [file EXCEPT !.written = TRUE] ELSE file
    /\ Granted(p)
    /\ UNCHANGED <<tries, alive>>

\* get_lock_status: a file that is gone counts as somebody else's, the buffer
\* a file without a pid is read into is not initialised.
LockStatus(p) ==
    IF file = NoFile THEN {"other"}
    ELSE IF ~file.written THEN EmptyPid
    ELSE IF file.by = p THEN {"self"}
    ELSE IF alive[file.by] THEN {"other"}
    ELSE {"dead"}

CheckLock(p) ==
    /\ lpc[p] = "check"
    /\ \E status \in LockStatus(p) :
          CASE status = "self"  -> Granted(p) /\ UNCHANGED tries
            [] status = "dead"  -> Go(p, "unlink") /\ UNCHANGED <<tries, holds>>
            [] status = "other" -> NextTry(p) /\ UNCHANGED holds
    /\ UNCHANGED <<file, alive>>

\* Whatever file there is now, the one that was judged or another.
UnlinkDead(p) ==
    /\ lpc[p] = "unlink"
    /\ file' = NoFile
    /\ NextTry(p)
    /\ UNCHANGED <<holds, alive>>

LockReturn(p) ==
    /\ lpc[p] \in {"good", "denied"}
    /\ Go(p, "out")
    /\ UNCHANGED <<file, tries, holds, alive>>

\* sanei_access_unlock removes the file of that name, whosever it is.
Unlock(p) ==
    /\ file' = NoFile
    /\ holds' = [holds EXCEPT ![p] = FALSE]
    /\ UNCHANGED <<lpc, tries, alive>>

\* A process that ends leaves the file behind.
Ends(p) ==
    /\ alive[p]
    /\ alive' = [alive EXCEPT ![p] = FALSE]
    /\ holds' = [holds EXCEPT ![p] = FALSE]
    /\ Go(p, "out")
    /\ UNCHANGED <<file, tries>>

Die(p) == p \in Mortal /\ Ends(p)

LockStep(p) ==
    /\ alive[p]
    /\ \/ TryCreate(p)
       \/ WritePid(p)
       \/ CheckLock(p)
       \/ UnlinkDead(p)

-----------------------------------------------------------------------------

\* sanei_access.h: locks "protect device access from more than one frontend
\* simultaneously": at most one process believes that it has the lock.
Exclusion == \A p, q \in Proc : holds[p] /\ holds[q] => p = q

=============================================================================
