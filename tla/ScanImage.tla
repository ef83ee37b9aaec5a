------------------------------ MODULE ScanImage ------------------------------
(***************************************************************************)
(* scanimage from the first page to its exit: the loop over the pages of a *)
(* batch, the files it writes, renames and removes, the bytes of a picture *)
(* on their way from sane_read to a file, and a signal handler that calls  *)
(* sane_cancel anywhere.  Of the formats those the build has: pnm, which   *)
(* wants 16 bit samples the other way round, and tiff.                     *)
(*                                                                         *)
(* The backend is a handle that hands over a picture in pieces of any size *)
(* and that forgets the picture when it is cancelled.  A byte of the       *)
(* picture is its number, the header of the file is left out.  Neither its *)
(* sane_cancel nor its sane_read has to return: see Blocked.               *)
(***************************************************************************)
EXTENDS Integers, Sequences

CONSTANTS
    Jobs,       \* what is asked for: records batch, count, prompt, increment,
                \*   named (a file is), swapped (pnm of 16 bit samples)
    Bytes,      \* of a picture
    Chunk,      \* the most sane_read hands over at once: --buffer-size
    Last,       \* bound: no page after this number
    Faults      \* what may fail

Unlimited == -1

ASSUME ScanImageAssumption ==
    /\ \A j \in Jobs :
          /\ {j.batch, j.prompt, j.named, j.swapped} \subseteq BOOLEAN
          /\ j.count \in Int
          /\ j.increment \in Nat \ {0}
          /\ ~(j.batch /\ j.named)
    /\ Bytes \in Nat \ {0} /\ Bytes % 2 = 0
    /\ Chunk \in Nat \ {0}
    /\ Last \in Nat \ {0}
    /\ Faults \subseteq {"start", "read", "fopen", "write", "fclose", "rename", "cancel", "spin"}

VARIABLES
    job,
    pc,
    n, count,    \* number of the page; pages still to be scanned
    status,      \* of the last call, and what the program exits with
    ofp,         \* the open file, or NoFile
    files,       \* contents
    scanning,    \* the backend has a picture to hand over
    got,         \* bytes of it that sane_read has returned
    hangOver,    \* a byte kept for the next round, or None
    signals,     \* how many were caught
    hit,         \* the first one came while a picture was being scanned
    lost         \* pages that a failed write left bytes out of

vars == <<job, pc, n, count, status, ofp, files, scanning, got, hangOver,
          signals, hit, lost>>

None == 0
Absent == <<-1>>             \* the content of a file that is not there
Page(k) == <<"path", k>>     \* path and part_path of a batch
Part(k) == <<"part_path", k>>
Out == <<"output", 0>>       \* output_file, or standard output
NoFile == <<"none", 0>>
Files == {Page(k) : k \in 1 .. Last} \cup {Part(k) : k \in 1 .. Last} \cup {Out}

Ended == {"exited", "returned", "aborted"}
May(fault) == fault \in Faults

\* The program is inside a call of the backend that does not come back: in
\* do_cancel, that waits for a reader blocked on a full pipe, or in sane_read,
\* that waits for the first record of a reader killed before it sent that.  Only
\* a second signal gets it out of there.
Blocked == "blocked"

\* Where the program may be after a do_cancel behind which it goes on at p.
AfterCancel(p) == {p} \cup (IF scanning /\ May("cancel") THEN {Blocked} ELSE {})

Put(file, content) == files' = [files EXCEPT ![file] = content]

-----------------------------------------------------------------------------
\* A chunk on its way into a pnm file of 16 bit samples: a byte kept from the
\* last round goes out behind the first one of this, the samples after it are
\* turned, and a byte without its partner is kept.

Offset == IF hangOver = None THEN 0 ELSE 1
Single(c) == (Len(c) - Offset) % 2

Kept(c) == IF Single(c) = 1 THEN c[Len(c)] ELSE None

Pairs(c) ==
    [i \in 1 .. Len(c) - Offset - Single(c) |->
        c[Offset + (IF i % 2 = 1 THEN i + 1 ELSE i - 1)]]

\* A mutant of Turned: the kept byte goes out first.
TurnedInOrder(c) == (IF Offset = 1 THEN <<hangOver, c[1]>> ELSE <<>>) \o Pairs(c)

Turned(c) == (IF Offset = 1 THEN <<c[1], hangOver>> ELSE <<>>) \o Pairs(c)

-----------------------------------------------------------------------------
Init ==
    /\ job \in Jobs
    /\ pc = "page"
    /\ n = 1 /\ count = job.count
    /\ status = "GOOD"
    /\ ofp = IF job.batch THEN NoFile ELSE Out
    /\ files = [f \in Files |-> IF f = ofp THEN <<>> ELSE Absent]
    /\ scanning = FALSE /\ got = 0 /\ hangOver = None
    /\ signals = 0 /\ hit = FALSE
    /\ lost = {}

picture == <<got, hangOver, lost>>
signalled == <<signals, hit>>

\* return from main behind nothing but a sane_cancel.
ReturnDenied ==
    /\ pc' \in AfterCancel("returned")
    /\ status' = "ACCESS_DENIED"
    /\ scanning' = FALSE
    /\ UNCHANGED <<job, n, count, ofp, files, picture, signalled>>

\* In a batch the user may be asked to go on, and ends it with an end of file.
NextPage ==
    /\ pc = "page"
    /\ \/ pc' = "start"
       \/ job.batch /\ job.prompt /\ pc' = "over"
    /\ UNCHANGED <<job, n, count, status, ofp, files, scanning, picture, signalled>>

Start ==
    /\ pc = "start"
    /\ pc' = IF job.batch THEN "open" ELSE "read"
    /\ status' = "GOOD"
    /\ scanning' = TRUE /\ got' = 0 /\ hangOver' = None
    /\ UNCHANGED <<job, n, count, ofp, files, signalled, lost>>

\* The signal comes while sane_start makes the reader: sane_start succeeds all
\* the same, and the scan is cancelled; or the handler waits for the reader; or
\* it signals the process group, there being no reader's pid yet.
StartSignalled ==
    /\ pc = "start" /\ signals = 0
    /\ signals' = 1 /\ hit' = TRUE
    /\ \/ pc' = IF job.batch THEN "open" ELSE "read"
       \/ May("cancel") /\ pc' = Blocked
       \/ pc' = "aborted"
    /\ status' = "GOOD"
    /\ scanning' = FALSE /\ got' = 0 /\ hangOver' = None
    /\ UNCHANGED <<job, n, count, ofp, files, lost>>

StartFails ==
    /\ pc = "start" /\ May("start")
    /\ pc' = "over"
    /\ status' = "IO_ERROR"
    /\ ofp' = NoFile
    /\ UNCHANGED <<job, n, count, files, scanning, picture, signalled>>

OpenPart ==
    /\ pc = "open"
    /\ pc' = "read"
    /\ ofp' = Part(n)
    /\ Put(Part(n), <<>>)
    /\ UNCHANGED <<job, n, count, status, scanning, picture, signalled>>

OpenPartFails == pc = "open" /\ May("fopen") /\ ReturnDenied

-----------------------------------------------------------------------------
\* scan_it, a round of its loop at a time.

\* What sane_read has handed over goes into the file, and nobody looks whether
\* it got there.
Write(c) ==
    LET out == IF job.swapped THEN Turned(c) ELSE c
    IN  /\ hangOver' = IF job.swapped THEN Kept(c) ELSE None
        /\ \/ Put(ofp, files[ofp] \o out) /\ UNCHANGED lost
           \/ May("write") /\ lost' = lost \cup {n} /\ UNCHANGED files

Read ==
    /\ pc = "read" /\ scanning
    /\ \E len \in 1 .. Chunk :
        /\ got + len <= Bytes
        /\ got' = got + len
        /\ Write([i \in 1 .. len |-> got + i])
    /\ UNCHANGED <<job, pc, n, count, status, ofp, scanning, signalled>>

ReadEof ==
    /\ pc = "read" /\ scanning /\ got = Bytes
    /\ pc' = "scanned"
    /\ scanning' = FALSE
    /\ UNCHANGED <<job, n, count, status, ofp, files, picture, signalled>>

ReadFails ==
    /\ pc = "read"
    /\ \/ scanning /\ May("read") /\ status' = "IO_ERROR"
       \/ ~scanning /\ status' = "CANCELLED"
    /\ pc' \in AfterCancel("failed")
    /\ scanning' = FALSE
    /\ UNCHANGED <<job, n, count, ofp, files, picture, signalled>>

\* sane_read of a scan that was cancelled before its first byte: it waits for the
\* first record, or cancels once more what sane_start went on with.
ReadBlocks ==
    /\ pc = "read" /\ ~scanning /\ got = 0 /\ (May("spin") \/ May("cancel"))
    /\ pc' = Blocked
    /\ UNCHANGED <<job, n, count, status, ofp, files, scanning, picture, signalled>>

-----------------------------------------------------------------------------
\* What becomes of the file.

CloseFile ==
    /\ pc = "scanned"
    /\ pc' = IF job.batch THEN "rename" ELSE "next"
    /\ ofp' = IF job.batch \/ job.named THEN NoFile ELSE ofp
    /\ UNCHANGED <<job, n, count, status, files, scanning, picture, signalled>>

CloseFails == pc = "scanned" /\ job.batch /\ May("fclose") /\ ReturnDenied

RenamePart ==
    /\ pc = "rename"
    /\ pc' = "next"
    /\ files' = [files EXCEPT ![Page(n)] = files[Part(n)], ![Part(n)] = Absent]
    /\ UNCHANGED <<job, n, count, status, ofp, scanning, picture, signalled>>

RenameFails == pc = "rename" /\ May("rename") /\ ReturnDenied

\* A mutant of Discard: only the file of a single picture is removed.
DiscardOut ==
    /\ pc = "failed"
    /\ pc' = "next"
    /\ ofp' = IF job.batch \/ job.named THEN NoFile ELSE ofp
    /\ IF job.named THEN Put(ofp, Absent) ELSE UNCHANGED files
    /\ UNCHANGED <<job, n, count, status, scanning, picture, signalled>>

Discard ==
    /\ pc = "failed"
    /\ pc' = "next"
    /\ IF job.batch \/ job.named
       THEN ofp' = NoFile /\ Put(ofp, Absent)
       ELSE UNCHANGED <<ofp, files>>
    /\ UNCHANGED <<job, n, count, status, scanning, picture, signalled>>

-----------------------------------------------------------------------------
\* The number goes up after a failure as well, and a count of zero goes on to
\* below it: without end.
CountPage ==
    /\ n' = n + job.increment
    /\ count' = IF job.batch /\ count # Unlimited THEN count - 1 ELSE count

MorePages == job.batch /\ (count = Unlimited \/ count - 1 # 0)

\* A mutant of NextRound: a page that was not scanned ends nothing.
NextRoundAnyway ==
    /\ pc = "next"
    /\ CountPage
    /\ \/ MorePages /\ n' <= Last /\ pc' = "page"
       \/ ~MorePages /\ pc' = "over"
    /\ UNCHANGED <<job, status, ofp, files, scanning, picture, signalled>>

NextRound ==
    /\ pc = "next"
    /\ CountPage
    /\ \/ MorePages /\ status = "GOOD" /\ n' <= Last /\ pc' = "page"
       \/ ~(MorePages /\ status = "GOOD") /\ pc' = "over"
    /\ UNCHANGED <<job, status, ofp, files, scanning, picture, signalled>>

\* sane_cancel, and scanimage_exit closes the handle.
Over ==
    /\ pc = "over"
    /\ pc' = "exited"
    /\ scanning' = FALSE
    /\ UNCHANGED <<job, n, count, status, ofp, files, picture, signalled>>

\* sighandler: the first signal cancels, the second ends the process.
Signal ==
    /\ pc \notin Ended
    /\ signals < 2
    /\ signals' = signals + 1
    /\ hit' = (hit \/ (signals = 0 /\ scanning))
    /\ scanning' = (scanning /\ signals > 0)
    /\ pc' \in IF signals = 0 THEN AfterCancel(pc) ELSE {"aborted"}
    /\ UNCHANGED <<job, n, count, status, ofp, files, picture>>

Step ==
    \/ NextPage \/ Start \/ StartFails \/ OpenPart \/ OpenPartFails
    \/ Read \/ ReadEof \/ ReadFails \/ ReadBlocks
    \/ CloseFile \/ CloseFails \/ RenamePart \/ RenameFails \/ Discard
    \/ NextRound \/ Over

Next == Step \/ Signal \/ StartSignalled

Spec == Init /\ [][Next]_vars

\* The program goes on wherever it is not blocked: so does the user at the prompt.
FairSpec == Spec /\ WF_vars(Step)

-----------------------------------------------------------------------------
\* The picture as the file has to have it.
Whole == [i \in 1 .. Bytes |->
             IF ~job.swapped THEN i ELSE IF i % 2 = 1 THEN i + 1 ELSE i - 1]

Scanned == {k \in 1 .. Last : k < n /\ (k - 1) % job.increment = 0}
There == {k \in 1 .. Last : files[Page(k)] # Absent}

\* A file under its final name is a whole picture with each sample turned once,
\* however the picture was cut into chunks and wherever a signal came, but for
\* the pages a write failed on (scanimage.c: the ".part" file, hang_over).
WholePages ==
    \A k \in There : k \in lost \/ files[Page(k)] = Whole

\* Who exits by the loop has left a file for each number the loop went through,
\* the last one missing at most when the program exits with an error, all that
\* were asked for when it does not; no part of a page is left, and a picture
\* that is not one of a batch is whole or, in a file of its own, gone or not
\* begun (the ends of main's loop: break, unlink, --batch_count, status).
ExitTells ==
    pc = "exited" =>
        /\ \A k \in 1 .. Last : files[Part(k)] = Absent
        /\ There \subseteq Scanned
        /\ job.batch => Scanned \ There \subseteq
                           (IF status = "GOOD" THEN {} ELSE {n - job.increment})
        /\ job.batch /\ status = "GOOD" /\ ~job.prompt =>
              job.count > 0 /\ n = 1 + job.count * job.increment
        /\ ~job.batch /\ lost = {} =>
              \/ files[Out] = Whole
              \/ status # "GOOD" /\ (job.named => files[Out] \in {Absent, <<>>})

\* A signal that comes while a picture is being scanned ends the program, a batch
\* without end too, where the backend's sane_cancel and sane_read return: a
\* program that is still there is inside one of the two (sighandler, sane_read's
\* CANCELLED and the condition of the loop; plustek.c: the waitpid of do_cancel,
\* the loop of sane_read that reads nothing).
SignalEnds == hit ~> (pc \in Ended \/ pc = Blocked)
=============================================================================
