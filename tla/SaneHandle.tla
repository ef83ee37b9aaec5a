----------------------------- MODULE SaneHandle -----------------------------
(***************************************************************************)
(* What a SANE handle of this backend promises its frontend, whatever goes *)
(* on between the backend process, its reader process and the pipe between *)
(* them: lines come in order and only during a scan, SANE_STATUS_EOF means *)
(* the whole image was handed over, and a cancelled or failed scan never   *)
(* starts again by itself.  ScanSession implements it.                     *)
(***************************************************************************)
EXTENDS Naturals, Sequences

CONSTANT Lines              \* lines of the image of a scan

VARIABLES open,             \* the handle is open
          scanning,         \* between sane_start and the end of the scan
          image,            \* the lines sane_read has returned, in order
          ret               \* what the last call returned

hvars == <<open, scanning, image, ret>>

WholeImage == [i \in 1 .. Lines |-> i]
Failures   == {"CANCELLED", "DEVICE_BUSY", "IO_ERROR"}

Init == /\ open = FALSE
        /\ scanning = FALSE
        /\ image = <<>>
        /\ ret = "GOOD"

Open == /\ ~open
        /\ open' = TRUE
        /\ scanning' = FALSE
        /\ image' = <<>>
        /\ ret' = "GOOD"

Start == /\ open /\ ~scanning
         /\ scanning' = TRUE
         /\ image' = <<>>
         /\ UNCHANGED <<open, ret>>

\* sane_read hands over the next n lines; with n = 0 it has nothing yet.
Deliver == /\ open /\ scanning
           /\ \E n \in 0 .. Lines - Len(image) :
                image' = [i \in 1 .. Len(image) + n |-> i]
           /\ ret' = "GOOD"
           /\ UNCHANGED <<open, scanning>>

\* sane_read found nothing to return after the scan was cancelled behind it.
Nothing == /\ open
           /\ ret' = "GOOD"
           /\ UNCHANGED <<open, scanning, image>>

Finish == /\ open
          /\ image = WholeImage
          /\ scanning' = FALSE
          /\ ret' = "EOF"
          /\ UNCHANGED <<open, image>>

Fail == /\ open
        /\ ret' \in Failures
        /\ scanning' \in {scanning, FALSE}
        /\ image' \in {image} \cup (IF scanning THEN {} ELSE {<<>>})
        /\ UNCHANGED open

Cancel == /\ open
          /\ scanning' = FALSE
          /\ UNCHANGED <<open, image, ret>>

Close == /\ open /\ ~scanning
         /\ open' = FALSE
         /\ UNCHANGED <<scanning, image, ret>>

Next == Open \/ Start \/ Deliver \/ Nothing \/ Finish \/ Fail \/ Cancel \/ Close

Spec == Init /\ [][Next]_hvars
=============================================================================
