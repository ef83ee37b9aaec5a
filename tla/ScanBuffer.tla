----------------------------- MODULE ScanBuffer -----------------------------
(***************************************************************************)
(* The scan buffer of backend/plustek-usb*.c inside the reader process:    *)
(* usbDev_Prepare lays it out, usb_ReadData fills one block of it after    *)
(* the other and usbDev_ReadLine takes the picture out of it, one line for *)
(* each colour channel at a time, sampled down to the resolution the user  *)
(* asked for.  The buffer is a ring of par.bufs blocks of par.block lines. *)
(*                                                                         *)
(* The unit is the physical line (dwPhyBytes): a pointer into the ring is  *)
(* a slot, and a plane for where in the line the channel's samples are.    *)
(* Slots hold the number of the line the device delivered, 0 for none.     *)
(* `taken' and `failed' are history: lines taken out, has the device       *)
(* failed to answer?                                                       *)
(***************************************************************************)
EXTENDS Integers

CONSTANTS Setups,    \* what usbDev_setScanEnv and the device tables may ask for
          ULong      \* 2^64 in the build: dwLinesToProcess is an u_long

Colours == {"red", "green", "blue"}
Rgb     == [red |-> 0, green |-> 1, blue |-> 2]

(* mode: 3 channels ("ccd"), 1 channel with colour ("one") or "gray"; rank *)
(* is bSensorOrder; shift is the distance of two sensors in lines of       *)
(* PhyDpi.y, by OpticDpi.y, distance the same by OpticDpi.x.               *)
SetupOK(s) ==
  /\ s.mode \in {"ccd", "one", "gray"}
  /\ s.rank \in [Colours -> 0 .. 2]
  /\ \A c, d \in Colours : s.rank[c] = s.rank[d] => c = d
  /\ s.rows \in Nat \ {0}
  /\ s.user \in Nat \ {0} /\ s.phy \in Nat /\ s.user <= s.phy
  /\ s.shift \in Nat /\ s.distance \in Nat /\ s.shift <= s.distance
  /\ s.skip \in Nat
  /\ s.block \in Nat \ {0} /\ s.bufs \in Nat \ {0}
  /\ s.mode = "ccd" => s.block + 2 * s.shift <= s.block * s.bufs

ASSUME BufferAssumption == /\ ULong \in Nat \ {0}
                           /\ \A s \in Setups : SetupOK(s) /\ s.block < ULong

VARIABLES
  par,          \* dwLinesScanBuf, dwNumberOfScanBufs, PhyDpi.y ... of this scan
  pc,           \* where the reader is
  mem,          \* pScanBuffer
  get,          \* pbGetDataBuf
  next,         \* lines the device has delivered
  total,        \* dwTotalBytes, in lines
  toSkip, discard, toProcess,       \* bLinesToSkip, dwLinesDiscard, dwLinesToProcess
  slot, plane,  \* Red.pb, Green.pb, Blue.pb
  rowsLeft,     \* dwLinesUser
  sumY,         \* wSumY
  esc,          \* SIGUSR1 is pending
  taken, failed

ring    == <<mem, get, next, total, toSkip, discard>>
picture == <<slot, plane, rowsLeft, sumY, taken>>
vars    == <<par, pc, ring, toProcess, picture, esc, failed>>

CeilDiv(a, b) == (a + b - 1) \div b

Ring(s)     == s.block * s.bufs
Slots(s)    == 0 .. Ring(s) - 1
Channels(s) == IF s.mode = "gray" THEN {"green"} ELSE Colours

\* By how many lines a channel's sensor lags behind the first one.
Delay(s, c) == IF s.mode = "ccd" THEN s.rank[c] * s.shift ELSE 0

\* Where in a line the samples of channel c are.
Plane(s, c) == CASE s.mode = "one"  -> s.rank[c]
                 [] s.mode = "ccd"  -> Rgb[c]
                 [] s.mode = "gray" -> 0

\* Mutant: the lines for the distance of the sensors are not counted.
PhyLinesOfImage(s) == CeilDiv(s.rows * s.phy, s.user)

\* usb_GetScanLinesAndSize.
PhyLines(s) == CeilDiv(s.rows * s.phy, s.user)
                 + IF s.mode = "ccd" THEN 2 * s.distance ELSE 0

\* Mutant: not doubled for the last channel.
DiscardOnce(s) == IF s.mode = "ccd" THEN s.shift ELSE 0

Discard(s) == IF s.mode = "ccd" THEN 2 * s.shift ELSE 0

\* Mutant: sampling starts with nothing summed up.
StartSumEmpty(s) == 0

StartSum(s) == s.phy - s.user

\* usbDev_Prepare, up to its call of usb_ReadData.
Init ==
  /\ par \in Setups
  /\ pc = "first"
  /\ mem = [i \in Slots(par) |-> 0]
  /\ get = 0 /\ next = 0
  /\ total = PhyLines(par)
  /\ toSkip = par.skip /\ discard = Discard(par) /\ toProcess = 0
  /\ slot = [c \in Channels(par) |-> Delay(par, c)]
  /\ plane = [c \in Channels(par) |-> Plane(par, c)]
  /\ rowsLeft = par.rows
  /\ sumY = StartSum(par)
  /\ esc = FALSE /\ taken = 0 /\ failed = FALSE
-----------------------------------------------------------------------------
(* usb_ReadData: one turn of its loop each, called from usbDev_Prepare     *)
(* ("first") or from usbDev_ReadLine ("more").                             *)

Reading == pc \in {"first", "more"}

Min2(a, b) == IF a < b THEN a ELSE b
Wanted     == Min2(total, par.block)

\* Mutant: usbDev_ReadLine asks again when there was nothing to read.
ReturnNothingAgain(cancelled) ==
  /\ pc' = IF cancelled THEN "abort" ELSE pc
  /\ toProcess' = 0

\* usb_ReadData returns 0.
ReturnNothing(cancelled) ==
  /\ toProcess' = 0
  /\ pc' = CASE pc = "first"                               -> "failed"
             [] pc = "more" /\ cancelled                   -> "abort"
             [] pc = "more" /\ ~cancelled /\ rowsLeft = 0  -> "done"
             [] OTHER                                      -> "line"

ReadNothing ==
  /\ Reading
  /\ total = 0 \/ esc
  /\ ReturnNothing(esc)
  /\ UNCHANGED <<par, ring, picture, esc, failed>>

Offsets == 0 .. par.block - 1

\* The block at pbGetDataBuf gets the given lines.
Fill(lines) ==
  mem' = [i \in Slots(par) |-> IF i - get \in Offsets THEN lines[i - get] ELSE mem[i]]

\* What usb_ScanReadImage leaves there: a short last block leaves the rest as
\* it was, or as the lines to skip left it.
BlockRead ==
  [k \in Offsets |-> CASE k < Wanted                 -> next + toSkip + k + 1
                       [] k >= Wanted /\ toSkip > 0  -> 0
                       [] OTHER                      -> mem[get + k]]

\* Lines to skip are read into the same block first.
ReadBlock ==
  /\ Reading /\ total > 0 /\ ~esc
  /\ Fill(BlockRead)
  /\ discard' = IF discard > Wanted THEN discard - Wanted ELSE 0
  /\ IF discard >= Wanted
     THEN UNCHANGED <<pc, toProcess>>
     ELSE /\ toProcess' = Wanted - discard
          /\ pc' = IF rowsLeft = 0 THEN "done" ELSE "line"
  /\ next' = next + toSkip + Wanted
  /\ toSkip' = 0
  /\ total' = total - Wanted
  /\ get' = IF get + par.block >= Ring(par) THEN 0 ELSE get + par.block
  /\ UNCHANGED <<par, picture, esc, failed>>

\* usb_ScanReadImage fails: the device did not answer, or SIGUSR1 came
\* meanwhile.  The block at pbGetDataBuf may hold anything.
ScanReadFails ==
  /\ esc' \in BOOLEAN
  /\ failed' = (failed \/ ~esc')
  /\ Fill([k \in Offsets |-> 0])
  /\ total' = total - Wanted

\* bLinesToSkip after n of the reads that skip.
StillToSkip(n) == IF toSkip > n * par.block THEN toSkip - n * par.block ELSE 0

\* A read of lines to skip fails: usb_ReadData gives up.
SkipFails ==
  /\ Reading /\ total > 0 /\ ~esc
  /\ ScanReadFails
  /\ \E n \in 1 .. CeilDiv(toSkip, par.block) : toSkip' = StillToSkip(n)
  /\ next' = next + toSkip - toSkip'
  /\ ReturnNothing(esc')
  /\ UNCHANGED <<par, get, discard, picture>>

\* The read of the block fails: its lines are gone, and the loop goes round to
\* read the next ones into the same place.
ReadFails ==
  /\ Reading /\ total > 0 /\ ~esc
  /\ ScanReadFails
  /\ next' = next + toSkip + Wanted
  /\ toSkip' = 0
  /\ UNCHANGED <<par, pc, get, discard, toProcess, picture>>
-----------------------------------------------------------------------------
(* usbDev_ReadLine, one turn of its sample loop each, and the loop of      *)
(* reader_process around it.                                               *)

LineCancelled ==
  /\ pc = "line" /\ esc
  /\ pc' = "abort"
  /\ UNCHANGED <<par, ring, toProcess, picture, esc, failed>>

Advance(i) == IF i + 1 >= Ring(par) THEN 0 ELSE i + 1

\* Mutant: the get pointers are not reset in one channel mode.
PlaneAfterWrapNotReset(c) == IF par.mode = "one" THEN 0 ELSE Plane(par, c)

\* On any wrap-around in one channel mode the pointers are reset.
PlaneAfterWrap(c) == IF par.mode = "one" THEN Rgb[c] ELSE Plane(par, c)

ProcessLine ==
  /\ pc = "line" /\ ~esc
  /\ IF sumY + par.user >= par.phy
     THEN sumY' = sumY + par.user - par.phy /\ rowsLeft' = rowsLeft - 1
     ELSE sumY' = sumY + par.user /\ UNCHANGED rowsLeft
  /\ slot' = [c \in Channels(par) |-> Advance(slot[c])]
  /\ plane' = [c \in Channels(par) |->
                 IF slot'[c] = 0 THEN PlaneAfterWrap(c) ELSE plane[c]]
  /\ taken' = taken + 1
  /\ toProcess' = (toProcess - 1) % ULong
  /\ pc' = CASE toProcess' = 0                   -> "more"
             [] toProcess' # 0 /\ rowsLeft' = 0  -> "done"
             [] OTHER                            -> "line"
  /\ UNCHANGED <<par, ring, esc, failed>>

\* The frontend's process sends SIGUSR1, which stays pending.
Cancel ==
  /\ pc \in {"first", "line", "more"} /\ ~esc
  /\ esc' = TRUE
  /\ UNCHANGED <<par, pc, ring, toProcess, picture, failed>>

Reader == \/ ReadNothing \/ ReadBlock \/ SkipFails \/ ReadFails
          \/ LineCancelled \/ ProcessLine

Next == Reader \/ Cancel

\* The reader is a process of its own, always ready to run.
Spec == Init /\ [][Next]_vars /\ WF_vars(Reader)
-----------------------------------------------------------------------------
Ended == pc \in {"done", "abort", "failed"}

(* Every variable has its type: the pointers stay inside the buffer.       *)
TypeOK ==
  /\ par \in Setups
  /\ pc \in {"first", "line", "more", "done", "abort", "failed"}
  /\ mem \in [Slots(par) -> Nat]
  /\ get \in Slots(par) /\ next \in Nat /\ total \in Nat
  /\ toSkip \in Nat /\ discard \in Nat /\ toProcess \in 0 .. ULong - 1
  /\ slot \in [Channels(par) -> Slots(par)]
  /\ plane \in [Channels(par) -> 0 .. 2]
  /\ rowsLeft \in 0 .. par.rows
  /\ sumY \in 0 .. par.phy - 1
  /\ esc \in BOOLEAN /\ failed \in BOOLEAN /\ taken \in Nat

(* As long as the device answers, whatever line usbDev_ReadLine takes next *)
(* is in the ring for every channel, and is the line this channel's sensor *)
(* saw the same strip of the paper in: neither not read yet, nor already   *)
(* overwritten by the block that came last, across every wrap.             *)
NextLineReady ==
  pc = "line" /\ ~failed =>
    \A c \in Channels(par) : mem[slot[c]] = par.skip + taken + 1 + Delay(par, c)

(* As long as the device answers, the lines ordered from it last for all   *)
(* rows of the user's picture: dwLinesToProcess is never 0 (and then 2^64  *)
(* less one) while rows are missing.                                       *)
NeverDry == pc = "line" /\ ~failed => toProcess > 0

(* Sampling spreads the user's rows evenly over the physical lines: row k  *)
(* is taken from the line that holds the top of its share of the paper,    *)
(* the first line being row 1, however long the picture.                   *)
RowsKeepPace ==
  par.rows - rowsLeft = (taken * par.user + par.phy - par.user) \div par.phy

(* A channel reads the samples of its own colour, from the first line to   *)
(* the last.                                                               *)
PlanesKept == \A c \in Channels(par) : plane[c] = Plane(par, c)

(* The reader comes to an end: with the picture, cancelled or failed.      *)
PictureEnds == <>Ended
=============================================================================
