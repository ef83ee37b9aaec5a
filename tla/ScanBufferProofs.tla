-------------------------- MODULE ScanBufferProofs --------------------------
(***************************************************************************)
(* The scan buffer for every layout, sensor order, resolution and length   *)
(* of the picture that SetupOK admits.                                     *)
(***************************************************************************)
EXTENDS ScanBuffer, TLAPS

\* The reader samples lines only while rows of the picture are missing.
RowsMissing == pc \in {"first", "line"} => rowsLeft > 0

\* pbGetDataBuf is at the start of a block, whole blocks follow.
AtBlock == \E m \in Nat : get = m * par.block /\ m < par.bufs

TypeInv == TypeOK /\ RowsMissing /\ AtBlock
-----------------------------------------------------------------------------
(* The types.                                                              *)

\* What a setup grants, in the form the proofs use.
LEMMA SetupFacts ==
  ASSUME NEW s \in Setups
  PROVE  /\ s.mode \in {"ccd", "one", "gray"}
         /\ s.rank \in [Colours -> 0 .. 2]
         /\ s.rows \in Nat \ {0} /\ s.user \in Nat \ {0}
         /\ s.phy \in Nat /\ s.user <= s.phy
         /\ s.shift \in Nat /\ s.distance \in Nat /\ s.shift <= s.distance
         /\ s.skip \in Nat
         /\ s.block \in Nat \ {0} /\ s.bufs \in Nat \ {0}
         /\ s.mode = "ccd" => s.block + 2 * s.shift <= s.block * s.bufs
         /\ s.block < ULong
  BY BufferAssumption DEF SetupOK

\* The ring holds at least one block.
LEMMA RingSize ==
  ASSUME NEW s \in Setups
  PROVE  Ring(s) \in Nat /\ s.block <= Ring(s) /\ 0 \in Slots(s)
<1>1. s.block \in Nat \ {0} /\ s.bufs \in Nat \ {0}
  BY SetupFacts
<1>2. s.block * s.bufs \in Nat /\ s.block <= s.block * s.bufs
  BY <1>1
<1> QED
  BY <1>1, <1>2 DEF Ring, Slots

\* From one block to the next the get pointer stays at the start of a block.
LEMMA NextBlock ==
  ASSUME NEW b \in Nat \ {0}, NEW n \in Nat, NEW m \in Nat, m < n,
         (m + 1) * b < b * n
  PROVE  m + 1 < n
<1>1. SUFFICES ASSUME m + 1 >= n PROVE FALSE
  OBVIOUS
<1>2. m + 1 = n
  BY <1>1
<1>3. (m + 1) * b = b * n
  BY <1>2
<1> QED
  BY <1>3

\* A block fits at the get pointer.
LEMMA BlockFits ==
  ASSUME NEW b \in Nat \ {0}, NEW n \in Nat, NEW m \in Nat, m < n
  PROVE  /\ m * b \in Nat
         /\ m * b + b = (m + 1) * b
         /\ m * b + b <= b * n
<1>1. m * b + b = (m + 1) * b
  OBVIOUS
<1>2. PICK d \in Nat : n = m + 1 + d
  <2>1. n - m - 1 \in Nat /\ n = m + 1 + (n - m - 1)
    OBVIOUS
  <2> QED
    BY <2>1
<1>3. b * n = (m + 1) * b + d * b
  BY <1>2
<1>4. d * b \in Nat /\ m * b \in Nat
  OBVIOUS
<1> QED
  BY <1>1, <1>3, <1>4

\* Rounding up a quotient gives a natural number.
LEMMA CeilDivType ==
  ASSUME NEW a \in Nat, NEW b \in Nat \ {0}
  PROVE  CeilDiv(a, b) \in Nat /\ a <= CeilDiv(a, b) * b
<1> DEFINE q == (a + b - 1) \div b
<1>1. q \in Int /\ q * b <= a + b - 1 /\ a + b - 1 < q * b + b
  OBVIOUS
<1>2. q >= 0
  <2>1. SUFFICES ASSUME q <= -1 PROVE FALSE
    BY <1>1
  <2>2. q * b + b <= 0
    BY <2>1, <1>1
  <2> QED
    BY <2>2, <1>1
<1> QED
  BY <1>1, <1>2 DEF CeilDiv

LEMMA LayoutTypes ==
  ASSUME NEW s \in Setups
  PROVE  /\ PhyLines(s) \in Nat
         /\ Discard(s) \in Nat
         /\ StartSum(s) \in 0 .. s.phy - 1
         /\ \A c \in Colours : Delay(s, c) \in Slots(s) /\ Delay(s, c) <= Discard(s)
         /\ \A c \in Colours : Plane(s, c) \in 0 .. 2
<1> USE SetupFacts
<1>1. PhyLines(s) \in Nat
  <2>1. s.rows * s.phy \in Nat
    OBVIOUS
  <2>2. CeilDiv(s.rows * s.phy, s.user) \in Nat
    BY <2>1, CeilDivType
  <2> QED
    BY <2>2 DEF PhyLines
<1>2. Discard(s) \in Nat /\ StartSum(s) \in 0 .. s.phy - 1
  BY DEF Discard, StartSum
<1>3. ASSUME NEW c \in Colours
      PROVE  Delay(s, c) \in Slots(s) /\ Delay(s, c) <= Discard(s)
  <2>1. s.rank[c] \in 0 .. 2
    OBVIOUS
  <2>2. s.rank[c] * s.shift \in Nat /\ s.rank[c] * s.shift <= 2 * s.shift
    BY <2>1
  <2>3. CASE s.mode = "ccd"
    BY <2>2, <2>3, RingSize DEF Delay, Discard, Slots, Ring
  <2>4. CASE s.mode # "ccd"
    BY <2>4, RingSize DEF Delay, Discard
  <2> QED
    BY <2>3, <2>4
<1>4. ASSUME NEW c \in Colours PROVE Plane(s, c) \in 0 .. 2
  <2>1. s.rank[c] \in 0 .. 2 /\ Rgb[c] \in 0 .. 2
    BY DEF Colours, Rgb
  <2> QED
    BY <2>1 DEF Plane
<1> QED
  BY <1>1, <1>2, <1>3, <1>4

\* The colours a picture has.
LEMMA ChannelsAreColours ==
  ASSUME NEW s \in Setups PROVE Channels(s) \subseteq Colours
  BY DEF Channels, Colours

LEMMA TypeInit == Init => TypeInv
<1> SUFFICES ASSUME Init PROVE TypeInv
  OBVIOUS
<1>1. par \in Setups
  BY DEF Init
<1>2. TypeOK
  <2>1. /\ ULong \in Nat \ {0} /\ par.rows \in Nat \ {0} /\ par.skip \in Nat
    BY <1>1, SetupFacts, BufferAssumption
  <2>2. slot \in [Channels(par) -> Slots(par)] /\ plane \in [Channels(par) -> 0 .. 2]
    BY <1>1, LayoutTypes, ChannelsAreColours DEF Init
  <2>3. mem \in [Slots(par) -> Nat]
    BY DEF Init
  <2>4. /\ get \in Slots(par) /\ next \in Nat /\ total \in Nat /\ toSkip \in Nat
        /\ discard \in Nat /\ sumY \in 0 .. par.phy - 1 /\ taken \in Nat
    BY <1>1, <2>1, LayoutTypes, RingSize DEF Init
  <2>5. rowsLeft \in 0 .. par.rows /\ toProcess \in 0 .. ULong - 1
    BY <2>1 DEF Init
  <2> QED
    BY <1>1, <2>2, <2>3, <2>4, <2>5 DEF Init, TypeOK
<1>3. RowsMissing
  BY <1>1, SetupFacts DEF Init, RowsMissing
<1>4. AtBlock
  <2>1. get = 0 * par.block /\ 0 < par.bufs
    BY <1>1, SetupFacts DEF Init
  <2> QED
    BY <2>1 DEF AtBlock
<1> QED
  BY <1>2, <1>3, <1>4 DEF TypeInv

\* Filling a block leaves the ring well typed.
LEMMA FillType ==
  ASSUME TypeOK, NEW lines \in [Offsets -> Nat], Fill(lines)
  PROVE  mem' \in [Slots(par) -> Nat]
<1>1. par \in Setups /\ mem \in [Slots(par) -> Nat]
  BY DEF TypeOK
<1>2. ASSUME NEW i \in Slots(par)
      PROVE  (IF i - get \in Offsets THEN lines[i - get] ELSE mem[i]) \in Nat
  BY <1>1, <1>2
<1> QED
  BY <1>2 DEF Fill

\* The get pointer goes from the start of a block to that of another.
LEMMA GetStep ==
  ASSUME TypeInv, par' = par,
         get' = IF get + par.block >= Ring(par) THEN 0 ELSE get + par.block
  PROVE  /\ get + par.block <= Ring(par)
         /\ get' \in Slots(par)
         /\ AtBlock'
<1> DEFINE b == par.block
           n == par.bufs
<1>1. par \in Setups /\ b \in Nat \ {0} /\ n \in Nat \ {0} /\ Ring(par) = b * n
  BY SetupFacts DEF TypeInv, TypeOK, Ring
<1>2. PICK m \in Nat : get = m * b /\ m < n
  BY DEF TypeInv, AtBlock
<1> HIDE DEF b, n
<1>3. m * b \in Nat /\ m * b + b = (m + 1) * b /\ m * b + b <= b * n
  BY <1>1, <1>2, BlockFits
<1>4. get + b <= Ring(par)
  BY <1>1, <1>2, <1>3
<1>5. CASE get + b >= Ring(par)
  <2>1. get' = 0 /\ get' = 0 * b /\ 0 < n
    BY <1>1, <1>5 DEF b
  <2>2. \E k \in Nat : get' = k * b /\ k < n
    BY <2>1
  <2> QED
    BY <1>1, <1>4, <2>1, <2>2, RingSize DEF AtBlock, b, n
<1>6. CASE get + b < Ring(par)
  <2>1. get' = (m + 1) * b
    BY <1>1, <1>2, <1>3, <1>6 DEF b
  <2>2. m + 1 < n
    BY <1>1, <1>2, <1>3, <1>6, NextBlock
  <2>3. \E k \in Nat : get' = k * b /\ k < n
    BY <2>1, <2>2
  <2>4. get' \in Slots(par)
    BY <1>1, <1>2, <1>3, <1>6, <2>1 DEF Slots
  <2> QED
    BY <1>4, <2>3, <2>4 DEF AtBlock, b, n
<1> QED
  BY <1>1, <1>2, <1>3, <1>5, <1>6

\* Each block holds at least a line, and no more than are wanted.
LEMMA WantedType ==
  ASSUME TypeOK
  PROVE  Wanted \in Nat /\ Wanted <= total /\ Wanted <= par.block
         /\ (total > 0 => Wanted > 0)
  BY SetupFacts DEF TypeOK, Wanted, Min2

\* A read that fails leaves anything in its block, and fewer lines to read.
LEMMA FailType ==
  ASSUME TypeInv, ScanReadFails
  PROVE  mem' \in [Slots(par) -> Nat] /\ total' \in Nat
<1>1. [k \in Offsets |-> 0] \in [Offsets -> Nat]
  OBVIOUS
<1>2. mem' \in [Slots(par) -> Nat]
  BY <1>1, FillType DEF ScanReadFails, TypeInv
<1>3. Wanted \in Nat /\ Wanted <= total
  BY WantedType DEF TypeInv
<1> QED
  BY <1>2, <1>3 DEF ScanReadFails, TypeInv, TypeOK

LEMMA TypeStep == TypeInv /\ [Next]_vars => TypeInv'
<1> SUFFICES ASSUME TypeInv, [Next]_vars PROVE TypeInv'
  OBVIOUS
<1>p. /\ par \in Setups /\ par.block \in Nat \ {0} /\ par.block < ULong
      /\ par.rows \in Nat \ {0} /\ par.user \in Nat \ {0} /\ par.phy \in Nat
      /\ par.user <= par.phy /\ par.rank \in [Colours -> 0 .. 2]
      /\ ULong \in Nat \ {0}
  BY SetupFacts, BufferAssumption DEF TypeInv, TypeOK
<1>1. CASE ReadNothing
  <2>1. TypeOK' /\ RowsMissing'
    BY <1>1, <1>p
    DEF ReadNothing, ReturnNothing, Reading, ring, picture, TypeInv, TypeOK, RowsMissing
  <2>2. AtBlock'
    BY <1>1 DEF ReadNothing, ring, TypeInv, AtBlock
  <2> QED
    BY <2>1, <2>2 DEF TypeInv
<1>2. CASE ReadBlock
  <2>1. get + par.block <= Ring(par) /\ get' \in Slots(par) /\ AtBlock'
    BY <1>2, GetStep DEF ReadBlock
  <2>2. Wanted \in Nat /\ Wanted <= total /\ Wanted <= par.block
    BY WantedType DEF TypeInv
  <2>3. BlockRead \in [Offsets -> Nat]
    <3>1. ASSUME NEW k \in Offsets PROVE BlockRead[k] \in Nat
      <4>1. get + k \in Slots(par)
        BY <1>p, <2>1, RingSize DEF TypeInv, TypeOK, Slots, Offsets
      <4>2. mem[get + k] \in Nat /\ next + toSkip + k + 1 \in Nat
        BY <1>p, <4>1 DEF TypeInv, TypeOK, Offsets
      <4> QED
        BY <1>p, <2>2, <4>2 DEF BlockRead, TypeInv, TypeOK, Offsets
    <3> QED
      BY <3>1 DEF BlockRead
  <2>4. mem' \in [Slots(par) -> Nat]
    BY <1>2, <2>3, FillType DEF ReadBlock, TypeInv
  <2>5. TypeOK'
    BY <1>2, <1>p, <2>1, <2>2, <2>4 DEF ReadBlock, Reading, picture, TypeInv, TypeOK
  <2>6. RowsMissing'
    BY <1>2 DEF ReadBlock, Reading, picture, TypeInv, TypeOK, RowsMissing
  <2> QED
    BY <2>1, <2>5, <2>6 DEF TypeInv
<1>3. CASE SkipFails
  <2>1. mem' \in [Slots(par) -> Nat] /\ total' \in Nat
    BY <1>3, FailType DEF SkipFails
  <2>2. PICK n \in 1 .. CeilDiv(toSkip, par.block) : toSkip' = StillToSkip(n)
    BY <1>3 DEF SkipFails
  <2>3. toSkip' \in Nat /\ toSkip' <= toSkip
    <3>1. toSkip \in Nat /\ CeilDiv(toSkip, par.block) \in Nat
      BY <1>p, CeilDivType DEF TypeInv, TypeOK
    <3>2. n * par.block \in Nat
      BY <1>p, <3>1
    <3> DEFINE nb == n * par.block
    <3>3. nb \in Nat /\ toSkip' = IF toSkip > nb THEN toSkip - nb ELSE 0
      BY <2>2, <3>2 DEF StillToSkip
    <3> HIDE DEF nb
    <3> QED
      BY <3>1, <3>3
  <2>4. next' \in Nat
    BY <1>3, <2>3 DEF SkipFails, TypeInv, TypeOK
  <2>5. TypeOK'
    BY <1>3, <1>p, <2>1, <2>3, <2>4
       DEF SkipFails, ScanReadFails, ReturnNothing, Reading, picture, TypeInv, TypeOK
  <2>6. RowsMissing' /\ AtBlock'
    BY <1>3 DEF SkipFails, ReturnNothing, Reading, picture, TypeInv, TypeOK, RowsMissing,
                AtBlock
  <2> QED
    BY <2>5, <2>6 DEF TypeInv
<1>8. CASE ReadFails
  <2>1. mem' \in [Slots(par) -> Nat] /\ total' \in Nat
    BY <1>8, FailType DEF ReadFails
  <2>2. next' \in Nat
    BY <1>8, WantedType DEF ReadFails, TypeInv, TypeOK
  <2>3. TypeOK'
    BY <1>8, <1>p, <2>1, <2>2 DEF ReadFails, ScanReadFails, picture, TypeInv, TypeOK
  <2>4. RowsMissing' /\ AtBlock'
    BY <1>8 DEF ReadFails, picture, TypeInv, RowsMissing, AtBlock
  <2> QED
    BY <2>3, <2>4 DEF TypeInv
<1>4. CASE LineCancelled
  BY <1>4 DEF LineCancelled, ring, picture, TypeInv, TypeOK, RowsMissing, AtBlock
<1>5. CASE ProcessLine
  <2>1. rowsLeft > 0 /\ rowsLeft' \in 0 .. par.rows /\ sumY' \in 0 .. par.phy - 1
    BY <1>5, <1>p DEF ProcessLine, TypeInv, TypeOK, RowsMissing
  <2>2. slot' \in [Channels(par) -> Slots(par)]
    <3>1. ASSUME NEW c \in Channels(par) PROVE Advance(slot[c]) \in Slots(par)
      <4>1. slot[c] \in Slots(par) /\ Ring(par) \in Nat /\ par.block <= Ring(par)
        BY <1>p, <3>1, RingSize DEF TypeInv, TypeOK
      <4> QED
        BY <1>p, <4>1 DEF Advance, Slots
    <3> QED
      BY <1>5, <3>1 DEF ProcessLine
  <2>3. plane' \in [Channels(par) -> 0 .. 2]
    <3>1. ASSUME NEW c \in Channels(par) PROVE PlaneAfterWrap(c) \in 0 .. 2
      <4>1. c \in Colours /\ Rgb[c] \in 0 .. 2
        BY <1>p, ChannelsAreColours DEF Colours, Rgb
      <4> QED
        BY <1>p, <4>1, LayoutTypes DEF PlaneAfterWrap
    <3> QED
      BY <1>5, <3>1 DEF ProcessLine, TypeInv, TypeOK
  <2>4. toProcess' \in 0 .. ULong - 1
    <3>1. toProcess - 1 \in Int
      BY <1>p DEF TypeInv, TypeOK
    <3> QED
      BY <1>5, <1>p, <3>1 DEF ProcessLine
  <2>5. TypeOK'
    BY <1>5, <2>1, <2>2, <2>3, <2>4 DEF ProcessLine, ring, TypeInv, TypeOK
  <2>6. RowsMissing' /\ AtBlock'
    BY <1>5, <2>1 DEF ProcessLine, ring, TypeInv, TypeOK, RowsMissing, AtBlock
  <2> QED
    BY <2>5, <2>6 DEF TypeInv
<1>6. CASE Cancel
  BY <1>6 DEF Cancel, ring, picture, TypeInv, TypeOK, RowsMissing, AtBlock
<1>7. CASE UNCHANGED vars
  BY <1>7 DEF vars, ring, picture, TypeInv, TypeOK, RowsMissing, AtBlock
<1> QED
  BY <1>1, <1>2, <1>3, <1>4, <1>5, <1>6, <1>7, <1>8 DEF Next, Reader

(* Every variable of the scan buffer has its type: no pointer ever leaves  *)
(* the memory usbDev_startScan allocated, whatever the device does.        *)
THEOREM TypeCorrect == Spec => []TypeOK
<1>1. Init => TypeInv
  BY TypeInit
<1>2. TypeInv /\ [Next]_vars => TypeInv'
  BY TypeStep
<1>3. TypeInv => TypeOK
  BY DEF TypeInv
<1> QED
  BY <1>1, <1>2, <1>3, PTL DEF Spec
-----------------------------------------------------------------------------
(* Sampling.                                                               *)

\* What is summed up in wSumY, with the rows already made, is what the lines
\* taken out are worth.
SampleInv ==
  sumY + par.phy * (par.rows - rowsLeft) = par.phy - par.user + taken * par.user

\* A quotient is determined by its remainder.
LEMMA Quotient ==
  ASSUME NEW d \in Nat \ {0}, NEW q \in Int, NEW r \in 0 .. d - 1
  PROVE  (d * q + r) \div d = q
<1> DEFINE p == (d * q + r) \div d
<1>1. p \in Int /\ p * d <= d * q + r /\ d * q + r < p * d + d
  OBVIOUS
<1>2. ASSUME p > q PROVE FALSE
  <2>1. PICK e \in Nat : p = q + 1 + e
    <3>1. p - q - 1 \in Nat /\ p = q + 1 + (p - q - 1)
      BY <1>1, <1>2
    <3> QED
      BY <3>1
  <2>2. p * d = d * q + d + e * d /\ e * d \in Nat
    BY <2>1
  <2> QED
    BY <1>1, <2>2
<1>3. ASSUME p < q PROVE FALSE
  <2>1. PICK e \in Nat : q = p + 1 + e
    <3>1. q - p - 1 \in Nat /\ q = p + 1 + (q - p - 1)
      BY <1>1, <1>3
    <3> QED
      BY <3>1
  <2>2. d * q = p * d + d + e * d /\ e * d \in Nat
    BY <1>1, <2>1
  <2> QED
    BY <1>1, <2>2
<1> QED
  BY <1>1, <1>2, <1>3

LEMMA SampleInit == Init => SampleInv
<1> SUFFICES ASSUME Init PROVE SampleInv
  OBVIOUS
<1>1. /\ par.phy \in Nat /\ par.user \in Nat /\ par.rows \in Nat
      /\ rowsLeft = par.rows /\ taken = 0 /\ sumY = par.phy - par.user
  BY SetupFacts DEF Init, StartSum
<1> QED
  BY <1>1 DEF SampleInv

LEMMA SampleStep == TypeInv /\ SampleInv /\ [Next]_vars => SampleInv'
<1> SUFFICES ASSUME TypeInv, SampleInv, [Next]_vars PROVE SampleInv'
  OBVIOUS
<1>1. CASE UNCHANGED <<par, picture>>
  BY <1>1 DEF picture, SampleInv
<1>2. CASE ProcessLine
  <2> DEFINE k == par.rows - rowsLeft
  <2>1. /\ par.phy \in Nat /\ par.user \in Nat /\ k \in Int
        /\ sumY \in Nat /\ taken \in Nat /\ rowsLeft \in Int /\ par.rows \in Nat
    BY SetupFacts DEF TypeInv, TypeOK
  <2>2. taken' = taken + 1 /\ par' = par
    BY <1>2 DEF ProcessLine
  <2>3. (taken + 1) * par.user = taken * par.user + par.user
    <3>1. PICK u \in Nat : u = par.user
      BY <2>1
    <3>2. taken \in Int
      BY <2>1
    <3>3. (taken + 1) * u = taken * u + u
      BY <3>1, <3>2
    <3> QED
      BY <3>1, <3>3
  <2>4. par.phy * (k + 1) = par.phy * k + par.phy
    BY <2>1
  <2>5. sumY + par.phy * k = par.phy - par.user + taken * par.user
    BY DEF SampleInv
  <2>6. taken * par.user \in Int /\ par.phy * k \in Int
    BY <2>1
  <2>7. CASE sumY + par.user >= par.phy
    <3>1. sumY' = sumY + par.user - par.phy /\ rowsLeft' = rowsLeft - 1
      BY <1>2, <2>7 DEF ProcessLine
    <3>2. par.rows - rowsLeft' = k + 1
      BY <2>1, <3>1
    <3> HIDE DEF k
    <3>3. sumY' + par.phy * (k + 1) = par.phy - par.user + (taken + 1) * par.user
      BY <2>1, <2>3, <2>4, <2>5, <2>6, <3>1
    <3> QED
      BY <2>2, <3>2, <3>3 DEF SampleInv
  <2>8. CASE ~(sumY + par.user >= par.phy)
    <3>1. sumY' = sumY + par.user /\ rowsLeft' = rowsLeft
      BY <1>2, <2>8 DEF ProcessLine
    <3>2. par.rows - rowsLeft' = k
      BY <3>1
    <3> HIDE DEF k
    <3>3. sumY' + par.phy * k = par.phy - par.user + (taken + 1) * par.user
      BY <2>1, <2>3, <2>5, <2>6, <3>1
    <3> QED
      BY <2>2, <3>2, <3>3 DEF SampleInv
  <2> QED
    BY <2>7, <2>8
<1> QED
  BY <1>1, <1>2 DEF Next, Reader, ReadNothing, ReadBlock, SkipFails, ReadFails, LineCancelled,
                    Cancel, vars, picture

(* Row k of the picture is taken from the line that holds the top of its   *)
(* share of the paper, for every pair of resolutions and any length: the   *)
(* error of the sampling in usbDev_ReadLine never adds up.                 *)
THEOREM RowsKeepPaceAlways == Spec => []RowsKeepPace
<1>1. Init => TypeInv /\ SampleInv
  BY TypeInit, SampleInit
<1>2. TypeInv /\ SampleInv /\ [Next]_vars => (TypeInv /\ SampleInv)'
  BY TypeStep, SampleStep
<1>3. TypeInv /\ SampleInv => RowsKeepPace
  <2> SUFFICES ASSUME TypeInv, SampleInv PROVE RowsKeepPace
    OBVIOUS
  <2> DEFINE k == par.rows - rowsLeft
  <2>1. /\ par.phy \in Nat \ {0} /\ par.user \in Nat /\ k \in Int
        /\ sumY \in 0 .. par.phy - 1 /\ taken \in Nat
    BY SetupFacts DEF TypeInv, TypeOK
  <2>2. taken * par.user \in Int /\ par.phy * k \in Int
    BY <2>1
  <2>3. taken * par.user + par.phy - par.user = par.phy * k + sumY
    BY <2>1, <2>2 DEF SampleInv
  <2>4. (par.phy * k + sumY) \div par.phy = k
    BY <2>1, Quotient
  <2> QED
    BY <2>3, <2>4 DEF RowsKeepPace
<1> QED
  BY <1>1, <1>2, <1>3, PTL DEF Spec
-----------------------------------------------------------------------------
(* The ring.  What follows holds while the reader is under way and every   *)
(* read of the device went well so far.                                    *)

Going == ~failed /\ (pc = "line" \/ (Reading /\ ~esc))

\* Lines delivered that belong to the picture or the distance of the sensors.
Delivered == next + toSkip - par.skip

\* i is the slot of the n-th line put into the ring, counted from 0.
At(n, i) == i \in Slots(par) /\ \E q \in Nat : n = q * Ring(par) + i

Counted   == /\ Delivered \in Nat
             /\ toSkip > 0 => Delivered = 0
             /\ total + Delivered = PhyLines(par)
             /\ discard = IF Delivered < Discard(par) THEN Discard(par) - Delivered ELSE 0
Available == IF pc = "line"
             THEN toProcess > 0 /\ taken + toProcess + Discard(par) = Delivered
             ELSE taken = IF Delivered < Discard(par) THEN 0 ELSE Delivered - Discard(par)
GetAt     == total > 0 => At(Delivered, get)
SlotsAt   == \A c \in Channels(par) : At(taken + Delay(par, c), slot[c])
Stored    == \A j \in taken .. Delivered - 1 : \A i \in Slots(par) :
               At(j, i) => mem[i] = par.skip + j + 1

RingInv == Going => Counted /\ Available /\ GetAt /\ SlotsAt /\ Stored

\* A line has one slot.
LEMMA OneSlot ==
  ASSUME NEW r \in Nat, NEW q \in Nat, NEW p \in Nat,
         NEW i \in 0 .. r - 1, NEW k \in Int, 0 <= k, k < r,
         q * r + i = p * r + k
  PROVE  i = k
<1>1. ASSUME q < p PROVE FALSE
  <2>1. PICK e \in Nat : p = q + 1 + e
    <3>1. p - q - 1 \in Nat /\ p = q + 1 + (p - q - 1)
      BY <1>1
    <3> QED
      BY <3>1
  <2>2. p * r = q * r + r + e * r /\ e * r \in Nat /\ q * r \in Nat
    BY <2>1
  <2> QED
    BY <2>2
<1>2. ASSUME p < q PROVE FALSE
  <2>1. PICK e \in Nat : q = p + 1 + e
    <3>1. q - p - 1 \in Nat /\ q = p + 1 + (q - p - 1)
      BY <1>2
    <3> QED
      BY <3>1
  <2>2. q * r = p * r + r + e * r /\ e * r \in Nat /\ p * r \in Nat
    BY <2>1
  <2> QED
    BY <2>2
<1>3. q = p /\ q * r \in Nat
  BY <1>1, <1>2
<1> QED
  BY <1>3

\* Lines less than a ring apart are in different slots; a slot taken twice is
\* a whole ring apart.
LEMMA RingApart ==
  ASSUME NEW r \in Nat, NEW q \in Nat, NEW p \in Nat, NEW i \in Nat,
         NEW g \in Nat, NEW k \in Nat, i = g + k,
         q * r + i < p * r + g
  PROVE  q * r + i + r <= p * r + g + k
<1>1. ASSUME q >= p PROVE FALSE
  <2>1. PICK e \in Nat : q = p + e
    <3>1. q - p \in Nat /\ q = p + (q - p)
      BY <1>1
    <3> QED
      BY <3>1
  <2>2. q * r = p * r + e * r /\ e * r \in Nat /\ p * r \in Nat
    BY <2>1
  <2> QED
    BY <2>2
<1>2. PICK e \in Nat : p = q + 1 + e
  <2>1. p - q - 1 \in Nat /\ p = q + 1 + (p - q - 1)
    BY <1>1
  <2> QED
    BY <2>1
<1>3. p * r = q * r + r + e * r /\ e * r \in Nat /\ q * r \in Nat
  BY <1>2
<1> QED
  BY <1>3

\* The slot after a line's slot is that of the next line.
LEMMA NextSlot ==
  ASSUME par \in Setups, NEW n \in Nat, NEW i, At(n, i)
  PROVE  At(n + 1, Advance(i))
<1> DEFINE r == Ring(par)
<1>1. r \in Nat /\ i \in 0 .. r - 1 /\ 0 \in Slots(par)
  BY RingSize DEF At, Slots
<1>2. PICK q \in Nat : n = q * r + i
  BY DEF At
<1> HIDE DEF r
<1>3. q * r \in Nat /\ (q + 1) * r = q * r + r
  BY <1>1, <1>2
<1>4. CASE i + 1 >= r
  <2>1. Advance(i) = 0
    BY <1>4 DEF Advance, r
  <2>2. n + 1 = (q + 1) * r + 0
    BY <1>1, <1>2, <1>3, <1>4
  <2>3. q + 1 \in Nat
    OBVIOUS
  <2> QED
    BY <1>1, <2>1, <2>2, <2>3 DEF At, r
<1>5. CASE ~(i + 1 >= r)
  <2>1. Advance(i) = i + 1
    BY <1>5 DEF Advance, r
  <2>2. n + 1 = q * r + (i + 1) /\ i + 1 \in Slots(par)
    BY <1>1, <1>2, <1>3, <1>5 DEF Slots, r
  <2> QED
    BY <2>1, <2>2 DEF At, r
<1> QED
  BY <1>4, <1>5

LEMMA RingInit == Init => RingInv
<1> SUFFICES ASSUME Init PROVE Counted /\ Available /\ GetAt /\ SlotsAt /\ Stored
  BY DEF RingInv
<1>1. /\ par \in Setups /\ par.skip \in Nat /\ Ring(par) \in Nat /\ 0 \in Slots(par)
      /\ Discard(par) \in Nat /\ PhyLines(par) \in Nat
  BY SetupFacts, RingSize, LayoutTypes DEF Init
<1>2. Delivered = 0
  BY <1>1 DEF Init, Delivered
<1>3. Counted /\ Available
  BY <1>1, <1>2 DEF Init, Counted, Available
<1>4. ASSUME NEW i \in Slots(par) PROVE At(i, i)
  <2>1. i \in Nat /\ i = 0 * Ring(par) + i
    BY <1>1, <1>4 DEF Slots
  <2> QED
    BY <2>1 DEF At
<1>5. GetAt
  BY <1>1, <1>2, <1>4 DEF Init, GetAt
<1>6. SlotsAt
  <2>1. ASSUME NEW c \in Channels(par)
        PROVE  slot[c] = Delay(par, c) /\ Delay(par, c) \in Slots(par)
    BY <1>1, LayoutTypes, ChannelsAreColours DEF Init
  <2>2. taken = 0 /\ Slots(par) \subseteq Nat
    BY <1>1 DEF Init, Slots
  <2>3. ASSUME NEW c \in Channels(par) PROVE At(taken + Delay(par, c), slot[c])
    <3>1. taken + Delay(par, c) = Delay(par, c)
      BY <2>1, <2>2
    <3> QED
      BY <1>4, <2>1, <3>1
  <2> QED
    BY <2>3 DEF SlotsAt
<1>7. Stored
  BY <1>2 DEF Init, Stored
<1> QED
  BY <1>3, <1>5, <1>6, <1>7

\* The lines ordered from the device last for all rows: when all are delivered
\* and taken out, the picture is complete.
LEMMA LastLine ==
  ASSUME TypeInv, SampleInv, Counted, Available, pc # "line", total = 0
  PROVE  rowsLeft = 0
<1> DEFINE u == par.user
           h == par.phy
           n == par.rows
           k == n - rowsLeft
           d == CeilDiv(n * h, u)
<1>1. /\ par \in Setups /\ u \in Nat \ {0} /\ h \in Nat /\ n \in Nat /\ u <= h
      /\ rowsLeft \in 0 .. n /\ sumY \in 0 .. h - 1 /\ taken \in Nat
  BY SetupFacts DEF TypeInv, TypeOK
<1>2. d \in Nat /\ n * h <= d * u
  <2> DEFINE a == n * h
  <2>1. a \in Nat
    BY <1>1
  <2> HIDE DEF a, u
  <2>2. CeilDiv(a, u) \in Nat /\ a <= CeilDiv(a, u) * u
    BY <1>1, <2>1, CeilDivType
  <2> QED
    BY <2>2 DEF a
<1>3. d + Discard(par) <= PhyLines(par) /\ Discard(par) \in Nat
  <2>1. /\ par.shift \in Nat /\ par.distance \in Nat /\ par.shift <= par.distance
    BY <1>1, SetupFacts
  <2> QED
    BY <1>2, <2>1 DEF PhyLines, Discard
<1>4. d <= taken
  BY <1>1, <1>2, <1>3 DEF Counted, Available, TypeInv, TypeOK
<1>5. n * h <= taken * u
  <2>1. PICK e \in Nat : taken = d + e
    <3>1. taken - d \in Nat /\ taken = d + (taken - d)
      BY <1>1, <1>2, <1>4
    <3> QED
      BY <3>1
  <2>2. taken * u = d * u + e * u /\ e * u \in Nat /\ d * u \in Int /\ n * h \in Int
    BY <1>1, <1>2, <2>1
  <2> QED
    BY <1>2, <2>2
<1>6. sumY + h * k = h - u + taken * u
  BY DEF SampleInv
<1>7. SUFFICES ASSUME rowsLeft > 0 PROVE FALSE
  BY <1>1
<1>8. PICK e \in Nat : n = k + 1 + e
  <2>1. n - k - 1 \in Nat /\ n = k + 1 + (n - k - 1)
    BY <1>1, <1>7
  <2> QED
    BY <2>1
<1>9. k \in Int
  BY <1>1
<1> HIDE DEF u, h, n, k, d
<1>10. n * h = h * k + h + e * h /\ e * h \in Nat /\ h * k \in Int /\ taken * u \in Int
  BY <1>1, <1>8, <1>9
<1> QED
  BY <1>1, <1>5, <1>6, <1>10

\* What is counted goes on as long as the device delivers whole blocks.
LEMMA ReadBlockCounted ==
  ASSUME TypeInv, Counted, ReadBlock
  PROVE  /\ Delivered' = Delivered + Wanted
         /\ Counted'
<1>1. /\ par \in Setups /\ par' = par /\ par.skip \in Nat /\ next \in Nat
      /\ toSkip \in Nat /\ total \in Nat
      /\ Discard(par) \in Nat /\ PhyLines(par) \in Nat
  BY SetupFacts, LayoutTypes DEF TypeInv, TypeOK, ReadBlock
<1>2. Wanted \in Nat /\ Wanted <= total
  BY WantedType DEF TypeInv
<1>3. next' = next + toSkip + Wanted /\ toSkip' = 0 /\ total' = total - Wanted
  BY DEF ReadBlock
<1>4. Delivered' = Delivered + Wanted
  BY <1>1, <1>2, <1>3 DEF Delivered
<1>5. Discard(par)' = Discard(par) /\ PhyLines(par)' = PhyLines(par)
  BY <1>1 DEF Discard, PhyLines, CeilDiv
<1>6. discard' = IF Delivered' < Discard(par) THEN Discard(par) - Delivered' ELSE 0
  BY <1>1, <1>2, <1>4 DEF ReadBlock, Counted
<1> QED
  BY <1>1, <1>2, <1>3, <1>4, <1>5, <1>6 DEF Counted

LEMMA ReadBlockAvailable ==
  ASSUME TypeInv, Counted, Available, ReadBlock
  PROVE  taken' = taken /\ (Going' => Available')
<1>1. Discard(par) \in Nat /\ par' = par /\ taken' = taken /\ Delivered \in Nat
  BY LayoutTypes DEF TypeInv, TypeOK, ReadBlock, Counted, picture
<1>2. Wanted \in Nat /\ Wanted > 0
  BY WantedType DEF TypeInv, TypeOK, ReadBlock
<1>3. Delivered' = Delivered + Wanted
  BY ReadBlockCounted
<1>4. Discard(par)' = Discard(par)
  BY <1>1 DEF Discard
<1>5. /\ pc # "line"
      /\ taken = IF Delivered < Discard(par) THEN 0 ELSE Delivered - Discard(par)
      /\ discard = IF Delivered < Discard(par) THEN Discard(par) - Delivered ELSE 0
  BY DEF Available, Counted, ReadBlock, Reading
<1>6. CASE discard >= Wanted
  <2>1. pc' = pc
    BY <1>6 DEF ReadBlock
  <2> QED
    BY <1>1, <1>2, <1>3, <1>4, <1>5, <1>6, <2>1 DEF Available
<1>7. CASE ~(discard >= Wanted)
  <2>1. toProcess' = Wanted - discard /\ pc' \in {"line", "done"}
    BY <1>7 DEF ReadBlock
  <2>2. toProcess' > 0 /\ taken' + toProcess' + Discard(par) = Delivered'
    BY <1>1, <1>2, <1>3, <1>5, <1>7, <2>1
  <2> QED
    BY <1>1, <1>4, <2>1, <2>2 DEF Available, Going, Reading
<1> QED
  BY <1>1, <1>6, <1>7

\* The ring stays where it is during a scan.
LEMMA SameRing ==
  ASSUME par' = par
  PROVE  /\ Ring(par)' = Ring(par) /\ Slots(par)' = Slots(par)
         /\ Channels(par)' = Channels(par)
         /\ \A c : Delay(par, c)' = Delay(par, c)
  BY DEF Ring, Slots, Channels, Delay

\* The block just read is followed by the next one.
LEMMA ReadBlockGet ==
  ASSUME TypeInv, Counted, GetAt, ReadBlock
  PROVE  GetAt'
<1> DEFINE r == Ring(par)
           b == par.block
<1>1. SUFFICES ASSUME total' > 0 PROVE At(Delivered, get)'
  BY DEF GetAt
<1>2. /\ par \in Setups /\ par' = par /\ total \in Nat /\ r \in Nat /\ b \in Nat
      /\ get \in Nat /\ get + b <= r /\ get' \in Slots(par)
  BY GetStep, RingSize, SetupFacts DEF TypeInv, TypeOK, ReadBlock, Slots
<1>3. Wanted = b
  BY <1>1, <1>2 DEF ReadBlock, Wanted, Min2
<1>4. Delivered' = Delivered + b
  BY <1>3, ReadBlockCounted
<1>5. get' = IF get + b >= r THEN 0 ELSE get + b
  BY DEF ReadBlock
<1>6. PICK q \in Nat : Delivered = q * r + get
  BY DEF GetAt, At, ReadBlock
<1> HIDE DEF r, b
<1>7. q * r \in Nat /\ (q + 1) * r = q * r + r /\ q + 1 \in Nat
  BY <1>2
<1>8. \E p \in Nat : Delivered' = p * r + get'
  <2>1. CASE get + b >= r
    <3>1. Delivered' = (q + 1) * r + get'
      BY <1>2, <1>4, <1>5, <1>6, <1>7, <2>1
    <3> QED
      BY <1>7, <3>1
  <2>2. CASE ~(get + b >= r)
    <3>1. Delivered' = q * r + get'
      BY <1>2, <1>4, <1>5, <1>6, <1>7, <2>2
    <3> QED
      BY <3>1
  <2> QED
    BY <2>1, <2>2
<1> QED
  BY <1>2, <1>8, SameRing DEF At, r

\* A block only overwrites lines that have been taken out for every channel.
LEMMA ReadBlockStored ==
  ASSUME TypeInv, Counted, Available, GetAt, Stored, ReadBlock
  PROVE  Stored'
<1> DEFINE r == Ring(par)
           D == Delivered
<1>1. /\ par \in Setups /\ par' = par /\ r \in Nat /\ par.block \in Nat /\ par.skip \in Nat
      /\ get \in Nat /\ get + par.block <= r /\ Discard(par) \in Nat
      /\ taken \in Nat /\ taken' = taken /\ next \in Nat /\ toSkip \in Nat
  <2>1. /\ par \in Setups /\ par' = par /\ taken \in Nat /\ taken' = taken
        /\ next \in Nat /\ toSkip \in Nat /\ get \in Slots(par)
    BY DEF TypeInv, TypeOK, ReadBlock, picture
  <2>2. get + par.block <= r
    BY <2>1, GetStep DEF ReadBlock
  <2>3. par.block \in Nat /\ par.skip \in Nat /\ Discard(par) \in Nat /\ r \in Nat
    BY <2>1, SetupFacts, RingSize, LayoutTypes
  <2> QED
    BY <2>1, <2>2, <2>3 DEF Slots
<1>2. Wanted \in Nat /\ Wanted <= par.block
  BY WantedType DEF TypeInv
<1>3. D \in Nat /\ D' = D + Wanted /\ D - Discard(par) <= taken
  BY <1>1, ReadBlockCounted DEF Counted, Available, ReadBlock, Reading
<1>4. par.block + Discard(par) <= r
  BY <1>1, SetupFacts, RingSize DEF Discard, Ring
<1>5. PICK p \in Nat : D = p * r + get
  BY DEF GetAt, At, ReadBlock
<1>6. SUFFICES ASSUME NEW j \in taken .. D' - 1, NEW i \in Slots(par), At(j, i)
               PROVE  mem'[i] = par.skip + j + 1
  <2>1. ASSUME NEW j \in taken' .. D' - 1, NEW i \in Slots(par)', At(j, i)'
        PROVE  mem'[i] = par.skip + j + 1
    <3>1. At(j, i) /\ i \in Slots(par)
      BY <1>1, <2>1, SameRing DEF At
    <3> QED
      BY <1>1, <1>6, <2>1, <3>1
  <2> QED
    BY <1>1, <2>1 DEF Stored
<1>7. PICK q \in Nat : j = q * r + i
  BY <1>6 DEF At
<1>8. j \in Nat /\ i \in 0 .. r - 1
  BY <1>1, <1>3, <1>6 DEF Slots
<1>9. mem'[i] = IF i - get \in Offsets THEN BlockRead[i - get] ELSE mem[i]
  BY <1>6 DEF ReadBlock, Fill
<1> HIDE DEF r, D
<1>10. CASE j < D
  <2>1. i - get \notin Offsets
    <3>1. SUFFICES ASSUME i - get \in 0 .. par.block - 1 PROVE FALSE
      BY DEF Offsets
    <3> DEFINE k == i - get
    <3>2. k \in Nat /\ i = get + k /\ i \in Nat /\ k < par.block
      BY <1>1, <1>8, <3>1
    <3> HIDE DEF k
    <3>3. q * r + i < p * r + get
      BY <1>5, <1>7, <1>10
    <3>4. q * r + i + r <= p * r + get + k
      BY <1>1, <3>2, <3>3, RingApart
    <3>5. j + r <= D + k
      BY <1>5, <1>7, <3>4
    <3> QED
      BY <1>1, <1>3, <1>4, <1>6, <1>8, <3>2, <3>5
  <2>2. mem[i] = par.skip + j + 1
    BY <1>3, <1>6, <1>8, <1>10 DEF Stored, D
  <2> QED
    BY <1>9, <2>1, <2>2
<1>11. CASE j >= D
  <2> DEFINE k == j - D
  <2>1. k \in Nat /\ k < Wanted /\ j = D + k
    BY <1>2, <1>3, <1>6, <1>8, <1>11
  <2> HIDE DEF k
  <2>2. get + k \in Int /\ 0 <= get + k /\ get + k < r
    BY <1>1, <1>2, <2>1
  <2>3. q * r + i = p * r + (get + k)
    <3>1. p * r \in Nat
      BY <1>1
    <3> QED
      BY <1>1, <1>5, <1>7, <2>1, <3>1
  <2>4. i = get + k
    <3> DEFINE m == get + k
    <3>1. m \in Int /\ 0 <= m /\ m < r /\ q * r + i = p * r + m
      BY <2>2, <2>3
    <3> HIDE DEF m
    <3>2. i = m
      BY <1>1, <1>8, <3>1, OneSlot
    <3> QED
      BY <3>2 DEF m
  <2>5. i - get = k /\ k \in Offsets
    BY <1>1, <1>2, <2>1, <2>4 DEF Offsets
  <2>6. BlockRead[k] = next + toSkip + k + 1
    BY <1>2, <2>1, <2>5 DEF BlockRead
  <2>7. D + par.skip = next + toSkip
    BY <1>1 DEF D, Delivered
  <2> QED
    BY <1>1, <1>3, <1>9, <2>1, <2>5, <2>6, <2>7
<1> QED
  BY <1>3, <1>8, <1>10, <1>11

\* Taking a line out moves every channel to the next line.
LEMMA ProcessLineRing ==
  ASSUME TypeInv, Going, Counted, Available, GetAt, SlotsAt, Stored, ProcessLine, Going'
  PROVE  Counted' /\ Available' /\ GetAt' /\ SlotsAt' /\ Stored'
<1>1. /\ par \in Setups /\ par' = par /\ taken \in Nat /\ taken' = taken + 1
      /\ toProcess \in 0 .. ULong - 1 /\ ULong \in Nat /\ pc = "line"
      /\ mem' = mem /\ get' = get /\ next' = next /\ total' = total
      /\ toSkip' = toSkip /\ discard' = discard
  BY BufferAssumption DEF TypeInv, TypeOK, ProcessLine, ring
<1>2. /\ Discard(par) \in Nat /\ Discard(par)' = Discard(par)
      /\ PhyLines(par)' = PhyLines(par) /\ Delivered' = Delivered
  BY <1>1, LayoutTypes DEF Discard, PhyLines, CeilDiv, Delivered
<1>3. Delivered \in Nat /\ toProcess > 0 /\ taken + toProcess + Discard(par) = Delivered
  BY <1>1 DEF Counted, Available
<1>4. toProcess' = toProcess - 1
  BY <1>1, <1>3 DEF ProcessLine
<1>5. Counted'
  BY <1>1, <1>2 DEF Counted
<1>6. Available'
  <2>1. taken' + toProcess' + Discard(par) = Delivered
    BY <1>1, <1>2, <1>3, <1>4
  <2>2. CASE toProcess' = 0
    <3>1. pc' = "more"
      BY <2>2 DEF ProcessLine
    <3> QED
      BY <1>1, <1>2, <1>3, <2>1, <2>2, <3>1 DEF Available
  <2>3. CASE toProcess' # 0
    <3>1. toProcess' > 0 /\ pc' = "line"
      BY <1>1, <1>3, <1>4, <2>3 DEF ProcessLine, Going, Reading
    <3> QED
      BY <1>2, <2>1, <3>1 DEF Available
  <2> QED
    BY <2>2, <2>3
<1>7. GetAt'
  BY <1>1, <1>2, SameRing DEF GetAt, At
<1>8. SlotsAt'
  <2>1. ASSUME NEW c \in Channels(par)
        PROVE  At(taken' + Delay(par, c), slot'[c])
    <3> DEFINE n == taken + Delay(par, c)
    <3>1. Delay(par, c) \in Nat
      BY <1>1, <2>1, LayoutTypes, ChannelsAreColours, RingSize DEF Slots
    <3>2. n \in Nat /\ n + 1 = taken' + Delay(par, c)
      BY <1>1, <3>1
    <3>3. At(n, slot[c])
      BY <2>1 DEF SlotsAt
    <3> HIDE DEF n
    <3>4. At(n + 1, Advance(slot[c]))
      BY <1>1, <3>2, <3>3, NextSlot
    <3>5. slot'[c] = Advance(slot[c])
      BY <2>1 DEF ProcessLine
    <3> QED
      BY <3>2, <3>4, <3>5
  <2> QED
    BY <1>1, <2>1, SameRing DEF SlotsAt, At
<1>9. Stored'
  <2>1. ASSUME NEW j \in taken' .. Delivered' - 1, NEW i \in Slots(par)', At(j, i)'
        PROVE  mem'[i] = par'.skip + j + 1
    <3>1. j \in taken .. Delivered - 1 /\ i \in Slots(par) /\ At(j, i)
      BY <1>1, <1>2, <1>3, <2>1, SameRing DEF At
    <3> QED
      BY <1>1, <3>1 DEF Stored
  <2> QED
    BY <2>1 DEF Stored
<1> QED
  BY <1>5, <1>6, <1>7, <1>8, <1>9

LEMMA RingStep == TypeInv /\ SampleInv /\ RingInv /\ [Next]_vars => RingInv'
<1> SUFFICES ASSUME TypeInv, SampleInv, RingInv, [Next]_vars, Going'
             PROVE  Counted' /\ Available' /\ GetAt' /\ SlotsAt' /\ Stored'
  BY DEF RingInv
<1>1. CASE ReadNothing
  <2>1. Going /\ Reading /\ total = 0 /\ rowsLeft # 0
    BY <1>1 DEF ReadNothing, ReturnNothing, Reading, Going
  <2>2. Counted /\ Available
    BY <2>1 DEF RingInv
  <2>3. rowsLeft = 0
    BY <2>1, <2>2, LastLine DEF Reading
  <2> QED
    BY <2>1, <2>3
<1>2. CASE ReadBlock
  <2>1. Going
    BY <1>2 DEF ReadBlock, Reading, Going
  <2>2. Counted /\ Available /\ GetAt /\ SlotsAt /\ Stored
    BY <2>1 DEF RingInv
  <2>3. Counted' /\ Available'
    BY <1>2, <2>2, ReadBlockCounted, ReadBlockAvailable
  <2>4. GetAt' /\ Stored'
    BY <1>2, <2>2, ReadBlockGet, ReadBlockStored
  <2>5. SlotsAt'
    <3>1. par' = par /\ taken' = taken /\ slot' = slot
      BY <1>2 DEF ReadBlock, picture
    <3> QED
      BY <2>2, <3>1, SameRing DEF SlotsAt, At
  <2> QED
    BY <2>3, <2>4, <2>5
<1>3. CASE SkipFails
  BY <1>3 DEF SkipFails, ScanReadFails, ReturnNothing, Reading, Going
<1>7. CASE ReadFails
  BY <1>7 DEF ReadFails, ScanReadFails, Reading, Going
<1>4. CASE LineCancelled
  BY <1>4 DEF LineCancelled, Going
<1>5. CASE ProcessLine
  <2>1. Going
    BY <1>5 DEF ProcessLine, Going
  <2> QED
    BY <1>5, <2>1, ProcessLineRing DEF RingInv
<1>6. CASE UNCHANGED <<par, pc, ring, toProcess, picture, failed>> /\ (esc => esc')
  <2>1. Going /\ Counted /\ Available /\ GetAt /\ SlotsAt /\ Stored
    BY <1>6 DEF RingInv, Going, Reading
  <2>2. Delivered' = Delivered /\ Discard(par)' = Discard(par) /\ PhyLines(par)' = PhyLines(par)
    BY <1>6 DEF ring, Delivered, Discard, PhyLines, CeilDiv
  <2>3. Counted' /\ Available'
    BY <1>6, <2>1, <2>2 DEF ring, picture, Counted, Available
  <2>4. GetAt' /\ SlotsAt' /\ Stored'
    BY <1>6, <2>1, <2>2, SameRing DEF ring, picture, GetAt, SlotsAt, Stored, At
  <2> QED
    BY <2>3, <2>4
<1> QED
  BY <1>1, <1>2, <1>3, <1>4, <1>5, <1>6, <1>7 DEF Next, Reader, Cancel, vars

LEMMA Invariance == Spec => [](TypeInv /\ SampleInv /\ RingInv)
<1>1. Init => TypeInv /\ SampleInv /\ RingInv
  BY TypeInit, SampleInit, RingInit
<1>2. TypeInv /\ SampleInv /\ RingInv /\ [Next]_vars => (TypeInv /\ SampleInv /\ RingInv)'
  BY TypeStep, SampleStep, RingStep
<1> QED
  BY <1>1, <1>2, PTL DEF Spec

(* Whatever line usbDev_ReadLine takes next is in the ring for every       *)
(* channel, and is the one this channel's sensor saw the strip in: usb_-   *)
(* ReadData never overwrites a line that the last sensor has yet to reach, *)
(* for every size of block and ring, distance and order of the sensors.    *)
THEOREM NextLineReadyAlways == Spec => []NextLineReady
<1>1. TypeInv /\ RingInv => NextLineReady
  <2> SUFFICES ASSUME TypeInv, RingInv, pc = "line", ~failed, NEW c \in Channels(par)
               PROVE  mem[slot[c]] = par.skip + taken + 1 + Delay(par, c)
    BY DEF NextLineReady
  <2> DEFINE j == taken + Delay(par, c)
  <2>1. Counted /\ Available /\ SlotsAt /\ Stored
    BY DEF RingInv, Going
  <2>2. /\ par \in Setups /\ taken \in Nat /\ toProcess \in Int /\ par.skip \in Nat
        /\ Delay(par, c) \in Nat /\ Delay(par, c) <= Discard(par) /\ Discard(par) \in Nat
    BY SetupFacts, LayoutTypes, ChannelsAreColours, RingSize, BufferAssumption
       DEF TypeInv, TypeOK, Slots
  <2>3. j \in taken .. Delivered - 1
    BY <2>1, <2>2 DEF Counted, Available
  <2>4. At(j, slot[c]) /\ slot[c] \in Slots(par)
    BY <2>1 DEF SlotsAt, At
  <2>5. mem[slot[c]] = par.skip + j + 1
    BY <2>1, <2>3, <2>4 DEF Stored
  <2> QED
    BY <2>2, <2>5
<1> QED
  BY <1>1, Invariance, PTL

(* While rows of the picture are missing there are lines to process, as    *)
(* long as the device answers: usb_GetScanLinesAndSize orders enough for   *)
(* every resolution, number of rows and distance of the sensors.           *)
THEOREM NeverDryAlways == Spec => []NeverDry
<1>1. TypeInv /\ RingInv => NeverDry
  BY DEF RingInv, Going, NeverDry, Available
<1> QED
  BY <1>1, Invariance, PTL

(* A channel keeps reading the samples of its own colour, provided devices *)
(* with one channel for all colours have their sensors in the order rgb.   *)
THEOREM PlanesKeptAlways ==
  ASSUME \A s \in Setups : s.mode = "one" => s.rank = Rgb
  PROVE  Spec => []PlanesKept
<1>1. Init => PlanesKept
  BY DEF Init, PlanesKept
<1>2. TypeInv /\ PlanesKept /\ [Next]_vars => PlanesKept'
  <2> SUFFICES ASSUME TypeInv, PlanesKept, [Next]_vars PROVE PlanesKept'
    OBVIOUS
  <2>1. CASE ProcessLine
    <3>1. par \in Setups /\ par' = par
      BY <2>1 DEF TypeInv, TypeOK, ProcessLine
    <3>2. \A c \in Channels(par) : PlaneAfterWrap(c) = Plane(par, c)
      BY <3>1 DEF PlaneAfterWrap, Plane
    <3>3. \A c \in Channels(par) : plane'[c] = Plane(par, c)
      BY <2>1, <3>2 DEF ProcessLine, PlanesKept
    <3> QED
      BY <3>1, <3>3 DEF PlanesKept, Channels, Plane
  <2>2. CASE UNCHANGED <<par, picture>>
    BY <2>2 DEF picture, PlanesKept, Channels, Plane
  <2> QED
    BY <2>1, <2>2 DEF Next, Reader, ReadNothing, ReadBlock, SkipFails, ReadFails, LineCancelled,
                      Cancel, vars, picture
<1>3. Spec => []TypeInv
  <2>1. Spec => [](TypeInv /\ SampleInv /\ RingInv)
    BY Invariance
  <2> QED
    BY <2>1, PTL
<1> QED
  BY <1>1, <1>2, <1>3, PTL DEF Spec
=============================================================================
