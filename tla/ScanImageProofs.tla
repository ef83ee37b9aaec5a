--------------------------- MODULE ScanImageProofs ---------------------------
(***************************************************************************)
(* What scanimage leaves behind, for every kind of call, size of picture,  *)
(* of chunk and every number of pages.  WholePages and ExitTells follow    *)
(* from ImageInv: after g bytes the file of a page has the samples of the  *)
(* first g, turned, and the byte of a sample cut in two is in hangOver;    *)
(* there is a page for each round gone by but for the last one when it     *)
(* failed; and the pages gone by are those taken off the count.            *)
(***************************************************************************)
EXTENDS ScanImage, SequenceTheorems, TLAPS
-----------------------------------------------------------------------------
(* The types.  A file that is there holds bytes of pictures.               *)

Contents == Seq(1 .. Bytes)
Running == {"page", "start", "open", "read", "scanned", "rename", "failed", "next"}

ImageTypes ==
    /\ job \in Jobs
    /\ pc \in Running \cup {"over", Blocked} \cup Ended
    /\ n \in Nat \ {0} /\ count \in Int
    /\ status \in {"GOOD", "CANCELLED", "IO_ERROR", "ACCESS_DENIED"}
    /\ ofp \in Files \cup {NoFile}
    /\ files \in [Files -> Contents \cup {Absent}]
    /\ scanning \in BOOLEAN
    /\ got \in 0 .. Bytes /\ hangOver \in 0 .. Bytes
    /\ signals \in 0 .. 2 /\ hit \in BOOLEAN
    /\ lost \subseteq 1 .. Last

-----------------------------------------------------------------------------
(* The invariant: what is in the file a page goes to, which files are      *)
(* there, and how far the count of pages is.                               *)

\* Which byte of the picture is the i-th of the file, and how many the file has
\* when sane_read has returned g.
Turn(i) == IF ~job.swapped THEN i ELSE IF i % 2 = 1 THEN i + 1 ELSE i - 1
Filled(g) == IF job.swapped /\ g % 2 = 1 THEN g - 1 ELSE g
Beginning(g) == [i \in 1 .. Filled(g) |-> Turn(i)]

\* The file a page is written to.
Sink == IF job.batch THEN Part(n) ELSE Out

\* The byte kept is the last one of an odd number, and the file has all others,
\* but for a page a write failed on.
Poured ==
    /\ hangOver = IF job.swapped /\ got % 2 = 1 THEN got ELSE None
    /\ pc \in {"read", "scanned", "failed"} => ofp = Sink
    /\ pc \in {"read", "scanned", "failed", "rename"} => files[Sink] # Absent
    /\ pc \in {"read", "scanned", "rename"} =>
          n \in lost \/ files[Sink] = Beginning(got)
    /\ pc = "open" => got = 0
    /\ pc \in {"scanned", "rename"} => got = Bytes
    /\ pc \in {"open", "rename"} => job.batch
    /\ pc \in {"page", "start", "open"} => n \notin lost
    /\ pc \in Running => n <= Last /\ \A k \in lost : k <= n
    /\ pc \in {"page", "start", "open", "read", "scanned", "rename"} => status = "GOOD"
    /\ pc = "failed" => status # "GOOD"

\* The picture that is not one of a batch.
SinglePicture ==
    ~job.batch =>
        /\ There = {}
        /\ pc \in {"page", "start"} => ofp = Out /\ files[Out] = <<>>
        /\ pc \in {"next", "over", "exited"} =>
              \/ status = "GOOD" /\ (lost = {} => files[Out] = Whole)
              \/ status # "GOOD" /\ (job.named => files[Out] \in {Absent, <<>>})

\* A part is there only while its page is being made, a page only when its
\* round came, and of the rounds that came only the last may have failed.
Parts ==
    pc \notin {"returned", "aborted", Blocked} =>
        \A k \in 1 .. Last :
            files[Part(k)] # Absent =>
                k = n /\ job.batch /\ pc \in {"read", "scanned", "failed", "rename"}
Rounds ==
    /\ (n - 1) % job.increment = 0
    /\ pc \in Running \cup {"over", "exited"} =>
          There \subseteq Scanned \cup (IF pc = "next" THEN {n} ELSE {})
    /\ job.batch =>
        /\ pc \in Running => Scanned \subseteq There
        /\ pc = "next" /\ status = "GOOD" => n \in There
        /\ pc \in {"over", "exited"} =>
              Scanned \ There \subseteq
                 (IF status = "GOOD" THEN {} ELSE {n - job.increment})

\* A count that is not above zero is never used up.
Counted ==
    job.batch =>
        /\ job.count <= 0 => count <= 0
        /\ job.count > 0 /\ pc \in Running \cup {"over", "exited"} =>
              n = 1 + (job.count - count) * job.increment
        /\ job.count > 0 /\ pc \in Running => count > 0
        /\ pc \in {"over", "exited"} /\ status = "GOOD" /\ ~job.prompt =>
              count = 0 /\ job.count > 0

ImageInv == /\ ImageTypes /\ WholePages /\ Poured /\ SinglePicture
            /\ Parts /\ Rounds /\ Counted
-----------------------------------------------------------------------------
(* The operators.                                                          *)

\* The files of different pages, and of different kinds, are different ones.
LEMMA Paths ==
  /\ \A k, j : Page(k) # Part(j) /\ Page(k) # Out /\ Part(k) # Out
  /\ \A k, j : (Page(k) = Page(j) => k = j) /\ (Part(k) = Part(j) => k = j)
  /\ \A k : Page(k) # NoFile /\ Part(k) # NoFile
  /\ Out # NoFile
  /\ \A k \in 1 .. Last : Page(k) \in Files /\ Part(k) \in Files
  /\ Out \in Files /\ NoFile \notin Files
  BY DEF Page, Part, Out, NoFile, Files

LEMMA FileNames == \A f \in Files : \/ f = Out
                                    \/ \E k \in 1 .. Last : f = Page(k) \/ f = Part(k)
  BY DEF Files

LEMMA NotContents == Absent \notin Contents
<1> SUFFICES ASSUME Absent \in Contents PROVE FALSE
  OBVIOUS
<1>1. Absent[1] \in 1 .. Bytes
  BY ElementOfSeq DEF Contents, Absent
<1> QED
  BY <1>1, ScanImageAssumption DEF Absent

LEMMA Multiple ==
  ASSUME NEW d \in Nat \ {0}, NEW m \in Int, d * m < d, -d < d * m
  PROVE  m = 0
<1>1. CASE m >= 1
  <2>1. d * m >= d
    BY <1>1
  <2> QED
    BY <2>1
<1>2. CASE m <= -1
  <2>1. d * m <= -d
    BY <1>2
  <2> QED
    BY <2>1
<1> QED
  BY <1>1, <1>2

\* Of the numbers a round apart only one is in the round that begins at a.
LEMMA OneInRound ==
  ASSUME NEW d \in Nat \ {0}, NEW a \in Nat, NEW b \in Nat,
         a % d = 0, b % d = 0, a <= b, b < a + d
  PROVE  a = b
<1> DEFINE p == a \div d
           q == b \div d
<1>1. a = d * p /\ p \in Int
  OBVIOUS
<1>2. b = d * q /\ q \in Int
  OBVIOUS
<1> HIDE DEF p, q
<1>3. d * (q - p) < d /\ -d < d * (q - p)
  BY <1>1, <1>2
<1>4. q - p = 0
  BY <1>1, <1>2, <1>3, Multiple
<1> QED
  BY <1>1, <1>2, <1>4

LEMMA NextRoundBegins ==
  ASSUME NEW d \in Nat \ {0}, NEW a \in Nat, a % d = 0
  PROVE  (a + d) % d = 0
<1> DEFINE e == a + d
           p == a \div d
           q == e \div d
           r == e % d
<1>1. a = d * p /\ p \in Int
  OBVIOUS
<1>2. e \in Nat /\ e = d * q + r /\ q \in Int /\ r \in 0 .. d - 1
  OBVIOUS
<1>3. e = a + d
  OBVIOUS
<1> SUFFICES r = 0
  OBVIOUS
<1> HIDE DEF e, p, q, r
<1>4. d * (p + 1 - q) = r
  BY <1>1, <1>2, <1>3
<1>5. d * (p + 1 - q) < d /\ -d < d * (p + 1 - q)
  BY <1>2, <1>4
<1>6. p + 1 - q = 0
  BY <1>1, <1>2, <1>5, Multiple
<1> QED
  BY <1>2, <1>4, <1>6

\* Sequences as functions.
LEMMA AsFunction ==
  ASSUME NEW S, NEW s \in Seq(S), NEW k, k = Len(s)
  PROVE  s = [i \in 1 .. k |-> s[i]] /\ k \in Nat
  OBVIOUS

LEMMA Stitched ==
  ASSUME NEW S, NEW s \in Seq(S), NEW t \in Seq(S)
  PROVE  /\ s \o t \in Seq(S) /\ Len(s \o t) = Len(s) + Len(t)
         /\ \A i \in 1 .. Len(s) : (s \o t)[i] = s[i]
         /\ \A i \in Len(s) + 1 .. Len(s) + Len(t) : (s \o t)[i] = t[i - Len(s)]
  BY ConcatProperties

LEMMA Retyped ==
  ASSUME NEW S, NEW T, NEW s \in Seq(S), \A i \in 1 .. Len(s) : s[i] \in T
  PROVE  s \in Seq(T)
<1>1. s = [i \in 1 .. Len(s) |-> s[i]] /\ Len(s) \in Nat
  BY AsFunction
<1>2. [i \in 1 .. Len(s) |-> s[i]] \in Seq(T)
  OBVIOUS
<1> QED
  BY <1>1, <1>2

LEMMA SameElements ==
  ASSUME NEW S, NEW s \in Seq(S), NEW T, NEW t \in Seq(T), Len(s) = Len(t),
         \A i \in 1 .. Len(s) : s[i] = t[i]
  PROVE  s = t
<1>1. s = [i \in 1 .. Len(s) |-> s[i]] /\ t = [i \in 1 .. Len(t) |-> t[i]]
  BY AsFunction
<1> QED
  BY <1>1

\* The file's beginning grows by what a round of the loop writes.
LEMMA PourOn ==
  ASSUME NEW g \in Nat, NEW len \in Nat \ {0}, job.swapped \in BOOLEAN,
         hangOver = IF job.swapped /\ g % 2 = 1 THEN g ELSE None,
         NEW c, c = [i \in 1 .. len |-> g + i]
  PROVE  /\ Beginning(g) \o (IF job.swapped THEN Turned(c) ELSE c) = Beginning(g + len)
         /\ job.swapped => Kept(c) = IF (g + len) % 2 = 1 THEN g + len ELSE None
         /\ job.swapped => Turned(c) \in Seq(1 .. g + len)
<1> DEFINE add == IF job.swapped THEN Turned(c) ELSE c
           f == Filled(g)
           m == Filled(g + len)
<1>0. /\ f \in Nat /\ m \in Nat /\ f <= m
      /\ Len(c) = len /\ \A i \in 1 .. len : c[i] = g + i
  BY DEF Filled
<1>1. CASE ~job.swapped
  <2>1. /\ f = g /\ m = g + len
        /\ Beginning(g) = [i \in 1 .. g |-> i]
        /\ Beginning(g + len) = [i \in 1 .. g + len |-> i]
    BY <1>1 DEF Filled, Beginning, Turn
  <2>2. [i \in 1 .. g |-> i] \o [i \in 1 .. len |-> g + i] = [i \in 1 .. g + len |-> i]
    OBVIOUS
  <2> QED
    BY <1>1, <2>1, <2>2
<1>2. CASE job.swapped
  <2> DEFINE o == Offset
             r == Single(c)
             K == len - o - r
  <2>1. /\ o \in {0, 1} /\ f = g - o /\ f % 2 = 0 /\ (o = 1 => hangOver = g)
        /\ o <= g
    BY <1>2 DEF Offset, Filled, None
  <2>2. r = (len - o) % 2 /\ r \in {0, 1} /\ K \in Nat /\ K % 2 = 0
    BY <1>0, <2>1 DEF Single
  <2>3. g + len = f + 2 * o + K + r
    BY <2>1, <2>2
  <2>4. (g + len) % 2 = r
    <3> DEFINE e == f + 2 * o + K
    <3>1. e \in Nat /\ e % 2 = 0
      BY <1>0, <2>1, <2>2
    <3>2. g + len = e + r
      BY <2>3
    <3> HIDE DEF e
    <3> QED
      <4>1. CASE r = 0
        BY <3>1, <3>2, <4>1
      <4>2. CASE r = 1
        BY <3>1, <3>2, <4>2
      <4> QED
        BY <2>2, <4>1, <4>2
  <2>5. m = f + 2 * o + K
    BY <1>2, <2>1, <2>2, <2>3, <2>4 DEF Filled
  <2>6. Kept(c) = IF (g + len) % 2 = 1 THEN g + len ELSE None
    BY <1>0, <2>4 DEF Kept
  <2>7. Pairs(c) = [i \in 1 .. K |-> c[o + (IF i % 2 = 1 THEN i + 1 ELSE i - 1)]]
    BY <1>0 DEF Pairs
  <2> HIDE DEF o, r, K
  <2>8. ASSUME NEW i \in 1 .. K
        PROVE  Pairs(c)[i] = Turn(f + 2 * o + i) /\ Pairs(c)[i] \in 1 .. g + len
    <3> DEFINE t == IF i % 2 = 1 THEN i + 1 ELSE i - 1
    <3>1. t \in 1 .. K
      BY <2>2
    <3>2. o + t \in 1 .. len
      BY <2>1, <2>2, <3>1 DEF K
    <3>3. Pairs(c)[i] = g + (o + t)
      BY <1>0, <2>7, <3>2
    <3>4. g + (o + t) = f + 2 * o + t
      BY <2>1, <3>1
    <3>5. (f + 2 * o + i) % 2 = i % 2
      BY <2>1
    <3>6. Turn(f + 2 * o + i) = f + 2 * o + t
      BY <1>2, <2>1, <3>5 DEF Turn
    <3> QED
      BY <2>1, <3>2, <3>3, <3>4, <3>6
  <2>9. Pairs(c) \in Seq(1 .. g + len) /\ Len(Pairs(c)) = K
    <3>1. Pairs(c) = [i \in 1 .. K |-> Pairs(c)[i]]
      BY <2>7
    <3> QED
      BY <2>2, <2>8, <3>1
  <2> DEFINE head == IF o = 1 THEN <<c[1], hangOver>> ELSE <<>>
  <2>10. /\ head \in Seq(1 .. g + len) /\ Len(head) = 2 * o
         /\ \A i \in 1 .. 2 * o : head[i] = Turn(f + i)
    <3>1. CASE o = 1
      <4>1. head = <<g + 1, g>>
        BY <1>0, <2>1, <3>1
      <4>2. Turn(f + 1) = g + 1 /\ Turn(f + 2) = g
        BY <1>2, <2>1, <3>1 DEF Turn
      <4>3. g + 1 \in 1 .. g + len /\ g \in 1 .. g + len
        BY <2>1, <3>1
      <4>4. head \in Seq(1 .. g + len) /\ Len(head) = 2
        <5> HIDE DEF head
        <5> QED
          BY <4>1, <4>3
      <4>5. head[1] = Turn(f + 1) /\ head[2] = Turn(f + 2)
        BY <4>1, <4>2
      <4>6. 1 .. 2 * o = {1, 2}
        BY <3>1
      <4> HIDE DEF head
      <4> QED
        BY <3>1, <4>4, <4>5, <4>6
    <3>2. CASE o = 0
      BY <3>2
    <3> QED
      BY <2>1, <3>1, <3>2
  <2>11. Turned(c) = head \o Pairs(c)
    BY DEF Turned, o
  <2> HIDE DEF head
  <2> HIDE DEF f, m
  <2>12. /\ Turned(c) \in Seq(1 .. g + len) /\ Len(Turned(c)) = m - f
         /\ \A i \in 1 .. m - f : Turned(c)[i] = Turn(f + i)
    <3>1. 2 * o = Len(head) /\ m - f = 2 * o + Len(Pairs(c)) /\ m - f \in Nat
      <4>1. o \in Nat /\ f \in Nat /\ m \in Nat /\ f <= m
        BY <1>0, <2>1
      <4>2. K \in Nat /\ m = f + 2 * o + K
        BY <2>2, <2>5
      <4> QED
        BY <2>9, <2>10, <4>1, <4>2
    <3>2. /\ Turned(c) \in Seq(1 .. g + len) /\ Len(Turned(c)) = m - f
          /\ \A i \in 1 .. 2 * o : Turned(c)[i] = head[i]
          /\ \A i \in 2 * o + 1 .. m - f : Turned(c)[i] = Pairs(c)[i - 2 * o]
      <4> DEFINE t == Pairs(c)
      <4>1. /\ head \o t \in Seq(1 .. g + len) /\ Len(head \o t) = Len(head) + Len(t)
            /\ \A i \in 1 .. Len(head) : (head \o t)[i] = head[i]
            /\ \A i \in Len(head) + 1 .. Len(head) + Len(t) :
                 (head \o t)[i] = t[i - Len(head)]
        <5> HIDE DEF t
        <5>1. head \in Seq(1 .. g + len) /\ t \in Seq(1 .. g + len)
          BY <2>9, <2>10 DEF t
        <5> QED
          BY <5>1, Stitched
      <4> QED
        BY <2>11, <3>1, <4>1
    <3>3. ASSUME NEW i \in 1 .. m - f PROVE Turned(c)[i] = Turn(f + i)
      <4>1. CASE i <= 2 * o
        <5>1. i \in 1 .. 2 * o
          BY <2>1, <3>1, <4>1
        <5> QED
          BY <2>10, <3>2, <5>1
      <4>2. CASE i > 2 * o
        <5> DEFINE k == i - 2 * o
        <5>1. k \in 1 .. K /\ f + 2 * o + k = f + i
          BY <1>0, <2>1, <2>2, <2>5, <4>2
        <5>2. Turned(c)[i] = Pairs(c)[k]
          <6>1. i \in 2 * o + 1 .. m - f
            BY <2>1, <3>1, <4>2
          <6> QED
            BY <3>2, <6>1
        <5> HIDE DEF k
        <5> QED
          BY <2>8, <5>1, <5>2
      <4> QED
        BY <2>1, <3>1, <4>1, <4>2
    <3> QED
      BY <3>2, <3>3
  <2>13. Beginning(g) \o Turned(c) = Beginning(g + len)
    <3>1. /\ Beginning(g) = [i \in 1 .. f |-> Turn(i)]
          /\ Beginning(g + len) = [i \in 1 .. m |-> Turn(i)]
      BY DEF Beginning, f, m
    <3>2. \A i \in Nat : Turn(i) \in Int
      BY DEF Turn
    <3>3. /\ Beginning(g) \in Seq(Int) /\ Len(Beginning(g)) = f
          /\ Beginning(g + len) \in Seq(Int) /\ Len(Beginning(g + len)) = m
          /\ Turned(c) \in Seq(Int)
      <4>1. Turned(c) \in Seq(Int)
        <5>1. \A i \in 1 .. Len(Turned(c)) : Turned(c)[i] \in Int
          BY <1>0, <2>12, ElementOfSeq
        <5> QED
          BY <2>12, <5>1
      <4> QED
        BY <1>0, <3>1, <3>2, <4>1
    <3> DEFINE w == Beginning(g) \o Turned(c)
    <3>4. m = f + Len(Turned(c))
      BY <1>0, <2>12
    <3>5. /\ w \in Seq(Int) /\ Len(w) = m
          /\ \A i \in 1 .. f : w[i] = Beginning(g)[i]
          /\ \A i \in f + 1 .. m : w[i] = Turned(c)[i - f]
      <4> DEFINE s == Beginning(g)
                 t == Turned(c)
      <4>1. /\ s \o t \in Seq(Int) /\ Len(s \o t) = Len(s) + Len(t)
            /\ \A i \in 1 .. Len(s) : (s \o t)[i] = s[i]
            /\ \A i \in Len(s) + 1 .. Len(s) + Len(t) : (s \o t)[i] = t[i - Len(s)]
        <5> HIDE DEF s, t
        <5>1. s \in Seq(Int) /\ t \in Seq(Int)
          BY <3>3 DEF s, t
        <5> QED
          BY <5>1, Stitched
      <4> QED
        BY <3>3, <3>4, <4>1
    <3> HIDE DEF w
    <3>6. ASSUME NEW i \in 1 .. m PROVE w[i] = Beginning(g + len)[i]
      <4>1. CASE i <= f
        <5>1. i \in 1 .. f
          BY <1>0, <4>1
        <5> QED
          BY <3>1, <3>5, <5>1
      <4>2. CASE i > f
        <5>1. i \in f + 1 .. m /\ i - f \in 1 .. m - f /\ f + (i - f) = i
          BY <1>0, <4>2
        <5>2. w[i] = Turn(i)
          BY <2>12, <3>5, <5>1
        <5> QED
          BY <3>1, <5>2
      <4> QED
        <5>1. i <= f \/ i > f
          BY <1>0
        <5> QED
          BY <4>1, <4>2, <5>1
    <3>7. w = Beginning(g + len)
      BY <3>3, <3>5, <3>6, SameElements
    <3> QED
      BY <3>7 DEF w
  <2> QED
    BY <1>2, <2>6, <2>12, <2>13
<1> QED
  BY <1>1, <1>2
-----------------------------------------------------------------------------
(* The steps.                                                              *)

\* What follows from the pages and the job alone.
LEMMA SameFiles ==
  ASSUME UNCHANGED <<job, files>>
  PROVE  There' = There /\ Whole' = Whole
  BY DEF There, Whole

LEMMA SameBeginning ==
  ASSUME UNCHANGED job
  PROVE  Beginning(got)' = Beginning(got')
  BY DEF Beginning, Filled, Turn

LEMMA SameSink ==
  ASSUME UNCHANGED <<job, n>>
  PROVE  Sink' = Sink /\ Scanned' = Scanned
  BY DEF Sink, Scanned, Part

\* The file of the page being scanned can be written.
LEMMA SinkThere ==
  ASSUME ImageInv, pc \in {"read", "scanned", "failed", "rename"}
  PROVE  Sink \in Files /\ files[Sink] \in Contents /\ n \in 1 .. Last
<1>1. n \in 1 .. Last
  BY DEF ImageInv, ImageTypes, Poured, Running
<1>2. Sink \in Files
  BY <1>1, Paths DEF Sink
<1> QED
  BY <1>1, <1>2 DEF ImageInv, ImageTypes, Poured

LEMMA WholeAtLast == Beginning(Bytes) = Whole
  BY ScanImageAssumption DEF Beginning, Filled, Turn, Whole

LEMMA NothingYet == Beginning(0) = <<>>
  BY DEF Beginning, Filled

LEMMA ImageInit == Init => ImageInv
<1> SUFFICES ASSUME Init PROVE ImageInv
  OBVIOUS
<1> USE ScanImageAssumption DEF Init
<1>1. ImageTypes
  <2>1. files \in [Files -> Contents \cup {Absent}]
    BY DEF Contents
  <2>2. job.count \in Int /\ ofp \in Files \cup {NoFile}
    BY Paths
  <2>3. 0 \in 0 .. Bytes /\ {} \subseteq 1 .. Last
    OBVIOUS
  <2> QED
    <3>1. /\ job \in Jobs /\ pc \in Running \cup {"over", Blocked} \cup Ended
          /\ n \in Nat \ {0} /\ count \in Int /\ status = "GOOD"
      BY <2>2 DEF Running
    <3>2. got \in 0 .. Bytes /\ hangOver \in 0 .. Bytes /\ lost \subseteq 1 .. Last
      BY <2>3 DEF None
    <3>3. scanning \in BOOLEAN /\ hit \in BOOLEAN
      OBVIOUS
    <3>4. signals \in 0 .. 2
      OBVIOUS
    <3> HIDE DEF Init
    <3> QED
      BY <2>1, <2>2, <3>1, <3>2, <3>3, <3>4 DEF ImageTypes
<1>2. WholePages
  BY Paths DEF WholePages, There
<1>3. Poured
  BY DEF Poured, None, Running
<1>4. SinglePicture
  BY Paths DEF SinglePicture, There
<1>5. Parts
  BY Paths DEF Parts
<1>6. Rounds
  BY Paths DEF Rounds, There, Scanned, Running
<1>7. Counted
  BY DEF Counted, Running
<1> QED
  BY <1>1, <1>2, <1>3, <1>4, <1>5, <1>6, <1>7 DEF ImageInv

LEMMA NextPageStep ==
  ASSUME ImageInv, NextPage
  PROVE  ImageInv'
<1> USE DEF ImageInv, NextPage, picture, signalled
<1>1. There' = There /\ Whole' = Whole
  BY SameFiles
<1>2. Beginning(got)' = Beginning(got')
  BY SameBeginning
<1>3. Sink' = Sink /\ Scanned' = Scanned
  BY SameSink
<1>4. ImageTypes'
  BY Paths, SinkThere DEF ImageTypes, Running, Ended
<1>5. WholePages'
  BY <1>1 DEF WholePages
<1>6. Poured'
  BY <1>1, <1>2, <1>3 DEF Poured, Running
<1>7. SinglePicture'
  BY <1>1 DEF SinglePicture
<1>8. Parts'
  BY Paths DEF Parts, Ended, Blocked
<1>9. Rounds'
  BY <1>1, <1>3 DEF Rounds, Running
<1>10. Counted'
  BY DEF Counted, Running
<1> QED
  BY <1>4, <1>5, <1>6, <1>7, <1>8, <1>9, <1>10

LEMMA StartStep ==
  ASSUME ImageInv, Start
  PROVE  ImageInv'
<1> USE DEF ImageInv, Start, picture, signalled
<1>1. There' = There /\ Whole' = Whole
  BY SameFiles
<1>2. Beginning(got)' = Beginning(got')
  BY SameBeginning
<1>3. Sink' = Sink /\ Scanned' = Scanned
  BY SameSink
<1>4. ImageTypes'
  BY ScanImageAssumption DEF ImageTypes, Running, None
<1>5. WholePages'
  BY <1>1 DEF WholePages
<1>6. Poured'
  <2>1. Beginning(got)' = <<>>
    BY <1>2, NothingYet
  <2>2. <<>> # Absent
    BY DEF Absent
  <2> QED
    BY <1>3, <2>1, <2>2 DEF Poured, Running, SinglePicture, Sink, None
<1>7. SinglePicture'
  BY <1>1 DEF SinglePicture
<1>8. Parts'
  BY Paths DEF Parts, Ended, Blocked
<1>9. Rounds'
  BY <1>1, <1>3 DEF Rounds, Running
<1>10. Counted'
  BY DEF Counted, Running
<1> QED
  BY <1>4, <1>5, <1>6, <1>7, <1>8, <1>9, <1>10

LEMMA StartSignalledStep ==
  ASSUME ImageInv, StartSignalled
  PROVE  ImageInv'
<1> USE DEF ImageInv, StartSignalled, picture, signalled, Blocked
<1>1. There' = There /\ Whole' = Whole
  BY SameFiles
<1>2. Beginning(got)' = Beginning(got')
  BY SameBeginning
<1>3. Sink' = Sink /\ Scanned' = Scanned
  BY SameSink
<1>4. ImageTypes'
  <2>1. pc' \in Running \cup {"over", Blocked} \cup Ended
    BY DEF Running, Ended
  <2>2. got' \in 0 .. Bytes /\ hangOver' \in 0 .. Bytes
    BY ScanImageAssumption DEF None
  <2>3. signals' \in 0 .. 2
    OBVIOUS
  <2>4. hit' \in BOOLEAN /\ scanning' \in BOOLEAN
    BY Zenon
  <2>5. status' = "GOOD" /\ UNCHANGED <<job, n, count, ofp, files, lost>>
    BY Zenon
  <2> HIDE DEF StartSignalled
  <2> QED
    BY <2>1, <2>2, <2>3, <2>4, <2>5 DEF ImageTypes
<1>5. WholePages'
  BY <1>1 DEF WholePages
<1>6. Poured'
  <2>1. Beginning(got)' = <<>>
    BY <1>2, NothingYet
  <2>2. <<>> # Absent
    BY DEF Absent
  <2> QED
    BY <1>3, <2>1, <2>2 DEF Poured, Running, SinglePicture, Sink, None
<1>7. SinglePicture'
  BY <1>1 DEF SinglePicture
<1>8. Parts'
  BY Paths DEF Parts, Ended, Blocked
<1>9. Rounds'
  BY <1>1, <1>3 DEF Rounds, Running
<1>10. Counted'
  BY DEF Counted, Running
<1> QED
  BY <1>4, <1>5, <1>6, <1>7, <1>8, <1>9, <1>10

LEMMA StartFailsStep ==
  ASSUME ImageInv, StartFails
  PROVE  ImageInv'
<1> USE DEF ImageInv, StartFails, picture, signalled
<1>1. There' = There /\ Whole' = Whole
  BY SameFiles
<1>2. Beginning(got)' = Beginning(got')
  BY SameBeginning
<1>3. Sink' = Sink /\ Scanned' = Scanned
  BY SameSink
<1>4. ImageTypes'
  BY Paths, SinkThere DEF ImageTypes, Running, Ended
<1>5. WholePages'
  BY <1>1 DEF WholePages
<1>6. Poured'
  BY <1>1, <1>2, <1>3 DEF Poured, Running
<1>7. SinglePicture'
  BY <1>1 DEF SinglePicture
<1>8. Parts'
  BY Paths DEF Parts, Ended, Blocked
<1>9. Rounds'
  BY <1>1, <1>3 DEF Rounds, Running
<1>10. Counted'
  BY DEF Counted, Running
<1> QED
  BY <1>4, <1>5, <1>6, <1>7, <1>8, <1>9, <1>10

\* A step that writes the file of the page leaves the pages alone.
LEMMA SinkChanged ==
  ASSUME ImageInv, pc \in {"open", "read", "failed"}, NEW c \in Contents \cup {Absent},
         files' = [files EXCEPT ![Sink] = c], UNCHANGED <<job, n>>
  PROVE  /\ files' \in [Files -> Contents \cup {Absent}]
         /\ n \in 1 .. Last /\ Sink \in Files /\ files'[Sink] = c
         /\ \A f \in Files : f # Sink => files'[f] = files[f]
         /\ There' = There /\ \A k \in There : files'[Page(k)] = files[Page(k)]
<1>1. n \in 1 .. Last /\ Sink \in Files
  BY Paths DEF ImageInv, ImageTypes, Poured, Running, Sink
<1>2. /\ files' \in [Files -> Contents \cup {Absent}] /\ files'[Sink] = c
      /\ \A f \in Files : f # Sink => files'[f] = files[f]
  BY <1>1 DEF ImageInv, ImageTypes
<1>3. \A k \in 1 .. Last : files'[Page(k)] = files[Page(k)]
  BY <1>2, Paths DEF Sink
<1>4. There' = There
  BY <1>3 DEF There
<1> QED
  BY <1>1, <1>2, <1>3, <1>4 DEF There, Sink

LEMMA OpenPartStep ==
  ASSUME ImageInv, OpenPart
  PROVE  ImageInv'
<1> USE DEF ImageInv, OpenPart, picture, signalled
<1>1. Whole' = Whole
  BY DEF Whole
<1>2. Beginning(got)' = Beginning(got')
  BY SameBeginning
<1>3. Sink' = Sink /\ Scanned' = Scanned
  BY SameSink
<1>4. job.batch /\ Sink = Part(n) /\ <<>> \in Contents
  BY DEF Poured, Sink, Contents
<1>5. /\ files' \in [Files -> Contents \cup {Absent}]
      /\ n \in 1 .. Last /\ Sink \in Files /\ files'[Sink] = <<>>
      /\ \A f \in Files : f # Sink => files'[f] = files[f]
      /\ There' = There /\ \A k \in There : files'[Page(k)] = files[Page(k)]
  BY <1>4, SinkChanged DEF Put
<1>6. ImageTypes'
  BY <1>4, <1>5 DEF ImageTypes, Running
<1>7. WholePages'
  BY <1>1, <1>5 DEF WholePages
<1>8. Poured'
  <2>1. Beginning(got)' = <<>>
    BY <1>2, NothingYet DEF Poured
  <2> QED
    BY <1>3, <1>4, <1>5, <2>1, NotContents DEF Poured, Running
<1>9. SinglePicture'
  BY <1>4 DEF SinglePicture
<1>10. Parts'
  BY <1>4, <1>5, Paths DEF Parts, Blocked
<1>11. Rounds'
  BY <1>3, <1>5 DEF Rounds, Running
<1>12. Counted'
  BY DEF Counted, Running
<1> QED
  BY <1>6, <1>7, <1>8, <1>9, <1>10, <1>11, <1>12

LEMMA ReturnDeniedStep ==
  ASSUME ImageInv, ReturnDenied, pc \in Running
  PROVE  ImageInv'
<1> USE DEF ImageInv, ReturnDenied, picture, signalled, AfterCancel, Blocked
<1>1. There' = There /\ Whole' = Whole
  BY SameFiles
<1>2. Beginning(got)' = Beginning(got')
  BY SameBeginning
<1>3. Sink' = Sink /\ Scanned' = Scanned
  BY SameSink
<1>4. ImageTypes'
  BY Paths, SinkThere DEF ImageTypes, Running, Ended
<1>5. WholePages'
  BY <1>1 DEF WholePages
<1>6. Poured'
  BY <1>1, <1>2, <1>3 DEF Poured, Running
<1>7. SinglePicture'
  BY <1>1 DEF SinglePicture
<1>8. Parts'
  BY Paths DEF Parts, Ended, Blocked
<1>9. Rounds'
  BY <1>1, <1>3 DEF Rounds, Running
<1>10. Counted'
  BY DEF Counted, Running
<1> QED
  BY <1>4, <1>5, <1>6, <1>7, <1>8, <1>9, <1>10

LEMMA ReadStep ==
  ASSUME ImageInv, Read
  PROVE  ImageInv'
<1> USE DEF ImageInv
<1>1. PICK len \in 1 .. Chunk :
        /\ got + len <= Bytes /\ got' = got + len
        /\ Write([i \in 1 .. len |-> got + i])
  BY DEF Read
<1> DEFINE c == [i \in 1 .. len |-> got + i]
           out == IF job.swapped THEN Turned(c) ELSE c
<1>2. /\ pc = "read" /\ ofp = Sink /\ files[Sink] \in Contents
      /\ UNCHANGED <<job, pc, n, count, status, ofp, scanning, signals, hit>>
      /\ n \in 1 .. Last
  BY SinkThere DEF Read, Poured, signalled
<1>3. /\ hangOver' = IF job.swapped THEN Kept(c) ELSE None
      /\ \/ files' = [files EXCEPT ![Sink] = files[Sink] \o out] /\ UNCHANGED lost
         \/ lost' = lost \cup {n} /\ UNCHANGED files
  BY <1>1, <1>2 DEF Write, Put
<1>4. len \in Nat \ {0} /\ got \in Nat /\ Bytes \in Nat /\ job.swapped \in BOOLEAN
  BY <1>1, ScanImageAssumption DEF ImageTypes
<1>5. /\ Beginning(got) \o out = Beginning(got + len)
      /\ job.swapped => Kept(c) = IF (got + len) % 2 = 1 THEN got + len ELSE None
      /\ job.swapped => Turned(c) \in Seq(1 .. got + len)
  BY <1>4, PourOn DEF Poured
<1>6. out \in Contents
  <2>1. 1 .. got + len \subseteq 1 .. Bytes
    BY <1>1, <1>4
  <2>2. CASE job.swapped
    <3>1. out \in Seq(1 .. got + len)
      BY <1>5, <2>2
    <3> HIDE DEF out
    <3>2. \A i \in 1 .. Len(out) : out[i] \in 1 .. Bytes
      BY <2>1, <3>1, ElementOfSeq
    <3> QED
      BY <3>1, <3>2, Retyped DEF Contents
  <2>3. CASE ~job.swapped
    BY <1>1, <1>4, <2>3 DEF Contents
  <2> QED
    BY <2>2, <2>3
<1> HIDE DEF out
<1>7. files[Sink] \o out \in Contents
  BY <1>2, <1>6 DEF Contents
<1>8. hangOver' = IF job.swapped /\ got' % 2 = 1 THEN got' ELSE None
  BY <1>1, <1>3, <1>5
<1>9. got' \in 0 .. Bytes /\ hangOver' \in 0 .. Bytes
  BY <1>1, <1>4, <1>8 DEF None
<1>10. /\ Whole' = Whole /\ Sink' = Sink /\ Scanned' = Scanned
       /\ Beginning(got)' = Beginning(got + len)
  BY <1>1, <1>2, SameSink, SameBeginning DEF Whole
<1>11. /\ files' \in [Files -> Contents \cup {Absent}] /\ files'[Sink] \in Contents
       /\ \A f \in Files : f # Sink => files'[f] = files[f]
       /\ There' = There /\ \A k \in There : files'[Page(k)] = files[Page(k)]
       /\ lost \subseteq lost' /\ lost' \subseteq lost \cup {n}
       /\ n \in lost' \/ files'[Sink] = files[Sink] \o out
       /\ Sink \in Files
  <2>1. CASE files' = [files EXCEPT ![Sink] = files[Sink] \o out] /\ UNCHANGED lost
    BY <1>2, <1>7, <2>1, SinkChanged
  <2>2. CASE lost' = lost \cup {n} /\ UNCHANGED files
    BY <1>2, <2>2, SinkThere DEF ImageTypes, There
  <2> QED
    BY <1>3, <2>1, <2>2
<1>12. ImageTypes'
  BY <1>2, <1>9, <1>11 DEF ImageTypes
<1>13. WholePages'
  BY <1>10, <1>11 DEF WholePages
<1>14. Poured'
  <2>1. n \in lost' \/ files'[Sink] = Beginning(got + len)
    BY <1>2, <1>5, <1>11 DEF Poured
  <2>2. files'[Sink] # Absent
    BY <1>11, NotContents
  <2>3. \A k \in lost' : k <= n
    BY <1>2, <1>11 DEF Poured, Running
  <2> QED
    BY <1>2, <1>8, <1>10, <2>1, <2>2, <2>3 DEF Poured, Running
<1>15. SinglePicture'
  BY <1>2, <1>11 DEF SinglePicture
<1>16. Parts'
  BY <1>2, <1>11, Paths DEF Parts, Sink
<1>17. Rounds'
  BY <1>2, <1>10, <1>11 DEF Rounds, Running
<1>18. Counted'
  BY <1>2 DEF Counted, Running
<1> QED
  BY <1>12, <1>13, <1>14, <1>15, <1>16, <1>17, <1>18

LEMMA ReadEofStep ==
  ASSUME ImageInv, ReadEof
  PROVE  ImageInv'
<1> USE DEF ImageInv, ReadEof, picture, signalled
<1>1. There' = There /\ Whole' = Whole
  BY SameFiles
<1>2. Beginning(got)' = Beginning(got')
  BY SameBeginning
<1>3. Sink' = Sink /\ Scanned' = Scanned
  BY SameSink
<1>4. ImageTypes'
  BY Paths, SinkThere DEF ImageTypes, Running, Ended
<1>5. WholePages'
  BY <1>1 DEF WholePages
<1>6. Poured'
  BY <1>1, <1>2, <1>3 DEF Poured, Running
<1>7. SinglePicture'
  BY <1>1 DEF SinglePicture
<1>8. Parts'
  BY Paths DEF Parts, Ended, Blocked
<1>9. Rounds'
  BY <1>1, <1>3 DEF Rounds, Running
<1>10. Counted'
  BY DEF Counted, Running
<1> QED
  BY <1>4, <1>5, <1>6, <1>7, <1>8, <1>9, <1>10

LEMMA ReadFailsStep ==
  ASSUME ImageInv, ReadFails
  PROVE  ImageInv'
<1> USE DEF ImageInv, ReadFails, picture, signalled, AfterCancel, Blocked
<1>1. There' = There /\ Whole' = Whole
  BY SameFiles
<1>2. Beginning(got)' = Beginning(got')
  BY SameBeginning
<1>3. Sink' = Sink /\ Scanned' = Scanned
  BY SameSink
<1>4. ImageTypes'
  BY Paths, SinkThere DEF ImageTypes, Running, Ended
<1>5. WholePages'
  BY <1>1 DEF WholePages
<1>6. Poured'
  BY <1>1, <1>2, <1>3 DEF Poured, Running
<1>7. SinglePicture'
  BY <1>1 DEF SinglePicture
<1>8. Parts'
  BY Paths DEF Parts, Ended, Blocked
<1>9. Rounds'
  BY <1>1, <1>3 DEF Rounds, Running
<1>10. Counted'
  BY DEF Counted, Running
<1> QED
  BY <1>4, <1>5, <1>6, <1>7, <1>8, <1>9, <1>10

LEMMA ReadBlocksStep ==
  ASSUME ImageInv, ReadBlocks
  PROVE  ImageInv'
<1> USE DEF ImageInv, ReadBlocks, picture, signalled, Blocked
<1>1. There' = There /\ Whole' = Whole
  BY SameFiles
<1>2. Beginning(got)' = Beginning(got')
  BY SameBeginning
<1>3. Sink' = Sink /\ Scanned' = Scanned
  BY SameSink
<1>4. ImageTypes'
  BY Paths, SinkThere DEF ImageTypes, Running, Ended
<1>5. WholePages'
  BY <1>1 DEF WholePages
<1>6. Poured'
  BY <1>1, <1>2, <1>3 DEF Poured, Running
<1>7. SinglePicture'
  BY <1>1 DEF SinglePicture
<1>8. Parts'
  BY Paths DEF Parts, Ended, Blocked
<1>9. Rounds'
  BY <1>1, <1>3 DEF Rounds, Running
<1>10. Counted'
  BY DEF Counted, Running
<1> QED
  BY <1>4, <1>5, <1>6, <1>7, <1>8, <1>9, <1>10

LEMMA CloseFileStep ==
  ASSUME ImageInv, CloseFile
  PROVE  ImageInv'
<1> USE DEF ImageInv, CloseFile, picture, signalled
<1>1. There' = There /\ Whole' = Whole
  BY SameFiles
<1>2. Beginning(got)' = Beginning(got')
  BY SameBeginning
<1>3. Sink' = Sink /\ Scanned' = Scanned
  BY SameSink
<1>4. ImageTypes'
  BY Paths, SinkThere DEF ImageTypes, Running, Ended
<1>5. WholePages'
  BY <1>1 DEF WholePages
<1>6. Poured'
  BY <1>2, <1>3 DEF Poured, Running
<1>7. SinglePicture'
  <2>1. CASE ~job.batch
    <3>1. pc' = "next" /\ status' = "GOOD" /\ There' = {}
      BY <1>1, <2>1 DEF SinglePicture, Poured
    <3>2. lost = {} => files[Out] = Whole
      BY <2>1, WholeAtLast DEF Poured, Sink
    <3> QED
      BY <1>1, <2>1, <3>1, <3>2 DEF SinglePicture
  <2>2. CASE job.batch
    BY <2>2 DEF SinglePicture
  <2> QED
    BY <2>1, <2>2
<1>8. Parts'
  BY Paths DEF Parts, Ended, Blocked
<1>9. Rounds'
  BY <1>1, <1>3 DEF Rounds, Running
<1>10. Counted'
  BY DEF Counted, Running
<1> QED
  BY <1>4, <1>5, <1>6, <1>7, <1>8, <1>9, <1>10

LEMMA RenamePartStep ==
  ASSUME ImageInv, RenamePart
  PROVE  ImageInv'
<1> USE DEF ImageInv, RenamePart, picture, signalled
<1>1. Whole' = Whole /\ Sink' = Sink /\ Scanned' = Scanned
  BY SameSink DEF Whole
<1>3. /\ job.batch /\ Sink = Part(n) /\ n \in 1 .. Last
      /\ files[Part(n)] \in Contents /\ Part(n) \in Files /\ Page(n) \in Files
      /\ n \in lost \/ files[Part(n)] = Whole
  BY SinkThere, WholeAtLast, Paths DEF Poured, Sink
<1>4. /\ files' \in [Files -> Contents \cup {Absent}]
      /\ files'[Page(n)] = files[Part(n)] /\ files'[Part(n)] = Absent
      /\ \A f \in Files : f # Page(n) /\ f # Part(n) => files'[f] = files[f]
  BY <1>3, Paths DEF ImageTypes
<1>5. \A k \in 1 .. Last : k # n => /\ files'[Page(k)] = files[Page(k)]
                                    /\ files'[Part(k)] = files[Part(k)]
  BY <1>4, Paths
<1>6. There' = There \cup {n}
  BY <1>3, <1>4, <1>5, NotContents DEF There
<1>7. ImageTypes'
  BY <1>4 DEF ImageTypes, Running
<1>8. WholePages'
  <2> SUFFICES ASSUME NEW k \in There' PROVE k \in lost \/ files'[Page(k)] = Whole
    BY <1>1 DEF WholePages
  <2>1. CASE k = n
    BY <1>3, <1>4, <2>1
  <2>2. CASE k # n
    BY <1>5, <1>6, <2>2 DEF WholePages, There
  <2> QED
    BY <2>1, <2>2
<1>9. Poured'
  BY <1>3 DEF Poured, Running
<1>10. SinglePicture'
  BY <1>3 DEF SinglePicture
<1>11. Parts'
  BY <1>4, <1>5 DEF Parts, Blocked
<1>12. Rounds'
  BY <1>1, <1>3, <1>6 DEF Rounds, Running
<1>13. Counted'
  BY DEF Counted, Running
<1> QED
  BY <1>7, <1>8, <1>9, <1>10, <1>11, <1>12, <1>13

LEMMA DiscardStep ==
  ASSUME ImageInv, Discard
  PROVE  ImageInv'
<1> USE DEF ImageInv, Discard, picture, signalled
<1>1. Whole' = Whole /\ Sink' = Sink /\ Scanned' = Scanned
  BY SameSink DEF Whole
<1>3. ofp = Sink /\ Sink \in Files /\ pc = "failed" /\ pc' = "next"
  BY SinkThere DEF Poured
<1>4. /\ files' \in [Files -> Contents \cup {Absent}]
      /\ job.batch \/ job.named => files'[Sink] = Absent
      /\ ~(job.batch \/ job.named) => UNCHANGED files
      /\ \A f \in Files : f # Sink => files'[f] = files[f]
      /\ There' = There /\ \A k \in There : files'[Page(k)] = files[Page(k)]
  <2>1. CASE job.batch \/ job.named
    BY <1>3, <2>1, SinkChanged DEF Put
  <2>2. CASE ~(job.batch \/ job.named)
    BY <2>2 DEF ImageTypes, There
  <2> QED
    BY <2>1, <2>2
<1>5. ImageTypes'
  BY <1>3, <1>4 DEF ImageTypes, Running
<1>6. WholePages'
  BY <1>1, <1>4 DEF WholePages
<1>7. Poured'
  BY <1>3 DEF Poured, Running
<1>8. SinglePicture'
  BY <1>3, <1>4 DEF SinglePicture, Poured, Sink
<1>9. Parts'
  BY <1>3, <1>4, Paths DEF Parts, Sink, Blocked
<1>10. Rounds'
  BY <1>1, <1>3, <1>4 DEF Rounds, Running, Poured
<1>11. Counted'
  BY DEF Counted, Running
<1> QED
  BY <1>5, <1>6, <1>7, <1>8, <1>9, <1>10, <1>11

LEMMA NextRoundStep ==
  ASSUME ImageInv, NextRound
  PROVE  ImageInv'
<1> USE DEF ImageInv, NextRound, picture, signalled
<1> DEFINE d == job.increment
<1>1. There' = There /\ Whole' = Whole
  BY SameFiles
<1>2. /\ d \in Nat \ {0} /\ job.count \in Int /\ n \in 1 .. Last /\ n' = n + d
      /\ job.batch \in BOOLEAN
  BY ScanImageAssumption DEF CountPage, ImageTypes, Poured, Running
<1>3. Scanned' \subseteq Scanned \cup {n} /\ Scanned \cup {n} \subseteq Scanned'
      /\ n \notin Scanned
  <2>1. (n - 1) % d = 0 /\ n - 1 \in Nat
    BY <1>2 DEF Rounds
  <2>2. ASSUME NEW k \in Scanned', k \notin Scanned PROVE k = n
    <3>1. /\ k \in Int /\ k - 1 \in Nat /\ (k - 1) % d = 0
          /\ n - 1 <= k - 1 /\ k - 1 < n - 1 + d
      BY <1>2, <2>2 DEF Scanned
    <3> HIDE DEF d
    <3>2. n - 1 = k - 1
      BY <1>2, <2>1, <3>1, OneInRound
    <3> QED
      BY <1>2, <3>1, <3>2
  <2> QED
    BY <1>2, <2>1, <2>2 DEF Scanned
<1>4. (n' - 1) % d = 0
  <2>1. (n - 1) % d = 0 /\ n - 1 \in Nat
    BY <1>2 DEF Rounds
  <2> HIDE DEF d
  <2>2. (n - 1 + d) % d = 0
    BY <1>2, <2>1, NextRoundBegins
  <2> QED
    BY <1>2, <2>2
<1>5. ImageTypes'
  BY <1>2 DEF ImageTypes, Running, CountPage
<1>6. WholePages'
  BY <1>1 DEF WholePages
<1>7. Poured'
  <2>1. \A k \in lost : k \in Int /\ k <= n /\ n < n'
    BY <1>2 DEF Poured, Running, ImageTypes
  <2>2. pc' = "page" => n' <= Last /\ status = "GOOD"
    OBVIOUS
  <2>3. pc' \in {"page", "over"} /\ \A k \in lost : k <= n' /\ k # n'
    BY <1>2, <2>1
  <2> QED
    BY <2>2, <2>3 DEF Poured, Running
<1>8. SinglePicture'
  BY <1>1 DEF SinglePicture, MorePages
<1>9. Parts'
  BY DEF Parts, Blocked
<1>10. Rounds'
  <2>1. There \subseteq Scanned'
    BY <1>3 DEF Rounds, Running
  <2>2. ASSUME job.batch, status = "GOOD" PROVE Scanned' \subseteq There
    BY <1>3, <2>2 DEF Rounds, Running
  <2>3. ASSUME job.batch PROVE Scanned' \ There \subseteq {n' - d}
    BY <1>2, <1>3, <2>3 DEF Rounds, Running
  <2> QED
    BY <1>1, <1>4, <2>1, <2>2, <2>3 DEF Rounds, Running
<1>11. Counted'
  <2>1. CASE job.batch
    <3>1. count' = IF count # Unlimited THEN count - 1 ELSE count
      BY <2>1 DEF CountPage
    <3>2. CASE job.count <= 0
      <4>1. count \in Int /\ count <= 0
        BY <2>1, <3>2 DEF Counted, ImageTypes
      <4>2. count' <= 0
        BY <3>1, <4>1 DEF Unlimited
      <4>3. MorePages
        BY <2>1, <4>1 DEF MorePages, Unlimited
      <4> QED
        BY <1>2, <3>2, <4>2, <4>3 DEF Counted, Running, Poured
    <3>3. CASE job.count > 0
      <4>1. count \in Int /\ count > 0 /\ n = 1 + (job.count - count) * d
        BY <2>1, <3>3 DEF Counted, ImageTypes, Running
      <4>2. count' = count - 1
        BY <3>1, <4>1 DEF Unlimited
      <4> DEFINE a == job.count - count
      <4>3. a \in Int /\ job.count - count' = a + 1
        BY <1>2, <4>1, <4>2
      <4>4. (a + 1) * d = a * d + d
        BY <1>2, <4>3
      <4>5. n' = 1 + (job.count - count') * d
        BY <1>2, <4>1, <4>3, <4>4
      <4>6. MorePages \/ count' = 0
        BY <2>1, <4>1, <4>2 DEF MorePages
      <4>7. MorePages => count' > 0
        BY <4>1, <4>2 DEF MorePages, Unlimited
      <4> HIDE DEF a
      <4> QED
        BY <1>2, <2>1, <3>3, <4>1, <4>2, <4>5, <4>6, <4>7 DEF Counted, Running
    <3> QED
      BY <1>2, <3>2, <3>3
  <2>2. CASE ~job.batch
    BY <2>2 DEF Counted
  <2> QED
    BY <2>1, <2>2
<1> QED
  BY <1>5, <1>6, <1>7, <1>8, <1>9, <1>10, <1>11

LEMMA OverStep ==
  ASSUME ImageInv, Over
  PROVE  ImageInv'
<1> USE DEF ImageInv, Over, picture, signalled
<1>1. There' = There /\ Whole' = Whole
  BY SameFiles
<1>2. Beginning(got)' = Beginning(got')
  BY SameBeginning
<1>3. Sink' = Sink /\ Scanned' = Scanned
  BY SameSink
<1>4. ImageTypes'
  BY Paths, SinkThere DEF ImageTypes, Running, Ended
<1>5. WholePages'
  BY <1>1 DEF WholePages
<1>6. Poured'
  BY <1>1, <1>2, <1>3 DEF Poured, Running
<1>7. SinglePicture'
  BY <1>1 DEF SinglePicture
<1>8. Parts'
  BY Paths DEF Parts, Ended, Blocked
<1>9. Rounds'
  BY <1>1, <1>3 DEF Rounds, Running
<1>10. Counted'
  BY DEF Counted, Running
<1> QED
  BY <1>4, <1>5, <1>6, <1>7, <1>8, <1>9, <1>10

LEMMA SignalStep ==
  ASSUME ImageInv, Signal
  PROVE  ImageInv'
<1> USE DEF ImageInv, Signal, picture, signalled, AfterCancel, Blocked, Ended
<1>1. There' = There /\ Whole' = Whole
  BY SameFiles
<1>2. Beginning(got)' = Beginning(got')
  BY SameBeginning
<1>3. Sink' = Sink /\ Scanned' = Scanned
  BY SameSink
<1>4. ImageTypes'
  BY Paths, SinkThere DEF ImageTypes, Running, Ended
<1>5. WholePages'
  BY <1>1 DEF WholePages
<1>6. Poured'
  BY <1>1, <1>2, <1>3 DEF Poured, Running
<1>7. SinglePicture'
  BY <1>1 DEF SinglePicture
<1>8. Parts'
  BY Paths DEF Parts, Ended, Blocked
<1>9. Rounds'
  BY <1>1, <1>3 DEF Rounds, Running
<1>10. Counted'
  BY DEF Counted, Running
<1> QED
  BY <1>4, <1>5, <1>6, <1>7, <1>8, <1>9, <1>10

-----------------------------------------------------------------------------
LEMMA ImageInductive ==
  ASSUME ImageInv, [Next]_vars
  PROVE  ImageInv'
<1>1. CASE NextPage
  BY <1>1, NextPageStep
<1>2. CASE Start
  BY <1>2, StartStep
<1>3. CASE StartFails
  BY <1>3, StartFailsStep
<1>4. CASE OpenPart
  BY <1>4, OpenPartStep
<1>5. CASE OpenPartFails
  BY <1>5, ReturnDeniedStep DEF OpenPartFails, Running
<1>6. CASE Read
  BY <1>6, ReadStep
<1>7. CASE ReadEof
  BY <1>7, ReadEofStep
<1>8. CASE ReadFails
  BY <1>8, ReadFailsStep
<1>9. CASE CloseFile
  BY <1>9, CloseFileStep
<1>10. CASE CloseFails
  BY <1>10, ReturnDeniedStep DEF CloseFails, Running
<1>11. CASE RenamePart
  BY <1>11, RenamePartStep
<1>12. CASE RenameFails
  BY <1>12, ReturnDeniedStep DEF RenameFails, Running
<1>13. CASE Discard
  BY <1>13, DiscardStep
<1>14. CASE NextRound
  BY <1>14, NextRoundStep
<1>15. CASE Over
  BY <1>15, OverStep
<1>16. CASE Signal
  BY <1>16, SignalStep
<1>17. CASE ReadBlocks
  BY <1>17, ReadBlocksStep
<1>18. CASE StartSignalled
  BY <1>18, StartSignalledStep
<1>19. CASE UNCHANGED vars
  <2>1. There' = There /\ Whole' = Whole /\ Sink' = Sink /\ Scanned' = Scanned
    BY <1>19, SameFiles, SameSink DEF vars
  <2>2. Beginning(got)' = Beginning(got)
    BY <1>19, SameBeginning DEF vars
  <2> QED
    BY <1>19, <2>1, <2>2 DEF vars, ImageInv, ImageTypes, WholePages, Poured,
       SinglePicture, Parts, Rounds, Counted
<1> QED
  BY <1>1, <1>2, <1>3, <1>4, <1>5, <1>6, <1>7, <1>8, <1>9, <1>10, <1>11, <1>12,
     <1>13, <1>14, <1>15, <1>16, <1>17, <1>18, <1>19 DEF Next, Step

\* What holds at every point of the program, with every option (scanimage.c: the
\* loop of main and scan_it).
THEOREM ImageInvariant == Spec => []ImageInv
  BY ImageInit, ImageInductive, PTL DEF Spec

\* A file under its final name is a whole picture, however the bytes are cut
\* into chunks and wherever a signal comes (scanimage.c: hang_over, rename).
THEOREM AlwaysWholePages == Spec => []WholePages
<1>1. ImageInv => WholePages
  BY DEF ImageInv
<1> QED
  BY <1>1, ImageInvariant, PTL

\* The files that are there when the program exits by its loop are those its
\* exit status tells of (scanimage.c: break, unlink, --batch-count, status).
THEOREM ExitAlwaysTells == Spec => []ExitTells
<1>1. ImageInv => ExitTells
  <2> SUFFICES ASSUME ImageInv, pc = "exited" PROVE ExitTells
    BY DEF ExitTells
  <2> USE DEF ImageInv
  <2>1. \A k \in 1 .. Last : files[Part(k)] = Absent
    BY DEF Parts, Blocked
  <2>2. /\ There \subseteq Scanned
        /\ job.batch => Scanned \ There \subseteq
                           (IF status = "GOOD" THEN {} ELSE {n - job.increment})
    BY DEF Rounds
  <2>3. job.batch /\ status = "GOOD" /\ ~job.prompt =>
          job.count > 0 /\ n = 1 + job.count * job.increment
    BY ScanImageAssumption DEF Counted, ImageTypes
  <2>4. ~job.batch /\ lost = {} =>
          \/ files[Out] = Whole
          \/ status # "GOOD" /\ (job.named => files[Out] \in {Absent, <<>>})
    BY DEF SinglePicture
  <2> QED
    BY <2>1, <2>2, <2>3, <2>4 DEF ExitTells
<1> QED
  BY <1>1, ImageInvariant, PTL
=============================================================================
