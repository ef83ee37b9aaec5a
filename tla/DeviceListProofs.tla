--------------------------- MODULE DeviceListProofs ---------------------------
(***************************************************************************)
(* The device list, for every number of places and slots, every table of  *)
(* models, every configuration file and every number of handles.           *)
(*                                                                         *)
(* Three invariants, one in the other.  BaseInv: what is in the list comes *)
(* from usbDevs, once, and a handle has a device of the list; it holds if  *)
(* devices are shared, too.  Own and Descriptors: a handle has a device of *)
(* its own, and a device has a descriptor if and only if its handle scans. *)
(* Listed: from sane_init on, as long as nothing failed, there are as many *)
(* sections left that take any device as there are devices to take.        *)
(*                                                                         *)
(* The loops of the model are functions defined by recursion over 1 .. N;  *)
(* what they return is shown by Induction, from the lemmas ...Loop, each   *)
(* of which unfolds one definition.                                        *)
(***************************************************************************)
EXTENDS DeviceList, FiniteSetTheorems, WellFoundedInduction, TLAPS
-----------------------------------------------------------------------------
(* Induction, and functions that are defined by recursion over 1 .. N.     *)

\* Induction over the natural numbers, as a fact about sets.
LEMMA Induction ==
  ASSUME NEW T, 0 \in T, \A n \in Nat : n \in T => n + 1 \in T
  PROVE  Nat \subseteq T
<1> DEFINE Missed == Nat \ T
<1> SUFFICES ASSUME Missed # {} PROVE FALSE
  OBVIOUS
<1>1. PICK x \in Missed : \A y \in Missed : <<y, x>> \notin OpToRel(<, Nat)
  BY NatLessThanWellFounded, WFMin
<1>2. \A y \in Missed : ~(y < x)
  BY <1>1 DEF OpToRel
<1>3. x # 0 /\ x - 1 \in Nat
  OBVIOUS
<1>4. x - 1 \in T
  BY <1>2, <1>3
<1> QED
  BY <1>3, <1>4

\* What a loop of N steps computes exists.
LEMMA Iteration ==
  ASSUME NEW S, NEW base \in S, NEW N \in Nat, NEW step \in [1 .. N -> [S -> S]]
  PROVE  \E g \in [0 .. N -> S] :
            g[0] = base /\ \A n \in 1 .. N : g[n] = step[n][g[n - 1]]
<1> DEFINE Good(g, k) == g[0] = base /\ \A n \in 1 .. k : g[n] = step[n][g[n - 1]]
           T == {k \in Nat : k <= N => \E g \in [0 .. k -> S] : Good(g, k)}
<1>1. 0 \in T
  <2> DEFINE g == [n \in 0 .. 0 |-> base]
  <2>1. g \in [0 .. 0 -> S] /\ Good(g, 0)
    OBVIOUS
  <2> QED
    BY <2>1
<1>2. ASSUME NEW k \in Nat, k \in T PROVE k + 1 \in T
  <2> SUFFICES ASSUME k + 1 <= N PROVE \E g \in [0 .. k + 1 -> S] : Good(g, k + 1)
    OBVIOUS
  <2>1. PICK h \in [0 .. k -> S] : Good(h, k)
    BY <1>2
  <2> DEFINE g == [n \in 0 .. k + 1 |-> IF n <= k THEN h[n] ELSE step[k + 1][h[k]]]
  <2>2. step[k + 1][h[k]] \in S
    <3>1. k + 1 \in 1 .. N /\ h[k] \in S
      OBVIOUS
    <3>2. step[k + 1] \in [S -> S]
      BY <3>1
    <3> QED
      BY <3>1, <3>2
  <2>3. g \in [0 .. k + 1 -> S]
    BY <2>2
  <2>4. Good(g, k + 1)
    <3>1. g[0] = base
      BY <2>1
    <3>2. ASSUME NEW n \in 1 .. k + 1 PROVE g[n] = step[n][g[n - 1]]
      BY <2>1
    <3> QED
      BY <3>1, <3>2
  <2> QED
    BY <2>3, <2>4
<1>3. N \in T
  <2> HIDE DEF T
  <2> QED
    BY <1>1, <1>2, Induction
<1> QED
  BY <1>3

-----------------------------------------------------------------------------
(* The slots that are looked for.                                          *)

LEMMA LeastIn ==
  ASSUME NEW T, T \subseteq Nat, T # {}
  PROVE  \E x \in T : \A y \in T : x <= y
<1>1. PICK x \in T : \A y \in T : <<y, x>> \notin OpToRel(<, Nat)
  BY NatLessThanWellFounded, WFMin
<1>2. \A y \in T : ~(y < x)
  BY <1>1 DEF OpToRel
<1>3. \A y \in T : y \in Nat /\ x \in Nat
  OBVIOUS
<1>4. \A y \in T : x <= y
  BY <1>2, <1>3
<1> QED
  BY <1>4

LEMMA LowestIn ==
  ASSUME NEW N \in Nat, NEW S \in SUBSET (1 .. N), S # {}
  PROVE  Lowest(S) \in S /\ \A y \in S : Lowest(S) <= y
<1>1. S \subseteq Nat
  OBVIOUS
<1>2. \E x \in S : \A y \in S : x <= y
  BY <1>1, LeastIn
<1> QED
  BY <1>2 DEF Lowest

LEMMA HighestIn ==
  ASSUME NEW N \in Nat, NEW S \in SUBSET (1 .. N), S # {}
  PROVE  Highest(S) \in S
<1> DEFINE Mirror == {n \in 1 .. N : N + 1 - n \in S}
<1>1. Mirror # {}
  <2>1. PICK y \in S : TRUE
    OBVIOUS
  <2>2. N + 1 - y \in 1 .. N /\ N + 1 - (N + 1 - y) = y
    OBVIOUS
  <2> QED
    BY <2>1, <2>2
<1>2. Lowest(Mirror) \in Mirror /\ \A n \in Mirror : Lowest(Mirror) <= n
  BY <1>1, LowestIn
<1> DEFINE x == N + 1 - Lowest(Mirror)
<1>3. x \in S
  BY <1>2
<1>4. ASSUME NEW y \in S PROVE x >= y
  <2>1. N + 1 - y \in Mirror
    <3>1. N + 1 - y \in 1 .. N /\ N + 1 - (N + 1 - y) = y
      OBVIOUS
    <3> QED
      BY <3>1
  <2>2. Lowest(Mirror) <= N + 1 - y
    BY <1>2, <2>1
  <2>3. Lowest(Mirror) \in Int /\ y \in Int
    BY <1>2
  <2> HIDE DEF Mirror
  <2> QED
    BY <2>2, <2>3
<1> HIDE DEF x
<1> QED
  BY <1>3, <1>4 DEF Highest

LEMMA SeqFacts ==
  ASSUME NEW S, NEW s \in Seq(S)
  PROVE  /\ Len(s) \in Nat /\ DOMAIN s = 1 .. Len(s)
         /\ \A i \in DOMAIN s : s[i] \in S
OBVIOUS

LEMMA SeqWith ==
  ASSUME NEW S, NEW s \in Seq(S), NEW k \in DOMAIN s, NEW v \in S
  PROVE  /\ [s EXCEPT ![k] = v] \in Seq(S)
         /\ Len([s EXCEPT ![k] = v]) = Len(s)
         /\ DOMAIN [s EXCEPT ![k] = v] = DOMAIN s
         /\ [s EXCEPT ![k] = v][k] = v
         /\ \A i \in DOMAIN s : i # k => [s EXCEPT ![k] = v][i] = s[i]
OBVIOUS

LEMMA SeqAppend ==
  ASSUME NEW S, NEW s \in Seq(S), NEW v \in S
  PROVE  /\ Append(s, v) \in Seq(S)
         /\ Len(Append(s, v)) = Len(s) + 1
         /\ DOMAIN Append(s, v) = DOMAIN s \cup {Len(s) + 1}
         /\ Append(s, v)[Len(s) + 1] = v
         /\ \A i \in DOMAIN s : Append(s, v)[i] = s[i]
<1>1. /\ Append(s, v) \in Seq(S)
      /\ Len(Append(s, v)) = Len(s) + 1
      /\ Append(s, v)[Len(s) + 1] = v
      /\ \A i \in DOMAIN s : Append(s, v)[i] = s[i]
  OBVIOUS
<1>2. DOMAIN Append(s, v) = 1 .. Len(s) + 1 /\ DOMAIN s = 1 .. Len(s) /\ Len(s) \in Nat
  BY <1>1, SeqFacts
<1> QED
  BY <1>1, <1>2

-----------------------------------------------------------------------------
(* The table.                                                              *)

Entries == [name : Addresses, open : BOOLEAN, missing : 0 .. 2]

\* A table of devices: every name once.
IsTable(table) ==
    /\ table \in Seq(Entries) /\ Len(table) <= MaxDevices
    /\ \A i, j \in DOMAIN table : table[i].name = table[j].name => i = j

\* What was found is not missing.
Seen(table, found) ==
    \A i \in DOMAIN table : table[i].name \in found => table[i].missing = 0

\* Only what cannot be told is open.
Shut(table) == \A i \in DOMAIN table : table[i].open => table[i].name \in Aliens

LEMMA TableFacts ==
  ASSUME NEW table, IsTable(table)
  PROVE  /\ table \in Seq(Entries) /\ Len(table) \in Nat /\ Len(table) <= MaxDevices
         /\ DOMAIN table = 1 .. Len(table)
         /\ \A i \in DOMAIN table :
               /\ table[i] \in Entries /\ table[i].name \in Addresses
               /\ table[i].open \in BOOLEAN
         /\ \A i, j \in DOMAIN table : table[i].name = table[j].name => i = j
<1>1. /\ table \in Seq(Entries) /\ Len(table) <= MaxDevices
      /\ \A i, j \in DOMAIN table : table[i].name = table[j].name => i = j
  BY DEF IsTable
<1>2. /\ Len(table) \in Nat /\ DOMAIN table = 1 .. Len(table)
      /\ \A i \in DOMAIN table : table[i] \in Entries
  BY <1>1, SeqFacts
<1>3. \A e \in Entries : e.name \in Addresses /\ e.open \in BOOLEAN
  BY DEF Entries
<1> QED
  BY <1>1, <1>2, <1>3

LEMMA EntryWith ==
  ASSUME NEW e \in Entries, NEW m \in 0 .. 2
  PROVE  /\ [e EXCEPT !.missing = m] \in Entries
         /\ [e EXCEPT !.missing = m].name = e.name
         /\ [e EXCEPT !.missing = m].open = e.open
         /\ [e EXCEPT !.missing = m].missing = m
BY DEF Entries

LEMMA NewEntry ==
  ASSUME NEW a \in Addresses
  PROVE  LET new == [name |-> a, open |-> FALSE, missing |-> 0]
         IN  new \in Entries /\ new.name = a /\ new.open = FALSE /\ new.missing = 0
BY DEF Entries

\* store_device keeps the names apart, marks what it stores as seen, and opens nothing.
LEMMA StoreKeeps ==
  ASSUME NEW table, IsTable(table), NEW a \in Addresses, NEW found, Seen(table, found)
  PROVE  /\ IsTable(Store(table, a))
         /\ Seen(Store(table, a), found \cup {a})
         /\ Shut(table) => Shut(Store(table, a))
<1> DEFINE same == {i \in DOMAIN table : table[i].name = a}
           gone == {i \in DOMAIN table : table[i].missing >= 2}
           new  == [name |-> a, open |-> FALSE, missing |-> 0]
           Goal(t) == /\ IsTable(t)
                      /\ Seen(t, found \cup {a})
                      /\ Shut(table) => Shut(t)
<1>1. /\ table \in Seq(Entries) /\ Len(table) \in Nat /\ Len(table) <= MaxDevices
      /\ DOMAIN table = 1 .. Len(table)
      /\ \A i \in DOMAIN table : table[i] \in Entries
      /\ \A i, j \in DOMAIN table : table[i].name = table[j].name => i = j
  BY TableFacts
<1>2. new \in Entries /\ new.name = a /\ new.open = FALSE /\ new.missing = 0
  BY NewEntry
<1> HIDE DEF new
<1>3. CASE same # {}
  <2> DEFINE k == Lowest(same)
             v == [table[k] EXCEPT !.missing = 0]
             t == [table EXCEPT ![k] = v]
  <2>1. k \in DOMAIN table /\ table[k].name = a
    <3>1. same \in SUBSET (1 .. Len(table))
      BY <1>1
    <3>2. Lowest(same) \in same
      <4> HIDE DEF same
      <4> QED
        BY <1>1, <1>3, <3>1, LowestIn
    <3> QED
      BY <3>2
  <2> HIDE DEF k
  <2>2. v \in Entries /\ v.name = a /\ v.open = table[k].open /\ v.missing = 0
    <3> DEFINE e == table[k]
    <3>1. e \in Entries /\ 0 \in 0 .. 2
      BY <1>1, <2>1
    <3> HIDE DEF e
    <3>2. /\ [e EXCEPT !.missing = 0] \in Entries
          /\ [e EXCEPT !.missing = 0].name = e.name
          /\ [e EXCEPT !.missing = 0].open = e.open
          /\ [e EXCEPT !.missing = 0].missing = 0
      BY <3>1, EntryWith
    <3> QED
      BY <2>1, <3>2 DEF e
  <2>3. Store(table, a) = t
    BY <1>3, <2>1 DEF Store, k
  <2> HIDE DEF v
  <2>4. /\ t \in Seq(Entries) /\ Len(t) = Len(table) /\ DOMAIN t = DOMAIN table
        /\ t[k] = v /\ \A i \in DOMAIN table : i # k => t[i] = table[i]
    BY <1>1, <2>1, <2>2, SeqWith
  <2> HIDE DEF t
  <2>5. \A i \in DOMAIN t : t[i].name = table[i].name /\ t[i].open = table[i].open
    BY <2>1, <2>2, <2>4
  <2>6. IsTable(t)
    BY <1>1, <2>4, <2>5 DEF IsTable
  <2>7. Seen(t, found \cup {a})
    BY <1>1, <2>1, <2>2, <2>4 DEF Seen
  <2>8. Shut(table) => Shut(t)
    BY <2>4, <2>5 DEF Shut
  <2> QED
    BY <2>3, <2>6, <2>7, <2>8
<1>4. CASE same = {} /\ gone # {}
  <2> DEFINE k == Highest(gone)
             t == [table EXCEPT ![k] = new]
  <2>1. k \in DOMAIN table
    <3>1. gone \in SUBSET (1 .. Len(table))
      BY <1>1
    <3>2. Highest(gone) \in gone
      <4> HIDE DEF gone, same
      <4> QED
        BY <1>1, <1>4, <3>1, HighestIn
    <3> QED
      BY <3>2
  <2>3. Store(table, a) = t
    BY <1>4 DEF Store, new
  <2> HIDE DEF k
  <2>4. /\ t \in Seq(Entries) /\ Len(t) = Len(table) /\ DOMAIN t = DOMAIN table
        /\ t[k] = new /\ \A i \in DOMAIN table : i # k => t[i] = table[i]
    BY <1>1, <1>2, <2>1, SeqWith
  <2>5. \A i \in DOMAIN table : table[i].name # a
    BY <1>4
  <2> HIDE DEF t
  <2>6. IsTable(t)
    BY <1>1, <1>2, <2>4, <2>5 DEF IsTable
  <2>7. Seen(t, found \cup {a})
    BY <1>2, <2>4, <2>5 DEF Seen
  <2>8. Shut(table) => Shut(t)
    BY <1>2, <2>4 DEF Shut
  <2> QED
    BY <2>3, <2>6, <2>7, <2>8
<1>5. CASE same = {} /\ gone = {} /\ Len(table) < MaxDevices
  <2> DEFINE t == Append(table, new)
             k == Len(table) + 1
  <2>3. Store(table, a) = t
    BY <1>5 DEF Store, new
  <2>4. /\ t \in Seq(Entries) /\ Len(t) = k /\ DOMAIN t = DOMAIN table \cup {k}
        /\ t[k] = new /\ \A i \in DOMAIN table : t[i] = table[i]
    BY <1>1, <1>2, SeqAppend
  <2>5. \A i \in DOMAIN table : table[i].name # a
    BY <1>5
  <2>6. k <= MaxDevices
    BY <1>1, <1>5, UsbTableAssumption
  <2> HIDE DEF t, k
  <2>7. IsTable(t)
    BY <1>1, <1>2, <2>4, <2>5, <2>6 DEF IsTable
  <2>8. Seen(t, found \cup {a})
    BY <1>2, <2>4, <2>5 DEF Seen
  <2>9. Shut(table) => Shut(t)
    BY <1>2, <2>4 DEF Shut
  <2> QED
    BY <2>3, <2>7, <2>8, <2>9
<1>6. CASE same = {} /\ gone = {} /\ ~(Len(table) < MaxDevices)
  <2>1. Store(table, a) = table
    BY <1>6 DEF Store
  <2>2. Seen(table, found \cup {a})
    BY <1>6 DEF Seen
  <2> QED
    BY <2>1, <2>2
<1> QED
  BY <1>3, <1>4, <1>5, <1>6
\* The loop of sanei_usb_scan_devices, and what it leaves.
LEMMA OlderKeeps ==
  ASSUME NEW e \in Entries
  PROVE  Older(e) \in Entries /\ Older(e).name = e.name /\ Older(e).open = e.open
<1> DEFINE m == IF e.missing < 2 THEN e.missing + 1 ELSE e.missing
<1>1. m \in 0 .. 2
  BY DEF Entries
<1>2. Older(e) = [e EXCEPT !.missing = m]
  BY DEF Older
<1> HIDE DEF m
<1>3. /\ [e EXCEPT !.missing = m] \in Entries
      /\ [e EXCEPT !.missing = m].name = e.name
      /\ [e EXCEPT !.missing = m].open = e.open
  BY <1>1, EntryWith
<1> QED
  BY <1>2, <1>3

LEMMA ScanLoop ==
  ASSUME IsTable(devices), NEW found
  PROVE  \E table :
           /\ table[0] = [i \in Slots |-> Older(devices[i])]
           /\ \A a \in 1 .. Places :
                table[a] = IF a \in found THEN Store(table[a - 1], a) ELSE table[a - 1]
           /\ Scanned(found) = table[Places]
<1> DEFINE N == Places
           S == {t \in Seq(Entries) : IsTable(t)}
           base == [i \in Slots |-> Older(devices[i])]
           step == [n \in 1 .. N |-> [s \in S |-> IF n \in found THEN Store(s, n) ELSE s]]
           Body(f) == [a \in 0 .. N |->
                         IF a = 0 THEN base
                         ELSE IF a \in found THEN Store(f[a - 1], a) ELSE f[a - 1]]
           F == CHOOSE f : f = Body(f)
<1>0. N \in Nat
  BY UsbTableAssumption
<1>1. base \in S
  <2>1. /\ devices \in Seq(Entries) /\ Len(devices) \in Nat /\ Len(devices) <= MaxDevices
        /\ Slots = 1 .. Len(devices)
        /\ \A i \in Slots : devices[i] \in Entries
        /\ \A i, j \in Slots : devices[i].name = devices[j].name => i = j
    BY TableFacts DEF Slots
  <2>2. \A i \in Slots : base[i] \in Entries /\ base[i].name = devices[i].name
    BY <2>1, OlderKeeps
  <2>3. base \in Seq(Entries) /\ Len(base) = Len(devices) /\ DOMAIN base = Slots
    BY <2>1, <2>2
  <2> HIDE DEF base
  <2> QED
    BY <2>1, <2>2, <2>3 DEF IsTable
<1>2. step \in [1 .. N -> [S -> S]]
  <2> SUFFICES ASSUME NEW n \in 1 .. N, NEW s \in S
               PROVE  (IF n \in found THEN Store(s, n) ELSE s) \in S
    OBVIOUS
  <2>1. n \in Addresses /\ Seen(s, {}) /\ IsTable(s)
    BY DEF Addresses, Seen
  <2>2. IsTable(Store(s, n))
    BY <2>1, StoreKeeps
  <2> QED
    BY <2>2 DEF IsTable
<1>3. PICK g \in [0 .. N -> S] :
        g[0] = base /\ \A n \in 1 .. N : g[n] = step[n][g[n - 1]]
  <2> HIDE DEF N, S, base, step
  <2> QED
    BY <1>0, <1>1, <1>2, Iteration
<1> HIDE DEF base
<1>4. g = Body(g)
  <2>1. ASSUME NEW n \in 0 .. N PROVE g[n] = Body(g)[n]
    <3>1. CASE n = 0
      BY <1>3, <3>1
    <3>2. CASE n # 0
      <4>1. n \in 1 .. N /\ g[n - 1] \in S
        <5>1. n \in 1 .. N /\ n - 1 \in 0 .. N
          BY <1>0, <3>2
        <5> QED
          BY <1>3, <5>1
      <4>2. step[n][g[n - 1]] = IF n \in found THEN Store(g[n - 1], n) ELSE g[n - 1]
        BY <4>1
      <4>3. Body(g)[n] = IF n \in found THEN Store(g[n - 1], n) ELSE g[n - 1]
        BY <3>2
      <4> HIDE DEF Body, step
      <4> QED
        BY <1>3, <4>1, <4>2, <4>3
    <3> QED
      BY <3>1, <3>2
  <2>2. DOMAIN Body(g) = 0 .. N /\ Body(g) = [n \in DOMAIN Body(g) |-> Body(g)[n]]
    OBVIOUS
  <2> HIDE DEF Body
  <2> QED
    BY <2>1, <2>2
<1>5. F = Body(F)
  <2> HIDE DEF Body
  <2> QED
    BY <1>4
<1>6. Scanned(found) = F[N]
  BY DEF Scanned, base
<1> HIDE DEF F
<1>7. F[0] = base
  BY <1>0, <1>5
<1>8. ASSUME NEW n \in 1 .. N
      PROVE  F[n] = IF n \in found THEN Store(F[n - 1], n) ELSE F[n - 1]
  <2>1. n \in 0 .. N /\ n # 0
    BY <1>0
  <2>2. Body(F)[n] = IF n \in found THEN Store(F[n - 1], n) ELSE F[n - 1]
    BY <2>1
  <2> HIDE DEF Body
  <2> QED
    BY <1>5, <2>2
<1>9. /\ F[0] = [i \in Slots |-> Older(devices[i])]
      /\ \A a \in 1 .. Places :
           F[a] = IF a \in found THEN Store(F[a - 1], a) ELSE F[a - 1]
      /\ Scanned(found) = F[Places]
  BY <1>6, <1>7, <1>8 DEF base
<1> QED
  BY <1>9

\* After a scan of the bus no name is there twice, what was found and has a slot is
\* not missing, and nothing was opened.
LEMMA ScannedTable ==
  ASSUME IsTable(devices), NEW found \in SUBSET Addresses
  PROVE  /\ IsTable(Scanned(found))
         /\ Seen(Scanned(found), found)
         /\ Shut(devices) => Shut(Scanned(found))
<1>1. PICK table :
        /\ table[0] = [i \in Slots |-> Older(devices[i])]
        /\ \A a \in 1 .. Places :
             table[a] = IF a \in found THEN Store(table[a - 1], a) ELSE table[a - 1]
        /\ Scanned(found) = table[Places]
  BY ScanLoop
<1> DEFINE Good(t, n) == /\ IsTable(t)
                         /\ Seen(t, found \cap (1 .. n))
                         /\ Shut(devices) => Shut(t)
           T == {n \in Nat : n <= Places => Good(table[n], n)}
<1>2. 0 \in T
  <2> DEFINE base == [i \in Slots |-> Older(devices[i])]
  <2>1. /\ devices \in Seq(Entries) /\ Len(devices) \in Nat /\ Len(devices) <= MaxDevices
        /\ Slots = 1 .. Len(devices)
        /\ \A i \in Slots : devices[i] \in Entries
        /\ \A i, j \in Slots : devices[i].name = devices[j].name => i = j
    BY TableFacts DEF Slots
  <2>2. \A i \in Slots : /\ base[i] \in Entries /\ base[i].name = devices[i].name
                         /\ base[i].open = devices[i].open
    BY <2>1, OlderKeeps
  <2>3. base \in Seq(Entries) /\ Len(base) = Len(devices) /\ DOMAIN base = Slots
    BY <2>1, <2>2
  <2>4. table[0] = base
    BY <1>1
  <2> HIDE DEF base
  <2>5. IsTable(base)
    BY <2>1, <2>2, <2>3 DEF IsTable
  <2>6. Seen(base, found \cap (1 .. 0))
    BY DEF Seen
  <2>7. Shut(devices) => Shut(base)
    BY <2>2, <2>3 DEF Shut, Slots
  <2> QED
    BY <2>4, <2>5, <2>6, <2>7
<1>3. ASSUME NEW n \in Nat, n \in T PROVE n + 1 \in T
  <2> SUFFICES ASSUME n + 1 <= Places PROVE Good(table[n + 1], n + 1)
    OBVIOUS
  <2>1. Good(table[n], n)
    BY <1>3, UsbTableAssumption
  <2>2. n + 1 \in Addresses /\ n + 1 \in 1 .. Places /\ n + 1 - 1 = n
    BY UsbTableAssumption DEF Addresses
  <2>3. table[n + 1] = IF n + 1 \in found THEN Store(table[n], n + 1) ELSE table[n]
    BY <1>1, <2>2
  <2>4. CASE n + 1 \in found
    <3>1. found \cap (1 .. n + 1) = (found \cap (1 .. n)) \cup {n + 1}
      BY <2>4
    <3>2. /\ IsTable(Store(table[n], n + 1))
          /\ Seen(Store(table[n], n + 1), (found \cap (1 .. n)) \cup {n + 1})
          /\ Shut(table[n]) => Shut(Store(table[n], n + 1))
      BY <2>1, <2>2, StoreKeeps
    <3> QED
      BY <2>1, <2>3, <2>4, <3>1, <3>2
  <2>5. CASE n + 1 \notin found
    <3>1. found \cap (1 .. n + 1) = found \cap (1 .. n)
      BY <2>5
    <3> QED
      BY <2>1, <2>3, <2>5, <3>1
  <2> QED
    BY <2>4, <2>5
<1>4. Places \in T
  <2> HIDE DEF T
  <2> QED
    BY <1>2, <1>3, Induction, UsbTableAssumption
<1>5. found \cap (1 .. Places) = found
  BY DEF Addresses
<1> QED
  BY <1>1, <1>4, <1>5, UsbTableAssumption
-----------------------------------------------------------------------------
(* What is found in the table.                                             *)

\* The loop of sanei_usb_find_devices.
LEMMA FindLoop ==
  ASSUME NEW table, IsTable(table), NEW model
  PROVE  \E names :
           /\ names[0] = <<>>
           /\ \A n \in 1 .. Len(table) :
                names[n] = IF table[n].missing = 0 /\ Model[table[n].name] = model
                           THEN Append(names[n - 1], table[n].name) ELSE names[n - 1]
           /\ FoundAs(table, model) = names[Len(table)]
<1> DEFINE N == Len(table)
           S == Seq(Addresses)
           base == <<>>
           Fit(n) == table[n].missing = 0 /\ Model[table[n].name] = model
           step == [n \in 1 .. N |-> [s \in S |->
                      IF Fit(n) THEN Append(s, table[n].name) ELSE s]]
           Body(f) == [n \in 0 .. N |->
                         IF n = 0 THEN <<>>
                         ELSE IF table[n].missing = 0 /\ Model[table[n].name] = model
                         THEN Append(f[n - 1], table[n].name)
                         ELSE f[n - 1]]
           F == CHOOSE f : f = Body(f)
<1>0. /\ table \in Seq(Entries) /\ N \in Nat /\ DOMAIN table = 1 .. N
      /\ \A i \in 1 .. N : table[i].name \in Addresses
  BY TableFacts
<1>1. base \in S /\ N \in Nat
  BY <1>0
<1>2. step \in [1 .. N -> [S -> S]]
  <2> SUFFICES ASSUME NEW n \in 1 .. N, NEW s \in S
               PROVE  (IF Fit(n) THEN Append(s, table[n].name) ELSE s) \in S
    OBVIOUS
  <2>1. table[n].name \in Addresses
    BY <1>0
  <2>2. Append(s, table[n].name) \in S
    BY <2>1, SeqAppend
  <2> QED
    BY <2>2
<1>3. PICK g \in [0 .. N -> S] :
        g[0] = base /\ \A n \in 1 .. N : g[n] = step[n][g[n - 1]]
  <2> HIDE DEF N, S, base, step
  <2> QED
    BY <1>1, <1>2, Iteration
<1>4. g = Body(g)
  <2>1. ASSUME NEW n \in 0 .. N PROVE g[n] = Body(g)[n]
    <3>1. CASE n = 0
      BY <1>3, <3>1
    <3>2. CASE n # 0
      <4>1. n \in 1 .. N /\ g[n - 1] \in S
        <5>1. n \in 1 .. N /\ n - 1 \in 0 .. N
          BY <1>0, <3>2
        <5> QED
          BY <1>3, <5>1
      <4>2. step[n][g[n - 1]] = IF Fit(n) THEN Append(g[n - 1], table[n].name)
                                ELSE g[n - 1]
        <5> HIDE DEF Fit
        <5> QED
          BY <4>1
      <4>3. Body(g)[n] = IF Fit(n) THEN Append(g[n - 1], table[n].name) ELSE g[n - 1]
        BY <3>2
      <4> HIDE DEF Body, step
      <4> QED
        BY <1>3, <4>1, <4>2, <4>3
    <3> QED
      BY <3>1, <3>2
  <2>2. DOMAIN Body(g) = 0 .. N /\ Body(g) = [n \in DOMAIN Body(g) |-> Body(g)[n]]
    OBVIOUS
  <2> HIDE DEF Body
  <2> QED
    BY <2>1, <2>2
<1>5. F = Body(F)
  <2> HIDE DEF Body
  <2> QED
    BY <1>4
<1>6. FoundAs(table, model) = F[N]
  BY DEF FoundAs
<1> HIDE DEF F
<1>7. F[0] = <<>>
  BY <1>0, <1>5
<1>8. ASSUME NEW n \in 1 .. N
      PROVE  F[n] = IF Fit(n) THEN Append(F[n - 1], table[n].name) ELSE F[n - 1]
  <2>1. n \in 0 .. N /\ n # 0
    BY <1>0
  <2>2. Body(F)[n] = IF Fit(n) THEN Append(F[n - 1], table[n].name) ELSE F[n - 1]
    BY <2>1
  <2> HIDE DEF Body, Fit
  <2> QED
    BY <1>5, <2>2
<1>9. /\ F[0] = <<>>
      /\ \A n \in 1 .. Len(table) :
           F[n] = IF table[n].missing = 0 /\ Model[table[n].name] = model
                  THEN Append(F[n - 1], table[n].name) ELSE F[n - 1]
      /\ FoundAs(table, model) = F[Len(table)]
  BY <1>6, <1>7, <1>8
<1> QED
  BY <1>9

Present(table, model, a) ==
    \E i \in DOMAIN table :
        table[i].name = a /\ table[i].missing = 0 /\ Model[a] = model

\* The names of the first n slots that are found for a model, each once.
FoundUpTo(names, table, model, n) ==
    /\ names \in Seq(Addresses)
    /\ \A k \in DOMAIN names :
          \E i \in 1 .. n : /\ table[i].name = names[k] /\ table[i].missing = 0
                            /\ Model[names[k]] = model
    /\ \A i \in 1 .. n : table[i].missing = 0 /\ Model[table[i].name] = model =>
          \E k \in DOMAIN names : names[k] = table[i].name
    /\ \A k, l \in DOMAIN names : names[k] = names[l] => k = l

\* One more slot, with a device of the model.
LEMMA FoundOne ==
  ASSUME NEW table, IsTable(table), NEW model, NEW n \in Nat, n + 1 \in DOMAIN table,
         NEW names, FoundUpTo(names, table, model, n),
         table[n + 1].missing = 0, Model[table[n + 1].name] = model
  PROVE  FoundUpTo(Append(names, table[n + 1].name), table, model, n + 1)
<1> DEFINE a == table[n + 1].name
           t == Append(names, a)
           k0 == Len(names) + 1
<1>1. /\ table \in Seq(Entries) /\ DOMAIN table = 1 .. Len(table) /\ Len(table) \in Nat
      /\ \A i, j \in DOMAIN table : table[i].name = table[j].name => i = j
      /\ a \in Addresses
  BY TableFacts
<1>2. names \in Seq(Addresses) /\ DOMAIN names = 1 .. Len(names) /\ Len(names) \in Nat
  BY SeqFacts DEF FoundUpTo
<1>3. /\ t \in Seq(Addresses) /\ DOMAIN t = DOMAIN names \cup {k0}
      /\ t[k0] = a /\ \A i \in DOMAIN names : t[i] = names[i]
  <2> HIDE DEF a
  <2> QED
    BY <1>1, <1>2, SeqAppend
<1>4. \A k \in DOMAIN names : names[k] # a
  <2> SUFFICES ASSUME NEW k \in DOMAIN names, names[k] = a PROVE FALSE
    OBVIOUS
  <2>1. PICK i \in 1 .. n : table[i].name = a
    BY DEF FoundUpTo
  <2>2. i \in DOMAIN table /\ i # n + 1
    BY <1>1
  <2> QED
    BY <1>1, <2>1, <2>2
<1> HIDE DEF t, k0
<1>5. \A k \in DOMAIN t : \E i \in 1 .. n + 1 :
         /\ table[i].name = t[k] /\ table[i].missing = 0 /\ Model[t[k]] = model
  <2> SUFFICES ASSUME NEW k \in DOMAIN t
               PROVE  \E i \in 1 .. n + 1 : /\ table[i].name = t[k]
                                            /\ table[i].missing = 0 /\ Model[t[k]] = model
    OBVIOUS
  <2>1. CASE k = k0
    <3>1. n + 1 \in 1 .. n + 1
      OBVIOUS
    <3> QED
      BY <1>3, <2>1, <3>1
  <2>2. CASE k \in DOMAIN names
    <3>1. PICK i \in 1 .. n : /\ table[i].name = names[k] /\ table[i].missing = 0
                              /\ Model[names[k]] = model
      BY <2>2 DEF FoundUpTo
    <3>2. i \in 1 .. n + 1
      OBVIOUS
    <3> QED
      BY <1>3, <2>2, <3>1, <3>2
  <2> QED
    BY <1>3, <2>1, <2>2
<1>6. \A i \in 1 .. n + 1 : table[i].missing = 0 /\ Model[table[i].name] = model =>
         \E k \in DOMAIN t : t[k] = table[i].name
  <2> SUFFICES ASSUME NEW i \in 1 .. n + 1,
                      table[i].missing = 0, Model[table[i].name] = model
               PROVE  \E k \in DOMAIN t : t[k] = table[i].name
    OBVIOUS
  <2>1. CASE i = n + 1
    BY <1>3, <2>1
  <2>2. CASE i # n + 1
    <3>1. i \in 1 .. n
      BY <2>2
    <3>2. PICK k \in DOMAIN names : names[k] = table[i].name
      BY <3>1 DEF FoundUpTo
    <3> QED
      BY <1>3, <3>2
  <2> QED
    BY <2>1, <2>2
<1>7. \A k, l \in DOMAIN names : names[k] = names[l] => k = l
  BY DEF FoundUpTo
<1>8. \A k, l \in DOMAIN t : t[k] = t[l] => k = l
  BY <1>3, <1>4, <1>7
<1>9. FoundUpTo(t, table, model, n + 1)
  BY <1>3, <1>5, <1>6, <1>8 DEF FoundUpTo
<1> QED
  BY <1>9 DEF t

\* One more slot, with another device or none.
LEMMA FoundNone ==
  ASSUME NEW table, NEW model, NEW n \in Nat,
         NEW names, FoundUpTo(names, table, model, n),
         ~(table[n + 1].missing = 0 /\ Model[table[n + 1].name] = model)
  PROVE  FoundUpTo(names, table, model, n + 1)
<1>1. \A k \in DOMAIN names : \E i \in 1 .. n + 1 :
         /\ table[i].name = names[k] /\ table[i].missing = 0 /\ Model[names[k]] = model
  <2>1. 1 .. n \subseteq 1 .. n + 1
    OBVIOUS
  <2> QED
    BY <2>1 DEF FoundUpTo
<1>2. \A i \in 1 .. n + 1 : table[i].missing = 0 /\ Model[table[i].name] = model =>
         \E k \in DOMAIN names : names[k] = table[i].name
  <2>1. \A i \in 1 .. n + 1 : i # n + 1 => i \in 1 .. n
    OBVIOUS
  <2> QED
    BY <2>1 DEF FoundUpTo
<1> QED
  BY <1>1, <1>2 DEF FoundUpTo

\* sanei_usb_find_devices finds what is present, each once.
LEMMA FoundAsIs ==
  ASSUME NEW table, IsTable(table), NEW model
  PROVE  /\ FoundAs(table, model) \in Seq(Addresses)
         /\ \A k \in DOMAIN FoundAs(table, model) :
               Present(table, model, FoundAs(table, model)[k])
         /\ \A a : Present(table, model, a) =>
               \E k \in DOMAIN FoundAs(table, model) : FoundAs(table, model)[k] = a
         /\ \A k, l \in DOMAIN FoundAs(table, model) :
               FoundAs(table, model)[k] = FoundAs(table, model)[l] => k = l
<1>1. PICK names :
        /\ names[0] = <<>>
        /\ \A n \in 1 .. Len(table) :
             names[n] = IF table[n].missing = 0 /\ Model[table[n].name] = model
                        THEN Append(names[n - 1], table[n].name) ELSE names[n - 1]
        /\ FoundAs(table, model) = names[Len(table)]
  BY FindLoop
<1>2. table \in Seq(Entries) /\ DOMAIN table = 1 .. Len(table) /\ Len(table) \in Nat
  BY TableFacts
<1> DEFINE T == {n \in Nat : n <= Len(table) => FoundUpTo(names[n], table, model, n)}
<1>3. 0 \in T
  <2>1. FoundUpTo(<<>>, table, model, 0)
    BY DEF FoundUpTo
  <2> QED
    BY <1>1, <2>1
<1>4. ASSUME NEW n \in Nat, n \in T PROVE n + 1 \in T
  <2> SUFFICES ASSUME n + 1 <= Len(table)
               PROVE  FoundUpTo(names[n + 1], table, model, n + 1)
    OBVIOUS
  <2>1. FoundUpTo(names[n], table, model, n)
    BY <1>2, <1>4
  <2>2. n + 1 \in 1 .. Len(table) /\ n + 1 - 1 = n
    BY <1>2
  <2>3. names[n + 1] = IF table[n + 1].missing = 0 /\ Model[table[n + 1].name] = model
                       THEN Append(names[n], table[n + 1].name) ELSE names[n]
    BY <1>1, <2>2
  <2>4. CASE table[n + 1].missing = 0 /\ Model[table[n + 1].name] = model
    <3>1. FoundUpTo(Append(names[n], table[n + 1].name), table, model, n + 1)
      BY <1>2, <2>1, <2>2, <2>4, FoundOne
    <3> QED
      BY <2>3, <2>4, <3>1
  <2>5. CASE ~(table[n + 1].missing = 0 /\ Model[table[n + 1].name] = model)
    <3>1. FoundUpTo(names[n], table, model, n + 1)
      BY <2>1, <2>5, FoundNone
    <3> QED
      BY <2>3, <2>5, <3>1
  <2> QED
    BY <2>4, <2>5
<1>5. Len(table) \in T
  <2> HIDE DEF T
  <2> QED
    BY <1>2, <1>3, <1>4, Induction
<1>6. FoundUpTo(FoundAs(table, model), table, model, Len(table))
  BY <1>1, <1>2, <1>5
<1> QED
  BY <1>2, <1>6 DEF FoundUpTo, Present
-----------------------------------------------------------------------------
(* What the backend supports.                                              *)

Listings == [name : Addresses, attached : BOOLEAN]

LEMMA UnattachedAre ==
  ASSUME NEW names \in Seq(Addresses)
  PROVE  /\ Unattached(names) \in Seq(Listings)
         /\ DOMAIN Unattached(names) = DOMAIN names
         /\ Len(Unattached(names)) = Len(names)
         /\ \A i \in DOMAIN names :
               /\ Unattached(names)[i].name = names[i]
               /\ ~Unattached(names)[i].attached
<1>1. Len(names) \in Nat /\ DOMAIN names = 1 .. Len(names)
      /\ \A i \in 1 .. Len(names) : names[i] \in Addresses
  BY SeqFacts
<1>2. \A i \in 1 .. Len(names) : [name |-> names[i], attached |-> FALSE] \in Listings
  BY <1>1 DEF Listings
<1> QED
  BY <1>1, <1>2 DEF Unattached

LEMMA SeqConcat ==
  ASSUME NEW S, NEW s \in Seq(S), NEW t \in Seq(S)
  PROVE  /\ s \o t \in Seq(S) /\ Len(s) \in Nat
         /\ DOMAIN (s \o t) = DOMAIN s \cup {Len(s) + i : i \in DOMAIN t}
         /\ \A i \in DOMAIN s : (s \o t)[i] = s[i]
         /\ \A i \in DOMAIN t : (s \o t)[Len(s) + i] = t[i]
<1> DEFINE u == s \o t
<1>1. /\ u \in Seq(S) /\ Len(s) \in Nat /\ Len(t) \in Nat /\ Len(u) = Len(s) + Len(t)
      /\ \A i \in 1 .. Len(s) : u[i] = s[i]
      /\ \A i \in 1 .. Len(t) : u[Len(s) + i] = t[i]
  OBVIOUS
<1>2. DOMAIN u = 1 .. Len(u) /\ DOMAIN s = 1 .. Len(s) /\ DOMAIN t = 1 .. Len(t)
  <2> HIDE DEF u
  <2> QED
    BY <1>1, SeqFacts
<1>3. 1 .. Len(s) + Len(t) = (1 .. Len(s)) \cup {Len(s) + i : i \in 1 .. Len(t)}
  <2>1. ASSUME NEW k \in 1 .. Len(s) + Len(t), k \notin 1 .. Len(s)
        PROVE  k \in {Len(s) + i : i \in 1 .. Len(t)}
    <3>1. k - Len(s) \in 1 .. Len(t) /\ k = Len(s) + (k - Len(s))
      BY <1>1, <2>1
    <3> QED
      BY <3>1
  <2>2. (1 .. Len(s)) \cup {Len(s) + i : i \in 1 .. Len(t)} \subseteq 1 .. Len(s) + Len(t)
    BY <1>1
  <2> QED
    BY <2>1, <2>2
<1> HIDE DEF u
<1>4. /\ u \in Seq(S) /\ Len(s) \in Nat
      /\ DOMAIN u = DOMAIN s \cup {Len(s) + i : i \in DOMAIN t}
      /\ \A i \in DOMAIN s : u[i] = s[i]
      /\ \A i \in DOMAIN t : u[Len(s) + i] = t[i]
  BY <1>1, <1>2, <1>3
<1> QED
  BY <1>4 DEF u

Has(list, model) == \E i \in DOMAIN list : Model[list[i].name] = model

\* The loop of usbGetList.
LEMMA SupportLoop ==
  ASSUME NEW table, IsTable(table)
  PROVE  \E list :
           /\ list[0] = <<>>
           /\ \A n \in 1 .. Len(Settings) :
                list[n] = IF Has(list[n - 1], Settings[n]) THEN list[n - 1]
                          ELSE list[n - 1] \o Unattached(FoundAs(table, Settings[n]))
           /\ Supported(table) = list[Len(Settings)]
<1> DEFINE N == Len(Settings)
           S == Seq(Listings)
           base == <<>>
           Next1(s, n) == IF Has(s, Settings[n]) THEN s
                          ELSE s \o Unattached(FoundAs(table, Settings[n]))
           step == [n \in 1 .. N |-> [s \in S |-> Next1(s, n)]]
           Body(f) == [n \in 0 .. N |->
                         IF n = 0 THEN <<>>
                         ELSE IF \E i \in DOMAIN f[n - 1] :
                                    Model[f[n - 1][i].name] = Settings[n]
                         THEN f[n - 1]
                         ELSE f[n - 1] \o Unattached(FoundAs(table, Settings[n]))]
           F == CHOOSE f : f = Body(f)
<1>0. N \in Nat
  BY DeviceListAssumption
<1>1. base \in S
  OBVIOUS
<1>2. step \in [1 .. N -> [S -> S]]
  <2> SUFFICES ASSUME NEW n \in 1 .. N, NEW s \in S PROVE Next1(s, n) \in S
    <3> HIDE DEF Next1, S
    <3> QED
      OBVIOUS
  <2>1. Unattached(FoundAs(table, Settings[n])) \in S
    BY FoundAsIs, UnattachedAre
  <2>2. s \o Unattached(FoundAs(table, Settings[n])) \in S
    BY <2>1, SeqConcat
  <2> QED
    BY <2>2
<1>3. PICK g \in [0 .. N -> S] :
        g[0] = base /\ \A n \in 1 .. N : g[n] = step[n][g[n - 1]]
  <2> HIDE DEF N, S, base, step
  <2> QED
    BY <1>0, <1>1, <1>2, Iteration
<1>4. g = Body(g)
  <2>1. ASSUME NEW n \in 0 .. N PROVE g[n] = Body(g)[n]
    <3>1. CASE n = 0
      BY <1>3, <3>1
    <3>2. CASE n # 0
      <4>1. n \in 1 .. N /\ g[n - 1] \in S
        <5>1. n \in 1 .. N /\ n - 1 \in 0 .. N
          BY <1>0, <3>2
        <5> QED
          BY <1>3, <5>1
      <4>2. step[n][g[n - 1]] = Next1(g[n - 1], n)
        <5> HIDE DEF Next1
        <5> QED
          BY <4>1
      <4>3. Body(g)[n] = Next1(g[n - 1], n)
        BY <3>2 DEF Has
      <4> HIDE DEF Body, step, Next1
      <4> QED
        BY <1>3, <4>1, <4>2, <4>3
    <3> QED
      BY <3>1, <3>2
  <2>2. DOMAIN Body(g) = 0 .. N /\ Body(g) = [n \in DOMAIN Body(g) |-> Body(g)[n]]
    OBVIOUS
  <2> HIDE DEF Body
  <2> QED
    BY <2>1, <2>2
<1>5. F = Body(F)
  <2> HIDE DEF Body
  <2> QED
    BY <1>4
<1>6. Supported(table) = F[N]
  BY DEF Supported
<1> HIDE DEF F
<1>7. F[0] = <<>>
  BY <1>0, <1>5
<1>8. ASSUME NEW n \in 1 .. N
      PROVE  F[n] = Next1(F[n - 1], n)
  <2>1. n \in 0 .. N /\ n # 0
    BY <1>0
  <2>2. Body(F)[n] = Next1(F[n - 1], n)
    BY <2>1 DEF Has
  <2> HIDE DEF Body, Next1
  <2> QED
    BY <1>5, <2>2
<1>9. /\ F[0] = <<>>
      /\ \A n \in 1 .. Len(Settings) :
           F[n] = IF Has(F[n - 1], Settings[n]) THEN F[n - 1]
                  ELSE F[n - 1] \o Unattached(FoundAs(table, Settings[n]))
      /\ Supported(table) = F[Len(Settings)]
  BY <1>6, <1>7, <1>8
<1> QED
  BY <1>9

\* The list after n of the models: every device of these that is present, once.
ListedUpTo(list, table, n) ==
    /\ list \in Seq(Listings)
    /\ \A j \in DOMAIN list : ~list[j].attached
    /\ \A j \in DOMAIN list : \E m \in 1 .. n : Present(table, Settings[m], list[j].name)
    /\ \A m \in 1 .. n : \A a : Present(table, Settings[m], a) =>
          \E j \in DOMAIN list : list[j].name = a
    /\ \A j, k \in DOMAIN list : list[j].name = list[k].name => j = k

\* A model of which nothing is listed yet.
LEMMA ListOne ==
  ASSUME NEW table, IsTable(table), NEW n \in Nat, NEW list, ListedUpTo(list, table, n),
         ~Has(list, Settings[n + 1])
  PROVE  ListedUpTo(list \o Unattached(FoundAs(table, Settings[n + 1])), table, n + 1)
<1> DEFINE model == Settings[n + 1]
           names == FoundAs(table, model)
           more == Unattached(names)
           u == list \o more
<1>1. /\ names \in Seq(Addresses)
      /\ \A k \in DOMAIN names : Present(table, model, names[k])
      /\ \A a : Present(table, model, a) => \E k \in DOMAIN names : names[k] = a
      /\ \A k, l \in DOMAIN names : names[k] = names[l] => k = l
  BY FoundAsIs
<1> HIDE DEF names
<1>2. /\ more \in Seq(Listings) /\ DOMAIN more = DOMAIN names
      /\ \A i \in DOMAIN names : more[i].name = names[i] /\ ~more[i].attached
  BY <1>1, UnattachedAre
<1> HIDE DEF more
<1>3. list \in Seq(Listings)
  BY DEF ListedUpTo
<1>4. /\ u \in Seq(Listings) /\ Len(list) \in Nat
      /\ DOMAIN u = DOMAIN list \cup {Len(list) + i : i \in DOMAIN names}
      /\ \A i \in DOMAIN list : u[i] = list[i]
      /\ \A i \in DOMAIN names : u[Len(list) + i] = more[i]
  <2> HIDE DEF names
  <2>1. /\ u \in Seq(Listings) /\ Len(list) \in Nat
        /\ DOMAIN u = DOMAIN list \cup {Len(list) + i : i \in DOMAIN more}
        /\ \A i \in DOMAIN list : u[i] = list[i]
        /\ \A i \in DOMAIN more : u[Len(list) + i] = more[i]
    BY <1>2, <1>3, SeqConcat
  <2> HIDE DEF u
  <2> QED
    BY <1>2, <2>1
<1> HIDE DEF u
<1>5. \A j \in DOMAIN u : ~u[j].attached
  <2>1. \A j \in DOMAIN list : ~list[j].attached
    BY DEF ListedUpTo
  <2>2. \A j \in DOMAIN list : ~u[j].attached
    BY <1>4, <2>1
  <2>3. \A i \in DOMAIN names : ~u[Len(list) + i].attached
    BY <1>2, <1>4
  <2> QED
    BY <1>4, <2>2, <2>3
<1>6. 1 .. n \subseteq 1 .. n + 1 /\ n + 1 \in 1 .. n + 1
  OBVIOUS
<1>7. \A j \in DOMAIN u : \E m \in 1 .. n + 1 : Present(table, Settings[m], u[j].name)
  <2> SUFFICES ASSUME NEW j \in DOMAIN u
               PROVE  \E m \in 1 .. n + 1 : Present(table, Settings[m], u[j].name)
    OBVIOUS
  <2>1. CASE j \in DOMAIN list
    BY <1>4, <1>6, <2>1 DEF ListedUpTo
  <2>2. CASE j \notin DOMAIN list
    <3>1. PICK i \in DOMAIN names : j = Len(list) + i
      BY <1>4, <2>2
    <3>2. u[j].name = names[i]
      BY <1>2, <1>4, <3>1
    <3> QED
      BY <1>1, <1>6, <3>2
  <2> QED
    BY <2>1, <2>2
<1>8. \A m \in 1 .. n + 1 : \A a : Present(table, Settings[m], a) =>
         \E j \in DOMAIN u : u[j].name = a
  <2> SUFFICES ASSUME NEW m \in 1 .. n + 1, NEW a, Present(table, Settings[m], a)
               PROVE  \E j \in DOMAIN u : u[j].name = a
    OBVIOUS
  <2>1. CASE m = n + 1
    <3>1. PICK k \in DOMAIN names : names[k] = a
      BY <1>1, <2>1
    <3>2. Len(list) + k \in DOMAIN u /\ u[Len(list) + k].name = a
      BY <1>2, <1>4, <3>1
    <3> QED
      BY <3>2
  <2>2. CASE m # n + 1
    <3>1. m \in 1 .. n
      BY <2>2
    <3>2. PICK j \in DOMAIN list : list[j].name = a
      BY <3>1 DEF ListedUpTo
    <3> QED
      BY <1>4, <3>2
  <2> QED
    BY <2>1, <2>2
<1>9. \A j, k \in DOMAIN list : list[j].name = list[k].name => j = k
  BY DEF ListedUpTo
<1>10. \A j \in DOMAIN list, i \in DOMAIN names : list[j].name # names[i]
  BY <1>1 DEF Has, Present
<1>11. \A j, k \in DOMAIN u : u[j].name = u[k].name => j = k
  <2> SUFFICES ASSUME NEW j \in DOMAIN u, NEW k \in DOMAIN u, u[j].name = u[k].name
               PROVE  j = k
    OBVIOUS
  <2>1. CASE j \in DOMAIN list /\ k \in DOMAIN list
    BY <1>4, <1>9, <2>1
  <2>2. CASE j \in DOMAIN list /\ k \notin DOMAIN list
    BY <1>2, <1>4, <1>10, <2>2
  <2>3. CASE j \notin DOMAIN list /\ k \in DOMAIN list
    BY <1>2, <1>4, <1>10, <2>3
  <2>4. CASE j \notin DOMAIN list /\ k \notin DOMAIN list
    BY <1>1, <1>2, <1>4, <2>4
  <2> QED
    BY <2>1, <2>2, <2>3, <2>4
<1>12. ListedUpTo(u, table, n + 1)
  BY <1>4, <1>5, <1>7, <1>8, <1>11 DEF ListedUpTo
<1> QED
  BY <1>12 DEF u, more, names

\* A model that was listed before: it is all there already.
LEMMA ListNone ==
  ASSUME NEW table, NEW n \in Nat, NEW list, ListedUpTo(list, table, n),
         Has(list, Settings[n + 1])
  PROVE  ListedUpTo(list, table, n + 1)
<1>1. PICK m0 \in 1 .. n : Settings[m0] = Settings[n + 1]
  BY DEF Has, ListedUpTo, Present
<1>2. \A m \in 1 .. n + 1 : \A a : Present(table, Settings[m], a) =>
         \E j \in DOMAIN list : list[j].name = a
  <2>1. \A m \in 1 .. n + 1 : m # n + 1 => m \in 1 .. n
    OBVIOUS
  <2> QED
    BY <1>1, <2>1 DEF ListedUpTo
<1>3. 1 .. n \subseteq 1 .. n + 1
  OBVIOUS
<1>4. \A j \in DOMAIN list : \E m \in 1 .. n + 1 : Present(table, Settings[m], list[j].name)
  BY <1>3 DEF ListedUpTo
<1> QED
  BY <1>2, <1>4 DEF ListedUpTo

\* usbGetList lists what is present of the models it has, each once.
LEMMA SupportedIs ==
  ASSUME NEW table, IsTable(table)
  PROVE  ListedUpTo(Supported(table), table, Len(Settings))
<1>1. PICK list :
        /\ list[0] = <<>>
        /\ \A n \in 1 .. Len(Settings) :
             list[n] = IF Has(list[n - 1], Settings[n]) THEN list[n - 1]
                       ELSE list[n - 1] \o Unattached(FoundAs(table, Settings[n]))
        /\ Supported(table) = list[Len(Settings)]
  BY SupportLoop
<1>2. Len(Settings) \in Nat
  BY DeviceListAssumption
<1> DEFINE T == {n \in Nat : n <= Len(Settings) => ListedUpTo(list[n], table, n)}
<1>3. 0 \in T
  <2>1. ListedUpTo(<<>>, table, 0)
    BY DEF ListedUpTo
  <2> QED
    BY <1>1, <2>1
<1>4. ASSUME NEW n \in Nat, n \in T PROVE n + 1 \in T
  <2> SUFFICES ASSUME n + 1 <= Len(Settings) PROVE ListedUpTo(list[n + 1], table, n + 1)
    OBVIOUS
  <2>1. ListedUpTo(list[n], table, n)
    BY <1>2, <1>4
  <2>2. n + 1 \in 1 .. Len(Settings) /\ n + 1 - 1 = n
    BY <1>2
  <2>3. list[n + 1] = IF Has(list[n], Settings[n + 1]) THEN list[n]
                      ELSE list[n] \o Unattached(FoundAs(table, Settings[n + 1]))
    BY <1>1, <2>2
  <2>4. CASE Has(list[n], Settings[n + 1])
    <3>1. ListedUpTo(list[n], table, n + 1)
      BY <2>1, <2>4, ListNone
    <3> QED
      BY <2>3, <2>4, <3>1
  <2>5. CASE ~Has(list[n], Settings[n + 1])
    <3>1. ListedUpTo(list[n] \o Unattached(FoundAs(table, Settings[n + 1])), table, n + 1)
      BY <2>1, <2>5, ListOne
    <3> QED
      BY <2>3, <2>5, <3>1
  <2> QED
    BY <2>4, <2>5
<1>5. Len(Settings) \in T
  <2> HIDE DEF T
  <2> QED
    BY <1>2, <1>3, <1>4, Induction
<1> QED
  BY <1>1, <1>2, <1>5
-----------------------------------------------------------------------------
(* The invariant.                                                          *)

Ids == {"any"} \cup {Model[a] : a \in Addresses}

Records == [name : Addresses, id : Ids, fd : 0 .. MaxDevices]

Types ==
    /\ bus \subseteq Addresses
    /\ IsTable(devices)
    /\ config \in Configs
    /\ at \in {"down", "init", "up"}
    /\ section \in Nat
    /\ usbDevs \in Seq(Listings)
    /\ devs \in Seq(Records)
    /\ hw \in [Handles -> Addresses \cup {0}]
    /\ scanning \in [Handles -> BOOLEAN]
    /\ failed \in BOOLEAN

\* What is attached was taken from usbDevs, once, and is known.
Names ==
    /\ \A i, j \in DOMAIN usbDevs : usbDevs[i].name = usbDevs[j].name => i = j
    /\ \A i, j \in DOMAIN devs : devs[i].name = devs[j].name => i = j
    /\ \A d \in DOMAIN devs :
          /\ devs[d].id \in {"any", Model[devs[d].name]}
          /\ \E j \in DOMAIN usbDevs : usbDevs[j].attached /\ usbDevs[j].name = devs[d].name

\* A handle has a device of the list, and scans with it.
Held ==
    /\ at # "up" => \A h \in Handles : hw[h] = 0
    /\ \A h \in Handles : hw[h] # 0 => hw[h] \in Attached
    /\ \A h \in Handles : scanning[h] => hw[h] # 0

\* What holds even if two handles share a device.
BaseInv == Types /\ Names /\ Held

Own == \A g, h \in Handles : hw[g] = hw[h] /\ hw[g] # 0 => g = h

\* Who has a descriptor scans, and its slot is open; nothing else is but what
\* an unknown board left.
Descriptors ==
    /\ \A d \in DOMAIN devs : devs[d].fd # NoFd =>
          /\ devs[d].fd \in Slots
          /\ devices[devs[d].fd].open /\ devices[devs[d].fd].name = devs[d].name
          /\ \E h \in Handles : scanning[h] /\ hw[h] = devs[d].name
    /\ \A h \in Handles, d \in DOMAIN devs :
          scanning[h] /\ hw[h] = devs[d].name => devs[d].fd # NoFd
    /\ \A i \in Slots : devices[i].open =>
          devices[i].name \in Aliens \/ \E d \in DOMAIN devs : devs[d].fd = i

Unmarked == {j \in DOMAIN usbDevs : ~usbDevs[j].attached}

Autos(first) == {s \in first .. Len(config) : config[s].device = AutoName}

Enough ==
    /\ \A s \in DOMAIN config : config[s].model = "any"
    /\ Len(usbDevs) <= Cardinality({s \in DOMAIN config : config[s].device = AutoName})

\* What is on the bus and has a slot was found, what was found is listed, and what
\* is taken from the list is attached.
Found == \A i \in Slots : devices[i].name \in bus => devices[i].missing = 0

AllListed ==
    \A i \in Slots : devices[i].missing = 0 /\ Model[devices[i].name] \in ToSet(Settings) =>
       \E j \in DOMAIN usbDevs : usbDevs[j].name = devices[i].name

AllThere ==
    \A j \in DOMAIN usbDevs :
       \E i \in Slots : devices[i].missing = 0 /\ devices[i].name = usbDevs[j].name

AllTaken ==
    \A j \in DOMAIN usbDevs :
       usbDevs[j].attached /\ usbDevs[j].name \in bus \ Aliens =>
          usbDevs[j].name \in Attached

\* There are sections enough left for what is not taken yet.
Left ==
    /\ at = "init" => /\ section \in 1 .. Len(config) + 1
                      /\ Cardinality(Unmarked) <= Cardinality(Autos(section))
    /\ at = "up" => Unmarked = {}

Listed ==
    Enough /\ ~failed /\ at # "down" => Found /\ AllListed /\ AllThere /\ AllTaken /\ Left

ListInv == BaseInv /\ Own /\ Descriptors /\ Listed

-----------------------------------------------------------------------------
(* What the changes of an entry do.                                        *)

LEMMA ConfigFacts ==
  ASSUME config \in Configs
  PROVE  Len(config) \in Nat /\ DOMAIN config = 1 .. Len(config)
BY DeviceListAssumption

LEMMA OpenWith ==
  ASSUME NEW e \in Entries, NEW b \in BOOLEAN
  PROVE  /\ [e EXCEPT !.open = b] \in Entries
         /\ [e EXCEPT !.open = b].name = e.name
         /\ [e EXCEPT !.open = b].open = b
         /\ [e EXCEPT !.open = b].missing = e.missing
BY DEF Entries

\* A slot is opened or closed.
LEMMA SlotChanged ==
  ASSUME IsTable(devices), NEW k \in Slots, NEW b \in BOOLEAN,
         devices' = [devices EXCEPT ![k].open = b]
  PROVE  /\ IsTable(devices') /\ Slots' = Slots
         /\ \A i \in Slots : /\ devices'[i].name = devices[i].name
                             /\ devices'[i].missing = devices[i].missing
         /\ devices'[k].open = b
         /\ \A i \in Slots : i # k => devices'[i].open = devices[i].open
<1> DEFINE e == devices[k]
           v == [e EXCEPT !.open = b]
           t == [devices EXCEPT ![k] = v]
<1>1. /\ devices \in Seq(Entries) /\ Len(devices) <= MaxDevices
      /\ DOMAIN devices = Slots
      /\ \A i \in Slots : devices[i] \in Entries
      /\ \A i, j \in Slots : devices[i].name = devices[j].name => i = j
  BY TableFacts DEF Slots
<1>2. e \in Entries
  BY <1>1
<1>3. devices' = t
  OBVIOUS
<1> HIDE DEF e
<1>4. v \in Entries /\ v.name = e.name /\ v.open = b /\ v.missing = e.missing
  BY <1>2, OpenWith
<1> HIDE DEF v
<1>5. /\ t \in Seq(Entries) /\ Len(t) = Len(devices) /\ DOMAIN t = DOMAIN devices
      /\ t[k] = v /\ \A i \in DOMAIN devices : i # k => t[i] = devices[i]
  BY <1>1, <1>4, SeqWith
<1> HIDE DEF t
<1>6. \A i \in DOMAIN t : t[i].name = devices[i].name /\ t[i].missing = devices[i].missing
  BY <1>1, <1>4, <1>5 DEF e
<1>7. IsTable(t)
  BY <1>1, <1>5, <1>6 DEF IsTable
<1>8. Slots' = Slots
  BY <1>1, <1>3, <1>5 DEF Slots
<1> QED
  BY <1>1, <1>3, <1>4, <1>5, <1>6, <1>7, <1>8

LEMMA RecordWith ==
  ASSUME NEW e \in Records, NEW v \in 0 .. MaxDevices
  PROVE  /\ [e EXCEPT !.fd = v] \in Records
         /\ [e EXCEPT !.fd = v].name = e.name
         /\ [e EXCEPT !.fd = v].id = e.id
         /\ [e EXCEPT !.fd = v].fd = v
BY DEF Records

\* A device gets or loses its descriptor.
LEMMA FdChanged ==
  ASSUME devs \in Seq(Records), NEW d \in DOMAIN devs, NEW v \in 0 .. MaxDevices,
         devs' = [devs EXCEPT ![d].fd = v]
  PROVE  /\ devs' \in Seq(Records) /\ DOMAIN devs' = DOMAIN devs
         /\ \A i \in DOMAIN devs : devs'[i].name = devs[i].name /\ devs'[i].id = devs[i].id
         /\ devs'[d].fd = v
         /\ \A i \in DOMAIN devs : i # d => devs'[i].fd = devs[i].fd
         /\ Attached' = Attached
<1> DEFINE e == devs[d]
           r == [e EXCEPT !.fd = v]
           t == [devs EXCEPT ![d] = r]
<1>1. e \in Records
  BY SeqFacts
<1>2. devs' = t
  OBVIOUS
<1> HIDE DEF e
<1>3. r \in Records /\ r.name = e.name /\ r.id = e.id /\ r.fd = v
  BY <1>1, RecordWith
<1> HIDE DEF r
<1>4. /\ t \in Seq(Records) /\ DOMAIN t = DOMAIN devs
      /\ t[d] = r /\ \A i \in DOMAIN devs : i # d => t[i] = devs[i]
  BY <1>3, SeqWith
<1> HIDE DEF t
<1>5. \A i \in DOMAIN devs : devs'[i].name = devs[i].name /\ devs'[i].id = devs[i].id
  BY <1>2, <1>3, <1>4 DEF e
<1>6. Attached' = Attached
  BY <1>2, <1>4, <1>5 DEF Attached
<1> QED
  BY <1>2, <1>3, <1>4, <1>5, <1>6

LEMMA DevOfIs ==
  ASSUME NEW name \in Attached
  PROVE  DevOf(name) \in DOMAIN devs /\ devs[DevOf(name)].name = name
BY DEF DevOf, Attached

\* The slot that sanei_usb_open takes.
LEMMA SlotOfIs ==
  ASSUME IsTable(devices), NEW name, SlotsOf(name) # {}
  PROVE  /\ Lowest(SlotsOf(name)) \in Slots
         /\ devices[Lowest(SlotsOf(name))].name = name
         /\ devices[Lowest(SlotsOf(name))].missing = 0
         /\ Lowest(SlotsOf(name)) \in 1 .. MaxDevices
<1>1. Slots = 1 .. Len(devices) /\ Len(devices) \in Nat /\ Len(devices) <= MaxDevices
  BY TableFacts DEF Slots
<1>2. SlotsOf(name) \in SUBSET (1 .. Len(devices))
  BY <1>1 DEF SlotsOf
<1>3. Lowest(SlotsOf(name)) \in SlotsOf(name)
  BY <1>1, <1>2, LowestIn
<1> DEFINE k == Lowest(SlotsOf(name))
<1>4. k \in SlotsOf(name)
  BY <1>3
<1> HIDE DEF k
<1>5. k \in Slots /\ devices[k].name = name /\ devices[k].missing = 0
  BY <1>4 DEF SlotsOf
<1>6. k \in 1 .. MaxDevices
  BY <1>1, <1>5, UsbTableAssumption
<1> QED
  BY <1>5, <1>6 DEF k

\* When no handle scans, only what cannot be told is open.
LEMMA ShutWhenIdle ==
  ASSUME Types, Descriptors, \A h \in Handles : ~scanning[h]
  PROVE  Shut(devices)
<1> SUFFICES ASSUME NEW i \in Slots, devices[i].open PROVE devices[i].name \in Aliens
  BY DEF Shut, Slots
<1> SUFFICES ASSUME NEW d \in DOMAIN devs, devs[d].fd = i PROVE FALSE
  BY DEF Descriptors
<1>1. i # NoFd
  BY TableFacts DEF Types, Slots, NoFd
<1> QED
  BY <1>1 DEF Descriptors

\* Which parts depend on what.
LEMMA SameListed ==
  ASSUME Types, Listed, UNCHANGED <<bus, config, at, section, usbDevs, failed>>,
         Attached' = Attached, Slots' = Slots,
         \A i \in Slots : /\ devices'[i].name = devices[i].name
                          /\ devices'[i].missing = devices[i].missing
  PROVE  Listed'
<1>1. Enough' = Enough
  BY DEF Enough
<1>2. Found => Found'
  BY DEF Found
<1>3. AllListed => AllListed'
  BY DEF AllListed
<1>4. AllThere => AllThere'
  BY DEF AllThere
<1>5. AllTaken => AllTaken'
  BY DEF AllTaken
<1>6. Left => Left'
  BY DEF Left, Unmarked, Autos
<1> QED
  BY <1>1, <1>2, <1>3, <1>4, <1>5, <1>6 DEF Listed

\* Names depends on no descriptor.
LEMMA SameNames ==
  ASSUME Names, UNCHANGED usbDevs, DOMAIN devs' = DOMAIN devs,
         \A i \in DOMAIN devs : devs'[i].name = devs[i].name /\ devs'[i].id = devs[i].id
  PROVE  Names'
BY DEF Names
-----------------------------------------------------------------------------
(* Attaching.                                                              *)

\* What is chosen: the section names no device that is attached, and the entry
\* is not attached.
Chosen(sec) == Lowest(EntriesFor(sec))

LEMMA ChosenIs ==
  ASSUME BaseInv, NEW sec, EntriesFor(sec) # {}
  PROVE  /\ Chosen(sec) \in DOMAIN usbDevs /\ ~usbDevs[Chosen(sec)].attached
         /\ usbDevs[Chosen(sec)].name \in Addresses
         /\ usbDevs[Chosen(sec)].name \notin Attached
<1>1. /\ Len(usbDevs) \in Nat /\ DOMAIN usbDevs = 1 .. Len(usbDevs)
      /\ \A i \in DOMAIN usbDevs : usbDevs[i] \in Listings
  BY SeqFacts DEF BaseInv, Types
<1>2. EntriesFor(sec) \in SUBSET (1 .. Len(usbDevs))
  BY <1>1 DEF EntriesFor
<1>3. Chosen(sec) \in EntriesFor(sec)
  BY <1>1, <1>2, LowestIn DEF Chosen
<1>4. Chosen(sec) \in DOMAIN usbDevs /\ ~usbDevs[Chosen(sec)].attached
  BY <1>3 DEF EntriesFor
<1>5. usbDevs[Chosen(sec)].name \in Addresses
  BY <1>1, <1>4 DEF Listings
<1>6. usbDevs[Chosen(sec)].name \notin Attached
  <2> SUFFICES ASSUME NEW e \in DOMAIN devs, devs[e].name = usbDevs[Chosen(sec)].name
               PROVE  FALSE
    BY DEF Attached
  <2>1. PICK j \in DOMAIN usbDevs : usbDevs[j].attached /\ usbDevs[j].name = devs[e].name
    BY DEF BaseInv, Names
  <2> QED
    BY <1>4, <2>1 DEF BaseInv, Names
<1> QED
  BY <1>4, <1>5, <1>6

LEMMA ListingWith ==
  ASSUME NEW e \in Listings, NEW b \in BOOLEAN
  PROVE  /\ [e EXCEPT !.attached = b] \in Listings
         /\ [e EXCEPT !.attached = b].name = e.name
         /\ [e EXCEPT !.attached = b].attached = b
BY DEF Listings

LEMMA MarkedIs ==
  ASSUME usbDevs \in Seq(Listings), NEW i \in DOMAIN usbDevs
  PROVE  /\ Marked(i) \in Seq(Listings) /\ Len(Marked(i)) = Len(usbDevs)
         /\ DOMAIN Marked(i) = DOMAIN usbDevs
         /\ \A j \in DOMAIN usbDevs : Marked(i)[j].name = usbDevs[j].name
         /\ Marked(i)[i].attached
         /\ \A j \in DOMAIN usbDevs : j # i =>
               Marked(i)[j].attached = usbDevs[j].attached
<1> DEFINE yes == TRUE
           e == usbDevs[i]
           v == [e EXCEPT !.attached = yes]
           t == [usbDevs EXCEPT ![i] = v]
<1>1. yes /\ yes \in BOOLEAN
  OBVIOUS
<1>2. Marked(i) = t
  BY DEF Marked
<1>3. e \in Listings
  BY SeqFacts
<1> HIDE DEF yes, e
<1>4. v \in Listings /\ v.name = e.name /\ v.attached = yes
  BY <1>1, <1>3, ListingWith
<1> HIDE DEF v
<1>5. /\ t \in Seq(Listings) /\ Len(t) = Len(usbDevs) /\ DOMAIN t = DOMAIN usbDevs
      /\ t[i] = v /\ \A j \in DOMAIN usbDevs : j # i => t[j] = usbDevs[j]
  BY <1>4, SeqWith
<1> HIDE DEF t
<1>6. \A j \in DOMAIN usbDevs : t[j].name = usbDevs[j].name
  BY <1>4, <1>5 DEF e
<1>7. t[i].attached
  BY <1>1, <1>4, <1>5
<1> QED
  BY <1>2, <1>5, <1>6, <1>7

\* A device becomes the first of the list.
LEMMA FirstOf ==
  ASSUME NEW S, NEW s \in Seq(S), NEW x \in S
  PROVE  /\ <<x>> \o s \in Seq(S) /\ Len(<<x>> \o s) = Len(s) + 1
         /\ DOMAIN (<<x>> \o s) = {1} \cup {i + 1 : i \in DOMAIN s}
         /\ (<<x>> \o s)[1] = x
         /\ \A i \in DOMAIN s : (<<x>> \o s)[i + 1] = s[i]
<1> DEFINE u == <<x>> \o s
<1>1. /\ u \in Seq(S) /\ Len(s) \in Nat /\ Len(u) = Len(s) + 1
      /\ u[1] = x /\ \A i \in 1 .. Len(s) : u[i + 1] = s[i]
  OBVIOUS
<1>2. DOMAIN u = 1 .. Len(u) /\ DOMAIN s = 1 .. Len(s)
  <2> HIDE DEF u
  <2> QED
    BY <1>1, SeqFacts
<1>3. 1 .. Len(s) + 1 = {1} \cup {i + 1 : i \in 1 .. Len(s)}
  <2>1. ASSUME NEW k \in 1 .. Len(s) + 1, k # 1
        PROVE  k \in {i + 1 : i \in 1 .. Len(s)}
    <3>1. k - 1 \in 1 .. Len(s) /\ k = (k - 1) + 1
      BY <1>1, <2>1
    <3> QED
      BY <3>1
  <2>2. {1} \cup {i + 1 : i \in 1 .. Len(s)} \subseteq 1 .. Len(s) + 1
    BY <1>1
  <2> QED
    BY <2>1, <2>2
<1> HIDE DEF u
<1>4. /\ u \in Seq(S) /\ Len(u) = Len(s) + 1
      /\ DOMAIN u = {1} \cup {i + 1 : i \in DOMAIN s}
      /\ u[1] = x /\ \A i \in DOMAIN s : u[i + 1] = s[i]
  BY <1>1, <1>2, <1>3
<1> QED
  BY <1>4 DEF u
\* attach takes nothing, or it marks the first entry that fits, whatever comes of it.
LEMMA AttachKinds ==
  ASSUME BaseInv, NEW sec, Attach(sec)
  PROVE  \/ /\ UNCHANGED <<devices, usbDevs, devs, failed>>
            /\ sec.device = AutoName => Unmarked = {}
         \/ /\ EntriesFor(sec) # {} /\ usbDevs' = Marked(Chosen(sec))
            /\ \/ AttachGood(sec, Chosen(sec))
               \/ AttachFails(sec, Chosen(sec))
               \/ AttachAlien(sec, Chosen(sec))
<1>1. CASE sec.device \in Attached \cup {NoName} \/ EntriesFor(sec) = {}
  <2>1. UNCHANGED <<devices, usbDevs, devs, failed>>
    BY <1>1 DEF Attach, lists
  <2>2. ASSUME sec.device = AutoName PROVE Unmarked = {}
    <3>1. \A d \in DOMAIN devs : devs[d].name \in Addresses
      <4>1. \A d \in DOMAIN devs : devs[d] \in Records
        BY SeqFacts DEF BaseInv, Types
      <4> QED
        BY <4>1 DEF Records
    <3>2. AutoName \notin Attached /\ AutoName # NoName
      BY <3>1 DEF Attached, AutoName, NoName, Addresses
    <3>3. EntriesFor(sec) = Unmarked
      BY <2>2 DEF EntriesFor, Unmarked
    <3> QED
      BY <1>1, <2>2, <3>2, <3>3
  <2> QED
    BY <2>1, <2>2
<1>2. CASE ~(sec.device \in Attached \cup {NoName} \/ EntriesFor(sec) = {})
  BY <1>2 DEF Attach, Chosen
<1> QED
  BY <1>1, <1>2

\* The device that attach puts before the others.
LEMMA GoodIs ==
  ASSUME BaseInv, NEW sec, EntriesFor(sec) # {}, AttachGood(sec, Chosen(sec))
  PROVE  /\ devs' \in Seq(Records) /\ Len(devs') = Len(devs) + 1
         /\ DOMAIN devs' = {1} \cup {i + 1 : i \in DOMAIN devs}
         /\ devs'[1].name = usbDevs[Chosen(sec)].name
         /\ devs'[1].id \in {"any", Model[devs'[1].name]}
         /\ devs'[1].fd = NoFd
         /\ \A i \in DOMAIN devs : devs'[i + 1] = devs[i]
         /\ Attached' = Attached \cup {usbDevs[Chosen(sec)].name}
<1> DEFINE name == usbDevs[Chosen(sec)].name
           x == [name |-> name, id |-> sec.model, fd |-> NoFd]
<1>1. name \in Addresses
  BY ChosenIs
<1>2. devs' = <<x>> \o devs /\ sec.model \in {"any", Model[name]}
  BY DEF AttachGood, Fits
<1> HIDE DEF name
<1>3. NoFd \in 0 .. MaxDevices /\ sec.model \in Ids
  BY <1>1, <1>2, UsbTableAssumption DEF NoFd, Ids
<1>4. x \in Records /\ x.name = name /\ x.id = sec.model /\ x.fd = NoFd
  BY <1>1, <1>3 DEF Records
<1> HIDE DEF x
<1>5. devs \in Seq(Records)
  BY DEF BaseInv, Types
<1>6. /\ <<x>> \o devs \in Seq(Records) /\ Len(<<x>> \o devs) = Len(devs) + 1
      /\ DOMAIN (<<x>> \o devs) = {1} \cup {i + 1 : i \in DOMAIN devs}
      /\ (<<x>> \o devs)[1] = x
      /\ \A i \in DOMAIN devs : (<<x>> \o devs)[i + 1] = devs[i]
  BY <1>4, <1>5, FirstOf
<1>7. Attached' = Attached \cup {name}
  <2> DEFINE u == <<x>> \o devs
  <2>1. /\ devs' = u /\ DOMAIN u = {1} \cup {i + 1 : i \in DOMAIN devs}
        /\ u[1].name = name /\ \A i \in DOMAIN devs : u[i + 1].name = devs[i].name
    BY <1>2, <1>4, <1>6
  <2> HIDE DEF u
  <2>2. Attached' = {u[d].name : d \in DOMAIN u}
    BY <2>1 DEF Attached
  <2>3. ASSUME NEW d \in DOMAIN u PROVE u[d].name \in Attached \cup {name}
    BY <2>1 DEF Attached
  <2>4. ASSUME NEW i \in DOMAIN devs PROVE devs[i].name \in {u[d].name : d \in DOMAIN u}
    <3>1. i + 1 \in DOMAIN u /\ u[i + 1].name = devs[i].name
      BY <2>1
    <3> QED
      BY <3>1
  <2>5. name \in {u[d].name : d \in DOMAIN u}
    <3>1. 1 \in DOMAIN u
      BY <2>1
    <3> QED
      BY <2>1, <3>1
  <2> QED
    BY <2>2, <2>3, <2>4, <2>5 DEF Attached
<1> QED
  BY <1>2, <1>4, <1>6, <1>7 DEF name

\* A section that names no device takes one of what is left.
LEMMA AttachCounts ==
  ASSUME BaseInv, NEW sec, Attach(sec)
  PROVE  /\ IsFiniteSet(Unmarked) /\ Unmarked' \subseteq Unmarked
         /\ sec.device = AutoName /\ Unmarked # {} =>
               Cardinality(Unmarked') = Cardinality(Unmarked) - 1
<1> DEFINE i == Chosen(sec)
<1>1. IsFiniteSet(Unmarked)
  <2>1. Len(usbDevs) \in Nat /\ DOMAIN usbDevs = 1 .. Len(usbDevs)
    BY SeqFacts DEF BaseInv, Types
  <2>2. IsFiniteSet(1 .. Len(usbDevs))
    BY <2>1, FS_Interval
  <2> QED
    BY <2>1, <2>2, FS_Subset DEF Unmarked
<1>2. CASE /\ UNCHANGED <<devices, usbDevs, devs, failed>>
           /\ sec.device = AutoName => Unmarked = {}
  <2>1. Unmarked' = Unmarked
    BY <1>2 DEF Unmarked
  <2> QED
    BY <1>1, <1>2, <2>1
<1>3. CASE EntriesFor(sec) # {} /\ usbDevs' = Marked(i)
  <2>1. i \in DOMAIN usbDevs /\ ~usbDevs[i].attached
    BY <1>3, ChosenIs
  <2>2. /\ DOMAIN usbDevs' = DOMAIN usbDevs /\ usbDevs'[i].attached
        /\ \A j \in DOMAIN usbDevs : j # i => usbDevs'[j].attached = usbDevs[j].attached
    <3>1. usbDevs \in Seq(Listings)
      BY DEF BaseInv, Types
    <3> HIDE DEF i
    <3> QED
      BY <1>3, <2>1, <3>1, MarkedIs
  <2> HIDE DEF i
  <2>3. Unmarked' = Unmarked \ {i} /\ i \in Unmarked
    BY <2>1, <2>2 DEF Unmarked
  <2>4. Cardinality(Unmarked \ {i}) = Cardinality(Unmarked) - 1
    BY <1>1, <2>3, FS_RemoveElement
  <2> QED
    BY <1>1, <2>3, <2>4
<1> QED
  BY <1>2, <1>3, AttachKinds

-----------------------------------------------------------------------------
(* The steps, whether devices are shared or not.                           *)

LEMMA InitList == Init => ListInv
<1> SUFFICES ASSUME Init PROVE ListInv
  OBVIOUS
<1>1. Types
  <2>1. IsTable(<<>>)
    BY UsbTableAssumption DEF IsTable
  <2>2. <<>> \in Seq(Listings) /\ <<>> \in Seq(Records)
    OBVIOUS
  <2>3. hw \in [Handles -> Addresses \cup {0}] /\ scanning \in [Handles -> BOOLEAN]
    BY DEF Init
  <2>4. bus \subseteq Addresses /\ failed \in BOOLEAN
    BY DEF Init, UsbInit
  <2> QED
    BY <2>1, <2>2, <2>3, <2>4 DEF Init, UsbInit, Types
<1>2. Names
  BY DEF Init, Names
<1>3. Held
  BY DEF Init, Held
<1>4. Descriptors
  BY DEF Init, UsbInit, Descriptors, Slots
<1>5. Own
  BY DEF Init, Own
<1>6. Listed
  BY DEF Init, Listed
<1> QED
  BY <1>1, <1>2, <1>3, <1>4, <1>5, <1>6 DEF ListInv, BaseInv

LEMMA PlugBase == ASSUME BaseInv, Plug PROVE BaseInv'
<1>1. Types'
  <2>1. bus' \subseteq Addresses
    BY DEF BaseInv, Types, Plug
  <2> QED
    BY <2>1 DEF BaseInv, Types, Plug, lists, handles, IsTable
<1>2. Names'
  BY DEF BaseInv, Names, Plug, lists
<1>3. Held'
  BY DEF BaseInv, Held, Plug, lists, handles, Attached
<1> QED
  BY <1>1, <1>2, <1>3 DEF BaseInv

\* What sane_init makes of the bus.
LEMMA InitFinds ==
  ASSUME BaseInv, NEW found \in SUBSET bus, devices' = Scanned(found), SaneInit
  PROVE  /\ IsTable(devices') /\ Seen(devices', found)
         /\ Shut(devices) => Shut(devices')
         /\ ListedUpTo(usbDevs', devices', Len(Settings))
<1>1. found \in SUBSET Addresses /\ IsTable(devices)
  BY DEF BaseInv, Types
<1>2. IsTable(devices') /\ Seen(devices', found) /\ (Shut(devices) => Shut(devices'))
  BY <1>1, ScannedTable
<1>3. usbDevs' = Supported(devices')
  BY DEF SaneInit
<1> QED
  BY <1>2, <1>3, SupportedIs

LEMMA SaneInitBase == ASSUME BaseInv, SaneInit PROVE BaseInv'
<1>0. PICK found \in SUBSET bus :
        devices' = Scanned(found) /\ failed' = (found # bus)
  BY DEF SaneInit
<1>1. /\ devs' = <<>> /\ at' = "init" /\ section' = 1
      /\ UNCHANGED <<bus, config, hw, scanning>>
  BY DEF SaneInit, handles
<1>2. IsTable(devices') /\ ListedUpTo(usbDevs', devices', Len(Settings))
  BY <1>0, InitFinds
<1>3. \A h \in Handles : hw[h] = 0 /\ ~scanning[h]
  BY DEF BaseInv, SaneInit, Held
<1>4. Types'
  <2>1. failed' \in BOOLEAN
    BY <1>0
  <2>2. devs' \in Seq(Records)
    BY <1>1
  <2>3. usbDevs' \in Seq(Listings)
    BY <1>2 DEF ListedUpTo
  <2>4. bus' \subseteq Addresses /\ config' \in Configs
        /\ hw' \in [Handles -> Addresses \cup {0}] /\ scanning' \in [Handles -> BOOLEAN]
    BY <1>1 DEF BaseInv, Types
  <2> QED
    BY <1>1, <1>2, <2>1, <2>2, <2>3, <2>4 DEF Types
<1>5. Names'
  BY <1>1, <1>2 DEF ListedUpTo, Names
<1>6. Held'
  BY <1>1, <1>3 DEF Held
<1> QED
  BY <1>4, <1>5, <1>6 DEF BaseInv

LEMMA SaneExitBase == ASSUME BaseInv, SaneExit PROVE BaseInv'
<1>1. /\ usbDevs' = <<>> /\ devs' = <<>> /\ at' = "down"
      /\ UNCHANGED <<bus, devices, config, section, hw, scanning, failed>>
  BY DEF SaneExit, usbVars, handles
<1>2. \A h \in Handles : hw[h] = 0 /\ ~scanning[h]
  BY DEF BaseInv, SaneExit, Held
<1>3. Types'
  BY <1>1 DEF BaseInv, Types, IsTable
<1>4. Names'
  BY <1>1 DEF Names
<1>5. Held'
  BY <1>1, <1>2 DEF Held
<1> QED
  BY <1>3, <1>4, <1>5 DEF BaseInv

LEMMA SaneOpenBase ==
  ASSUME BaseInv, NEW h \in Handles, SaneOpen(h) PROVE BaseInv'
<1>1. PICK i \in DOMAIN devs : hw' = [hw EXCEPT ![h] = devs[i].name]
  BY DEF SaneOpen
<1>2. /\ at = "up" /\ hw[h] = 0
      /\ UNCHANGED <<bus, devices, config, at, section, usbDevs, devs, scanning, failed>>
  BY DEF SaneOpen, usbVars, lists
<1>3. devs[i].name \in Addresses /\ devs[i].name \in Attached
  <2>1. devs[i] \in Records
    BY SeqFacts DEF BaseInv, Types
  <2> QED
    BY <2>1 DEF Records, Attached
<1>4. /\ hw' \in [Handles -> Addresses \cup {0}]
      /\ hw'[h] = devs[i].name /\ \A g \in Handles : g # h => hw'[g] = hw[g]
  BY <1>1, <1>3 DEF BaseInv, Types
<1>5. \A g \in Handles : scanning[g] => g # h
  BY <1>2 DEF BaseInv, Held
<1>6. Types'
  BY <1>2, <1>4 DEF BaseInv, Types, IsTable
<1>7. Names'
  BY <1>2 DEF BaseInv, Names
<1>8. Held'
  BY <1>2, <1>3, <1>4, <1>5 DEF BaseInv, Held, Attached
<1> QED
  BY <1>6, <1>7, <1>8 DEF BaseInv

\* A step that changes no more than a slot and a descriptor.
LEMMA DeviceBase ==
  ASSUME BaseInv, NEW d \in DOMAIN devs, NEW v \in 0 .. MaxDevices,
         devs' = [devs EXCEPT ![d].fd = v], IsTable(devices'),
         UNCHANGED <<bus, config, at, section, usbDevs, failed>>,
         hw' \in [Handles -> Addresses \cup {0}], scanning' \in [Handles -> BOOLEAN],
         \A g \in Handles : hw'[g] \in {hw[g], 0} /\ (scanning'[g] => hw'[g] # 0)
  PROVE  BaseInv'
<1>1. /\ devs' \in Seq(Records) /\ DOMAIN devs' = DOMAIN devs
      /\ \A i \in DOMAIN devs : devs'[i].name = devs[i].name /\ devs'[i].id = devs[i].id
      /\ Attached' = Attached
  BY FdChanged DEF BaseInv, Types
<1>2. Types'
  BY <1>1 DEF BaseInv, Types
<1>3. Names'
  BY <1>1, SameNames DEF BaseInv
<1>4. Held'
  BY <1>1 DEF BaseInv, Held
<1> QED
  BY <1>2, <1>3, <1>4 DEF BaseInv

LEMMA SaneStartBase ==
  ASSUME BaseInv, NEW h \in Handles, SaneStart(h) PROVE BaseInv'
<1> DEFINE name == hw[h]
           d == DevOf(name)
           k == Lowest(SlotsOf(name))
<1>1. /\ name # 0 /\ ~scanning[h]
      /\ UNCHANGED <<bus, config, at, section, usbDevs, hw, failed>>
  BY DEF SaneStart
<1>2. d \in DOMAIN devs
  BY <1>1, DevOfIs DEF BaseInv, Held
<1>3. /\ NoFd \in 0 .. MaxDevices /\ IsTable(devices)
      /\ hw \in [Handles -> Addresses \cup {0}] /\ scanning \in [Handles -> BOOLEAN]
      /\ \A g \in Handles : scanning[g] => hw[g] # 0
  BY UsbTableAssumption DEF NoFd, BaseInv, Types, Held
<1>4. CASE /\ CanOpen(name)
           /\ devices' = Opened(name)
           /\ devs' = [devs EXCEPT ![d].fd = k]
           /\ scanning' = [scanning EXCEPT ![h] = TRUE]
  <2> DEFINE yes == TRUE
  <2>1. k \in Slots /\ k \in 1 .. MaxDevices
    BY <1>3, <1>4, SlotOfIs DEF CanOpen
  <2>2. k \in 0 .. MaxDevices
    BY <2>1, UsbTableAssumption
  <2>3. /\ devices' = [devices EXCEPT ![k].open = yes] /\ yes \in BOOLEAN
        /\ devs' = [devs EXCEPT ![d].fd = k]
    BY <1>4 DEF Opened
  <2>4. /\ scanning' \in [Handles -> BOOLEAN]
        /\ \A g \in Handles : scanning'[g] => hw[g] # 0
    BY <1>1, <1>3, <1>4
  <2> HIDE DEF yes, d, k
  <2>5. IsTable(devices')
    BY <1>3, <2>1, <2>3, SlotChanged
  <2> QED
    BY <1>1, <1>2, <1>3, <2>2, <2>3, <2>4, <2>5, DeviceBase
<1>5. CASE devs' = [devs EXCEPT ![d].fd = NoFd] /\ UNCHANGED <<devices, scanning>>
  <2>1. IsTable(devices')
    BY <1>3, <1>5 DEF IsTable
  <2> HIDE DEF d
  <2> QED
    BY <1>1, <1>2, <1>3, <1>5, <2>1, DeviceBase
<1> QED
  BY <1>4, <1>5 DEF SaneStart

LEMMA DrvCloseBase ==
  ASSUME BaseInv, NEW name \in Attached, DrvClose(name),
         UNCHANGED <<bus, config, at, section, usbDevs, failed>>,
         hw' \in [Handles -> Addresses \cup {0}], scanning' \in [Handles -> BOOLEAN],
         \A g \in Handles : hw'[g] \in {hw[g], 0} /\ (scanning'[g] => hw'[g] # 0)
  PROVE  BaseInv'
<1> DEFINE d == DevOf(name)
           k == devs[d].fd
           no == FALSE
<1>1. d \in DOMAIN devs /\ NoFd \in 0 .. MaxDevices /\ IsTable(devices)
  BY DevOfIs, UsbTableAssumption DEF NoFd, BaseInv, Types
<1>2. devs' = [devs EXCEPT ![d].fd = NoFd]
  BY DEF DrvClose
<1>3. IsTable(devices')
  <2>1. CASE k # NoFd /\ k \in Slots
    <3>1. devices' = [devices EXCEPT ![k].open = no] /\ no \in BOOLEAN
      BY <2>1 DEF DrvClose, Closed
    <3> HIDE DEF k, no
    <3> QED
      BY <1>1, <2>1, <3>1, SlotChanged
  <2>2. CASE ~(k # NoFd /\ k \in Slots)
    <3>1. devices' = devices
      BY <2>2 DEF DrvClose, Closed
    <3> QED
      BY <1>1, <3>1 DEF IsTable
  <2> QED
    BY <2>1, <2>2
<1> HIDE DEF d
<1> QED
  BY <1>1, <1>2, <1>3, DeviceBase

LEMMA EndScanBase ==
  ASSUME BaseInv, NEW h \in Handles, EndScan(h) PROVE BaseInv'
<1>1. /\ hw[h] \in Attached /\ DrvClose(hw[h])
      /\ scanning' = [scanning EXCEPT ![h] = FALSE]
      /\ UNCHANGED <<bus, config, at, section, usbDevs, hw, failed>>
  BY DEF EndScan, BaseInv, Held
<1>2. /\ hw \in [Handles -> Addresses \cup {0}] /\ scanning' \in [Handles -> BOOLEAN]
      /\ \A g \in Handles : scanning'[g] => hw[g] # 0
  BY <1>1 DEF BaseInv, Types, Held
<1> QED
  BY <1>1, <1>2, DrvCloseBase

LEMMA SaneCloseBase ==
  ASSUME BaseInv, NEW h \in Handles, SaneClose(h) PROVE BaseInv'
<1>1. /\ hw[h] \in Attached /\ DrvClose(hw[h]) /\ ~scanning[h]
      /\ hw' = [hw EXCEPT ![h] = 0]
      /\ UNCHANGED <<bus, config, at, section, usbDevs, scanning, failed>>
  BY DEF SaneClose, BaseInv, Held
<1>2. /\ hw' \in [Handles -> Addresses \cup {0}] /\ scanning \in [Handles -> BOOLEAN]
      /\ \A g \in Handles : hw'[g] \in {hw[g], 0} /\ (scanning[g] => hw'[g] # 0)
  BY <1>1 DEF BaseInv, Types, Held
<1> QED
  BY <1>1, <1>2, DrvCloseBase

\* Attaching leaves the table and the lists in order.
LEMMA AttachBase ==
  ASSUME BaseInv, NEW sec, Attach(sec)
  PROVE  /\ IsTable(devices') /\ usbDevs' \in Seq(Listings) /\ devs' \in Seq(Records)
         /\ failed' \in BOOLEAN /\ (failed => failed')
         /\ Len(usbDevs') = Len(usbDevs)
         /\ Attached \subseteq Attached'
         /\ Names'
<1> DEFINE i == Chosen(sec)
           name == usbDevs[i].name
<1>0. /\ IsTable(devices) /\ usbDevs \in Seq(Listings) /\ devs \in Seq(Records)
      /\ failed \in BOOLEAN /\ Names
  BY DEF BaseInv, Types
<1>1. CASE UNCHANGED <<devices, usbDevs, devs, failed>>
  <2>1. IsTable(devices')
    BY <1>0, <1>1 DEF IsTable
  <2>2. Attached' = Attached /\ Names'
    BY <1>0, <1>1 DEF Attached, Names
  <2> QED
    BY <1>0, <1>1, <2>1, <2>2
<1>2. CASE /\ EntriesFor(sec) # {} /\ usbDevs' = Marked(i)
           /\ \/ AttachGood(sec, i)
              \/ AttachFails(sec, i)
              \/ AttachAlien(sec, i)
  <2>1. /\ i \in DOMAIN usbDevs /\ ~usbDevs[i].attached
        /\ name \in Addresses /\ name \notin Attached
    BY <1>2, ChosenIs
  <2>2. /\ usbDevs' \in Seq(Listings) /\ Len(usbDevs') = Len(usbDevs)
        /\ DOMAIN usbDevs' = DOMAIN usbDevs
        /\ \A j \in DOMAIN usbDevs : usbDevs'[j].name = usbDevs[j].name
        /\ usbDevs'[i].attached
        /\ \A j \in DOMAIN usbDevs : j # i => usbDevs'[j].attached = usbDevs[j].attached
    <3> HIDE DEF i
    <3> QED
      BY <1>0, <1>2, <2>1, MarkedIs
  <2>3. \A j \in DOMAIN usbDevs : usbDevs[j].attached => usbDevs'[j].attached
    BY <2>1, <2>2
  <2> HIDE DEF i
  <2>5. \A j, k \in DOMAIN usbDevs' : usbDevs'[j].name = usbDevs'[k].name => j = k
    BY <1>0, <2>2 DEF Names
  <2>6. CASE AttachGood(sec, i)
    <3>1. /\ devs' \in Seq(Records)
          /\ DOMAIN devs' = {1} \cup {e + 1 : e \in DOMAIN devs}
          /\ devs'[1].name = name
          /\ devs'[1].id \in {"any", Model[name]}
          /\ devs'[1].fd = NoFd
          /\ \A e \in DOMAIN devs : devs'[e + 1] = devs[e]
          /\ Attached' = Attached \cup {name}
      BY <1>2, <2>6, GoodIs DEF i
    <3>2. devices' = devices /\ failed' = failed
      BY <2>6 DEF AttachGood
    <3>3. \A e \in DOMAIN devs : devs[e].name # name
      BY <2>1 DEF Attached
    <3>4. IsTable(devices')
      BY <1>0, <3>2 DEF IsTable
    <3>5. Names'
      <4>1. \A d, e \in DOMAIN devs' : devs'[d].name = devs'[e].name => d = e
        <5>1. \A d, e \in DOMAIN devs : devs[d].name = devs[e].name => d = e
          BY <1>0 DEF Names
        <5> QED
          BY <3>1, <3>3, <5>1
      <4>2. ASSUME NEW d \in DOMAIN devs'
            PROVE  /\ devs'[d].id \in {"any", Model[devs'[d].name]}
                   /\ \E j \in DOMAIN usbDevs' :
                         usbDevs'[j].attached /\ usbDevs'[j].name = devs'[d].name
        <5>1. CASE d = 1
          BY <2>1, <2>2, <3>1, <5>1
        <5>2. CASE d # 1
          <6>1. PICK e \in DOMAIN devs : d = e + 1
            BY <3>1, <5>2
          <6>2. devs'[d] = devs[e]
            BY <3>1, <6>1
          <6>3. PICK j \in DOMAIN usbDevs :
                   usbDevs[j].attached /\ usbDevs[j].name = devs[e].name
            BY <1>0 DEF Names
          <6>4. usbDevs'[j].attached /\ usbDevs'[j].name = devs'[d].name
            BY <2>2, <2>3, <6>2, <6>3
          <6>5. devs[e].id \in {"any", Model[devs[e].name]}
            BY <1>0 DEF Names
          <6> QED
            BY <2>2, <6>2, <6>4, <6>5
        <5> QED
          BY <5>1, <5>2
      <4> QED
        BY <2>5, <4>1, <4>2 DEF Names
    <3> QED
      BY <1>0, <2>2, <3>1, <3>2, <3>4, <3>5
  <2>7. CASE devs' = devs
    <3>1. Attached' = Attached
      BY <2>7 DEF Attached
    <3>2. Names'
      <4>1. ASSUME NEW d \in DOMAIN devs
            PROVE  /\ devs[d].id \in {"any", Model[devs[d].name]}
                   /\ \E j \in DOMAIN usbDevs' :
                         usbDevs'[j].attached /\ usbDevs'[j].name = devs[d].name
        <5>1. PICK j \in DOMAIN usbDevs :
                 usbDevs[j].attached /\ usbDevs[j].name = devs[d].name
          BY <1>0 DEF Names
        <5>2. /\ j \in DOMAIN usbDevs' /\ usbDevs'[j].attached
              /\ usbDevs'[j].name = devs[d].name
          BY <2>2, <2>3, <5>1
        <5> QED
          BY <1>0, <5>2 DEF Names
      <4>2. \A d, e \in DOMAIN devs : devs[d].name = devs[e].name => d = e
        BY <1>0 DEF Names
      <4> QED
        BY <2>5, <2>7, <4>1, <4>2 DEF Names
    <3>3. CASE AttachFails(sec, i)
      <4>1. devices' = devices
        BY <3>3 DEF AttachFails
      <4>2. IsTable(devices')
        BY <1>0, <4>1 DEF IsTable
      <4>3. failed' \in BOOLEAN /\ (failed => failed')
        BY <1>0, <3>3 DEF AttachFails
      <4> QED
        BY <1>0, <2>2, <2>7, <3>1, <3>2, <4>2, <4>3
    <3>4. CASE AttachAlien(sec, i)
      <4> DEFINE k == Lowest(SlotsOf(name))
      <4>1. /\ CanOpen(name) /\ name \in Aliens /\ failed' = failed
            /\ devices' = [devices EXCEPT ![k].open = TRUE]
        BY <3>4 DEF AttachAlien, Opened
      <4>2. k \in Slots /\ devices[k].name = name
        BY <1>0, <4>1, SlotOfIs DEF CanOpen
      <4>3. IsTable(devices')
        <5> DEFINE yes == TRUE
        <5>1. yes \in BOOLEAN /\ devices' = [devices EXCEPT ![k].open = yes]
          BY <4>1
        <5> HIDE DEF yes, k
        <5> QED
          BY <1>0, <4>2, <5>1, SlotChanged
      <4> QED
        BY <1>0, <2>2, <2>7, <3>1, <3>2, <4>1, <4>3
    <3>5. CASE AttachGood(sec, i)
      BY <2>6, <3>5
    <3> QED
      BY <1>2, <3>3, <3>4, <3>5
  <2> QED
    BY <1>2, <2>6, <2>7 DEF AttachFails, AttachAlien
<1> QED
  BY <1>1, <1>2, AttachKinds
LEMMA AttachSectionBase == ASSUME BaseInv, AttachSection PROVE BaseInv'
<1>1. /\ at = "init" /\ UNCHANGED <<bus, config, hw, scanning>>
      /\ \A h \in Handles : hw[h] = 0 /\ ~scanning[h]
  BY DEF AttachSection, BaseInv, Held, handles
<1>2. Len(config) \in Nat /\ section \in Nat
  BY ConfigFacts DEF BaseInv, Types
<1>3. CASE section > Len(config)
  <2>1. at' = "up" /\ section' = 0 /\ UNCHANGED <<devices, usbDevs, devs, failed>>
    BY <1>2, <1>3 DEF AttachSection, lists
  <2>2. Types'
    BY <1>1, <2>1 DEF BaseInv, Types, IsTable
  <2>3. Names'
    BY <2>1 DEF BaseInv, Names
  <2>4. Held'
    BY <1>1, <2>1 DEF Held
  <2> QED
    BY <2>2, <2>3, <2>4 DEF BaseInv
<1>4. CASE section <= Len(config)
  <2>1. Attach(config[section]) /\ section' = section + 1 /\ at' = "init"
    BY <1>1, <1>4 DEF AttachSection
  <2>2. /\ IsTable(devices') /\ usbDevs' \in Seq(Listings) /\ devs' \in Seq(Records)
        /\ failed' \in BOOLEAN /\ Names'
    BY <2>1, AttachBase
  <2>3. Types'
    BY <1>1, <1>2, <2>1, <2>2 DEF BaseInv, Types
  <2>4. Held'
    BY <1>1, <2>1 DEF Held
  <2> QED
    BY <2>2, <2>3, <2>4 DEF BaseInv
<1> QED
  BY <1>2, <1>3, <1>4

\* The handle is left alone, or it gets a device that none has.
LEMMA AutoOpens ==
  ASSUME BaseInv, NEW h \in Handles, SaneOpenAuto(h)
  PROVE  \/ hw' = hw /\ Attached \subseteq Attached'
         \/ \E a \in Addresses : /\ hw' = [hw EXCEPT ![h] = a]
                                 /\ a \notin Attached /\ Attached' = Attached \cup {a}
<1> DEFINE sec == [model |-> "any", device |-> AutoName]
           i == Chosen(sec)
           name == usbDevs[i].name
<1>1. /\ Attach(sec)
      /\ hw' = IF Len(devs') > Len(devs) THEN [hw EXCEPT ![h] = devs'[1].name] ELSE hw
  BY DEF SaneOpenAuto
<1> HIDE DEF sec
<1>2. Len(devs) \in Nat
  BY SeqFacts DEF BaseInv, Types
<1>3. CASE devs' = devs
  BY <1>1, <1>2, <1>3 DEF Attached
<1>4. CASE EntriesFor(sec) # {} /\ AttachGood(sec, i)
  <2>1. /\ Len(devs') = Len(devs) + 1 /\ devs'[1].name = name
        /\ Attached' = Attached \cup {name}
    BY <1>4, GoodIs
  <2>2. name \in Addresses /\ name \notin Attached
    BY <1>4, ChosenIs
  <2>3. hw' = [hw EXCEPT ![h] = name]
    BY <1>1, <1>2, <2>1
  <2> HIDE DEF i
  <2> QED
    BY <2>1, <2>2, <2>3
<1> QED
  BY <1>1, <1>3, <1>4, AttachKinds DEF AttachFails, AttachAlien

LEMMA SaneOpenAutoBase ==
  ASSUME BaseInv, NEW h \in Handles, SaneOpenAuto(h)
  PROVE  BaseInv' /\ \A g \in Handles : scanning[g] => hw'[g] = hw[g]
<1>1. /\ at = "up" /\ hw[h] = 0 /\ Attach([model |-> "any", device |-> AutoName])
      /\ UNCHANGED <<bus, config, at, section, scanning>>
  BY DEF SaneOpenAuto
<1>2. hw \in [Handles -> Addresses \cup {0}]
  BY DEF BaseInv, Types
<1>3. /\ hw' \in [Handles -> Addresses \cup {0}]
      /\ \A g \in Handles : g # h => hw'[g] = hw[g]
      /\ \A g \in Handles : hw'[g] # 0 => hw'[g] \in Attached'
  BY <1>2, AutoOpens DEF BaseInv, Held
<1>4. \A g \in Handles : scanning[g] => hw'[g] = hw[g] /\ hw[g] # 0
  BY <1>1, <1>3 DEF BaseInv, Held
<1>5. /\ IsTable(devices') /\ usbDevs' \in Seq(Listings) /\ devs' \in Seq(Records)
      /\ failed' \in BOOLEAN /\ Names'
  BY <1>1, AttachBase
<1>6. Types'
  BY <1>1, <1>3, <1>5 DEF BaseInv, Types
<1>7. Held'
  BY <1>1, <1>3, <1>4 DEF Held
<1> QED
  BY <1>4, <1>5, <1>6, <1>7 DEF BaseInv

LEMMA StutterBase == ASSUME BaseInv, UNCHANGED vars PROVE BaseInv'
<1>1. UNCHANGED <<bus, devices, config, at, section, usbDevs, devs, hw, scanning, failed>>
  BY DEF vars, usbVars, lists, handles
<1>2. Types'
  BY <1>1 DEF BaseInv, Types, IsTable
<1>3. Names'
  BY <1>1 DEF BaseInv, Names
<1>4. Held'
  BY <1>1 DEF BaseInv, Held, Attached
<1> QED
  BY <1>2, <1>3, <1>4 DEF BaseInv

\* Every step keeps BaseInv.
LEMMA BaseStep == BaseInv /\ [Next]_vars => BaseInv'
<1> SUFFICES ASSUME BaseInv, [Next]_vars PROVE BaseInv'
  OBVIOUS
<1>1. CASE Plug
  BY <1>1, PlugBase
<1>2. CASE SaneInit
  BY <1>2, SaneInitBase
<1>3. CASE AttachSection
  BY <1>3, AttachSectionBase
<1>4. CASE SaneExit
  BY <1>4, SaneExitBase
<1>5. ASSUME NEW h \in Handles, SaneOpen(h) PROVE BaseInv'
  BY <1>5, SaneOpenBase
<1>6. ASSUME NEW h \in Handles, SaneOpenAuto(h) PROVE BaseInv'
  BY <1>6, SaneOpenAutoBase
<1>7. ASSUME NEW h \in Handles, SaneStart(h) PROVE BaseInv'
  BY <1>7, SaneStartBase
<1>8. ASSUME NEW h \in Handles, EndScan(h) PROVE BaseInv'
  BY <1>8, EndScanBase
<1>9. ASSUME NEW h \in Handles, SaneClose(h) PROVE BaseInv'
  BY <1>9, SaneCloseBase
<1>10. CASE UNCHANGED vars
  BY <1>10, StutterBase
<1> QED
  BY <1>1, <1>2, <1>3, <1>4, <1>5, <1>6, <1>7, <1>8, <1>9, <1>10 DEF Next

-----------------------------------------------------------------------------
(* The steps, when no device is shared.                                    *)

LEMMA PlugKeeps == ASSUME ListInv, BaseInv', Plug PROVE ListInv'
<1>1. Own'
  BY DEF ListInv, Own, Plug, handles
<1>2. Descriptors'
  BY DEF ListInv, Descriptors, Plug, lists, handles, Slots
<1>3. Listed'
  BY DEF Plug, Listed
<1> QED
  BY <1>1, <1>2, <1>3 DEF ListInv

\* Every section may still be used.
LEMMA AllLeft ==
  ASSUME NEW list \in Seq(Listings), \A j \in DOMAIN list : ~list[j].attached,
         NEW file \in Configs,
         Len(list) <= Cardinality({s \in DOMAIN file : file[s].device = AutoName})
  PROVE  Cardinality({j \in DOMAIN list : ~list[j].attached})
            <= Cardinality({s \in 1 .. Len(file) : file[s].device = AutoName})
<1>1. Len(list) \in Nat /\ DOMAIN list = 1 .. Len(list)
  BY SeqFacts
<1>2. {j \in DOMAIN list : ~list[j].attached} = 1 .. Len(list)
  BY <1>1
<1>3. Cardinality(1 .. Len(list)) = IF 1 > Len(list) THEN 0 ELSE Len(list) - 1 + 1
  BY <1>1, FS_Interval
<1>4. Cardinality(1 .. Len(list)) = Len(list)
  BY <1>1, <1>3
<1>5. DOMAIN file = 1 .. Len(file)
  BY DeviceListAssumption
<1> QED
  BY <1>2, <1>4, <1>5

LEMMA SaneInitKeeps == ASSUME ListInv, BaseInv', SaneInit PROVE ListInv'
<1>0. PICK found \in SUBSET bus :
        devices' = Scanned(found) /\ failed' = (found # bus)
  BY DEF SaneInit
<1>1. /\ devs' = <<>> /\ at' = "init" /\ section' = 1
      /\ UNCHANGED <<bus, config, hw, scanning>>
  BY DEF SaneInit, handles
<1>2. \A h \in Handles : hw[h] = 0 /\ ~scanning[h]
  BY DEF ListInv, BaseInv, SaneInit, Held
<1>3. Shut(devices)
  BY <1>2, ShutWhenIdle DEF ListInv, BaseInv
<1>5. IsTable(devices') /\ Seen(devices', found) /\ Shut(devices')
  BY <1>0, <1>3, InitFinds DEF ListInv
<1>6. ListedUpTo(usbDevs', devices', Len(Settings))
  BY <1>0, InitFinds DEF ListInv
<1>7. config' \in Configs /\ usbDevs' \in Seq(Listings)
  BY DEF BaseInv, Types
<1>9. Own'
  BY <1>1, <1>2 DEF Own
<1>10. Descriptors'
  BY <1>1, <1>2, <1>5 DEF Descriptors, Shut, Slots
<1>11. Listed'
  <2> SUFFICES ASSUME Enough', ~failed'
               PROVE  Found' /\ AllListed' /\ AllThere' /\ AllTaken' /\ Left'
    BY DEF Listed
  <2>1. found = bus'
    BY <1>0, <1>1
  <2>2. Found'
    BY <1>5, <2>1 DEF Found, Seen, Slots
  <2>3. AllListed'
    <3> SUFFICES ASSUME NEW i \in Slots', devices'[i].missing = 0,
                        Model[devices'[i].name] \in ToSet(Settings)
                 PROVE  \E j \in DOMAIN usbDevs' : usbDevs'[j].name = devices'[i].name
      BY DEF AllListed
    <3>1. PICK m \in 1 .. Len(Settings) : Settings[m] = Model[devices'[i].name]
      BY DeviceListAssumption DEF ToSet
    <3>2. Present(devices', Settings[m], devices'[i].name)
      BY <3>1 DEF Present, Slots
    <3> QED
      BY <1>6, <3>2 DEF ListedUpTo
  <2>4. AllThere'
    BY <1>6 DEF AllThere, ListedUpTo, Present, Slots
  <2>5. AllTaken'
    BY <1>6 DEF AllTaken, ListedUpTo
  <2>6. Left'
    <3>1. config' \in Configs /\ usbDevs' \in Seq(Listings)
      BY <1>7
    <3>2. \A j \in DOMAIN usbDevs' : ~usbDevs'[j].attached
      BY <1>6 DEF ListedUpTo
    <3>3. Len(usbDevs')
             <= Cardinality({s \in DOMAIN config' : config'[s].device = AutoName})
      BY DEF Enough
    <3>4. Cardinality(Unmarked') <= Cardinality({s \in 1 .. Len(config') :
                                                    config'[s].device = AutoName})
      BY <3>1, <3>2, <3>3, AllLeft DEF Unmarked
    <3>6. Cardinality(Unmarked') <= Cardinality(Autos(section)')
      BY <1>1, <3>4 DEF Autos
    <3>5. 1 \in 1 .. Len(config') + 1
      <4>1. Len(config') \in Nat
        BY <3>1, DeviceListAssumption
      <4> QED
        BY <4>1
    <3> QED
      BY <1>1, <3>5, <3>6 DEF Left
  <2> QED
    BY <2>2, <2>3, <2>4, <2>5, <2>6
<1> QED
  BY <1>9, <1>10, <1>11 DEF ListInv

LEMMA SaneExitKeeps == ASSUME ListInv, BaseInv', SaneExit PROVE ListInv'
<1>1. /\ devs' = <<>> /\ at' = "down" /\ UNCHANGED <<devices, hw, scanning>>
  BY DEF SaneExit, usbVars, handles
<1>2. \A h \in Handles : hw[h] = 0 /\ ~scanning[h]
  BY DEF ListInv, BaseInv, SaneExit, Held
<1>3. Shut(devices)
  BY <1>2, ShutWhenIdle DEF ListInv, BaseInv
<1>4. Own'
  BY <1>1, <1>2 DEF Own
<1>5. Descriptors'
  BY <1>1, <1>2, <1>3 DEF Descriptors, Shut, Slots
<1>6. Listed'
  BY <1>1 DEF Listed
<1> QED
  BY <1>4, <1>5, <1>6 DEF ListInv

LEMMA SaneOpenKeeps ==
  ASSUME ~Shared, ListInv, BaseInv', NEW h \in Handles, SaneOpen(h) PROVE ListInv'
<1>1. PICK i \in DOMAIN devs :
        /\ \A g \in Handles : hw[g] # devs[i].name
        /\ hw' = [hw EXCEPT ![h] = devs[i].name]
  BY DEF SaneOpen
<1>2. /\ hw[h] = 0
      /\ UNCHANGED <<bus, devices, config, at, section, usbDevs, devs, scanning, failed>>
  BY DEF SaneOpen, usbVars, lists
<1>3. hw'[h] = devs[i].name /\ \A g \in Handles : g # h => hw'[g] = hw[g]
  BY <1>1 DEF ListInv, BaseInv, Types
<1>4. \A g \in Handles : scanning[g] => g # h
  BY <1>2 DEF ListInv, BaseInv, Held
<1>5. Own'
  BY <1>1, <1>3 DEF ListInv, Own
<1>6. Descriptors'
  BY <1>2, <1>3, <1>4 DEF ListInv, Descriptors, Slots
<1>7. Listed'
  BY <1>2, SameListed DEF ListInv, BaseInv, Attached, Slots
<1> QED
  BY <1>5, <1>6, <1>7 DEF ListInv

\* The device of a handle.
LEMMA DeviceOf ==
  ASSUME ListInv, NEW h \in Handles, hw[h] # 0
  PROVE  /\ DevOf(hw[h]) \in DOMAIN devs /\ devs[DevOf(hw[h])].name = hw[h]
         /\ ~scanning[h] => devs[DevOf(hw[h])].fd = NoFd
         /\ \A g \in Handles : g # h => hw[g] # hw[h]
         /\ at = "up"
<1>1. hw[h] \in Attached
  BY DEF ListInv, BaseInv, Held
<1>2. DevOf(hw[h]) \in DOMAIN devs /\ devs[DevOf(hw[h])].name = hw[h]
  BY <1>1, DevOfIs
<1>3. \A g \in Handles : g # h => hw[g] # hw[h]
  BY DEF ListInv, Own
<1>4. ~scanning[h] => devs[DevOf(hw[h])].fd = NoFd
  BY <1>2, <1>3 DEF ListInv, Descriptors
<1> QED
  BY <1>2, <1>3, <1>4 DEF ListInv, BaseInv, Held

LEMMA SaneStartKeeps ==
  ASSUME ListInv, BaseInv', NEW h \in Handles, SaneStart(h) PROVE ListInv'
<1> DEFINE name == hw[h]
           d == DevOf(name)
           k == Lowest(SlotsOf(name))
<1>1. /\ at = "up" /\ name # 0 /\ ~scanning[h]
      /\ UNCHANGED <<bus, config, at, section, usbDevs, hw, failed>>
  BY DEF SaneStart
<1>2. /\ d \in DOMAIN devs /\ devs[d].name = name /\ devs[d].fd = NoFd
      /\ \A g \in Handles : g # h => hw[g] # name
  BY <1>1, DeviceOf
<1>3. CASE /\ CanOpen(name)
           /\ devices' = Opened(name)
           /\ devs' = [devs EXCEPT ![d].fd = k]
           /\ scanning' = [scanning EXCEPT ![h] = TRUE]
  <2>1. /\ k \in Slots /\ devices[k].name = name /\ k \in 1 .. MaxDevices
        /\ ~devices[k].open
    BY <1>3, SlotOfIs DEF CanOpen, ListInv, BaseInv, Types
  <2>2. devices' = [devices EXCEPT ![k].open = TRUE]
    BY <1>3 DEF Opened
  <2>3. devs' = [devs EXCEPT ![d].fd = k]
    BY <1>3
  <2>4. k \in 0 .. MaxDevices /\ k # NoFd
    BY <2>1, UsbTableAssumption DEF NoFd
  <2> HIDE DEF k, d
  <2>5. /\ IsTable(devices') /\ Slots' = Slots
        /\ \A i \in Slots : /\ devices'[i].name = devices[i].name
                            /\ devices'[i].missing = devices[i].missing
        /\ devices'[k].open
        /\ \A i \in Slots : i # k => devices'[i].open = devices[i].open
    <3> DEFINE yes == TRUE
    <3>1. yes \in BOOLEAN /\ devices' = [devices EXCEPT ![k].open = yes]
      BY <2>2
    <3>2. yes
      OBVIOUS
    <3> HIDE DEF yes
    <3>3. /\ IsTable(devices') /\ Slots' = Slots
          /\ \A i \in Slots : /\ devices'[i].name = devices[i].name
                              /\ devices'[i].missing = devices[i].missing
          /\ devices'[k].open = yes
          /\ \A i \in Slots : i # k => devices'[i].open = devices[i].open
      BY <2>1, <3>1, SlotChanged DEF ListInv, BaseInv, Types
    <3> QED
      BY <3>2, <3>3
  <2>6. /\ devs' \in Seq(Records) /\ DOMAIN devs' = DOMAIN devs
        /\ \A i \in DOMAIN devs : devs'[i].name = devs[i].name /\ devs'[i].id = devs[i].id
        /\ devs'[d].fd = k
        /\ \A i \in DOMAIN devs : i # d => devs'[i].fd = devs[i].fd
        /\ Attached' = Attached
    BY <1>2, <2>3, <2>4, FdChanged DEF ListInv, BaseInv, Types
  <2>7. /\ scanning' \in [Handles -> BOOLEAN] /\ scanning'[h]
        /\ \A g \in Handles : g # h => scanning'[g] = scanning[g]
    BY <1>3 DEF ListInv, BaseInv, Types
  <2>10. Own'
    BY <1>1 DEF ListInv, Own
  <2>11. Listed'
    BY <1>1, <2>5, <2>6, SameListed DEF ListInv, BaseInv
  <2>12. Descriptors'
    <3>1. ASSUME NEW e \in DOMAIN devs', devs'[e].fd # NoFd
          PROVE  /\ devs'[e].fd \in Slots'
                 /\ devices'[devs'[e].fd].open
                 /\ devices'[devs'[e].fd].name = devs'[e].name
                 /\ \E g \in Handles : scanning'[g] /\ hw'[g] = devs'[e].name
      <4>1. CASE e = d
        BY <1>1, <1>2, <2>1, <2>5, <2>6, <2>7, <4>1
      <4>2. CASE e # d
        <5>1. e \in DOMAIN devs /\ devs[e].fd # NoFd /\ devs'[e].fd = devs[e].fd
          BY <2>6, <3>1, <4>2
        <5>2. /\ devs[e].fd \in Slots /\ devices[devs[e].fd].open
              /\ devices[devs[e].fd].name = devs[e].name
          BY <5>1 DEF ListInv, Descriptors
        <5>3. PICK g \in Handles : scanning[g] /\ hw[g] = devs[e].name
          BY <5>1 DEF ListInv, Descriptors
        <5>4. scanning'[g] /\ hw'[g] = devs'[e].name
          BY <1>1, <2>6, <2>7, <5>1, <5>3
        <5>5. devs[e].fd # k
          BY <2>1, <5>2
        <5> QED
          BY <2>5, <2>6, <5>1, <5>2, <5>4, <5>5
      <4> QED
        BY <4>1, <4>2
    <3>2. ASSUME NEW g \in Handles, NEW e \in DOMAIN devs',
                 scanning'[g], hw'[g] = devs'[e].name
          PROVE  devs'[e].fd # NoFd
      <4>1. CASE e = d
        BY <2>4, <2>6, <4>1
      <4>2. CASE e # d
        <5>1. e \in DOMAIN devs /\ hw[g] = devs[e].name /\ devs'[e].fd = devs[e].fd
          BY <1>1, <2>6, <3>2, <4>2
        <5>2. devs[e].name # name
          BY <1>2, <4>2, <5>1 DEF ListInv, BaseInv, Names
        <5>3. g # h /\ scanning[g]
          BY <2>7, <3>2, <5>1, <5>2
        <5> QED
          BY <5>1, <5>3 DEF ListInv, Descriptors
      <4> QED
        BY <4>1, <4>2
    <3>3. ASSUME NEW i \in Slots', devices'[i].open
          PROVE  \/ devices'[i].name \in Aliens
                 \/ \E e \in DOMAIN devs' : devs'[e].fd = i
      <4>1. CASE i = k
        BY <1>2, <2>6, <4>1
      <4>2. CASE i # k
        <5>1. i \in Slots /\ devices[i].open /\ devices'[i].name = devices[i].name
          BY <2>5, <3>3, <4>2
        <5>2. CASE devices[i].name \in Aliens
          BY <5>1, <5>2
        <5>3. CASE \E e \in DOMAIN devs : devs[e].fd = i
          <6>1. PICK e \in DOMAIN devs : devs[e].fd = i
            BY <5>3
          <6>2. i # NoFd
            BY <5>1, TableFacts DEF ListInv, BaseInv, Types, Slots, NoFd
          <6> QED
            BY <1>2, <2>6, <6>1, <6>2
        <5> QED
          BY <5>1, <5>2, <5>3 DEF ListInv, Descriptors
      <4> QED
        BY <4>1, <4>2
    <3> QED
      BY <3>1, <3>2, <3>3 DEF Descriptors
  <2> QED
    BY <2>10, <2>11, <2>12 DEF ListInv
<1>4. CASE devs' = [devs EXCEPT ![d].fd = NoFd] /\ UNCHANGED <<devices, scanning>>
  <2>1. /\ devs' \in Seq(Records) /\ DOMAIN devs' = DOMAIN devs
        /\ \A i \in DOMAIN devs : devs'[i].name = devs[i].name /\ devs'[i].id = devs[i].id
        /\ devs'[d].fd = NoFd
        /\ \A i \in DOMAIN devs : i # d => devs'[i].fd = devs[i].fd
        /\ Attached' = Attached
    <3>1. NoFd \in 0 .. MaxDevices
      BY UsbTableAssumption DEF NoFd
    <3> HIDE DEF d
    <3> QED
      BY <1>2, <1>4, <3>1, FdChanged DEF ListInv, BaseInv, Types
  <2>2. \A i \in DOMAIN devs : devs'[i].fd = devs[i].fd
    BY <1>2, <2>1
  <2> HIDE DEF d
  <2>5. Own'
    BY <1>1 DEF ListInv, Own
  <2>6. Descriptors'
    BY <1>1, <1>4, <2>1, <2>2 DEF ListInv, Descriptors, Slots
  <2>7. Listed'
    BY <1>1, <1>4, <2>1, SameListed DEF ListInv, BaseInv, Slots
  <2> QED
    BY <2>5, <2>6, <2>7 DEF ListInv
<1> QED
  BY <1>3, <1>4 DEF SaneStart
LEMMA EndScanKeeps ==
  ASSUME ListInv, BaseInv', NEW h \in Handles, EndScan(h) PROVE ListInv'
<1> DEFINE name == hw[h]
           d == DevOf(name)
           k == devs[d].fd
<1>1. /\ scanning[h] /\ scanning' = [scanning EXCEPT ![h] = FALSE]
      /\ UNCHANGED <<bus, config, at, section, usbDevs, hw, failed>>
  BY DEF EndScan
<1>2. name # 0
  BY <1>1 DEF ListInv, BaseInv, Held
<1>3. /\ d \in DOMAIN devs /\ devs[d].name = name
      /\ \A g \in Handles : g # h => hw[g] # name
  BY <1>2, DeviceOf
<1>4. /\ k # NoFd /\ k \in Slots /\ devices[k].open /\ devices[k].name = name
  BY <1>1, <1>3 DEF ListInv, Descriptors
<1>5. /\ devices' = [devices EXCEPT ![k].open = FALSE]
      /\ devs' = [devs EXCEPT ![d].fd = NoFd]
  BY <1>4 DEF EndScan, DrvClose, Closed
<1> HIDE DEF d
<1>6. /\ IsTable(devices') /\ Slots' = Slots
      /\ \A i \in Slots : /\ devices'[i].name = devices[i].name
                          /\ devices'[i].missing = devices[i].missing
      /\ ~devices'[k].open
      /\ \A i \in Slots : i # k => devices'[i].open = devices[i].open
  <2> DEFINE no == FALSE
  <2>1. no \in BOOLEAN /\ devices' = [devices EXCEPT ![k].open = no]
    BY <1>5
  <2>2. ~no
    OBVIOUS
  <2> HIDE DEF no, k
  <2>3. /\ IsTable(devices') /\ Slots' = Slots
        /\ \A i \in Slots : /\ devices'[i].name = devices[i].name
                            /\ devices'[i].missing = devices[i].missing
        /\ devices'[k].open = no
        /\ \A i \in Slots : i # k => devices'[i].open = devices[i].open
    BY <1>4, <2>1, SlotChanged DEF ListInv, BaseInv, Types
  <2> QED
    BY <2>2, <2>3
<1>7. /\ devs' \in Seq(Records) /\ DOMAIN devs' = DOMAIN devs
      /\ \A i \in DOMAIN devs : devs'[i].name = devs[i].name /\ devs'[i].id = devs[i].id
      /\ devs'[d].fd = NoFd
      /\ \A i \in DOMAIN devs : i # d => devs'[i].fd = devs[i].fd
      /\ Attached' = Attached
  <2>1. NoFd \in 0 .. MaxDevices
    BY UsbTableAssumption DEF NoFd
  <2> QED
    BY <1>3, <1>5, <2>1, FdChanged DEF ListInv, BaseInv, Types
<1>8. /\ scanning' \in [Handles -> BOOLEAN] /\ ~scanning'[h]
      /\ \A g \in Handles : g # h => scanning'[g] = scanning[g]
  BY <1>1 DEF ListInv, BaseInv, Types
<1> HIDE DEF k
<1>11. Own'
  BY <1>1 DEF ListInv, Own
<1>12. Listed'
  BY <1>1, <1>6, <1>7, SameListed DEF ListInv, BaseInv
<1>13. Descriptors'
  <2>1. ASSUME NEW e \in DOMAIN devs', devs'[e].fd # NoFd
        PROVE  /\ devs'[e].fd \in Slots'
               /\ devices'[devs'[e].fd].open
               /\ devices'[devs'[e].fd].name = devs'[e].name
               /\ \E g \in Handles : scanning'[g] /\ hw'[g] = devs'[e].name
    <3>1. e # d /\ e \in DOMAIN devs /\ devs'[e].fd = devs[e].fd
      BY <1>7, <2>1
    <3>2. /\ devs[e].fd \in Slots /\ devices[devs[e].fd].open
          /\ devices[devs[e].fd].name = devs[e].name
      BY <2>1, <3>1 DEF ListInv, Descriptors
    <3>3. devs[e].name # name
      BY <1>3, <3>1 DEF ListInv, BaseInv, Names
    <3>4. PICK g \in Handles : scanning[g] /\ hw[g] = devs[e].name
      BY <2>1, <3>1 DEF ListInv, Descriptors
    <3>5. scanning'[g] /\ hw'[g] = devs'[e].name
      BY <1>1, <1>7, <1>8, <3>1, <3>3, <3>4
    <3>6. devs[e].fd # k
      BY <1>4, <3>2, <3>3
    <3> QED
      BY <1>6, <1>7, <3>1, <3>2, <3>5, <3>6
  <2>2. ASSUME NEW g \in Handles, NEW e \in DOMAIN devs',
               scanning'[g], hw'[g] = devs'[e].name
        PROVE  devs'[e].fd # NoFd
    <3>1. g # h /\ scanning[g]
      BY <1>8, <2>2
    <3>2. e \in DOMAIN devs /\ hw[g] = devs[e].name
      BY <1>1, <1>7, <2>2
    <3>3. e # d
      BY <1>3, <3>1, <3>2
    <3> QED
      BY <1>7, <3>1, <3>2, <3>3 DEF ListInv, Descriptors
  <2>3. ASSUME NEW i \in Slots', devices'[i].open
        PROVE  \/ devices'[i].name \in Aliens
               \/ \E e \in DOMAIN devs' : devs'[e].fd = i
    <3>1. i # k /\ i \in Slots /\ devices[i].open /\ devices'[i].name = devices[i].name
      BY <1>6, <2>3
    <3>2. ASSUME NEW e \in DOMAIN devs, devs[e].fd = i
          PROVE  \E f \in DOMAIN devs' : devs'[f].fd = i
      <4>1. e # d
        BY <3>1, <3>2 DEF k
      <4> QED
        BY <1>7, <3>2, <4>1
    <3> QED
      BY <3>1, <3>2 DEF ListInv, Descriptors
  <2> QED
    BY <2>1, <2>2, <2>3 DEF Descriptors
<1> QED
  BY <1>11, <1>12, <1>13 DEF ListInv

LEMMA SaneCloseKeeps ==
  ASSUME ListInv, BaseInv', NEW h \in Handles, SaneClose(h) PROVE ListInv'
<1> DEFINE name == hw[h]
           d == DevOf(name)
<1>1. /\ at = "up" /\ name # 0 /\ ~scanning[h] /\ hw' = [hw EXCEPT ![h] = 0]
      /\ UNCHANGED <<bus, config, at, section, usbDevs, scanning, failed>>
  BY DEF SaneClose
<1>2. d \in DOMAIN devs /\ devs[d].fd = NoFd
  BY <1>1, DeviceOf
<1>3. devices' = devices /\ devs' = [devs EXCEPT ![d].fd = NoFd]
  BY <1>2 DEF SaneClose, DrvClose
<1>4. /\ hw' \in [Handles -> Addresses \cup {0}] /\ hw'[h] = 0
      /\ \A g \in Handles : g # h => hw'[g] = hw[g]
  BY <1>1 DEF ListInv, BaseInv, Types
<1> HIDE DEF d
<1>5. /\ devs' \in Seq(Records) /\ DOMAIN devs' = DOMAIN devs
      /\ \A i \in DOMAIN devs : devs'[i].name = devs[i].name /\ devs'[i].id = devs[i].id
      /\ devs'[d].fd = NoFd
      /\ \A i \in DOMAIN devs : i # d => devs'[i].fd = devs[i].fd
      /\ Attached' = Attached
  <2>1. NoFd \in 0 .. MaxDevices
    BY UsbTableAssumption DEF NoFd
  <2> QED
    BY <1>2, <1>3, <2>1, FdChanged DEF ListInv, BaseInv, Types
<1>6. \A i \in DOMAIN devs : devs'[i].fd = devs[i].fd
  BY <1>2, <1>5
<1>9. Own'
  BY <1>4 DEF ListInv, Own
<1>10. Descriptors'
  <2>1. \A g \in Handles : scanning[g] => g # h
    BY <1>1
  <2> QED
    BY <1>1, <1>3, <1>4, <1>5, <1>6, <2>1 DEF ListInv, Descriptors, Slots
<1>11. Listed'
  BY <1>1, <1>3, <1>5, SameListed DEF ListInv, BaseInv, Slots
<1> QED
  BY <1>9, <1>10, <1>11 DEF ListInv

\* Attaching leaves the descriptors in order.
LEMMA AttachDescriptors ==
  ASSUME ListInv, NEW sec, Attach(sec), UNCHANGED scanning,
         \A h \in Handles : scanning[h] => hw'[h] = hw[h]
  PROVE  Descriptors'
<1> DEFINE i == Chosen(sec)
           name == usbDevs[i].name
<1>0. IsTable(devices) /\ Descriptors
  BY DEF ListInv, BaseInv, Types
<1>1. CASE UNCHANGED <<devices, usbDevs, devs, failed>>
  <2>3. ASSUME NEW h \in Handles, NEW x
        PROVE  scanning[h] /\ hw[h] = x <=> scanning'[h] /\ hw'[h] = x
    OBVIOUS
  <2> QED
    BY <1>0, <1>1, <2>3 DEF Descriptors, Slots
<1>2. CASE /\ EntriesFor(sec) # {} /\ usbDevs' = Marked(i)
           /\ \/ AttachGood(sec, i)
              \/ AttachFails(sec, i)
              \/ AttachAlien(sec, i)
  <2>1. name \notin Attached
    BY <1>2, ChosenIs DEF ListInv
  <2>4. \A h \in Handles : scanning[h] => hw'[h] = hw[h] /\ hw[h] \in Attached
    BY DEF ListInv, BaseInv, Held
  <2> HIDE DEF i
  <2>6. CASE AttachGood(sec, i)
    <3>1. /\ DOMAIN devs' = {1} \cup {e + 1 : e \in DOMAIN devs}
          /\ devs'[1].name = name
          /\ devs'[1].fd = NoFd
          /\ \A e \in DOMAIN devs : devs'[e + 1] = devs[e]
      BY <1>2, <2>6, GoodIs DEF i, ListInv
    <3>2. devices' = devices
      BY <2>6 DEF AttachGood
    <3>6. Descriptors'
      <4>1. ASSUME NEW d \in DOMAIN devs', devs'[d].fd # NoFd
            PROVE  /\ devs'[d].fd \in Slots'
                   /\ devices'[devs'[d].fd].open
                   /\ devices'[devs'[d].fd].name = devs'[d].name
                   /\ \E h \in Handles : scanning'[h] /\ hw'[h] = devs'[d].name
        <5>1. PICK e \in DOMAIN devs : d = e + 1
          BY <3>1, <4>1
        <5>2. devs'[d] = devs[e]
          BY <3>1, <5>1
        <5>3. /\ devs[e].fd \in Slots
              /\ devices[devs[e].fd].open /\ devices[devs[e].fd].name = devs[e].name
              /\ \E h \in Handles : scanning[h] /\ hw[h] = devs[e].name
          BY <1>0, <4>1, <5>2 DEF Descriptors
        <5>4. \E h \in Handles : scanning'[h] /\ hw'[h] = devs[e].name
          BY <5>3
        <5> QED
          BY <3>2, <5>2, <5>3, <5>4 DEF Slots
      <4>2. ASSUME NEW h \in Handles, NEW d \in DOMAIN devs',
                   scanning'[h], hw'[h] = devs'[d].name
            PROVE  devs'[d].fd # NoFd
        <5>1. hw[h] \in Attached /\ hw[h] = devs'[d].name /\ scanning[h]
          BY <2>4, <4>2
        <5>2. d # 1
          BY <2>1, <3>1, <5>1
        <5>3. PICK e \in DOMAIN devs : d = e + 1
          BY <3>1, <5>2
        <5>4. devs'[d] = devs[e]
          BY <3>1, <5>3
        <5> QED
          BY <1>0, <5>1, <5>4 DEF Descriptors
      <4>3. ASSUME NEW k \in Slots', devices'[k].open
            PROVE  \/ devices'[k].name \in Aliens
                   \/ \E d \in DOMAIN devs' : devs'[d].fd = k
        <5>1. k \in Slots /\ devices[k].open /\ devices'[k] = devices[k]
          BY <3>2, <4>3 DEF Slots
        <5>2. ASSUME NEW e \in DOMAIN devs, devs[e].fd = k
              PROVE  \E d \in DOMAIN devs' : devs'[d].fd = k
          <6>1. e + 1 \in DOMAIN devs' /\ devs'[e + 1] = devs[e]
            BY <3>1
          <6> QED
            BY <5>2, <6>1
        <5> QED
          BY <1>0, <5>1, <5>2 DEF Descriptors
      <4> QED
        BY <4>1, <4>2, <4>3 DEF Descriptors
    <3> QED
      BY <3>6
  <2>7. CASE devs' = devs
    <3>3. CASE AttachFails(sec, i)
      <4>1. devices' = devices
        BY <3>3 DEF AttachFails
      <4>4. ASSUME NEW h \in Handles, NEW x
            PROVE  scanning[h] /\ hw[h] = x <=> scanning'[h] /\ hw'[h] = x
        OBVIOUS
      <4> QED
        BY <1>0, <2>7, <4>1, <4>4 DEF Descriptors, Slots
    <3>4. CASE AttachAlien(sec, i)
      <4> DEFINE k == Lowest(SlotsOf(name))
      <4>1. /\ CanOpen(name) /\ name \in Aliens
            /\ devices' = [devices EXCEPT ![k].open = TRUE]
        BY <3>4 DEF AttachAlien, Opened
      <4>2. k \in Slots /\ devices[k].name = name
        BY <1>0, <4>1, SlotOfIs DEF CanOpen
      <4>3. /\ Slots' = Slots
            /\ \A s \in Slots : devices'[s].name = devices[s].name
            /\ devices'[k].open
            /\ \A s \in Slots : s # k => devices'[s].open = devices[s].open
        <5> DEFINE yes == TRUE
        <5>1. yes \in BOOLEAN /\ devices' = [devices EXCEPT ![k].open = yes]
          BY <4>1
        <5>2. yes
          OBVIOUS
        <5> HIDE DEF yes, k
        <5>3. /\ Slots' = Slots
              /\ \A s \in Slots : devices'[s].name = devices[s].name
              /\ devices'[k].open = yes
              /\ \A s \in Slots : s # k => devices'[s].open = devices[s].open
          BY <1>0, <4>2, <5>1, SlotChanged
        <5> QED
          BY <5>2, <5>3
      <4> HIDE DEF k
      <4>4. \A s \in Slots : devices[s].open => devices'[s].open
        BY <4>2, <4>3
      <4>5. ASSUME NEW h \in Handles, NEW x
            PROVE  scanning[h] /\ hw[h] = x <=> scanning'[h] /\ hw'[h] = x
        OBVIOUS
      <4>6. ASSUME NEW d \in DOMAIN devs', devs'[d].fd # NoFd
            PROVE  /\ devs'[d].fd \in Slots'
                   /\ devices'[devs'[d].fd].open
                   /\ devices'[devs'[d].fd].name = devs'[d].name
                   /\ \E h \in Handles : scanning'[h] /\ hw'[h] = devs'[d].name
        <5>1. /\ devs[d].fd \in Slots
              /\ devices[devs[d].fd].open /\ devices[devs[d].fd].name = devs[d].name
              /\ \E h \in Handles : scanning[h] /\ hw[h] = devs[d].name
          BY <1>0, <2>7, <4>6 DEF Descriptors
        <5>2. \E h \in Handles : scanning'[h] /\ hw'[h] = devs[d].name
          BY <4>5, <5>1
        <5> QED
          BY <2>7, <4>3, <4>4, <5>1, <5>2
      <4>7. ASSUME NEW h \in Handles, NEW d \in DOMAIN devs',
                   scanning'[h], hw'[h] = devs'[d].name
            PROVE  devs'[d].fd # NoFd
        BY <1>0, <2>7, <4>5, <4>7 DEF Descriptors
      <4>8. ASSUME NEW s \in Slots', devices'[s].open
            PROVE  \/ devices'[s].name \in Aliens
                   \/ \E d \in DOMAIN devs' : devs'[d].fd = s
        <5>1. CASE s = k
          BY <4>1, <4>2, <4>3, <5>1
        <5>2. CASE s # k
          <6>1. s \in Slots /\ devices[s].open /\ devices'[s].name = devices[s].name
            BY <4>3, <4>8, <5>2
          <6> QED
            BY <1>0, <2>7, <6>1 DEF Descriptors
        <5> QED
          BY <5>1, <5>2
      <4> QED
        BY <4>6, <4>7, <4>8 DEF Descriptors
    <3>5. CASE AttachGood(sec, i)
      BY <2>6, <3>5
    <3> QED
      BY <1>2, <3>3, <3>4, <3>5
  <2> QED
    BY <1>2, <2>6, <2>7 DEF AttachFails, AttachAlien
<1> QED
  BY <1>1, <1>2, AttachKinds DEF ListInv
\* A device that is there, is known and is not in use can be opened.
LEMMA Opens ==
  ASSUME ListInv, Found, AllThere, NEW j \in DOMAIN usbDevs,
         usbDevs[j].name \in bus \ Aliens, usbDevs[j].name \notin Attached
  PROVE  CanOpen(usbDevs[j].name)
<1> DEFINE name == usbDevs[j].name
           k == Lowest(SlotsOf(name))
<1>1. SlotsOf(name) # {}
  BY DEF AllThere, SlotsOf
<1>2. k \in Slots /\ devices[k].name = name
  BY <1>1, SlotOfIs DEF ListInv, BaseInv, Types
<1> HIDE DEF k
<1>3. ~devices[k].open
  <2> SUFFICES ASSUME devices[k].open PROVE FALSE
    OBVIOUS
  <2>1. PICK d \in DOMAIN devs : devs[d].fd = k
    BY <1>2 DEF ListInv, Descriptors
  <2>2. k # NoFd
    BY <1>2, TableFacts DEF ListInv, BaseInv, Types, Slots, NoFd
  <2>3. devs[d].name = name
    BY <1>2, <2>1, <2>2 DEF ListInv, Descriptors
  <2> QED
    BY <2>3 DEF Attached
<1> QED
  BY <1>1, <1>3 DEF CanOpen, k

\* What attach takes, it attaches, when nothing fails.
LEMMA AttachListed ==
  ASSUME ListInv, NEW sec, Attach(sec), UNCHANGED bus, sec.model = "any",
         Found, AllListed, AllThere, AllTaken, ~failed'
  PROVE  Found' /\ AllListed' /\ AllThere' /\ AllTaken'
<1> DEFINE i == Chosen(sec)
           name == usbDevs[i].name
<1>1. CASE UNCHANGED <<devices, usbDevs, devs, failed>>
  BY <1>1 DEF Found, AllListed, AllThere, AllTaken, Attached, Slots
<1>2. CASE /\ EntriesFor(sec) # {} /\ usbDevs' = Marked(i)
           /\ \/ AttachGood(sec, i)
              \/ AttachFails(sec, i)
              \/ AttachAlien(sec, i)
  <2>1. i \in DOMAIN usbDevs /\ name \notin Attached
    BY <1>2, ChosenIs DEF ListInv
  <2>2. /\ DOMAIN usbDevs' = DOMAIN usbDevs
        /\ \A j \in DOMAIN usbDevs : usbDevs'[j].name = usbDevs[j].name
        /\ \A j \in DOMAIN usbDevs : j # i => usbDevs'[j].attached = usbDevs[j].attached
    <3>1. usbDevs \in Seq(Listings)
      BY DEF ListInv, BaseInv, Types
    <3> HIDE DEF i
    <3> QED
      BY <1>2, <2>1, <3>1, MarkedIs
  <2>3. /\ Slots' = Slots
        /\ \A s \in Slots : /\ devices'[s].name = devices[s].name
                            /\ devices'[s].missing = devices[s].missing
    <3>1. CASE devices' = devices
      BY <3>1 DEF Slots
    <3>2. CASE AttachAlien(sec, i)
      <4> DEFINE k == Lowest(SlotsOf(name))
                 yes == TRUE
      <4>1. CanOpen(name) /\ devices' = [devices EXCEPT ![k].open = yes] /\ yes \in BOOLEAN
        BY <3>2 DEF AttachAlien, Opened
      <4>2. k \in Slots
        BY <4>1, SlotOfIs DEF CanOpen, ListInv, BaseInv, Types
      <4> HIDE DEF k, yes
      <4> QED
        BY <4>1, <4>2, SlotChanged DEF ListInv, BaseInv, Types
    <3> QED
      BY <1>2, <3>1, <3>2 DEF AttachGood, AttachFails
  <2>4. Attached \subseteq Attached' /\ (name \in bus \ Aliens => name \in Attached')
    <3>1. CASE AttachGood(sec, i)
      BY <1>2, <3>1, GoodIs DEF ListInv
    <3>2. CASE AttachFails(sec, i)
      <4>1. name \notin bus \ Aliens
        <5> SUFFICES ASSUME name \in bus \ Aliens PROVE FALSE
          OBVIOUS
        <5>1. CanOpen(name)
          <6> HIDE DEF i
          <6> QED
            BY <2>1, Opens
        <5>2. Fits(sec, name)
          BY DEF Fits
        <5> QED
          BY <3>2, <5>1, <5>2 DEF AttachFails
      <4>2. Attached' = Attached
        BY <3>2 DEF AttachFails, Attached
      <4> QED
        BY <4>1, <4>2
    <3>3. CASE AttachAlien(sec, i)
      BY <3>3 DEF AttachAlien, Attached
    <3> QED
      BY <1>2, <3>1, <3>2, <3>3
  <2> HIDE DEF i
  <2>5. Found'
    BY <2>3 DEF Found
  <2>6. AllListed'
    BY <2>2, <2>3 DEF AllListed
  <2>7. AllThere'
    BY <2>2, <2>3 DEF AllThere
  <2>8. AllTaken'
    <3> SUFFICES ASSUME NEW j \in DOMAIN usbDevs, usbDevs'[j].attached,
                        usbDevs[j].name \in bus \ Aliens
                 PROVE  usbDevs[j].name \in Attached'
      BY <2>2 DEF AllTaken
    <3>1. CASE j = i
      BY <2>4, <3>1
    <3>2. CASE j # i
      <4>1. usbDevs[j].attached
        BY <2>2, <3>2
      <4> QED
        BY <2>4, <4>1 DEF AllTaken
    <3> QED
      BY <3>1, <3>2
  <2> QED
    BY <2>5, <2>6, <2>7, <2>8
<1> QED
  BY <1>1, <1>2, AttachKinds DEF ListInv

LEMMA AttachSectionKeeps == ASSUME ListInv, BaseInv', AttachSection PROVE ListInv'
<1>0. /\ at = "init" /\ UNCHANGED <<bus, config, hw, scanning>>
      /\ \A h \in Handles : hw[h] = 0 /\ ~scanning[h]
  BY DEF AttachSection, ListInv, BaseInv, Held, handles
<1>1. Len(config) \in Nat /\ DOMAIN config = 1 .. Len(config) /\ section \in Nat
  BY ConfigFacts DEF ListInv, BaseInv, Types
<1>2. CASE section > Len(config)
  <2>1. at' = "up" /\ section' = 0 /\ UNCHANGED <<devices, usbDevs, devs, failed>>
    BY <1>1, <1>2 DEF AttachSection, lists
  <2>4. Own'
    BY <1>0 DEF ListInv, Own
  <2>5. Descriptors'
    BY <1>0, <2>1 DEF ListInv, Descriptors, Slots
  <2>6. Listed'
    <3> SUFFICES ASSUME Enough', ~failed'
                 PROVE  Found' /\ AllListed' /\ AllThere' /\ AllTaken' /\ Left'
      BY DEF Listed
    <3>1. Enough /\ ~failed
      BY <1>0, <2>1 DEF Enough
    <3>2. Found /\ AllListed /\ AllThere /\ AllTaken /\ Left
      BY <1>0, <3>1 DEF ListInv, Listed
    <3>3. Found' /\ AllListed' /\ AllThere' /\ AllTaken'
      BY <1>0, <2>1, <3>2 DEF Found, AllListed, AllThere, AllTaken, Attached, Slots
    <3>4. Autos(section) = {}
      BY <1>1, <1>2 DEF Autos
    <3>5. Cardinality(Unmarked) <= 0
      BY <1>0, <3>2, <3>4, FS_EmptySet DEF Left
    <3>6. IsFiniteSet(Unmarked)
      <4>1. Len(usbDevs) \in Nat /\ DOMAIN usbDevs = 1 .. Len(usbDevs)
        BY SeqFacts DEF ListInv, BaseInv, Types
      <4>2. IsFiniteSet(1 .. Len(usbDevs))
        BY <4>1, FS_Interval
      <4> QED
        BY <4>1, <4>2, FS_Subset DEF Unmarked
    <3>7. Unmarked = {}
      <4>1. Cardinality(Unmarked) = 0
        BY <3>5, <3>6, FS_CardinalityType
      <4> QED
        BY <3>6, <4>1, FS_EmptySet
    <3>8. Left'
      BY <2>1, <3>7 DEF Left, Unmarked
    <3> QED
      BY <3>3, <3>8
  <2> QED
    BY <2>4, <2>5, <2>6 DEF ListInv
<1>3. CASE section <= Len(config)
  <2> DEFINE sec == config[section]
  <2>1. Attach(sec) /\ section' = section + 1 /\ at' = "init"
    BY <1>0, <1>3 DEF AttachSection
  <2> HIDE DEF sec
  <2>2. (failed => failed') /\ Len(usbDevs') = Len(usbDevs)
    BY <2>1, AttachBase DEF ListInv
  <2>3. Own'
    BY <1>0 DEF ListInv, Own
  <2>4. Descriptors'
    BY <1>0, <2>1, AttachDescriptors
  <2>5. Listed'
    <3> SUFFICES ASSUME Enough', ~failed'
                 PROVE  Found' /\ AllListed' /\ AllThere' /\ AllTaken' /\ Left'
      BY DEF Listed
    <3>1. Enough /\ ~failed
      BY <1>0, <2>2 DEF Enough
    <3>2. Found /\ AllListed /\ AllThere /\ AllTaken /\ Left
      BY <1>0, <3>1 DEF ListInv, Listed
    <3>3. section \in DOMAIN config /\ section \in 1 .. Len(config)
      BY <1>0, <1>1, <1>3, <3>2 DEF Left
    <3>4. sec.model = "any"
      BY <3>1, <3>3 DEF Enough, sec
    <3>5. Found' /\ AllListed' /\ AllThere' /\ AllTaken'
      BY <1>0, <2>1, <3>2, <3>4, AttachListed
    <3>6. Cardinality(Unmarked') <= Cardinality(Autos(section + 1))
      <4>1. IsFiniteSet(Autos(section)) /\ IsFiniteSet(Autos(section + 1))
        <5>1. IsFiniteSet(section .. Len(config)) /\ IsFiniteSet(section + 1 .. Len(config))
          BY <1>1, FS_Interval
        <5>2. Autos(section) \subseteq section .. Len(config)
              /\ Autos(section + 1) \subseteq section + 1 .. Len(config)
          BY DEF Autos
        <5> QED
          BY <5>1, <5>2, FS_Subset
      <4>2. /\ IsFiniteSet(Unmarked) /\ Unmarked' \subseteq Unmarked
            /\ sec.device = AutoName /\ Unmarked # {} =>
                  Cardinality(Unmarked') = Cardinality(Unmarked) - 1
        BY <2>1, AttachCounts DEF ListInv
      <4>3. Cardinality(Unmarked') <= Cardinality(Unmarked) /\ Cardinality(Unmarked) \in Nat
            /\ Cardinality(Unmarked') \in Nat
        BY <4>2, FS_Subset, FS_CardinalityType
      <4>4. Cardinality(Unmarked) <= Cardinality(Autos(section))
        BY <1>0, <3>2 DEF Left
      <4>5. Cardinality(Autos(section)) \in Nat /\ Cardinality(Autos(section + 1)) \in Nat
        BY <4>1, FS_CardinalityType
      <4>6. CASE sec.device # AutoName
        <5>1. Autos(section + 1) = Autos(section)
          BY <1>1, <3>3, <4>6 DEF Autos, sec
        <5> QED
          BY <4>3, <4>4, <4>5, <5>1
      <4>7. CASE sec.device = AutoName /\ Unmarked = {}
        <5>1. Unmarked' = {}
          BY <4>2, <4>7
        <5> QED
          BY <4>5, <5>1, FS_EmptySet
      <4>8. CASE sec.device = AutoName /\ Unmarked # {}
        <5>1. Autos(section + 1) = Autos(section) \ {section} /\ section \in Autos(section)
          BY <1>1, <3>3, <4>8 DEF Autos, sec
        <5>2. Cardinality(Autos(section) \ {section}) = Cardinality(Autos(section)) - 1
          BY <4>1, <5>1, FS_RemoveElement
        <5>3. Cardinality(Unmarked') = Cardinality(Unmarked) - 1
          BY <4>2, <4>8
        <5>4. Cardinality(Autos(section + 1)) = Cardinality(Autos(section)) - 1
          BY <5>1, <5>2
        <5> DEFINE u == Cardinality(Unmarked)
                   v == Cardinality(Unmarked')
                   a == Cardinality(Autos(section))
                   b == Cardinality(Autos(section + 1))
        <5>5. u \in Nat /\ a \in Nat /\ u <= a /\ b = a - 1 /\ v = u - 1
          BY <4>3, <4>4, <4>5, <5>3, <5>4
        <5> HIDE DEF u, v, a, b
        <5>6. v <= b
          BY <5>5
        <5> QED
          BY <5>6 DEF v, b
      <4> QED
        BY <4>6, <4>7, <4>8
    <3>7. Autos(section)' = Autos(section + 1)
      BY <1>0, <2>1 DEF Autos
    <3>8. section' \in 1 .. Len(config') + 1
      BY <1>0, <1>1, <2>1, <3>3
    <3>9. Left'
      BY <2>1, <3>6, <3>7, <3>8 DEF Left
    <3> QED
      BY <3>5, <3>9
  <2> QED
    BY <2>3, <2>4, <2>5 DEF ListInv
<1> QED
  BY <1>1, <1>2, <1>3

LEMMA SaneOpenAutoKeeps ==
  ASSUME ListInv, BaseInv', NEW h \in Handles, SaneOpenAuto(h) PROVE ListInv'
<1> DEFINE sec == [model |-> "any", device |-> AutoName]
<1>1. /\ at = "up" /\ hw[h] = 0 /\ Attach(sec)
      /\ UNCHANGED <<bus, config, at, section, scanning>>
  BY DEF SaneOpenAuto
<1>2. sec.model = "any"
  OBVIOUS
<1> HIDE DEF sec
<1>3. \A g \in Handles : scanning[g] => hw'[g] = hw[g]
  BY SaneOpenAutoBase DEF ListInv
<1>4. (failed => failed') /\ Len(usbDevs') = Len(usbDevs)
  BY <1>1, AttachBase DEF ListInv
<1>5. Own'
  <2>1. CASE hw' = hw
    BY <2>1 DEF ListInv, Own
  <2>2. ASSUME NEW a \in Addresses, hw' = [hw EXCEPT ![h] = a], a \notin Attached PROVE Own'
    <3>1. \A g \in Handles : hw[g] # 0 => hw[g] \in Attached
      BY DEF ListInv, BaseInv, Held
    <3>2. a # 0
      BY DEF Addresses
    <3>3. hw \in [Handles -> Addresses \cup {0}]
      BY DEF ListInv, BaseInv, Types
    <3>4. hw'[h] = a /\ \A g \in Handles : g # h => hw'[g] = hw[g] /\ hw[g] # a
      BY <2>2, <3>1, <3>2, <3>3
    <3> QED
      BY <3>4 DEF ListInv, Own
  <2> QED
    BY <2>1, <2>2, AutoOpens DEF ListInv
<1>10. Descriptors'
  BY <1>1, <1>3, AttachDescriptors
<1>11. Listed'
  <2> SUFFICES ASSUME Enough', ~failed'
               PROVE  Found' /\ AllListed' /\ AllThere' /\ AllTaken' /\ Left'
    BY DEF Listed
  <2>1. Enough /\ ~failed
    BY <1>1, <1>4 DEF Enough
  <2>2. Found /\ AllListed /\ AllThere /\ AllTaken /\ Left
    BY <1>1, <2>1 DEF ListInv, Listed
  <2>3. Found' /\ AllListed' /\ AllThere' /\ AllTaken'
    BY <1>1, <1>2, <2>2, AttachListed
  <2>4. Unmarked' \subseteq Unmarked
    BY <1>1, AttachCounts DEF ListInv
  <2>5. Unmarked = {}
    BY <1>1, <2>2 DEF Left
  <2>6. Left'
    BY <1>1, <2>4, <2>5 DEF Left
  <2> QED
    BY <2>3, <2>6
<1> QED
  BY <1>5, <1>10, <1>11 DEF ListInv

LEMMA StutterKeeps == ASSUME ListInv, BaseInv', UNCHANGED vars PROVE ListInv'
<1>1. UNCHANGED <<bus, devices, config, at, section, usbDevs, devs, hw, scanning, failed>>
  BY DEF vars, usbVars, lists, handles
<1>2. Own'
  BY <1>1 DEF ListInv, Own
<1>3. Descriptors'
  BY <1>1 DEF ListInv, Descriptors, Slots
<1>4. Listed'
  BY <1>1, SameListed DEF ListInv, BaseInv, Attached, Slots
<1> QED
  BY <1>2, <1>3, <1>4 DEF ListInv

\* The lists, the table and the handles fit, whether devices are shared or not.
THEOREM BaseInvariant == Spec => []BaseInv
<1>1. Init => BaseInv
  BY InitList DEF ListInv
<1> QED
  BY <1>1, BaseStep, PTL DEF Spec

\* With a device of its own for each handle, every descriptor is accounted for and
\* every scanner is listed: ListInv holds of every state.
THEOREM ListInvariant == ASSUME ~Shared PROVE Spec => []ListInv
<1>1. Init => ListInv
  BY InitList
<1>2. ListInv /\ [Next]_vars => ListInv'
  <2> SUFFICES ASSUME ListInv, [Next]_vars PROVE ListInv'
    OBVIOUS
  <2>0. BaseInv'
    BY BaseStep DEF ListInv
  <2>1. CASE Plug
    BY <2>0, <2>1, PlugKeeps
  <2>2. CASE SaneInit
    BY <2>0, <2>2, SaneInitKeeps
  <2>3. CASE AttachSection
    BY <2>0, <2>3, AttachSectionKeeps
  <2>4. CASE SaneExit
    BY <2>0, <2>4, SaneExitKeeps
  <2>5. ASSUME NEW h \in Handles, SaneOpen(h) PROVE ListInv'
    BY <2>0, <2>5, SaneOpenKeeps
  <2>6. ASSUME NEW h \in Handles, SaneOpenAuto(h) PROVE ListInv'
    BY <2>0, <2>6, SaneOpenAutoKeeps
  <2>7. ASSUME NEW h \in Handles, SaneStart(h) PROVE ListInv'
    BY <2>0, <2>7, SaneStartKeeps
  <2>8. ASSUME NEW h \in Handles, EndScan(h) PROVE ListInv'
    BY <2>0, <2>8, EndScanKeeps
  <2>9. ASSUME NEW h \in Handles, SaneClose(h) PROVE ListInv'
    BY <2>0, <2>9, SaneCloseKeeps
  <2>10. CASE UNCHANGED vars
    BY <2>0, <2>10, StutterKeeps
  <2> QED
    BY <2>1, <2>2, <2>3, <2>4, <2>5, <2>6, <2>7, <2>8, <2>9, <2>10 DEF Next
<1> QED
  BY <1>1, <1>2, PTL DEF Spec

\* A slot of the table is open if and only if a handle scans with it, whatever
\* failed before, but for a device of an unknown board.
THEOREM SlotsAlwaysAccounted == ASSUME ~Shared PROVE Spec => []SlotsAccounted
<1>1. ListInv => SlotsAccounted
  <2> SUFFICES ASSUME ListInv PROVE SlotsAccounted
    OBVIOUS
  <2>1. ASSUME NEW h \in Handles, scanning[h]
        PROVE  LET fd == devs[DevOf(hw[h])].fd
               IN  fd \in Slots /\ devices[fd].open /\ devices[fd].name = hw[h]
    <3> DEFINE d == DevOf(hw[h])
    <3>1. hw[h] # 0
      BY <2>1 DEF ListInv, BaseInv, Held
    <3>2. d \in DOMAIN devs /\ devs[d].name = hw[h]
      BY <3>1, DeviceOf
    <3> HIDE DEF d
    <3>3. /\ devs[d].fd \in Slots /\ devices[devs[d].fd].open
          /\ devices[devs[d].fd].name = hw[h]
      BY <2>1, <3>2 DEF ListInv, Descriptors
    <3> QED
      BY <3>3 DEF d
  <2>2. ASSUME NEW i \in Slots, devices[i].open, devices[i].name \notin Aliens
        PROVE  \E h \in Handles : scanning[h] /\ devs[DevOf(hw[h])].fd = i
    <3>1. PICK d \in DOMAIN devs : devs[d].fd = i
      BY <2>2 DEF ListInv, Descriptors
    <3>2. i # NoFd
      BY TableFacts DEF ListInv, BaseInv, Types, Slots, NoFd
    <3>3. PICK h \in Handles : scanning[h] /\ hw[h] = devs[d].name
      BY <3>1, <3>2 DEF ListInv, Descriptors
    <3>4. DevOf(hw[h]) \in DOMAIN devs /\ devs[DevOf(hw[h])].name = hw[h]
      BY <3>3, DevOfIs DEF Attached
    <3>5. DevOf(hw[h]) = d
      BY <3>3, <3>4 DEF ListInv, BaseInv, Names
    <3> QED
      BY <3>1, <3>3, <3>5
  <2> QED
    BY <2>1, <2>2 DEF SlotsAccounted
<1> QED
  BY <1>1, ListInvariant, PTL

\* No scanner is ever in the list twice, and each fits its section.
THEOREM AlwaysOneDevicePerScanner == Spec => []OneDevicePerScanner
<1>1. BaseInv => OneDevicePerScanner
  BY DEF BaseInv, Names, OneDevicePerScanner
<1> QED
  BY <1>1, BaseInvariant, PTL

\* When nothing failed and there are sections enough, every scanner that is
\* plugged in and supported is attached, whatever the table has of earlier times.
THEOREM NoneEverLeftOut == ASSUME ~Shared PROVE Spec => []NoneLeftOut
<1>1. ListInv => NoneLeftOut
  <2> SUFFICES ASSUME ListInv, at = "up", ~failed, Enough,
                      NEW i \in Slots, devices[i].name \in bus,
                      Model[devices[i].name] \in ToSet(Settings),
                      devices[i].name \notin Aliens
               PROVE  devices[i].name \in Attached
    BY DEF NoneLeftOut, Enough
  <2>1. Found /\ AllListed /\ AllTaken /\ Left
    BY DEF ListInv, Listed
  <2>2. devices[i].missing = 0
    BY <2>1 DEF Found
  <2>3. PICK j \in DOMAIN usbDevs : usbDevs[j].name = devices[i].name
    BY <2>1, <2>2 DEF AllListed
  <2>4. usbDevs[j].attached
    BY <2>1 DEF Left, Unmarked
  <2> QED
    BY <2>1, <2>3, <2>4 DEF AllTaken
<1> QED
  BY <1>1, ListInvariant, PTL

=============================================================================
