---------------------------- MODULE PrepareProofs ----------------------------
(***************************************************************************)
(* Safety of Prepare for every size of the registers, every set of         *)
(* channels and devices and any number of scans.                           *)
(*                                                                         *)
(* The searches are bisections.  SearchInv says of each what makes one     *)
(* work: the setting stays in the bracket, the bracket in the register's   *)
(* range, and a setting that is fine stays strictly inside the bracket.    *)
(*                                                                         *)
(* FilesInv follows the two files: which lines are of which measurement,   *)
(* and which settings each was measured under, between the moment shading  *)
(* is saved and the moment the settings it was measured with are.          *)
(***************************************************************************)
EXTENDS Prepare, SequenceTheorems, WellFoundedInduction, TLAPS

Brackets == [lo : Int, cur : Int, hi : Int]

Within(b, low, high) ==
    low <= b.lo /\ b.lo <= b.cur /\ b.cur <= b.hi /\ b.hi <= high

\* A fine setting that the search of channel c has not lost.
Enclosed(c) ==
    \A x \in Low[search] + 1 .. High[search] - 1 :
        LevelAt(c, x) = "fine" => bracket[c].lo < x /\ x < bracket[c].hi

Pursued ==
    search # "none" /\ sensor = "steady" =>
        \A c \in Channels : Enclosed(c) \/ (search = "offset" /\ ~tweak[c])

SearchInv == SearchTypeOK /\ SettingsInRange /\ Pursued /\ SearchFinds
-----------------------------------------------------------------------------
(* One bracket.                                                            *)

LEMMA Ranges ==
    \A s \in Searches :
        /\ Low[s] \in Int /\ High[s] \in Int /\ First[s] \in Int
        /\ Low[s] <= First[s] /\ First[s] <= High[s]
  BY SearchAssumption DEF Searches, Low, High, First

LEMMA HalfBetween ==
  ASSUME NEW x \in Int, NEW y \in Int, x <= y
  PROVE  Half(x + y) \in Int /\ x <= Half(x + y) /\ Half(x + y) <= y
<1>1. CASE x + y >= 0
  BY <1>1 DEF Half
<1>2. CASE x + y < 0
  <2>1. Half(x + y) = -((-(x + y)) \div 2)
    BY <1>2 DEF Half
  <2>2. PICK k \in Int : k = -(x + y)
    OBVIOUS
  <2>3. k >= 0 /\ Half(x + y) = -(k \div 2)
    BY <1>2, <2>1, <2>2
  <2> QED
    BY <2>2, <2>3
<1> QED
  BY <1>1, <1>2

LEMMA Narrows ==
  ASSUME NEW b \in Brackets, NEW low \in Int, NEW high \in Int, Within(b, low, high)
  PROVE  /\ Raised(b) \in Brackets /\ Within(Raised(b), low, high)
         /\ Lowered(b) \in Brackets /\ Within(Lowered(b), low, high)
         /\ low >= 0 => LampRaised(b) \in Brackets /\ Within(LampRaised(b), low, high)
<1>1. b.lo \in Int /\ b.cur \in Int /\ b.hi \in Int
  BY DEF Brackets
<1>2. b.lo <= b.cur /\ b.cur <= b.hi
  BY DEF Within
<1>3. Half(b.cur + b.hi) \in Int /\ b.cur <= Half(b.cur + b.hi) /\ Half(b.cur + b.hi) <= b.hi
  BY <1>1, <1>2, HalfBetween
<1>4. Half(b.lo + b.cur) \in Int /\ b.lo <= Half(b.lo + b.cur) /\ Half(b.lo + b.cur) <= b.cur
  BY <1>1, <1>2, HalfBetween
<1>5. Raised(b) \in Brackets /\ Within(Raised(b), low, high)
  BY <1>1, <1>3 DEF Raised, Within, Brackets
<1>6. Lowered(b) \in Brackets /\ Within(Lowered(b), low, high)
  BY <1>1, <1>4 DEF Lowered, Within, Brackets
<1>7. ASSUME low >= 0
      PROVE  LampRaised(b) \in Brackets /\ Within(LampRaised(b), low, high)
  BY <1>1, <1>3, <1>7 DEF LampRaised, Lesser, Within, Brackets
<1> QED
  BY <1>5, <1>6, <1>7

LEMMA LampInside ==
  ASSUME NEW b \in Brackets, Within(b, LampLow, LampMax), NEW level \in Levels
  PROVE  ~Limited(b, level)
<1>1. LampLow \in Int /\ LampMax \in Int /\ LampLow >= 0
  BY SearchAssumption
<1>2. LampRaised(b) \in Brackets /\ Within(LampRaised(b), LampLow, LampMax)
  BY <1>1, Narrows
<1> QED
  BY <1>1, <1>2 DEF Limited, Within, Brackets
-----------------------------------------------------------------------------
(* The three searches.                                                     *)

LEMMA SearchInvInit == SearchInit => SearchInv
<1>1. Nothing \in Brackets /\ NoStretch \in [from : Int, to : Int]
  BY DEF Nothing, NoStretch, Brackets
<1>2. SearchInit => SearchTypeOK
  <2> SUFFICES ASSUME SearchInit PROVE SearchTypeOK
    OBVIOUS
  <2>1. bracket \in [Channels -> Brackets]
    BY <1>1 DEF SearchInit
  <2>2. fits \in [Channels -> [from : Int, to : Int]]
    BY <1>1 DEF SearchInit
  <2> QED
    BY <2>1, <2>2 DEF SearchInit, SearchTypeOK, Sensors, Brackets
<1> QED
  BY <1>2 DEF SearchInit, SearchInv, SettingsInRange, Pursued, SearchFinds

LEMMA ForgetSearchKeeps == ForgetSearch => SearchInv'
<1>1. Nothing \in Brackets /\ NoStretch \in [from : Int, to : Int]
  BY DEF Nothing, NoStretch, Brackets
<1>2. ForgetSearch => SearchTypeOK'
  <2> SUFFICES ASSUME ForgetSearch PROVE SearchTypeOK'
    OBVIOUS
  <2>1. bracket' \in [Channels -> Brackets]
    BY <1>1 DEF ForgetSearch
  <2>2. fits' \in [Channels -> [from : Int, to : Int]]
    BY <1>1 DEF ForgetSearch
  <2> QED
    BY <2>1, <2>2 DEF ForgetSearch, SearchTypeOK, Sensors, Brackets
<1> QED
  BY <1>2 DEF ForgetSearch, SearchInv, SettingsInRange, Pursued, SearchFinds

LEMMA SearchFrame == SearchInv /\ UNCHANGED searchVars => SearchInv'
  BY DEF searchVars, SearchInv, SearchTypeOK, SettingsInRange, Pursued, SearchFinds,
         Enclosed, LevelAt

LEMMA BeginSearchKeeps ==
  ASSUME SearchInv, NEW s \in Searches, NEW sensors \in SUBSET Sensors,
         BeginSearch(s, sensors)
  PROVE  SearchInv'
<1>1. fits' \in [Channels -> [from : Int, to : Int]]
  <2>1. Stretches(s) \subseteq [from : Int, to : Int]
    BY Ranges DEF Stretches
  <2> QED
    BY <2>1 DEF BeginSearch, SearchInv, SearchTypeOK
<1>2. SearchTypeOK'
  BY <1>1, Ranges DEF BeginSearch, SearchTypeOK
<1>3. SettingsInRange'
  BY Ranges DEF BeginSearch, SettingsInRange
<1>4. Pursued'
  BY Ranges DEF BeginSearch, Pursued, Enclosed
<1>5. SearchFinds'
  BY DEF BeginSearch, SearchFinds
<1> QED
  BY <1>2, <1>3, <1>4, <1>5 DEF SearchInv

\* What a round of a search knows of a channel before it.
LEMMA RoundBegins ==
  ASSUME SearchInv, running, search \in Searches, NEW level \in Readings, NEW c \in Channels
  PROVE  /\ bracket[c] \in Brackets /\ Within(bracket[c], Low[search], High[search])
         /\ level[c] \in Levels
         /\ sensor = "steady" => level[c] = LevelAt(c, bracket[c].cur)
<1>1. bracket[c] \in Brackets
  BY DEF SearchInv, SearchTypeOK, Brackets
<1>2. Within(bracket[c], Low[search], High[search])
  BY DEF SearchInv, SettingsInRange, Within, Searches
<1>3. level[c] \in Levels /\ level[c] \in Shown(c)
  BY DEF Readings
<1>4. sensor = "steady" => level[c] = LevelAt(c, bracket[c].cur)
  BY <1>3 DEF Shown
<1> QED
  BY <1>1, <1>2, <1>3, <1>4

\* What lies on the right side of a setting that is too dark or too bright.
LEMMA Bisects ==
  ASSUME SearchTypeOK, NEW c \in Channels, NEW x \in Int, LevelAt(c, x) = "fine"
  PROVE  /\ LevelAt(c, bracket[c].cur) = "dark" => bracket[c].cur < x
         /\ LevelAt(c, bracket[c].cur) = "bright" => x < bracket[c].cur
<1>1. fits[c].from \in Int /\ fits[c].to \in Int /\ bracket[c].cur \in Int
  BY DEF SearchTypeOK
<1> QED
  BY <1>1 DEF LevelAt

\* A channel keeps its bracket on "fine", and else drops the wrong half of it.
Halves(c, level) ==
    \/ level = "fine" /\ bracket'[c] = bracket[c]
    \/ level = "dark" /\ bracket'[c].lo = bracket[c].cur /\ bracket'[c].hi = bracket[c].hi
    \/ level = "bright" /\ bracket'[c].lo = bracket[c].lo /\ bracket'[c].hi = bracket[c].cur

\* A channel whose offset black pixels have lowered does not go by the level.
Stray(c) == search = "offset" /\ ~tweak'[c]

Over == search = "lamp" /\ rounds' > LampRounds

RoundOf(level) ==
    /\ running /\ search \in Searches
    /\ UNCHANGED <<search, sensor, fits>>
    /\ running' \in BOOLEAN /\ rounds' \in Nat
    /\ tweak' \in [Channels -> BOOLEAN]
    /\ bracket' \in [Channels -> Brackets]
    /\ \A c \in Channels :
          /\ Within(bracket'[c], Low[search], High[search])
          /\ tweak'[c] => tweak[c]
          /\ Stray(c) \/ Halves(c, level[c])
          /\ running' \/ Over \/ Stray(c) \/ level[c] = "fine" \/ Tight(bracket'[c])

\* What the three rounds have in common.
LEMMA RoundKeeps ==
  ASSUME SearchInv, NEW level \in Readings, RoundOf(level)
  PROVE  SearchInv'
<1>1. UNCHANGED <<search, sensor, fits>> /\ running /\ search \in Searches
  BY DEF RoundOf
<1>2. SearchTypeOK'
  BY <1>1 DEF RoundOf, Brackets, SearchInv, SearchTypeOK
<1>3. SettingsInRange'
  BY <1>1 DEF RoundOf, SettingsInRange, Within
<1>4. ASSUME sensor = "steady", NEW c \in Channels, ~Stray(c)
      PROVE  Enclosed(c)'
  <2> SUFFICES ASSUME NEW x \in Low[search] + 1 .. High[search] - 1, LevelAt(c, x) = "fine"
               PROVE  bracket'[c].lo < x /\ x < bracket'[c].hi
    BY <1>1 DEF Enclosed, LevelAt
  <2>1. Enclosed(c)
    BY <1>1, <1>4 DEF RoundOf, Stray, SearchInv, Pursued, Searches
  <2>2. level[c] = LevelAt(c, bracket[c].cur)
    BY <1>1, <1>4, RoundBegins
  <2>3. x \in Int
    BY <1>1, Ranges
  <2>4. bracket[c].lo < x /\ x < bracket[c].hi
    BY <2>1 DEF Enclosed
  <2>5. /\ level[c] = "dark" => bracket[c].cur < x
        /\ level[c] = "bright" => x < bracket[c].cur
    BY <2>2, <2>3, Bisects DEF SearchInv
  <2>6. Halves(c, level[c])
    BY <1>4 DEF RoundOf
  <2> QED
    BY <2>4, <2>5, <2>6 DEF Halves
<1>5. Pursued'
  BY <1>1, <1>4 DEF Pursued, Stray
<1>6. SearchFinds'
  <2> SUFFICES ASSUME sensor = "steady", ~running', NEW c \in Channels,
                      ~Over, ~Stray(c)
               PROVE  \/ LevelAt(c, bracket[c].cur)' = "fine"
                      \/ \A x \in Low[search] + 1 .. High[search] - 1 : LevelAt(c, x)' # "fine"
    BY <1>1 DEF SearchFinds, Over, Stray
  <2>1. Halves(c, level[c]) /\ (level[c] = "fine" \/ Tight(bracket'[c]))
    BY DEF RoundOf
  <2>2. CASE level[c] = "fine"
    <3>1. bracket'[c] = bracket[c]
      BY <2>1, <2>2 DEF Halves
    <3>2. level[c] = LevelAt(c, bracket[c].cur)
      BY <1>1, RoundBegins
    <3> QED
      BY <1>1, <2>2, <3>1, <3>2 DEF LevelAt
  <2>3. CASE Tight(bracket'[c])
    <3>1. Enclosed(c)'
      BY <1>4
    <3>2. Low[search] \in Int /\ High[search] \in Int /\ bracket'[c] \in Brackets
      BY <1>1, Ranges DEF RoundOf
    <3> QED
      BY <1>1, <2>3, <3>1, <3>2 DEF Enclosed, Tight, Brackets
  <2> QED
    BY <2>1, <2>2, <2>3
<1> QED
  BY <1>2, <1>3, <1>5, <1>6 DEF SearchInv

LEMMA RoundCounts ==
  ASSUME SearchInv, NEW again, Round(again)
  PROVE  rounds' \in Nat /\ running' \in BOOLEAN
  BY SearchAssumption DEF Round, Lesser, SearchInv, SearchTypeOK

LEMMA GainRoundKeeps ==
  ASSUME SearchInv, GainRound
  PROVE  SearchInv'
<1>1. PICK level \in Readings :
        /\ bracket' = [c \in Channels |-> GainAfter(bracket[c], level[c])]
        /\ Round({c \in Channels : level[c] # "fine" /\ ~Tight(bracket'[c])})
  BY DEF GainRound
<1>2. running /\ search \in Searches /\ tweak' = tweak /\ tweak \in [Channels -> BOOLEAN]
  BY <1>1 DEF Round, GainRound, Searches, SearchInv, SearchTypeOK
<1>3. ASSUME NEW c \in Channels
      PROVE  /\ bracket'[c] \in Brackets
             /\ Within(bracket'[c], Low[search], High[search])
             /\ Halves(c, level[c])
  <2>1. bracket'[c] = GainAfter(bracket[c], level[c]) /\ level[c] \in Levels
    BY <1>1, <1>2, RoundBegins
  <2>2. bracket[c] \in Brackets /\ Within(bracket[c], Low[search], High[search])
    BY <1>2, RoundBegins
  <2>3. Halves(c, level[c])
    BY <2>1 DEF GainAfter, Halves, Raised, Lowered, Levels
  <2> QED
    BY <1>2, <2>1, <2>2, <2>3, Narrows, Ranges DEF GainAfter, Levels
<1>4. bracket' \in [Channels -> Brackets]
  BY <1>1, <1>3
<1>5. RoundOf(level)
  BY <1>1, <1>2, <1>3, <1>4, RoundCounts DEF RoundOf, Round
<1> QED
  BY <1>5, RoundKeeps

LEMMA LampRoundKeeps ==
  ASSUME SearchInv, LampRound
  PROVE  SearchInv'
<1>1. search = "lamp" /\ search \in Searches /\ tweak' = tweak
      /\ tweak \in [Channels -> BOOLEAN] /\ rounds \in Nat
  BY DEF LampRound, Searches, SearchInv, SearchTypeOK
<1>2. PICK level \in Readings :
        /\ bracket' = [c \in Channels |-> LampAfter(bracket[c], level[c])]
        /\ LET limited == {c \in Channels : Limited(bracket[c], level[c])}
               more == {c \in Channels : level[c] # "fine" /\ ~Tight(bracket'[c])}
           IN  Round(IF limited = Channels \/ rounds >= LampRounds
                     THEN {} ELSE limited \cup more)
  BY DEF LampRound
<1>3. running
  BY <1>2 DEF Round
<1>4. ASSUME NEW c \in Channels
      PROVE  /\ bracket'[c] \in Brackets
             /\ Within(bracket'[c], Low[search], High[search])
             /\ Halves(c, level[c])
             /\ ~Limited(bracket[c], level[c])
  <2>1. bracket'[c] = LampAfter(bracket[c], level[c]) /\ level[c] \in Levels
    BY <1>1, <1>2, <1>3, RoundBegins
  <2>2. bracket[c] \in Brackets /\ Within(bracket[c], LampLow, LampMax)
        /\ Low[search] = LampLow /\ High[search] = LampMax
    BY <1>1, <1>3, RoundBegins DEF Low, High
  <2>3. ~Limited(bracket[c], level[c])
    BY <2>1, <2>2, LampInside
  <2>4. Halves(c, level[c])
    BY <2>1, <2>3 DEF LampAfter, Halves, LampRaised, Lowered, Levels
  <2>5. LampLow \in Int /\ LampMax \in Int /\ LampLow >= 0
    BY SearchAssumption
  <2> QED
    BY <2>1, <2>2, <2>3, <2>4, <2>5, Narrows DEF LampAfter, Levels
<1>5. bracket' \in [Channels -> Brackets]
  BY <1>2, <1>4
<1> DEFINE limited == {c \in Channels : Limited(bracket[c], level[c])}
           more == {c \in Channels : level[c] # "fine" /\ ~Tight(bracket'[c])}
           again == IF limited = Channels \/ rounds >= LampRounds THEN {} ELSE limited \cup more
<1>6. Round(again)
  BY <1>2
<1>7. rounds' \in Nat /\ running' \in BOOLEAN /\ UNCHANGED <<search, sensor, fits>>
  BY <1>6, RoundCounts DEF Round
<1>8. running' \/ Over \/ \A c \in Channels : level[c] = "fine" \/ Tight(bracket'[c])
  <2>1. CASE rounds >= LampRounds
    BY <1>1, <1>6, <2>1, SearchAssumption DEF Round, Lesser, Over
  <2>2. CASE ~(rounds >= LampRounds)
    <3>1. limited = {}
      BY <1>4
    <3>2. again = more \/ Channels = {}
      BY <2>2, <3>1
    <3> QED
      BY <1>6, <3>2 DEF Round
  <2> QED
    BY <2>1, <2>2
<1>9. RoundOf(level)
  BY <1>1, <1>3, <1>4, <1>5, <1>7, <1>8 DEF RoundOf
<1> QED
  BY <1>9, RoundKeeps

LEMMA OffsetRoundKeeps ==
  ASSUME SearchInv, OffsetRound
  PROVE  SearchInv'
<1>1. PICK level \in Readings, black \in SUBSET Channels :
        /\ bracket' = [c \in Channels |-> OffsetAfter(c, level[c], c \in black)]
        /\ tweak' = [c \in Channels |-> tweak[c] /\ ~ByZeros(c, level[c], c \in black)]
        /\ Round({c \in Channels :
                    /\ ByLevel(c, level[c]) \/ ByZeros(c, level[c], c \in black)
                    /\ ~Tight(bracket'[c])})
  BY DEF OffsetRound
<1>2. running /\ search = "offset" /\ search \in Searches /\ tweak \in [Channels -> BOOLEAN]
  BY <1>1 DEF Round, OffsetRound, Searches, SearchInv, SearchTypeOK
<1>3. tweak' \in [Channels -> BOOLEAN] /\ \A c \in Channels : tweak'[c] => tweak[c]
  BY <1>1, <1>2
<1>4. ASSUME NEW c \in Channels
      PROVE  /\ bracket'[c] \in Brackets
             /\ Within(bracket'[c], Low[search], High[search])
             /\ tweak'[c] => Halves(c, level[c])
             /\ tweak'[c] => (ByLevel(c, level[c]) <=> level[c] # "fine")
  <2>1. /\ bracket'[c] = OffsetAfter(c, level[c], c \in black)
        /\ tweak'[c] = (tweak[c] /\ ~ByZeros(c, level[c], c \in black))
    BY <1>1
  <2>2. /\ bracket[c] \in Brackets /\ Within(bracket[c], Low[search], High[search])
        /\ level[c] \in Levels
    BY <1>2, RoundBegins
  <2>3. bracket'[c] \in {bracket[c], Raised(bracket[c]), Lowered(bracket[c])}
    BY <2>1 DEF OffsetAfter
  <2>4. tweak'[c] => (ByLevel(c, level[c]) <=> level[c] # "fine")
    BY <1>2, <2>1 DEF ByLevel
  <2>5. tweak'[c] => Halves(c, level[c])
    <3> SUFFICES ASSUME tweak'[c] PROVE Halves(c, level[c])
      OBVIOUS
    <3>1. ~ByZeros(c, level[c], c \in black)
      BY <2>1
    <3>2. CASE level[c] = "fine"
      BY <2>1, <2>4, <3>1, <3>2 DEF OffsetAfter, Halves
    <3>3. CASE level[c] # "fine"
      BY <2>1, <2>2, <2>4, <3>1, <3>3 DEF OffsetAfter, Halves, Raised, Lowered, Levels
    <3> QED
      BY <3>2, <3>3
  <2> QED
    BY <1>2, <2>2, <2>3, <2>4, <2>5, Narrows, Ranges
<1>5. bracket' \in [Channels -> Brackets]
  BY <1>1, <1>4
<1>6. rounds' \in Nat /\ running' \in BOOLEAN /\ UNCHANGED <<search, sensor, fits>>
  BY <1>1, RoundCounts DEF Round
<1>7. running' \/ \A c \in Channels : Stray(c) \/ level[c] = "fine" \/ Tight(bracket'[c])
  BY <1>1, <1>2, <1>3, <1>4 DEF Round, Stray
<1>8. RoundOf(level)
  BY <1>2, <1>3, <1>4, <1>5, <1>6, <1>7 DEF RoundOf, Stray
<1> QED
  BY <1>8, RoundKeeps

LEMMA SearchRoundKeeps ==
  ASSUME SearchInv, SearchRound
  PROVE  SearchInv'
  BY GainRoundKeeps, LampRoundKeeps, OffsetRoundKeeps DEF SearchRound
-----------------------------------------------------------------------------
(* The searches as the preparation of a scan runs them.                    *)

SearchStep ==
    \/ \E s \in Searches, sensors \in SUBSET Sensors : BeginSearch(s, sensors)
    \/ SearchRound
    \/ ForgetSearch
    \/ UNCHANGED searchVars

LEMMA SearchStepKeeps ==
  ASSUME SearchInv, SearchStep
  PROVE  SearchInv'
  BY BeginSearchKeeps, SearchRoundKeeps, ForgetSearchKeeps, SearchFrame DEF SearchStep

LEMMA AdjustSearches ==
  ASSUME NEW from, NEW s \in Searches, NEW to, Adjust(from, s, to)
  PROVE  SearchStep
<1>1. SensorsNow \in SUBSET Sensors
  BY DEF SensorsNow, Sensors
<1> QED
  BY <1>1 DEF Adjust, SearchStep, EndSearch

LEMMA StepSearches == [Next]_vars => SearchStep
<1> SUFFICES ASSUME [Next]_vars PROVE SearchStep
  OBVIOUS
<1>1. CASE Begin
  BY <1>1 DEF Begin, SearchStep
<1>2. CASE Cancel
  BY <1>2 DEF Cancel, SearchStep
<1>3. CASE Killed
  BY <1>3 DEF Killed, SearchStep
<1>4. CASE UNCHANGED vars
  BY <1>4 DEF vars, SearchStep
<1>5. CASE \/ Adjust("lamp", "lamp", "black1") \/ Adjust("offset", "offset", "white2")
           \/ Adjust("gain", "gain", "file")
  BY <1>5, AdjustSearches DEF Searches
<1>6. CASE \/ PrepareWhite("white1", TRUE, "lamp") \/ PrepareWhite("white2", FALSE, "gain")
           \/ PrepareWhite("white3", FALSE, "move")
  BY <1>6 DEF PrepareWhite, SearchStep
<1>7. CASE PrepareBlack("black1", "offset") \/ PrepareBlack("black2", "dark")
  BY <1>7 DEF PrepareBlack, SearchStep
<1>8. CASE WaitForPaper \/ FromFile \/ MeasureDark \/ MoveToShading \/ MeasureWhite
  BY <1>8 DEF WaitForPaper, FromFile, MeasureDark, MoveToShading, MeasureWhite, SearchStep
<1>9. CASE FineSaved \/ NextDpi \/ Finish \/ CoarseSaved \/ Ready
  BY <1>9 DEF FineSaved, NextDpi, Finish, CoarseSaved, Ready, SearchStep
<1> QED
  BY <1>1, <1>2, <1>3, <1>4, <1>5, <1>6, <1>7, <1>8, <1>9 DEF Next, ReaderStep

LEMMA Searching == Spec => []SearchInv
<1>1. PrepareInit => SearchInv
  BY SearchInvInit DEF PrepareInit
<1>2. SearchInv /\ [Next]_vars => SearchInv'
  BY StepSearches, SearchStepKeeps
<1> QED
  BY <1>1, <1>2, PTL DEF Spec
-----------------------------------------------------------------------------
(* Where the sensor is and whether the lamp burns, point by point.         *)

OnWhite == strip = 1 /\ pos = "shading" /\ lamp = "on"

InDark ==
    IF device.darkStrip
    THEN strip = 0 /\ pos = "dark" /\ lamp = "on"
    ELSE strip = 2 /\ lamp = "off"

\* The paper of a sheet-fed device is not moved between measurements.
Fed == device.sheetFed => pos = "shading"

Places ==
    /\ at \in {"idle", "wait", "white1"} => strip = 0 /\ lamp = "on"
    /\ at \in {"lamp", "black1", "gain", "white", "saving", "next"} => OnWhite
    /\ at \in {"offset", "white2"} => InDark /\ (device.darkStrip \/ pos = "shading")
    /\ at = "file" => strip = 1 /\ lamp = "on" /\ (want.calibrate => OnWhite)
    /\ at = "black2" => strip \in {0, 1} /\ lamp = "on" /\ Fed
    /\ at \in {"dark", "white3"} => InDark /\ Fed
    /\ at = "move" => strip = 1 /\ lamp = "on" /\ Fed
    /\ at = "finish" => lamp = "on"
    /\ at \in {"saving2", "ready"} => lamp = "on" /\ (pos = "home" \/ device.sheetFed)

Placed ==
    /\ device \in Devices /\ strip \in {0, 1, 2}
    /\ search # "none" => at = search
    /\ ~unseen => Places

LEMMA PlacedInit == PrepareInit => Placed
  BY DEF PrepareInit, SearchInit, Placed, Places

LEMMA DeviceKinds ==
  ASSUME Placed
  PROVE  /\ device.sheetFed \in BOOLEAN /\ device.darkStrip \in BOOLEAN
         /\ ~(device.sheetFed /\ device.darkStrip)
  BY PrepareAssumption DEF Placed

LEMMA LeavesPlaced ==
  ASSUME Placed, Leaves, search' = "none"
  PROVE  Placed'
  BY DEF Placed, Places, Leaves

LEMMA PlacedStep == SearchInv /\ Placed /\ [Next]_vars => Placed'
<1> SUFFICES ASSUME SearchInv, Placed, [Next]_vars PROVE Placed'
  OBVIOUS
<1> USE DeviceKinds
<1>0. search \in Searches \cup {"none"}
  BY DEF SearchInv, SearchTypeOK
<1>1. CASE Begin
  BY <1>0, <1>1 DEF Begin, Known, Placed, Places, searchVars, Searches
<1>2. CASE Cancel
  BY <1>2 DEF Cancel, Placed, Places, searchVars, where, OnWhite, InDark, Fed
<1>3. CASE Killed
  BY <1>3, LeavesPlaced DEF Killed, Fails, ForgetSearch
<1>4. CASE UNCHANGED vars
  BY <1>4 DEF vars, Placed, Places, searchVars, where, OnWhite, InDark, Fed
<1>5. ASSUME NEW s \in Searches, NEW to, Adjust(s, s, to),
             <<s, to>> \in {<<"lamp", "black1">>, <<"offset", "white2">>, <<"gain", "file">>}
      PROVE  Placed'
  <2>1. CASE Fails /\ ForgetSearch
    BY <2>1, LeavesPlaced DEF Fails, ForgetSearch
  <2>2. CASE BeginSearch(s, SensorsNow) /\ Same /\ UNCHANGED <<at, where, unseen>> /\ at = s
    BY <2>2 DEF BeginSearch, Same, where, Placed, Places, OnWhite, InDark, Fed, Searches
  <2>3. CASE SearchRound /\ Same /\ UNCHANGED <<at, where, unseen>>
    BY <2>3 DEF SearchRound, GainRound, LampRound, OffsetRound, Round, Same, where,
                Placed, Places, OnWhite, InDark, Fed
  <2>4. CASE EndSearch /\ Same /\ UNCHANGED <<where, unseen>> /\ at = s /\ at' = to
    BY <1>5, <2>4 DEF EndSearch, ForgetSearch, Same, where, Placed, Places, OnWhite,
                InDark, Fed
  <2> QED
    BY <1>5, <2>1, <2>2, <2>3, <2>4 DEF Adjust, data
<1>6. CASE PrepareWhite("white1", TRUE, "lamp")
  <2>1. at = "white1" /\ search = "none" /\ search' = "none"
    BY <1>0, <1>6 DEF PrepareWhite, Placed, searchVars, Searches
  <2>2. CASE Fails
    BY <2>1, <2>2, LeavesPlaced DEF Fails
  <2>3. CASE /\ at' = "lamp" /\ Same /\ UNCHANGED unseen /\ strip' = 1
             /\ strip = 0 => pos' = (IF device.sheetFed /\ ~TRUE THEN pos ELSE "shading")
                            /\ UNCHANGED lamp
             /\ strip = 1 => UNCHANGED <<pos, lamp>>
             /\ strip = 2 => lamp' = "on" /\ UNCHANGED pos
    BY <2>1, <2>3 DEF Same, Placed, Places, OnWhite
  <2>4. CASE strip = 0 /\ ~Fails
    BY <1>6, <2>3, <2>4 DEF PrepareWhite, data
  <2>5. CASE strip = 1 /\ ~Fails
    BY <1>6, <2>3, <2>5 DEF PrepareWhite, data
  <2>6. CASE strip = 2 /\ ~Fails
    BY <1>6, <2>3, <2>6 DEF PrepareWhite, data
  <2> QED
    BY <2>2, <2>4, <2>5, <2>6 DEF Placed
<1>7. CASE PrepareWhite("white2", FALSE, "gain")
  <2>1. at = "white2" /\ search = "none" /\ search' = "none"
    BY <1>0, <1>7 DEF PrepareWhite, Placed, searchVars, Searches
  <2>2. CASE Fails
    BY <2>1, <2>2, LeavesPlaced DEF Fails
  <2>3. CASE /\ at' = "gain" /\ Same /\ UNCHANGED unseen /\ strip' = 1
             /\ strip = 0 => pos' = (IF device.sheetFed /\ ~FALSE THEN pos ELSE "shading")
                            /\ UNCHANGED lamp
             /\ strip = 1 => UNCHANGED <<pos, lamp>>
             /\ strip = 2 => lamp' = "on" /\ UNCHANGED pos
    BY <2>1, <2>3 DEF Same, Placed, Places, OnWhite, InDark
  <2>4. CASE strip = 0 /\ ~Fails
    BY <1>7, <2>3, <2>4 DEF PrepareWhite, data
  <2>5. CASE strip = 1 /\ ~Fails
    BY <1>7, <2>3, <2>5 DEF PrepareWhite, data
  <2>6. CASE strip = 2 /\ ~Fails
    BY <1>7, <2>3, <2>6 DEF PrepareWhite, data
  <2> QED
    BY <2>2, <2>4, <2>5, <2>6 DEF Placed
<1>8. CASE PrepareWhite("white3", FALSE, "move")
  <2>1. at = "white3" /\ search = "none" /\ search' = "none"
    BY <1>0, <1>8 DEF PrepareWhite, Placed, searchVars, Searches
  <2>2. CASE Fails
    BY <2>1, <2>2, LeavesPlaced DEF Fails
  <2>3. CASE /\ at' = "move" /\ Same /\ UNCHANGED unseen /\ strip' = 1
             /\ strip = 0 => pos' = (IF device.sheetFed /\ ~FALSE THEN pos ELSE "shading")
                            /\ UNCHANGED lamp
             /\ strip = 1 => UNCHANGED <<pos, lamp>>
             /\ strip = 2 => lamp' = "on" /\ UNCHANGED pos
    BY <2>1, <2>3 DEF Same, Placed, Places, InDark, Fed
  <2>4. CASE strip = 0 /\ ~Fails
    BY <1>8, <2>3, <2>4 DEF PrepareWhite, data
  <2>5. CASE strip = 1 /\ ~Fails
    BY <1>8, <2>3, <2>5 DEF PrepareWhite, data
  <2>6. CASE strip = 2 /\ ~Fails
    BY <1>8, <2>3, <2>6 DEF PrepareWhite, data
  <2> QED
    BY <2>2, <2>4, <2>5, <2>6 DEF Placed
<1>9. CASE PrepareBlack("black1", "offset")
  BY <1>0, <1>9
     DEF PrepareBlack, Goes, Same, Placed, Places, searchVars, OnWhite, InDark, Searches
<1>10. CASE PrepareBlack("black2", "dark")
  BY <1>0, <1>10
     DEF PrepareBlack, Goes, Same, Placed, Places, searchVars, InDark, Fed, Searches
<1>11. CASE WaitForPaper
  BY <1>0, <1>11, LeavesPlaced
     DEF WaitForPaper, Fails, Same, Placed, Places, searchVars, where, Searches
<1>12. CASE FromFile
  BY <1>0, <1>12 DEF FromFile, Same, Placed, Places, searchVars, OnWhite, Fed, Searches
<1>13. CASE MeasureDark
  BY <1>0, <1>13, LeavesPlaced
     DEF MeasureDark, Fails, Placed, Places, searchVars, where, InDark, Fed, Searches
<1>14. CASE MoveToShading
  BY <1>0, <1>14, LeavesPlaced
     DEF MoveToShading, Fails, Same, Placed, Places, searchVars, Fed, OnWhite, Searches
<1>15. CASE MeasureWhite
  BY <1>0, <1>15, LeavesPlaced
     DEF MeasureWhite, Fails, Same, Placed, Places, searchVars, where, OnWhite, Searches
<1>16. CASE FineSaved
  BY <1>0, <1>16
     DEF FineSaved, Goes, Same, Placed, Places, searchVars, where, OnWhite, Searches
<1>17. CASE NextDpi
  BY <1>0, <1>17
     DEF NextDpi, Same, Placed, Places, searchVars, OnWhite, Fed, Searches
<1>18. CASE Finish
  BY <1>0, <1>18 DEF Finish, Same, Placed, Places, searchVars, Searches
<1>19. CASE CoarseSaved
  BY <1>0, <1>19 DEF CoarseSaved, Goes, Same, Placed, Places, searchVars, where, Searches
<1>20. CASE Ready
  BY <1>0, <1>20, LeavesPlaced DEF Ready, Placed, searchVars, Searches
<1> QED
  BY <1>1, <1>2, <1>3, <1>4, <1>5, <1>6, <1>7, <1>8, <1>9, <1>10, <1>11, <1>12,
     <1>13, <1>14, <1>15, <1>16, <1>17, <1>18, <1>19, <1>20
     DEF Next, ReaderStep, Searches

LEMMA Invariance == Spec => [](SearchInv /\ Placed)
<1>1. PrepareInit => Placed
  BY PlacedInit
<1> QED
  BY <1>1, PlacedStep, Searching, PTL DEF Spec
-----------------------------------------------------------------------------
(* Induction, and functions that are defined by recursion over 1 .. N.     *)

\* Induction over the natural numbers, as a fact about sets.
LEMMA Induction ==
  ASSUME NEW T, 0 \in T, \A n \in Nat : n \in T => n + 1 \in T
  PROVE  Nat \subseteq T
<1> DEFINE Missed == Nat \ T
<1> SUFFICES ASSUME Missed # {} PROVE FALSE
  OBVIOUS
<1>1. PICK x \in Missed : \A y \in Missed : <<y, x>> \notin OpToRel(<, Nat)
  BY NatLessThanWellFounded, WFMin
<1>2. \A y \in Missed : ~(y < x)
  BY <1>1 DEF OpToRel
<1>3. x # 0 /\ x - 1 \in Nat
  OBVIOUS
<1>4. x - 1 \in T
  BY <1>2, <1>3
<1> QED
  BY <1>3, <1>4

\* A function defined by recursion over 1 .. N exists.
LEMMA Iteration ==
  ASSUME NEW S, NEW base \in S, NEW N \in Nat, NEW step \in [1 .. N -> [S -> S]]
  PROVE  \E g \in [0 .. N -> S] :
            g[0] = base /\ \A n \in 1 .. N : g[n] = step[n][g[n - 1]]
<1> DEFINE Good(g, k) == g[0] = base /\ \A n \in 1 .. k : g[n] = step[n][g[n - 1]]
           T == {k \in Nat : k <= N => \E g \in [0 .. k -> S] : Good(g, k)}
<1>1. 0 \in T
  <2> DEFINE g == [n \in 0 .. 0 |-> base]
  <2>1. g \in [0 .. 0 -> S] /\ Good(g, 0)
    OBVIOUS
  <2> QED
    BY <2>1
<1>2. ASSUME NEW k \in Nat, k \in T PROVE k + 1 \in T
  <2> SUFFICES ASSUME k + 1 <= N PROVE \E g \in [0 .. k + 1 -> S] : Good(g, k + 1)
    OBVIOUS
  <2>1. PICK h \in [0 .. k -> S] : Good(h, k)
    BY <1>2
  <2> DEFINE g == [n \in 0 .. k + 1 |-> IF n <= k THEN h[n] ELSE step[k + 1][h[k]]]
  <2>2. step[k + 1][h[k]] \in S
    <3>1. k + 1 \in 1 .. N /\ h[k] \in S
      OBVIOUS
    <3>2. step[k + 1] \in [S -> S]
      BY <3>1
    <3> QED
      BY <3>1, <3>2
  <2>3. g \in [0 .. k + 1 -> S]
    BY <2>2
  <2>4. Good(g, k + 1)
    <3>1. g[0] = base
      BY <2>1
    <3>2. ASSUME NEW n \in 1 .. k + 1 PROVE g[n] = step[n][g[n - 1]]
      BY <2>1
    <3> QED
      BY <3>1, <3>2
  <2> QED
    BY <2>3, <2>4
<1>3. N \in T
  <2> HIDE DEF T
  <2> QED
    BY <1>1, <1>2, Induction
<1> QED
  BY <1>3

-----------------------------------------------------------------------------
(* The lines of a file.                                                    *)

\* The lines that can be read.
Whole(lines) == {l \in ToSet(lines) : l.how = "whole"}

\* The loop of usb_ReadOtherLines.
LEMMA KeptLoop ==
  ASSUME NEW L, NEW file \in Seq(L), NEW key
  PROVE  \E kept :
           /\ kept[0] = <<>>
           /\ \A n \in 1 .. Len(file) :
                kept[n] = IF file[n].key = key THEN kept[n - 1]
                          ELSE Append(kept[n - 1], file[n])
           /\ OtherLines(file, key) = kept[Len(file)]
<1> DEFINE N == Len(file)
           S == Seq(L)
           base == <<>>
           step == [n \in 1 .. N |-> [s \in S |->
                      IF file[n].key = key THEN s ELSE Append(s, file[n])]]
           Body(f) == [n \in 0 .. N |->
                         IF n = 0 THEN <<>>
                         ELSE IF file[n].key = key THEN f[n - 1]
                         ELSE Append(f[n - 1], file[n])]
           F == CHOOSE f : f = Body(f)
<1>1. N \in Nat /\ base \in S
  OBVIOUS
<1>2. step \in [1 .. N -> [S -> S]]
  OBVIOUS
<1>3. PICK g \in [0 .. N -> S] :
        g[0] = base /\ \A n \in 1 .. N : g[n] = step[n][g[n - 1]]
  <2> HIDE DEF N, S, base, step
  <2> QED
    BY <1>1, <1>2, Iteration
<1>4. g = Body(g)
  <2>1. ASSUME NEW n \in 0 .. N PROVE g[n] = Body(g)[n]
    <3>1. CASE n = 0
      BY <1>1, <1>3, <3>1
    <3>2. CASE n # 0
      <4>1. n \in 1 .. N /\ g[n - 1] \in S
        BY <1>1, <3>2
      <4>2. step[n][g[n - 1]] = IF file[n].key = key THEN g[n - 1]
                                ELSE Append(g[n - 1], file[n])
        BY <4>1
      <4>3. Body(g)[n] = IF file[n].key = key THEN g[n - 1]
                         ELSE Append(g[n - 1], file[n])
        BY <3>2
      <4> HIDE DEF Body, step
      <4> QED
        BY <1>3, <4>1, <4>2, <4>3
    <3> QED
      BY <3>1, <3>2
  <2>2. DOMAIN Body(g) = 0 .. N /\ Body(g) = [n \in DOMAIN Body(g) |-> Body(g)[n]]
    OBVIOUS
  <2> HIDE DEF Body
  <2> QED
    BY <2>1, <2>2
<1>5. F = Body(F)
  <2> HIDE DEF Body
  <2> QED
    BY <1>4
<1>6. OtherLines(file, key) = F[N]
  BY DEF OtherLines
<1> HIDE DEF F
<1>7. F[0] = <<>>
  BY <1>1, <1>5
<1>8. ASSUME NEW n \in 1 .. N
      PROVE  F[n] = IF file[n].key = key THEN F[n - 1] ELSE Append(F[n - 1], file[n])
  <2>1. n \in 0 .. N /\ n # 0
    BY <1>1
  <2>2. Body(F)[n] = IF file[n].key = key THEN F[n - 1] ELSE Append(F[n - 1], file[n])
    BY <2>1
  <2> HIDE DEF Body
  <2> QED
    BY <1>5, <2>2
<1>9. /\ F[0] = <<>>
      /\ \A n \in 1 .. Len(file) :
           F[n] = IF file[n].key = key THEN F[n - 1] ELSE Append(F[n - 1], file[n])
      /\ OtherLines(file, key) = F[Len(file)]
  BY <1>6, <1>7, <1>8
<1> QED
  BY <1>9

\* The elements of sequences that are put together and taken apart.
LEMMA ToSetAppend ==
  ASSUME NEW S, NEW s \in Seq(S), NEW e \in S
  PROVE  ToSet(Append(s, e)) = ToSet(s) \cup {e}
<1> DEFINE t == Append(s, e)
<1>1. /\ Len(t) = Len(s) + 1 /\ Len(s) \in Nat /\ t[Len(s) + 1] = e
      /\ \A i \in 1 .. Len(s) : t[i] = s[i]
  OBVIOUS
<1>2. DOMAIN t = 1 .. Len(s) + 1 /\ DOMAIN s = 1 .. Len(s)
  OBVIOUS
<1> HIDE DEF t
<1>3. ASSUME NEW x PROVE x \in ToSet(t) <=> x \in ToSet(s) \cup {e}
  <2>1. x \in ToSet(t) => x \in ToSet(s) \cup {e}
    <3> SUFFICES ASSUME NEW i \in 1 .. Len(s) + 1, x = t[i], x # e PROVE x \in ToSet(s)
      BY <1>2 DEF ToSet
    <3>1. i \in 1 .. Len(s)
      BY <1>1
    <3> QED
      BY <1>1, <1>2, <3>1 DEF ToSet
  <2>2. x \in ToSet(s) => x \in ToSet(t)
    <3> SUFFICES ASSUME NEW i \in 1 .. Len(s), x = s[i] PROVE x \in ToSet(t)
      BY <1>2 DEF ToSet
    <3>1. i \in 1 .. Len(s) + 1 /\ x = t[i]
      BY <1>1
    <3> QED
      BY <1>2, <3>1 DEF ToSet
  <2>3. e \in ToSet(t)
    <3>1. Len(s) + 1 \in 1 .. Len(s) + 1
      BY <1>1
    <3> QED
      BY <1>1, <1>2, <3>1 DEF ToSet
  <2> QED
    BY <2>1, <2>2, <2>3
<1> QED
  BY <1>3 DEF t

\* What usb_ReadOtherLines keeps, and in which lines.
LEMMA OtherLinesAre ==
  ASSUME NEW L, NEW file \in Seq(L), NEW key
  PROVE  /\ OtherLines(file, key) \in Seq(L)
         /\ ToSet(OtherLines(file, key)) = {l \in ToSet(file) : l.key # key}
<1> DEFINE Kept(n) == {file[i] : i \in {j \in 1 .. n : file[j].key # key}}
<1>1. PICK kept :
        /\ kept[0] = <<>>
        /\ \A n \in 1 .. Len(file) :
             kept[n] = IF file[n].key = key THEN kept[n - 1]
                       ELSE Append(kept[n - 1], file[n])
        /\ OtherLines(file, key) = kept[Len(file)]
  BY KeptLoop
<1> DEFINE T == {n \in Nat : n <= Len(file) =>
                    kept[n] \in Seq(L) /\ ToSet(kept[n]) = Kept(n)}
<1>2. 0 \in T
  <2>1. <<>> \in Seq(L) /\ ToSet(<<>>) = {} /\ Kept(0) = {}
    BY DEF ToSet
  <2> QED
    BY <1>1, <2>1
<1>3. ASSUME NEW n \in Nat, n \in T PROVE n + 1 \in T
  <2> SUFFICES ASSUME n + 1 <= Len(file)
               PROVE  kept[n + 1] \in Seq(L) /\ ToSet(kept[n + 1]) = Kept(n + 1)
    OBVIOUS
  <2>1. kept[n] \in Seq(L) /\ ToSet(kept[n]) = Kept(n)
    BY <1>3
  <2>2. n + 1 \in 1 .. Len(file) /\ n + 1 - 1 = n
    OBVIOUS
  <2>3. kept[n + 1] = IF file[n + 1].key = key THEN kept[n]
                      ELSE Append(kept[n], file[n + 1])
    BY <1>1, <2>2
  <2>4. file[n + 1] \in L
    BY <2>2, ElementOfSeq
  <2>5. CASE file[n + 1].key = key
    <3>1. Kept(n + 1) = Kept(n)
      BY <2>5
    <3> QED
      BY <2>1, <2>3, <2>5, <3>1
  <2>6. CASE file[n + 1].key # key
    <3>1. Kept(n + 1) = Kept(n) \cup {file[n + 1]}
      BY <2>6
    <3>2. ToSet(Append(kept[n], file[n + 1])) = ToSet(kept[n]) \cup {file[n + 1]}
      BY <2>1, <2>4, ToSetAppend
    <3>3. Append(kept[n], file[n + 1]) \in Seq(L)
      BY <2>1, <2>4, AppendProperties
    <3> HIDE DEF Kept
    <3> QED
      BY <2>1, <2>3, <2>6, <3>1, <3>2, <3>3
  <2> QED
    BY <2>5, <2>6
<1>4. Len(file) \in T
  <2> HIDE DEF T
  <2> QED
    BY <1>2, <1>3, Induction
<1>5. Kept(Len(file)) = {l \in ToSet(file) : l.key # key}
  BY DEF ToSet
<1> QED
  BY <1>1, <1>4, <1>5

LEMMA ToSetConcat ==
  ASSUME NEW S, NEW s \in Seq(S), NEW t \in Seq(S)
  PROVE  s \o t \in Seq(S) /\ ToSet(s \o t) = ToSet(s) \cup ToSet(t)
<1> DEFINE u == s \o t
<1>1. /\ u \in Seq(S) /\ Len(s) \in Nat /\ Len(t) \in Nat /\ Len(u) = Len(s) + Len(t)
      /\ \A i \in 1 .. Len(s) : u[i] = s[i]
      /\ \A i \in 1 .. Len(t) : u[Len(s) + i] = t[i]
  OBVIOUS
<1>2. DOMAIN u = 1 .. Len(u) /\ DOMAIN s = 1 .. Len(s) /\ DOMAIN t = 1 .. Len(t)
  <2> HIDE DEF u
  <2> QED
    BY <1>1
<1> HIDE DEF u
<1>3. ASSUME NEW x PROVE x \in ToSet(u) <=> x \in ToSet(s) \cup ToSet(t)
  <2>1. x \in ToSet(u) => x \in ToSet(s) \cup ToSet(t)
    <3> SUFFICES ASSUME NEW i \in 1 .. Len(u), x = u[i], x \notin ToSet(s)
                 PROVE  x \in ToSet(t)
      BY <1>2 DEF ToSet
    <3>1. ~(i <= Len(s))
      BY <1>1, <1>2 DEF ToSet
    <3>2. i - Len(s) \in 1 .. Len(t) /\ i = Len(s) + (i - Len(s))
      BY <1>1, <3>1
    <3>3. x = t[i - Len(s)]
      BY <1>1, <3>2
    <3> QED
      BY <1>2, <3>2, <3>3 DEF ToSet
  <2>2. x \in ToSet(s) => x \in ToSet(u)
    <3> SUFFICES ASSUME NEW i \in 1 .. Len(s), x = s[i] PROVE x \in ToSet(u)
      BY <1>2 DEF ToSet
    <3>1. i \in 1 .. Len(u) /\ x = u[i]
      BY <1>1
    <3> QED
      BY <1>2, <3>1 DEF ToSet
  <2>3. x \in ToSet(t) => x \in ToSet(u)
    <3> SUFFICES ASSUME NEW i \in 1 .. Len(t), x = t[i] PROVE x \in ToSet(u)
      BY <1>2 DEF ToSet
    <3>1. Len(s) + i \in 1 .. Len(u) /\ x = u[Len(s) + i]
      BY <1>1
    <3> QED
      BY <1>2, <3>1 DEF ToSet
  <2> QED
    BY <2>1, <2>2, <2>3
<1> QED
  BY <1>1, <1>3 DEF u

LEMMA ToSetOne == ASSUME NEW a PROVE ToSet(<<a>>) = {a}
  BY DEF ToSet

LEMMA ToSetTwo == ASSUME NEW a, NEW b PROVE ToSet(<<a, b>>) = {a, b}
<1>1. DOMAIN <<a, b>> = {1, 2}
  OBVIOUS
<1> QED
  BY <1>1 DEF ToSet

LEMMA ToSetIn ==
  ASSUME NEW S, NEW s \in Seq(S)
  PROVE  ToSet(s) \subseteq S
  BY DEF ToSet

LEMMA FrontAndLast ==
  ASSUME NEW S, NEW s \in Seq(S), s # <<>>
  PROVE  /\ Front(s) \in Seq(S) /\ Last(s) \in S
         /\ ToSet(s) = ToSet(Front(s)) \cup {Last(s)}
<1> DEFINE f == Front(s)
<1>1. Len(s) \in Nat /\ Len(s) > 0 /\ DOMAIN s = 1 .. Len(s)
  BY EmptySeq
<1>2. /\ f \in Seq(S) /\ Len(f) = Len(s) - 1
      /\ \A i \in 1 .. Len(s) - 1 : f[i] = s[i]
  BY <1>1 DEF Front
<1>3. s[Len(s)] \in S
  BY <1>1, ElementOfSeq
<1>4. DOMAIN f = 1 .. Len(s) - 1
  <2> HIDE DEF f
  <2> QED
    BY <1>2
<1> HIDE DEF f
<1>5. ASSUME NEW x PROVE x \in ToSet(s) <=> x \in ToSet(f) \cup {s[Len(s)]}
  <2>1. x \in ToSet(s) => x \in ToSet(f) \cup {s[Len(s)]}
    <3> SUFFICES ASSUME NEW i \in 1 .. Len(s), x = s[i], x # s[Len(s)]
                 PROVE  x \in ToSet(f)
      BY <1>1 DEF ToSet
    <3>1. i \in 1 .. Len(s) - 1
      BY <1>1
    <3> QED
      BY <1>2, <1>4, <3>1 DEF ToSet
  <2>2. x \in ToSet(f) => x \in ToSet(s)
    <3> SUFFICES ASSUME NEW i \in 1 .. Len(s) - 1, x = f[i] PROVE x \in ToSet(s)
      BY <1>4 DEF ToSet
    <3>1. i \in 1 .. Len(s) /\ x = s[i]
      BY <1>1, <1>2
    <3> QED
      BY <1>1, <3>1 DEF ToSet
  <2>3. s[Len(s)] \in ToSet(s)
    BY <1>1 DEF ToSet
  <2> QED
    BY <2>1, <2>2, <2>3
<1> QED
  BY <1>2, <1>3, <1>5 DEF f, Last

LEMMA LineAltered ==
  ASSUME NEW l \in Lines, NEW how \in Conditions
  PROVE  [l EXCEPT !.how = how] \in Lines /\ [l EXCEPT !.how = how].how = how
  BY DEF Lines

AppendedTwo(R, a, b) == Appended(R, <<a, b>>)

\* What is written after other lines: the last of them may be spoiled by the
\* first, never more.
LEMMA AppendedLines ==
  ASSUME NEW R \in Seq(Lines), NEW a \in Lines, NEW b \in Lines, b.how = "whole"
  PROVE  /\ AppendedTwo(R, a, b) \in Seq(Lines)
         /\ Last(AppendedTwo(R, a, b)) = b
         /\ Whole(R) \cup {b} \subseteq Whole(AppendedTwo(R, a, b))
         /\ Whole(AppendedTwo(R, a, b)) \subseteq Whole(R) \cup {a, b}
<1> DEFINE t == AppendedTwo(R, a, b)
<1>1. CASE R # <<>> /\ Last(R).how = "cut"
  <2> DEFINE l == [Last(R) EXCEPT !.how = "spoiled"]
             f == Front(R)
  <2>1. f \in Seq(Lines) /\ Last(R) \in Lines /\ ToSet(R) = ToSet(f) \cup {Last(R)}
    BY <1>1, FrontAndLast
  <2>2. l \in Lines /\ l.how = "spoiled"
    BY <2>1, LineAltered DEF Conditions
  <2>3. t = (f \o <<l>>) \o <<b>>
    <3>1. Tail(<<a, b>>) = <<b>>
      OBVIOUS
    <3> QED
      BY <1>1, <3>1 DEF AppendedTwo, Appended
  <2> HIDE DEF f, l
  <2>4. <<l>> \in Seq(Lines) /\ <<b>> \in Seq(Lines)
    BY <2>2
  <2>5. f \o <<l>> \in Seq(Lines) /\ ToSet(f \o <<l>>) = ToSet(f) \cup {l}
    <3>1. ToSet(<<l>>) = {l}
      BY ToSetOne
    <3>2. /\ f \o <<l>> \in Seq(Lines)
          /\ ToSet(f \o <<l>>) = ToSet(f) \cup ToSet(<<l>>)
      <4> DEFINE g == <<l>>
      <4>1. g \in Seq(Lines) /\ f \in Seq(Lines)
        BY <2>1, <2>4
      <4> HIDE DEF g
      <4>2. f \o g \in Seq(Lines) /\ ToSet(f \o g) = ToSet(f) \cup ToSet(g)
        BY <4>1, ToSetConcat
      <4> QED
        BY <4>2 DEF g
    <3> QED
      BY <3>1, <3>2
  <2>6. t \in Seq(Lines) /\ ToSet(t) = ToSet(f) \cup {l} \cup {b}
    <3> DEFINE g == f \o <<l>>
    <3>1. ToSet(<<b>>) = {b}
      BY ToSetOne
    <3>2. g \in Seq(Lines)
      BY <2>5
    <3>3. g \o <<b>> \in Seq(Lines) /\ ToSet(g \o <<b>>) = ToSet(g) \cup ToSet(<<b>>)
      <4> HIDE DEF g
      <4> QED
        BY <2>4, <3>2, ToSetConcat
    <3> HIDE DEF t
    <3> QED
      BY <2>3, <2>5, <3>1, <3>3
  <2>7. Last(t) = b
    <3> DEFINE g == f \o <<l>>
    <3>1. g \in Seq(Lines) /\ t = g \o <<b>>
      BY <2>3, <2>5
    <3> HIDE DEF g, t
    <3>2. Len(t) = Len(g) + 1 /\ t[Len(g) + 1] = b
      BY <3>1
    <3> QED
      BY <3>2 DEF Last
  <2> QED
    BY <1>1, <2>1, <2>2, <2>6, <2>7 DEF Whole
<1>2. CASE ~(R # <<>> /\ Last(R).how = "cut")
  <2>1. t = R \o <<a, b>>
    BY <1>2 DEF AppendedTwo, Appended
  <2>2. <<a, b>> \in Seq(Lines)
    OBVIOUS
  <2>3. t \in Seq(Lines) /\ ToSet(t) = ToSet(R) \cup {a, b}
    <3>1. ToSet(<<a, b>>) = {a, b}
      BY ToSetTwo
    <3>2. /\ R \o <<a, b>> \in Seq(Lines)
          /\ ToSet(R \o <<a, b>>) = ToSet(R) \cup ToSet(<<a, b>>)
      BY <2>2, ToSetConcat
    <3> HIDE DEF t
    <3> QED
      BY <2>1, <3>1, <3>2
  <2>4. Last(t) = b
    <3> HIDE DEF t
    <3>1. Len(t) = Len(R) + 2 /\ t[Len(R) + 2] = b
      BY <2>1
    <3> QED
      BY <3>1 DEF Last
  <2> QED
    BY <2>3, <2>4 DEF Whole
<1> QED
  BY <1>1, <1>2

\* Who is killed while writing leaves no line that was not to be written.
LEMMA BeginningsAre ==
  ASSUME NEW text \in Seq(Lines), NEW t \in Beginnings(text)
  PROVE  t \in Seq(Lines) /\ Whole(t) \subseteq Whole(text)
<1>1. ASSUME NEW n \in 0 .. Len(text)
      PROVE  /\ SubSeq(text, 1, n) \in Seq(Lines)
             /\ ToSet(SubSeq(text, 1, n)) \subseteq ToSet(text)
  <2> DEFINE u == SubSeq(text, 1, n)
  <2>1. u \in Seq(Lines) /\ Len(u) = n /\ \A i \in 1 .. n : u[i] = text[i]
    OBVIOUS
  <2>2. DOMAIN text = 1 .. Len(text) /\ Len(text) \in Nat
    OBVIOUS
  <2> HIDE DEF u
  <2>3. DOMAIN u = 1 .. n
    BY <2>1
  <2>4. ASSUME NEW i \in 1 .. n PROVE u[i] \in ToSet(text)
    BY <2>1, <2>2 DEF ToSet
  <2> QED
    BY <2>1, <2>3, <2>4 DEF ToSet, u
<1>2. CASE \E n \in 0 .. Len(text) : t = SubSeq(text, 1, n)
  BY <1>1, <1>2 DEF Whole
<1>3. CASE \E n \in 1 .. Len(text) : t = Append(SubSeq(text, 1, n - 1), Cut(text[n]))
  <2>1. PICK n \in 1 .. Len(text) : t = Append(SubSeq(text, 1, n - 1), Cut(text[n]))
    BY <1>3
  <2>2. n - 1 \in 0 .. Len(text) /\ text[n] \in Lines
    BY ElementOfSeq
  <2>3. Cut(text[n]) \in Lines /\ Cut(text[n]).how = "cut"
    BY <2>2, LineAltered DEF Cut, Conditions
  <2> DEFINE u == SubSeq(text, 1, n - 1)
             c == Cut(text[n])
  <2>4. u \in Seq(Lines) /\ ToSet(u) \subseteq ToSet(text)
    BY <1>1, <2>2
  <2> HIDE DEF u, c
  <2>5. Append(u, c) \in Seq(Lines) /\ ToSet(Append(u, c)) = ToSet(u) \cup {c}
    BY <2>3, <2>4, ToSetAppend, AppendProperties DEF c
  <2> QED
    BY <2>1, <2>3, <2>4, <2>5 DEF Whole, u, c
<1> QED
  BY <1>2, <1>3 DEF Beginnings
-----------------------------------------------------------------------------
(* The files and the shading, point by point.                              *)

\* What the fine file has, or is about to get.
Stored == IF pending.what = "fine" THEN pending.text ELSE fineFile

EightBit(lines) == {l \in Whole(lines) : l.data.depth = 8}

Early     == {"wait", "white1", "lamp", "black1", "offset", "white2", "gain"}
Measuring == {"black2", "dark", "white3", "move", "white", "saving", "next"}
Furnished == {"saving", "next", "finish", "saving2", "ready"}

\* The types of what the preparation works with.
Typed ==
    /\ coarseFile \in [CoarseKeys -> 0 .. MaxScans]
    /\ Stored \in Seq(Lines)
    /\ scan \in 0 .. MaxScans /\ coarse \in 0 .. MaxScans /\ dpi \in Dpis
    /\ fine = [dark |-> fine.dark, white |-> fine.white]
    /\ at \in Points
    /\ at # "idle" => want \in Requests /\ scan # 0
    /\ at = "saving" => pending.what = "fine" /\ pending # Idle
    /\ at = "saving2" => /\ pending = [what |-> "coarse", text |-> pending.text]
                         /\ pending.text \in [CoarseKeys -> 0 .. MaxScans]
                         /\ want.cache /\ ~skipCoarse
    /\ at \notin {"saving", "saving2"} => pending = Idle

\* A dark and a white line of a key are of one measurement of that key, before
\* this scan until it measures.
Paired ==
    /\ \A l \in Whole(Stored) : l.data.key = l.key /\ l.data.scan <= scan
    /\ \A l, m \in Whole(Stored) :
          l.key = m.key /\ l.part = "dark" /\ m.part = "white" =>
             [l.data EXCEPT !.real = TRUE] = m.data
    /\ at \in Early \cup {"file"} => \A l \in Whole(Stored) : l.data.scan < scan

\* Where the settings in use come from.
Settings ==
    /\ at \in Measuring => ~device.sheetFed \/ want.calibrate
    /\ at \in Early => ~skipCoarse
    /\ at # "idle" /\ want.calibrate => ~skipCoarse
    /\ at \in {"file", "finish"} \cup Measuring =>
          /\ ~skipCoarse => coarse # 0
          /\ skipCoarse /\ ~device.sheetFed =>
                want.cache /\ coarse = coarseFile[want.type, want.depth] /\ coarse # 0
    /\ at \in {"file", "finish"} \cup Early \cup Measuring =>
          (want.cache /\ ~skipCoarse /\ ~want.calibrate =>
              coarseFile[want.type, want.depth] = 0)

\* A scan that keeps new settings for 8 bits.
Renewing == want.cache /\ ~skipCoarse /\ want.depth = 8

Under(l, settings) == settings[l.key[1], 8] = l.data.settings /\ l.data.settings # 0

Renewed(l) == Renewing /\ l.key[1] = want.type /\ l.data.settings = coarse

\* The 8 bit shading was measured under the settings that are kept, but for
\* what has been measured under those that are going to be kept; of the type
\* of the scan that is all that has been passed, and in the end all there is.
Agreed ==
    ~broken =>
      /\ at \in {"idle", "ready", "file"} \cup Early =>
            \A l \in EightBit(Stored) : Under(l, coarseFile)
      /\ at \in Measuring \cup {"finish"} =>
            \A l \in EightBit(Stored) : Under(l, coarseFile) \/ Renewed(l)
      /\ at \in Measuring /\ Renewing =>
            \A l \in EightBit(Stored) :
               /\ l.key[1] = want.type
               /\ l.key[2] < dpi \/ (at \in {"saving", "next"} /\ l.key[2] = dpi)
               => Renewed(l)
      /\ at = "finish" /\ Renewing =>
            \A l \in EightBit(Stored) : l.key[1] = want.type => Renewed(l)
      /\ at = "saving2" => \A l \in EightBit(Stored) : Under(l, pending.text)

\* What ShadingFits says of the scan that is ready, from where it has a shading.
Fitting ==
    /\ fine.dark.key = <<want.type, want.dpi>>
    /\ [fine.dark EXCEPT !.real = TRUE] = fine.white
    /\ fine.dark.scan = scan => fine.dark.real \/ unseen
    /\ ~broken /\ want.depth = 8 /\ fine.white.depth = 8 /\ ~device.sheetFed =>
          fine.white.settings = coarse

Shaded ==
    /\ at \in {"white3", "move", "white"} =>
          \E real \in BOOLEAN : fine.dark = Measured(real) /\ (real \/ unseen \/ escape)
    /\ at \in Measuring \cup {"finish"} /\ ~want.calibrate => dpi = want.dpi
    /\ at \in Furnished /\ ~want.calibrate /\ ~bypass => Fitting

FilesInv == Typed /\ Paired /\ Settings /\ Agreed /\ Shaded

\* The steps as the files and the shading see them.
Aside ==
    {<<"wait", "white1">>, <<"white1", "lamp">>, <<"lamp", "black1">>,
     <<"black1", "offset">>, <<"offset", "white2">>, <<"white2", "gain">>,
     <<"black2", "dark">>, <<"white3", "move">>, <<"move", "white">>}

Quiet ==
    /\ at' = at \/ <<at, at'>> \in Aside
    /\ UNCHANGED <<fileVars, device, want, scan, data, broken>>
    /\ escape => escape'
    /\ unseen => unseen'

Gone ==
    /\ Leaves
    /\ broken' = (broken \/ (want.cache /\ ~skipCoarse))
    /\ coarseFile' = coarseFile \/ at = "saving2"
    /\ coarseFile' \in [CoarseKeys -> 0 .. MaxScans]
    /\ pending' = Idle
    /\ Stored' \in Seq(Lines)
    /\ Whole(Stored') \subseteq Whole(Stored)

GainFound ==
    /\ at = "gain" /\ at' = "file"
    /\ coarse' = scan
    /\ UNCHANGED <<fileVars, device, want, scan, skipCoarse, dpi, fine, bypass, broken>>

DarkRead ==
    /\ at = "dark" /\ at' = "white3"
    /\ \E real \in BOOLEAN :
          fine' = [fine EXCEPT !.dark = Measured(real)] /\ (real \/ unseen' \/ escape')
    /\ UNCHANGED <<fileVars, device, want, scan, coarse, skipCoarse, dpi, bypass, broken>>

WhiteRead ==
    /\ at = "white" /\ ~escape
    /\ fine' = [fine EXCEPT !.white = Measured(TRUE)]
    /\ IF want.cache
       THEN at' = "saving" /\ SaveFine(<<want.type, dpi>>, fine.dark, fine'.white)
       ELSE at' = "next" /\ UNCHANGED fileVars
    /\ UNCHANGED <<device, want, scan, coarse, skipCoarse, dpi, bypass, broken, unseen>>

\* Every step is of one of these kinds.
LEMMA StepKinds ==
  ASSUME Typed, [Next]_vars
  PROVE  \/ Quiet \/ Gone \/ Begin \/ GainFound \/ FromFile \/ DarkRead \/ WhiteRead
         \/ FineSaved \/ NextDpi \/ Finish \/ CoarseSaved \/ Ready
<1>1. ASSUME Fails, UNCHANGED fileVars, at \notin {"saving", "saving2"} PROVE Gone
  <2>1. pending = Idle
    BY <1>1 DEF Typed
  <2>2. Stored' = Stored
    BY <1>1 DEF Stored, fileVars
  <2> QED
    BY <1>1, <2>1, <2>2 DEF Gone, Fails, fileVars, Typed
<1>2. CASE Killed
  <2>1. CASE pending = Idle
    <3>1. UNCHANGED fileVars
      BY <1>2, <2>1 DEF Killed
    <3>2. Stored' = Stored /\ pending' = Idle
      BY <2>1, <3>1 DEF Stored, fileVars
    <3> QED
      BY <1>2, <3>1, <3>2 DEF Gone, Killed, Fails, fileVars, Typed
  <2>2. CASE pending # Idle
    <3>1. Torn /\ Fails
      BY <1>2, <2>2 DEF Killed
    <3>2. Stored' = fineFile'
      BY <3>1 DEF Torn, Stored, Idle
    <3>3. Stored' \in Seq(Lines) /\ Whole(Stored') \subseteq Whole(Stored)
      <4>1. CASE pending.what = "fine"
        <5>1. fineFile' \in Beginnings(Stored)
          BY <3>1, <4>1 DEF Torn, Stored
        <5> QED
          BY <3>2, <5>1, BeginningsAre DEF Typed
      <4>2. CASE pending.what # "fine"
        BY <3>1, <3>2, <4>2 DEF Torn, Stored, Typed
      <4> QED
        BY <4>1, <4>2
    <3> QED
      BY <3>1, <3>3 DEF Gone, Fails, Torn, Typed
  <2> QED
    BY <2>1, <2>2
<1>3. CASE UNCHANGED vars
  BY <1>3 DEF vars, Quiet
<1>4. CASE Cancel
  BY <1>4 DEF Cancel, Quiet
<1>5. CASE WaitForPaper
  BY <1>1, <1>5 DEF WaitForPaper, Quiet, Same, Aside, fileVars
<1>6. ASSUME NEW from, NEW move, NEW to, <<from, to>> \in Aside, PrepareWhite(from, move, to)
      PROVE  Quiet \/ Gone
  <2>1. from \notin {"saving", "saving2"}
    BY <1>6 DEF Aside
  <2>2. CASE Fails
    BY <1>1, <1>6, <2>1, <2>2 DEF PrepareWhite
  <2>3. CASE ~Fails
    BY <1>6, <2>3 DEF PrepareWhite, Same, Quiet, data
  <2> QED
    BY <2>2, <2>3
<1>7. ASSUME NEW from, NEW to, <<from, to>> \in Aside, PrepareBlack(from, to)
      PROVE  Quiet
  BY <1>7 DEF PrepareBlack, Goes, Same, Quiet
<1>8. ASSUME NEW from, NEW s, NEW to, Adjust(from, s, to),
             <<from, s, to>> \in {<<"lamp", "lamp", "black1">>,
                <<"offset", "offset", "white2">>, <<"gain", "gain", "file">>}
      PROVE  Quiet \/ Gone \/ GainFound
  <2>1. from \notin {"saving", "saving2"} /\ at = from
    BY <1>8 DEF Adjust
  <2>2. CASE Fails
    BY <1>1, <1>8, <2>1, <2>2 DEF Adjust
  <2>3. CASE Same /\ UNCHANGED <<at, where, data, unseen>>
    BY <1>8, <2>3 DEF Adjust, Same, Quiet
  <2>4. CASE /\ at' = to /\ coarse' = IF s = "gain" THEN scan ELSE coarse
             /\ Same /\ UNCHANGED <<where, skipCoarse, dpi, fine, bypass, unseen>>
    BY <1>8, <2>1, <2>4 DEF Adjust, Same, Quiet, GainFound, Aside, data
  <2> QED
    BY <1>8, <2>2, <2>3, <2>4 DEF Adjust
<1>9. CASE MeasureDark
  BY <1>1, <1>9 DEF MeasureDark, DarkRead
<1>10. CASE MoveToShading
  BY <1>1, <1>10 DEF MoveToShading, Same, Quiet, Aside
<1>11. CASE MeasureWhite
  BY <1>1, <1>11 DEF MeasureWhite, Same, WhiteRead
<1>12. ASSUME \/ PrepareWhite("white1", TRUE, "lamp") \/ PrepareWhite("white2", FALSE, "gain")
              \/ PrepareWhite("white3", FALSE, "move")
       PROVE  Quiet \/ Gone
  <2>1. /\ <<"white1", "lamp">> \in Aside /\ <<"white2", "gain">> \in Aside
        /\ <<"white3", "move">> \in Aside
    BY DEF Aside
  <2> QED
    BY <1>6, <1>12, <2>1
<1>13. ASSUME PrepareBlack("black1", "offset") \/ PrepareBlack("black2", "dark")
       PROVE  Quiet
  <2>1. <<"black1", "offset">> \in Aside /\ <<"black2", "dark">> \in Aside
    BY DEF Aside
  <2> QED
    BY <1>7, <1>13, <2>1
<1>14. ASSUME \/ Adjust("lamp", "lamp", "black1") \/ Adjust("offset", "offset", "white2")
              \/ Adjust("gain", "gain", "file")
       PROVE  Quiet \/ Gone \/ GainFound
  BY <1>8, <1>14
<1> QED
  BY <1>2, <1>3, <1>4, <1>5, <1>9, <1>10, <1>11, <1>12, <1>13, <1>14 DEF Next, ReaderStep

LEMMA InitFiles == PrepareInit => FilesInv
<1> SUFFICES ASSUME PrepareInit PROVE FilesInv
  OBVIOUS
<1>1. Stored = <<>> /\ at = "idle" /\ pending = Idle /\ Whole(Stored) = {}
  BY DEF PrepareInit, FilesInit, Stored, Idle, Whole, ToSet
<1>2. Typed
  <2>1. <<>> \in Seq(Lines) /\ 1 \in Dpis /\ 0 \in 0 .. MaxScans
    BY FilesAssumption, PrepareAssumption DEF Dpis
  <2> QED
    BY <1>1, <2>1 DEF PrepareInit, FilesInit, Typed, Blank, Points
<1>3. Paired /\ Agreed
  BY <1>1 DEF Paired, Agreed, EightBit, Early, Measuring
<1>4. Settings /\ Shaded
  BY <1>1 DEF Settings, Shaded, Early, Measuring, Furnished
<1> QED
  BY <1>2, <1>3, <1>4 DEF FilesInv

\* What steps that leave the fine file alone have in common.
LEMMA SameFiles ==
  ASSUME UNCHANGED fileVars
  PROVE  Stored' = Stored /\ coarseFile' = coarseFile /\ pending' = pending
  BY DEF Stored, fileVars

\* The whole lines of a file are lines.
LEMMA WholeLines ==
  ASSUME NEW text \in Seq(Lines), NEW l \in Whole(text)
  PROVE  /\ l \in Lines /\ l.key \in FineKeys /\ l.data \in Data
         /\ l.key[1] \in Types /\ l.key[2] \in Dpis
         /\ l.key = <<l.key[1], l.key[2]>>
         /\ l.data.depth \in Depths /\ l.data.settings \in 0 .. MaxScans
         /\ l.data.scan \in 1 .. MaxScans
<1>1. l \in Lines
  BY ToSetIn DEF Whole
<1>2. l.key \in FineKeys /\ l.data \in Data
  BY <1>1 DEF Lines
<1> QED
  BY <1>1, <1>2 DEF FineKeys, Data

\* Steps that do nothing with files and shading.
LEMMA QuietFiles == ASSUME FilesInv, Quiet PROVE FilesInv'
<1>1. /\ Stored' = Stored /\ coarseFile' = coarseFile /\ pending' = pending
      /\ UNCHANGED <<device, want, scan, coarse, skipCoarse, dpi, fine, bypass, broken>>
  BY SameFiles DEF Quiet, data
<1>2. /\ at' = at \/ <<at, at'>> \in Aside
      /\ escape => escape'
      /\ unseen => unseen'
  BY DEF Quiet
<1>3. Typed'
  BY <1>1, <1>2 DEF FilesInv, Typed, Aside, Points
<1>4. Paired'
  BY <1>1, <1>2 DEF FilesInv, Paired, Aside, Early
<1>5. Settings'
  BY <1>1, <1>2 DEF FilesInv, Settings, Aside, Early, Measuring
<1>6. Agreed'
  BY <1>1, <1>2 DEF FilesInv, Agreed, Aside, Early, Measuring, Under, Renewed, Renewing
<1>7. Shaded'
  <2>1. Measured(TRUE)' = Measured(TRUE) /\ Measured(FALSE)' = Measured(FALSE)
    BY <1>1 DEF Measured
  <2>2. at' \in {"white3", "move", "white"} => at \in {"white3", "move", "white"}
    BY <1>2 DEF Aside
  <2>3. at' \in {"white3", "move", "white"} =>
          \E real \in BOOLEAN : fine'.dark = Measured(real)' /\ (real \/ unseen' \/ escape')
    BY <1>1, <1>2, <2>1, <2>2 DEF FilesInv, Shaded
  <2>4. /\ at' \in Measuring \cup {"finish"} => at \in Measuring \cup {"finish"}
        /\ at' \in Furnished => at \in Furnished
    BY <1>2 DEF Aside, Measuring, Furnished
  <2>5. Fitting => Fitting'
    BY <1>1, <1>2 DEF Fitting
  <2> QED
    BY <1>1, <2>3, <2>4, <2>5 DEF FilesInv, Shaded
<1> QED
  BY <1>3, <1>4, <1>5, <1>6, <1>7 DEF FilesInv

\* The preparation fails or is killed, perhaps while it writes.
LEMMA GoneFiles == ASSUME FilesInv, Gone PROVE FilesInv'
<1>1. /\ at' = "idle" /\ pending' = Idle /\ coarse' = 0 /\ dpi' = 1 /\ fine' = Blank
      /\ UNCHANGED <<device, scan>>
  BY DEF Gone, Leaves
<1>2. Typed'
  <2>1. 1 \in Dpis /\ 0 \in 0 .. MaxScans
    BY FilesAssumption, PrepareAssumption DEF Dpis
  <2> QED
    BY <1>1, <2>1 DEF FilesInv, Typed, Gone, Blank, Points
<1>3. Paired'
  BY <1>1 DEF FilesInv, Paired, Gone, Early
<1>4. Settings' /\ Shaded'
  BY <1>1 DEF Settings, Shaded, Early, Measuring, Furnished
<1>5. Agreed'
  <2> SUFFICES ASSUME ~broken', NEW l \in EightBit(Stored')
               PROVE  Under(l, coarseFile')
    BY <1>1 DEF Agreed, Early, Measuring
  <2>1. ~broken /\ ~(want.cache /\ ~skipCoarse)
    BY DEF Gone
  <2>2. l \in EightBit(Stored)
    BY DEF Gone, EightBit
  <2>3. at # "saving2"
    BY <2>1 DEF FilesInv, Typed
  <2>4. at \in {"idle", "ready", "file"} \cup Early \cup Measuring \cup {"finish"}
    BY <2>3 DEF FilesInv, Typed, Points, Early, Measuring
  <2>5. Under(l, coarseFile)
    BY <2>1, <2>2, <2>4 DEF FilesInv, Agreed, Renewed, Renewing
  <2> QED
    BY <2>3, <2>5 DEF Gone
<1> QED
  BY <1>2, <1>3, <1>4, <1>5 DEF FilesInv

LEMMA ReadyFiles == ASSUME FilesInv, Ready PROVE FilesInv'
<1>1. /\ at = "ready" /\ at' = "idle" /\ coarse' = 0 /\ dpi' = 1 /\ fine' = Blank
      /\ Stored' = Stored /\ coarseFile' = coarseFile /\ pending' = pending
      /\ UNCHANGED <<device, scan, broken>>
  BY SameFiles DEF Ready, Leaves
<1>2. Typed'
  <2>1. 1 \in Dpis /\ 0 \in 0 .. MaxScans
    BY FilesAssumption, PrepareAssumption DEF Dpis
  <2> QED
    BY <1>1, <2>1 DEF FilesInv, Typed, Blank, Points
<1>3. Paired'
  BY <1>1 DEF FilesInv, Paired, Early
<1>4. Settings' /\ Shaded'
  BY <1>1 DEF Settings, Shaded, Early, Measuring, Furnished
<1>5. Agreed'
  BY <1>1 DEF FilesInv, Agreed, Early, Measuring, Under
<1> QED
  BY <1>2, <1>3, <1>4, <1>5 DEF FilesInv

\* A scan begins: settings from the file, if it has them.
LEMMA BeginFiles == ASSUME FilesInv, Begin PROVE FilesInv'
<1>1. PICK r \in Requests :
        /\ want' = r
        /\ coarse' = IF Known(r) THEN coarseFile[r.type, r.depth] ELSE 0
        /\ skipCoarse' = (Known(r) \/ (device.sheetFed /\ ~r.calibrate))
        /\ at' = IF Known(r) \/ (device.sheetFed /\ ~r.calibrate) THEN "file" ELSE "wait"
  BY DEF Begin
<1>2. /\ at = "idle" /\ scan < MaxScans /\ scan' = scan + 1 /\ at' \in {"file", "wait"}
      /\ UNCHANGED <<device, dpi, fine, bypass, broken>>
      /\ Stored' = Stored /\ coarseFile' = coarseFile /\ pending' = pending
  BY <1>1, SameFiles DEF Begin
<1>3. r.type \in Types /\ r.depth \in Depths /\ r.cache \in BOOLEAN /\ r.calibrate \in BOOLEAN
  BY DEF Requests
<1>4. coarseFile[r.type, r.depth] \in 0 .. MaxScans
  <2>1. <<r.type, r.depth>> \in CoarseKeys
    BY <1>3 DEF CoarseKeys
  <2> QED
    BY <2>1 DEF FilesInv, Typed
<1>5. scan' \in 0 .. MaxScans /\ scan' # 0 /\ scan \in Nat
  BY <1>2, PrepareAssumption DEF FilesInv, Typed
<1>6. Typed'
  <2>1. coarse' \in 0 .. MaxScans
    <3>1. 0 \in 0 .. MaxScans
      BY PrepareAssumption
    <3>2. CASE Known(r)
      BY <1>1, <1>4, <3>2
    <3>3. CASE ~Known(r)
      BY <1>1, <3>1, <3>3
    <3> QED
      BY <3>2, <3>3
  <2>2. pending' = Idle
    BY <1>2 DEF FilesInv, Typed
  <2>3. at' \in Points /\ at' \notin {"saving", "saving2"} /\ want' \in Requests
    BY <1>1, <1>2 DEF Points
  <2> QED
    BY <1>2, <1>5, <2>1, <2>2, <2>3 DEF FilesInv, Typed
<1>7. Paired'
  <2>1. ASSUME NEW l \in Whole(Stored) PROVE l.data.scan < scan' /\ l.data.scan <= scan'
    <3>1. l.data.scan <= scan /\ l.data.scan \in Int
      BY WholeLines DEF FilesInv, Paired, Typed
    <3> QED
      BY <1>2, <1>5, <3>1
  <2> QED
    BY <1>2, <2>1 DEF FilesInv, Paired
<1>8. Settings'
  <2>1. Known(r) => r.cache /\ ~r.calibrate /\ coarseFile[r.type, r.depth] # 0
    BY DEF Known
  <2>2. r.cache /\ ~r.calibrate /\ ~Known(r) => coarseFile[r.type, r.depth] = 0
    BY DEF Known
  <2>3. CASE Known(r)
    BY <1>1, <1>2, <2>1, <2>3 DEF Settings, Early, Measuring
  <2>4. CASE ~Known(r) /\ device.sheetFed /\ ~r.calibrate
    BY <1>1, <1>2, <2>4 DEF Settings, Early, Measuring
  <2>5. CASE ~Known(r) /\ ~(device.sheetFed /\ ~r.calibrate)
    BY <1>1, <1>2, <2>2, <2>5 DEF Settings, Early, Measuring
  <2> QED
    BY <2>3, <2>4, <2>5
<1>9. Agreed'
  BY <1>2 DEF FilesInv, Agreed, Early, Measuring, Under
<1>10. Shaded'
  BY <1>2 DEF Shaded, Measuring, Furnished
<1> QED
  BY <1>6, <1>7, <1>8, <1>9, <1>10 DEF FilesInv

\* The last search has ended: settings of this scan.
LEMMA GainFiles == ASSUME FilesInv, GainFound PROVE FilesInv'
<1>1. /\ at = "gain" /\ at' = "file" /\ coarse' = scan
      /\ UNCHANGED <<device, want, scan, skipCoarse, dpi, fine, bypass, broken>>
      /\ Stored' = Stored /\ coarseFile' = coarseFile /\ pending' = pending
  BY SameFiles DEF GainFound
<1>2. Typed'
  BY <1>1 DEF FilesInv, Typed, Points
<1>3. Paired'
  BY <1>1 DEF FilesInv, Paired, Early
<1>4. Settings'
  BY <1>1 DEF FilesInv, Typed, Settings, Early, Measuring
<1>5. Agreed'
  BY <1>1 DEF FilesInv, Agreed, Early, Measuring, Under
<1>6. Shaded'
  BY <1>1 DEF Shaded, Measuring, Furnished
<1> QED
  BY <1>2, <1>3, <1>4, <1>5, <1>6 DEF FilesInv

LEMMA RequestIs ==
  ASSUME FilesInv, at # "idle"
  PROVE  /\ want.type \in Types /\ want.depth \in Depths /\ want.dpi \in Dpis
         /\ want.calibrate \in BOOLEAN /\ want.cache \in BOOLEAN
         /\ want.calibrate => want.cache /\ want.dpi = 1
         /\ <<want.type, dpi>> \in FineKeys /\ <<want.type, want.dpi>> \in FineKeys
         /\ <<want.type, want.depth>> \in CoarseKeys
         /\ scan \in 1 .. MaxScans
  BY PrepareAssumption DEF FilesInv, Typed, Requests, FineKeys, CoarseKeys

LEMMA MeasuredIs ==
  ASSUME FilesInv, at # "idle", NEW real \in BOOLEAN
  PROVE  Measured(real) \in Data
  BY RequestIs DEF Measured, Data, FilesInv, Typed

\* What is found in the file: the two parts are of one measurement.
LEMMA FoundInFile ==
  ASSUME FilesInv, at = "file", Read("dark") # {}, Read("white") # {}
  PROVE  \E l, m \in Whole(Stored) :
            /\ OneOf(Read("dark")) = l.data /\ OneOf(Read("white")) = m.data
            /\ l.key = <<want.type, want.dpi>> /\ m.key = l.key
            /\ l.part = "dark" /\ m.part = "white"
<1>1. Stored = fineFile
  BY DEF FilesInv, Typed, Stored, Idle
<1>2. OneOf(Read("dark")) \in Read("dark") /\ OneOf(Read("white")) \in Read("white")
  BY DEF OneOf
<1>3. PICK l \in Whole(fineFile) :
        l.data = OneOf(Read("dark")) /\ l.key = <<want.type, want.dpi>> /\ l.part = "dark"
  BY <1>2 DEF Read, Samples, Whole
<1>4. PICK m \in Whole(fineFile) :
        m.data = OneOf(Read("white")) /\ m.key = <<want.type, want.dpi>> /\ m.part = "white"
  BY <1>2 DEF Read, Samples, Whole
<1> QED
  BY <1>1, <1>3, <1>4

\* Shading is taken from the file, or is going to be measured.
LEMMA FromFileFiles == ASSUME FilesInv, FromFile PROVE FilesInv'
<1> DEFINE asked == want.cache \/ device.sheetFed
           found == asked /\ ~want.calibrate /\ Read("dark") # {} /\ Read("white") # {}
           skip  == asked /\ IF want.calibrate THEN want.depth # 8
                             ELSE found \/ device.sheetFed
<1>1. /\ at = "file" /\ at' = (IF skip THEN "finish" ELSE "black2")
      /\ dpi' = want.dpi
      /\ bypass' = (device.sheetFed /\ ~found /\ ~want.calibrate)
      /\ UNCHANGED <<device, want, scan, coarse, skipCoarse, broken, unseen>>
      /\ Stored' = Stored /\ coarseFile' = coarseFile /\ pending' = pending
  BY SameFiles DEF FromFile, Same
<1>2. fine' = IF asked /\ ~want.calibrate
              THEN [dark |-> OneOf(Read("dark")),
                    white |-> IF found THEN OneOf(Read("white")) ELSE <<>>]
              ELSE fine
  BY DEF FromFile
<1>3. at' \in {"finish", "black2"}
  BY <1>1
<1> HIDE DEF asked, found, skip
<1>4. Typed'
  <2>1. fine' = [dark |-> fine'.dark, white |-> fine'.white]
    BY <1>2 DEF FilesInv, Typed
  <2>2. dpi' \in Dpis
    BY <1>1, RequestIs
  <2> QED
    BY <1>1, <1>3, <2>1, <2>2 DEF FilesInv, Typed, Points
<1>5. Paired'
  BY <1>1, <1>3 DEF FilesInv, Paired, Early
<1>6. skip => asked /\ (want.calibrate => want.depth # 8)
                    /\ (~want.calibrate => found \/ device.sheetFed)
  BY DEF skip
<1>7. ~skip => ~device.sheetFed \/ want.calibrate
  BY DEF skip, asked
<1>8. Settings'
  BY <1>1, <1>3, <1>7 DEF FilesInv, Settings, Early, Measuring
<1>9. ASSUME Renewing, ~want.calibrate, ~broken, NEW l \in EightBit(Stored)
      PROVE  l.key[1] # want.type
  BY <1>1, <1>9 DEF FilesInv, Agreed, Settings, Under, Renewing
<1>10. Agreed'
  <2> SUFFICES ASSUME ~broken PROVE Agreed'
    BY <1>1 DEF Agreed
  <2>1. \A l \in EightBit(Stored) : Under(l, coarseFile)
    BY <1>1 DEF FilesInv, Agreed
  <2>2. Renewing' = Renewing /\ \A l : Renewed(l)' = Renewed(l)
    BY <1>1 DEF Renewing, Renewed
  <2>3. at' = "finish" /\ Renewing => ~want.calibrate
    BY <1>1, <1>6 DEF Renewing
  <2>4. want.calibrate => \A l \in EightBit(Stored) : ~(l.key[2] < dpi')
    <3> SUFFICES ASSUME want.calibrate, NEW l \in EightBit(Stored) PROVE ~(l.key[2] < dpi')
      OBVIOUS
    <3>1. l.key[2] \in Dpis
      BY WholeLines DEF EightBit, FilesInv, Typed
    <3> QED
      BY <1>1, <3>1, RequestIs, FilesAssumption DEF Dpis
  <2> QED
    BY <1>1, <1>3, <1>9, <2>1, <2>2, <2>3, <2>4 DEF Agreed, Early, Measuring, Under
<1>11. ASSUME at' = "finish", ~want.calibrate, ~bypass' PROVE Fitting'
  <2>1. found
    BY <1>1, <1>6, <1>11
  <2>2. asked /\ Read("dark") # {} /\ Read("white") # {}
    BY <2>1 DEF found
  <2>3. PICK l, m \in Whole(Stored) :
          /\ OneOf(Read("dark")) = l.data /\ OneOf(Read("white")) = m.data
          /\ l.key = <<want.type, want.dpi>> /\ m.key = l.key
          /\ l.part = "dark" /\ m.part = "white"
    BY <1>1, <2>2, FoundInFile
  <2>4. fine'.dark = l.data /\ fine'.white = m.data
    BY <1>2, <1>11, <2>1, <2>2, <2>3
  <2>5. /\ l.data.key = l.key /\ [l.data EXCEPT !.real = TRUE] = m.data
        /\ l.data.scan < scan
    BY <1>1, <2>3 DEF FilesInv, Paired
  <2>6. l.data.scan # scan
    BY <1>1, <2>5, WholeLines, RequestIs DEF FilesInv, Typed
  <2>7. ASSUME ~broken, want.depth = 8, m.data.depth = 8, ~device.sheetFed
        PROVE  m.data.settings = coarse
    <3>1. Under(m, coarseFile) /\ m.key[1] = want.type
      BY <1>1, <2>3, <2>7 DEF FilesInv, Agreed, EightBit
    <3>2. want.cache
      BY <2>2, <2>7 DEF asked
    <3>3. /\ coarseFile[want.type, want.depth] # 0
          /\ coarseFile[want.type, want.depth] = m.data.settings
      BY <2>7, <3>1 DEF Under
    <3>4. skipCoarse
      BY <1>1, <1>11, <3>2, <3>3 DEF FilesInv, Settings
    <3> QED
      BY <1>1, <2>7, <3>3, <3>4 DEF FilesInv, Settings
  <2> QED
    BY <1>1, <2>3, <2>4, <2>5, <2>6, <2>7 DEF Fitting
<1>12. Shaded'
  BY <1>1, <1>3, <1>11 DEF Shaded, Measuring, Furnished
<1> QED
  BY <1>4, <1>5, <1>8, <1>10, <1>12 DEF FilesInv

LEMMA DarkFiles == ASSUME FilesInv, DarkRead PROVE FilesInv'
<1>1. /\ at = "dark" /\ at' = "white3"
      /\ UNCHANGED <<device, want, scan, coarse, skipCoarse, dpi, bypass, broken>>
      /\ Stored' = Stored /\ coarseFile' = coarseFile /\ pending' = pending
  BY SameFiles DEF DarkRead
<1>2. PICK real \in BOOLEAN :
        fine' = [fine EXCEPT !.dark = Measured(real)] /\ (real \/ unseen' \/ escape')
  BY DEF DarkRead
<1>3. fine' = [dark |-> Measured(real), white |-> fine.white]
  BY <1>2 DEF FilesInv, Typed
<1>4. Typed'
  BY <1>1, <1>3 DEF FilesInv, Typed, Points
<1>5. Paired'
  BY <1>1 DEF FilesInv, Paired, Early
<1>6. Settings'
  BY <1>1 DEF FilesInv, Settings, Early, Measuring
<1>7. Agreed'
  BY <1>1 DEF FilesInv, Agreed, Early, Measuring, Under, Renewed, Renewing
<1>8. Shaded'
  <2>1. Measured(real)' = Measured(real)
    BY <1>1 DEF Measured
  <2> QED
    BY <1>1, <1>2, <1>3, <2>1 DEF FilesInv, Shaded, Measuring, Furnished
<1> QED
  BY <1>4, <1>5, <1>6, <1>7, <1>8 DEF FilesInv

\* The fine file with a new measurement in it.
LEMMA FineFileSaved ==
  ASSUME FilesInv, at # "idle", pending = Idle,
         NEW a \in Data, NEW b \in Data,
         SaveFine(<<want.type, dpi>>, a, b)
  PROVE  LET key == <<want.type, dpi>>
             new == {Line(key, "dark", a), Line(key, "white", b)}
         IN  /\ Stored' \in Seq(Lines)
             /\ Last(Stored').key = key
             /\ Whole(Stored') \subseteq {l \in Whole(Stored) : l.key # key} \cup new
             /\ {l \in Whole(Stored) : l.key # key} \subseteq Whole(Stored')
             /\ pending'.what = "fine" /\ pending' # Idle
<1> DEFINE key == <<want.type, dpi>>
           A == Line(key, "dark", a)
           B == Line(key, "white", b)
           R == OtherLines(fineFile, key)
<1>1. Stored = fineFile /\ fineFile \in Seq(Lines)
  BY DEF FilesInv, Typed, Stored, Idle
<1>2. A \in Lines /\ B \in Lines /\ B.how = "whole" /\ B.key = key
  BY RequestIs DEF Line, Lines, Conditions
<1>3. R \in Seq(Lines) /\ Whole(R) = {l \in Whole(Stored) : l.key # key}
  <2>1. /\ R \in Seq(Lines)
        /\ ToSet(R) = {l \in ToSet(fineFile) : l.key # key}
    BY <1>1, OtherLinesAre
  <2> HIDE DEF R, key
  <2> QED
    BY <1>1, <2>1 DEF Whole
<1>4. pending' = [what |-> "fine", text |-> Appended(R, <<A, B>>)]
  BY DEF SaveFine
<1>5. Stored' = Appended(R, <<A, B>>) /\ pending'.what = "fine" /\ pending' # Idle
  BY <1>4 DEF Stored, Idle
<1> HIDE DEF A, B, R
<1>6. /\ Stored' \in Seq(Lines)
      /\ Last(Stored') = B
      /\ Whole(R) \cup {B} \subseteq Whole(Stored')
      /\ Whole(Stored') \subseteq Whole(R) \cup {A, B}
  <2> DEFINE t == AppendedTwo(R, A, B)
  <2>1. R \in Seq(Lines)
    BY <1>3
  <2>2. A \in Lines /\ B \in Lines /\ B.how = "whole"
    BY <1>2
  <2>3. /\ t \in Seq(Lines) /\ Last(t) = B
        /\ Whole(R) \cup {B} \subseteq Whole(t)
        /\ Whole(t) \subseteq Whole(R) \cup {A, B}
    BY <2>1, <2>2, AppendedLines
  <2> QED
    BY <1>5, <2>3 DEF AppendedTwo
<1> QED
  BY <1>2, <1>3, <1>5, <1>6 DEF A, B

\* The measurement is complete and goes into the fine file.
LEMMA WhiteFiles == ASSUME FilesInv, WhiteRead PROVE FilesInv'
<1> DEFINE key == <<want.type, dpi>>
           old == {l \in Whole(Stored) : l.key # key}
           a == Line(key, "dark", fine.dark)
           b == Line(key, "white", Measured(TRUE))
<1>1. /\ at = "white" /\ ~escape /\ at' \in {"saving", "next"}
      /\ fine' = [dark |-> fine.dark, white |-> Measured(TRUE)]
      /\ UNCHANGED <<device, want, scan, coarse, skipCoarse, dpi, bypass, broken, unseen>>
      /\ coarseFile' = coarseFile
      /\ at' = "saving" <=> want.cache
  <2>1. fine' = [dark |-> fine.dark, white |-> Measured(TRUE)]
    BY DEF WhiteRead, FilesInv, Typed
  <2>2. want.cache \in BOOLEAN
    BY RequestIs DEF WhiteRead
  <2> QED
    BY <2>1, <2>2 DEF WhiteRead, SaveFine, fileVars
<1>2. PICK real \in BOOLEAN : fine.dark = Measured(real) /\ (real \/ unseen)
  BY <1>1 DEF FilesInv, Shaded
<1>3. pending = Idle
  BY <1>1 DEF FilesInv, Typed
<1>4. /\ Stored' \in Seq(Lines)
      /\ at' = "saving" => Whole(Stored') \subseteq old \cup {a, b}
      /\ at' = "next" => Stored' = Stored
      /\ at' = "saving" => pending'.what = "fine" /\ pending' # Idle
      /\ at' = "next" => pending' = Idle
  <2>1. CASE at' = "saving"
    <3>1. SaveFine(key, fine.dark, Measured(TRUE))
      BY <1>1, <2>1 DEF WhiteRead
    <3>2. fine.dark \in Data /\ Measured(TRUE) \in Data
      BY <1>1, <1>2, MeasuredIs
    <3> QED
      BY <1>1, <1>3, <2>1, <3>1, <3>2, FineFileSaved
  <2>2. CASE at' = "next"
    <3>1. UNCHANGED fileVars
      BY <1>1, <2>2 DEF WhiteRead
    <3> QED
      BY <1>3, <2>2, <3>1, SameFiles DEF FilesInv, Typed
  <2> QED
    BY <1>1, <2>1, <2>2
<1>5. /\ a.key = key /\ b.key = key /\ a.part = "dark" /\ b.part = "white"
      /\ a.data = Measured(real) /\ b.data = Measured(TRUE)
  BY <1>2 DEF Line
<1>6. /\ [Measured(real) EXCEPT !.real = TRUE] = Measured(TRUE)
      /\ \A r \in BOOLEAN : /\ Measured(r).key = key /\ Measured(r).scan = scan
                            /\ Measured(r).settings = coarse
                            /\ Measured(r).depth = want.depth /\ Measured(r).real = r
  <2>1. ASSUME NEW r \in BOOLEAN
        PROVE  /\ Measured(r).key = key /\ Measured(r).scan = scan
               /\ Measured(r).settings = coarse
               /\ Measured(r).depth = want.depth /\ Measured(r).real = r
    BY DEF Measured
  <2>2. [Measured(real) EXCEPT !.real = TRUE] = Measured(TRUE)
    <3>1. \A v : [Measured(real) EXCEPT !.real = v] = Measured(v)
      <4> SUFFICES ASSUME NEW r, NEW v
                   PROVE  [Measured(r) EXCEPT !.real = v] = Measured(v)
        OBVIOUS
      <4> QED
        BY DEF Measured
    <3> DEFINE yes == TRUE
    <3> HIDE DEF yes
    <3>2. [Measured(real) EXCEPT !.real = yes] = Measured(yes)
      BY <3>1
    <3> QED
      BY <3>2 DEF yes
  <2> QED
    BY <2>1, <2>2
<1> HIDE DEF a, b, old
<1>7. Typed'
  BY <1>1, <1>4 DEF FilesInv, Typed, Points
<1>8. Paired'
  <2>1. CASE at' = "next"
    BY <1>1, <1>4, <2>1 DEF FilesInv, Paired, Early
  <2>2. CASE at' = "saving"
    <3>1. Whole(Stored') \subseteq old \cup {a, b}
      BY <1>4, <2>2
    <3>2. ASSUME NEW l \in Whole(Stored')
          PROVE  l.data.key = l.key /\ l.data.scan <= scan
      <4>1. CASE l \in old
        BY <4>1 DEF FilesInv, Paired, old
      <4>2. CASE l \in {a, b}
        <5>1. l.key = key /\ l.data.key = key /\ l.data.scan = scan
          BY <1>5, <1>6, <4>2
        <5> QED
          BY <1>1, <5>1, RequestIs
      <4> QED
        BY <3>1, <4>1, <4>2
    <3>3. ASSUME NEW l \in Whole(Stored'), NEW m \in Whole(Stored'),
                 l.key = m.key, l.part = "dark", m.part = "white"
          PROVE  [l.data EXCEPT !.real = TRUE] = m.data
      <4>1. CASE l \in old /\ m \in old
        BY <3>3, <4>1 DEF FilesInv, Paired, old
      <4>2. CASE l \in {a, b} /\ m \in {a, b}
        BY <1>5, <1>6, <3>3, <4>2
      <4>3. CASE (l \in old /\ m \in {a, b}) \/ (l \in {a, b} /\ m \in old)
        BY <1>5, <3>3, <4>3 DEF old
      <4> QED
        BY <3>1, <4>1, <4>2, <4>3
    <3> QED
      BY <1>1, <2>2, <3>2, <3>3 DEF Paired, Early
  <2> QED
    BY <1>1, <2>1, <2>2
<1>9. Settings'
  BY <1>1 DEF FilesInv, Settings, Early, Measuring
<1>10. Agreed'
  <2> SUFFICES ASSUME ~broken PROVE Agreed'
    BY <1>1 DEF Agreed
  <2>1. /\ Renewing' = Renewing
        /\ \A l : /\ Renewed(l)' = Renewed(l)
                  /\ Under(l, coarseFile)' = Under(l, coarseFile)
    BY <1>1 DEF Renewing, Renewed, Under
  <2>2. CASE at' = "next"
    <3>1. ~Renewing
      BY <1>1, <2>2 DEF Renewing
    <3> QED
      BY <1>1, <1>4, <2>1, <2>2, <3>1 DEF FilesInv, Agreed, Early, Measuring
  <2>3. CASE at' = "saving"
    <3>1. ASSUME NEW l \in EightBit(Stored'), l \notin old
          PROVE  l.key = key /\ l.data.settings = coarse /\ want.depth = 8
      <4>1. l \in {a, b} /\ l.data.depth = 8
        BY <1>4, <2>3, <3>1 DEF EightBit
      <4> QED
        BY <1>5, <1>6, <4>1
    <3>2. ASSUME NEW l \in EightBit(Stored'), l \notin old
          PROVE  Under(l, coarseFile) \/ Renewed(l)
      <4>1. l.key[1] = want.type /\ l.data.settings = coarse /\ want.depth = 8 /\ want.cache
        BY <1>1, <2>3, <3>1, <3>2
      <4>2. CASE skipCoarse
        <5>1. ~want.calibrate /\ ~device.sheetFed
          BY <1>1, <4>2 DEF FilesInv, Settings, Measuring
        <5> QED
          BY <1>1, <4>1, <4>2, <5>1 DEF FilesInv, Settings, Measuring, Under
      <4>3. CASE ~skipCoarse
        BY <4>1, <4>3 DEF Renewed, Renewing
      <4> QED
        BY <4>2, <4>3
    <3>3. ASSUME NEW l \in EightBit(Stored'), l \in old
          PROVE  l \in EightBit(Stored) /\ l.key # key
      BY <3>3 DEF EightBit, old
    <3>4. ASSUME NEW l \in EightBit(Stored') PROVE Under(l, coarseFile) \/ Renewed(l)
      BY <1>1, <3>2, <3>3 DEF FilesInv, Agreed, Measuring
    <3>5. ASSUME Renewing, NEW l \in EightBit(Stored'), l.key[1] = want.type,
                 l.key[2] < dpi \/ l.key[2] = dpi
          PROVE  Renewed(l)
      <4>1. CASE l \in old
        <5>1. l \in EightBit(Stored) /\ l.key # key
          BY <3>3, <4>1
        <5>2. l.key = <<l.key[1], l.key[2]>>
          BY <5>1, WholeLines DEF EightBit, FilesInv, Typed
        <5>3. l.key[2] < dpi
          BY <3>5, <5>1, <5>2
        <5> QED
          BY <1>1, <3>5, <5>1, <5>3 DEF FilesInv, Agreed, Measuring
      <4>2. CASE l \notin old
        BY <3>1, <3>5, <4>2 DEF Renewed
      <4> QED
        BY <4>1, <4>2
    <3> QED
      BY <1>1, <2>1, <2>3, <3>4, <3>5 DEF Agreed, Early, Measuring
  <2> QED
    BY <1>1, <2>2, <2>3
<1>11. Shaded'
  <2>1. ASSUME ~want.calibrate PROVE Fitting' /\ dpi = want.dpi
    <3>1. dpi = want.dpi
      BY <1>1, <2>1 DEF FilesInv, Shaded, Measuring
    <3>2. fine'.dark = Measured(real) /\ fine'.white = Measured(TRUE)
      BY <1>1, <1>2
    <3> QED
      BY <1>1, <1>2, <1>6, <3>1, <3>2 DEF Fitting
  <2> QED
    BY <1>1, <2>1 DEF Shaded, Measuring, Furnished
<1> QED
  BY <1>7, <1>8, <1>9, <1>10, <1>11 DEF FilesInv

LEMMA FineSavedFiles == ASSUME FilesInv, FineSaved PROVE FilesInv'
<1>1. /\ at = "saving" /\ at' = "next"
      /\ UNCHANGED <<device, want, scan, coarse, skipCoarse, dpi, fine, bypass, broken,
                     unseen>>
  BY DEF FineSaved, Goes, Same, data
<1>2. pending' = Idle /\ Stored' = Stored /\ coarseFile' = coarseFile
  <2>1. pending.what = "fine" /\ pending # Idle
    BY <1>1 DEF FilesInv, Typed
  <2> QED
    BY <2>1 DEF FineSaved, Written, Stored, Idle
<1>3. Typed'
  BY <1>1, <1>2 DEF FilesInv, Typed, Points
<1>4. Paired'
  BY <1>1, <1>2 DEF FilesInv, Paired, Early
<1>5. Settings'
  BY <1>1, <1>2 DEF FilesInv, Settings, Early, Measuring
<1>6. Agreed'
  BY <1>1, <1>2 DEF FilesInv, Agreed, Early, Measuring, Under, Renewed, Renewing
<1>7. Shaded'
  <2>1. Fitting => Fitting'
    BY <1>1 DEF Fitting
  <2> QED
    BY <1>1, <2>1 DEF FilesInv, Shaded, Measuring, Furnished
<1> QED
  BY <1>3, <1>4, <1>5, <1>6, <1>7 DEF FilesInv

\* A calibration goes on to the next resolution.
LEMMA NextDpiFiles == ASSUME FilesInv, NextDpi PROVE FilesInv'
<1>1. /\ at = "next" /\ at' \in {"black2", "finish"}
      /\ UNCHANGED <<device, want, scan, coarse, skipCoarse, fine, bypass, broken, unseen>>
      /\ at' = "black2" => want.calibrate /\ dpi < MaxDpi /\ dpi' = dpi + 1
      /\ at' = "finish" => dpi' = dpi /\ ~(want.calibrate /\ dpi < MaxDpi)
      /\ Stored' = Stored /\ coarseFile' = coarseFile /\ pending' = pending
  BY SameFiles DEF NextDpi, Same
<1>2. dpi \in Nat /\ dpi \in Dpis /\ dpi' \in Dpis /\ MaxDpi \in Nat
  BY <1>1, FilesAssumption DEF FilesInv, Typed, Dpis
<1>3. Typed'
  BY <1>1, <1>2 DEF FilesInv, Typed, Points
<1>4. Paired'
  BY <1>1 DEF FilesInv, Paired, Early
<1>5. Settings'
  BY <1>1 DEF FilesInv, Settings, Early, Measuring
<1>6. Agreed'
  <2> SUFFICES ASSUME ~broken PROVE Agreed'
    BY <1>1 DEF Agreed
  <2>1. /\ Renewing' = Renewing
        /\ \A l : /\ Renewed(l)' = Renewed(l)
                  /\ Under(l, coarseFile)' = Under(l, coarseFile)
    BY <1>1 DEF Renewing, Renewed, Under
  <2>2. \A l \in EightBit(Stored) : Under(l, coarseFile) \/ Renewed(l)
    BY <1>1 DEF FilesInv, Agreed, Measuring
  <2>3. ASSUME Renewing, NEW l \in EightBit(Stored), l.key[1] = want.type,
               l.key[2] < dpi \/ l.key[2] = dpi
        PROVE  Renewed(l)
    BY <1>1, <2>3 DEF FilesInv, Agreed, Measuring
  <2>4. ASSUME NEW l \in EightBit(Stored) PROVE l.key[2] \in Dpis
    BY WholeLines DEF EightBit, FilesInv, Typed
  <2>5. ASSUME at' = "black2", Renewing, NEW l \in EightBit(Stored), l.key[1] = want.type,
               l.key[2] < dpi'
        PROVE  Renewed(l)
    <3>1. l.key[2] < dpi \/ l.key[2] = dpi
      BY <1>1, <1>2, <2>4, <2>5 DEF Dpis
    <3> QED
      BY <2>3, <2>5, <3>1
  <2>6. ASSUME at' = "finish", Renewing, NEW l \in EightBit(Stored), l.key[1] = want.type
        PROVE  Renewed(l)
    <3>1. CASE want.calibrate
      <4>1. l.key[2] < dpi \/ l.key[2] = dpi
        BY <1>1, <1>2, <2>4, <2>6, <3>1 DEF Dpis
      <4> QED
        BY <2>3, <2>6, <4>1
    <3>2. CASE ~want.calibrate
      BY <1>1, <2>2, <2>6, <3>2 DEF FilesInv, Settings, Measuring, Renewing, Under
    <3> QED
      BY <3>1, <3>2
  <2> QED
    BY <1>1, <2>1, <2>2, <2>5, <2>6 DEF Agreed, Early, Measuring
<1>7. Shaded'
  <2>1. Fitting => Fitting'
    BY <1>1 DEF Fitting
  <2> QED
    BY <1>1, <2>1 DEF FilesInv, Shaded, Measuring, Furnished
<1> QED
  BY <1>3, <1>4, <1>5, <1>6, <1>7 DEF FilesInv

\* The new settings go into the coarse file.
LEMMA FinishFiles == ASSUME FilesInv, Finish PROVE FilesInv'
<1>1. /\ at = "finish"
      /\ UNCHANGED <<device, want, scan, coarse, skipCoarse, dpi, fine, bypass, broken>>
      /\ unseen => unseen'
      /\ fineFile' = fineFile
      /\ pending = Idle
  BY DEF Finish, Same, data, FilesInv, Typed, SaveCoarse, fileVars
<1>2. Stored = fineFile /\ Stored' = Stored
  BY <1>1 DEF Finish, SaveCoarse, Stored, Idle, fileVars
<1>3. want.cache \in BOOLEAN /\ want.type \in Types /\ want.depth \in Depths
      /\ <<want.type, want.depth>> \in CoarseKeys
  BY <1>1, RequestIs
<1>4. Paired'
  BY <1>1, <1>2 DEF FilesInv, Paired, Finish, Early
<1>5. Fitting => Fitting'
  BY <1>1 DEF Fitting
<1>6. Shaded'
  BY <1>1, <1>5 DEF FilesInv, Shaded, Finish, Measuring, Furnished
<1>7. CASE want.cache /\ ~skipCoarse
  <2> DEFINE text == [coarseFile EXCEPT ![<<want.type, want.depth>>] = coarse]
  <2>1. /\ at' = "saving2" /\ pending' = [what |-> "coarse", text |-> text]
        /\ coarseFile' = [k \in CoarseKeys |-> 0]
    BY <1>7 DEF Finish, SaveCoarse
  <2>2. coarseFile \in [CoarseKeys -> 0 .. MaxScans] /\ coarse \in 0 .. MaxScans
    BY DEF FilesInv, Typed
  <2>3. text \in [CoarseKeys -> 0 .. MaxScans]
    BY <1>3, <2>2
  <2>4. coarseFile' \in [CoarseKeys -> 0 .. MaxScans]
    BY <2>1, PrepareAssumption
  <2>5. Typed'
    <3>1. pending'.text = text
      BY <2>1
    <3> HIDE DEF text
    <3> QED
      BY <1>1, <1>2, <1>7, <2>1, <2>3, <2>4, <3>1 DEF FilesInv, Typed, Points
  <2>6. Settings'
    BY <1>1, <1>7, <2>1 DEF FilesInv, Settings, Early, Measuring
  <2>7. ASSUME ~broken, NEW l \in EightBit(Stored) PROVE Under(l, text)
    <3>1. l.key[1] \in Types /\ 8 \in Depths
      BY WholeLines DEF EightBit, FilesInv, Typed
    <3>2. <<l.key[1], 8>> \in CoarseKeys
      BY <3>1 DEF CoarseKeys
    <3>3. CASE want.depth = 8 /\ l.key[1] = want.type
      <4>1. l.data.settings = coarse
        BY <1>1, <1>7, <2>7, <3>3 DEF FilesInv, Agreed, Renewed, Renewing
      <4>2. coarse # 0
        BY <1>1, <1>7 DEF FilesInv, Settings
      <4>3. text[l.key[1], 8] = coarse
        BY <2>2, <3>2, <3>3
      <4> QED
        BY <4>1, <4>2, <4>3 DEF Under
    <3>4. CASE ~(want.depth = 8 /\ l.key[1] = want.type)
      <4>1. Under(l, coarseFile)
        BY <1>1, <2>7, <3>4 DEF FilesInv, Agreed, Renewed, Renewing
      <4>2. text[l.key[1], 8] = coarseFile[l.key[1], 8]
        <5>1. <<l.key[1], 8>> # <<want.type, want.depth>>
          BY <3>4
        <5> QED
          BY <2>2, <3>2, <5>1
      <4> QED
        BY <4>1, <4>2 DEF Under
    <3> QED
      BY <3>3, <3>4
  <2>8. Agreed'
    <3>1. pending'.text = text
      BY <2>1
    <3> HIDE DEF text
    <3> QED
      BY <1>1, <1>2, <2>1, <2>7, <3>1 DEF Agreed, Early, Measuring, Under
  <2> QED
    BY <1>4, <1>6, <2>5, <2>6, <2>8 DEF FilesInv
<1>8. CASE ~(want.cache /\ ~skipCoarse)
  <2>1. at' = "ready" /\ pending' = pending /\ coarseFile' = coarseFile
    BY <1>8 DEF Finish, fileVars
  <2>2. Typed'
    BY <1>1, <1>2, <2>1 DEF FilesInv, Typed, Points
  <2>3. Settings'
    BY <1>1, <2>1 DEF FilesInv, Settings, Early, Measuring
  <2>4. Agreed'
    BY <1>1, <1>2, <1>8, <2>1
       DEF FilesInv, Agreed, Early, Measuring, Under, Renewed, Renewing
  <2> QED
    BY <1>4, <1>6, <2>2, <2>3, <2>4 DEF FilesInv
<1> QED
  BY <1>7, <1>8

LEMMA CoarseSavedFiles == ASSUME FilesInv, CoarseSaved PROVE FilesInv'
<1>1. /\ at = "saving2" /\ at' = "ready"
      /\ UNCHANGED <<device, want, scan, coarse, skipCoarse, dpi, fine, bypass, broken,
                     unseen>>
  BY DEF CoarseSaved, Goes, Same, data
<1>2. /\ pending = [what |-> "coarse", text |-> pending.text]
      /\ pending.text \in [CoarseKeys -> 0 .. MaxScans]
  BY <1>1 DEF FilesInv, Typed
<1>3. pending' = Idle /\ coarseFile' = pending.text /\ Stored' = Stored
  BY <1>2 DEF CoarseSaved, Written, Stored, Idle
<1>4. Typed'
  BY <1>1, <1>2, <1>3 DEF FilesInv, Typed, Points
<1>5. Paired'
  BY <1>1, <1>3 DEF FilesInv, Paired, Early
<1>6. Settings'
  BY <1>1 DEF FilesInv, Settings, Early, Measuring
<1>7. Agreed'
  BY <1>1, <1>3 DEF FilesInv, Agreed, Early, Measuring, Under
<1>8. Shaded'
  <2>1. Fitting => Fitting'
    BY <1>1 DEF Fitting
  <2> QED
    BY <1>1, <2>1 DEF FilesInv, Shaded, Measuring, Furnished
<1> QED
  BY <1>4, <1>5, <1>6, <1>7, <1>8 DEF FilesInv

LEMMA FilesInvariance == Spec => []FilesInv
<1>1. FilesInv /\ [Next]_vars => FilesInv'
  <2>1. FilesInv => Typed
    BY DEF FilesInv
  <2> QED
    BY <2>1, StepKinds, QuietFiles, GoneFiles, BeginFiles, GainFiles, FromFileFiles,
       DarkFiles, WhiteFiles, FineSavedFiles, NextDpiFiles, FinishFiles,
       CoarseSavedFiles, ReadyFiles
<1> QED
  BY <1>1, InitFiles, PTL DEF Spec
-----------------------------------------------------------------------------
(* The theorems.                                                           *)

\* Whatever a sensor shows, no search leaves the range of its register.
THEOREM SettingsAlwaysInRange == Spec => []SettingsInRange
<1>1. SearchInv => SettingsInRange
  BY DEF SearchInv
<1> QED
  BY <1>1, Searching, PTL

\* On a steady sensor a search that ends has found a setting, if there is one.
THEOREM SearchesAlwaysFind == Spec => []SearchFinds
<1>1. SearchInv => SearchFinds
  BY DEF SearchInv
<1> QED
  BY <1>1, Searching, PTL

\* The lamp is never raised beyond what the register takes, so that the ways
\* out of cano_AdjustLightsource for that case are not taken.
THEOREM LampNeverLimited == Spec => []NeverLimited
<1>1. SearchInv => NeverLimited
  <2> SUFFICES ASSUME SearchInv, search = "lamp", NEW c \in Channels
               PROVE  ~Limited(bracket[c], "dark")
    BY DEF NeverLimited
  <2>1. bracket[c] \in Brackets
    BY DEF SearchInv, SearchTypeOK, Brackets
  <2>2. Within(bracket[c], LampLow, LampMax)
    BY DEF SearchInv, SettingsInRange, Within, Low, High
  <2> QED
    BY <2>1, <2>2, LampInside DEF Levels
<1> QED
  BY <1>1, Searching, PTL

\* Every measurement is made in the light it needs, on every kind of device and
\* whatever was found in the files.
THEOREM AlwaysRightLight == Spec => []RightLight
<1>1. SearchInv /\ Placed => RightLight
  <2> SUFFICES ASSUME SearchInv, Placed, ~unseen PROVE RightLight
    BY DEF RightLight
  <2> QED
    BY DeviceKinds
       DEF RightLight, Dark, Light, Placed, Places, OnWhite, InDark
<1> QED
  BY <1>1, Invariance, PTL

\* A preparation that succeeds has sent the sensor home and left the lamp on.
THEOREM AlwaysEndsHome == Spec => []EndsHome
<1>1. Placed => EndsHome
  BY DEF EndsHome, Placed, Places
<1> QED
  BY <1>1, Invariance, PTL

\* The shading a scan begins with is its own, of one measurement, and, with 8
\* bits, of the settings in use, whatever was found in the files and whoever was
\* killed while saving them.
THEOREM ShadingAlwaysFits == Spec => []ShadingFits
<1>1. FilesInv => ShadingFits
  BY DEF FilesInv, Shaded, ShadingFits, Fitting, Furnished
<1> QED
  BY <1>1, FilesInvariance, PTL

\* At rest the two files agree, unless a calibration was broken off.
THEOREM FilesAlwaysAgree == Spec => []FilesAgree
<1>1. FilesInv => FilesAgree
  <2> SUFFICES ASSUME FilesInv, at = "idle", ~broken, NEW l \in ToSet(fineFile),
                      l.how = "whole", l.data.depth = 8
               PROVE  coarseFile[l.key[1], 8] \in {0, l.data.settings}
    BY DEF FilesAgree
  <2>1. Stored = fineFile
    BY DEF FilesInv, Typed, Stored, Idle
  <2>2. l \in EightBit(Stored)
    BY <2>1 DEF EightBit, Whole
  <2> QED
    BY <2>2 DEF FilesInv, Agreed, Under
<1> QED
  BY <1>1, FilesInvariance, PTL

\* Saving the shading of one key costs no other that could be read.
THEOREM OthersAlwaysKept == Spec => OthersKept
<1> DEFINE Kept ==
      pending = Idle /\ pending'.what = "fine" =>
         \A k \in FineKeys, part \in {"dark", "white"} :
            \/ Samples(pending'.text, k, part) = Samples(fineFile, k, part)
            \/ k = Last(pending'.text).key
<1>1. ASSUME FilesInv, [Next]_vars, pending = Idle, pending'.what = "fine"
      PROVE  WhiteRead
  <2>1. Typed
    BY <1>1 DEF FilesInv
  <2>2. pending' # Idle
    BY <1>1 DEF Idle
  <2>3. ~(Quiet \/ Gone \/ Begin \/ GainFound \/ FromFile \/ DarkRead \/ NextDpi \/ Ready)
    BY <1>1, <2>2 DEF Quiet, Gone, Begin, GainFound, FromFile, DarkRead, NextDpi, Ready,
                      fileVars
  <2>4. ~(FineSaved \/ CoarseSaved)
    BY <1>1 DEF FineSaved, CoarseSaved, Written
  <2>5. ~Finish
    BY <1>1, <2>2 DEF Finish, SaveCoarse, fileVars
  <2> QED
    BY <1>1, <2>1, <2>3, <2>4, <2>5, StepKinds
<1>2. FilesInv /\ [Next]_vars => [Kept]_fileVars
  <2> SUFFICES ASSUME FilesInv, [Next]_vars, pending = Idle, pending'.what = "fine",
                      NEW k \in FineKeys, NEW part \in {"dark", "white"},
                      k # Last(pending'.text).key
               PROVE  Samples(pending'.text, k, part) = Samples(fineFile, k, part)
    OBVIOUS
  <2>1. WhiteRead
    BY <1>1
  <2>2. at = "white" /\ pending' # pending
    BY <2>1 DEF WhiteRead, Idle
  <2>3. want.cache
    BY <2>1, <2>2 DEF WhiteRead, fileVars
  <2>4. PICK real \in BOOLEAN : fine.dark = Measured(real)
    BY <2>2 DEF FilesInv, Shaded
  <2>5. fine' = [dark |-> fine.dark, white |-> Measured(TRUE)]
    BY <2>1 DEF WhiteRead, FilesInv, Typed
  <2>6. SaveFine(<<want.type, dpi>>, fine.dark, Measured(TRUE))
    BY <2>1, <2>3, <2>5 DEF WhiteRead
  <2>7. fine.dark \in Data /\ Measured(TRUE) \in Data
    BY <2>2, <2>4, MeasuredIs
  <2> DEFINE key == <<want.type, dpi>>
             new == {Line(key, "dark", fine.dark), Line(key, "white", Measured(TRUE))}
  <2>8. /\ Last(Stored').key = key
        /\ Whole(Stored') \subseteq {l \in Whole(Stored) : l.key # key} \cup new
        /\ {l \in Whole(Stored) : l.key # key} \subseteq Whole(Stored')
    BY <2>2, <2>6, <2>7, FineFileSaved
  <2>9. Stored' = pending'.text /\ Stored = fineFile
    BY DEF Stored, Idle
  <2>10. \A l \in new : l.key = key
    <3>1. \A p, d : Line(key, p, d).key = key
      BY DEF Line
    <3> QED
      BY <3>1
  <2> HIDE DEF key, new
  <2>11. k # key
    BY <2>8, <2>9
  <2>12. \A l : l \in Whole(pending'.text) /\ l.key = k <=> l \in Whole(fineFile) /\ l.key = k
    BY <2>8, <2>9, <2>10, <2>11
  <2> QED
    BY <2>12 DEF Samples, Whole
<1>3. FilesInv /\ [Next]_vars => [Kept]_fileVars
  BY <1>2
<1> QED
  BY <1>3, FilesInvariance, PTL DEF Spec, OthersKept
=============================================================================
