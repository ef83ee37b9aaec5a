---------------------------- MODULE OptionsProofs ----------------------------
(***************************************************************************)
(* Safety of Options for every set of devices, configurations, resolutions *)
(* and positions, and frontends that set any options.  What it needs is in *)
(* Plain: no device makes lineart from color, and a frontend turns the     *)
(* source back to normal before it closes its handle.                      *)
(***************************************************************************)
EXTENDS Options, TLAPS

Plain == CarefulClose /\ \A d \in Devices : ~d.binFromColor

Numbers == Corners \cup {"MODE", "BIT_DEPTH", "EXT_MODE", "RESOLUTION"}

Types ==
    /\ device \in Devices
    /\ adj \in [cache : BOOLEAN, skip : BOOLEAN, slow : BOOLEAN, gain : -1 .. 63, warmup : Int]
    /\ fromColor \in {0, 2}
    /\ desc \in BOOLEAN
    /\ DOMAIN val = Valued
    /\ \A o \in Numbers : val[o] \in Int
    /\ \A o \in Switches : val[o] \in BOOLEAN
    /\ active \subseteq Opts
    /\ table \in [Vectors -> {"preset", "own"}]

\* The limits are those of the source, which is normal without a handle.
Limits ==
    /\ ~open => val["EXT_MODE"] = 0 /\ ~scanning
    /\ val["EXT_MODE"] \in 0 .. 2
    /\ val["MODE"] \in 0 .. (IF val["EXT_MODE"] = 0 THEN 2 ELSE 0)
    /\ val["BIT_DEPTH"] \in {8, 16}
    /\ dpiMin = IF val["EXT_MODE"] = 0 THEN 50 ELSE 150
    /\ val["EXT_MODE"] = 0 => extent = device.extent
    /\ \A a \in Axes : extent[a] \in Nat
    /\ \A o \in Corners : val[o] \in 0 .. extent[AxisOf(o)]
    /\ val["RESOLUTION"] % 25 = 0
    /\ val["RESOLUTION"] \in 50 .. 2 * device.optic

\* What does not depend on the mode having been set after the source.
Offered ==
    open =>
        /\ "CALIBRATE" \in active => val["CACHECAL"] /\ (device.cis \/ device.altCal)
        /\ active \cap Vectors # {} => val["CUSTOM_GAMMA"]

Inv == Types /\ Limits /\ Offered /\ ActiveFits /\ UsedAsShown /\ ParamsHold

-----------------------------------------------------------------------------
\* The list of resolutions has the maximum of the range, and its neighbours are
\* not farther than half a step.
LEMMA NearestInList ==
    ASSUME NEW x \in Int, NEW hi \in Int, x >= 50, x <= hi, hi % 25 = 0
    PROVE  /\ Nearest(x) % 25 = 0
           /\ Nearest(x) \in 50 .. hi
<1> DEFINE k == (x - 50) \div 25
<1>1. k \in Int /\ 25 * k <= x - 50 /\ x - 50 < 25 * k + 25 /\ k >= 0
  OBVIOUS
<1>2. PICK h \in Int : hi = 25 * h
  <2>1. hi = 25 * (hi \div 25)
    OBVIOUS
  <2> QED BY <2>1
<1>3. Nearest(x) = 50 + 25 * k \/ (Nearest(x) = 75 + 25 * k /\ x > 62 + 25 * k)
  BY <1>1 DEF Nearest
<1> HIDE DEF k
<1>4. CASE Nearest(x) = 50 + 25 * k
  BY <1>1, <1>2, <1>4
<1>5. CASE Nearest(x) = 75 + 25 * k /\ x > 62 + 25 * k
  <2>1. 75 + 25 * k <= hi
    BY <1>1, <1>2, <1>5
  <2> QED BY <1>1, <1>5, <2>1
<1> QED BY <1>3, <1>4, <1>5

\* Products of a nonnegative factor keep the order.
LEMMA Products ==
    ASSUME NEW x \in Int, NEW y \in Int, NEW r \in Nat, x <= y
    PROVE  x * r <= y * r
<1>1. PICK d \in Nat : y = x + d
  BY y - x \in Nat
<1>2. y * r = x * r + d * r
  BY <1>1
<1>3. d * r >= 0 /\ d * r \in Int /\ x * r \in Int
  BY <1>1
<1> QED BY <1>2, <1>3

\* Rounding an extent down at 300 dpi and again at the resolution of the scan
\* loses at most a three hundredth of the resolution and one line.
LEMMA RoundedTwice ==
    ASSUME NEW h \in Nat, NEW r \in Nat
    PROVE  LET twice == (((h * 300) \div 254) * r) \div 300
               once == (h * r) \div 254
           IN  twice \in Nat /\ once \in Nat /\ twice <= once /\ once - twice <= r \div 300 + 1
<1> DEFINE a == (h * 300) \div 254
           P == a * r
           Q == h * r
           b == P \div 300
           g == Q \div 254
<1>1. a \in Int /\ 254 * a <= 300 * h /\ 300 * h <= 254 * (a + 1) /\ a >= 0
  OBVIOUS
<1>2. P \in Int /\ Q \in Int
  BY <1>1
<1>3. 254 * P <= 300 * Q
  <2>1. (254 * a) * r <= (300 * h) * r
    BY <1>1, Products
  <2>2. (254 * a) * r = 254 * (a * r) /\ (300 * h) * r = 300 * (h * r)
    BY <1>1
  <2> QED BY <2>1, <2>2
<1>4. 300 * Q <= 254 * P + 254 * r
  <2>1. (300 * h) * r <= (254 * (a + 1)) * r
    BY <1>1, Products
  <2>2. (300 * h) * r = 300 * (h * r) /\ (254 * (a + 1)) * r = 254 * (a * r) + 254 * r
    BY <1>1
  <2> QED BY <2>1, <2>2
<1>5. P >= 0 /\ Q >= 0
  <2>1. 0 * r <= a * r /\ 0 * r <= h * r
    BY <1>1, Products
  <2> QED BY <2>1
<1>6. b \in Int /\ 300 * b <= P /\ P < 300 * b + 300
  BY <1>2
<1>7. g \in Int /\ 254 * g <= Q /\ Q < 254 * g + 254
  BY <1>2
<1> HIDE DEF P, Q, b, g
<1>8. b <= g /\ b >= 0 /\ g >= 0
  BY <1>2, <1>3, <1>5, <1>6, <1>7
<1>9. 300 * (g - b) <= 300 + r
  BY <1>2, <1>4, <1>6, <1>7
<1>10. g - b <= r \div 300 + 1
  BY <1>6, <1>7, <1>9
<1> QED BY <1>6, <1>7, <1>8, <1>10 DEF a, P, Q, b, g

\* What a picture is depends on the options of the mode only, and what is
\* announced on those of the picture.
LEMMA SamePicture ==
    ASSUME NEW v, NEW w,
           \A o \in {"MODE", "BIT_DEPTH", "EXT_MODE"} : v[o] = w[o]
    PROVE  ModeOf(v) = ModeOf(w) /\ Kind(v) = Kind(w) /\ Depth(v) = Depth(w)
BY DEF ModeOf, Kind, Depth

LEMMA SameGuess ==
    ASSUME NEW v, NEW w, \A o \in Numbers : v[o] = w[o]
    PROVE  Guess(v) = Guess(w)
<1>1. Kind(v) = Kind(w) /\ Depth(v) = Depth(w)
  BY SamePicture DEF Numbers
<1>2. \A a \in Axes : v[TopLeft(a)] = w[TopLeft(a)] /\ v[BottomRight(a)] = w[BottomRight(a)]
  BY DEF Axes, TopLeft, BottomRight, Numbers, Corners
<1>3. v["RESOLUTION"] = w["RESOLUTION"]
  BY DEF Numbers
<1> QED BY <1>1, <1>2, <1>3 DEF Guess, Axes

\* Exchanged corners are corners.
LEMMA OrderedCorners ==
    ASSUME NEW v, Types, v = val
    PROVE  /\ DOMAIN InOrder(v) = Valued
           /\ \A o \in Valued \ Corners : InOrder(v)[o] = v[o]
           /\ \A o \in Corners : \E q \in Corners : AxisOf(q) = AxisOf(o) /\ InOrder(v)[o] = v[q]
           /\ \A a \in Axes : InOrder(v)[TopLeft(a)] <= InOrder(v)[BottomRight(a)]
<1>1. \A o \in Corners : v[o] \in Int
  BY DEF Types, Numbers
<1>2. Corners \subseteq Valued
  BY DEF Valued
<1> QED BY <1>1, <1>2 DEF InOrder, Corners, AxisOf, Axes, TopLeft, BottomRight

\* What the change of one option changes.
LEMMA OneOption ==
    ASSUME Types, NEW o \in Valued, NEW x, val' = [val EXCEPT ![o] = x]
    PROVE  /\ val'[o] = x
           /\ \A p \in Valued \ {o} : val'[p] = val[p]
           /\ o \notin Numbers => Guess(val') = Guess(val)
<1>1. val'[o] = x /\ \A p \in Valued \ {o} : val'[p] = val[p]
  BY DEF Types
<1>2. Numbers \subseteq Valued
  BY DEF Numbers, Valued
<1>3. ASSUME o \notin Numbers PROVE Guess(val') = Guess(val)
  <2>1. \A p \in Numbers : val'[p] = val[p]
    BY <1>1, <1>2, <1>3
  <2> QED BY <2>1, SameGuess
<1> QED BY <1>1, <1>3

LEMMA TypesKept ==
    ASSUME Plain, Inv, [Next]_vars
    PROVE  Types'
<1> USE DEF Inv, Types
<1>1. CASE SaneOpen
  BY <1>1 DEF SaneOpen, devVars, handleVars, callVars, OtherSettings, OtherState, Call,
       Stores, Quiet, Valued, Numbers, Corners, Switches, Opts, Vectors, InitVal, Limits
<1>2. CASE SaneClose
  BY <1>2 DEF SaneClose, devVars, handleVars, callVars, Quiet
<1>3. CASE SetResolution
  BY <1>3, OptionsAssumption, NearestInList DEF SetResolution, devVars, handleVars,
       callVars, OtherSettings, OtherState, Call, Stores, Quiet, Valued, Numbers,
       Corners, Switches, Opts, Vectors, Constrain, Limits
<1>4. CASE SetCorner
  <2>1. PICK o \in Corners : \E x \in Asked[AxisOf(o)] :
              /\ val' = [val EXCEPT ![o] = Constrain(x, 0, extent[AxisOf(o)])]
              /\ UNCHANGED <<devVars, active, table>>
    BY <1>4 DEF SetCorner, Stores, OtherState
  <2>0. PICK x \in Asked[AxisOf(o)] :
              /\ val' = [val EXCEPT ![o] = Constrain(x, 0, extent[AxisOf(o)])]
              /\ UNCHANGED <<devVars, active, table>>
    BY <2>1
  <2>2. x \in Int /\ extent[AxisOf(o)] \in Int
    BY OptionsAssumption DEF AxisOf, Axes, Limits
  <2>3. Constrain(x, 0, extent[AxisOf(o)]) \in Int
    BY <2>2 DEF Constrain
  <2>4. Corners \subseteq Valued /\ Corners \cap Switches = {}
    BY DEF Valued, Corners, Switches
  <2> QED BY <2>0, <2>3, <2>4 DEF devVars
<1>5. CASE SetBitDepth
  BY <1>5 DEF SetBitDepth, devVars, handleVars, callVars, OtherState, Call, Stores,
       Valued, Numbers, Corners, Switches, Opts, Vectors
<1>6. CASE SetCacheCal
  BY <1>6 DEF SetCacheCal, OtherSettings, OtherState, Call, Stores, Valued, Numbers,
       Corners, Switches, Opts, Vectors
<1>7. CASE Calibrate
  BY <1>7 DEF Calibrate, devVars, handleVars, callVars, Call
<1>8. CASE CancelCalibration
  BY <1>8 DEF CancelCalibration, devVars, handleVars, callVars
<1>9. CASE SetSpeedup
  <2>1. PICK x \in BOOLEAN : /\ val' = [val EXCEPT !["SPEEDUP"] = x]
                          /\ adj' = [adj EXCEPT !.slow = ~x]
    BY <1>9 DEF SetSpeedup, Stores
  <2>2. UNCHANGED <<device, fromColor, desc, active, table>>
    BY <1>9 DEF SetSpeedup, OtherSettings, OtherState
  <2> QED BY <2>1, <2>2 DEF Valued, Numbers, Corners, Switches
<1>10. CASE SetLampOff4Dark
  <2>1. PICK x \in BOOLEAN : /\ val' = [val EXCEPT !["LOFF4DARK"] = x]
                          /\ adj' = [adj EXCEPT !.skip = ~x]
    BY <1>10 DEF SetLampOff4Dark, Stores
  <2>2. UNCHANGED <<device, fromColor, desc, active, table>>
    BY <1>10 DEF SetLampOff4Dark, OtherSettings, OtherState
  <2> QED BY <2>1, <2>2 DEF Valued, Numbers, Corners, Switches
<1>11. CASE SetGain
  BY <1>11, OptionsAssumption DEF SetGain, OtherSettings, OtherState, Call, Stores,
       Constrain, Valued, Numbers, Corners, Switches, Opts, Vectors
<1>12. CASE SetWarmup
  BY <1>12 DEF SetWarmup, Call, Stores, Valued, Numbers, Corners, Switches, Opts,
       Vectors
<1>13. CASE SetCustomGamma
  <2>1. PICK x \in BOOLEAN :
              /\ val' = [val EXCEPT !["CUSTOM_GAMMA"] = x]
              /\ active' = (active \ Vectors) \cup VectorsOf(val')
              /\ table' = IF x THEN table ELSE [t \in Vectors |-> "preset"]
              /\ UNCHANGED devVars
    BY <1>13 DEF SetCustomGamma, Stores
  <2>2. VectorsOf(val') \subseteq Vectors /\ Vectors \subseteq Opts
    BY DEF VectorsOf, Vectors, Opts
  <2> QED BY <2>1, <2>2 DEF devVars, Valued, Numbers, Corners, Switches
<1>14. CASE SetVector
  BY <1>14 DEF SetVector, devVars, handleVars, callVars, Call
<1>15. CASE SetMode
  <2>1. PICK x \in 0 .. 2 : val' = [val EXCEPT !["MODE"] = x]
    <3>1. PICK x \in 0 .. (IF val["EXT_MODE"] = 0 THEN 2 ELSE 0) : Stores("MODE", x)
      BY <1>15, Zenon DEF SetMode
    <3>2. x \in 0 .. 2
      BY <3>1
    <3> QED BY <3>1, <3>2, Zenon DEF Stores
  <2>2. active' \subseteq active \cup {"CONTRAST", "BIT_DEPTH", "CUSTOM_GAMMA"} \cup VectorsOf(val')
    BY <1>15, Zenon DEF SetMode
  <2>3. VectorsOf(val') \subseteq Opts
    BY DEF VectorsOf, Vectors, Opts
  <2>4. {"CONTRAST", "BIT_DEPTH", "CUSTOM_GAMMA"} \subseteq Opts
    BY DEF Opts, Valued, Switches
  <2>5. UNCHANGED <<devVars, table>>
    BY <1>15, Zenon DEF SetMode
  <2>6. active' \subseteq Opts
    BY <2>2, <2>3, <2>4, Zenon
  <2>7. x \in Int /\ DOMAIN val' = Valued /\ \A o \in Valued : val'[o] = IF o = "MODE" THEN x ELSE val[o]
    BY <2>1
  <2>8. "MODE" \notin Switches /\ Switches \subseteq Valued /\ Numbers \subseteq Valued
    BY DEF Valued, Numbers, Corners, Switches
  <2> QED BY <2>5, <2>6, <2>7, <2>8 DEF devVars
<1>16. CASE SetSource
  BY <1>16 DEF SetSource, Call, DefaultOf, Valued, Numbers, Corners, Switches, Opts,
       Vectors
<1>17. CASE CalibrationEnds
  BY <1>17 DEF CalibrationEnds, devVars, handleVars, callVars, Quiet
<1>18. CASE StartOpenFails
  BY <1>18 DEF StartOpenFails, Quiet
<1>19. CASE SaneStart
  BY <1>19, OrderedCorners DEF SaneStart, Quiet, Plain, FromColor, Valued, Numbers,
       Corners, Switches, Opts, Vectors
<1>20. CASE ScanEnds
  BY <1>20 DEF ScanEnds, Quiet
<1>21. CASE UNCHANGED vars
  BY <1>21 DEF vars, devVars, handleVars
<1> QED BY <1>1, <1>2, <1>3, <1>4, <1>5, <1>6, <1>7, <1>8, <1>9, <1>10, <1>11, <1>12,
     <1>13, <1>14, <1>15, <1>16, <1>17, <1>18, <1>19, <1>20, <1>21 DEF Next, SetOption

LEMMA LimitsKept ==
    ASSUME Plain, Inv, [Next]_vars, Types'
    PROVE  Limits'
<1> USE DEF Inv
<1>1. CASE SaneOpen
  BY <1>1, OptionsAssumption DEF SaneOpen, Limits, devVars, handleVars, callVars,
       Quiet, InitVal, AxisOf, Axes, Types, Valued, Numbers, Corners, Switches
<1>2. CASE SaneClose
  BY <1>2 DEF SaneClose, Limits, devVars, handleVars, callVars, Quiet, Plain
<1>3. CASE SetResolution
  BY <1>3, OptionsAssumption, NearestInList DEF SetResolution, Limits, devVars,
       handleVars, callVars, OtherState, Call, Stores, Constrain, Types, Valued,
       Numbers, Corners, Switches
<1>4. CASE SetCorner
  <2>1. PICK o \in Corners : \E x \in Asked[AxisOf(o)] :
              /\ ~scanning /\ open
              /\ val' = [val EXCEPT ![o] = Constrain(x, 0, extent[AxisOf(o)])]
              /\ UNCHANGED <<devVars, open, scanning>>
    BY <1>4 DEF SetCorner, Stores, OtherState, Call
  <2>2. PICK x \in Asked[AxisOf(o)] :
              val' = [val EXCEPT ![o] = Constrain(x, 0, extent[AxisOf(o)])]
    BY <2>1
  <2>3. x \in Int /\ extent[AxisOf(o)] \in Nat
    BY OptionsAssumption DEF AxisOf, Axes, Limits
  <2>4. Constrain(x, 0, extent[AxisOf(o)]) \in 0 .. extent[AxisOf(o)]
    BY <2>3 DEF Constrain
  <2>5. /\ Corners \subseteq Valued
        /\ {"EXT_MODE", "MODE", "BIT_DEPTH", "RESOLUTION"} \subseteq Valued \ Corners
    BY DEF Valued, Corners, Switches
  <2> QED BY <2>1, <2>2, <2>4, <2>5 DEF devVars, Limits, Types
<1>5. CASE SetBitDepth
  BY <1>5 DEF SetBitDepth, Limits, devVars, handleVars, callVars, OtherState, Call,
       Stores, Types, Valued, Numbers, Corners, Switches
<1>6. CASE SetCacheCal
  BY <1>6 DEF SetCacheCal, Limits, OtherSettings, OtherState, Call, Stores, Types,
       Valued, Numbers, Corners, Switches
<1>7. CASE Calibrate
  BY <1>7 DEF Calibrate, Limits, devVars, handleVars, callVars, Call
<1>8. CASE CancelCalibration
  BY <1>8 DEF CancelCalibration, Limits, devVars, handleVars, callVars
<1>9. CASE SetSpeedup
  BY <1>9 DEF SetSpeedup, Limits, OtherSettings, OtherState, Call, Stores, Types,
       Valued, Numbers, Corners, Switches
<1>10. CASE SetLampOff4Dark
  BY <1>10 DEF SetLampOff4Dark, Limits, OtherSettings, OtherState, Call, Stores, Types,
       Valued, Numbers, Corners, Switches
<1>11. CASE SetGain
  BY <1>11 DEF SetGain, Limits, OtherSettings, OtherState, Call, Stores, Types, Valued,
       Numbers, Corners, Switches
<1>12. CASE SetWarmup
  BY <1>12 DEF SetWarmup, Limits, Call, Stores, Types, Valued, Numbers, Corners,
       Switches
<1>13. CASE SetCustomGamma
  BY <1>13 DEF SetCustomGamma, Limits, devVars, handleVars, callVars, Call, Stores,
       Types, Valued, Numbers, Corners, Switches
<1>14. CASE SetVector
  BY <1>14 DEF SetVector, Limits, devVars, handleVars, callVars, Call
<1>15. CASE SetMode
  BY <1>15 DEF SetMode, Limits, devVars, handleVars, callVars, Call, Stores, Types,
       Valued, Numbers, Corners, Switches
<1>16. CASE SetSource
  <2>1. PICK source \in 0 .. 2 :
              /\ open /\ ~scanning
              /\ extent' = AreaOf(source)
              /\ dpiMin' = IF source = 0 THEN 50 ELSE 150
              /\ val' = [o \in Valued |->
                           CASE o = "EXT_MODE" -> source
                             [] o \in Corners -> DefaultOf(source)[o]
                             [] o = "MODE" -> IF source = 0 THEN 2 ELSE 0
                             [] OTHER -> val[o]]
              /\ UNCHANGED <<device, open, scanning>>
    BY <1>16 DEF SetSource, Call
  <2>2. /\ "EXT_MODE" \in Valued \ Corners /\ "MODE" \in Valued \ Corners
        /\ {"BIT_DEPTH", "RESOLUTION"} \subseteq Valued \ Corners
        /\ Corners \subseteq Valued
    BY DEF Valued, Corners, Switches
  <2>3. /\ val'["EXT_MODE"] = source
        /\ val'["MODE"] = IF source = 0 THEN 2 ELSE 0
        /\ val'["BIT_DEPTH"] = val["BIT_DEPTH"]
        /\ val'["RESOLUTION"] = val["RESOLUTION"]
        /\ \A o \in Corners : val'[o] = DefaultOf(source)[o]
    BY <2>1, <2>2, Zenon
  <2>4. \A a \in Axes : AreaOf(source)[a] \in Nat
    BY OptionsAssumption DEF AreaOf, Axes, Types
  <2>5. \A o \in Corners : DefaultOf(source)[o] \in 0 .. AreaOf(source)[AxisOf(o)]
    BY OptionsAssumption DEF DefaultOf, AreaOf, AxisOf, Axes, Corners, Types
  <2>6. source = 0 => AreaOf(source) = device.extent
    BY DEF AreaOf
  <2> QED BY <2>1, <2>3, <2>4, <2>5, <2>6 DEF Limits
<1>17. CASE CalibrationEnds
  BY <1>17 DEF CalibrationEnds, Limits, devVars, handleVars, callVars, Quiet
<1>18. CASE StartOpenFails
  BY <1>18 DEF StartOpenFails, Limits, Quiet
<1>19. CASE SaneStart
  BY <1>19, OrderedCorners DEF SaneStart, Limits, Quiet, Types, Valued, Numbers,
       Corners, Switches
<1>20. CASE ScanEnds
  BY <1>20 DEF ScanEnds, Limits, Quiet
<1>21. CASE UNCHANGED vars
  BY <1>21 DEF vars, Limits, devVars, handleVars
<1> QED BY <1>1, <1>2, <1>3, <1>4, <1>5, <1>6, <1>7, <1>8, <1>9, <1>10, <1>11, <1>12,
     <1>13, <1>14, <1>15, <1>16, <1>17, <1>18, <1>19, <1>20, <1>21 DEF Next, SetOption

LEMMA OfferedKept ==
    ASSUME Plain, Inv, [Next]_vars, Types'
    PROVE  Offered'
<1> USE DEF Inv
<1>1. CASE SaneOpen
  BY <1>1 DEF SaneOpen, Offered, devVars, handleVars, callVars, Quiet, InitVal,
       InitInactive, CanCalibrate, Types, Valued, Numbers, Corners, Switches, Opts,
       Vectors
<1>2. CASE SaneClose
  BY <1>2 DEF SaneClose, Offered, devVars, handleVars, callVars, Quiet
<1>3. CASE SetResolution
  BY <1>3 DEF SetResolution, Offered, devVars, handleVars, callVars, OtherState, Call,
       Stores
<1>4. CASE SetCorner
  BY <1>4 DEF SetCorner, Offered, devVars, handleVars, callVars, OtherState, Call,
       Stores, Types, Valued, Numbers, Corners, Switches, Opts, Vectors
<1>5. CASE SetBitDepth
  BY <1>5 DEF SetBitDepth, Offered, devVars, handleVars, callVars, OtherState, Call,
       Stores
<1>6. CASE SetCacheCal
  BY <1>6 DEF SetCacheCal, Offered, OtherSettings, OtherState, Call, Stores,
       CanCalibrate, Types, Valued, Numbers, Corners, Switches, Opts, Vectors
<1>7. CASE Calibrate
  BY <1>7 DEF Calibrate, Offered, devVars, handleVars, callVars, Call
<1>8. CASE CancelCalibration
  BY <1>8 DEF CancelCalibration, Offered, devVars, handleVars, callVars
<1>9. CASE SetSpeedup
  BY <1>9 DEF SetSpeedup, Offered, OtherSettings, OtherState, Call, Stores
<1>10. CASE SetLampOff4Dark
  BY <1>10 DEF SetLampOff4Dark, Offered, OtherSettings, OtherState, Call, Stores
<1>11. CASE SetGain
  BY <1>11 DEF SetGain, Offered, OtherSettings, OtherState, Call, Stores
<1>12. CASE SetWarmup
  BY <1>12 DEF SetWarmup, Offered, Call, Stores
<1>13. CASE SetCustomGamma
  BY <1>13 DEF SetCustomGamma, Offered, devVars, handleVars, callVars, Call, Stores,
       VectorsOf
<1>14. CASE SetVector
  BY <1>14 DEF SetVector, Offered, devVars, handleVars, callVars, Call
<1>15. CASE SetMode
  BY <1>15 DEF SetMode, Offered, devVars, handleVars, callVars, Call, Stores,
       VectorsOf, Types, Valued, Numbers, Corners, Switches, Opts, Vectors
<1>16. CASE SetSource
  BY <1>16 DEF SetSource, Offered, Call, Types, Valued, Numbers, Corners, Switches,
       Opts, Vectors
<1>17. CASE CalibrationEnds
  BY <1>17 DEF CalibrationEnds, Offered, devVars, handleVars, callVars, Quiet
<1>18. CASE StartOpenFails
  BY <1>18 DEF StartOpenFails, Offered, Quiet
<1>19. CASE SaneStart
  BY <1>19, OrderedCorners DEF SaneStart, Offered, Quiet, Types, Valued, Numbers,
       Corners, Switches, Opts, Vectors
<1>20. CASE ScanEnds
  BY <1>20 DEF ScanEnds, Offered, Quiet
<1>21. CASE UNCHANGED vars
  BY <1>21 DEF vars, Offered, devVars, handleVars
<1> QED BY <1>1, <1>2, <1>3, <1>4, <1>5, <1>6, <1>7, <1>8, <1>9, <1>10, <1>11, <1>12,
     <1>13, <1>14, <1>15, <1>16, <1>17, <1>18, <1>19, <1>20, <1>21 DEF Next, SetOption

LEMMA FitsKept ==
    ASSUME Plain, Inv, [Next]_vars, Types'
    PROVE  ActiveFits'
<1> USE DEF Inv
<1>1. CASE SaneOpen
  BY <1>1 DEF SaneOpen, ActiveFits, devVars, handleVars, callVars, Quiet, InitVal,
       InitInactive, CanCalibrate, Types, Valued, Numbers, Corners, Switches, Opts,
       Vectors, Limits, Offered, ModeOf, Kind
<1>2. CASE SaneClose
  BY <1>2 DEF SaneClose, ActiveFits, devVars, handleVars, callVars, Quiet
<1>3. CASE SetResolution
  BY <1>3 DEF SetResolution, ActiveFits, devVars, handleVars, callVars, OtherState,
       Call, Stores, Types, Valued, Numbers, Corners, Switches, Opts, Vectors, Limits,
       Offered, ModeOf, Kind
<1>4. CASE SetCorner
  BY <1>4 DEF SetCorner, ActiveFits, devVars, handleVars, callVars, OtherState, Call,
       Stores, Types, Valued, Numbers, Corners, Switches, Opts, Vectors, Limits,
       Offered, ModeOf, Kind
<1>5. CASE SetBitDepth
  BY <1>5 DEF SetBitDepth, ActiveFits, devVars, handleVars, callVars, OtherState, Call,
       Stores, Types, Valued, Numbers, Corners, Switches, Opts, Vectors, Limits,
       Offered, ModeOf, Kind
<1>6. CASE SetCacheCal
  BY <1>6 DEF SetCacheCal, ActiveFits, OtherSettings, OtherState, Call, Stores,
       CanCalibrate, Types, Valued, Numbers, Corners, Switches, Opts, Vectors, Limits,
       Offered, ModeOf, Kind
<1>7. CASE Calibrate
  BY <1>7 DEF Calibrate, ActiveFits, devVars, handleVars, callVars, Call
<1>8. CASE CancelCalibration
  BY <1>8 DEF CancelCalibration, ActiveFits, devVars, handleVars, callVars
<1>9. CASE SetSpeedup
  BY <1>9 DEF SetSpeedup, ActiveFits, OtherSettings, OtherState, Call, Stores, Types,
       Valued, Numbers, Corners, Switches, Opts, Vectors, Limits, Offered, ModeOf, Kind
<1>10. CASE SetLampOff4Dark
  BY <1>10 DEF SetLampOff4Dark, ActiveFits, OtherSettings, OtherState, Call, Stores,
       Types, Valued, Numbers, Corners, Switches, Opts, Vectors, Limits, Offered,
       ModeOf, Kind
<1>11. CASE SetGain
  BY <1>11 DEF SetGain, ActiveFits, OtherSettings, OtherState, Call, Stores, Types,
       Valued, Numbers, Corners, Switches, Opts, Vectors, Limits, Offered, ModeOf, Kind
<1>12. CASE SetWarmup
  BY <1>12 DEF SetWarmup, ActiveFits, Call, Stores, Types, Valued, Numbers, Corners,
       Switches, Opts, Vectors, Limits, Offered, ModeOf, Kind
<1>13. CASE SetCustomGamma
  BY <1>13 DEF SetCustomGamma, ActiveFits, devVars, handleVars, callVars, Call, Stores,
       VectorsOf, Types, Valued, Numbers, Corners, Switches, Opts, Vectors, Limits,
       Offered, ModeOf, Kind
<1>14. CASE SetVector
  BY <1>14 DEF SetVector, ActiveFits, devVars, handleVars, callVars, Call
<1>15. CASE SetMode
  BY <1>15 DEF SetMode, ActiveFits, devVars, handleVars, callVars, Call, Stores,
       VectorsOf, Types, Valued, Numbers, Corners, Switches, Opts, Vectors, Limits,
       Offered, ModeOf, Kind
<1>16. CASE SetSource
  BY <1>16 DEF SetSource, ActiveFits, Call
<1>17. CASE CalibrationEnds
  BY <1>17 DEF CalibrationEnds, ActiveFits, devVars, handleVars, callVars, Quiet
<1>18. CASE StartOpenFails
  BY <1>18 DEF StartOpenFails, ActiveFits, Quiet
<1>19. CASE SaneStart
  BY <1>19, OrderedCorners DEF SaneStart, ActiveFits, Quiet, Types, Valued, Numbers,
       Corners, Switches, Opts, Vectors, Limits, Offered, ModeOf, Kind
<1>20. CASE ScanEnds
  BY <1>20 DEF ScanEnds, ActiveFits, Quiet
<1>21. CASE UNCHANGED vars
  BY <1>21 DEF vars, ActiveFits, devVars, handleVars
<1> QED BY <1>1, <1>2, <1>3, <1>4, <1>5, <1>6, <1>7, <1>8, <1>9, <1>10, <1>11, <1>12,
     <1>13, <1>14, <1>15, <1>16, <1>17, <1>18, <1>19, <1>20, <1>21 DEF Next, SetOption

\* A call that leaves the settings and the values that show them alone.
LEMMA ShownSame ==
    ASSUME UsedAsShown, open,
           UNCHANGED <<device, adj, darkSet>>,
           \A o \in {"CACHECAL", "SPEEDUP", "OVR_REDGAIN", "WARMUPTIME", "LOFF4DARK"} :
              val'[o] = val[o],
           "WARMUPTIME" \in active' <=> "WARMUPTIME" \in active,
           ~val'["CUSTOM_GAMMA"] => \A t \in Vectors : table'[t] = "preset"
    PROVE  UsedAsShown'
<1>1. /\ adj.cache = val["CACHECAL"]
      /\ adj.slow = ~val["SPEEDUP"]
      /\ adj.gain = val["OVR_REDGAIN"]
      /\ IF "WARMUPTIME" \in active \/ ~device.cis
         THEN adj.warmup = val["WARMUPTIME"]
         ELSE val["WARMUPTIME"] = 0
      /\ adj.skip = (IF darkSet THEN ~val["LOFF4DARK"] ELSE val["LOFF4DARK"])
  BY Zenon DEF UsedAsShown
<1>2. /\ val'["CACHECAL"] = val["CACHECAL"]
      /\ val'["SPEEDUP"] = val["SPEEDUP"]
      /\ val'["OVR_REDGAIN"] = val["OVR_REDGAIN"]
      /\ val'["WARMUPTIME"] = val["WARMUPTIME"]
      /\ val'["LOFF4DARK"] = val["LOFF4DARK"]
      /\ adj' = adj /\ device' = device /\ darkSet' = darkSet
  OBVIOUS
<1>3. IF "WARMUPTIME" \in active' \/ ~device'.cis
      THEN adj'.warmup = val'["WARMUPTIME"]
      ELSE val'["WARMUPTIME"] = 0
  BY <1>1, <1>2, Zenon
<1>4. adj'.skip = (IF darkSet' THEN ~val'["LOFF4DARK"] ELSE val'["LOFF4DARK"])
  <2>1. CASE darkSet
    <3>1. darkSet' /\ adj.skip = ~val["LOFF4DARK"]
      BY <1>1, <1>2, <2>1
    <3>2. adj'.skip = ~val'["LOFF4DARK"]
      BY <1>2, <3>1
    <3> QED BY <3>1, <3>2, Zenon
  <2>2. CASE ~darkSet
    <3>1. ~darkSet' /\ adj.skip = val["LOFF4DARK"]
      BY <1>1, <1>2, <2>2
    <3> QED BY <1>2, <3>1, Zenon
  <2> QED BY <2>1, <2>2
<1>5. /\ adj'.cache = val'["CACHECAL"]
      /\ adj'.slow = ~val'["SPEEDUP"]
      /\ adj'.gain = val'["OVR_REDGAIN"]
  BY <1>1, <1>2, Zenon
<1> QED BY <1>3, <1>4, <1>5, Zenon DEF UsedAsShown

LEMMA ShownKept ==
    ASSUME Plain, Inv, [Next]_vars, Types'
    PROVE  UsedAsShown'
<1> USE DEF Inv
<1>1. CASE SaneOpen
  <2>1. val' = InitVal /\ table' = [t \in Vectors |-> "preset"] /\ adj' = adj
    BY <1>1 DEF SaneOpen, devVars
  <2>2. {"CACHECAL", "SPEEDUP", "OVR_REDGAIN", "WARMUPTIME", "LOFF4DARK"} \subseteq Valued
    BY DEF Valued, Switches
  <2>3. /\ val'["CACHECAL"] = adj.cache /\ val'["OVR_REDGAIN"] = adj.gain
        /\ val'["LOFF4DARK"] = adj.skip
        /\ val'["WARMUPTIME"] = IF desc /\ device.cis THEN 0 ELSE adj.warmup
    BY <2>1, <2>2 DEF InitVal
  <2>4. val'["SPEEDUP"] = ~adj.slow
    BY <2>1, <2>2 DEF InitVal
  <2>5. adj.slow \in BOOLEAN
    BY DEF Types
  <2>6. adj.slow = ~val'["SPEEDUP"]
    BY <2>4, <2>5
  <2>7. ~darkSet' /\ device' = device /\ active' = Opts \ InitInactive
    BY <1>1 DEF SaneOpen, devVars
  <2>8. "WARMUPTIME" \in active' <=> ~(desc /\ device.cis)
    BY <2>7, <2>2 DEF InitInactive, Opts, Vectors
  <2>9. IF "WARMUPTIME" \in active' \/ ~device'.cis
        THEN adj'.warmup = val'["WARMUPTIME"]
        ELSE val'["WARMUPTIME"] = 0
    BY <2>1, <2>3, <2>7, <2>8, Zenon
  <2>10. adj'.skip = (IF darkSet' THEN ~val'["LOFF4DARK"] ELSE val'["LOFF4DARK"])
    BY <2>1, <2>3, <2>7, Zenon
  <2> QED BY <2>1, <2>3, <2>6, <2>9, <2>10 DEF UsedAsShown
<1>2. CASE SaneClose
  BY <1>2 DEF SaneClose, UsedAsShown, devVars, handleVars, callVars, Quiet
<1>3. CASE SetResolution
  BY <1>3 DEF SetResolution, UsedAsShown, devVars, handleVars, callVars, OtherState,
       Call, Stores
<1>4. CASE SetCorner
  BY <1>4 DEF SetCorner, UsedAsShown, devVars, handleVars, callVars, OtherState, Call,
       Stores, Types, Valued, Numbers, Corners, Switches, Opts, Vectors
<1>5. CASE SetBitDepth
  BY <1>5 DEF SetBitDepth, UsedAsShown, devVars, handleVars, callVars, OtherState,
       Call, Stores
<1>6. CASE SetCacheCal
  BY <1>6 DEF SetCacheCal, UsedAsShown, OtherSettings, OtherState, Call, Stores, Types,
       Valued, Numbers, Corners, Switches, Opts, Vectors
<1>7. CASE Calibrate
  BY <1>7 DEF Calibrate, UsedAsShown, devVars, handleVars, callVars, Call
<1>8. CASE CancelCalibration
  BY <1>8 DEF CancelCalibration, UsedAsShown, devVars, handleVars, callVars
<1>9. CASE SetSpeedup
  BY <1>9 DEF SetSpeedup, UsedAsShown, OtherSettings, OtherState, Call, Stores, Types,
       Valued, Numbers, Corners, Switches, Opts, Vectors
<1>10. CASE SetLampOff4Dark
  <2>1. PICK x \in BOOLEAN :
              /\ val' = [val EXCEPT !["LOFF4DARK"] = x]
              /\ adj' = [adj EXCEPT !.skip = ~x]
    BY <1>10, Zenon DEF SetLampOff4Dark, Stores
  <2>2. darkSet' /\ open /\ open' /\ UNCHANGED <<device, active, table>>
    BY <1>10 DEF SetLampOff4Dark, Call, OtherSettings
  <2>3. /\ val'["LOFF4DARK"] = x
        /\ \A p \in Valued \ {"LOFF4DARK"} : val'[p] = val[p]
    BY <2>1, OneOption DEF Valued, Switches
  <2>4. adj'.skip = ~x /\ \A k \in {"cache", "slow", "gain", "warmup"} : adj'[k] = adj[k]
    BY <2>1 DEF Types
  <2>5. adj'.skip = (IF darkSet' THEN ~val'["LOFF4DARK"] ELSE val'["LOFF4DARK"])
    BY <2>2, <2>3, <2>4, Zenon
  <2>6. {"CACHECAL", "SPEEDUP", "OVR_REDGAIN", "WARMUPTIME", "CUSTOM_GAMMA"}
           \subseteq Valued \ {"LOFF4DARK"}
    BY DEF Valued, Switches
  <2> QED BY <2>2, <2>3, <2>4, <2>5, <2>6 DEF UsedAsShown
<1>11. CASE SetGain
  BY <1>11 DEF SetGain, UsedAsShown, OtherSettings, OtherState, Call, Stores, Types,
       Valued, Numbers, Corners, Switches, Opts, Vectors
<1>12. CASE SetWarmup
  <2>1. PICK x \in {30} :
              /\ val' = [val EXCEPT !["WARMUPTIME"] = x]
              /\ adj' = [adj EXCEPT !.warmup = x]
    BY <1>12, Zenon DEF SetWarmup, Stores
  <2>2. /\ open /\ "WARMUPTIME" \in active
        /\ UNCHANGED <<device, active, table, darkSet>>
    BY <1>12, Zenon DEF SetWarmup, Call
  <2>3. /\ val'["WARMUPTIME"] = x
        /\ \A p \in Valued \ {"WARMUPTIME"} : val'[p] = val[p]
    BY <2>1, OneOption DEF Valued, Switches
  <2>4. adj'.warmup = x /\ \A k \in {"cache", "slow", "gain", "skip"} : adj'[k] = adj[k]
    BY <2>1 DEF Types
  <2>5. {"CACHECAL", "SPEEDUP", "OVR_REDGAIN", "LOFF4DARK", "CUSTOM_GAMMA"}
           \subseteq Valued \ {"WARMUPTIME"}
    BY DEF Valued, Switches
  <2> QED BY <2>2, <2>3, <2>4, <2>5 DEF UsedAsShown
<1>13. CASE SetCustomGamma
  <2>1. PICK x \in BOOLEAN :
              /\ val' = [val EXCEPT !["CUSTOM_GAMMA"] = x]
              /\ table' = IF x THEN table ELSE [t \in Vectors |-> "preset"]
    BY <1>13, Zenon DEF SetCustomGamma, Stores
  <2>2. /\ open /\ active' = (active \ Vectors) \cup VectorsOf(val')
        /\ UNCHANGED <<device, adj, darkSet>>
    BY <1>13, Zenon DEF SetCustomGamma, Call, devVars
  <2>3. /\ val'["CUSTOM_GAMMA"] = x
        /\ \A p \in Valued \ {"CUSTOM_GAMMA"} : val'[p] = val[p]
    BY <2>1, OneOption DEF Valued, Switches
  <2>4. {"CACHECAL", "SPEEDUP", "OVR_REDGAIN", "WARMUPTIME", "LOFF4DARK"}
           \subseteq Valued \ {"CUSTOM_GAMMA"}
    BY DEF Valued, Switches
  <2>5. "WARMUPTIME" \in active' <=> "WARMUPTIME" \in active
    BY <2>2 DEF VectorsOf, Vectors
  <2>6. ~val'["CUSTOM_GAMMA"] => \A t \in Vectors : table'[t] = "preset"
    BY <2>1, <2>3
  <2> QED BY <2>2, <2>3, <2>4, <2>5, <2>6, ShownSame
<1>14. CASE SetVector
  BY <1>14 DEF SetVector, UsedAsShown, devVars, handleVars, callVars, Call, Types,
       Valued, Numbers, Corners, Switches, Opts, Vectors, Offered
<1>15. CASE SetMode
  <2>1. PICK x \in 0 .. (IF val["EXT_MODE"] = 0 THEN 2 ELSE 0) :
              val' = [val EXCEPT !["MODE"] = x]
    BY <1>15, Zenon DEF SetMode, Stores
  <2>2. open /\ UNCHANGED <<device, adj, darkSet, table>>
    BY <1>15, Zenon DEF SetMode, Call, devVars
  <2>3. \A p \in Valued \ {"MODE"} : val'[p] = val[p]
    BY <2>1, OneOption DEF Valued
  <2>4. {"CACHECAL", "SPEEDUP", "OVR_REDGAIN", "WARMUPTIME", "LOFF4DARK", "CUSTOM_GAMMA"}
           \subseteq Valued \ {"MODE"}
    BY DEF Valued, Switches
  <2>5. "WARMUPTIME" \in active' <=> "WARMUPTIME" \in active
    BY <1>15 DEF SetMode, VectorsOf, Vectors
  <2>6. ~val'["CUSTOM_GAMMA"] => \A t \in Vectors : table'[t] = "preset"
    BY <2>2, <2>3, <2>4 DEF UsedAsShown
  <2> QED BY <2>2, <2>3, <2>4, <2>5, <2>6, ShownSame
<1>16. CASE SetSource
  <2>1. /\ open /\ active' = active \cup {"CONTRAST"}
        /\ UNCHANGED <<device, adj, darkSet, table>>
    BY <1>16, Zenon DEF SetSource, Call
  <2>2. \A p \in Valued \ (Corners \cup {"EXT_MODE", "MODE"}) : val'[p] = val[p]
    BY <1>16 DEF SetSource
  <2>3. {"CACHECAL", "SPEEDUP", "OVR_REDGAIN", "WARMUPTIME", "LOFF4DARK", "CUSTOM_GAMMA"}
           \subseteq Valued \ (Corners \cup {"EXT_MODE", "MODE"})
    BY DEF Valued, Switches, Corners
  <2>4. "WARMUPTIME" \in active' <=> "WARMUPTIME" \in active
    BY <2>1
  <2>5. ~val'["CUSTOM_GAMMA"] => \A t \in Vectors : table'[t] = "preset"
    BY <2>1, <2>2, <2>3 DEF UsedAsShown
  <2> QED BY <2>1, <2>2, <2>3, <2>4, <2>5, ShownSame
<1>17. CASE CalibrationEnds
  BY <1>17 DEF CalibrationEnds, UsedAsShown, devVars, handleVars, callVars, Quiet
<1>18. CASE StartOpenFails
  BY <1>18 DEF StartOpenFails, UsedAsShown, Quiet
<1>19. CASE SaneStart
  BY <1>19, OrderedCorners DEF SaneStart, UsedAsShown, Quiet, Types, Valued, Numbers,
       Corners, Switches, Opts, Vectors
<1>20. CASE ScanEnds
  BY <1>20 DEF ScanEnds, UsedAsShown, Quiet
<1>21. CASE UNCHANGED vars
  BY <1>21 DEF vars, UsedAsShown, devVars, handleVars
<1> QED BY <1>1, <1>2, <1>3, <1>4, <1>5, <1>6, <1>7, <1>8, <1>9, <1>10, <1>11, <1>12,
     <1>13, <1>14, <1>15, <1>16, <1>17, <1>18, <1>19, <1>20, <1>21 DEF Next, SetOption

LEMMA ParamsKept ==
    ASSUME Plain, Inv, [Next]_vars, Types'
    PROVE  ParamsHold'
<1> USE DEF Inv
<1>1. CASE SaneOpen
  BY <1>1 DEF SaneOpen, ParamsHold, devVars, handleVars, callVars, Quiet, Types, Limits
<1>2. CASE SaneClose
  BY <1>2 DEF SaneClose, ParamsHold, devVars, handleVars, callVars, Quiet
<1>3. CASE SetResolution
  BY <1>3 DEF SetResolution, ParamsHold, devVars, handleVars, callVars, OtherState,
       Call, Stores
<1>4. CASE SetCorner
  BY <1>4 DEF SetCorner, ParamsHold, devVars, handleVars, callVars, OtherState, Call,
       Stores
<1>5. CASE SetBitDepth
  BY <1>5 DEF SetBitDepth, ParamsHold, devVars, handleVars, callVars, OtherState, Call,
       Stores
<1>6. CASE SetCacheCal
  BY <1>6 DEF SetCacheCal, ParamsHold, OtherSettings, OtherState, Call, Stores
<1>7. CASE Calibrate
  BY <1>7 DEF Calibrate, ParamsHold, devVars, handleVars, callVars, Call
<1>8. CASE CancelCalibration
  BY <1>8 DEF CancelCalibration, ParamsHold, devVars, handleVars, callVars
<1>9. CASE SetSpeedup
  BY <1>9 DEF SetSpeedup, ParamsHold, OtherSettings, OtherState, Call, Stores
<1>10. CASE SetLampOff4Dark
  BY <1>10 DEF SetLampOff4Dark, ParamsHold, OtherSettings, OtherState, Call, Stores
<1>11. CASE SetGain
  BY <1>11 DEF SetGain, ParamsHold, OtherSettings, OtherState, Call, Stores
<1>12. CASE SetWarmup
  BY <1>12 DEF SetWarmup, ParamsHold, Call, Stores
<1>13. CASE SetCustomGamma
  BY <1>13 DEF SetCustomGamma, ParamsHold, devVars, handleVars, callVars, Call, Stores
<1>14. CASE SetVector
  BY <1>14 DEF SetVector, ParamsHold, devVars, handleVars, callVars, Call
<1>15. CASE SetMode
  BY <1>15 DEF SetMode, ParamsHold, devVars, handleVars, callVars, Call, Stores
<1>16. CASE SetSource
  BY <1>16 DEF SetSource, ParamsHold, Call
<1>17. CASE CalibrationEnds
  BY <1>17 DEF CalibrationEnds, ParamsHold, devVars, handleVars, callVars, Quiet
<1>18. CASE StartOpenFails
  BY <1>18 DEF StartOpenFails, ParamsHold, Quiet
<1>19. CASE SaneStart
  <2>1. SUFFICES ASSUME scanning' PROVE ParamsHold'
    BY DEF ParamsHold
  <2> DEFINE v == InOrder(val)
             w == Scaled(v, "X")
             image == ImageInfo(Kind(val), Depth(val), w, fromColor)
  <2>2. /\ val' = v
        /\ params' = [Guess(val) EXCEPT !.pixels = image.pixels,
                                        !.lines = Scaled(v, "Y"),
                                        !.bytes = image.bytes]
        /\ line' = BytesLine(device, val, w)
    BY <1>19, <2>1 DEF SaneStart
  <2>3. Kind(v) = Kind(val) /\ Depth(v) = Depth(val)
    <3>1. {"MODE", "BIT_DEPTH", "EXT_MODE"} \subseteq Valued \ Corners
      BY DEF Valued, Corners, Switches
    <3> QED BY <3>1, OrderedCorners, SamePicture
  <2>4. Guess(val) = [pixels |-> Guess(val).pixels, lines |-> Guess(val).lines,
                      depth |-> Depth(val), rgb |-> Kind(val) = "color",
                      bytes |-> Guess(val).bytes]
    BY DEF Guess
  <2>5. /\ params'.bytes = image.bytes
        /\ params'.lines = Scaled(v, "Y")
        /\ params'.rgb = (Kind(val) = "color")
        /\ params'.depth = Depth(val)
    BY <2>2, <2>4
  <2>6. /\ v["TL_X"] \in Int /\ v["BR_X"] \in Int /\ v["TL_Y"] \in Int /\ v["BR_Y"] \in Int
        /\ v["TL_X"] <= v["BR_X"] /\ v["TL_Y"] <= v["BR_Y"]
        /\ v["RESOLUTION"] \in Nat /\ v["RESOLUTION"] = val["RESOLUTION"]
    <3>1. \A o \in Corners : v[o] \in Int
      BY OrderedCorners DEF Types, Numbers
    <3>2. v["TL_X"] <= v["BR_X"] /\ v["TL_Y"] <= v["BR_Y"]
      BY OrderedCorners DEF Axes, TopLeft, BottomRight
    <3>3. "RESOLUTION" \in Valued \ Corners
      BY DEF Valued, Corners
    <3>4. v["RESOLUTION"] = val["RESOLUTION"]
      BY <3>3, OrderedCorners
    <3>5. val["RESOLUTION"] \in Nat
      BY OptionsAssumption DEF Limits, Types
    <3> QED BY <3>1, <3>2, <3>4, <3>5 DEF Corners
  <2>7. image.bytes = BytesLine(device, val, w)
    <3>1. w \in Int
      BY <2>6 DEF Scaled, TopLeft, BottomRight
    <3>2. Depth(val) \in {1, 8, 16} /\ (Kind(val) # "bw" => Depth(val) \in {8, 16})
      BY DEF Depth, Kind
    <3>3. Kind(val) \in {"bw", "gray", "color"}
      BY DEF Kind
    <3>4. FromColor(device, val) \in {0, 2} /\ (FromColor(device, val) = 2 => Kind(val) = "gray")
      BY DEF FromColor, Plain, Types
    <3>5. fromColor \in {0, 2}
      BY DEF Types
    <3>6. CASE FromColor(device, val) = 2
      BY <3>1, <3>2, <3>4, <3>5, <3>6 DEF BytesLine, ImageInfo
    <3>7. CASE FromColor(device, val) = 0
      BY <3>1, <3>2, <3>3, <3>4, <3>5, <3>7 DEF BytesLine, ImageInfo
    <3> QED BY <3>4, <3>6, <3>7
  <2>8. /\ Scaled(v, "Y") <= Guess(v).lines
        /\ Guess(v).lines - Scaled(v, "Y") <= v["RESOLUTION"] \div 300 + 1
    <3> DEFINE h == v["BR_Y"] - v["TL_Y"]
    <3>1. h \in Nat
      BY <2>6
    <3>2. Scaled(v, "Y") = (((h * 300) \div 254) * v["RESOLUTION"]) \div 300
      BY DEF Scaled, TopLeft, BottomRight
    <3>3. h * v["RESOLUTION"] >= 0
      BY <2>6, <3>1, Products
    <3>4. Guess(v).lines = (h * v["RESOLUTION"]) \div 254
      BY <3>3 DEF Guess, Trunc, TopLeft, BottomRight
    <3> HIDE DEF h
    <3> QED BY <2>6, <3>1, <3>2, <3>4, RoundedTwice
  <2> QED BY <2>2, <2>3, <2>5, <2>6, <2>7, <2>8 DEF ParamsHold
<1>20. CASE ScanEnds
  BY <1>20 DEF ScanEnds, ParamsHold, Quiet
<1>21. CASE UNCHANGED vars
  BY <1>21 DEF vars, ParamsHold, devVars, handleVars
<1> QED BY <1>1, <1>2, <1>3, <1>4, <1>5, <1>6, <1>7, <1>8, <1>9, <1>10, <1>11, <1>12,
     <1>13, <1>14, <1>15, <1>16, <1>17, <1>18, <1>19, <1>20, <1>21 DEF Next, SetOption

LEMMA InitInv ==
    ASSUME Plain, Init
    PROVE  Inv
<1>1. Types
  BY OptionsAssumption DEF Init, Types, InitVal, Valued, Numbers, Corners, Switches
<1>2. Limits
  BY OptionsAssumption DEF Init, Limits, InitVal, Valued, Corners, Switches, AxisOf,
       Axes
<1>3. Offered /\ ActiveFits /\ UsedAsShown /\ ParamsHold
  BY DEF Init, Offered, ActiveFits, UsedAsShown, ParamsHold
<1> QED BY <1>1, <1>2, <1>3 DEF Inv

LEMMA Invariance == ASSUME Plain PROVE Spec => []Inv
<1>1. Init => Inv
  BY InitInv
<1>2. Inv /\ [Next]_vars => Inv'
  <2> SUFFICES ASSUME Inv, [Next]_vars PROVE Inv'
    OBVIOUS
  <2>1. Types'
    BY TypesKept
  <2>2. Limits' /\ Offered' /\ ActiveFits' /\ UsedAsShown' /\ ParamsHold'
    BY <2>1, LimitsKept, OfferedKept, FitsKept, ShownKept, ParamsKept
  <2> QED BY <2>1, <2>2 DEF Inv
<1> QED BY <1>1, <1>2, PTL DEF Spec

\* What is offered fits the mode, whatever is set, scanned and reopened.
THEOREM AlwaysFits == ASSUME Plain PROVE Spec => []ActiveFits
BY Invariance, PTL DEF Inv

\* No value leaves the range of its descriptor.
THEOREM AlwaysInRange == ASSUME Plain PROVE Spec => []ValuesInRange
<1>1. Inv => ValuesInRange
  BY DEF Inv, Limits, ValuesInRange
<1> QED BY <1>1, Invariance, PTL

\* The parameters of a scan are those of its reader, at any resolution and size.
THEOREM ParamsAlwaysHold == ASSUME Plain PROVE Spec => []ParamsHold
BY Invariance, PTL DEF Inv

\* What a handle shows tells what the next scan uses, across scans and handles:
\* the cache, the speedup, a gain and the tables directly, the warm-up time except
\* on a CIS device that shows 0 for it, lamp-off-during-dcal directly until it is
\* set on the handle and by its negation afterwards.
THEOREM AlwaysUsedAsShown == ASSUME Plain PROVE Spec => []UsedAsShown
BY Invariance, PTL DEF Inv

-----------------------------------------------------------------------------

LEMMA ToldStep ==
    ASSUME Plain, Inv, Next
    PROVE  Told
<1> USE DEF Inv
<1>1. CASE SaneOpen
  BY <1>1 DEF SaneOpen, Told, devVars, handleVars, callVars, Quiet, Types, Valued,
       Numbers, Corners, Switches, Opts, Vectors
<1>2. CASE SaneClose
  BY <1>2 DEF SaneClose, Told, devVars, handleVars, callVars, Quiet, Types, Valued,
       Numbers, Corners, Switches, Opts, Vectors
<1>3. CASE SetResolution
  <2>1. PICK x \in AskedDpi :
              /\ val' = [val EXCEPT !["RESOLUTION"] = Nearest(Constrain(x, dpiMin, 2 * device.optic))]
              /\ call' = "RESOLUTION" /\ asked' = x
              /\ info' = Inexact(Nearest(Constrain(x, dpiMin, 2 * device.optic)), x) \cup {"params"}
              /\ UNCHANGED <<active, extent, dpiMin>>
    BY <1>3, Zenon DEF SetResolution, Call, Stores, OtherSettings, devVars
  <2> QED BY <2>1, OneOption DEF Told, Inexact, Valued, Numbers, Corners, Switches
<1>4. CASE SetCorner
  <2>1. PICK o \in Corners : \E x \in Asked[AxisOf(o)] :
              LET y == Constrain(x, 0, extent[AxisOf(o)])
              IN  /\ val' = [val EXCEPT ![o] = y]
                  /\ call' = o /\ asked' = x
                  /\ info' = Inexact(y, x) \cup {"params"}
                  /\ UNCHANGED <<active, extent, dpiMin>>
    BY <1>4, Zenon DEF SetCorner, Call, Stores, devVars
  <2>2. PICK x \in Asked[AxisOf(o)] :
              /\ val' = [val EXCEPT ![o] = Constrain(x, 0, extent[AxisOf(o)])]
              /\ call' = o /\ asked' = x
              /\ info' = Inexact(Constrain(x, 0, extent[AxisOf(o)]), x) \cup {"params"}
              /\ UNCHANGED <<active, extent, dpiMin>>
    BY <2>1, Zenon
  <2>3. o \in Valued
    BY DEF Valued
  <2> QED BY <2>2, <2>3, OneOption DEF Told, Inexact
<1>5. CASE SetBitDepth
  BY <1>5 DEF SetBitDepth, Told, devVars, handleVars, callVars, OtherState, Call,
       Stores, Types
<1>6. CASE SetCacheCal
  <2>1. PICK x \in BOOLEAN :
              /\ val' = [val EXCEPT !["CACHECAL"] = x]
              /\ call' = "CACHECAL" /\ asked' = x
              /\ info' = {"options"}
              /\ UNCHANGED <<extent, dpiMin>>
    BY <1>6, Zenon DEF SetCacheCal, Call, Stores, OtherSettings, devVars
  <2> QED BY <2>1, OneOption DEF Told, Inexact, Valued, Numbers, Corners, Switches
<1>7. CASE Calibrate
  BY <1>7 DEF Calibrate, Told, devVars, handleVars, callVars, Call, Types, Valued,
       Numbers, Corners, Switches, Opts, Vectors
<1>8. CASE CancelCalibration
  BY <1>8 DEF CancelCalibration, Told, devVars, handleVars, callVars, Types, Valued,
       Numbers, Corners, Switches, Opts, Vectors
<1>9. CASE SetSpeedup
  <2>1. PICK x \in BOOLEAN :
              /\ val' = [val EXCEPT !["SPEEDUP"] = x]
              /\ call' = "SPEEDUP" /\ asked' = x
              /\ info' = {}
              /\ UNCHANGED <<active, extent, dpiMin>>
    BY <1>9, Zenon DEF SetSpeedup, Call, Stores, OtherSettings, devVars
  <2>2. "SPEEDUP" \in Valued \ Numbers
    BY DEF Valued, Numbers, Corners, Switches
  <2>3. /\ \A p \in Valued \ {"SPEEDUP"} : val'[p] = val[p]
        /\ Guess(val') = Guess(val)
    BY <2>1, <2>2, OneOption
  <2>4. val'["SPEEDUP"] # asked' => "inexact" \in info'
    BY <2>1, <2>2, OneOption DEF Inexact
  <2> QED BY <2>1, <2>3, <2>4 DEF Told
<1>10. CASE SetLampOff4Dark
  <2>1. PICK x \in BOOLEAN :
              /\ val' = [val EXCEPT !["LOFF4DARK"] = x]
              /\ call' = "LOFF4DARK" /\ asked' = x
              /\ info' = {}
              /\ UNCHANGED <<active, extent, dpiMin>>
    BY <1>10, Zenon DEF SetLampOff4Dark, Call, Stores, OtherSettings, devVars
  <2>2. "LOFF4DARK" \in Valued \ Numbers
    BY DEF Valued, Numbers, Corners, Switches
  <2>3. /\ \A p \in Valued \ {"LOFF4DARK"} : val'[p] = val[p]
        /\ Guess(val') = Guess(val)
    BY <2>1, <2>2, OneOption
  <2>4. val'["LOFF4DARK"] # asked' => "inexact" \in info'
    BY <2>1, <2>2, OneOption DEF Inexact
  <2> QED BY <2>1, <2>3, <2>4 DEF Told
<1>11. CASE SetGain
  <2>1. PICK x \in {-1, 64} :
              /\ val' = [val EXCEPT !["OVR_REDGAIN"] = Constrain(x, -1, 63)]
              /\ call' = "OVR_REDGAIN" /\ asked' = x
              /\ info' = Inexact(Constrain(x, -1, 63), x)
              /\ UNCHANGED <<active, extent, dpiMin>>
    BY <1>11, Zenon DEF SetGain, Call, Stores, OtherSettings, devVars
  <2>2. "OVR_REDGAIN" \in Valued \ Numbers
    BY DEF Valued, Numbers, Corners, Switches
  <2>3. /\ \A p \in Valued \ {"OVR_REDGAIN"} : val'[p] = val[p]
        /\ Guess(val') = Guess(val)
    BY <2>1, <2>2, OneOption
  <2>4. val'["OVR_REDGAIN"] # asked' => "inexact" \in info'
    BY <2>1, <2>2, OneOption DEF Inexact
  <2> QED BY <2>1, <2>3, <2>4 DEF Told
<1>12. CASE SetWarmup
  <2>1. PICK x \in {30} :
              /\ val' = [val EXCEPT !["WARMUPTIME"] = x]
              /\ call' = "WARMUPTIME" /\ asked' = x
              /\ info' = {}
              /\ UNCHANGED <<active, extent, dpiMin>>
    BY <1>12, Zenon DEF SetWarmup, Call, Stores, OtherSettings, devVars
  <2>2. "WARMUPTIME" \in Valued \ Numbers
    BY DEF Valued, Numbers, Corners, Switches
  <2>3. /\ \A p \in Valued \ {"WARMUPTIME"} : val'[p] = val[p]
        /\ Guess(val') = Guess(val)
    BY <2>1, <2>2, OneOption
  <2>4. val'["WARMUPTIME"] # asked' => "inexact" \in info'
    BY <2>1, <2>2, OneOption DEF Inexact
  <2> QED BY <2>1, <2>3, <2>4 DEF Told
<1>13. CASE SetCustomGamma
  BY <1>13 DEF SetCustomGamma, Told, devVars, handleVars, callVars, Call, Stores, Types
<1>14. CASE SetVector
  BY <1>14 DEF SetVector, Told, devVars, handleVars, callVars, Call, Types, Valued,
       Numbers, Corners, Switches, Opts, Vectors
<1>15. CASE SetMode
  BY <1>15 DEF SetMode, Told, devVars, handleVars, callVars, Call, Stores, Types
<1>16. CASE SetSource
  BY <1>16 DEF SetSource, Told, Call, Types, Valued, Numbers, Corners, Switches, Opts,
       Vectors
<1>17. CASE CalibrationEnds
  BY <1>17 DEF CalibrationEnds, Told, devVars, handleVars, callVars, Quiet, Types,
       Valued, Numbers, Corners, Switches, Opts, Vectors
<1>18. CASE StartOpenFails
  BY <1>18 DEF StartOpenFails, Told, Quiet, Types, Valued, Numbers, Corners, Switches,
       Opts, Vectors
<1>19. CASE SaneStart
  BY <1>19 DEF SaneStart, Told, Quiet, Types, Valued, Numbers, Corners, Switches, Opts,
       Vectors
<1>20. CASE ScanEnds
  BY <1>20 DEF ScanEnds, Told, Quiet, Types, Valued, Numbers, Corners, Switches, Opts,
       Vectors
<1> QED BY <1>1, <1>2, <1>3, <1>4, <1>5, <1>6, <1>7, <1>8, <1>9, <1>10, <1>11, <1>12,
     <1>13, <1>14, <1>15, <1>16, <1>17, <1>18, <1>19, <1>20 DEF Next, SetOption

\* Every change of another option, of a limit or of the picture, and every value
\* that was adjusted, is in the answer of the call that made it.
THEOREM ChangesAlwaysTold == ASSUME Plain PROVE Spec => ChangesTold
<1>1. Inv /\ [Next]_vars => [Told]_vars
  BY ToldStep DEF vars
<1> QED BY <1>1, Invariance, PTL DEF Spec, ChangesTold

=============================================================================
