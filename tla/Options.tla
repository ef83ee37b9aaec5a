------------------------------- MODULE Options -------------------------------
(***************************************************************************)
(* The options of a handle, over several handles one after the other: what *)
(* sane_control_option does to the option set, to its neighbours and to    *)
(* the device's settings; the picture sane_start announces from them; what *)
(* a device remembers when the next handle is opened.                      *)
(*                                                                         *)
(* OPT_WARMUPTIME stands for the options that hand their value to dev->adj *)
(* and copy the adjustments, OPT_OVR_REDGAIN for those that only hand it   *)
(* over, OPT_GAMMA_VECTOR_R for the three vectors of the colours, which    *)
(* always go together.  Positions are in tenths of a millimetre.           *)
(***************************************************************************)
EXTENDS Integers

CONSTANTS
    Devices,       \* records: tpa, large, cis, only8, strip, fast, optic,
                   \*   altCal, binFromColor, grayFromColor, extent
    AskedDpi,      \* resolutions a frontend asks for
    Asked,         \* positions it asks for, by axis
    Uses,          \* what frontends set: the options one of them touches
    Configured,    \* settings of the configuration file: values of adj
    CarefulClose   \* a frontend turns the source back to normal before it closes

Axes == {"X", "Y"}
TopLeft(a) == IF a = "X" THEN "TL_X" ELSE "TL_Y"
BottomRight(a) == IF a = "X" THEN "BR_X" ELSE "BR_Y"
Corners == {"TL_X", "TL_Y", "BR_X", "BR_Y"}
AxisOf(o) == IF o \in {"TL_X", "BR_X"} THEN "X" ELSE "Y"

Switches == {"CUSTOM_GAMMA", "CACHECAL", "LOFF4DARK", "SPEEDUP"}
Vectors == {"GAMMA_VECTOR", "GAMMA_VECTOR_R"}
Valued == Corners \cup Switches
    \cup {"MODE", "BIT_DEPTH", "EXT_MODE", "RESOLUTION", "WARMUPTIME", "OVR_REDGAIN"}
Opts == Valued \cup Vectors \cup {"CONTRAST", "CALIBRATE"}

ASSUME OptionsAssumption ==
    /\ \A d \in Devices :
          /\ {d.tpa, d.large, d.cis, d.only8, d.strip, d.fast, d.altCal,
              d.binFromColor, d.grayFromColor} \subseteq BOOLEAN
          /\ d.optic \in Nat /\ d.optic >= 300 /\ d.optic % 25 = 0
          /\ \A a \in Axes : d.extent[a] \in Nat
          /\ d.extent["X"] >= 1030 /\ d.extent["Y"] >= 762
    /\ AskedDpi \subseteq Nat
    /\ \A a \in Axes : Asked[a] \subseteq Int
    /\ Uses \subseteq SUBSET Opts
    /\ Configured \subseteq
          [cache : BOOLEAN, skip : BOOLEAN, slow : BOOLEAN, gain : -1 .. 63, warmup : Int]
    /\ CarefulClose \in BOOLEAN

VARIABLES
    device,      \* the scanner; never changes
    used,        \* the options the frontend sets; never changes
    adj,         \* dev->adj: cache, skip, slow, gain, warmup
    desc,        \* dev->usbDev describes the device
    strip,       \* Caps.Normal.DarkShadOrgY >= 0
    tpaFlag,     \* SFLAG_TPA of dev->caps
    fromColor,   \* dev->scanning.fGrayFromColor
    extent,      \* maxima of dev->x_range and dev->y_range
    dpiMin,      \* dev->dpi_range.min
    open,        \* there is a handle
    val, active, \* its values; the options that are not SANE_CAP_INACTIVE
    table,       \* its gamma tables: "preset" or "own"
    modeSet,     \* OPT_MODE was set since the source was, or the source never was
    darkSet,     \* OPT_LOFF4DARK was set on this handle
    scanning, calibrating,
    params,      \* s->params
    line,        \* dev->scanning.dwBytesLine
    call, asked, info   \* the last call: its option, value, and *info

devVars == <<device, used, adj, desc, strip, tpaFlag, fromColor, extent, dpiMin, line>>
handleVars == <<open, val, active, table, modeSet, darkSet, scanning, calibrating, params>>
callVars == <<call, asked, info>>
vars == <<devVars, handleVars, callVars>>

-----------------------------------------------------------------------------
\* getScanMode: lineart, gray or color, and the depth.  With a source other
\* than normal the list of modes begins with color.

ModeOf(v) == IF v["EXT_MODE"] # 0 THEN v["MODE"] + 2 ELSE v["MODE"]

Kind(v) == CASE ModeOf(v) = 0 -> "bw" [] ModeOf(v) = 1 -> "gray" [] OTHER -> "color"

Depth(v) == IF ModeOf(v) = 0 THEN 1 ELSE IF v["BIT_DEPTH"] = 8 THEN 8 ELSE 16

\* sane_get_parameters before a scan: a cast to int rounds towards zero.
Trunc(n, d) == IF n >= 0 THEN n \div d ELSE -((-n) \div d)

Guess(v) ==
    LET size(a) == Trunc((v[BottomRight(a)] - v[TopLeft(a)]) * v["RESOLUTION"], 254)
    IN  [pixels |-> size("X"),
         lines  |-> size("Y"),
         depth  |-> Depth(v),
         rgb    |-> Kind(v) = "color",
         bytes  |-> CASE Kind(v) = "color" -> 3 * size("X")
                      [] Kind(v) = "bw" -> Trunc(size("X") + 7, 8)
                      [] OTHER -> Trunc(size("X") * Depth(v), 8)]

NoScan == [pixels |-> 0, lines |-> 0, depth |-> 0, rgb |-> FALSE, bytes |-> 0]

\* usb_GetImageInfo: pixels and bytes of a line of a picture type, of an area
\* measured at 300 dpi.
ImageInfo(kind, depth, width, from) ==
    LET bytes == (width + 7) \div 8
    IN  CASE kind = "bw" \/ (kind = "color" /\ depth = 8 /\ from > 7) ->
                 [pixels |-> bytes * 8, bytes |-> bytes]
          [] kind = "gray" -> [pixels |-> width, bytes |-> width * (depth \div 8)]
          [] OTHER -> [pixels |-> width, bytes |-> 3 * width * (depth \div 8)]

\* usbDev_setScanEnv: what is scanned in color for the sake of another kind.
FromColor(d, v) ==
    CASE Kind(v) = "bw" /\ d.binFromColor -> 10
      [] Kind(v) = "gray" /\ d.grayFromColor -> 2
      [] Kind(v) = "gray" /\ Depth(v) = 8 /\ ~d.cis /\ d.optic = 1200
            /\ v["RESOLUTION"] <= 300 -> 2
      [] OTHER -> 0

\* A mutant of BytesLine: gray that is scanned in color counts three times.
BytesLineOfColor(d, v, width) ==
    LET from == FromColor(d, v)
    IN  ImageInfo(IF from # 0 THEN "color" ELSE Kind(v), Depth(v), width, from).bytes

\* Its dwBytesLine.
BytesLine(d, v, width) ==
    LET from == FromColor(d, v)
        kind == IF from # 0 THEN "color" ELSE Kind(v)
        depth == IF from = 10 THEN 8 ELSE Depth(v)
        bytes == ImageInfo(kind, depth, width, from).bytes
    IN  IF from = 2 THEN bytes \div 3 ELSE bytes

\* local_sane_start exchanges corners that are the wrong way round.
InOrder(v) ==
    [o \in Valued |->
        IF o \notin Corners THEN v[o]
        ELSE LET a == AxisOf(o)
                 swap == v[TopLeft(a)] > v[BottomRight(a)]
             IN  IF ~swap THEN v[o]
                 ELSE IF o = TopLeft(a) THEN v[BottomRight(a)] ELSE v[TopLeft(a)]]

\* An extent at 300 dpi, and what it is at the resolution of the scan.
Scaled(v, a) ==
    ((((v[BottomRight(a)] - v[TopLeft(a)]) * 300) \div 254) * v["RESOLUTION"]) \div 300

-----------------------------------------------------------------------------
\* sanei_constrain_value for a range and for the list of resolutions.

Constrain(x, lo, hi) == IF x < lo THEN lo ELSE IF x > hi THEN hi ELSE x

\* The nearest of the resolutions attach lists: 50, 75, 100, ...
Nearest(x) ==
    LET below == 50 + 25 * ((x - 50) \div 25)
    IN  IF x - below <= 12 THEN below ELSE below + 25

\* A mutant of VectorsOf: the vectors of both kinds.
VectorsOfBoth(v) == IF v["CUSTOM_GAMMA"] THEN Vectors ELSE {}

\* The vectors of the gamma tables that are switched on with a custom gamma.
VectorsOf(v) ==
    IF ~v["CUSTOM_GAMMA"] THEN {}
    ELSE IF Kind(v) = "gray" THEN {"GAMMA_VECTOR"} ELSE {"GAMMA_VECTOR_R"}

CanCalibrate(d) == (desc /\ d.cis) \/ d.altCal

\* init_options
InitVal ==
    [o \in Valued |->
        CASE o = "MODE" -> 2
          [] o = "BIT_DEPTH" -> 8
          [] o = "EXT_MODE" -> 0
          [] o = "RESOLUTION" -> dpiMin
          [] o = "BR_X" -> 1030
          [] o = "BR_Y" -> 762
          [] o \in {"TL_X", "TL_Y"} -> 0
          [] o = "CACHECAL" -> adj.cache
          [] o = "LOFF4DARK" -> adj.skip
          [] o = "SPEEDUP" -> ~adj.slow
          [] o = "OVR_REDGAIN" -> adj.gain
          [] o = "WARMUPTIME" -> IF desc /\ device.cis THEN 0 ELSE adj.warmup
          [] OTHER -> FALSE]

InitInactive ==
    Vectors
    \cup (IF tpaFlag THEN {} ELSE {"EXT_MODE"})
    \cup (IF desc /\ device.only8 THEN {"BIT_DEPTH"} ELSE {})
    \cup (IF strip THEN {} ELSE {"LOFF4DARK"})
    \cup (IF adj.cache /\ CanCalibrate(device) THEN {} ELSE {"CALIBRATE"})
    \cup (IF desc /\ device.fast THEN {} ELSE {"SPEEDUP"})
    \cup (IF desc /\ device.cis THEN {"WARMUPTIME"} ELSE {})

-----------------------------------------------------------------------------
\* The state after sane_init: attach has described the device and set the limits.
Init ==
    /\ device \in Devices
    /\ used \in Uses
    /\ adj \in Configured
    /\ desc = TRUE
    /\ strip = (device.strip /\ ~adj.skip)
    /\ tpaFlag = device.tpa
    /\ fromColor = 0 /\ line = 0
    /\ extent = device.extent
    /\ dpiMin = 50
    /\ open = FALSE /\ scanning = FALSE /\ calibrating = FALSE
    /\ val = InitVal
    /\ active = {}
    /\ table = [t \in Vectors |-> "preset"]
    /\ modeSet = TRUE /\ darkSet = FALSE
    /\ params = NoScan
    /\ call = "none" /\ asked = 0 /\ info = {}

Quiet == call' = "none" /\ asked' = 0 /\ info' = {}

SaneOpen ==
    /\ ~open
    /\ open' = TRUE
    /\ val' = InitVal
    /\ active' = Opts \ InitInactive
    /\ table' = [t \in Vectors |-> "preset"]
    /\ modeSet' = TRUE /\ darkSet' = FALSE
    /\ Quiet
    /\ UNCHANGED <<devVars, scanning, calibrating, params>>

\* With its do_cancel for a calibration; a scan is over by then.
SaneClose ==
    /\ open
    /\ ~scanning
    /\ CarefulClose => val["EXT_MODE"] = 0
    /\ open' = FALSE
    /\ calibrating' = FALSE
    /\ Quiet
    /\ UNCHANGED <<devVars, val, active, table, modeSet, darkSet, scanning, params>>

-----------------------------------------------------------------------------
\* sane_control_option with SANE_ACTION_SET_VALUE.  A frontend sets what is
\* active; while a calibration runs only the corners can be set.

Call(o, x, flags) ==
    /\ open
    /\ ~scanning
    /\ calibrating => o \in Corners
    /\ o \in active \cap used
    /\ call' = o
    /\ asked' = x
    /\ info' = flags

Inexact(stored, x) == IF stored = x THEN {} ELSE {"inexact"}

Stores(o, x) == val' = [val EXCEPT ![o] = x]

OtherSettings == UNCHANGED <<device, used, desc, strip, tpaFlag, fromColor, extent, dpiMin, line>>
OtherState == UNCHANGED <<open, table, modeSet, darkSet, scanning, calibrating, params>>

SetResolution ==
    \E x \in AskedDpi :
        LET best == Nearest(Constrain(x, dpiMin, 2 * device.optic))
        IN  /\ Call("RESOLUTION", x, Inexact(best, x) \cup {"params"})
            /\ Stores("RESOLUTION", best)
            /\ UNCHANGED <<devVars, active>>
            /\ OtherState

SetCorner ==
    \E o \in Corners : \E x \in Asked[AxisOf(o)] :
        LET y == Constrain(x, 0, extent[AxisOf(o)])
        IN  /\ Call(o, x, Inexact(y, x) \cup {"params"})
            /\ Stores(o, y)
            /\ UNCHANGED <<devVars, active>>
            /\ OtherState

\* The depths are 8 and 14 or 16; whatever is not 8 is taken for 16.
SetBitDepth ==
    \E x \in {8, 16} :
        /\ Call("BIT_DEPTH", x, {"params"})
        /\ Stores("BIT_DEPTH", x)
        /\ UNCHANGED <<devVars, active>>
        /\ OtherState

\* A mutant of SetCacheCal: the frontend is not told to look at the others.
SetCacheCalQuiet ==
    \E x \in BOOLEAN :
        /\ Call("CACHECAL", x, {})
        /\ Stores("CACHECAL", x)
        /\ adj' = [adj EXCEPT !.cache = x]
        /\ active' = IF x /\ CanCalibrate(device) THEN active \cup {"CALIBRATE"}
                     ELSE active \ {"CALIBRATE"}
        /\ OtherSettings
        /\ OtherState

SetCacheCal ==
    \E x \in BOOLEAN :
        /\ Call("CACHECAL", x, {"options"})
        /\ Stores("CACHECAL", x)
        /\ adj' = [adj EXCEPT !.cache = x]
        /\ active' = IF ~x THEN active \ {"CALIBRATE"}
                     ELSE active \cup IF CanCalibrate(device) THEN {"CALIBRATE"} ELSE {}
        /\ OtherSettings
        /\ OtherState

\* What is asked for is the next calibration; a second call cancels it.
Calibrate ==
    /\ Call("CALIBRATE", 0, {"options"})
    /\ calibrating' = TRUE
    /\ UNCHANGED <<devVars, open, val, active, table, modeSet, darkSet, scanning, params>>

CancelCalibration ==
    /\ open /\ ~scanning /\ calibrating /\ "CALIBRATE" \in active \cap used
    /\ call' = "CALIBRATE" /\ asked' = 0 /\ info' = {"options"}
    /\ calibrating' = FALSE
    /\ UNCHANGED <<devVars, open, val, active, table, modeSet, darkSet, scanning, params>>

CalibrationEnds ==
    /\ calibrating
    /\ calibrating' = FALSE
    /\ Quiet
    /\ UNCHANGED <<devVars, open, val, active, table, modeSet, darkSet, scanning, params>>

SetSpeedup ==
    \E x \in BOOLEAN :
        /\ Call("SPEEDUP", x, {})
        /\ Stores("SPEEDUP", x)
        /\ adj' = [adj EXCEPT !.slow = ~x]
        /\ OtherSettings
        /\ UNCHANGED active
        /\ OtherState

SetLampOff4Dark ==
    \E x \in BOOLEAN :
        /\ Call("LOFF4DARK", x, {})
        /\ Stores("LOFF4DARK", x)
        /\ adj' = [adj EXCEPT !.skip = ~x]
        /\ OtherSettings
        /\ darkSet' = TRUE
        /\ UNCHANGED <<open, active, table, modeSet, scanning, calibrating, params>>

SetGain ==
    \E x \in {-1, 64} :
        LET y == Constrain(x, -1, 63)
        IN  /\ Call("OVR_REDGAIN", x, Inexact(y, x))
            /\ Stores("OVR_REDGAIN", y)
            /\ adj' = [adj EXCEPT !.gain = y]
            /\ OtherSettings
            /\ UNCHANGED active
            /\ OtherState

\* With usb_CheckAndCopyAdjs, which looks at all the adjustments.
SetWarmup ==
    \E x \in {30} :
        /\ Call("WARMUPTIME", x, {})
        /\ Stores("WARMUPTIME", x)
        /\ adj' = [adj EXCEPT !.warmup = x]
        /\ strip' = (strip /\ ~adj.skip)
        /\ UNCHANGED <<device, used, desc, tpaFlag, fromColor, extent, dpiMin, line>>
        /\ UNCHANGED <<open, active, table, modeSet, darkSet, scanning, calibrating, params>>

\* A mutant of SetCustomGamma: the tables stay when it is switched off.
SetCustomGammaOnly ==
    \E x \in BOOLEAN :
        /\ Call("CUSTOM_GAMMA", x, {"options", "params"})
        /\ Stores("CUSTOM_GAMMA", x)
        /\ active' = (active \ Vectors) \cup VectorsOf(val')
        /\ UNCHANGED <<devVars, open, table, modeSet, darkSet, scanning, calibrating, params>>

SetCustomGamma ==
    \E x \in BOOLEAN :
        /\ Call("CUSTOM_GAMMA", x, {"options", "params"})
        /\ Stores("CUSTOM_GAMMA", x)
        /\ active' = (active \ Vectors) \cup VectorsOf(val')
        /\ table' = IF x THEN table ELSE [t \in Vectors |-> "preset"]
        /\ UNCHANGED <<devVars, open, modeSet, darkSet, scanning, calibrating, params>>

SetVector ==
    \E t \in Vectors :
        /\ Call(t, 0, {"params"})
        /\ table' = [table EXCEPT ![t] = "own"]
        /\ UNCHANGED <<devVars, open, val, active, modeSet, darkSet, scanning, calibrating, params>>

\* The list of modes is shorter by two with a source other than normal.
SetMode ==
    \E x \in 0 .. (IF val["EXT_MODE"] = 0 THEN 2 ELSE 0) :
        /\ Call("MODE", x, {"options", "params"})
        /\ Stores("MODE", x)
        /\ LET byMode == {"CONTRAST", "BIT_DEPTH", "CUSTOM_GAMMA"}
               only8 == IF desc /\ device.only8 THEN {"BIT_DEPTH"} ELSE {}
               others == active \ (byMode \cup Vectors)
           IN  active' = IF Kind(val') = "bw" THEN others
                         ELSE others \cup (byMode \ only8) \cup VectorsOf(val')
        /\ modeSet' = TRUE
        /\ UNCHANGED <<devVars, open, table, darkSet, scanning, calibrating, params>>

\* The areas of the sources: the glass, slides, negatives.
AreaOf(source) ==
    IF source = 0 THEN device.extent
    ELSE IF desc /\ device.large THEN [X |-> 1075, Y |-> 1329]
    ELSE IF source = 1 THEN [X |-> 423, Y |-> 431] ELSE [X |-> 389, Y |-> 296]

\* A mutant of DefaultOf: the area of the glass for every source.
DefaultOfGlass(source) == [TL_X |-> 0, TL_Y |-> 0, BR_X |-> 1030, BR_Y |-> 762]

DefaultOf(source) ==
    CASE source = 0 -> [TL_X |-> 0, TL_Y |-> 0, BR_X |-> 1030, BR_Y |-> 762]
      [] source = 1 -> [TL_X |-> 35, TL_Y |-> 105, BR_X |-> 385, BR_Y |-> 335]
      [] OTHER -> [TL_X |-> 15, TL_Y |-> 15, BR_X |-> 375, BR_Y |-> 255]

SetSource ==
    \E source \in 0 .. 2 :
        /\ Call("EXT_MODE", source, {"options", "params"})
        /\ extent' = AreaOf(source)
        /\ dpiMin' = IF source = 0 THEN 50 ELSE 150
        /\ val' = [o \in Valued |->
                     CASE o = "EXT_MODE" -> source
                       [] o \in Corners -> DefaultOf(source)[o]
                       [] o = "MODE" -> IF source = 0 THEN 2 ELSE 0
                       [] OTHER -> val[o]]
        /\ active' = active \cup {"CONTRAST"}
        /\ modeSet' = FALSE
        /\ UNCHANGED <<device, used, adj, desc, strip, tpaFlag, fromColor, line>>
        /\ UNCHANGED <<open, table, darkSet, scanning, calibrating, params>>

-----------------------------------------------------------------------------
\* sane_start with the open of the device, up to the reader, and the scan's end.

StartOpenFails ==
    /\ open /\ ~scanning /\ ~calibrating
    /\ desc' = FALSE
    /\ strip' = TRUE
    /\ Quiet
    /\ UNCHANGED <<device, used, adj, tpaFlag, fromColor, extent, dpiMin, line>>
    /\ UNCHANGED <<open, val, active, table, modeSet, darkSet, scanning, calibrating, params>>

SaneStart ==
    /\ open /\ ~scanning /\ ~calibrating
    /\ desc' = TRUE
    /\ strip' = (device.strip /\ ~adj.skip)
    /\ tpaFlag' = TRUE
    /\ val' = InOrder(val)
    /\ LET image == ImageInfo(Kind(val), Depth(val), Scaled(val', "X"), fromColor)
           lines == Scaled(val', "Y")
       IN  /\ scanning' = (lines # 0 /\ image.bytes # 0)
           /\ params' = IF ~scanning' THEN NoScan
                        ELSE [Guess(val) EXCEPT !.pixels = image.pixels,
                                                !.lines = lines,
                                                !.bytes = image.bytes]
           /\ line' = IF scanning' THEN BytesLine(device, val, Scaled(val', "X")) ELSE 0
    /\ fromColor' = FromColor(device, val)
    /\ Quiet
    /\ UNCHANGED <<device, used, adj, extent, dpiMin>>
    /\ UNCHANGED <<open, active, table, modeSet, darkSet, calibrating>>

\* The parameters of a scan that is over are not looked at again.
ScanEnds ==
    /\ scanning
    /\ scanning' = FALSE
    /\ params' = NoScan /\ line' = 0
    /\ Quiet
    /\ UNCHANGED <<device, used, adj, desc, strip, tpaFlag, fromColor, extent, dpiMin>>
    /\ UNCHANGED <<open, val, active, table, modeSet, darkSet, calibrating>>

SetOption ==
    \/ SetResolution \/ SetCorner \/ SetBitDepth \/ SetCacheCal \/ Calibrate
    \/ CancelCalibration \/ SetSpeedup \/ SetLampOff4Dark \/ SetGain \/ SetWarmup
    \/ SetCustomGamma \/ SetVector \/ SetMode \/ SetSource

Next ==
    \/ SaneOpen
    \/ SaneClose
    \/ SetOption
    \/ CalibrationEnds
    \/ StartOpenFails
    \/ SaneStart
    \/ ScanEnds

Spec == Init /\ [][Next]_vars

-----------------------------------------------------------------------------
\* A frontend that sets only what is active, and the mode after the source, is
\* offered what fits the mode: no contrast, gamma or depth for lineart, the
\* vectors of its own colors with a custom gamma, a calibration where the
\* device can keep one (sane_control_option, init_options).
ActiveFits ==
    open /\ modeSet =>
        /\ "CUSTOM_GAMMA" \in active <=> Kind(val) # "bw"
        /\ "CONTRAST" \in active <=> Kind(val) # "bw"
        /\ "BIT_DEPTH" \in active => Kind(val) # "bw"
        /\ Kind(val) # "bw" /\ ~device.only8 => "BIT_DEPTH" \in active
        /\ "GAMMA_VECTOR" \in active <=> Kind(val) = "gray" /\ val["CUSTOM_GAMMA"]
        /\ "GAMMA_VECTOR_R" \in active <=> Kind(val) = "color" /\ val["CUSTOM_GAMMA"]
        /\ "CALIBRATE" \in active => val["CACHECAL"] /\ (device.cis \/ device.altCal)

\* Values stay inside what their descriptors say, although the source moves the
\* limits of options set before (OPT_EXT_MODE), and the handle before this one
\* had the same limits; only the resolution may be left below a new minimum.
ValuesInRange ==
    open =>
        /\ \A o \in Corners : val[o] \in 0 .. extent[AxisOf(o)]
        /\ val["MODE"] \in 0 .. (IF val["EXT_MODE"] = 0 THEN 2 ELSE 0)
        /\ dpiMin = IF val["EXT_MODE"] = 0 THEN 50 ELSE 150
        /\ val["RESOLUTION"] % 25 = 0
        /\ val["RESOLUTION"] \in 50 .. 2 * device.optic

\* While a scan runs, what sane_get_parameters answers is what the reader was
\* started with: lines as long as the device's, the kind and depth of the
\* options, and of the lines announced before no more missing than rounding
\* twice takes (sane_get_parameters, local_sane_start, usbDev_setScanEnv).
ParamsHold ==
    scanning =>
        /\ params.bytes = line
        /\ params.rgb = (Kind(val) = "color")
        /\ params.depth = Depth(val)
        /\ params.lines <= Guess(val).lines
        /\ Guess(val).lines - params.lines <= val["RESOLUTION"] \div 300 + 1

\* What a handle shows of the device's settings tells what the next scan uses, in
\* this handle and in the next.  Four are shown as they are; of the warm-up time
\* a CIS device shows 0 for one that cannot be set.  lamp-off-during-dcal shows
\* whether the dark strip is skipped until it is set, and afterwards whether it is
\* not: sane_control_option stores the negation of what init_options shows.
\* (init_options, sane_control_option, initGammaSettings)
UsedAsShown ==
    open =>
        /\ adj.cache = val["CACHECAL"]
        /\ adj.slow = ~val["SPEEDUP"]
        /\ adj.gain = val["OVR_REDGAIN"]
        /\ ~val["CUSTOM_GAMMA"] => \A t \in Vectors : table[t] = "preset"
        /\ IF "WARMUPTIME" \in active \/ ~device.cis
           THEN adj.warmup = val["WARMUPTIME"]
           ELSE val["WARMUPTIME"] = 0
        /\ adj.skip = (IF darkSet THEN ~val["LOFF4DARK"] ELSE val["LOFF4DARK"])

\* An option that changes others, or their limits, tells the frontend to look at
\* them again, one that changes the picture to ask for the parameters, and one
\* that stores another value than was asked for says so (the *info of
\* sane_control_option).
Told ==
    call' \in Opts =>
        /\ (\E o \in Opts \ {call'} :
               \/ (o \in active) # (o \in active')
               \/ o \in Valued /\ val[o] # val'[o]) => "options" \in info'
        /\ <<extent, dpiMin>> # <<extent, dpiMin>>' => "options" \in info'
        /\ Guess(val) # Guess(val') => "params" \in info'
        /\ call' \in Valued /\ val'[call'] # asked' => "inexact" \in info'

ChangesTold == [][Told]_vars

\* A source other than normal is offered only by a device that has an adapter
\* for it (init_options: "disable extended mode list for devices without TPA").
SourceThere == open /\ "EXT_MODE" \in active => device.tpa

=============================================================================
