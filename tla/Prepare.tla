------------------------------ MODULE Prepare ------------------------------
(***************************************************************************)
(* What the reader process does before it reads a picture (usbDev_Prepare  *)
(* with cano_DoCalibration): settings from the file or three searches on   *)
(* the calibration strip, shading from the file or a dark and a white      *)
(* measurement, everything new saved, the sensor sent home, the lamp left  *)
(* on.  A dark measurement needs the lamp off, or, on a device that has    *)
(* one, the black strip; a white one the lamp on and the white strip.      *)
(* strip_state remembers where all that stands.                            *)
(*                                                                         *)
(* The user may cancel (SIGUSR1, which stays pending and is looked for now *)
(* and then), and the process may be killed when that takes too long.  A   *)
(* scan may be one of the calibrations that OPT_CALIBRATE runs.            *)
(***************************************************************************)
EXTENDS CoarseSearch, CalFile

CONSTANTS
    Devices,     \* [sheetFed, darkStrip : BOOLEAN]
    Faults,      \* of {"move", "lamp", "read"}: operations that may fail
    MaxScans,    \* bound: scans in a run
    Unsettled    \* bound: scans in which the sensor is anything but settled

ASSUME PrepareAssumption ==
    /\ Devices \subseteq [sheetFed : BOOLEAN, darkStrip : BOOLEAN]
    /\ \A d \in Devices : ~(d.sheetFed /\ d.darkStrip)
    /\ Faults \subseteq {"move", "lamp", "read"}
    /\ MaxScans \in Nat /\ Unsettled \in Nat

VARIABLES
    device, at, want, scan,      \* which device, where, for which scan
    escape,                      \* SIGUSR1 is pending
    strip, pos, lamp,            \* strip_state, the sensor, the lamp
    coarse, skipCoarse,          \* whose settings are used; were they at hand
    dpi, fine, bypass,           \* resolution calibrated, shading, shading unused
    unseen,                      \* a failure was not reported
    broken                       \* a calibration was broken off

where == <<strip, pos, lamp>>
data  == <<coarse, skipCoarse, dpi, fine, bypass>>
vars  == <<searchVars, fileVars, device, at, want, scan, escape, where, data, unseen, broken>>

\* Calibrating needs the files and goes through the resolutions by itself;
\* who does without the files is taken to scan with 8 bits, which is the same.
Requests ==
    {r \in [type : Types, depth : Depths, dpi : Dpis, calibrate : BOOLEAN, cache : BOOLEAN] :
        /\ r.calibrate => r.cache /\ r.dpi = 1
        /\ ~r.cache => r.depth = 8 /\ r.dpi = 1}

Blank == [dark |-> <<>>, white |-> <<>>]

PrepareInit ==
    /\ SearchInit
    /\ FilesInit
    /\ device \in Devices
    /\ at = "idle"
    /\ want = CHOOSE r \in Requests : TRUE
    /\ scan = 0
    /\ escape = FALSE
    /\ strip = 0 /\ pos = "home" /\ lamp = "on"
    /\ coarse = 0 /\ skipCoarse = FALSE
    /\ dpi = 1 /\ fine = Blank /\ bypass = FALSE
    /\ unseen = FALSE /\ broken = FALSE

-----------------------------------------------------------------------------

Goes(from, to) == at = from /\ at' = to

\* Nothing of the process is left but the files.
Leaves ==
    /\ at' = "idle"
    /\ escape' = FALSE
    /\ strip' = 0 /\ pos' = "home" /\ lamp' = "on"
    /\ coarse' = 0 /\ skipCoarse' = FALSE
    /\ dpi' = 1 /\ fine' = Blank /\ bypass' = FALSE
    /\ unseen' = FALSE
    /\ want' = CHOOSE r \in Requests : TRUE
    /\ UNCHANGED <<device, scan>>

\* The reader reports failure.  New settings it has not saved yet are lost,
\* shading measured with them may be in the file.
Fails ==
    /\ Leaves
    /\ broken' = (broken \/ (want.cache /\ ~skipCoarse))

Same == UNCHANGED <<device, want, scan, escape, broken>>

Known(r) == ~r.calibrate /\ r.cache /\ coarseFile[r.type, r.depth] # 0

\* usb_SensorStatus, which does not wait for the sensor, and
\* usb_PrepareCalibration.
Begin ==
    /\ at = "idle"
    /\ scan < MaxScans
    /\ \E r \in Requests :
          LET preset == device.sheetFed /\ ~r.calibrate
          IN  /\ want' = r
              /\ coarse' = IF Known(r) THEN coarseFile[r.type, r.depth] ELSE 0
              /\ skipCoarse' = (Known(r) \/ preset)
              /\ at' = IF Known(r) \/ preset THEN "file" ELSE "wait"
              /\ strip' = IF Known(r) \/ preset THEN 1 ELSE 0
    /\ scan' = scan + 1
    /\ pos' \in IF device.sheetFed THEN {"home"} ELSE {"home", "elsewhere"}
    /\ UNCHANGED <<searchVars, fileVars, device, escape, lamp, dpi, fine, bypass,
                   unseen, broken>>

\* usb_Wait4ScanSample gives up when it is cancelled or nothing comes.
WaitForPaper ==
    /\ at = "wait"
    /\ \/ ~(device.sheetFed /\ escape) /\ at' = "white1" /\ Same /\ UNCHANGED <<where, data, unseen>>
       \/ device.sheetFed /\ Fails
    /\ UNCHANGED <<searchVars, fileVars>>

MoveFails == "move" \in Faults /\ ~device.sheetFed

\* cano_PrepareToReadWhiteCal.  A sheet-fed device is moved only if `move'.
PrepareWhite(from, move, to) ==
    /\ at = from
    /\ \/ /\ CASE strip = 0 -> /\ pos' = IF device.sheetFed /\ ~move THEN pos ELSE "shading"
                               /\ UNCHANGED lamp
               [] strip = 1 -> UNCHANGED <<pos, lamp>>
               [] strip = 2 -> lamp' = "on" /\ UNCHANGED pos
          /\ strip' = 1
          /\ at' = to
          /\ Same
          /\ UNCHANGED <<data, unseen>>
       \/ strip = 0 /\ MoveFails /\ Fails
       \/ strip = 2 /\ "lamp" \in Faults /\ Fails
    /\ UNCHANGED <<searchVars, fileVars>>

\* Mutant: the sensor's leaving the white strip is not noted.
PrepareBlackUnnoted(from, to) ==
    /\ Goes(from, to)
    /\ \/ /\ strip = 0 /\ MoveFails
          /\ pos' = "elsewhere" /\ unseen' = TRUE
          /\ UNCHANGED <<strip, lamp>>
       \/ /\ strip # 2 /\ device.darkStrip
          /\ strip' = 1
          /\ \/ pos' = "dark" /\ UNCHANGED unseen
             \/ MoveFails /\ pos' = "elsewhere" /\ unseen' = TRUE
          /\ UNCHANGED lamp
       \/ /\ strip # 2 /\ ~device.darkStrip
          /\ strip' = 2
          /\ pos' = IF strip = 0 /\ ~device.sheetFed THEN "shading" ELSE pos
          /\ lamp' = "off"
          /\ UNCHANGED unseen
    /\ Same
    /\ UNCHANGED <<searchVars, fileVars, data>>

\* cano_PrepareToReadBlackCal.  When it cannot bring the sensor to the white
\* strip it returns SANE_FALSE, which is 0 and success to its callers; whether
\* the sensor reaches the black strip it does not ask.  strip_state is never 2
\* when this is called.
PrepareBlack(from, to) ==
    /\ Goes(from, to)
    /\ \/ /\ strip = 0 /\ MoveFails
          /\ pos' = "elsewhere" /\ unseen' = TRUE
          /\ UNCHANGED <<strip, lamp>>
       \/ /\ strip # 2 /\ device.darkStrip
          /\ strip' = 0
          /\ \/ pos' = "dark" /\ UNCHANGED unseen
             \/ MoveFails /\ pos' = "elsewhere" /\ unseen' = TRUE
          /\ UNCHANGED lamp
       \/ /\ strip # 2 /\ ~device.darkStrip
          /\ strip' = 2
          /\ pos' = IF strip = 0 /\ ~device.sheetFed THEN "shading" ELSE pos
          /\ lamp' = "off"
          /\ UNCHANGED unseen
    /\ Same
    /\ UNCHANGED <<searchVars, fileVars, data>>

-----------------------------------------------------------------------------

SensorsNow == IF scan <= Unsettled THEN {"steady", "erratic"} ELSE {"settled"}

\* cano_AdjustLightsource, cano_AdjustOffset and cano_AdjustGain.
Adjust(from, s, to) ==
    /\ at = from
    /\ \/ /\ ~escape /\ search = "none"
          /\ BeginSearch(s, SensorsNow)
          /\ Same
          /\ UNCHANGED <<at, where, data, unseen>>
       \/ /\ ~escape
          /\ SearchRound
          /\ Same
          /\ UNCHANGED <<at, where, data, unseen>>
       \/ /\ EndSearch
          /\ at' = to
          /\ coarse' = IF s = "gain" THEN scan ELSE coarse
          /\ Same
          /\ UNCHANGED <<where, skipCoarse, dpi, fine, bypass, unseen>>
       \/ /\ (escape \/ "read" \in Faults) /\ (search = "none" \/ running)
          /\ ForgetSearch
          /\ Fails
    /\ UNCHANGED fileVars

Read(part) == Samples(fineFile, <<want.type, want.dpi>>, part)

OneOf(samples) == IF samples = {} THEN <<>> ELSE CHOOSE d \in samples : TRUE

\* usb_FineShadingFromFile, where the shading is asked for in the file, and
\* who needs no measurement: in calibration mode all that is not 8 bits deep,
\* else who has found it, and a sheet-fed device in any case.
FromFile ==
    /\ at = "file"
    /\ LET asked == want.cache \/ device.sheetFed
           found == asked /\ ~want.calibrate /\ Read("dark") # {} /\ Read("white") # {}
           skip  == asked /\ IF want.calibrate THEN want.depth # 8
                             ELSE found \/ device.sheetFed
       IN  /\ fine' = IF asked /\ ~want.calibrate
                      THEN [dark |-> OneOf(Read("dark")),
                            white |-> IF found THEN OneOf(Read("white")) ELSE <<>>]
                      ELSE fine
           /\ at' = IF skip THEN "finish" ELSE "black2"
           /\ strip' = IF skip THEN 2 ELSE strip
           /\ bypass' = (device.sheetFed /\ ~found /\ ~want.calibrate)
    /\ dpi' = want.dpi
    /\ Same
    /\ UNCHANGED <<searchVars, fileVars, pos, lamp, coarse, skipCoarse, unseen>>

Measured(real) ==
    [key |-> <<want.type, dpi>>, depth |-> want.depth,
     settings |-> coarse, scan |-> scan, real |-> real]

\* cano_AdjustDarkShading: when nothing could be read it uses what the buffer
\* has and goes on, if only the scan could be ended.
MeasureDark ==
    /\ at = "dark"
    /\ \/ escape /\ Fails
       \/ "read" \in Faults /\ Fails
       \/ /\ ~escape
          /\ at' = "white3"
          /\ \/ /\ fine' = [fine EXCEPT !.dark = Measured(TRUE)]
                /\ UNCHANGED <<escape, unseen>>
             \/ /\ fine' = [fine EXCEPT !.dark = Measured(FALSE)]
                /\ \/ "read" \in Faults /\ unseen' = TRUE /\ UNCHANGED escape
                   \/ escape' = TRUE /\ UNCHANGED unseen
          /\ UNCHANGED <<device, want, scan, broken, where, coarse, skipCoarse, dpi, bypass>>
    /\ UNCHANGED <<searchVars, fileVars>>

\* Home and to the white strip once more, even if the sensor is there.
MoveToShading ==
    /\ at = "move"
    /\ \/ /\ at' = "white"
          /\ pos' = IF device.sheetFed THEN pos ELSE "shading"
          /\ Same
          /\ UNCHANGED <<strip, lamp, data, unseen>>
       \/ MoveFails /\ Fails
    /\ UNCHANGED <<searchVars, fileVars>>

\* cano_AdjustWhiteShading; usb_SaveCalSetShading begins to save.
MeasureWhite ==
    /\ at = "white"
    /\ \/ /\ escape \/ "read" \in Faults
          /\ Fails
          /\ UNCHANGED fileVars
       \/ /\ ~escape
          /\ fine' = [fine EXCEPT !.white = Measured(TRUE)]
          /\ IF want.cache
             THEN at' = "saving" /\ SaveFine(<<want.type, dpi>>, fine.dark, fine'.white)
             ELSE at' = "next" /\ UNCHANGED fileVars
          /\ Same
          /\ UNCHANGED <<where, coarse, skipCoarse, dpi, bypass, unseen>>
    /\ UNCHANGED searchVars

FineSaved ==
    /\ Goes("saving", "next")
    /\ Written
    /\ Same
    /\ UNCHANGED <<searchVars, where, data, unseen>>

\* Mutant: idx_end is one too small.
NextDpiOneLess ==
    /\ at = "next"
    /\ strip' = 0
    /\ IF want.calibrate /\ dpi + 1 < MaxDpi
       THEN dpi' = dpi + 1 /\ at' = "black2"
       ELSE at' = "finish" /\ UNCHANGED dpi
    /\ Same
    /\ UNCHANGED <<searchVars, fileVars, pos, lamp, coarse, skipCoarse, fine, bypass, unseen>>

NextDpi ==
    /\ at = "next"
    /\ strip' = 0
    /\ IF want.calibrate /\ dpi < MaxDpi
       THEN dpi' = dpi + 1 /\ at' = "black2"
       ELSE at' = "finish" /\ UNCHANGED dpi
    /\ Same
    /\ UNCHANGED <<searchVars, fileVars, pos, lamp, coarse, skipCoarse, fine, bypass, unseen>>

\* Mutant: the sensor is not sent home.
FinishWithoutHome ==
    /\ at = "finish"
    /\ lamp' = IF strip = 2 THEN "on" ELSE lamp
    /\ strip' = 0
    /\ UNCHANGED <<pos, unseen>>
    /\ IF want.cache /\ ~skipCoarse
       THEN at' = "saving2" /\ SaveCoarse(<<want.type, want.depth>>, coarse)
       ELSE at' = "ready" /\ UNCHANGED fileVars
    /\ Same
    /\ UNCHANGED <<searchVars, data>>

\* cano_LampOnAfterCalibration, usb_ModuleToHome and, if there is something
\* new, the beginning of usb_SaveCalData.
Finish ==
    /\ at = "finish"
    /\ lamp' = IF strip = 2 THEN "on" ELSE lamp
    /\ strip' = 0
    /\ \/ pos' = (IF device.sheetFed THEN pos ELSE "home") /\ UNCHANGED unseen
       \/ MoveFails /\ pos' = "elsewhere" /\ unseen' = TRUE
    /\ IF want.cache /\ ~skipCoarse
       THEN at' = "saving2" /\ SaveCoarse(<<want.type, want.depth>>, coarse)
       ELSE at' = "ready" /\ UNCHANGED fileVars
    /\ Same
    /\ UNCHANGED <<searchVars, data>>

CoarseSaved ==
    /\ Goes("saving2", "ready")
    /\ Written
    /\ Same
    /\ UNCHANGED <<searchVars, where, data, unseen>>

\* A calibration is over, a scan reads its picture.
Ready ==
    /\ at = "ready"
    /\ Leaves
    /\ UNCHANGED <<searchVars, fileVars, broken>>

Cancel ==
    /\ at # "idle" /\ ~escape
    /\ escape' = TRUE
    /\ UNCHANGED <<searchVars, fileVars, device, at, want, scan, where, data, unseen, broken>>

Killed ==
    /\ escape
    /\ IF pending # Idle THEN Torn ELSE UNCHANGED fileVars
    /\ ForgetSearch
    /\ Fails

ReaderStep ==
    \/ WaitForPaper
    \/ PrepareWhite("white1", TRUE, "lamp")
    \/ Adjust("lamp", "lamp", "black1")
    \/ PrepareBlack("black1", "offset")
    \/ Adjust("offset", "offset", "white2")
    \/ PrepareWhite("white2", FALSE, "gain")
    \/ Adjust("gain", "gain", "file")
    \/ FromFile
    \/ PrepareBlack("black2", "dark")
    \/ MeasureDark
    \/ PrepareWhite("white3", FALSE, "move")
    \/ MoveToShading
    \/ MeasureWhite
    \/ FineSaved
    \/ NextDpi
    \/ Finish
    \/ CoarseSaved
    \/ Ready

Next == Begin \/ ReaderStep \/ Cancel \/ Killed

Spec == PrepareInit /\ [][Next]_vars

FairSpec == Spec /\ WF_vars(ReaderStep)

-----------------------------------------------------------------------------

Points ==
    {"idle", "wait", "white1", "lamp", "black1", "offset", "white2", "gain", "file",
     "black2", "dark", "white3", "move", "white", "saving", "next", "finish",
     "saving2", "ready"}

Data == [key : FineKeys, depth : Depths, settings : 0 .. MaxScans, scan : 1 .. MaxScans,
         real : BOOLEAN]

Lines == [key : FineKeys, part : {"dark", "white"}, data : Data, how : Conditions]

TypeOK ==
    /\ SearchTypeOK
    /\ coarseFile \in [CoarseKeys -> 0 .. MaxScans]
    /\ ToSet(fineFile) \subseteq Lines
    /\ pending = Idle \/ (pending.what = "fine" /\ ToSet(pending.text) \subseteq Lines)
                      \/ (pending.what = "coarse" /\ pending.text \in [CoarseKeys -> 0 .. MaxScans])
    /\ device \in Devices /\ at \in Points /\ want \in Requests /\ scan \in 0 .. MaxScans
    /\ strip \in 0 .. 2
    /\ pos \in {"home", "shading", "dark", "elsewhere"}
    /\ lamp \in {"on", "off"}
    /\ coarse \in 0 .. MaxScans
    /\ dpi \in Dpis
    /\ {fine.dark, fine.white} \subseteq Data \cup {<<>>}
    /\ {escape, skipCoarse, bypass, unseen, broken} \subseteq BOOLEAN

Dark  == lamp = "off" \/ pos = "dark"
Light == lamp = "on" /\ pos = "shading"

\* Every measurement is made where it has to be: offset and dark shading in
\* the dark, lamp, gain and white shading on the lit white strip, whatever was
\* skipped, whatever the device has and whichever resolution it is, as long as
\* no movement failed without being reported.
RightLight ==
    ~unseen =>
        /\ (running /\ search = "offset") \/ at = "dark" => Dark
        /\ (running /\ search \in {"lamp", "gain"}) \/ at = "white" => Light

\* A preparation that succeeds leaves the lamp on and the sensor at home.
EndsHome ==
    at \in {"saving2", "ready"} /\ ~unseen =>
        lamp = "on" /\ (pos = "home" \/ device.sheetFed)

\* The shading a scan begins with is that of its own type and resolution, the
\* dark and the white part are of one measurement, which really read something
\* unless that failed unseen, now or when it was saved, and, with 8 bits, it
\* was measured under the very settings that are in use.
ShadingFits ==
    at = "ready" /\ ~want.calibrate /\ ~bypass =>
        /\ fine.dark.key = <<want.type, want.dpi>>
        /\ [fine.dark EXCEPT !.real = TRUE] = fine.white
        /\ fine.dark.scan = scan => fine.dark.real \/ unseen
        /\ ~broken /\ want.depth = 8 /\ fine.white.depth = 8 /\ ~device.sheetFed =>
              fine.white.settings = coarse

\* At rest, unless a calibration was broken off, the two files agree: 8 bit
\* shading was measured under the settings that are kept for its type.
FilesAgree ==
    at = "idle" /\ ~broken =>
        \A l \in ToSet(fineFile) :
            l.how = "whole" /\ l.data.depth = 8 =>
                coarseFile[l.key[1], 8] \in {0, l.data.settings}

\* A preparation ends whatever the sensor shows, whatever fails, and without
\* anybody cancelling it.
PrepareEnds == at # "idle" ~> at = "idle"

=============================================================================
