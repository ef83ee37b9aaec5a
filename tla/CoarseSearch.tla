---------------------------- MODULE CoarseSearch ----------------------------
(***************************************************************************)
(* The three searches of the coarse calibration (plustek-usbcal.c): the    *)
(* time the lamp burns per line, the offset and the gain of the analog     *)
(* front end.  Each reads a line of the calibration strip, narrows for     *)
(* every colour channel a bracket around the setting looked for, and goes  *)
(* on while one of the channels asks for it.  A channel that is fine keeps *)
(* being read, and may be adjusted again, as long as the others search.    *)
(*                                                                         *)
(* What a line shows is a level: too dark, fine or too bright.  A steady   *)
(* sensor shows the same level for the same setting and brighter ones for  *)
(* larger settings; an erratic one shows anything; with a settled one the  *)
(* first line is fine.                                                     *)
(***************************************************************************)
EXTENDS Integers

CONSTANTS
    Channels,               \* color: red, green and blue; gray: one
    GainMax, GainStart,     \* 0x3f; 0x0a, or 1 for a CCD device
    OffsetLow, OffsetHigh,  \* -32 and 31, six bits with a sign
    LampLow, LampStart,     \* the device's *_lamp_on and *_lamp_off
    LampMax,                \* 0x3fff
    LampRounds,             \* 10
    DarkTarget              \* _WAF_INC_DARKTGT

ASSUME SearchAssumption ==
    /\ GainMax \in Nat /\ GainStart \in 1 .. GainMax
    /\ OffsetLow \in Int /\ OffsetHigh \in Nat /\ OffsetLow < 0
    /\ LampMax \in Nat /\ LampLow \in Nat /\ LampStart \in LampLow .. LampMax
    /\ LampRounds \in Nat
    /\ DarkTarget \in BOOLEAN

VARIABLES
    search,     \* which search, or "none"
    running,    \* it has not ended yet
    bracket,    \* per channel: lower bound, setting, upper bound
    rounds,     \* lines read by this search, counted as far as the limit
    tweak,      \* tweak_offset
    sensor,     \* "steady", "erratic" or "settled"
    fits        \* the settings for which a steady sensor shows "fine"

searchVars == <<search, running, bracket, rounds, tweak, sensor, fits>>

Searches == {"lamp", "offset", "gain"}

Levels == {"dark", "fine", "bright"}

Sensors == {"steady", "erratic", "settled"}

Low  == [lamp |-> LampLow, offset |-> OffsetLow, gain |-> 1]
High == [lamp |-> LampMax, offset |-> OffsetHigh, gain |-> GainMax]
First == [lamp |-> LampStart, offset |-> 0, gain |-> GainStart]

\* Division by two as C does it, towards zero.
Half(x) == IF x >= 0 THEN x \div 2 ELSE -((-x) \div 2)

Lesser(x, y) == IF x < y THEN x ELSE y

-----------------------------------------------------------------------------

Tight(b) == b.lo + 1 >= b.hi

Raised(b) == [lo |-> b.cur, cur |-> Half(b.cur + b.hi), hi |-> b.hi]

\* Mutant: the upper bound stays.
LoweredOnly(b) == [b EXCEPT !.cur = Half(b.lo + b.cur)]

Lowered(b) == [lo |-> b.lo, cur |-> Half(b.lo + b.cur), hi |-> b.cur]

\* The lamp is raised by no more than doubling it.
LampRaised(b) ==
    [lo |-> b.cur, cur |-> Lesser(2 * b.cur, Half(b.cur + b.hi)), hi |-> b.hi]

\* Mutant: too dark and too bright taken for each other.
GainAfterSwapped(b, level) ==
    CASE level = "fine"   -> b
      [] level = "dark"   -> Lowered(b)
      [] level = "bright" -> Raised(b)

\* cano_adjGainSetting
GainAfter(b, level) ==
    CASE level = "fine"   -> b
      [] level = "bright" -> Lowered(b)
      [] level = "dark"   -> Raised(b)

\* cano_adjLampSetting
Limited(b, level) == level = "dark" /\ LampRaised(b).cur > LampMax

LampAfter(b, level) ==
    CASE level = "fine"   -> b
      [] level = "bright" -> Lowered(b)
      [] Limited(b, level) -> [LampRaised(b) EXCEPT !.cur = LampMax]
      [] OTHER             -> LampRaised(b)

\* cano_GetNewOffset: the level counts as long as tweak_offset is set.  Too
\* many black pixels lower the offset, and from then on it is only lowered.
ByLevel(c, level) == tweak[c] /\ level # "fine"

ByZeros(c, level, zeros) == ~ByLevel(c, level) /\ DarkTarget /\ zeros

OffsetAfter(c, level, zeros) ==
    IF ByLevel(c, level) /\ level = "dark" THEN Raised(bracket[c])
    ELSE IF ByLevel(c, level) \/ ByZeros(c, level, zeros) THEN Lowered(bracket[c])
    ELSE bracket[c]

-----------------------------------------------------------------------------

Nothing == [lo |-> 0, cur |-> 0, hi |-> 0]
NoStretch == [from |-> 0, to |-> 0]

SearchInit ==
    /\ search = "none"
    /\ running = FALSE
    /\ bracket = [c \in Channels |-> Nothing]
    /\ rounds = 0
    /\ tweak = [c \in Channels |-> FALSE]
    /\ sensor = "settled"
    /\ fits = [c \in Channels |-> NoStretch]

\* The settings a steady sensor is content with: a stretch, which may be empty.
Stretches(s) ==
    {st \in [from : Low[s] .. High[s], to : Low[s] - 1 .. High[s]] :
        st.from <= st.to + 1}

BeginSearch(s, sensors) ==
    /\ search' = s
    /\ running' = TRUE
    /\ bracket' = [c \in Channels |-> [lo |-> Low[s], cur |-> First[s], hi |-> High[s]]]
    /\ rounds' = 0
    /\ tweak' = [c \in Channels |-> s = "offset"]
    /\ sensor' \in sensors
    /\ fits' \in IF sensor' = "steady" THEN [Channels -> Stretches(s)] ELSE {fits}

LevelAt(c, setting) ==
    IF setting < fits[c].from THEN "dark"
    ELSE IF setting > fits[c].to THEN "bright"
    ELSE "fine"

Shown(c) ==
    CASE sensor = "steady"  -> {LevelAt(c, bracket[c].cur)}
      [] sensor = "erratic" -> Levels
      [] sensor = "settled" -> {"fine"}

Readings == {level \in [Channels -> Levels] : \A c \in Channels : level[c] \in Shown(c)}

\* A line is read.  Channels in `again' have asked for another one.
Round(again) ==
    /\ running
    /\ running' = (again # {})
    /\ rounds' = Lesser(rounds + 1, LampRounds + 1)
    /\ UNCHANGED <<search, sensor, fits>>

GainRound ==
    /\ search = "gain"
    /\ \E level \in Readings :
          /\ bracket' = [c \in Channels |-> GainAfter(bracket[c], level[c])]
          /\ Round({c \in Channels : level[c] # "fine" /\ ~Tight(bracket'[c])})
    /\ UNCHANGED tweak

\* The loop ends when no channel was adjusted, when all are limited, or with
\* the round in which the counter has reached its limit.
LampRound ==
    /\ search = "lamp"
    /\ \E level \in Readings :
          /\ bracket' = [c \in Channels |-> LampAfter(bracket[c], level[c])]
          /\ LET limited == {c \in Channels : Limited(bracket[c], level[c])}
                 more == {c \in Channels : level[c] # "fine" /\ ~Tight(bracket'[c])}
             IN  Round(IF limited = Channels \/ rounds >= LampRounds
                       THEN {} ELSE limited \cup more)
    /\ UNCHANGED tweak

OffsetRound ==
    /\ search = "offset"
    /\ \E level \in Readings, black \in SUBSET Channels :
          /\ bracket' = [c \in Channels |-> OffsetAfter(c, level[c], c \in black)]
          /\ tweak' = [c \in Channels |-> tweak[c] /\ ~ByZeros(c, level[c], c \in black)]
          /\ Round({c \in Channels :
                      /\ ByLevel(c, level[c]) \/ ByZeros(c, level[c], c \in black)
                      /\ ~Tight(bracket'[c])})

SearchRound == GainRound \/ LampRound \/ OffsetRound

\* What the search has found is in the registers; the rest is local to it.
ForgetSearch ==
    /\ search' = "none"
    /\ running' = FALSE
    /\ bracket' = [c \in Channels |-> Nothing]
    /\ rounds' = 0
    /\ tweak' = [c \in Channels |-> FALSE]
    /\ fits' = [c \in Channels |-> NoStretch]
    /\ sensor' = "settled"

EndSearch == search # "none" /\ ~running /\ ForgetSearch

SearchNext ==
    \/ search = "none" /\ \E s \in Searches : BeginSearch(s, Sensors)
    \/ SearchRound
    \/ EndSearch

-----------------------------------------------------------------------------

SearchTypeOK ==
    /\ search \in Searches \cup {"none"}
    /\ running \in BOOLEAN
    /\ bracket \in [Channels -> [lo : Int, cur : Int, hi : Int]]
    /\ rounds \in Nat
    /\ tweak \in [Channels -> BOOLEAN]
    /\ fits \in [Channels -> [from : Int, to : Int]]
    /\ sensor \in Sensors

\* Whatever the sensor shows, no search leaves the range of its register, and
\* every channel's setting stays inside its bracket: the gain within one to
\* 0x3f, the offset within six bits, the lamp within 14 bits.
SettingsInRange ==
    search # "none" =>
        \A c \in Channels :
            /\ Low[search] <= bracket[c].lo
            /\ bracket[c].lo <= bracket[c].cur
            /\ bracket[c].cur <= bracket[c].hi
            /\ bracket[c].hi <= High[search]

\* The bisections find what they look for: when a search ends, on a steady
\* sensor, a channel shows "fine" if any setting strictly inside the range
\* does.  (The two ends of the range are never tried.)  Not claimed of a lamp
\* search that ran into its limit, nor of an offset that black pixels lowered.
SearchFinds ==
    search # "none" /\ ~running /\ sensor = "steady" =>
        \A c \in Channels :
            \/ LevelAt(c, bracket[c].cur) = "fine"
            \/ \A x \in Low[search] + 1 .. High[search] - 1 : LevelAt(c, x) # "fine"
            \/ search = "lamp" /\ rounds > LampRounds
            \/ search = "offset" /\ ~tweak[c]

\* cano_adjLampSetting's answer 10, for which cano_AdjustLightsource has a way
\* to stop and raises the gain, is never given: a bisection does not leave its
\* bracket.
NeverLimited ==
    running /\ search = "lamp" => \A c \in Channels : ~Limited(bracket[c], "dark")

=============================================================================
