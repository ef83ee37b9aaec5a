------------------------------ MODULE MCOptions ------------------------------
(***************************************************************************)
(* A LiDE 25; a scanner with an adapter for slides, without a dark strip;  *)
(* and one with a large adapter that knows 8 bits only.  A frontend touches *)
(* the options of one of the sets; a neighbour has one in common with them. *)
(***************************************************************************)
EXTENDS Options

LiDE25 ==
    [tpa |-> FALSE, large |-> FALSE, cis |-> TRUE, only8 |-> FALSE, strip |-> TRUE,
     fast |-> TRUE, optic |-> 1200, altCal |-> FALSE, binFromColor |-> FALSE,
     grayFromColor |-> FALSE, extent |-> [X |-> 2150, Y |-> 2970]]

Slides ==
    [LiDE25 EXCEPT !.tpa = TRUE, !.cis = FALSE, !.strip = FALSE, !.fast = FALSE]

EightBits ==
    [Slides EXCEPT !.large = TRUE, !.only8 = TRUE, !.altCal = TRUE, !.optic = 600,
                   !.grayFromColor = TRUE, !.strip = TRUE]

ThreeDevices == {LiDE25, Slides, EightBits}
TheLiDE25 == {LiDE25}

SomeDpi == {60, 300}
SomePositions == [X |-> {0, 400}, Y |-> {-1, 100}]

SomeUses ==
    {{"EXT_MODE", "MODE", "CUSTOM_GAMMA", "GAMMA_VECTOR", "GAMMA_VECTOR_R", "BIT_DEPTH"},
     {"EXT_MODE", "TL_X", "BR_X", "RESOLUTION", "MODE"},
     {"TL_Y", "BR_Y", "RESOLUTION", "MODE", "BIT_DEPTH"},
     {"CACHECAL", "CALIBRATE", "LOFF4DARK", "SPEEDUP", "WARMUPTIME", "OVR_REDGAIN",
      "TL_Y"}}

\* Of usbdev lines of plustek.conf; adj.warmup and the gain are clipped there.
SomeSettings ==
    {[cache |-> b, skip |-> ~b, slow |-> b, gain |-> -1, warmup |-> 15] : b \in BOOLEAN}

=============================================================================
