------------------------------ MODULE MCPrepare ------------------------------
(* Prepare for TLC: small registers, and the kinds of device there are. *)
EXTENDS Prepare

MinusTwo == -2

\* CanoScan LiDE 25; one with skipDarkStrip set; a TravelScan.
AllDevices ==
    {[sheetFed |-> FALSE, darkStrip |-> TRUE],
     [sheetFed |-> FALSE, darkStrip |-> FALSE],
     [sheetFed |-> TRUE, darkStrip |-> FALSE]}

=============================================================================
