--------------------------- MODULE MCCalibration ----------------------------
(* Calibration for TLC: the handles of sane_open are model values.         *)
EXTENDS Calibration
CONSTANT h1
=============================================================================
