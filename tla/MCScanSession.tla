--------------------------- MODULE MCScanSession ---------------------------
(* ScanSession for TLC: bounds are in the .cfg files.                      *)
EXTENDS ScanSession
=============================================================================
