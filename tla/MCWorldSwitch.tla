--------------------------- MODULE MCWorldSwitch ----------------------------
(* WorldSwitch for TLC.  After the last entry of the bound the CPU stops.  *)
EXTENDS WorldSwitch
=============================================================================
