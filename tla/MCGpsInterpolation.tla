-------------------------- MODULE MCGpsInterpolation --------------------------
(***************************************************************************)
(* Small numbers of fixes, presses and threads for GpsInterpolation.       *)
(***************************************************************************)
EXTENDS GpsInterpolation
=============================================================================
