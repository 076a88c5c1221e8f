--------------------------- MODULE MCSpeakerDriver ---------------------------
(***************************************************************************)
(* Few buttons and processes for SpeakerDriver.                            *)
(***************************************************************************)
EXTENDS SpeakerDriver
=============================================================================
