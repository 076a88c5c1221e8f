----------------------------- MODULE MCMqttClient -----------------------------
(***************************************************************************)
(* A small client for model-checking MqttClient.                           *)
(***************************************************************************)
EXTENDS MqttClient

\* recentVotes has 20 entries.
MCSlots == 0 .. 19
=============================================================================
