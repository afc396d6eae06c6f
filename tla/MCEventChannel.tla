---------------------------- MODULE MCEventChannel ----------------------------
(* Instances of EventChannel for TLC.                                      *)
EXTENDS EventChannel
=============================================================================
