------------------------------- MODULE Clock -------------------------------
(* The clock that the services' modules read.                              *)
EXTENDS Integers

VARIABLE clock

Tick == clock' = clock + 1
=============================================================================
