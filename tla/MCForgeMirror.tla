---------------------------- MODULE MCForgeMirror ----------------------------
(* Instances of ForgeMirror for TLC.                                       *)
EXTENDS ForgeMirror, TLC

Symmetry == Permutations(Appended) \cup Permutations(Rows)
=============================================================================
