---------------------------- MODULE MCRebuildMarks ----------------------------
(* Instances of RebuildMarks for TLC.                                      *)
EXTENDS RebuildMarks, TLC

Symmetry == Permutations(Asks)
=============================================================================
