--------------------------- MODULE MCAnswerClaims ---------------------------
(* Instances of AnswerClaims for TLC.                                      *)
EXTENDS AnswerClaims, TLC

CONSTANTS p1, p2, r1, r2

(* Every request id asks its own question / two attempts at one question.  *)
OwnSubject == [c \in Cards |-> c]
SameSubject == [c \in Cards |-> r1]

Symmetry == Permutations(Presses)
=============================================================================
