------------------------------ MODULE MCLivePage ------------------------------
(* Instances of LivePage for TLC.                                          *)
EXTENDS LivePage

CONSTANTS none, sent_by_a, sent_by_b

(* claims.token names the card and the state, never who sent the answer.   *)
AllAnswers == {none, sent_by_a, sent_by_b}
TokenOf == [a \in AllAnswers |-> IF a = none THEN "a0" ELSE "waiting"]
=============================================================================
