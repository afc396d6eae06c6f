--------------------------- MODULE MCFactoryRecord ---------------------------
(* Small values for FactoryRecord.                                         *)
EXTENDS FactoryRecord

NormUsed == [s \in {"attempts", "planning", "build", "stall", "waiting", "quiet"} |-> [green |-> 1, amber |-> 2]]
(* Planning stops before its build, a mission has one part, and another    *)
(* attempt follows a failed one; attempts under way at once start so.      *)
FewBuilds(f0) ==
    IF f0.planning # None THEN 0
    ELSE IF f0.builds # <<>> /\ f0.mission = None /\ LastRow(f0.builds).status = "FAILED" THEN 2 ELSE 1
FewRows(f0) ==
    IF f0.queue # None THEN 1 ELSE IF Len(f0.builds) > 1 \/ f0.mission # None THEN 2 ELSE 3
=============================================================================
