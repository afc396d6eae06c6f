----------------------------- MODULE OneAnswer -----------------------------
(***************************************************************************)
(* What backend/claims.py promises of a card's claim, without its          *)
(* databases, its coroutines or its settlement: a claim is a lease.  One   *)
(* press takes it; it comes free only when that press is told its own send *)
(* failed, when Forge's record closes the card, or, for an answer that was *)
(* sent, when enough of the record has been read again since.              *)
(***************************************************************************)
EXTENDS Naturals

CONSTANTS
    Takers,     \* those who may take a lease (the dashboard's presses)
    Things,     \* what is leased (the cards)
    None,       \* no holder
    Enough      \* successful reads of the record after which the lease lapses

VARIABLES
    holder,     \* thing -> taker or None
    lapsed,     \* things whose lease is declared lapsed: the next taker may have it
    closed,     \* things the record says are decided
    sent,       \* takers whose answer went out
    failed,     \* takers who are being told that their send failed
    readings    \* taker -> successful reads of the record since its answer went out

vars == <<holder, lapsed, closed, sent, failed, readings>>

Init ==
    /\ holder = [t \in Things |-> None]
    /\ lapsed = {}
    /\ closed = {}
    /\ sent = {}
    /\ failed = {}
    /\ readings = [p \in Takers |-> 0]

Free(t) == holder[t] = None \/ t \in lapsed

Take(t, p) ==
    /\ Free(t)
    /\ p \notin sent \cup failed
    /\ holder' = [holder EXCEPT ![t] = p]
    /\ lapsed' = lapsed \ {t}
    /\ UNCHANGED <<closed, sent, failed, readings>>

Send(p) ==
    /\ sent' = sent \cup {p}
    /\ UNCHANGED <<holder, lapsed, closed, failed, readings>>

Fail(p) ==
    /\ failed' = failed \cup {p}
    /\ UNCHANGED <<holder, lapsed, closed, sent, readings>>

GiveUp(t) ==
    /\ holder[t] \in failed
    /\ holder' = [holder EXCEPT ![t] = None]
    /\ lapsed' = lapsed \ {t}
    /\ failed' = failed \ {holder[t]}
    /\ UNCHANGED <<closed, sent, readings>>

Close(t) ==
    /\ closed' = closed \cup {t}
    /\ UNCHANGED <<holder, lapsed, sent, failed, readings>>

(* The taker is told, or is gone before it could be.                       *)
Told ==
    /\ \E P \in SUBSET failed : failed' = failed \ P
    /\ UNCHANGED <<holder, lapsed, closed, sent, readings>>

(* One settlement: decided things come free, and leases lapse whose answer *)
(* was never sent or has had its readings.                                 *)
Settle ==
    /\ \E done \in SUBSET closed :
         \E late \in SUBSET {t \in Things \ done :
                               holder[t] # None /\ (holder[t] \in sent => readings[holder[t]] >= Enough)} :
            /\ holder' = [t \in Things |-> IF t \in done THEN None ELSE holder[t]]
            /\ lapsed' = (lapsed \cup late) \ done
    /\ UNCHANGED <<closed, sent, failed, readings>>

(* The record is read again after these takers' answers went out.          *)
Read ==
    /\ \E P \in SUBSET sent :
           readings' = [p \in Takers |-> IF p \in P THEN readings[p] + 1 ELSE readings[p]]
    /\ UNCHANGED <<holder, lapsed, closed, sent, failed>>

Next ==
    \/ \E p \in Takers : Send(p) \/ Fail(p)
    \/ \E t \in Things : GiveUp(t) \/ Close(t) \/ \E p \in Takers : Take(t, p)
    \/ Told
    \/ Settle
    \/ Read

Spec == Init /\ [][Next]_vars
=============================================================================
