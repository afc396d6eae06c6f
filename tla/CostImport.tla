----------------------------- MODULE CostImport -----------------------------
(***************************************************************************)
(* The copy of LiteLLM's spend log (backend/projector/cost_import.py) and  *)
(* the figures made from it (backend/readmodel/costs.py, prices.py).  The  *)
(* log's rows are written after their calls end, late and out of order,    *)
(* also while a pass is reading; a pass may stop at any page.              *)
(***************************************************************************)
EXTENDS Clock, Sequences, FiniteSets, FiniteSetsExt

CONSTANTS
    Calls,      \* [id, start, tag, model, tokens, spend]; tag "" when it has none
    Prices,     \* models that have a price, and their price per token: [models -> Nat]
    Overlap, Batch, ReconcileEvery, ReconcileDays, Stale,   \* the code's settings
    Day,        \* ticks in a day
    Late,       \* how late the log's writer may be and still be prompt
    PassTime    \* how long a pass may take

ASSUME ImportAssumption ==
    /\ {Batch, Day, Stale} \subseteq Nat \ {0}
    /\ {Overlap, ReconcileEvery, ReconcileDays, Late, PassTime} \subseteq Nat
    /\ Late + PassTime <= Overlap

ASSUME CallsAssumption ==
    /\ IsFiniteSet(Calls) /\ Prices \in [DOMAIN Prices -> Nat]
    /\ \A c \in Calls : {c.start, c.tokens, c.spend} \subseteq Nat /\ c.id \in Nat \ {0}

VARIABLES
    written,   \* when LiteLLM wrote each call's row; Never when it has not
    stored,    \* spend_calls: [call, basis, cost] of each call stored
    imported,  \* cost_feed_status: [ok, reconciled] (last_success_at, last_reconcile_at)
    pass,      \* [at, now, left, from, new]: left is still to be read, from the cursor <<start, id>>
    shown      \* the calls stored when the pages were last told of a change

costVars == <<written, stored, imported, pass, shown>>

Never == -1
Log == {c \in Calls : written[c] # Never}
Key(c) == <<c.start, c.id>>
After(c, k) == c.start > k[1] \/ (c.start = k[1] /\ c.id > k[2])
DayOf(t) == t \div Day
Have == {r.call : r \in stored}

(* price_call: LiteLLM's spend where it is set, else the list's price.     *)
PriceCall(c) ==
    IF c.spend > 0 THEN [call |-> c, basis |-> "litellm", cost |-> c.spend]
    ELSE IF c.tokens = 0 THEN [call |-> c, basis |-> "no tokens", cost |-> 0]
    ELSE IF c.model \notin DOMAIN Prices THEN [call |-> c, basis |-> "not priced", cost |-> 0]
    ELSE [call |-> c, basis |-> "estimated", cost |-> c.tokens * Prices[c.model]]

----------------------------------------------------------------------------
(* LiteLLM writes a row, at any time after its call started.               *)
Write(c) ==
    /\ written[c] = Never /\ c.start <= clock
    /\ written' = [written EXCEPT ![c] = clock]
    /\ UNCHANGED <<stored, imported, pass, shown>>

(* A range is read from lo up to hi, all there is when hi is Never.        *)
Ranged(lo, hi) == [lo |-> lo, hi |-> hi]
FirstKey(left) == IF left = <<>> THEN <<0, 0>> ELSE <<Head(left).lo, 0>>     \* ids are positive
Turns(stage, left) ==
    pass' = [pass EXCEPT !.at = stage, !.left = left, !.from = FirstKey(left)]

(* Mutant: the pass starts at the newest call it has.                      *)
StartAtNewest == Max({0} \cup {c.start : c \in Have})
Start == Max({0} \cup {c.start - Overlap : c \in Have})
Begin ==
    /\ pass.at = "idle"
    /\ pass' = [at |-> "reading", now |-> clock, left |-> <<Ranged(Start, Never)>>, from |-> <<Start, 0>>, new |-> FALSE]
    /\ UNCHANGED <<written, stored, imported, shown>>

(* _page_through: one page read and stored in a transaction, rows that are *)
(* there ignored; a short page ends the range.                             *)
Unread == {c \in Log : After(c, pass.from) /\ (Head(pass.left).hi = Never \/ c.start < Head(pass.left).hi)}
Rows == {c \in Unread : Cardinality({d \in Unread : After(c, Key(d))}) < Batch}
ReadPage ==
    /\ pass.left # <<>>
    /\ stored' = stored \cup {PriceCall(c) : c \in Rows}
    /\ LET q == [pass EXCEPT !.new = @ \/ Rows \ Have # {}]
           left == Tail(pass.left)
       IN  pass' = IF Cardinality(Rows) < Batch THEN [q EXCEPT !.left = left, !.from = FirstKey(left)]
                   ELSE [q EXCEPT !.from = CHOOSE k \in {Key(c) : c \in Rows} : \A c \in Rows : ~After(c, k)]
    /\ UNCHANGED <<written, imported, shown>>

(* reconcile: once a day, the days whose counts differ are read again.     *)
Due == imported.reconciled = Never \/ pass.now - imported.reconciled >= ReconcileEvery
OnDay(S, d) == Cardinality({c \in S : DayOf(c.start) = d})
Differing == {d \in (DayOf(pass.now) - ReconcileDays)..DayOf(clock) : OnDay(Log, d) # OnDay(Have, d)}
Earlier(n) == CHOOSE d \in Differing : Cardinality({e \in Differing : e < d}) = n     \* oldest first
Reconcile ==
    /\ pass.at = "reading" /\ pass.left = <<>> /\ Due
    /\ Turns("days", [i \in 1..Cardinality(Differing) |-> LET d == Earlier(i - 1) IN Ranged(d * Day, (d + 1) * Day)])
    /\ UNCHANGED <<written, stored, imported, shown>>
Reconciled ==
    /\ pass.at = "days" /\ pass.left = <<>>
    /\ imported' = [imported EXCEPT !.reconciled = pass.now] /\ Turns("done", <<>>)
    /\ UNCHANGED <<written, stored, shown>>

(* _stamp_ok, and the pages told when a call was new.                      *)
Finish ==
    /\ pass.at = "done" \/ (pass.at = "reading" /\ pass.left = <<>> /\ ~Due)
    /\ imported' = [imported EXCEPT !.ok = pass.now]
    /\ shown' = IF pass.new THEN Have ELSE shown
    /\ Turns("idle", <<>>)
    /\ UNCHANGED <<written, stored>>

(* The log cannot be reached or a page fails (stamp_error), or the feed is *)
(* stopped: what was stored stays.                                         *)
GiveUpPass ==
    /\ pass.at # "idle" /\ Turns("idle", <<>>)
    /\ UNCHANGED <<written, stored, imported, shown>>

CostInit ==
    /\ written = [c \in Calls |-> Never] /\ stored = {} /\ shown = {}
    /\ imported = [ok |-> Never, reconciled |-> Never]
    /\ pass = [at |-> "idle", now |-> 0, left |-> <<>>, from |-> <<0, 0>>, new |-> FALSE]
CostNext ==
    \/ /\ (\E c \in Calls : Write(c)) \/ Begin \/ ReadPage \/ Reconcile \/ Reconciled \/ Finish \/ GiveUpPass
       /\ UNCHANGED clock
    \/ Tick /\ (pass.at = "idle" \/ clock < pass.now + PassTime) /\ UNCHANGED costVars
CostSpec == clock = 0 /\ CostInit /\ [][CostNext]_<<clock, costVars>>

----------------------------------------------------------------------------
(* The figures.                                                            *)

(* Totals of a set of stored calls, and the slot that a page shows.        *)
State == IF imported.ok = Never THEN "never" ELSE IF clock - imported.ok < Stale THEN "fresh" ELSE "stale"
Of(S, bases) == Cardinality({r \in S : r.basis \in bases})
Slot(S) ==
    IF State = "never" THEN [state |-> "not_available"]
    ELSE [state |-> IF Of(S, {"litellm", "estimated"}) = 0 /\ Of(S, {"not priced"}) > 0 THEN "not_measured" ELSE "measured",
          stale |-> State = "stale", calls |-> Cardinality(S), unpriced |-> Of(S, {"not priced"}),
          amount |-> MapThenSumSet(LAMBDA r : r.cost, S)]
Tagged(tag) == {r \in stored : r.call.tag = tag}

(* What the overlap and the daily check promise to have read.              *)
Prompt(c) == written[c] <= c.start + Late
Checked(c) == written[c] < imported.reconciled /\ DayOf(c.start) >= DayOf(imported.reconciled) - ReconcileDays
Promised(tag, by) == {c \in Log : c.tag = tag /\ written[c] <= by /\ (Prompt(c) \/ Checked(c))}

(* However late, out of order and interrupted the log is read, a figure    *)
(* without the words "may be incomplete" has every prompt call of its      *)
(* feature that was in the log when the figure was last fresh, and every   *)
(* late one the daily check should have found, with the calls that have no *)
(* price disclosed (cost_import: "nothing is skipped").                    *)
FigureIsComplete ==
    \A tag \in {c.tag : c \in Calls} :
        LET slot == Slot(Tagged(tag))
            promised == Promised(tag, clock - Stale)
            without == {c \in promised : PriceCall(c).basis = "not priced"}
        IN  slot.state # "not_available" /\ ~slot.stale =>
                /\ promised \subseteq Have
                /\ slot.calls \in Cardinality(promised)..Cardinality({c \in Log : c.tag = tag})
                /\ slot.unpriced >= Cardinality(without)
                /\ slot.state = "measured" => slot.amount >= MapThenSumSet(LAMBDA c : PriceCall(c).cost, promised)
=============================================================================
