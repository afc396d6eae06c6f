---------------------------- MODULE Suggestions ----------------------------
(***************************************************************************)
(* Posting a suggestion: backend/suggestions.py and the routes of          *)
(* backend/app.py that use it.  A post reads the clock, then waits for     *)
(* suggestions.db's write lock (BEGIN IMMEDIATE), so rows may be stored    *)
(* out of the order of their times.                                        *)
(***************************************************************************)
EXTENDS Clock, FiniteSets

CONSTANTS
    Posts,       \* each is posted once, and is the id of the row it stores
    By,          \* Posts -> usernames
    Statuses,    \* "new" among them
    PerHour, Hour

ASSUME LimitAssumption == PerHour \in Nat \ {0} /\ Hour \in Nat \ {0}

VARIABLES
    rows,     \* the posts with a row in suggestions.db
    sent,     \* when each post read the clock (created_at)
    status,   \* each row's status
    post,     \* where each post is
    lock      \* who holds the database's write lock: {} or a singleton

suggestVars == <<rows, sent, status, post, lock>>

Answer(p, code) == post' = [post EXCEPT ![p] = code]

(* suggest_submit and add: a text that is empty once cleaned, or too long, *)
(* is refused before the database is opened.                               *)
Submit(p) ==
    /\ post[p] = "new"
    /\ \/ Answer(p, "bad text") /\ UNCHANGED sent
       \/ Answer(p, "waiting") /\ sent' = [sent EXCEPT ![p] = clock]
    /\ UNCHANGED <<rows, status, lock>>

LastHour(p) == {q \in rows : By[q] = By[p] /\ sent[q] > sent[p] - Hour}
Limited(p) == Cardinality(LastHour(p)) >= PerHour

(* Mutant: the rows are counted before the write lock is taken.            *)
TakeUnlocked(p) ==
    /\ post[p] = "waiting"
    /\ IF Limited(p) THEN Answer(p, "limited") /\ UNCHANGED lock
       ELSE Answer(p, "inserting") /\ lock' = {p}
    /\ UNCHANGED <<rows, sent, status>>
Take(p) ==
    /\ post[p] = "waiting" /\ lock = {}
    /\ IF Limited(p) THEN Answer(p, "limited") /\ UNCHANGED lock
       ELSE Answer(p, "inserting") /\ lock' = {p}
    /\ UNCHANGED <<rows, sent, status>>

Commit(p) ==
    /\ post[p] = "inserting"
    /\ rows' = rows \cup {p} /\ status' = [status EXCEPT ![p] = "new"]
    /\ lock' = lock \ {p} /\ Answer(p, "saved")
    /\ UNCHANGED sent

(* The lock did not come in time, or the insert or its commit failed and   *)
(* was rolled back (Unavailable); or the board was stopped.                *)
Fail(p) ==
    /\ post[p] \in {"waiting", "inserting"}
    /\ lock' = lock \ {p} /\ Answer(p, "can't save")
    /\ UNCHANGED <<rows, sent, status>>

(* suggestion_status: one UPDATE; an unknown suggestion changes nothing.   *)
SetStatus(p) ==
    /\ lock = {} /\ p \in rows
    /\ \E s \in Statuses : status' = [status EXCEPT ![p] = s]
    /\ UNCHANGED <<rows, sent, post, lock>>

SuggestInit ==
    /\ rows = {} /\ lock = {}
    /\ sent = [p \in Posts |-> 0] /\ status = [p \in Posts |-> "new"] /\ post = [p \in Posts |-> "new"]
SuggestNext ==
    \/ (\E p \in Posts : Submit(p) \/ Take(p) \/ Commit(p) \/ Fail(p) \/ SetStatus(p)) /\ UNCHANGED clock
    \/ Tick /\ UNCHANGED suggestVars
SuggestSpec == clock = 0 /\ SuggestInit /\ [][SuggestNext]_<<clock, suggestVars>>

(* However posts are stamped, wait and fail, no account has more than      *)
(* PerHour rows in any hour that ends at a row of its own (add: "parallel  *)
(* posts cannot pass the limit together").                                 *)
SuggestionsAreLimited ==
    \A p \in rows : Cardinality({q \in LastHour(p) : sent[q] <= sent[p]}) <= PerHour
=============================================================================
