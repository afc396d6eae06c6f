------------------------------- MODULE SignIn -------------------------------
(***************************************************************************)
(* Signing in, and who a request is served as: backend/accounts.py         *)
(* (AccountStore, LoginThrottle), backend/auth.py and the routes of        *)
(* backend/app.py that use them.  Requests run in threads and each carries *)
(* the username User: a sign-in brings a password, a page the cookie of a  *)
(* session.  The throttle keeps usernames apart, so one is enough.         *)
(***************************************************************************)
EXTENDS Clock, Sequences, FiniteSets

CONSTANTS
    Requests,
    User,         \* the username
    Passwords,    \* what is typed for it; a stored hash is named by its password
    Texts,        \* what accounts.yaml may hold: sequences of rows, <<>> when it is empty
    Tenants,      \* tenants.yaml, "operator" among them
    Limit, Window, Lockout,   \* the throttle's settings
    MaxEdits      \* bound on changes of accounts.yaml, for TLC

ASSUME SettingsAssumption ==
    /\ Limit \in Nat \ {0} /\ Window \in Nat /\ Lockout \in Nat
    /\ Lockout >= Window

VARIABLES
    attempts,   \* the requests the throttle counts (_attempts)
    when,       \* when each request was counted
    locked,     \* _locked_until, 0 when it is not locked
    file,       \* accounts.yaml: [there, stamp, rows]; each change gives it a stamp of its own
    cache,      \* the AccountStore: [stamp, accounts, held], held while its lock is
    request,    \* [at, brings, stamp, account]: account is the set get returned, empty for None
    guesses,    \* history: the attempts admitted since the last success
    past        \* history: what the file said since each request began

throttle == <<attempts, when, locked, guesses>>
signVars == <<throttle, file, cache, request, past>>

Cookie == "cookie"
NoStamp == -1     \* no stamp

----------------------------------------------------------------------------
(* The file.                                                               *)

(* A row is [name, hash, tenant, identity, extra]: a missing field is "",  *)
(* extra a field that is not allowed.                                      *)
Refused(rows, i) ==
    LET r == rows[i] IN
    \/ r.name = "" \/ r.hash = "" \/ r.extra
    \/ \E j \in 1..i-1 : rows[j].name = r.name
    \/ r.tenant \notin Tenants
    \/ r.identity # "" /\ r.tenant # "operator"

Parsed(rows) == IF \E i \in DOMAIN rows : Refused(rows, i) THEN {} ELSE {rows[i] : i \in DOMAIN rows}
Says(f) == IF f.there THEN {a \in Parsed(f.rows) : a.name = User} ELSE {}

(* The owner changes accounts.yaml, or takes it away.                      *)
Edit ==
    /\ file.stamp < MaxEdits                                          \* bound
    /\ \/ \E rows \in Texts : file' = [there |-> TRUE, stamp |-> file.stamp + 1, rows |-> rows]
       \/ file' = [there |-> FALSE, stamp |-> file.stamp + 1, rows |-> <<>>]
    /\ past' = [r \in Requests |->
                   IF request[r].at \in {"asked", "stat", "fresh"} THEN past[r] \cup {Says(file')} ELSE past[r]]
    /\ UNCHANGED <<throttle, cache, request>>

----------------------------------------------------------------------------
(* The throttle.                                                           *)

InWindow(R) == {r \in R : when[r] > clock - Window}

Counted(r, n) ==
    /\ when' = [when EXCEPT ![r] = clock]
    /\ guesses' = guesses \cup {r}
    /\ IF n >= Limit THEN attempts' = {} /\ locked' = clock + Lockout
       ELSE attempts' = InWindow(attempts) \cup {r} /\ locked' = 0

(* Mutant: the limit counts the attempts before this one.                  *)
TryAttemptOneMore(r) == locked <= clock /\ Counted(r, Cardinality(InWindow(attempts)))
TryAttempt(r) == locked <= clock /\ Counted(r, Cardinality(InWindow(attempts) \cup {r}))

RecordSuccess == attempts' = {} /\ locked' = 0 /\ guesses' = {} /\ UNCHANGED when

----------------------------------------------------------------------------
(* One request.                                                            *)

Stands(r, phase) == request[r].at = phase
Moves(r, phase) == request' = [request EXCEPT ![r].at = phase]

(* login_submit, or the guard of a page; the username in the cookie is     *)
(* only looked up again.                                                   *)
Receive(r) ==
    /\ Stands(r, "new")
    /\ \E brings \in Passwords \cup {Cookie} :
         LET asks(phase) == request' = [request EXCEPT ![r].at = phase, ![r].brings = brings]
         IN  \/ brings = Cookie /\ asks("asked") /\ UNCHANGED throttle
             \/ brings # Cookie /\ TryAttempt(r) /\ asks("asked")
             \/ brings # Cookie /\ locked > clock /\ asks("locked") /\ UNCHANGED throttle
    /\ past' = [past EXCEPT ![r] = {Says(file)}]
    /\ UNCHANGED <<file, cache>>

(* _refresh: the stamp first, then the text; a file that cannot be used    *)
(* leaves nobody.                                                          *)
StatFile(r) ==
    /\ Stands(r, "asked") /\ ~cache.held
    /\ \/ /\ ~file.there
          /\ cache' = [cache EXCEPT !.accounts = {}, !.stamp = NoStamp]
          /\ Moves(r, "fresh")
       \/ /\ file.there /\ cache.stamp = file.stamp
          /\ Moves(r, "fresh") /\ UNCHANGED cache
       \/ /\ file.there /\ cache.stamp # file.stamp
          /\ cache' = [cache EXCEPT !.held = TRUE]
          /\ request' = [request EXCEPT ![r].at = "stat", ![r].stamp = file.stamp]
    /\ UNCHANGED <<throttle, file, past>>

(* Mutant: a file that cannot be used leaves the accounts as they were.    *)
LoadedIfUsable(accounts, seen) ==
    [stamp |-> seen, accounts |-> IF accounts = {} THEN cache.accounts ELSE accounts, held |-> FALSE]
Loaded(accounts, seen) == [stamp |-> seen, accounts |-> accounts, held |-> FALSE]
Load(r) ==
    /\ Stands(r, "stat")
    /\ cache' = Loaded(IF file.there THEN Parsed(file.rows) ELSE {}, request[r].stamp)
    /\ Moves(r, "fresh")
    /\ UNCHANGED <<throttle, file, past>>

(* What a page does with the account it is for (operator_page, _api).      *)
Guard(account) ==
    IF account = {} THEN "login" ELSE IF \E a \in account : a.tenant # "operator" THEN "client" ELSE "served"

(* get reads the accounts after the lock is released: another request may  *)
(* have read the file again.                                               *)
Get(r) ==
    /\ Stands(r, "fresh")
    /\ LET account == {a \in cache.accounts : a.name = User}
       IN  request' = [request EXCEPT ![r].account = account,
                                      ![r].at = IF request[r].brings = Cookie THEN Guard(account) ELSE "checking"]
    /\ UNCHANGED <<throttle, file, cache, past>>

(* The password is checked against the account that was got.               *)
Verified(r) == \E a \in request[r].account : a.hash = request[r].brings
Authenticate(r) ==
    /\ Stands(r, "checking")
    /\ IF Verified(r) THEN RecordSuccess /\ Moves(r, "signed_in") ELSE UNCHANGED throttle /\ Moves(r, "failed")
    /\ UNCHANGED <<file, cache, past>>

SignInInit ==
    /\ attempts = {} /\ locked = 0 /\ guesses = {} /\ when = [r \in Requests |-> 0]
    /\ file \in {[there |-> TRUE, stamp |-> 0, rows |-> rows] : rows \in {t \in Texts : Parsed(t) # {}}}
    /\ cache = [stamp |-> 0, accounts |-> Parsed(file.rows), held |-> FALSE]
    /\ request = [r \in Requests |-> [at |-> "new", brings |-> Cookie, stamp |-> 0, account |-> {}]]
    /\ past = [r \in Requests |-> {}]

SignInStep ==
    Edit \/ \E r \in Requests : Receive(r) \/ StatFile(r) \/ Load(r) \/ Get(r) \/ Authenticate(r)
SignInNext ==
    \/ SignInStep /\ UNCHANGED clock
    \/ Tick /\ UNCHANGED signVars
SignInSpec == clock = 0 /\ SignInInit /\ [][SignInNext]_<<clock, signVars>>

----------------------------------------------------------------------------

(* However sign-ins run at once, at most Limit passwords are checked for a *)
(* username in any Window since its last success (LoginThrottle: "parallel *)
(* guesses cannot overrun the limit while the slow hash runs").            *)
GuessesAreLimited == Cardinality(InWindow(guesses)) <= Limit

(* A request is served, or its password checked, as what accounts.yaml     *)
(* said at some moment of that request, nobody when it could not be used:  *)
(* an account taken out ends its sessions (AccountStore, app._resolve).    *)
AccountsAreCurrent ==
    \A r \in Requests : request[r].at \in {"checking", "login", "client", "served"} => request[r].account \in past[r]
=============================================================================
