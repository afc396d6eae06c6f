--------------------------- MODULE ServicesProofs ---------------------------
(***************************************************************************)
(* Proofs about the services beside the record, each by itself: sign-in,   *)
(* suggestions, questions, the microphone, the feed's files, the import of *)
(* costs, and the answers read from the record.                            *)
(***************************************************************************)
EXTENDS SignIn, Suggestions, CostImport, Ask, Reading, Microphone, FeedFiles, DataInduction, SequenceTheorems, TLAPS

-----------------------------------------------------------------------------
(* Finite sets.                                                            *)

LEMMA OneMore ==
    ASSUME NEW S, IsFiniteSet(S), NEW x
    PROVE  /\ IsFiniteSet(S \cup {x})
           /\ Cardinality(S \cup {x}) \in Nat
           /\ Cardinality(S \cup {x}) <= Cardinality(S) + 1
  <1>1. IsFiniteSet(S \cup {x})
    BY FS_AddElement
  <1>2. Cardinality(S) \in Nat /\ Cardinality(S \cup {x}) \in Nat
    BY <1>1, FS_CardinalityType
  <1>3. Cardinality(S \cup {x}) = IF x \in S THEN Cardinality(S) ELSE Cardinality(S) + 1
    BY FS_AddElement
  <1> QED
    BY <1>1, <1>2, <1>3

LEMMA PartIsFinite ==
    ASSUME NEW S, IsFiniteSet(S), NEW T, T \subseteq S
    PROVE  /\ IsFiniteSet(T)
           /\ Cardinality(T) \in Nat /\ Cardinality(S) \in Nat
           /\ Cardinality(T) <= Cardinality(S)
  <1>1. IsFiniteSet(T) /\ Cardinality(T) <= Cardinality(S)
    BY FS_Subset
  <1> QED
    BY <1>1, FS_CardinalityType

-----------------------------------------------------------------------------
(* Sign-in, for any set of requests, any texts of accounts.yaml and any    *)
(* settings of the throttle that satisfy SettingsAssumption.  The throttle *)
(* and the accounts share only the requests, so each property has an       *)
(* inductive invariant of its own.                                         *)

allVars == <<clock, signVars>>

(* The throttle.  An attempt since the last success that is no longer      *)
(* counted is either out of the window or before a lockout that still      *)
(* runs; the lockout outlasts the window, so nothing that was forgotten    *)
(* comes back into it.                                                     *)

ThrottleTypeOK ==
    /\ clock \in Int /\ locked \in Int
    /\ guesses \subseteq Requests /\ IsFiniteSet(guesses)
    /\ attempts \subseteq guesses
    /\ when \in [Requests -> Int]

Forgotten(r) == \/ when[r] <= clock - Window
                \/ locked > clock /\ when[r] <= locked - Lockout

ThrottleInv ==
    /\ ThrottleTypeOK
    /\ \A r \in guesses : when[r] <= clock
    /\ \A r \in guesses \ attempts : Forgotten(r)
    /\ Cardinality(attempts) < Limit
    /\ GuessesAreLimited

LEMMA ThrottleInit == SignInInit /\ clock = 0 => ThrottleInv
  <1> SUFFICES ASSUME SignInInit, clock = 0 PROVE ThrottleInv
    OBVIOUS
  <1>1. IsFiniteSet({}) /\ Cardinality({}) = 0
    BY FS_EmptySet
  <1>2. attempts = {} /\ guesses = {} /\ locked = 0 /\ when \in [Requests -> Int]
    BY DEF SignInInit
  <1>3. InWindow(guesses) = {}
    BY <1>2 DEF InWindow
  <1> QED
    BY <1>1, <1>2, <1>3, SettingsAssumption
    DEF ThrottleInv, ThrottleTypeOK, GuessesAreLimited

(* Most steps leave the throttle alone.                                    *)
LEMMA ThrottleLeftAlone ==
    ASSUME ThrottleInv, UNCHANGED throttle, UNCHANGED clock
    PROVE  ThrottleInv'
  BY DEF ThrottleInv, ThrottleTypeOK, Forgotten, GuessesAreLimited, InWindow, throttle

LEMMA TryAttemptKeeps ==
    ASSUME ThrottleInv, UNCHANGED clock, NEW r \in Requests, TryAttempt(r)
    PROVE  ThrottleInv'
  <1> DEFINE kept == InWindow(attempts)
             n == Cardinality(kept \cup {r})
  <1> USE DEF ThrottleInv, ThrottleTypeOK
  <1>1. locked <= clock /\ Counted(r, n)
    BY DEF TryAttempt
  <1>2. /\ when' = [when EXCEPT ![r] = clock]
        /\ guesses' = guesses \cup {r}
        /\ n >= Limit => attempts' = {} /\ locked' = clock + Lockout
        /\ ~(n >= Limit) => attempts' = kept \cup {r} /\ locked' = 0
    BY <1>1 DEF Counted
  <1>3. kept \subseteq attempts
    BY DEF InWindow
  <1>4. IsFiniteSet(attempts) /\ Cardinality(attempts) \in Nat
    BY PartIsFinite
  <1>5. IsFiniteSet(kept) /\ Cardinality(kept) <= Cardinality(attempts) /\ Cardinality(kept) \in Nat
    BY <1>3, <1>4, PartIsFinite
  <1>6. IsFiniteSet(kept \cup {r}) /\ n \in Nat /\ n <= Limit
    <2>1. IsFiniteSet(kept \cup {r}) /\ n \in Nat /\ n <= Cardinality(kept) + 1
      BY <1>5, OneMore
    <2> HIDE DEF kept, n
    <2> QED
      BY <1>4, <1>5, <2>1, SettingsAssumption
  <1>7. ThrottleTypeOK'
    <2>1. IsFiniteSet(guesses') /\ guesses' \subseteq Requests
      BY <1>2, FS_AddElement
    <2>2. clock' \in Int /\ locked' \in Int /\ when' \in [Requests -> Int]
      BY <1>2, SettingsAssumption
    <2>3. attempts' \subseteq guesses'
      BY <1>2, <1>3
    <2> QED
      BY <2>1, <2>2, <2>3
  <1>8. \A g \in guesses' : when'[g] <= clock' /\ (g # r => when'[g] = when[g])
    BY <1>2
  <1>9. \A g \in guesses \ attempts : when[g] <= clock - Window
    BY <1>1, SettingsAssumption DEF Forgotten
  <1>10. InWindow(guesses)' \subseteq kept \cup {r}
    BY <1>2, <1>9, SettingsAssumption DEF InWindow
  <1>11. GuessesAreLimited'
    <2>1. Cardinality(InWindow(guesses)') <= n /\ Cardinality(InWindow(guesses)') \in Nat
      BY <1>6, <1>10, PartIsFinite
    <2> QED
      BY <1>6, <2>1, SettingsAssumption DEF GuessesAreLimited
  <1>12. Cardinality(attempts') < Limit
    <2>1. CASE n >= Limit
      <3>1. Cardinality({}) = 0
        BY FS_EmptySet
      <3> QED
        BY <1>2, <2>1, <3>1, SettingsAssumption
    <2>2. CASE ~(n >= Limit)
      <3>1. Cardinality(attempts') = n
        BY <1>2, <2>2
      <3> HIDE DEF n
      <3> QED
        BY <1>6, <2>2, <3>1, SettingsAssumption
    <2> QED
      BY <2>1, <2>2
  <1>13. ASSUME NEW g \in guesses' \ attempts' PROVE Forgotten(g)'
    <2>1. CASE n >= Limit
      <3>1. locked' = clock + Lockout /\ when'[g] <= clock /\ when'[g] \in Int
        BY <1>2, <1>7, <1>8, <2>1
      <3> QED
        BY <3>1, SettingsAssumption DEF Forgotten
    <2>2. CASE ~(n >= Limit)
      <3>1. g # r /\ g \in guesses /\ g \notin kept
        BY <1>2, <2>2
      <3>2. when[g] <= clock - Window
        BY <1>9, <3>1, SettingsAssumption DEF InWindow
      <3> QED
        BY <1>8, <3>1, <3>2 DEF Forgotten
    <2> QED
      BY <2>1, <2>2
  <1> QED
    BY <1>7, <1>8, <1>11, <1>12, <1>13

LEMMA RecordSuccessKeeps ==
    ASSUME ThrottleInv, UNCHANGED clock, RecordSuccess
    PROVE  ThrottleInv'
  <1>1. IsFiniteSet({}) /\ Cardinality({}) = 0
    BY FS_EmptySet
  <1>2. attempts' = {} /\ guesses' = {} /\ locked' = 0 /\ UNCHANGED when
    BY DEF RecordSuccess
  <1>3. InWindow(guesses)' = {}
    BY <1>2 DEF InWindow
  <1> QED
    BY <1>1, <1>2, <1>3, SettingsAssumption DEF ThrottleInv, ThrottleTypeOK, GuessesAreLimited

(* The lockout ends no sooner than what it forgot leaves the window.       *)
LEMMA TickKeeps ==
    ASSUME ThrottleInv, Tick, UNCHANGED signVars
    PROVE  ThrottleInv'
  <1> USE DEF ThrottleInv, ThrottleTypeOK
  <1>1. clock' = clock + 1 /\ UNCHANGED <<attempts, when, locked, guesses>>
    BY DEF Tick, signVars, throttle
  <1>2. ASSUME NEW r \in guesses \ attempts PROVE Forgotten(r)'
    <2>1. Forgotten(r) /\ when[r] \in Int
      OBVIOUS
    <2> QED
      BY <1>1, <2>1, SettingsAssumption DEF Forgotten
  <1>3. InWindow(guesses)' \subseteq InWindow(guesses) /\ InWindow(guesses) \subseteq guesses
    BY <1>1, SettingsAssumption DEF InWindow
  <1>4. GuessesAreLimited'
    <2>1. IsFiniteSet(InWindow(guesses)) /\ Cardinality(InWindow(guesses)) \in Nat
      BY <1>3, PartIsFinite
    <2>2. /\ Cardinality(InWindow(guesses)') <= Cardinality(InWindow(guesses))
          /\ Cardinality(InWindow(guesses)') \in Nat
      BY <1>3, <2>1, PartIsFinite
    <2> QED
      BY <2>1, <2>2, SettingsAssumption DEF GuessesAreLimited
  <1>5. \A r \in guesses' : when'[r] <= clock'
    BY <1>1
  <1> QED
    BY <1>1, <1>2, <1>4, <1>5

LEMMA ThrottleStep == ThrottleInv /\ [SignInNext]_allVars => ThrottleInv'
  <1> SUFFICES ASSUME ThrottleInv, [SignInNext]_allVars PROVE ThrottleInv'
    OBVIOUS
  <1>1. CASE Tick /\ UNCHANGED signVars
    BY <1>1, TickKeeps
  <1>2. ASSUME NEW r \in Requests, Receive(r), UNCHANGED clock PROVE ThrottleInv'
    <2>1. TryAttempt(r) \/ UNCHANGED throttle
      BY <1>2 DEF Receive
    <2> QED
      BY <1>2, <2>1, TryAttemptKeeps, ThrottleLeftAlone
  <1>3. ASSUME NEW r \in Requests, Authenticate(r), UNCHANGED clock PROVE ThrottleInv'
    <2>1. RecordSuccess \/ UNCHANGED throttle
      BY <1>3 DEF Authenticate
    <2> QED
      BY <1>3, <2>1, RecordSuccessKeeps, ThrottleLeftAlone
  <1>4. ASSUME Edit \/ \E r \in Requests : StatFile(r) \/ Load(r) \/ Get(r), UNCHANGED clock PROVE ThrottleInv'
    <2>1. UNCHANGED throttle
      BY <1>4 DEF Edit, StatFile, Load, Get
    <2> QED
      BY <1>4, <2>1, ThrottleLeftAlone
  <1>5. CASE UNCHANGED allVars
    BY <1>5, ThrottleLeftAlone DEF allVars, signVars
  <1> QED
    BY <1>1, <1>2, <1>3, <1>4, <1>5 DEF SignInNext, SignInStep

(* At most Limit passwords are checked for a username in any window since  *)
(* its last success, whatever the requests do at once.                     *)
THEOREM GuessesStayLimited == SignInSpec => []GuessesAreLimited
  <1>1. ThrottleInv => GuessesAreLimited
    BY DEF ThrottleInv
  <1> QED
    BY <1>1, ThrottleInit, ThrottleStep, PTL DEF SignInSpec, allVars

-----------------------------------------------------------------------------
(* The accounts.  What was read last is what the file says unless the file *)
(* has a later stamp, which the next look finds; and what a request finds  *)
(* fresh stays among what the file said while the request ran, whoever     *)
(* reads the file again before it takes its account.                       *)

AccountRows == UNION {{t[i] : i \in DOMAIN t} : t \in Texts}
Phases == {"new", "locked", "asked", "stat", "fresh", "checking", "login", "client", "served", "signed_in", "failed"}
Files == [there : BOOLEAN, stamp : Int, rows : Texts \cup {<<>>}]
Visits == [at : Phases, brings : Passwords \cup {Cookie}, stamp : Int, account : SUBSET AccountRows]

AccountsTypeOK ==
    /\ file \in Files
    /\ file.there => file.rows \in Texts
    /\ cache \in [stamp : Int, accounts : SUBSET AccountRows, held : BOOLEAN]
    /\ request \in [Requests -> Visits]
    /\ past \in [Requests -> SUBSET SUBSET AccountRows]

Ours == {a \in cache.accounts : a.name = User}
Looking(r) == request[r].at \in {"asked", "stat", "fresh"}

StampsInOrder ==
    /\ NoStamp <= file.stamp
    /\ cache.stamp <= file.stamp
    /\ \A r \in Requests : request[r].stamp <= file.stamp
ReadIsCurrent == file.there /\ cache.stamp = file.stamp => Ours = Says(file)
FreshIsCurrent ==
    \A r \in Requests : /\ Looking(r) => Says(file) \in past[r]
                        /\ request[r].at = "fresh" => Ours \in past[r]

AccountsInv == AccountsTypeOK /\ StampsInOrder /\ ReadIsCurrent /\ FreshIsCurrent /\ AccountsAreCurrent

LEMMA ParsedType == \A t \in Texts : Parsed(t) \subseteq AccountRows
  BY DEF Parsed, AccountRows

LEMMA SaysType == AccountsTypeOK => Says(file) \subseteq AccountRows
  BY ParsedType DEF AccountsTypeOK, Says

(* A request goes on to another phase.                                     *)
LEMMA VisitType ==
    ASSUME AccountsTypeOK, NEW r \in Requests, NEW phase \in Phases,
           \/ request' = [request EXCEPT ![r].at = phase]
           \/ \E brings \in Passwords \cup {Cookie} :
                 request' = [request EXCEPT ![r].at = phase, ![r].brings = brings]
           \/ \E stamp \in Int : request' = [request EXCEPT ![r].at = phase, ![r].stamp = stamp]
           \/ \E account \in SUBSET AccountRows : request' = [request EXCEPT ![r].account = account, ![r].at = phase]
    PROVE  request' \in [Requests -> Visits]
  <1>1. request \in [Requests -> Visits] /\ request[r] \in Visits
    BY DEF AccountsTypeOK
  <1>2. ASSUME NEW q \in Visits, request' = [request EXCEPT ![r] = q] PROVE request' \in [Requests -> Visits]
    BY <1>1, <1>2
  <1>3. [request[r] EXCEPT !.at = phase] \in Visits
    BY <1>1 DEF Visits
  <1>4. ASSUME NEW brings \in Passwords \cup {Cookie}
        PROVE  [request[r] EXCEPT !.at = phase, !.brings = brings] \in Visits
    BY <1>1 DEF Visits
  <1>5. ASSUME NEW stamp \in Int PROVE [request[r] EXCEPT !.at = phase, !.stamp = stamp] \in Visits
    BY <1>1 DEF Visits
  <1>6. ASSUME NEW account \in SUBSET AccountRows
        PROVE  [request[r] EXCEPT !.account = account, !.at = phase] \in Visits
    BY <1>1 DEF Visits
  <1> QED
    BY <1>1, <1>2, <1>3, <1>4, <1>5, <1>6

LEMMA AccountsInit == SignInInit => AccountsInv
  <1> SUFFICES ASSUME SignInInit PROVE AccountsInv
    OBVIOUS
  <1>1. /\ file.there = TRUE /\ file.stamp = 0 /\ file.rows \in Texts
        /\ file \in Files
    <2>1. PICK text \in Texts : file = [there |-> TRUE, stamp |-> 0, rows |-> text]
      BY DEF SignInInit
    <2> QED
      BY <2>1 DEF Files
  <1>2. Parsed(file.rows) \subseteq AccountRows
    BY <1>1, ParsedType
  <1>3. AccountsTypeOK
    <2>1. [at |-> "new", brings |-> Cookie, stamp |-> 0, account |-> {}] \in Visits
      BY DEF Visits, Phases
    <2>2. cache \in [stamp : Int, accounts : SUBSET AccountRows, held : BOOLEAN]
      BY <1>2 DEF SignInInit
    <2> QED
      BY <1>1, <2>1, <2>2 DEF SignInInit, AccountsTypeOK
  <1>4. StampsInOrder
    BY <1>1 DEF SignInInit, StampsInOrder, NoStamp
  <1>5. ReadIsCurrent
    BY <1>1 DEF SignInInit, ReadIsCurrent, Ours, Says
  <1>6. FreshIsCurrent /\ AccountsAreCurrent
    BY DEF SignInInit, FreshIsCurrent, Looking, AccountsAreCurrent
  <1> QED
    BY <1>3, <1>4, <1>5, <1>6 DEF AccountsInv

LEMMA EditKeeps ==
    ASSUME AccountsInv, Edit
    PROVE  AccountsInv'
  <1> USE DEF AccountsInv
  <1>1. /\ file'.stamp = file.stamp + 1
        /\ file' \in Files
        /\ file'.there => file'.rows \in Texts
    <2>1. file.stamp + 1 \in Int /\ file.stamp \in Int
      BY DEF AccountsTypeOK, Files
    <2>2. CASE \E text \in Texts : file' = [there |-> TRUE, stamp |-> file.stamp + 1, rows |-> text]
      BY <2>1, <2>2 DEF Files
    <2>3. CASE file' = [there |-> FALSE, stamp |-> file.stamp + 1, rows |-> <<>>]
      BY <2>1, <2>3 DEF Files
    <2> QED
      BY <2>2, <2>3 DEF Edit
  <1>2. Says(file') \subseteq AccountRows
    BY <1>1, ParsedType DEF Says
  <1>3. past' \in [Requests -> SUBSET SUBSET AccountRows]
    BY <1>2 DEF Edit, AccountsTypeOK
  <1>4. AccountsTypeOK'
    BY <1>1, <1>3 DEF Edit, AccountsTypeOK
  <1>5. StampsInOrder'
    BY <1>1 DEF Edit, StampsInOrder, AccountsTypeOK, Files, Visits, NoStamp
  <1>6. ReadIsCurrent'
    BY <1>1 DEF Edit, StampsInOrder, ReadIsCurrent, AccountsTypeOK, Files, Visits
  <1>7. FreshIsCurrent'
    BY DEF Edit, FreshIsCurrent, Looking, Ours, AccountsTypeOK, Files, Visits
  <1>8. AccountsAreCurrent'
    BY DEF Edit, AccountsAreCurrent, AccountsTypeOK, Files, Visits
  <1> QED
    BY <1>4, <1>5, <1>6, <1>7, <1>8

(* Requests that read nothing of the accounts' own state move on.          *)
LEMMA ReceiveKeeps ==
    ASSUME AccountsInv, NEW r \in Requests, Receive(r)
    PROVE  AccountsInv'
  <1> USE DEF AccountsInv
  <1>1. PICK brings \in Passwords \cup {Cookie}, phase \in {"asked", "locked"} :
            request' = [request EXCEPT ![r].at = phase, ![r].brings = brings]
    BY DEF Receive
  <1>2. past' = [past EXCEPT ![r] = {Says(file)}] /\ UNCHANGED <<file, cache>>
    BY DEF Receive
  <1>3. AccountsTypeOK'
    <2>1. request' \in [Requests -> Visits]
      BY <1>1, VisitType DEF Phases
    <2> QED
      BY <1>2, <2>1, SaysType DEF AccountsTypeOK, Files, Visits
  <1>4. StampsInOrder' /\ ReadIsCurrent'
    BY <1>1, <1>2 DEF StampsInOrder, ReadIsCurrent, Ours, AccountsTypeOK, Files, Visits
  <1>5. FreshIsCurrent'
    BY <1>1, <1>2 DEF FreshIsCurrent, Looking, Ours, AccountsTypeOK, Files, Visits
  <1>6. AccountsAreCurrent'
    BY <1>1, <1>2 DEF AccountsAreCurrent, AccountsTypeOK, Files, Visits
  <1> QED
    BY <1>3, <1>4, <1>5, <1>6

LEMMA StatFileKeeps ==
    ASSUME AccountsInv, NEW r \in Requests, StatFile(r)
    PROVE  AccountsInv'
  <1> USE DEF AccountsInv
  <1>1. Looking(r) /\ request[r].at = "asked" /\ UNCHANGED <<file, past>>
    BY DEF StatFile, Stands, Looking
  <1>2. CASE /\ ~file.there
             /\ cache' = [cache EXCEPT !.accounts = {}, !.stamp = NoStamp]
             /\ request' = [request EXCEPT ![r].at = "fresh"]
    <2>1. Ours' = {} /\ Says(file) = {}
      BY <1>2 DEF Ours, Says, AccountsTypeOK, Files, Visits
    <2>2. AccountsTypeOK'
      <3>1. request' \in [Requests -> Visits]
        BY <1>2, VisitType DEF Phases
      <3>2. cache' \in [stamp : Int, accounts : SUBSET AccountRows, held : BOOLEAN]
        <4>1. NoStamp \in Int
          BY DEF NoStamp
        <4> QED
          BY <1>2, <4>1 DEF AccountsTypeOK
      <3> QED
        BY <1>1, <3>1, <3>2 DEF AccountsTypeOK
    <2>3. StampsInOrder' /\ ReadIsCurrent'
      BY <1>1, <1>2 DEF StampsInOrder, ReadIsCurrent, AccountsTypeOK, Files, Visits
    <2>4. FreshIsCurrent'
      BY <1>1, <1>2, <2>1 DEF FreshIsCurrent, Looking, AccountsTypeOK, Files, Visits
    <2>5. AccountsAreCurrent'
      BY <1>1, <1>2 DEF AccountsAreCurrent, AccountsTypeOK, Files, Visits
    <2> QED
      BY <2>2, <2>3, <2>4, <2>5
  <1>3. CASE /\ file.there /\ cache.stamp = file.stamp
             /\ request' = [request EXCEPT ![r].at = "fresh"] /\ UNCHANGED cache
    <2>1. Ours \in past[r] /\ Ours' = Ours
      BY <1>1, <1>3 DEF ReadIsCurrent, FreshIsCurrent, Ours
    <2>2. AccountsTypeOK'
      <3>1. request' \in [Requests -> Visits]
        BY <1>3, VisitType DEF Phases
      <3> QED
        BY <1>1, <1>3, <3>1 DEF AccountsTypeOK
    <2>3. StampsInOrder' /\ ReadIsCurrent'
      BY <1>1, <1>3, <2>1 DEF StampsInOrder, ReadIsCurrent, AccountsTypeOK, Files, Visits
    <2>4. FreshIsCurrent'
      BY <1>1, <1>3, <2>1 DEF FreshIsCurrent, Looking, AccountsTypeOK, Files, Visits
    <2>5. AccountsAreCurrent'
      BY <1>1, <1>3 DEF AccountsAreCurrent, AccountsTypeOK, Files, Visits
    <2> QED
      BY <2>2, <2>3, <2>4, <2>5
  <1>4. CASE /\ cache' = [cache EXCEPT !.held = TRUE]
             /\ request' = [request EXCEPT ![r].at = "stat", ![r].stamp = file.stamp]
    <2>1. Ours' = Ours
      BY <1>4 DEF Ours, AccountsTypeOK
    <2>2. AccountsTypeOK'
      <3>1. request' \in [Requests -> Visits]
        BY <1>4, VisitType DEF Phases, AccountsTypeOK, Files
      <3> QED
        BY <1>1, <1>4, <3>1 DEF AccountsTypeOK
    <2>3. StampsInOrder' /\ ReadIsCurrent'
      BY <1>1, <1>4, <2>1 DEF StampsInOrder, ReadIsCurrent, AccountsTypeOK, Files, Visits
    <2>4. FreshIsCurrent'
      BY <1>1, <1>4, <2>1 DEF FreshIsCurrent, Looking, AccountsTypeOK, Files, Visits
    <2>5. AccountsAreCurrent'
      BY <1>1, <1>4 DEF AccountsAreCurrent, AccountsTypeOK, Files, Visits
    <2> QED
      BY <2>2, <2>3, <2>4, <2>5
  <1> QED
    BY <1>2, <1>3, <1>4 DEF StatFile, Moves

(* A request loads the text the file holds now under the stamp it had      *)
(* before: if they differ the stamp is an old one, and the next look reads *)
(* the file again.                                                         *)
LEMMA LoadKeeps ==
    ASSUME AccountsInv, NEW r \in Requests, Load(r)
    PROVE  AccountsInv'
  <1> USE DEF AccountsInv
  <1>1. /\ Looking(r) /\ request[r].at = "stat" /\ UNCHANGED <<file, past>>
        /\ request' = [request EXCEPT ![r].at = "fresh"]
    BY DEF Load, Stands, Looking, Moves
  <1> DEFINE accounts == IF file.there THEN Parsed(file.rows) ELSE {}
  <1>2. cache' = [stamp |-> request[r].stamp, accounts |-> accounts, held |-> FALSE]
    BY DEF Load, Loaded
  <1>3. Ours' = Says(file)
    BY <1>2 DEF Ours, Says
  <1>4. accounts \subseteq AccountRows
    BY ParsedType DEF AccountsTypeOK
  <1>5. AccountsTypeOK'
    <2>1. request' \in [Requests -> Visits]
      BY <1>1, VisitType DEF Phases
    <2>2. request[r].stamp \in Int
      BY DEF AccountsTypeOK, Visits
    <2> QED
      BY <1>1, <1>2, <1>4, <2>1, <2>2 DEF AccountsTypeOK
  <1>6. StampsInOrder' /\ ReadIsCurrent'
    BY <1>1, <1>2, <1>3 DEF StampsInOrder, ReadIsCurrent, AccountsTypeOK, Files, Visits
  <1>7. FreshIsCurrent'
    BY <1>1, <1>3 DEF FreshIsCurrent, Looking, AccountsTypeOK, Files, Visits
  <1>8. AccountsAreCurrent'
    BY <1>1 DEF AccountsAreCurrent, AccountsTypeOK, Files, Visits
  <1> QED
    BY <1>5, <1>6, <1>7, <1>8

LEMMA GetKeeps ==
    ASSUME AccountsInv, NEW r \in Requests, Get(r)
    PROVE  AccountsInv'
  <1> USE DEF AccountsInv
  <1>1. /\ request[r].at = "fresh" /\ UNCHANGED <<file, cache, past>>
        /\ \E phase \in {"checking", "login", "client", "served"} :
              request' = [request EXCEPT ![r].account = Ours, ![r].at = phase]
    BY DEF Get, Stands, Guard, Ours
  <1>2. Ours \in past[r] /\ Ours \subseteq AccountRows /\ Ours' = Ours
    BY <1>1 DEF FreshIsCurrent, Ours, AccountsTypeOK, Files, Visits
  <1>3. AccountsTypeOK'
    <2>1. request' \in [Requests -> Visits]
      BY <1>1, <1>2, VisitType DEF Phases
    <2> QED
      BY <1>1, <2>1 DEF AccountsTypeOK
  <1>4. StampsInOrder' /\ ReadIsCurrent'
    BY <1>1, <1>2 DEF StampsInOrder, ReadIsCurrent, AccountsTypeOK, Files, Visits
  <1>5. FreshIsCurrent'
    BY <1>1, <1>2 DEF FreshIsCurrent, Looking, AccountsTypeOK, Files, Visits
  <1>6. AccountsAreCurrent'
    BY <1>1, <1>2 DEF AccountsAreCurrent, AccountsTypeOK, Files, Visits
  <1> QED
    BY <1>3, <1>4, <1>5, <1>6

LEMMA AuthenticateKeeps ==
    ASSUME AccountsInv, NEW r \in Requests, Authenticate(r)
    PROVE  AccountsInv'
  <1> USE DEF AccountsInv
  <1>1. PICK phase \in {"signed_in", "failed"} : request' = [request EXCEPT ![r].at = phase]
    BY DEF Authenticate, Moves
  <1>2. UNCHANGED <<file, cache, past>>
    BY DEF Authenticate
  <1>3. AccountsTypeOK'
    <2>1. request' \in [Requests -> Visits]
      BY <1>1, VisitType DEF Phases
    <2> QED
      BY <1>2, <2>1 DEF AccountsTypeOK
  <1>4. StampsInOrder' /\ ReadIsCurrent'
    BY <1>1, <1>2 DEF StampsInOrder, ReadIsCurrent, Ours, AccountsTypeOK, Files, Visits
  <1>5. FreshIsCurrent'
    BY <1>1, <1>2 DEF FreshIsCurrent, Looking, Ours, AccountsTypeOK, Files, Visits
  <1>6. AccountsAreCurrent'
    BY <1>1, <1>2 DEF AccountsAreCurrent, AccountsTypeOK, Files, Visits
  <1> QED
    BY <1>3, <1>4, <1>5, <1>6

LEMMA AccountsStep == AccountsInv /\ [SignInNext]_allVars => AccountsInv'
  <1> SUFFICES ASSUME AccountsInv, [SignInNext]_allVars PROVE AccountsInv'
    OBVIOUS
  <1>1. CASE UNCHANGED signVars
    BY <1>1 DEF signVars, AccountsInv, AccountsTypeOK, StampsInOrder, ReadIsCurrent, FreshIsCurrent, Looking,
                Ours, AccountsAreCurrent
  <1>2. CASE SignInStep
    BY <1>2, EditKeeps, ReceiveKeeps, StatFileKeeps, LoadKeeps, GetKeeps, AuthenticateKeeps DEF SignInStep
  <1> QED
    BY <1>1, <1>2 DEF SignInNext, allVars

(* A request is served as what accounts.yaml said at some moment of it.    *)
THEOREM AccountsStayCurrent == SignInSpec => []AccountsAreCurrent
  <1>1. AccountsInv => AccountsAreCurrent
    BY DEF AccountsInv
  <1> QED
    BY <1>1, AccountsInit, AccountsStep, PTL DEF SignInSpec, allVars

-----------------------------------------------------------------------------
(* The microphone, for any number of requests.  A recorder is at work only *)
(* for the latest request, which has been answered, and only while the     *)
(* button listens: so nobody can start another, and no answer of the       *)
(* browser can change the button under it.                                 *)

MicTypeOK ==
    /\ asked \in Nat /\ pending \subseteq 1..asked /\ live \subseteq {asked} /\ timer \in BOOLEAN
    /\ recorder \in {"none", "recording", "stopping"}
Recording == live = {asked} /\ button = "listening" /\ timer /\ asked \notin pending
MicInv == MicTypeOK /\ IF recorder = "none" THEN live = {} ELSE Recording

LEMMA MicBegins == MicInit => MicInv
  <1> SUFFICES ASSUME MicInit PROVE MicInv
    OBVIOUS
  <1>1. timer \in BOOLEAN
    BY Zenon DEF MicInit
  <1>2. recorder = "none" /\ live = {} /\ asked = 0 /\ pending = {}
    BY DEF MicInit
  <1> QED
    BY <1>1, <1>2 DEF MicInv, MicTypeOK

LEMMA StartKeeps ==
    ASSUME MicInv, button \in {"idle", "error"}, StartListening
    PROVE  MicInv'
  <1>1. /\ asked' = asked + 1 /\ pending' = pending \cup {asked + 1} /\ button' = "listening"
        /\ UNCHANGED <<live, recorder, timer>>
    BY DEF StartListening
  <1>2. recorder = "none" /\ live = {}
    BY DEF MicInv, Recording
  <1>3. asked \in Nat /\ pending \subseteq 1..asked
    BY DEF MicInv, MicTypeOK
  <1>4. pending' \subseteq 1..asked'
    BY <1>1, <1>3
  <1> QED
    BY <1>1, <1>2, <1>3, <1>4 DEF MicInv, MicTypeOK

LEMMA StopKeeps ==
    ASSUME MicInv, StopListening
    PROVE  MicInv'
  BY DEF MicInv, MicTypeOK, Recording, StopListening

LEMMA AnsweredKeeps ==
    ASSUME MicInv, NEW m \in pending, Given(m) \/ Denied(m)
    PROVE  MicInv'
  <1>1. pending' = pending \ {m} /\ asked' = asked
    BY DEF Given, Denied
  <1>2. CASE m = asked
    <2>1. recorder = "none" /\ live = {}
      BY <1>2 DEF MicInv, Recording
    <2>2. CASE Given(m)
      BY <1>1, <1>2, <2>1, <2>2 DEF Given, Wanted, MicInv, MicTypeOK, Recording
    <2>3. CASE Denied(m)
      BY <1>1, <2>1, <2>3 DEF Denied, MicInv, MicTypeOK
    <2> QED
      BY <2>2, <2>3
  <1>3. CASE m # asked
    <2>1. UNCHANGED <<button, live, recorder, timer>>
      BY <1>3 DEF Given, Denied, Wanted
    <2> QED
      BY <1>1, <2>1 DEF MicInv, MicTypeOK, Recording
  <1> QED
    BY <1>2, <1>3

LEMMA MicStep == MicInv /\ [MicNext]_micVars => MicInv'
  <1> SUFFICES ASSUME MicInv, [MicNext]_micVars PROVE MicInv'
    OBVIOUS
  <1>1. CASE button \in {"idle", "error"} /\ StartListening
    BY <1>1, StartKeeps
  <1>2. CASE StopListening
    BY <1>2, StopKeeps
  <1>3. CASE \E m \in pending : Given(m) \/ Denied(m)
    BY <1>3, AnsweredKeeps
  <1>4. CASE button = "speaking" /\ button' = "idle" /\ UNCHANGED <<asked, pending, live, recorder, timer>>
    BY <1>4 DEF MicInv, MicTypeOK, Recording
  <1>5. CASE Stopped
    BY <1>5 DEF Stopped, MicInv, MicTypeOK
  <1>6. CASE Replied
    BY <1>6 DEF Replied, MicInv, MicTypeOK, Recording
  <1>7. CASE UNCHANGED micVars
    BY <1>7 DEF micVars, MicInv, MicTypeOK, Recording
  <1> QED
    BY <1>1, <1>2, <1>3, <1>4, <1>5, <1>6, <1>7 DEF MicNext, Press, Release, TimeUp, Silent

(* However requests are let go, repeated, given late or refused, the       *)
(* microphone is open for the latest request only, while the button says   *)
(* it listens and its timer is set (mic.js).                               *)
THEOREM MicrophoneStaysShown == MicSpec => []MicrophoneIsShown
  <1>1. MicInv => MicrophoneIsShown
    BY DEF MicInv, Recording, MicrophoneIsShown
  <1> QED
    BY <1>1, MicBegins, MicStep, PTL DEF MicSpec

-----------------------------------------------------------------------------
(* Suggestions, for any posts, any number of accounts and any limit.  Who  *)
(* holds the write lock has found room and nobody stores a row meanwhile;  *)
(* and a row stamped earlier than one already stored was counted with the  *)
(* whole window of that one, so it leaves that window within the limit.    *)

SuggestTypeOK ==
    /\ clock \in Int /\ sent \in [Posts -> Int]
    /\ rows \subseteq Posts /\ IsFiniteSet(rows) /\ lock \subseteq Posts
    /\ DOMAIN post = Posts

LockIsHeld == \A p \in Posts : (post[p] = "inserting" <=> p \in lock) /\ (p \in lock => lock = {p})
RowsAreSaved == \A p \in rows : post[p] = "saved"
RoomIsLeft == \A p \in lock : ~Limited(p)
SuggestInv == SuggestTypeOK /\ LockIsHeld /\ RowsAreSaved /\ RoomIsLeft /\ SuggestionsAreLimited

(* The hour that ends at a row.                                            *)
HourTo(p) == {q \in LastHour(p) : sent[q] <= sent[p]}

LEMMA SuggestBegins == SuggestInit /\ clock = 0 => SuggestInv
  <1> SUFFICES ASSUME SuggestInit, clock = 0 PROVE SuggestInv
    OBVIOUS
  <1>1. IsFiniteSet({})
    BY FS_EmptySet
  <1> QED
    BY <1>1 DEF SuggestInit, SuggestInv, SuggestTypeOK, LockIsHeld, RowsAreSaved, RoomIsLeft, SuggestionsAreLimited

(* What the limit is about changes only when a row is stored.              *)
LEMMA WindowsStay ==
    ASSUME SuggestInv, UNCHANGED rows, \A p \in rows \cup lock : sent'[p] = sent[p]
    PROVE  SuggestionsAreLimited' /\ \A p \in lock : ~Limited(p)'
  <1>1. \A p \in rows \cup lock : LastHour(p)' = LastHour(p) /\ HourTo(p)' = HourTo(p)
    BY DEF LastHour, HourTo
  <1>2. \A p \in lock : Limited(p)' = Limited(p)
    BY <1>1 DEF Limited
  <1> QED
    BY <1>1, <1>2 DEF SuggestInv, RoomIsLeft, SuggestionsAreLimited, HourTo

LEMMA SubmitKeeps ==
    ASSUME SuggestInv, UNCHANGED clock, NEW p \in Posts, Submit(p)
    PROVE  SuggestInv'
  <1>1. /\ post[p] = "new" /\ UNCHANGED <<rows, status, lock>>
        /\ \E code \in {"bad text", "waiting"} : post' = [post EXCEPT ![p] = code]
        /\ sent' \in {sent, [sent EXCEPT ![p] = clock]}
    BY DEF Submit, Answer
  <1>2. SuggestTypeOK' /\ \A q \in Posts : q # p => sent'[q] = sent[q]
    BY <1>1 DEF SuggestInv, SuggestTypeOK
  <1>3. p \notin rows /\ p \notin lock
    BY <1>1 DEF SuggestInv, RowsAreSaved, LockIsHeld
  <1>4. LockIsHeld' /\ RowsAreSaved'
    BY <1>1, <1>3 DEF SuggestInv, SuggestTypeOK, LockIsHeld, RowsAreSaved
  <1>5. SuggestionsAreLimited' /\ \A q \in lock : ~Limited(q)'
    BY <1>1, <1>2, <1>3, WindowsStay DEF SuggestInv, SuggestTypeOK
  <1> QED
    BY <1>1, <1>2, <1>4, <1>5 DEF SuggestInv, RoomIsLeft

LEMMA TakeKeeps ==
    ASSUME SuggestInv, UNCHANGED clock, NEW p \in Posts, Take(p) \/ Fail(p)
    PROVE  SuggestInv'
  <1>1. /\ UNCHANGED <<rows, sent, status>> /\ post[p] \in {"waiting", "inserting"}
        /\ \/ post' = [post EXCEPT ![p] = "limited"] /\ lock = {} /\ lock' = lock
           \/ post' = [post EXCEPT ![p] = "inserting"] /\ lock = {} /\ lock' = {p} /\ ~Limited(p)
           \/ post' = [post EXCEPT ![p] = "can't save"] /\ lock' = lock \ {p}
    BY DEF Take, Fail, Answer
  <1>2. SuggestTypeOK' /\ LockIsHeld' /\ RowsAreSaved'
    BY <1>1 DEF SuggestInv, SuggestTypeOK, LockIsHeld, RowsAreSaved
  <1>3. \A q \in Posts : LastHour(q)' = LastHour(q)
    BY <1>1 DEF LastHour
  <1>4. RoomIsLeft'
    BY <1>1, <1>3 DEF SuggestInv, RoomIsLeft, Limited, SuggestTypeOK
  <1>5. SuggestionsAreLimited'
    BY <1>1, WindowsStay
  <1> QED
    BY <1>2, <1>4, <1>5 DEF SuggestInv

LEMMA CommitKeeps ==
    ASSUME SuggestInv, UNCHANGED clock, NEW p \in Posts, Commit(p)
    PROVE  SuggestInv'
  <1>1. /\ post[p] = "inserting" /\ rows' = rows \cup {p} /\ lock' = lock \ {p}
        /\ post' = [post EXCEPT ![p] = "saved"] /\ UNCHANGED sent
    BY DEF Commit, Answer
  <1>2. SuggestTypeOK' /\ LockIsHeld' /\ RowsAreSaved'
    <2>1. IsFiniteSet(rows \cup {p})
      BY FS_AddElement DEF SuggestInv, SuggestTypeOK
    <2> QED
      BY <1>1, <2>1 DEF SuggestInv, SuggestTypeOK, LockIsHeld, RowsAreSaved
  <1>3. lock = {p} /\ ~Limited(p)
    BY <1>1 DEF SuggestInv, LockIsHeld, RoomIsLeft
  <1>4. RoomIsLeft'
    BY <1>1, <1>3 DEF RoomIsLeft
  <1>5. /\ IsFiniteSet(LastHour(p)) /\ Cardinality(LastHour(p)) < PerHour /\ Cardinality(LastHour(p)) \in Nat
    <2>1. LastHour(p) \subseteq rows /\ IsFiniteSet(rows)
      BY DEF LastHour, SuggestInv, SuggestTypeOK
    <2>2. IsFiniteSet(LastHour(p)) /\ Cardinality(LastHour(p)) \in Nat
      BY <2>1, PartIsFinite
    <2> QED
      BY <1>3, <2>2, LimitAssumption DEF Limited
  <1>6. \A q \in rows' : sent'[q] = sent[q] /\ sent[q] \in Int
    BY <1>1 DEF SuggestInv, SuggestTypeOK
  <1>7. ASSUME NEW q \in rows' PROVE Cardinality(HourTo(q)') <= PerHour
    <2>1. CASE p \in HourTo(q)'
      <3>1. HourTo(q)' \subseteq LastHour(p) \cup {p}
        <4> SUFFICES ASSUME NEW r \in HourTo(q)', r # p PROVE r \in LastHour(p)
          OBVIOUS
        <4>1. r \in rows /\ By[r] = By[p] /\ sent[r] > sent[q] - Hour
          BY <1>1, <2>1 DEF HourTo, LastHour
        <4>2. sent[p] <= sent[q]
          BY <1>1, <2>1 DEF HourTo
        <4>3. sent[r] \in Int /\ sent[p] \in Int /\ sent[q] \in Int /\ Hour \in Int
          BY <1>1, <1>6, <4>1, LimitAssumption
        <4>4. sent[r] > sent[p] - Hour
          BY <4>1, <4>2, <4>3
        <4> QED
          BY <4>1, <4>4 DEF LastHour
      <3>2. /\ IsFiniteSet(LastHour(p) \cup {p})
            /\ Cardinality(LastHour(p) \cup {p}) \in Nat
            /\ Cardinality(LastHour(p) \cup {p}) <= Cardinality(LastHour(p)) + 1
        BY <1>5, OneMore
      <3>3. Cardinality(HourTo(q)') <= Cardinality(LastHour(p) \cup {p}) /\ Cardinality(HourTo(q)') \in Nat
        BY <3>1, <3>2, PartIsFinite
      <3> QED
        BY <1>5, <3>2, <3>3, LimitAssumption
    <2>2. CASE p \notin HourTo(q)'
      <3>1. q \in rows
        <4>1. p \in rows' /\ sent[p] \in Int /\ Hour \in Nat \ {0}
          BY <1>1, <1>6, LimitAssumption
        <4>2. sent[p] > sent[p] - Hour /\ sent[p] <= sent[p]
          BY <4>1
        <4>3. p \in HourTo(p)'
          BY <1>1, <4>1, <4>2 DEF HourTo, LastHour
        <4> QED
          BY <1>1, <2>2, <4>3
      <3>2. HourTo(q)' = HourTo(q)
        BY <1>1, <2>2 DEF HourTo, LastHour
      <3> QED
        BY <3>1, <3>2 DEF SuggestInv, SuggestionsAreLimited, HourTo
    <2> QED
      BY <2>1, <2>2
  <1>8. SuggestionsAreLimited'
    BY <1>7 DEF SuggestionsAreLimited, HourTo
  <1> QED
    BY <1>2, <1>4, <1>8 DEF SuggestInv

LEMMA SuggestStep == SuggestInv /\ [SuggestNext]_<<clock, suggestVars>> => SuggestInv'
  <1> SUFFICES ASSUME SuggestInv, [SuggestNext]_<<clock, suggestVars>> PROVE SuggestInv'
    OBVIOUS
  <1>1. CASE /\ \E p \in Posts : Submit(p) \/ Take(p) \/ Commit(p) \/ Fail(p)
             /\ UNCHANGED clock
    BY <1>1, SubmitKeeps, TakeKeeps, CommitKeeps
  <1>2. CASE UNCHANGED <<rows, sent, post, lock>> /\ clock' \in Int
    <2>1. SuggestTypeOK' /\ LockIsHeld' /\ RowsAreSaved'
      BY <1>2 DEF SuggestInv, SuggestTypeOK, LockIsHeld, RowsAreSaved
    <2> QED
      BY <1>2, <2>1, WindowsStay DEF SuggestInv, RoomIsLeft
  <1>3. clock \in Int
    BY DEF SuggestInv, SuggestTypeOK
  <1>4. CASE (\E p \in Posts : SetStatus(p)) /\ UNCHANGED clock
    BY <1>2, <1>3, <1>4 DEF SetStatus
  <1>5. CASE Tick /\ UNCHANGED suggestVars
    BY <1>2, <1>3, <1>5 DEF Tick, suggestVars
  <1>6. CASE UNCHANGED <<clock, suggestVars>>
    BY <1>2, <1>3, <1>6 DEF suggestVars
  <1> QED
    BY <1>1, <1>4, <1>5, <1>6 DEF SuggestNext

(* However posts are stamped, wait for the lock and fail, no account has   *)
(* more than PerHour rows in an hour that ends at one of its rows          *)
(* (suggestions.add).                                                      *)
THEOREM SuggestionsStayLimited == SuggestSpec => []SuggestionsAreLimited
  <1>1. SuggestInv => SuggestionsAreLimited
    BY DEF SuggestInv
  <1> QED
    BY <1>1, SuggestBegins, SuggestStep, PTL DEF SuggestSpec

-----------------------------------------------------------------------------
(* The feed's files, for any texts of plans.yaml and any number of edits.  *)
(* The plan mirror marks the stamp it saw before it read, and stamps only  *)
(* grow: while its stamp is still the file's, what it has copied is the    *)
(* text's first lines, each id as its last line so far says.               *)

Ids == {line.id : line \in Lines}
Copies == [at : {"idle", "stat", "rows"}, stamp : Int, todo : Seq(Lines), seen : SUBSET Ids, last : Int]
Writers == [at : {"idle", "views", "file"}, snap : Nat, saw : SUBSET Nat, temp : Nat]
FilesTypeOK ==
    /\ feed \in {"down", "boot", "up"} /\ moment \in Nat
    /\ plans \in [stamp : Nat, says : PlanTexts]
    /\ copy \in Copies /\ writer \in Writers

(* The summary's loop runs while the feed is up, with one temporary file.  *)
WriterInv ==
    /\ feed # "up" => writer = NotWriting /\ temps \subseteq {1}
    /\ feed = "up" => temps = IF writer.at = "file" THEN {1} ELSE {}
    /\ writer.at = "file" => writer.temp = 1
    /\ writer.saw \subseteq {writer.snap}
    /\ Cardinality(summary) <= 1

LastUpTo(says, k) == {says[i] : i \in {j \in 1..k : \A l \in 1..k : l > j => says[l].id # says[j].id}}
IdsUpTo(says, k) == {says[i].id : i \in 1..k}
Among(S, ids) == {r \in S : r.id \in ids}
With(S, m) == {r \in S : r.id # m.id} \cup {m}

Copied == Len(plans.says) - Len(copy.todo)
HalfMirrored ==
    /\ Copied >= 0
    /\ \A i \in 1..Len(copy.todo) : copy.todo[i] = plans.says[Copied + i]
    /\ copy.seen = IdsUpTo(plans.says, Copied)
    /\ Among(milestones, copy.seen) = LastUpTo(plans.says, Copied)
MirrorInv ==
    /\ copy.last <= plans.stamp /\ copy.stamp <= plans.stamp
    /\ feed = "down" => copy = AtRest
    /\ feed = "boot" => copy.at # "idle" /\ copy.stamp = NotRead /\ copy.last = NotRead
    /\ feed = "up" /\ copy.at # "idle" => copy.last < plans.stamp
    /\ copy.at = "rows" /\ copy.stamp = plans.stamp => HalfMirrored
    /\ feed = "up" /\ copy.at = "idle" /\ copy.last = plans.stamp => milestones = LastOfEach(plans.says)

FilesInv == FilesTypeOK /\ WriterInv /\ MirrorInv

LEMMA OneAtMost ==
    ASSUME NEW x, NEW S, S \subseteq {x}
    PROVE  Cardinality(S) \in Nat /\ Cardinality(S) <= 1
  <1>1. IsFiniteSet({x}) /\ Cardinality({x}) = 1
    BY FS_Singleton
  <1> QED
    BY <1>1, PartIsFinite

LEMMA TextIsList ==
    ASSUME FilesTypeOK
    PROVE  /\ plans.says \in Seq(Lines) /\ copy.todo \in Seq(Lines) /\ plans.stamp \in Nat
           /\ Len(plans.says) \in Nat /\ DOMAIN plans.says = 1..Len(plans.says)
           /\ Len(copy.todo) \in Nat /\ DOMAIN copy.todo = 1..Len(copy.todo)
           /\ LastOfEach(plans.says) = LastUpTo(plans.says, Len(plans.says))
  <1>1. plans.says \in Seq(Lines) /\ copy.todo \in Seq(Lines) /\ plans.stamp \in Nat
    BY PlansAssumption DEF FilesTypeOK, Copies
  <1>2. /\ Len(plans.says) \in Nat /\ DOMAIN plans.says = 1..Len(plans.says)
        /\ Len(copy.todo) \in Nat /\ DOMAIN copy.todo = 1..Len(copy.todo)
    BY <1>1, LenProperties
  <1>3. LastOfEach(plans.says) = LastUpTo(plans.says, Len(plans.says))
    BY <1>2 DEF LastOfEach, LastUpTo
  <1> QED
    BY <1>1, <1>2, <1>3

LEMMA RestIsTyped ==
    /\ AtRest \in Copies /\ NotWriting \in Writers
    /\ AtRest.at = "idle" /\ AtRest.stamp = NotRead /\ AtRest.last = NotRead /\ NotRead \in Int /\ NotRead < 0
    /\ NotWriting.at = "idle" /\ NotWriting.saw = {} /\ NotWriting.temp = 0
  <1>1. <<>> \in Seq(Lines)
    BY EmptySeq
  <1> QED
    BY <1>1 DEF AtRest, NotWriting, Copies, Writers, NotRead

LEMMA FilesBegin == FilesInit => FilesInv
  <1> SUFFICES ASSUME FilesInit PROVE FilesInv
    OBVIOUS
  <1>1. PICK says \in PlanTexts : plans = [stamp |-> 0, says |-> says]
    BY DEF FilesInit
  <1>2. FilesTypeOK
    BY <1>1, RestIsTyped DEF FilesInit, FilesTypeOK
  <1>3. WriterInv
    BY OneAtMost, RestIsTyped DEF FilesInit, WriterInv
  <1>4. MirrorInv
    BY <1>1, RestIsTyped DEF FilesInit, MirrorInv
  <1> QED
    BY <1>2, <1>3, <1>4 DEF FilesInv

(* The feed stops, wherever it is.                                         *)
LEMMA DownKeeps ==
    ASSUME FilesInv, feed # "down", Down, UNCHANGED <<plans, milestones, moment, temps, summary>>
    PROVE  FilesInv'
  <1>1. feed' = "down" /\ copy' = AtRest /\ writer' = NotWriting
    BY DEF Down
  <1>2. FilesTypeOK'
    BY <1>1, RestIsTyped DEF FilesInv, FilesTypeOK
  <1>3. WriterInv'
    BY <1>1, RestIsTyped DEF FilesInv, WriterInv, FilesTypeOK
  <1>4. MirrorInv'
    BY <1>1, RestIsTyped, TextIsList DEF FilesInv, MirrorInv
  <1> QED
    BY <1>2, <1>3, <1>4 DEF FilesInv

(* The mirror starts, or is at rest again without a new text.              *)
LEMMA LookKeeps ==
    ASSUME FilesInv, UNCHANGED <<plans, milestones, moment, temps, summary, writer>>,
           \/ Boot \/ StatPlans
           \/ /\ PlanFails /\ feed # "boot"
    PROVE  FilesInv'
  <1>1. FilesTypeOK /\ plans.stamp \in Nat /\ copy \in Copies
    BY TextIsList DEF FilesInv, FilesTypeOK
  <1>2. /\ copy' \in Copies /\ feed' \in {"boot", "up"}
        /\ \/ feed = "down" /\ feed' = "boot" /\ copy'.at = "stat" /\ copy'.stamp = NotRead /\ copy'.last = NotRead
           \/ /\ feed = "up" /\ feed' = "up" /\ copy'.at = "stat" /\ copy'.stamp = plans.stamp
              /\ copy'.last = copy.last /\ copy.last # plans.stamp /\ copy.at = "idle"
           \/ /\ feed = "up" /\ feed' = "up" /\ copy'.at = "idle" /\ copy'.stamp = NotRead
              /\ copy'.last = copy.last /\ copy.at # "idle"
    <2>1. CASE Boot
      BY <1>1, <2>1, RestIsTyped DEF Boot, Copies
    <2>2. CASE StatPlans
      <3>1. /\ feed = "up" /\ feed' = "up" /\ copy.at = "idle" /\ plans.stamp # copy.last
            /\ copy' = [copy EXCEPT !.at = "stat", !.stamp = plans.stamp]
        BY <2>2 DEF StatPlans
      <3> DEFINE st == plans.stamp
      <3>2. st \in Int /\ copy' = [copy EXCEPT !.at = "stat", !.stamp = st]
        BY <1>1, <3>1
      <3> HIDE DEF st
      <3>3. copy' \in Copies /\ copy'.at = "stat" /\ copy'.stamp = st /\ copy'.last = copy.last
        BY <1>1, <3>2 DEF Copies
      <3> QED
        BY <3>1, <3>3 DEF st
    <2>3. CASE PlanFails /\ feed # "boot"
      <3>1. feed = "up"
        BY <2>3, RestIsTyped DEF PlanFails, FilesInv, MirrorInv, FilesTypeOK
      <3> QED
        BY <1>1, <2>3, <3>1, RestIsTyped DEF PlanFails, Copies
    <2> QED
      BY <2>1, <2>2, <2>3
  <1>3. FilesTypeOK'
    BY <1>1, <1>2 DEF FilesTypeOK
  <1>4. WriterInv'
    BY <1>2, RestIsTyped DEF FilesInv, WriterInv
  <1>5. MirrorInv'
    <2>1. copy.last \in Int /\ copy.last <= plans.stamp
      BY <1>1 DEF Copies, FilesInv, MirrorInv
    <2>2. feed = "up" /\ copy.at # "idle" => copy.last < plans.stamp
      BY DEF FilesInv, MirrorInv
    <2> QED
      BY <1>1, <1>2, <2>1, <2>2, RestIsTyped DEF MirrorInv
  <1> QED
    BY <1>3, <1>4, <1>5 DEF FilesInv

(* The owner edits plans.yaml.                                             *)
LEMMA EditPlansKeeps ==
    ASSUME FilesInv, EditPlans
    PROVE  FilesInv'
  <1>1. PICK says \in PlanTexts : plans' = [stamp |-> plans.stamp + 1, says |-> says]
    BY DEF EditPlans
  <1>2. UNCHANGED <<feed, milestones, copy, moment, writer, temps, summary>>
    BY DEF EditPlans
  <1>3. plans.stamp \in Nat /\ plans'.stamp = plans.stamp + 1 /\ plans' \in [stamp : Nat, says : PlanTexts]
    BY <1>1, TextIsList DEF FilesInv
  <1>4. copy.last \in Int /\ copy.stamp \in Int /\ copy.last <= plans.stamp /\ copy.stamp <= plans.stamp
    BY DEF FilesInv, FilesTypeOK, Copies, MirrorInv
  <1>5. FilesTypeOK' /\ WriterInv'
    BY <1>2, <1>3 DEF FilesInv, FilesTypeOK, WriterInv
  <1>6. MirrorInv'
    <2>1. copy.last < plans'.stamp /\ copy.stamp < plans'.stamp
      BY <1>3, <1>4
    <2>2. /\ copy.last # plans'.stamp /\ copy.stamp # plans'.stamp
          /\ copy.last <= plans'.stamp /\ copy.stamp <= plans'.stamp
      BY <1>3, <1>4, <2>1
    <2> QED
      BY <1>2, <2>1, <2>2 DEF FilesInv, MirrorInv
  <1> QED
    BY <1>5, <1>6 DEF FilesInv

(* The text is read.                                                       *)
LEMMA LoadPlansKeeps ==
    ASSUME FilesInv, LoadPlans, plans.says # Broken
    PROVE  FilesInv'
  <1>1. /\ copy.at = "stat" /\ UNCHANGED <<plans, milestones, moment, temps, summary, feed, writer>>
        /\ copy' = [copy EXCEPT !.at = "rows", !.todo = plans.says, !.seen = {}]
    BY DEF LoadPlans
  <1>2. /\ FilesTypeOK /\ plans.says \in Seq(Lines) /\ copy \in Copies
        /\ Len(plans.says) \in Nat /\ DOMAIN plans.says = 1..Len(plans.says)
    BY TextIsList DEF FilesInv, FilesTypeOK
  <1> DEFINE says == plans.says
  <1>3. says \in Seq(Lines) /\ copy' = [copy EXCEPT !.at = "rows", !.todo = says, !.seen = {}]
    BY <1>1, <1>2
  <1> HIDE DEF says
  <1>4. /\ copy' \in Copies /\ copy'.at = "rows" /\ copy'.todo = says /\ copy'.seen = {}
        /\ copy'.stamp = copy.stamp /\ copy'.last = copy.last
    BY <1>2, <1>3 DEF Copies
  <1>5. FilesTypeOK' /\ WriterInv'
    BY <1>1, <1>2, <1>4 DEF FilesInv, FilesTypeOK, WriterInv
  <1>6. HalfMirrored'
    <2>1. copy'.todo = plans.says /\ plans' = plans /\ Len(plans.says) - Len(plans.says) = 0
      BY <1>1, <1>2, <1>4 DEF says
    <2>2. Copied' = 0
      BY <2>1 DEF Copied
    <2>3. LastUpTo(plans.says, 0) = {} /\ IdsUpTo(plans.says, 0) = {} /\ Among(milestones, {}) = {}
      BY DEF LastUpTo, IdsUpTo, Among
    <2>4. \A j \in 1..Len(plans.says) : 0 + j = j
      BY <1>2
    <2> QED
      BY <1>1, <1>4, <2>1, <2>2, <2>3, <2>4 DEF HalfMirrored, LastUpTo, IdsUpTo, Among
  <1>7. MirrorInv'
    BY <1>1, <1>4, <1>6, RestIsTyped DEF FilesInv, MirrorInv
  <1> QED
    BY <1>5, <1>7 DEF FilesInv

(* One more line takes the place of an earlier one with its id.            *)
LEMMA NextLine ==
    ASSUME NEW says, NEW k \in Nat, NEW had, NEW seen, NEW m,
           m = says[k + 1], seen = IdsUpTo(says, k), Among(had, seen) = LastUpTo(says, k)
    PROVE  /\ seen \cup {m.id} = IdsUpTo(says, k + 1)
           /\ Among(With(had, m), seen \cup {m.id}) = LastUpTo(says, k + 1)
  <1> DEFINE all == Among(With(had, m), seen \cup {m.id})
  <1> USE DEF IdsUpTo, Among, With
  <1>1. 1..(k + 1) = (1..k) \cup {k + 1} /\ \A i \in 1..k : ~(i > k + 1) /\ k + 1 > i
    OBVIOUS
  <1>2. seen \cup {m.id} = IdsUpTo(says, k + 1)
    BY <1>1
  <1>3. ASSUME NEW r \in all PROVE r \in LastUpTo(says, k + 1)
    <2>1. CASE r = m
      <3>1. k + 1 \in 1..(k + 1) /\ \A l \in 1..(k + 1) : ~(l > k + 1)
        OBVIOUS
      <3> QED
        BY <2>1, <3>1 DEF LastUpTo
    <2>2. CASE r # m
      <3>1. r \in had /\ r.id # m.id /\ r.id \in seen
        BY <2>2
      <3>2. PICK i \in 1..k : r = says[i] /\ \A l \in 1..k : l > i => says[l].id # says[i].id
        BY <3>1 DEF LastUpTo
      <3>3. i \in 1..(k + 1) /\ \A l \in 1..(k + 1) : l > i => says[l].id # says[i].id
        BY <1>1, <3>1, <3>2
      <3> QED
        BY <3>2, <3>3 DEF LastUpTo
    <2> QED
      BY <2>1, <2>2
  <1>4. ASSUME NEW r \in LastUpTo(says, k + 1) PROVE r \in all
    <2>1. PICK i \in 1..(k + 1) : r = says[i] /\ \A l \in 1..(k + 1) : l > i => says[l].id # says[i].id
      BY <1>4 DEF LastUpTo
    <2>2. CASE i = k + 1
      BY <2>1, <2>2
    <2>3. CASE i \in 1..k
      <3>1. r \in LastUpTo(says, k)
        BY <1>1, <2>1, <2>3 DEF LastUpTo
      <3>2. r \in had /\ r.id \in seen
        BY <3>1
      <3>3. r.id # m.id
        BY <1>1, <2>1, <2>3
      <3> QED
        BY <3>2, <3>3
    <2> QED
      BY <1>1, <2>2, <2>3
  <1>5. all = LastUpTo(says, k + 1)
    BY <1>3, <1>4
  <1> QED
    BY <1>2, <1>5

LEMMA UpsertKeeps ==
    ASSUME FilesInv, Upsert
    PROVE  FilesInv'
  <1> DEFINE m == Head(copy.todo)
             todo == Tail(copy.todo)
             seen == copy.seen \cup {m.id}
  <1>1. /\ copy.at = "rows" /\ copy.todo # <<>>
        /\ milestones' = {r \in milestones : r.id # m.id} \cup {m}
        /\ copy' = [copy EXCEPT !.todo = todo, !.seen = seen]
        /\ UNCHANGED <<feed, plans, moment, writer, temps, summary>>
    BY DEF Upsert
  <1>2. /\ FilesTypeOK /\ plans.says \in Seq(Lines) /\ copy.todo \in Seq(Lines) /\ copy \in Copies
        /\ Len(plans.says) \in Nat /\ Len(copy.todo) \in Nat /\ plans.stamp \in Nat
        /\ DOMAIN copy.todo = 1..Len(copy.todo)
    BY TextIsList DEF FilesInv, FilesTypeOK
  <1>3. /\ Len(copy.todo) # 0 /\ todo \in Seq(Lines) /\ Len(todo) = Len(copy.todo) - 1
        /\ \A i \in 1..Len(todo) : todo[i] = copy.todo[i + 1]
        /\ m \in Lines /\ m = copy.todo[1]
    <2>1. Len(copy.todo) # 0
      BY <1>1, <1>2, EmptySeq
    <2>2. /\ todo \in Seq(Lines) /\ Len(todo) = Len(copy.todo) - 1
          /\ \A i \in 1..Len(todo) : todo[i] = copy.todo[i + 1]
      BY <1>1, <1>2, HeadTailProperties
    <2>3. m = copy.todo[1] /\ m \in Lines
      BY <1>1, <1>2, HeadTailProperties
    <2> QED
      BY <2>1, <2>2, <2>3
  <1>4. seen \subseteq Ids
    BY <1>2, <1>3 DEF Copies, Ids
  <1> HIDE DEF m, todo, seen
  <1>5. /\ copy' \in Copies /\ copy'.at = "rows" /\ copy'.todo = todo /\ copy'.seen = seen
        /\ copy'.stamp = copy.stamp /\ copy'.last = copy.last
    BY <1>1, <1>2, <1>3, <1>4 DEF Copies
  <1>6. FilesTypeOK' /\ WriterInv'
    BY <1>1, <1>2, <1>5 DEF FilesInv, FilesTypeOK, WriterInv
  <1>7. ASSUME copy.stamp = plans.stamp PROVE HalfMirrored'
    <2> DEFINE k == Copied
               n == Len(copy.todo)
    <2>1. /\ k >= 0 /\ \A i \in 1..n : copy.todo[i] = plans.says[k + i]
          /\ copy.seen = IdsUpTo(plans.says, k)
          /\ Among(milestones, copy.seen) = LastUpTo(plans.says, k)
      BY <1>1, <1>7 DEF FilesInv, MirrorInv, HalfMirrored
    <2>2. k \in Nat /\ n \in Nat /\ n # 0
      BY <1>2, <1>3, <2>1 DEF Copied
    <2>3. Copied' = k + 1
      <3>1. Copied' = Len(plans.says) - Len(todo) /\ Len(todo) = n - 1
        BY <1>1, <1>3, <1>5 DEF Copied
      <3>2. Len(plans.says) \in Nat /\ Copied = Len(plans.says) - n
        BY <1>2 DEF Copied
      <3> HIDE DEF n
      <3> QED
        BY <2>2, <3>1, <3>2
    <2> HIDE DEF k
    <2>4. m = plans.says[k + 1]
      <3>1. 1 \in 1..n
        BY <2>2
      <3> QED
        BY <1>3, <2>1, <3>1
    <2>5. \A i \in 1..Len(todo) : todo[i] = plans.says[(k + 1) + i]
      <3> SUFFICES ASSUME NEW i \in 1..Len(todo) PROVE todo[i] = plans.says[(k + 1) + i]
        OBVIOUS
      <3>1. i + 1 \in 1..n /\ k + (i + 1) = (k + 1) + i
        BY <1>3, <2>2
      <3> QED
        BY <1>3, <2>1, <3>1
    <2>6. /\ seen = IdsUpTo(plans.says, k + 1)
          /\ Among(milestones', seen) = LastUpTo(plans.says, k + 1)
      <3>1. milestones' = With(milestones, m) /\ seen = copy.seen \cup {m.id}
        BY <1>1 DEF With, seen
      <3>2. /\ copy.seen \cup {m.id} = IdsUpTo(plans.says, k + 1)
            /\ Among(With(milestones, m), copy.seen \cup {m.id}) = LastUpTo(plans.says, k + 1)
        <4>1. k \in Nat /\ m = plans.says[k + 1]
          BY <2>2, <2>4
        <4>2. copy.seen = IdsUpTo(plans.says, k) /\ Among(milestones, copy.seen) = LastUpTo(plans.says, k)
          BY <2>1
        <4> QED
          BY <4>1, <4>2, NextLine
      <3> QED
        BY <3>1, <3>2
    <2>7. k + 1 >= 0
      BY <2>2
    <2> QED
      BY <1>1, <1>5, <2>3, <2>5, <2>6, <2>7 DEF HalfMirrored
  <1>8. MirrorInv'
    BY <1>1, <1>5, <1>7, RestIsTyped DEF FilesInv, MirrorInv
  <1> QED
    BY <1>6, <1>8 DEF FilesInv

(* The text's last line is in: what it does not name goes.                 *)
LEMMA DeleteKeeps ==
    ASSUME FilesInv, DeleteTheRest
    PROVE  FilesInv'
  <1> DEFINE last == IF feed = "boot" THEN NotRead ELSE copy.stamp
  <1>1. /\ copy.at = "rows" /\ copy.todo = <<>> /\ milestones' = {r \in milestones : r.id \in copy.seen}
        /\ copy' = [AtRest EXCEPT !.last = last] /\ feed' = "up"
        /\ temps' = IF feed = "boot" THEN {} ELSE temps
        /\ UNCHANGED <<plans, moment, writer, summary>>
    BY DEF DeleteTheRest, Mirrored
  <1>2. /\ FilesTypeOK /\ copy \in Copies /\ Len(plans.says) \in Nat /\ plans.stamp \in Nat
        /\ LastOfEach(plans.says) = LastUpTo(plans.says, Len(plans.says))
    BY TextIsList DEF FilesInv, FilesTypeOK
  <1>3. last \in Int /\ feed \in {"boot", "up"} /\ last <= plans.stamp
    BY <1>1, <1>2, RestIsTyped DEF FilesInv, FilesTypeOK, Copies, MirrorInv
  <1> HIDE DEF last
  <1>4. copy' \in Copies /\ copy'.at = "idle" /\ copy'.stamp = NotRead /\ copy'.last = last
    BY <1>1, <1>3, RestIsTyped DEF Copies
  <1>5. FilesTypeOK'
    BY <1>1, <1>2, <1>4 DEF FilesTypeOK
  <1>6. WriterInv'
    BY <1>1, <1>3, RestIsTyped DEF FilesInv, WriterInv
  <1>7. ASSUME last = plans.stamp PROVE milestones' = LastOfEach(plans.says)
    <2>1. copy.stamp = plans.stamp
      BY <1>2, <1>7, RestIsTyped DEF last
    <2>2. HalfMirrored
      BY <1>1, <2>1 DEF FilesInv, MirrorInv
    <2>3. Len(copy.todo) = 0
      BY <1>1
    <2>4. Copied = Len(plans.says)
      BY <1>2, <2>3 DEF Copied
    <2> QED
      BY <1>1, <1>2, <2>2, <2>4 DEF HalfMirrored, Among
  <1>8. MirrorInv'
    BY <1>1, <1>2, <1>3, <1>4, <1>7, RestIsTyped DEF MirrorInv
  <1> QED
    BY <1>5, <1>6, <1>8 DEF FilesInv

(* The summary's loop leaves the plan alone.                               *)
LEMMA WriterKeeps ==
    ASSUME FilesInv, Snapshot \/ View \/ CreateTemp \/ Replace \/ WriteFails
    PROVE  FilesInv'
  <1>1. /\ UNCHANGED <<feed, plans, milestones, copy, moment>>
        /\ FilesTypeOK /\ WriterInv /\ moment \in Nat /\ writer \in Writers
    BY DEF Snapshot, View, CreateTemp, Replace, WriteFails, FilesInv, FilesTypeOK
  <1>2. writer' \in Writers /\ WriterInv'
    <2>1. CASE Snapshot
      <3>1. /\ feed = "up" /\ writer.at = "idle" /\ UNCHANGED <<temps, summary>>
            /\ writer' = [NotWriting EXCEPT !.at = "views", !.snap = moment]
        BY <2>1 DEF Snapshot
      <3>2. writer' \in Writers /\ writer'.at = "views" /\ writer'.saw = {}
        BY <1>1, <3>1, RestIsTyped DEF Writers
      <3> QED
        BY <1>1, <3>1, <3>2 DEF WriterInv
    <2>2. CASE View
      <3>1. /\ writer.at = "views" /\ UNCHANGED <<temps, summary>>
            /\ writer' = [writer EXCEPT !.saw = writer.saw \cup {writer.snap}]
        BY <2>2 DEF View
      <3> DEFINE saw == writer.saw \cup {writer.snap}
      <3>2. saw \subseteq {writer.snap} /\ saw \in SUBSET Nat /\ writer' = [writer EXCEPT !.saw = saw]
        BY <1>1, <3>1 DEF WriterInv, Writers
      <3> HIDE DEF saw
      <3>3. writer' \in Writers /\ writer'.at = "views" /\ writer'.saw = saw /\ writer'.snap = writer.snap
        BY <1>1, <3>1, <3>2 DEF Writers
      <3> QED
        BY <1>1, <3>1, <3>2, <3>3, RestIsTyped DEF WriterInv
    <2>3. CASE CreateTemp
      <3> DEFINE name == Cardinality(temps) + 1
      <3>1. /\ writer.at = "views" /\ temps' = temps \cup {name} /\ UNCHANGED summary
            /\ writer' = [writer EXCEPT !.at = "file", !.temp = name]
        BY <2>3 DEF CreateTemp
      <3>2. feed = "up" /\ temps = {}
        BY <1>1, <3>1, RestIsTyped DEF WriterInv, FilesTypeOK
      <3>3. name = 1
        BY <3>2, FS_EmptySet
      <3> HIDE DEF name
      <3>4. /\ writer' \in Writers /\ writer'.at = "file" /\ writer'.temp = 1
            /\ writer'.saw = writer.saw /\ writer'.snap = writer.snap
        BY <1>1, <3>1, <3>3 DEF Writers
      <3> QED
        BY <1>1, <3>1, <3>2, <3>3, <3>4 DEF WriterInv
    <2>4. CASE Replace \/ WriteFails
      <3>1. /\ writer.at # "idle" /\ writer' = NotWriting /\ temps' = temps \ {writer.temp}
            /\ summary' \in {summary, writer.saw}
        BY <2>4 DEF Replace, WriteFails, Finished
      <3>2. feed = "up" /\ temps' = {}
        BY <1>1, <3>1, RestIsTyped DEF WriterInv
      <3>3. Cardinality(summary') <= 1
        BY <1>1, <3>1, OneAtMost DEF WriterInv
      <3> QED
        BY <1>1, <3>1, <3>2, <3>3, RestIsTyped DEF WriterInv
    <2> QED
      BY <2>1, <2>2, <2>3, <2>4
  <1>3. FilesTypeOK'
    BY <1>1, <1>2 DEF FilesTypeOK
  <1>4. MirrorInv'
    BY <1>1 DEF FilesInv, MirrorInv, HalfMirrored, Copied
  <1> QED
    BY <1>2, <1>3, <1>4 DEF FilesInv

LEMMA FilesStep == FilesInv /\ [FilesNext]_filesVars => FilesInv'
  <1> SUFFICES ASSUME FilesInv, [FilesNext]_filesVars PROVE FilesInv'
    OBVIOUS
  <1>1. CASE EditPlans
    BY <1>1, EditPlansKeeps
  <1>2. CASE Boot \/ StatPlans \/ (PlanFails /\ feed # "boot")
    <2>1. UNCHANGED <<plans, milestones, moment, temps, summary, writer>>
      BY <1>2 DEF Boot, StatPlans, PlanFails
    <2> QED
      BY <1>2, <2>1, LookKeeps
  <1>3. CASE Stop \/ (PlanFails /\ feed = "boot")
    BY <1>3, DownKeeps DEF Stop, PlanFails
  <1>4. CASE LoadPlans
    <2>1. CASE plans.says = Broken
      <3>1. feed # "down"
        BY <1>4, RestIsTyped DEF LoadPlans, FilesInv, MirrorInv
      <3> QED
        BY <1>4, <2>1, <3>1, DownKeeps DEF LoadPlans
    <2> QED
      BY <1>4, <2>1, LoadPlansKeeps
  <1>5. CASE Upsert \/ DeleteTheRest
    BY <1>5, UpsertKeeps, DeleteKeeps
  <1>6. CASE Snapshot \/ View \/ CreateTemp \/ Replace \/ WriteFails
    BY <1>6, WriterKeeps
  <1>7. CASE UNCHANGED <<feed, plans, milestones, copy, writer, temps, summary>> /\ moment' \in Nat
    BY <1>7 DEF FilesInv, FilesTypeOK, WriterInv, MirrorInv, HalfMirrored, Copied
  <1>8. moment \in Nat
    BY DEF FilesInv, FilesTypeOK
  <1>9. CASE StoreChanges
    BY <1>7, <1>8, <1>9 DEF StoreChanges
  <1>10. CASE UNCHANGED filesVars
    BY <1>7, <1>8, <1>10 DEF filesVars
  <1> QED
    BY <1>1, <1>2, <1>3, <1>4, <1>5, <1>6, <1>9, <1>10 DEF FilesNext

(* However the feed stops, fails and races the owner's edits: a text of    *)
(* plans.yaml that is marked as read is the plan, whole; the summary's     *)
(* figures are of one moment; one temporary file is left at most           *)
(* (plan_mirror.py, summary.py).                                           *)
THEOREM FilesStayWhole == FilesSpec => []FilesAreWhole
  <1>1. FilesInv => FilesAreWhole
    <2> SUFFICES ASSUME FilesInv PROVE FilesAreWhole
      OBVIOUS
    <2>1. temps \subseteq {1}
      BY DEF FilesInv, WriterInv
    <2>2. Cardinality(temps) <= 1
      BY <2>1, OneAtMost
    <2> QED
      BY <2>2 DEF FilesInv, WriterInv, MirrorInv, FilesAreWhole
  <1> QED
    BY <1>1, FilesBegin, FilesStep, PTL DEF FilesSpec

-----------------------------------------------------------------------------
(* Questions, for any number of requests, any limits and budgets that run  *)
(* out whenever they do.  Who holds the chat is at its call or having the  *)
(* reply read, and who holds the microphone is at one of the stages of a   *)
(* recording, each begun as the one before ended.                          *)

Kinds == {"typed", "spoken", "note"}
Refusals == {"not audio", "no recording", "too big", "too long"}
Places ==
    {"new", "at chat", "at voice", "hearing", "asking", "reading", "speaking"} \cup Refusals
    \cup {"refused", "busy", "limited", "unavailable", "asks back", "answer", "not heard", "heard", "text only", "spoken"}
CallStates ==
    [worker : {"none", "sent", "open", "late"}, up : BOOLEAN, done : BOOLEAN, abandoned : BOOLEAN, shuts : BOOLEAN,
     socket : {"none", "open", "shut"}]
AskTypeOK ==
    /\ ask \in [Asks -> [kind : Kinds, at : Places]]
    /\ call \in [Asks \X Stages -> CallStates]
    /\ chat \subseteq Asks /\ voice \subseteq Asks

Asking(place) == place \in {"asking", "reading"}
Holding(kind, place) == place \in {"hearing", "speaking"} \/ (Asking(place) /\ kind = "spoken")
Fits(kind, place) ==
    /\ place = "at chat" => kind = "typed"
    /\ place \in {"at voice", "hearing"} => kind # "typed"
    /\ place = "speaking" => kind = "spoken"
LocksInv ==
    \A a \in Asks :
        /\ Fits(ask[a].kind, ask[a].at)
        /\ Asking(ask[a].at) => chat = {a}
        /\ a \in chat => Asking(ask[a].at)
        /\ Holding(ask[a].kind, ask[a].at) => voice = {a}
        /\ a \in voice => Holding(ask[a].kind, ask[a].at)

AskInv == AskTypeOK /\ SocketsAreShut /\ LocksInv

LEMMA CallStartsClean ==
    /\ NoCall \in CallStates /\ ~NoCall.abandoned
    /\ Started \in CallStates /\ ~Started.abandoned
  BY DEF NoCall, Started, CallStates

LEMMA AskBegins == AskInit => AskInv
  <1> SUFFICES ASSUME AskInit PROVE AskInv
    OBVIOUS
  <1>1. NoCall \in CallStates /\ ~NoCall.abandoned
    BY CallStartsClean
  <1>2. /\ ask \in [Asks -> [kind : Kinds, at : Places]]
        /\ \A a \in Asks : ask[a].kind = "typed" /\ ask[a].at = "new"
    BY DEF AskInit, Kinds, Places
  <1>3. AskTypeOK /\ SocketsAreShut
    BY <1>1, <1>2 DEF AskInit, AskTypeOK, SocketsAreShut
  <1>4. LocksInv
    BY <1>2 DEF AskInit, LocksInv, Fits, Holding, Asking
  <1> QED
    BY <1>3, <1>4 DEF AskInv

(* A worker and its asker, within one call.                                *)
LEMMA CallKeeps ==
    ASSUME AskInv, UNCHANGED <<ask, chat, voice>>, NEW c \in Asks \X Stages, NEW after \in CallStates,
           call' = [call EXCEPT ![c] = after],
           after.abandoned /\ after.socket = "open" => after.shuts \/ after.worker = "late"
    PROVE  AskInv'
  <1>1. AskTypeOK' /\ \A d \in Asks \X Stages : d # c => call'[d] = call[d]
    BY DEF AskInv, AskTypeOK
  <1>2. call'[c] = after
    BY DEF AskInv, AskTypeOK
  <1>3. SocketsAreShut'
    BY <1>1, <1>2 DEF AskInv, SocketsAreShut
  <1>4. LocksInv'
    BY DEF AskInv, LocksInv
  <1> QED
    BY <1>1, <1>3, <1>4 DEF AskInv

LEMMA WorkerKeeps ==
    ASSUME AskInv, NEW c \in Asks \X Stages, Connect(c) \/ ShutLate(c) \/ WorkerEnds(c)
    PROVE  AskInv'
  <1> DEFINE d == call[c]
  <1>1. UNCHANGED <<ask, chat, voice>> /\ d \in CallStates /\ call \in [Asks \X Stages -> CallStates]
    BY DEF Connect, ShutLate, WorkerEnds, AskInv, AskTypeOK
  <1>2. CASE Connect(c)
    <2> DEFINE worker == IF d.abandoned THEN "late" ELSE "open"
               after == [d EXCEPT !.socket = "open", !.worker = worker]
    <2>1. call' = [call EXCEPT ![c] = after]
      BY <1>1, <1>2 DEF Connect
    <2>2. after \in CallStates /\ (after.abandoned => after.worker = "late")
      BY <1>1 DEF CallStates
    <2> HIDE DEF after
    <2> QED
      BY <1>1, <2>1, <2>2, CallKeeps
  <1>3. CASE ShutLate(c)
    <2> DEFINE after == [d EXCEPT !.socket = "shut", !.worker = "open"]
    <2>1. call' = [call EXCEPT ![c] = after]
      BY <1>1, <1>3 DEF ShutLate
    <2>2. after \in CallStates /\ after.socket = "shut"
      BY <1>1 DEF CallStates
    <2> HIDE DEF after
    <2> QED
      BY <1>1, <2>1, <2>2, CallKeeps
  <1>4. CASE WorkerEnds(c)
    <2> DEFINE after == Ended(d)
    <2>1. call' = [call EXCEPT ![c] = after]
      BY <1>4 DEF WorkerEnds
    <2>2. after \in CallStates /\ after.socket = "none"
      <3> DEFINE ab == d.abandoned
                 dn == ~d.abandoned
                 up == d.up
      <3>1. after = [NoCall EXCEPT !.done = dn, !.abandoned = ab, !.up = up]
        BY DEF Ended
      <3>2. ab \in BOOLEAN /\ dn \in BOOLEAN /\ up \in BOOLEAN
        BY <1>1 DEF CallStates
      <3> HIDE DEF ab, dn, up
      <3> QED
        BY <3>1, <3>2 DEF NoCall, CallStates
    <2> HIDE DEF after
    <2> QED
      BY <1>1, <2>1, <2>2, CallKeeps
  <1> QED
    BY <1>2, <1>3, <1>4

LEMMA BudgetKeeps ==
    ASSUME AskInv, NEW a \in Asks, BudgetSpent(a)
    PROVE  AskInv'
  <1> DEFINE c == <<a, ask[a].at>>
             d == call[c]
             after == [d EXCEPT !.up = TRUE]
  <1>1. /\ ask[a].at \in Stages /\ UNCHANGED <<ask, chat, voice>>
        /\ call' = [call EXCEPT ![c].up = TRUE]
    BY DEF BudgetSpent
  <1>2. c \in Asks \X Stages /\ call \in [Asks \X Stages -> CallStates] /\ d \in CallStates
    BY <1>1 DEF AskInv, AskTypeOK
  <1>3. d.abandoned /\ d.socket = "open" => d.shuts \/ d.worker = "late"
    BY <1>2 DEF AskInv, SocketsAreShut
  <1> HIDE DEF c
  <1>4. call' = [call EXCEPT ![c] = after]
    BY <1>1, <1>2
  <1>5. /\ after \in CallStates
        /\ after.abandoned = d.abandoned /\ after.socket = d.socket
        /\ after.shuts = d.shuts /\ after.worker = d.worker
    BY <1>2 DEF CallStates
  <1> HIDE DEF after
  <1> QED
    BY <1>1, <1>2, <1>3, <1>4, <1>5, CallKeeps

LEMMA GiveUpKeeps ==
    ASSUME AskInv, NEW a \in Asks, GiveUp(a)
    PROVE  AskInv'
  <1> DEFINE c == <<a, ask[a].at>>
             d == call[c]
  <1>1. /\ ask[a].at \in Stages /\ UNCHANGED <<ask, chat, voice>>
        /\ \/ call' = [call EXCEPT ![c].abandoned = TRUE, ![c].shuts = (d.socket = "open")]
           \/ call' = [call EXCEPT ![c].shuts = FALSE, ![c].socket = IF d.socket = "open" THEN "shut" ELSE d.socket]
    BY DEF GiveUp
  <1>2. c \in Asks \X Stages /\ call \in [Asks \X Stages -> CallStates] /\ d \in CallStates
    BY <1>1 DEF AskInv, AskTypeOK
  <1> HIDE DEF c
  <1>3. CASE call' = [call EXCEPT ![c].abandoned = TRUE, ![c].shuts = (d.socket = "open")]
    <2> DEFINE shuts == d.socket = "open"
               after == [d EXCEPT !.abandoned = TRUE, !.shuts = shuts]
    <2>1. call' = [call EXCEPT ![c] = after]
      BY <1>2, <1>3
    <2>2. after \in CallStates /\ (after.socket = "open" => after.shuts)
      <3>1. shuts \in BOOLEAN
        OBVIOUS
      <3> QED
        BY <1>2, <3>1 DEF CallStates
    <2> HIDE DEF after
    <2> QED
      BY <1>1, <1>2, <2>1, <2>2, CallKeeps
  <1>4. CASE call' = [call EXCEPT ![c].shuts = FALSE, ![c].socket = IF d.socket = "open" THEN "shut" ELSE d.socket]
    <2> DEFINE socket == IF d.socket = "open" THEN "shut" ELSE d.socket
               after == [d EXCEPT !.shuts = FALSE, !.socket = socket]
    <2>1. call' = [call EXCEPT ![c] = after]
      BY <1>2, <1>4
    <2>2. after \in CallStates /\ after.socket # "open"
      BY <1>2 DEF CallStates
    <2> HIDE DEF after
    <2> QED
      BY <1>1, <1>2, <2>1, <2>2, CallKeeps
  <1> QED
    BY <1>1, <1>3, <1>4

(* A request moves from place to place: into a stage with a call of its    *)
(* own, and with the locks that the place holds.                           *)
Moved(a, kind, place) ==
    /\ kind \in Kinds /\ place \in Places /\ Fits(kind, place)
    /\ ask' = [ask EXCEPT ![a] = [kind |-> kind, at |-> place]]
    /\ IF place \in Stages THEN call' = [call EXCEPT ![<<a, place>>] = Started] ELSE UNCHANGED call
    /\ IF Asking(place) THEN chat \subseteq {a} /\ chat' = {a} ELSE chat' = chat \ {a}
    /\ IF Holding(kind, place) THEN voice \subseteq {a} /\ voice' = {a} ELSE voice' = voice \ {a}

LEMMA MovedKeeps ==
    ASSUME AskInv, NEW a \in Asks, NEW kind, NEW place, Moved(a, kind, place)
    PROVE  AskInv'
  <1>1. /\ kind \in Kinds /\ place \in Places /\ Fits(kind, place)
        /\ ask' = [ask EXCEPT ![a] = [kind |-> kind, at |-> place]]
        /\ IF place \in Stages THEN call' = [call EXCEPT ![<<a, place>>] = Started] ELSE call' = call
        /\ IF Asking(place) THEN chat \subseteq {a} /\ chat' = {a} ELSE chat' = chat \ {a}
        /\ IF Holding(kind, place) THEN voice \subseteq {a} /\ voice' = {a} ELSE voice' = voice \ {a}
    BY DEF Moved
  <1>2. /\ ask'[a].kind = kind /\ ask'[a].at = place /\ \A b \in Asks : b # a => ask'[b] = ask[b]
        /\ ask' \in [Asks -> [kind : Kinds, at : Places]]
    BY <1>1 DEF AskInv, AskTypeOK
  <1>3. /\ call' \in [Asks \X Stages -> CallStates]
        /\ \A c \in Asks \X Stages : call'[c] = call[c] \/ call'[c] = Started
    BY <1>1, CallStartsClean DEF AskInv, AskTypeOK
  <1>4. AskTypeOK'
    BY <1>1, <1>2, <1>3 DEF AskInv, AskTypeOK
  <1>5. SocketsAreShut'
    BY <1>3, CallStartsClean DEF AskInv, SocketsAreShut
  <1>6. LocksInv'
    <2> SUFFICES ASSUME NEW b \in Asks
                 PROVE  /\ Fits(ask'[b].kind, ask'[b].at)
                        /\ Asking(ask'[b].at) => chat' = {b}
                        /\ b \in chat' => Asking(ask'[b].at)
                        /\ Holding(ask'[b].kind, ask'[b].at) => voice' = {b}
                        /\ b \in voice' => Holding(ask'[b].kind, ask'[b].at)
      BY DEF LocksInv, Fits, Holding, Asking
    <2>1. CASE b = a
      BY <1>1, <1>2, <2>1
    <2>2. CASE b # a
      <3>1. /\ Fits(ask[b].kind, ask[b].at)
            /\ Asking(ask[b].at) => chat = {b}
            /\ b \in chat => Asking(ask[b].at)
            /\ Holding(ask[b].kind, ask[b].at) => voice = {b}
            /\ b \in voice => Holding(ask[b].kind, ask[b].at)
        BY DEF AskInv, LocksInv
      <3> QED
        BY <1>1, <1>2, <2>2, <3>1
    <2> QED
      BY <2>1, <2>2
  <1> QED
    BY <1>4, <1>5, <1>6 DEF AskInv

LEMMA GoesIs ==
    ASSUME AskTypeOK, NEW a \in Asks, NEW place, Goes(a, place)
    PROVE  ask' = [ask EXCEPT ![a] = [kind |-> ask[a].kind, at |-> place]] /\ ask[a].kind \in Kinds
  <1> DEFINE r == ask[a]
  <1>1. r \in [kind : Kinds, at : Places]
    BY DEF AskTypeOK
  <1>2. ask' = [ask EXCEPT ![a] = [r EXCEPT !.at = place]]
    BY DEF Goes
  <1> HIDE DEF r
  <1>3. [r EXCEPT !.at = place] = [kind |-> r.kind, at |-> place] /\ r.kind \in Kinds
    BY <1>1
  <1>4. ask' = [ask EXCEPT ![a] = [kind |-> r.kind, at |-> place]]
    BY <1>2, <1>3
  <1> QED
    BY <1>3, <1>4 DEF r

(* What a request that is at no stage holds.                               *)
LEMMA Holds ==
    ASSUME AskInv, NEW a \in Asks
    PROVE  /\ Fits(ask[a].kind, ask[a].at) /\ ask[a].kind \in Kinds
           /\ IF Asking(ask[a].at) THEN chat = {a} ELSE chat \ {a} = chat
           /\ IF Holding(ask[a].kind, ask[a].at) THEN voice = {a} ELSE voice \ {a} = voice
  <1>1. ask[a] \in [kind : Kinds, at : Places]
    BY DEF AskInv, AskTypeOK
  <1>2. /\ Fits(ask[a].kind, ask[a].at)
        /\ IF Asking(ask[a].at) THEN chat = {a} ELSE a \notin chat
        /\ IF Holding(ask[a].kind, ask[a].at) THEN voice = {a} ELSE a \notin voice
    BY DEF AskInv, LocksInv
  <1> QED
    BY <1>1, <1>2

(* A request ends, and lets go of what it held.                            *)
LEMMA EndsKeeps ==
    ASSUME AskInv, UNCHANGED call, NEW a \in Asks, NEW place \in Places \ (Stages \cup {"reading"}), Goes(a, place),
           place = "at chat" => ask[a].kind = "typed", place = "at voice" => ask[a].kind # "typed",
           chat' = chat \ {a}, voice' = voice \ {a}
    PROVE  AskInv'
  <1>1. ask' = [ask EXCEPT ![a] = [kind |-> ask[a].kind, at |-> place]] /\ ask[a].kind \in Kinds
    BY GoesIs DEF AskInv
  <1>2. Moved(a, ask[a].kind, place)
    BY <1>1 DEF Moved, Fits, Holding, Asking, Stages
  <1> QED
    BY <1>2, MovedKeeps

(* A spoken question is read its answer.                                   *)
LEMMA ReadAloudKeeps ==
    ASSUME AskInv, NEW a \in Asks, ask[a].kind = "spoken", ask[a].at \in {"hearing", "asking", "reading"},
           Goes(a, "speaking"), call' = [call EXCEPT ![<<a, "speaking">>] = Started],
           chat' = chat \ {a}, UNCHANGED voice
    PROVE  AskInv'
  <1>1. ask' = [ask EXCEPT ![a] = [kind |-> ask[a].kind, at |-> "speaking"]] /\ ask[a].kind \in Kinds
    BY GoesIs DEF AskInv
  <1>2. voice = {a}
    BY Holds DEF Holding, Asking
  <1>3. Moved(a, ask[a].kind, "speaking")
    BY <1>1, <1>2 DEF Moved, Fits, Holding, Asking, Stages, Places
  <1> QED
    BY <1>3, MovedKeeps

LEMMA AnswersKeeps ==
    ASSUME AskInv, NEW a \in Asks, NEW kind \in Places \ (Stages \cup {"at chat", "at voice", "reading"}),
           Answers(a, kind), ask[a].kind = "spoken" => ask[a].at \in {"hearing", "asking", "reading"},
           ask[a].kind # "spoken" => voice \ {a} = voice, chat' = chat \ {a}, UNCHANGED voice
    PROVE  AskInv'
  <1>1. CASE ask[a].kind = "spoken"
    BY <1>1, ReadAloudKeeps DEF Answers
  <1>2. CASE ask[a].kind # "spoken"
    BY <1>2, EndsKeeps DEF Answers
  <1> QED
    BY <1>1, <1>2

LEMMA AskChatKeeps ==
    ASSUME AskInv, NEW a \in Asks, AskChat(a), UNCHANGED voice,
           \/ At(a, "at chat")
           \/ At(a, "hearing") /\ ask[a].kind = "spoken"
    PROVE  AskInv'
  <1>1. /\ Fits(ask[a].kind, ask[a].at) /\ ask[a].kind \in Kinds /\ chat \ {a} = chat
        /\ IF At(a, "hearing") THEN voice = {a} ELSE ask[a].kind = "typed" /\ voice \ {a} = voice
    BY Holds DEF At, Fits, Holding, Asking
  <1>2. CASE \E kind \in {"refused", "busy", "limited"} : Answers(a, kind) /\ UNCHANGED chat
    <2>1. PICK kind \in {"refused", "busy", "limited"} : Answers(a, kind) /\ UNCHANGED chat
      BY <1>2
    <2>2. kind \in Places \ (Stages \cup {"at chat", "at voice", "reading"})
      BY DEF Places, Stages
    <2> QED
      BY <1>1, <2>1, <2>2, AnswersKeeps DEF At
  <1>3. CASE /\ chat = {} /\ chat' = {a} /\ Goes(a, "asking")
             /\ call' = [call EXCEPT ![<<a, "asking">>] = Started]
    <2>1. ask' = [ask EXCEPT ![a] = [kind |-> ask[a].kind, at |-> "asking"]]
      BY <1>3, GoesIs DEF AskInv
    <2>2. Moved(a, ask[a].kind, "asking")
      BY <1>1, <1>3, <2>1 DEF Moved, Fits, Holding, Asking, Stages, Places, At
    <2> QED
      BY <2>2, MovedKeeps
  <1> QED
    BY <1>2, <1>3 DEF AskChat

LEMMA ArriveKeeps ==
    ASSUME AskInv, NEW a \in Asks, Arrive(a)
    PROVE  AskInv'
  <1>1. At(a, "new") /\ UNCHANGED <<call, chat, voice>>
    BY DEF Arrive
  <1>2. chat \ {a} = chat /\ voice \ {a} = voice
    BY <1>1, Holds DEF At, Holding, Asking
  <1>3. PICK kind \in Kinds, place \in Places \ (Stages \cup {"reading"}) :
           /\ ask' = [ask EXCEPT ![a] = [kind |-> kind, at |-> place]]
           /\ IF kind = "typed" THEN place = "at chat" ELSE place # "at chat"
    <2>1. \A r \in Recordings : CheckRecording(r) = "fine" \/ CheckRecording(r) \in Refusals
      BY DEF CheckRecording, Refusals
    <2>2. CASE ask' = [ask EXCEPT ![a] = [kind |-> "typed", at |-> "at chat"]]
      <3>1. "typed" \in Kinds /\ "at chat" \in Places \ (Stages \cup {"reading"})
        BY DEF Kinds, Places, Stages
      <3> QED
        BY <2>2, <3>1
    <2>3. CASE \E kind \in {"spoken", "note"}, place \in Refusals \cup {"limited", "at voice"} :
                  ask' = [ask EXCEPT ![a] = [kind |-> kind, at |-> place]]
      <3>1. PICK kind \in {"spoken", "note"}, place \in Refusals \cup {"limited", "at voice"} :
               ask' = [ask EXCEPT ![a] = [kind |-> kind, at |-> place]]
        BY <2>3
      <3>2. kind \in Kinds /\ kind # "typed" /\ place \in Places \ (Stages \cup {"reading"}) /\ place # "at chat"
        BY DEF Kinds, Places, Stages, Refusals
      <3> QED
        BY <3>1, <3>2
    <2>4. ASSUME NEW kind \in {"spoken", "note"}, NEW r \in Recordings,
                 ask' = [ask EXCEPT ![a] = [kind |-> kind, at |->
                           IF CheckRecording(r) # "fine" THEN CheckRecording(r)
                           ELSE IF kind = "spoken" /\ Full(taken, QuestionsPerHour) THEN "limited" ELSE "at voice"]]
          PROVE  \E place \in Refusals \cup {"limited", "at voice"} :
                    ask' = [ask EXCEPT ![a] = [kind |-> kind, at |-> place]]
      BY <2>1, <2>4
    <2> QED
      BY <2>2, <2>3, <2>4 DEF Arrive
  <1>4. Moved(a, kind, place)
    BY <1>1, <1>2, <1>3 DEF Moved, Fits, Holding, Asking, Stages
  <1> QED
    BY <1>4, MovedKeeps

LEMMA ListenKeeps ==
    ASSUME AskInv, UNCHANGED chat, NEW a \in Asks, At(a, "at voice"), voice = {}, Listen(a)
    PROVE  AskInv'
  <1>1. /\ voice' = {a} /\ Goes(a, "hearing")
        /\ call' = [call EXCEPT ![<<a, "hearing">>] = Started]
    BY DEF Listen
  <1>2. ask' = [ask EXCEPT ![a] = [kind |-> ask[a].kind, at |-> "hearing"]]
    BY <1>1, GoesIs DEF AskInv
  <1>3. ask[a].kind \in Kinds /\ ask[a].kind # "typed" /\ chat \ {a} = chat
    BY Holds DEF At, Fits, Asking
  <1>4. Moved(a, ask[a].kind, "hearing")
    BY <1>1, <1>2, <1>3 DEF Moved, Fits, Holding, Asking, Stages, Places
  <1> QED
    BY <1>4, MovedKeeps

LEMMA VoiceKeeps ==
    ASSUME AskInv, NEW a \in Asks, VoiceBusy(a) \/ RecordQuestion(a) \/ RecordNote(a)
    PROVE  AskInv'
  <1>1. At(a, "at voice") /\ UNCHANGED chat
    BY DEF VoiceBusy, RecordQuestion, RecordNote
  <1>2. CASE voice = {} /\ Listen(a)
    BY <1>1, <1>2, ListenKeeps
  <1>3. CASE \E place \in {"busy", "limited"} : Goes(a, place) /\ UNCHANGED <<call, voice>>
    <2>1. PICK place \in {"busy", "limited"} : Goes(a, place) /\ UNCHANGED <<call, voice>>
      BY <1>3
    <2>2. place \in Places \ (Stages \cup {"reading"})
      BY DEF Places, Stages
    <2>3. chat \ {a} = chat /\ voice \ {a} = voice
      BY <1>1, Holds DEF At, Holding, Asking
    <2> QED
      BY <1>1, <2>1, <2>2, <2>3, EndsKeeps
  <1> QED
    BY <1>2, <1>3 DEF VoiceBusy, RecordQuestion, RecordNote

LEMMA HeardKeeps ==
    ASSUME AskInv, NEW a \in Asks, Heard(a) \/ Spoken(a)
    PROVE  AskInv'
  <1>1. ask[a].at \in {"hearing", "speaking"}
    BY DEF Heard, Spoken, At
  <1>2. voice = {a} /\ chat \ {a} = chat
    BY <1>1, Holds DEF At, Holding, Asking
  <1>3. CASE \E place \in {"not heard", "heard", "text only", "spoken"} :
                Goes(a, place) /\ voice' = {} /\ UNCHANGED <<call, chat>>
    <2>1. PICK place \in {"not heard", "heard", "text only", "spoken"} :
             Goes(a, place) /\ voice' = {} /\ UNCHANGED <<call, chat>>
      BY <1>3
    <2>2. place \in Places \ (Stages \cup {"reading"})
      BY DEF Places, Stages
    <2> QED
      BY <1>2, <2>1, <2>2, EndsKeeps
  <1>4. CASE At(a, "hearing") /\ ask[a].kind = "spoken" /\ AskChat(a) /\ UNCHANGED voice
    BY <1>4, AskChatKeeps
  <1> QED
    BY <1>3, <1>4 DEF Heard, Spoken

LEMMA ReplyKeeps ==
    ASSUME AskInv, NEW a \in Asks, NotAnswered(a) \/ ReplyInTime(a) \/ Answered(a)
    PROVE  AskInv'
  <1>1. ask[a].at \in {"asking", "reading"} /\ UNCHANGED voice
    BY DEF NotAnswered, ReplyInTime, Answered, At
  <1>2. /\ chat = {a} /\ ask[a].kind \in Kinds
        /\ IF ask[a].kind = "spoken" THEN voice = {a} ELSE voice \ {a} = voice
    BY <1>1, Holds DEF Holding, Asking
  <1>3. CASE ReplyInTime(a)
    <2>1. Goes(a, "reading") /\ UNCHANGED <<call, chat>>
      BY <1>3 DEF ReplyInTime
    <2>2. ask' = [ask EXCEPT ![a] = [kind |-> ask[a].kind, at |-> "reading"]]
      BY <2>1, GoesIs DEF AskInv
    <2>3. Moved(a, ask[a].kind, "reading")
      BY <1>1, <1>2, <2>1, <2>2 DEF Moved, Fits, Holding, Asking, Stages, Places
    <2> QED
      BY <2>3, MovedKeeps
  <1>4. CASE \E kind \in {"unavailable", "refused", "asks back", "answer"} : Answers(a, kind) /\ chat' = {}
    <2>1. PICK kind \in {"unavailable", "refused", "asks back", "answer"} : Answers(a, kind) /\ chat' = {}
      BY <1>4
    <2>2. kind \in Places \ (Stages \cup {"at chat", "at voice", "reading"})
      BY DEF Places, Stages
    <2>3. chat' = chat \ {a}
      BY <1>2, <2>1
    <2> QED
      BY <1>1, <1>2, <2>1, <2>2, <2>3, AnswersKeeps
  <1>5. \A reply \in Replies, follow \in BOOLEAN : Kind(reply, follow) \in {"refused", "asks back", "answer"}
    BY DEF Replies, Kind
  <1> QED
    BY <1>3, <1>4, <1>5 DEF NotAnswered, Answered

LEMMA AskStep == AskInv /\ [AskNext]_<<clock, askVars>> => AskInv'
  <1> SUFFICES ASSUME AskInv, [AskNext]_<<clock, askVars>> PROVE AskInv'
    OBVIOUS
  <1>1. CASE \E c \in Asks \X Stages : Connect(c) \/ ShutLate(c) \/ WorkerEnds(c)
    BY <1>1, WorkerKeeps
  <1>2. CASE \E a \in Asks : Arrive(a) \/ VoiceBusy(a) \/ RecordQuestion(a) \/ RecordNote(a)
    BY <1>2, ArriveKeeps, VoiceKeeps
  <1>3. CASE \E a \in Asks : BudgetSpent(a) \/ GiveUp(a) \/ Heard(a) \/ Spoken(a)
    BY <1>3, BudgetKeeps, GiveUpKeeps, HeardKeeps
  <1>4. CASE \E a \in Asks : NotAnswered(a) \/ ReplyInTime(a) \/ Answered(a)
    BY <1>4, ReplyKeeps
  <1>5. CASE \E a \in Asks : Type(a)
    BY <1>5, AskChatKeeps DEF Type
  <1>6. CASE UNCHANGED askVars
    BY <1>6 DEF askVars, AskInv, AskTypeOK, SocketsAreShut, LocksInv
  <1> QED
    BY <1>1, <1>2, <1>3, <1>4, <1>5, <1>6 DEF AskNext, Asker

(* One question at a time and one recording at a time, from the first lock *)
(* to the last step of the answer, whoever is refused, given up on or late *)
(* (chat/service.py, voice.py).                                            *)
THEOREM QuestionsStayOneAtATime == AskSpec => []OneAtATime
  <1>1. AskInv => OneAtATime
    <2> SUFFICES ASSUME AskInv PROVE OneAtATime
      OBVIOUS
    <2>1. chat = {a \in Asks : ask[a].at \in {"asking", "reading"}}
      BY DEF AskInv, AskTypeOK, LocksInv, Asking
    <2>2. voice = {a \in Asks : \/ ask[a].at \in {"hearing", "speaking"}
                                \/ ask[a].kind = "spoken" /\ ask[a].at \in {"asking", "reading"}}
      BY DEF AskInv, AskTypeOK, LocksInv, Asking, Holding
    <2>3. ASSUME NEW holders, \A a \in holders : holders = {a} PROVE Cardinality(holders) =< 1
      <3>1. holders = {} \/ \E a : holders = {a}
        BY <2>3
      <3> QED
        BY <3>1, FS_EmptySet, FS_Singleton
    <2>4. \A a \in chat : chat = {a}
      BY DEF AskInv, AskTypeOK, LocksInv
    <2>5. \A a \in voice : voice = {a}
      BY DEF AskInv, AskTypeOK, LocksInv
    <2> QED
      BY <2>1, <2>2, <2>3, <2>4, <2>5 DEF OneAtATime
  <1> QED
    BY <1>1, AskBegins, AskStep, PTL DEF AskSpec

(* However a connection, an answer and the end of a budget race, a call    *)
(* that was given up leaves no open socket that nobody will shut           *)
(* (chat/llm.py and voice.py, _Call).                                      *)
THEOREM SocketsAreAlwaysShut == AskSpec => []SocketsAreShut
  <1>1. AskInv => SocketsAreShut
    BY DEF AskInv
  <1> QED
    BY <1>1, AskBegins, AskStep, PTL DEF AskSpec

-----------------------------------------------------------------------------
(* The import of costs, for any calls, settings and order of writing.      *)

(* A range in which a call is still to be read.                            *)
InRange(c, r) == r.lo <= c.start /\ (r.hi = Never \/ c.start < r.hi)
Awaits(c) == \E i \in DOMAIN pass.left : InRange(c, pass.left[i]) /\ (i = 1 => After(c, pass.from))

Ranges == [lo : Int, hi : Int]
CostTypeOK ==
    /\ clock \in Nat /\ written \in [Calls -> {Never} \cup 0..clock]
    /\ \A r \in stored : r.call \in Log /\ r = PriceCall(r.call)
    /\ imported \in [ok : {Never} \cup 0..clock, reconciled : {Never} \cup 0..clock]
    /\ pass \in [at : {"idle", "reading", "days", "done"}, now : 0..clock, left : Seq(Ranges),
                 from : Int \X Int, new : BOOLEAN]
    /\ \A c \in Log : c.start <= written[c]
PassInTime == pass.at # "idle" => clock <= pass.now + PassTime
PassGoesOn ==
    /\ pass.at \in {"idle", "done"} => pass.left = <<>>
    /\ pass.at = "reading" => Len(pass.left) <= 1

(* A call that was stored says that all prompt ones from before its        *)
(* overlap are; what a pass has read or is still to read; what the time of *)
(* the last success, and of the last daily check, vouch for.               *)
NoneSkipped == \A n \in Have, c \in Log : Prompt(c) /\ c.start < n.start - Overlap => c \in Have
AllRead(t) == \A c \in Log : Prompt(c) /\ written[c] < t => c \in Have
DaysRead(t) == \A c \in Log : written[c] < t /\ DayOf(c.start) >= DayOf(t) - ReconcileDays => c \in Have
PassReads ==
    /\ pass.at = "reading" => \A c \in Log : Prompt(c) /\ written[c] < pass.now => c \in Have \/ Awaits(c)
    /\ pass.at \in {"days", "done"} => AllRead(pass.now)
    /\ pass.at = "days" => \A c \in Log : written[c] < pass.now /\ DayOf(c.start) >= DayOf(pass.now) - ReconcileDays
                                          => c \in Have \/ Awaits(c)
CostInv ==
    /\ CostTypeOK /\ PassInTime /\ PassGoesOn /\ NoneSkipped /\ PassReads
    /\ AllRead(imported.ok) /\ DaysRead(imported.reconciled)

LEMMA CallFields ==
    ASSUME NEW c \in Calls
    PROVE  /\ c.start \in Nat /\ c.id \in Nat \ {0} /\ c.tokens \in Nat /\ c.spend \in Nat
           /\ PriceCall(c).call = c /\ PriceCall(c).cost \in Nat
           /\ Key(c) = <<c.start, c.id>> /\ DayOf(c.start) \in Int
           /\ DayOf(c.start) * Day <= c.start /\ c.start < (DayOf(c.start) + 1) * Day
  <1>1. c.start \in Nat /\ c.id \in Nat \ {0} /\ c.tokens \in Nat /\ c.spend \in Nat
    BY CallsAssumption
  <1>2. PriceCall(c).call = c
    BY DEF PriceCall
  <1>3. c.model \in DOMAIN Prices => Prices[c.model] \in Nat
    BY CallsAssumption
  <1>4. PriceCall(c).cost \in {c.spend, 0} \/ (c.model \in DOMAIN Prices /\ PriceCall(c).cost = c.tokens * Prices[c.model])
    BY DEF PriceCall
  <1>5. c.model \in DOMAIN Prices => c.tokens * Prices[c.model] \in Nat
    BY <1>1, <1>3
  <1>6. PriceCall(c).cost \in Nat
    BY <1>1, <1>4, <1>5
  <1> DEFINE a == c.start
  <1>7. a \in Nat /\ Day \in Nat \ {0}
    BY <1>1, ImportAssumption
  <1> HIDE DEF a
  <1>8. a \div Day \in Int /\ (a \div Day) * Day <= a /\ a < (a \div Day + 1) * Day
    BY <1>7, Z3
  <1> QED
    BY <1>1, <1>2, <1>6, <1>8 DEF Key, DayOf, a

LEMMA AfterKey ==
    ASSUME NEW c \in Calls, NEW d \in Calls
    PROVE  After(c, Key(d)) <=> c.start > d.start \/ (c.start = d.start /\ c.id > d.id)
  BY DEF After, Key

LEMMA PartOfCalls ==
    ASSUME NEW U, U \subseteq Calls
    PROVE  IsFiniteSet(U) /\ Cardinality(U) \in Nat
  BY CallsAssumption, FS_Subset, FS_CardinalityType

-----------------------------------------------------------------------------
(* Pages: the first so many of a set of calls, by start and id.            *)

Place(U, c) == Cardinality({d \in U : After(c, Key(d))})
FirstOf(U, n) == {c \in U : Place(U, c) < n}

LEMMA PlaceType ==
    ASSUME NEW U, U \subseteq Calls, NEW c
    PROVE  Place(U, c) \in Nat
  <1>1. {d \in U : After(c, Key(d))} \subseteq Calls
    OBVIOUS
  <1> QED
    BY <1>1, PartOfCalls DEF Place

LEMMA PlaceOrder ==
    ASSUME NEW U, U \subseteq Calls, NEW c \in U, NEW d \in U
    PROVE  /\ Place(U, c) \in 0..Cardinality(U) /\ Cardinality(U) \in Nat
           /\ After(c, Key(d)) => Place(U, d) < Place(U, c)
           /\ ~After(c, Key(d)) => Place(U, c) <= Place(U, d)
  <1> DEFINE before(x) == {y \in U : After(x, Key(y))}
  <1>1. \A x : before(x) \subseteq U /\ IsFiniteSet(before(x)) /\ Cardinality(before(x)) \in Nat
    BY PartOfCalls
  <1>2. Cardinality(before(c)) <= Cardinality(U) /\ Cardinality(U) \in Nat
    BY <1>1, PartOfCalls, FS_Subset
  <1>3. /\ c.start \in Nat /\ c.id \in Nat /\ d.start \in Nat /\ d.id \in Nat
        /\ \A y \in U : y.start \in Nat /\ y.id \in Nat
    BY CallFields
  <1>4. ASSUME After(c, Key(d)) PROVE Cardinality(before(d)) < Cardinality(before(c))
    <2>1. c.start > d.start \/ (c.start = d.start /\ c.id > d.id)
      BY <1>4, AfterKey
    <2>2. ASSUME NEW y \in before(d) PROVE y \in before(c)
      <3>1. d.start > y.start \/ (d.start = y.start /\ d.id > y.id)
        BY AfterKey
      <3>2. c.start > y.start \/ (c.start = y.start /\ c.id > y.id)
        BY <1>3, <2>1, <3>1
      <3> QED
        BY <3>2, AfterKey
    <2>3. d \in before(c) /\ d \notin before(d)
      <3>1. ~(d.start > d.start \/ (d.start = d.start /\ d.id > d.id))
        BY <1>3
      <3> QED
        BY <1>4, <3>1, AfterKey
    <2> HIDE DEF before
    <2>4. Cardinality(before(d)) <= Cardinality(before(c)) /\ Cardinality(before(d)) # Cardinality(before(c))
      BY <1>1, <2>2, <2>3, FS_Subset
    <2> QED
      BY <1>1, <2>4
  <1>5. ASSUME ~After(c, Key(d)) PROVE Cardinality(before(c)) <= Cardinality(before(d))
    <2>1. ~(c.start > d.start \/ (c.start = d.start /\ c.id > d.id))
      BY <1>5, AfterKey
    <2>2. ASSUME NEW y \in before(c) PROVE y \in before(d)
      <3>1. c.start > y.start \/ (c.start = y.start /\ c.id > y.id)
        BY AfterKey
      <3>2. d.start > y.start \/ (d.start = y.start /\ d.id > y.id)
        BY <1>3, <2>1, <3>1
      <3> QED
        BY <3>2, AfterKey
    <2> HIDE DEF before
    <2> QED
      BY <1>1, <2>2, FS_Subset
  <1> QED
    BY <1>1, <1>2, <1>4, <1>5 DEF Place

(* A page that is not full holds all there is.                             *)
LEMMA ShortPage ==
    ASSUME NEW U, U \subseteq Calls, NEW n \in Nat, Cardinality(FirstOf(U, n)) < n
    PROVE  FirstOf(U, n) = U
  <1> SUFFICES ASSUME U \ FirstOf(U, n) # {} PROVE FALSE
    BY DEF FirstOf
  <1> DEFINE rest == U \ FirstOf(U, n)
             T == {Place(U, c) : c \in rest}
  <1>1. T \subseteq Nat /\ T # {}
    BY PlaceType
  <1>2. PICK m \in T : \A y \in T : m <= y
    <2> HIDE DEF T
    <2> QED
      BY <1>1, LeastNat
  <1>3. PICK c \in rest : m = Place(U, c)
    BY <1>2
  <1>4. Place(U, c) >= n /\ Place(U, c) \in Nat
    <2>1. Place(U, c) \in Nat /\ c \in U /\ ~(Place(U, c) < n)
      BY PlaceType DEF FirstOf
    <2> QED
      BY <2>1
  <1> DEFINE before == {d \in U : After(c, Key(d))}
  <1>5. ASSUME NEW d \in before PROVE d \in FirstOf(U, n)
    <2>0. c \in U /\ d \in U /\ After(c, Key(d))
      OBVIOUS
    <2>1. Place(U, d) < Place(U, c) /\ Place(U, d) \in Nat
      BY <2>0, PlaceOrder, PlaceType
    <2>2. Place(U, d) \notin T
      BY <1>1, <1>2, <1>3, <2>1
    <2> QED
      BY <2>2
  <1>6. Cardinality(before) <= Cardinality(FirstOf(U, n))
    <2>1. IsFiniteSet(FirstOf(U, n))
      BY PartOfCalls DEF FirstOf
    <2>2. before \subseteq FirstOf(U, n)
      BY <1>5
    <2> HIDE DEF before
    <2> QED
      BY <2>1, <2>2, FS_Subset
  <1>7. Cardinality(FirstOf(U, n)) \in Nat
    BY PartOfCalls DEF FirstOf
  <1>8. Cardinality(before) = Place(U, c)
    BY DEF Place
  <1> HIDE DEF before
  <1> QED
    BY <1>4, <1>6, <1>7, <1>8

(* A page has a last call.                                                 *)
LEMMA LastOfPage ==
    ASSUME NEW U, U \subseteq Calls, NEW n \in Nat, FirstOf(U, n) # {}
    PROVE  \E x \in FirstOf(U, n) : \A c \in FirstOf(U, n) : ~After(c, Key(x))
  <1> DEFINE P == FirstOf(U, n)
             T == {Place(U, c) : c \in P}
             m == Cardinality(U)
  <1>1. m \in Nat /\ T \subseteq 0..m /\ T # {}
    <2>1. P \subseteq U
      BY DEF FirstOf
    <2>2. \A c \in P : Place(U, c) \in 0..m
      BY <2>1, PlaceOrder
    <2>3. m \in Nat
      BY PartOfCalls
    <2> HIDE DEF P, m
    <2> QED
      BY <2>2, <2>3 DEF P
  <1> DEFINE top == Max(T)
  <1>2. top \in T /\ \A y \in T : y <= top
    <2> HIDE DEF T, m
    <2> QED
      BY <1>1, MaxIs
  <1> HIDE DEF top
  <1>3. PICK x \in P : top = Place(U, x)
    BY <1>2
  <1>4. ASSUME NEW c \in P, After(c, Key(x)) PROVE FALSE
    <2>1. c \in U /\ x \in U
      BY DEF FirstOf
    <2>2. Place(U, x) < Place(U, c) /\ Place(U, x) \in Nat /\ Place(U, c) \in Nat
      BY <1>4, <2>1, PlaceOrder
    <2>3. Place(U, c) <= Place(U, x)
      BY <1>2, <1>3
    <2> QED
      BY <2>2, <2>3
  <1> QED
    BY <1>3, <1>4

(* What comes before a call of a page is on it, and what is not comes      *)
(* after each call of it.                                                  *)
LEMMA PageInOrder ==
    ASSUME NEW U, U \subseteq Calls, NEW n \in Nat, NEW x \in FirstOf(U, n), NEW c \in U \ FirstOf(U, n)
    PROVE  After(c, Key(x))
  <1>1. Place(U, x) < n /\ ~(Place(U, c) < n) /\ x \in U
    BY DEF FirstOf
  <1>2. Place(U, x) \in Nat /\ Place(U, c) \in Nat
    BY <1>1, PlaceOrder
  <1>3. ~(Place(U, c) <= Place(U, x))
    BY <1>1, <1>2
  <1> QED
    BY <1>1, <1>3, PlaceOrder

-----------------------------------------------------------------------------
(* The steps.  None but Write changes the log, and what is stored stays.   *)

LEMMA ImportFields ==
    ASSUME CostInv
    PROVE  /\ clock \in Nat /\ pass.now \in 0..clock /\ pass.left \in Seq(Ranges) /\ pass.from \in Int \X Int
           /\ pass.at \in {"idle", "reading", "days", "done"} /\ pass.new \in BOOLEAN
           /\ Log \subseteq Calls /\ Have \subseteq Log
           /\ \A c \in Log : c.start \in Nat /\ c.start <= written[c] /\ written[c] \in 0..clock
           /\ \A c \in Calls : written[c] \in Int
           /\ imported.ok \in {Never} \cup 0..clock /\ imported.reconciled \in {Never} \cup 0..clock
           /\ {Batch, Day, Stale} \subseteq Nat \ {0}
           /\ {Overlap, ReconcileEvery, ReconcileDays, Late, PassTime} \subseteq Nat
           /\ Late + PassTime <= Overlap /\ Never = -1
  <1>1. CostTypeOK
    BY DEF CostInv
  <1>2. /\ clock \in Nat /\ pass.now \in 0..clock /\ pass.left \in Seq(Ranges) /\ pass.from \in Int \X Int
        /\ pass.at \in {"idle", "reading", "days", "done"} /\ pass.new \in BOOLEAN
    BY <1>1 DEF CostTypeOK
  <1>3. Log \subseteq Calls /\ Have \subseteq Log
    BY <1>1 DEF CostTypeOK, Log, Have
  <1>4. \A c \in Calls : written[c] \in {Never} \cup 0..clock
    BY <1>1 DEF CostTypeOK
  <1>5. \A c \in Log : c \in Calls /\ written[c] # Never /\ c.start <= written[c]
    BY <1>1 DEF CostTypeOK, Log
  <1>6. \A c \in Calls : written[c] \in Int
    BY <1>2, <1>4 DEF Never
  <1>7. \A c \in Log : c.start \in Nat
    BY <1>5, CallFields
  <1>8. imported.ok \in {Never} \cup 0..clock /\ imported.reconciled \in {Never} \cup 0..clock
    BY <1>1 DEF CostTypeOK
  <1> QED
    BY <1>2, <1>3, <1>4, <1>5, <1>6, <1>7, <1>8, ImportAssumption DEF Never

(* A step that writes no row to the log and stores no call.                *)
LogAndStoreStay == written' = written /\ stored' = stored /\ clock' = clock

LEMMA TypeStays ==
    ASSUME CostInv, LogAndStoreStay,
           imported' \in [ok : {Never} \cup 0..clock, reconciled : {Never} \cup 0..clock],
           pass' \in [at : {"idle", "reading", "days", "done"}, now : 0..clock, left : Seq(Ranges),
                      from : Int \X Int, new : BOOLEAN]
    PROVE  CostTypeOK' /\ NoneSkipped' /\ Log' = Log /\ Have' = Have
  BY DEF CostInv, CostTypeOK, LogAndStoreStay, Log, Have, NoneSkipped, Prompt

(* Turning to the next stage keeps the pass and its time.                  *)
LEMMA TurnsTo ==
    ASSUME CostInv, NEW stage \in {"idle", "reading", "days", "done"}, NEW left \in Seq(Ranges), Turns(stage, left)
    PROVE  /\ pass' \in [at : {"idle", "reading", "days", "done"}, now : 0..clock, left : Seq(Ranges),
                         from : Int \X Int, new : BOOLEAN]
           /\ pass'.at = stage /\ pass'.left = left /\ pass'.now = pass.now /\ pass'.from = FirstKey(left)
  <1>1. pass \in [at : {"idle", "reading", "days", "done"}, now : 0..clock, left : Seq(Ranges),
                  from : Int \X Int, new : BOOLEAN]
    BY DEF CostInv, CostTypeOK
  <1>2. FirstKey(left) \in Int \X Int
    <2>1. CASE left = <<>>
      BY <2>1 DEF FirstKey
    <2>2. CASE left # <<>>
      <3>1. Head(left) \in Ranges
        BY <2>2, HeadTailProperties
      <3> QED
        BY <2>2, <3>1 DEF FirstKey, Ranges
    <2> QED
      BY <2>1, <2>2
  <1>3. pass' = [pass EXCEPT !.at = stage, !.left = left, !.from = FirstKey(left)]
    BY DEF Turns
  <1> HIDE DEF Turns
  <1> QED
    BY <1>1, <1>2, <1>3

LEMMA NoneLeft ==
    ASSUME pass.left = <<>>
    PROVE  \A c : ~Awaits(c)
  BY DEF Awaits

LEMMA GivenUpKeeps == CostInv /\ GiveUpPass /\ UNCHANGED clock => CostInv'
  <1> SUFFICES ASSUME CostInv, GiveUpPass, UNCHANGED clock PROVE CostInv'
    OBVIOUS
  <1>1. LogAndStoreStay /\ imported' = imported /\ Turns("idle", <<>>)
    BY DEF GiveUpPass, LogAndStoreStay
  <1>2. <<>> \in Seq(Ranges)
    OBVIOUS
  <1>3. /\ pass' \in [at : {"idle", "reading", "days", "done"}, now : 0..clock, left : Seq(Ranges),
                      from : Int \X Int, new : BOOLEAN]
        /\ pass'.at = "idle" /\ pass'.left = <<>>
    BY <1>1, <1>2, TurnsTo
  <1>4. imported' \in [ok : {Never} \cup 0..clock, reconciled : {Never} \cup 0..clock]
    BY <1>1 DEF CostInv, CostTypeOK
  <1>5. CostTypeOK' /\ NoneSkipped' /\ Log' = Log /\ Have' = Have
    BY <1>1, <1>3, <1>4, TypeStays
  <1>6. PassInTime' /\ PassGoesOn' /\ PassReads'
    BY <1>3 DEF PassInTime, PassGoesOn, PassReads
  <1>7. AllRead(imported.ok)' /\ DaysRead(imported.reconciled)'
    BY <1>1, <1>5 DEF CostInv, AllRead, DaysRead, LogAndStoreStay, Prompt
  <1> QED
    BY <1>5, <1>6, <1>7 DEF CostInv

LEMMA ClockKeeps ==
    CostInv /\ Tick /\ (pass.at = "idle" \/ clock < pass.now + PassTime) /\ UNCHANGED costVars => CostInv'
  <1> SUFFICES ASSUME CostInv, Tick, pass.at = "idle" \/ clock < pass.now + PassTime, UNCHANGED costVars PROVE CostInv'
    OBVIOUS
  <1>1. /\ written' = written /\ stored' = stored /\ imported' = imported /\ pass' = pass
        /\ clock' = clock + 1 /\ clock \in Nat
    BY ImportFields DEF costVars, Tick
  <1>2. Log' = Log /\ Have' = Have
    BY <1>1 DEF Log, Have
  <1>3. 0..clock \subseteq 0..clock' /\ clock' \in Nat
    BY <1>1
  <1>4. CostTypeOK'
    <2>1. /\ written \in [Calls -> {Never} \cup 0..clock']
      BY <1>3 DEF CostInv, CostTypeOK
    <2>2. imported \in [ok : {Never} \cup 0..clock', reconciled : {Never} \cup 0..clock']
      BY <1>3 DEF CostInv, CostTypeOK
    <2>3. pass \in [at : {"idle", "reading", "days", "done"}, now : 0..clock', left : Seq(Ranges),
                    from : Int \X Int, new : BOOLEAN]
      BY <1>3 DEF CostInv, CostTypeOK
    <2> QED
      BY <1>1, <1>2, <1>3, <2>1, <2>2, <2>3 DEF CostInv, CostTypeOK
  <1>5. PassInTime'
    <2>1. pass.now \in Int /\ PassTime \in Int
      BY ImportFields
    <2> QED
      BY <1>1, <2>1 DEF PassInTime
  <1>6. PassGoesOn' /\ NoneSkipped' /\ PassReads' /\ AllRead(imported.ok)' /\ DaysRead(imported.reconciled)'
    BY <1>1, <1>2 DEF CostInv, PassGoesOn, NoneSkipped, PassReads, AllRead, DaysRead, Prompt, Awaits
  <1> QED
    BY <1>4, <1>5, <1>6 DEF CostInv

(* A row written to the log now is later than any time a pass vouches for, *)
(* and if it is prompt it is within the overlap of every stored call.      *)
LEMMA WriteKeeps == CostInv /\ (\E c \in Calls : Write(c)) /\ UNCHANGED clock => CostInv'
  <1> SUFFICES ASSUME CostInv, NEW x \in Calls, Write(x), UNCHANGED clock PROVE CostInv'
    OBVIOUS
  <1>1. /\ x.start <= clock /\ written[x] = Never /\ written' = [written EXCEPT ![x] = clock]
        /\ stored' = stored /\ imported' = imported /\ pass' = pass /\ clock' = clock
    BY DEF Write
  <1>2. clock \in Nat /\ written \in [Calls -> {Never} \cup 0..clock]
    BY DEF CostInv, CostTypeOK
  <1>3. written'[x] = clock /\ \A c \in Calls \ {x} : written'[c] = written[c]
    BY <1>1, <1>2
  <1>4. x \notin Log /\ Log' = Log \cup {x} /\ Have' = Have
    BY <1>1, <1>2, <1>3 DEF Log, Have, Never
  <1>5. x \notin Have
    BY <1>4, ImportFields
  <1>6. CostTypeOK'
    <2>1. written' \in [Calls -> {Never} \cup 0..clock]
      BY <1>1, <1>2
    <2>2. \A c \in Log' : c.start <= written'[c]
      BY <1>1, <1>3, <1>4, ImportFields
    <2>3. \A r \in stored : r.call \in Log'
      BY <1>4 DEF CostInv, CostTypeOK
    <2> QED
      BY <1>1, <2>1, <2>2, <2>3 DEF CostInv, CostTypeOK
  <1>7. PassInTime' /\ PassGoesOn'
    BY <1>1 DEF CostInv, PassInTime, PassGoesOn
  <1>8. NoneSkipped'
    <2> SUFFICES ASSUME NEW n \in Have, NEW c \in Log', Prompt(c)', c.start < n.start - Overlap PROVE c \in Have
      BY <1>1, <1>4 DEF NoneSkipped
    <2>1. CASE c = x
      <3>1. clock <= x.start + Late
        BY <1>1, <1>3, <2>1 DEF Prompt
      <3>2. n.start \in Nat /\ n.start <= clock
        <4>1. n \in Log
          BY ImportFields
        <4>2. n.start \in Nat /\ n.start <= written[n] /\ written[n] \in 0..clock
          BY <4>1, ImportFields
        <4> QED
          BY <1>2, <4>2
      <3>3. x.start \in Nat /\ Overlap \in Nat /\ Late \in Nat /\ PassTime \in Nat /\ Late + PassTime <= Overlap
        BY CallFields, ImportFields
      <3>4. x.start < n.start - Overlap
        BY <2>1
      <3> QED
        BY <1>2, <3>1, <3>2, <3>3, <3>4
    <2>2. CASE c # x
      <3>1. c \in Log /\ Prompt(c)
        BY <1>1, <1>3, <1>4, <2>2, ImportFields DEF Prompt
      <3> QED
        BY <3>1 DEF CostInv, NoneSkipped
    <2> QED
      BY <2>1, <2>2
  <1>9. ASSUME NEW c \in Log', NEW t \in Int, t <= clock, written'[c] < t
        PROVE  c \in Log /\ c # x /\ written[c] = written'[c]
    <2>1. c # x
      BY <1>2, <1>3, <1>9
    <2>2. c \in Log /\ c \in Calls
      BY <1>4, <2>1, ImportFields
    <2> QED
      BY <1>3, <2>1, <2>2
  <1>10. imported.ok \in Int /\ imported.ok <= clock /\ imported.reconciled \in Int /\ imported.reconciled <= clock
         /\ pass.now \in Int /\ pass.now <= clock
    <2>1. clock \in Nat /\ pass.now \in 0..clock /\ Never = -1
      BY ImportFields
    <2>2. imported.ok \in {Never} \cup 0..clock /\ imported.reconciled \in {Never} \cup 0..clock
      BY ImportFields
    <2> QED
      BY <2>1, <2>2
  <1>11. \A c \in Log' : written'[c] < imported.ok /\ Prompt(c)' => c \in Have
    BY <1>9, <1>10, <1>1 DEF CostInv, AllRead, Prompt
  <1>12. \A c \in Log' : written'[c] < imported.reconciled /\ DayOf(c.start) >= DayOf(imported.reconciled) - ReconcileDays
                        => c \in Have
    BY <1>9, <1>10 DEF CostInv, DaysRead
  <1>13. AllRead(imported.ok)' /\ DaysRead(imported.reconciled)'
    BY <1>1, <1>4, <1>11, <1>12 DEF AllRead, DaysRead
  <1>14. \A c \in Calls : Awaits(c)' = Awaits(c)
    BY <1>1 DEF Awaits
  <1>15. Log' \subseteq Calls
    BY <1>4, ImportFields
  <1>16. PassReads'
    <2>1. ASSUME pass.at = "reading", NEW c \in Log', Prompt(c)', written'[c] < pass.now
          PROVE  c \in Have \/ Awaits(c)
      <3>1. c \in Log /\ written[c] = written'[c]
        BY <1>9, <1>10, <2>1
      <3> QED
        BY <2>1, <3>1 DEF CostInv, PassReads, Prompt
    <2>2. ASSUME pass.at \in {"days", "done"}, NEW c \in Log', Prompt(c)', written'[c] < pass.now
          PROVE  c \in Have
      <3>1. c \in Log /\ written[c] = written'[c]
        BY <1>9, <1>10, <2>2
      <3> QED
        BY <2>2, <3>1 DEF CostInv, PassReads, AllRead, Prompt
    <2>3. ASSUME pass.at = "days", NEW c \in Log', written'[c] < pass.now,
                 DayOf(c.start) >= DayOf(pass.now) - ReconcileDays
          PROVE  c \in Have \/ Awaits(c)
      <3>1. c \in Log /\ written[c] = written'[c]
        BY <1>9, <1>10, <2>3
      <3> QED
        BY <2>3, <3>1 DEF CostInv, PassReads
    <2> QED
      BY <1>1, <1>4, <1>14, <1>15, <2>1, <2>2, <2>3 DEF PassReads, AllRead
  <1> QED
    BY <1>6, <1>7, <1>8, <1>13, <1>16 DEF CostInv

(* Where a pass starts.                                                    *)
LEMMA StartIs ==
    ASSUME CostInv
    PROVE  Start \in Nat /\ (Start > 0 => \E n \in Have : Start = n.start - Overlap)
  <1> DEFINE T == {0} \cup {c.start - Overlap : c \in Have}
             D == T \cap Nat
             N == clock
  <1>1. N \in Nat /\ Overlap \in Nat
    BY ImportFields
  <1>2. \A c \in Have : c.start \in Nat /\ c.start <= N
    <2>1. \A c \in Log : c.start \in Nat /\ c.start <= written[c] /\ written[c] \in 0..N
      BY ImportFields
    <2>2. \A c \in Log : c.start <= N
      BY <1>1, <2>1
    <2> QED
      BY <2>1, <2>2, ImportFields
  <1>3. T \subseteq Int
    BY <1>1, <1>2
  <1>4. D \subseteq 0..N /\ 0 \in D
    <2>1. \A c \in Have : c.start - Overlap \in Int /\ c.start - Overlap <= N
      <3> HIDE DEF N
      <3> QED
        BY <1>1, <1>2
    <2>2. \A x \in D : x = 0 \/ \E c \in Have : x = c.start - Overlap
      OBVIOUS
    <2>3. ASSUME NEW x \in D PROVE x \in 0..N
      <3>1. x <= N /\ x \in Nat
        BY <1>1, <2>1, <2>2
      <3> QED
        BY <1>1, <3>1
    <2> QED
      BY <2>3
  <1> DEFINE top == Max(D)
  <1>5. top \in D /\ \A y \in D : y <= top
    <2> HIDE DEF D, N
    <2> QED
      BY <1>1, <1>4, MaxIs
  <1> HIDE DEF top
  <1>6. \A y \in T : top >= y
    <2>1. top \in Nat
      BY <1>5
    <2>2. ASSUME NEW y \in T PROVE top >= y
      <3>1. CASE y \in Nat
        BY <1>5, <2>1, <3>1
      <3>2. CASE y \notin Nat
        <4>1. y \in Int /\ y < 0
          BY <1>3, <3>2
        <4> QED
          BY <2>1, <4>1
      <3> QED
        BY <3>1, <3>2
    <2> QED
      BY <2>2
  <1>7. Start \in T /\ \A y \in T : Start >= y
    <2>1. \E x \in T : \A y \in T : x >= y
      BY <1>5, <1>6
    <2>2. Start = Max(T)
      BY DEF Start
    <2> HIDE DEF T
    <2> QED
      BY <2>1, <2>2 DEF Max
  <1>8. Start \in Int /\ Start >= 0
    BY <1>3, <1>7
  <1> QED
    BY <1>7, <1>8

LEMMA BeginKeeps == CostInv /\ Begin /\ UNCHANGED clock => CostInv'
  <1> SUFFICES ASSUME CostInv, Begin, UNCHANGED clock PROVE CostInv'
    OBVIOUS
  <1> DEFINE r == Ranged(Start, Never)
             left == <<r>>
  <1>1. /\ pass' = [at |-> "reading", now |-> clock, left |-> left, from |-> <<Start, 0>>, new |-> FALSE]
        /\ written' = written /\ stored' = stored /\ imported' = imported /\ clock' = clock
    BY DEF Begin
  <1>2. Start \in Nat /\ clock \in Nat /\ Never \in Int
    BY StartIs, ImportFields DEF Never
  <1>3. r \in Ranges /\ r.lo = Start /\ r.hi = Never
    BY <1>2 DEF Ranged, Ranges
  <1> HIDE DEF r
  <1>4. left \in Seq(Ranges) /\ Len(left) = 1 /\ DOMAIN left = 1..1 /\ left[1] = r
    BY <1>3
  <1>5. pass' \in [at : {"idle", "reading", "days", "done"}, now : 0..clock, left : Seq(Ranges),
                   from : Int \X Int, new : BOOLEAN]
    BY <1>1, <1>2, <1>4
  <1>6. imported' \in [ok : {Never} \cup 0..clock, reconciled : {Never} \cup 0..clock]
    BY <1>1 DEF CostInv, CostTypeOK
  <1>7. CostTypeOK' /\ NoneSkipped' /\ Log' = Log /\ Have' = Have
    BY <1>1, <1>5, <1>6, TypeStays DEF LogAndStoreStay
  <1>8. /\ pass'.at = "reading" /\ pass'.now = clock /\ pass'.left = left
        /\ pass'.from = <<Start, 0>>
    BY <1>1
  <1>9. PassInTime' /\ PassGoesOn'
    <2>1. PassTime \in Nat
      BY ImportFields
    <2>2. clock <= clock + PassTime
      BY <1>2, <2>1
    <2> QED
      BY <1>1, <1>4, <1>8, <2>2 DEF PassInTime, PassGoesOn
  <1>10. ASSUME NEW c \in Log, Prompt(c) PROVE c \in Have \/ Awaits(c)'
    <2>1. c \in Calls /\ c.start \in Nat /\ c.id \in Nat \ {0}
      BY CallFields, ImportFields
    <2>2. CASE c.start >= Start
      <3>1. InRange(c, r)
        BY <1>3, <2>2 DEF InRange
      <3>2. After(c, <<Start, 0>>)
        BY <1>2, <2>1, <2>2 DEF After
      <3>3. Awaits(c)'
        BY <1>4, <1>8, <3>1, <3>2 DEF Awaits
      <3> QED
        BY <3>3
    <2>3. CASE ~(c.start >= Start)
      <3>1. c.start < Start /\ Start > 0
        BY <1>2, <2>1, <2>3
      <3>2. PICK n \in Have : Start = n.start - Overlap
        BY <3>1, StartIs
      <3> QED
        BY <1>10, <3>1, <3>2 DEF CostInv, NoneSkipped
    <2> QED
      BY <2>2, <2>3
  <1>11. PassReads'
    BY <1>1, <1>7, <1>8, <1>10 DEF PassReads, Prompt
  <1>12. AllRead(imported.ok)' /\ DaysRead(imported.reconciled)'
    BY <1>1, <1>7 DEF CostInv, AllRead, DaysRead, Prompt
  <1> QED
    BY <1>7, <1>9, <1>11, <1>12 DEF CostInv

(* A page: what it holds, and that what it was to read is read or left.    *)
LEMMA PageOf ==
    ASSUME CostInv, pass.left # <<>>
    PROVE  /\ Unread \subseteq Calls /\ Unread \subseteq Log /\ Rows = FirstOf(Unread, Batch)
           /\ Head(pass.left) = pass.left[1] /\ 1 \in DOMAIN pass.left
           /\ \A c \in Log : After(c, pass.from) /\ InRange(c, pass.left[1]) => c \in Unread
  <1>1. Unread \subseteq Log /\ Unread \subseteq Calls
    BY ImportFields DEF Unread
  <1>2. Rows = FirstOf(Unread, Batch)
    BY DEF Rows, FirstOf, Place
  <1> DEFINE left == pass.left
  <1>3. left \in Seq(Ranges) /\ left # <<>>
    BY ImportFields
  <1> HIDE DEF left
  <1>4. Head(left) = left[1] /\ 1 \in DOMAIN left
    BY <1>3, HeadTailProperties, EmptySeq, LenProperties
  <1> QED
    BY <1>1, <1>2, <1>4 DEF Unread, InRange, left

(* The cursor and ranges after a page are well typed, and whatever was     *)
(* still to be read is in the page or is still to be read.                 *)
LEMMA PageMovesOn ==
    ASSUME CostInv, ReadPage
    PROVE  /\ pass' \in [at : {"idle", "reading", "days", "done"}, now : 0..clock, left : Seq(Ranges),
                         from : Int \X Int, new : BOOLEAN]
           /\ pass'.at = pass.at /\ pass'.now = pass.now
           /\ pass'.left = pass.left \/ pass'.left = Tail(pass.left)
           /\ \A c \in Log : Awaits(c) => c \in Rows \/ Awaits(c)'
  <1> DEFINE left == pass.left
             q == [pass EXCEPT !.new = @ \/ Rows \ Have # {}]
             full == CHOOSE k \in {Key(c) : c \in Rows} : \A c \in Rows : ~After(c, k)
  <1>1. left # <<>> /\ left \in Seq(Ranges)
    BY ImportFields DEF ReadPage
  <1>2. /\ Unread \subseteq Calls /\ Unread \subseteq Log /\ Rows = FirstOf(Unread, Batch)
        /\ Head(left) = left[1] /\ 1 \in DOMAIN left
        /\ \A c \in Log : After(c, pass.from) /\ InRange(c, left[1]) => c \in Unread
    BY <1>1, PageOf
  <1>3. pass' = IF Cardinality(Rows) < Batch THEN [q EXCEPT !.left = Tail(left), !.from = FirstKey(Tail(left))]
                ELSE [q EXCEPT !.from = full]
    BY DEF ReadPage
  <1>4. pass \in [at : {"idle", "reading", "days", "done"}, now : 0..clock, left : Seq(Ranges),
                  from : Int \X Int, new : BOOLEAN]
    BY DEF CostInv, CostTypeOK
  <1> DEFINE new == pass.new \/ Rows \ Have # {}
  <1>5. new \in BOOLEAN /\ q = [pass EXCEPT !.new = new]
    OBVIOUS
  <1>6. Batch \in Nat \ {0}
    BY ImportFields
  <1> HIDE DEF q, full, new
  <1>7. q \in [at : {"idle", "reading", "days", "done"}, now : 0..clock, left : Seq(Ranges),
               from : Int \X Int, new : BOOLEAN]
        /\ q.at = pass.at /\ q.now = pass.now /\ q.left = left /\ q.new = new
    BY <1>4, <1>5
  <1>8. CASE Cardinality(Rows) < Batch
    <2> DEFINE rest == Tail(left)
    <2>1. rest \in Seq(Ranges) /\ Len(rest) = Len(left) - 1 /\ \A i \in 1..Len(rest) : rest[i] = left[i + 1]
      <3> HIDE DEF left
      <3> QED
        BY <1>1, HeadTailProperties
    <2>2. FirstKey(rest) \in Int \X Int /\ (rest # <<>> => FirstKey(rest) = <<rest[1].lo, 0>> /\ rest[1].lo \in Int)
      <3>1. CASE rest = <<>>
        BY <3>1 DEF FirstKey
      <3>2. CASE rest # <<>>
        <4> HIDE DEF rest
        <4>1. Head(rest) = rest[1] /\ Head(rest) \in Ranges
          BY <2>1, <3>2, HeadTailProperties
        <4> QED
          BY <3>2, <4>1 DEF FirstKey, Ranges
      <3> QED
        BY <3>1, <3>2
    <2> HIDE DEF rest
    <2>3. pass' = [q EXCEPT !.left = rest, !.from = FirstKey(rest)]
      BY <1>3, <1>8 DEF rest
    <2>4. /\ pass'.left = rest /\ pass'.from = FirstKey(rest) /\ pass'.at = q.at /\ pass'.now = q.now
          /\ pass'.new = q.new
      BY <1>7, <2>3
    <2>5. Rows = Unread
      BY <1>2, <1>6, <1>8, ShortPage
    <2>6. ASSUME NEW c \in Log, NEW i \in DOMAIN left, InRange(c, left[i]), i = 1 => After(c, pass.from)
          PROVE  c \in Rows \/ Awaits(c)'
      <3>1. CASE i = 1
        BY <1>2, <2>5, <2>6, <3>1
      <3>2. CASE i # 1
        <4> DEFINE j == i - 1
        <4>1. Len(left) \in Nat /\ DOMAIN left = 1..Len(left) /\ Len(rest) \in Nat /\ DOMAIN rest = 1..Len(rest)
          <5> HIDE DEF left
          <5> QED
            BY <1>1, <2>1, LenProperties
        <4>2. j \in DOMAIN rest /\ rest[j] = left[i]
          <5>1. i \in 1..Len(left) /\ j \in 1..Len(rest) /\ j + 1 = i
            BY <2>1, <3>2, <4>1
          <5> QED
            BY <2>1, <4>1, <5>1
        <4> HIDE DEF j
        <4>3. j = 1 => After(c, pass'.from)
          <5>1. ASSUME j = 1 PROVE After(c, FirstKey(rest))
            <6>1. rest # <<>>
              BY <4>1, <4>2, <5>1, EmptySeq
            <6>2. FirstKey(rest) = <<rest[1].lo, 0>> /\ rest[1].lo \in Int
              BY <2>2, <6>1
            <6>3. rest[1].lo <= c.start
              BY <2>6, <4>2, <5>1 DEF InRange
            <6>4. c.start \in Nat /\ c.id \in Nat \ {0}
              BY CallFields, ImportFields
            <6> QED
              BY <6>2, <6>3, <6>4 DEF After
          <5> QED
            BY <2>4, <5>1
        <4>4. InRange(c, pass'.left[j]) /\ j \in DOMAIN pass'.left
          BY <2>4, <2>6, <4>2
        <4> QED
          BY <4>3, <4>4 DEF Awaits
      <3> QED
        BY <3>1, <3>2
    <2>7. \A c \in Log : Awaits(c) => c \in Rows \/ Awaits(c)'
      BY <2>6 DEF Awaits
    <2>8. pass' \in [at : {"idle", "reading", "days", "done"}, now : 0..clock, left : Seq(Ranges),
                      from : Int \X Int, new : BOOLEAN]
      BY <1>7, <2>1, <2>2, <2>3 DEF rest
    <2> QED
      BY <1>7, <2>4, <2>7, <2>8 DEF rest
  <1>9. CASE ~(Cardinality(Rows) < Batch)
    <2>1. Rows # {}
      BY <1>6, <1>9, FS_EmptySet
    <2>2. \E k \in {Key(c) : c \in Rows} : \A c \in Rows : ~After(c, k)
      BY <1>2, <1>6, <2>1, LastOfPage
    <2>3. full \in {Key(c) : c \in Rows}
      BY <2>2 DEF full
    <2>4. PICK x \in Rows : full = Key(x)
      BY <2>3
    <2>5. x \in Calls /\ x.start \in Int /\ x.id \in Int /\ Key(x) = <<x.start, x.id>>
      <3>1. x \in Calls
        BY <1>2 DEF FirstOf
      <3> QED
        BY <3>1, CallFields
    <2>6. full \in Int \X Int
      BY <2>4, <2>5
    <2>7. pass' = [q EXCEPT !.from = full]
      BY <1>3, <1>9
    <2>8. pass'.left = left /\ pass'.from = full /\ pass'.at = q.at /\ pass'.now = q.now /\ pass'.new = q.new
      BY <1>7, <2>7
    <2>9. ASSUME NEW c \in Log, NEW i \in DOMAIN left, InRange(c, left[i]), i = 1 => After(c, pass.from)
          PROVE  c \in Rows \/ Awaits(c)'
      <3>1. CASE i # 1
        BY <2>8, <2>9, <3>1 DEF Awaits
      <3>2. CASE i = 1 /\ c \notin Rows
        <4>1. c \in Unread
          BY <1>2, <2>9, <3>2
        <4>2. After(c, Key(x))
          BY <1>2, <1>6, <3>2, <4>1, PageInOrder
        <4>3. InRange(c, pass'.left[i]) /\ i \in DOMAIN pass'.left /\ After(c, pass'.from)
          BY <2>4, <2>8, <2>9, <4>2
        <4> QED
          BY <4>3 DEF Awaits
      <3> QED
        BY <3>1, <3>2
    <2>10. \A c \in Log : Awaits(c) => c \in Rows \/ Awaits(c)'
      BY <2>9 DEF Awaits
    <2>11. pass' \in [at : {"idle", "reading", "days", "done"}, now : 0..clock, left : Seq(Ranges),
                      from : Int \X Int, new : BOOLEAN]
      BY <1>7, <2>6, <2>7
    <2> QED
      BY <1>7, <2>8, <2>10, <2>11
  <1> QED
    BY <1>8, <1>9

(* The calls a page stores are of the log; one from before the overlap of  *)
(* a call stored now was in the log when the pass began, so it was read    *)
(* before or is earlier on this page.                                      *)
LEMMA ReadPageKeeps == CostInv /\ ReadPage /\ UNCHANGED clock => CostInv'
  <1> SUFFICES ASSUME CostInv, ReadPage, UNCHANGED clock PROVE CostInv'
    OBVIOUS
  <1>1. /\ pass.left # <<>> /\ stored' = stored \cup {PriceCall(c) : c \in Rows}
        /\ written' = written /\ imported' = imported /\ clock' = clock
    BY DEF ReadPage
  <1>2. /\ Unread \subseteq Calls /\ Unread \subseteq Log /\ Rows = FirstOf(Unread, Batch)
        /\ \A c \in Log : After(c, pass.from) /\ InRange(c, pass.left[1]) => c \in Unread
    BY <1>1, PageOf
  <1>3. /\ pass' \in [at : {"idle", "reading", "days", "done"}, now : 0..clock, left : Seq(Ranges),
                      from : Int \X Int, new : BOOLEAN]
        /\ pass'.at = pass.at /\ pass'.now = pass.now
        /\ pass'.left = pass.left \/ pass'.left = Tail(pass.left)
        /\ \A c \in Log : Awaits(c) => c \in Rows \/ Awaits(c)'
    BY PageMovesOn
  <1>4. Rows \subseteq Log /\ Rows \subseteq Calls
    BY <1>2 DEF FirstOf
  <1>5. Log' = Log
    BY <1>1 DEF Log
  <1>6. \A c \in Rows : PriceCall(c).call = c
    BY <1>4, CallFields
  <1>7. Have' = Have \cup Rows
    <2>1. Have' = {r.call : r \in stored'}
      BY DEF Have
    <2>2. \A c : c \in Have' <=> \E r \in stored' : c = r.call
      BY <2>1
    <2>3. \A c : c \in Have <=> \E r \in stored : c = r.call
      BY DEF Have
    <2>4. \A r : r \in stored' <=> r \in stored \/ \E c \in Rows : r = PriceCall(c)
      BY <1>1
    <2>5. \A c : c \in Have' <=> c \in Have \/ c \in Rows
      BY <1>6, <2>2, <2>3, <2>4
    <2> QED
      BY <2>5
  <1>8. CostTypeOK'
    <2>1. \A r \in stored' : r.call \in Log /\ r = PriceCall(r.call)
      <3>1. \A r \in stored : r.call \in Log /\ r = PriceCall(r.call)
        BY DEF CostInv, CostTypeOK
      <3>2. \A c \in Rows : PriceCall(c).call \in Log /\ PriceCall(c) = PriceCall(PriceCall(c).call)
        BY <1>4, <1>6
      <3> QED
        BY <1>1, <3>1, <3>2
    <2> QED
      BY <1>1, <1>3, <1>5, <2>1 DEF CostInv, CostTypeOK
  <1>9. PassInTime'
    BY <1>1, <1>3 DEF CostInv, PassInTime
  <1>10. pass.at \in {"reading", "days"} /\ (pass.at = "reading" => Len(pass.left) = 1)
    <2> DEFINE left == pass.left
    <2>1. left \in Seq(Ranges) /\ left # <<>>
      BY <1>1, ImportFields
    <2> HIDE DEF left
    <2>2. Len(left) \in Nat /\ Len(left) # 0
      BY <2>1, LenProperties, EmptySeq
    <2>3. pass.at \in {"idle", "reading", "days", "done"}
      BY ImportFields
    <2>4. pass.at \notin {"idle", "done"} /\ (pass.at = "reading" => Len(left) <= 1)
      BY <1>1 DEF CostInv, PassGoesOn, left
    <2>5. Len(left) <= 1 => Len(left) = 1
      BY <2>2
    <2> QED
      BY <2>3, <2>4, <2>5 DEF left
  <1>11. PassGoesOn'
    <2> DEFINE left == pass.left
    <2>1. left \in Seq(Ranges) /\ left # <<>>
      BY <1>1, ImportFields
    <2>2. pass'.left \in {left, Tail(left)}
      BY <1>3
    <2> HIDE DEF left
    <2>3. Len(left) \in Nat /\ Len(Tail(left)) = Len(left) - 1
      BY <2>1, LenProperties, HeadTailProperties
    <2>4. pass'.at = "reading" => Len(pass'.left) <= 1
      <3>1. pass'.at = "reading" => Len(left) = 1
        BY <1>3, <1>10 DEF left
      <3>2. Len(left) = 1 => Len(pass'.left) <= 1
        <4>1. ASSUME pass'.left = left, Len(left) = 1 PROVE Len(pass'.left) <= 1
          <5>1. Len(pass'.left) = 1
            BY <4>1, Zenon
          <5> QED
            BY <5>1
        <4>2. ASSUME pass'.left = Tail(left), Len(left) = 1 PROVE Len(pass'.left) <= 1
          <5>1. Len(pass'.left) = Len(Tail(left))
            BY <4>2, Zenon
          <5>2. Len(Tail(left)) = 0
            BY <2>3, <4>2
          <5>3. Len(pass'.left) = 0
            BY <5>1, <5>2, Zenon
          <5> QED
            BY <5>3
        <4> QED
          BY <2>2, <4>1, <4>2
      <3> QED
        BY <3>1, <3>2
    <2> QED
      BY <1>3, <1>10, <2>4 DEF PassGoesOn
  <1>12. NoneSkipped'
    <2> SUFFICES ASSUME NEW n \in Have \cup Rows, NEW c \in Log, Prompt(c), c.start < n.start - Overlap
                 PROVE  c \in Have \cup Rows
      BY <1>1, <1>5, <1>7 DEF NoneSkipped, Prompt
    <2>1. CASE n \in Have
      BY <2>1 DEF CostInv, NoneSkipped
    <2>2. CASE n \in Rows
      <3>1. n \in Log /\ n.start \in Nat /\ n.start <= written[n] /\ written[n] \in 0..clock
        BY <1>4, <2>2, ImportFields
      <3>2. clock <= pass.now + PassTime
        BY <1>10 DEF CostInv, PassInTime
      <3>3. written[c] <= c.start + Late
        BY DEF Prompt
      <3>4. written[c] \in Int /\ c.start \in Nat /\ clock \in Nat /\ pass.now \in Int
        BY ImportFields
      <3>5. Overlap \in Nat /\ Late \in Nat /\ PassTime \in Nat /\ Late + PassTime <= Overlap
        BY ImportFields
      <3>6. written[c] < pass.now
        BY <3>1, <3>2, <3>3, <3>4, <3>5
      <3>7. CASE pass.at = "days"
        BY <3>6, <3>7 DEF CostInv, PassReads, AllRead
      <3>8. CASE pass.at = "reading" /\ c \notin Have
        <4>1. Awaits(c)
          BY <3>6, <3>8 DEF CostInv, PassReads
        <4>2. PICK i \in DOMAIN pass.left : InRange(c, pass.left[i]) /\ (i = 1 => After(c, pass.from))
          BY <4>1 DEF Awaits
        <4>3. i = 1
          <5> DEFINE left == pass.left
          <5>1. left \in Seq(Ranges)
            BY ImportFields
          <5> HIDE DEF left
          <5>2. DOMAIN left = 1..Len(left)
            BY <5>1, LenProperties
          <5>3. Len(left) = 1 /\ i \in DOMAIN left
            BY <1>10, <3>8 DEF left
          <5>4. i \in 1..1
            BY <5>2, <5>3
          <5> QED
            BY <5>4
        <4>4. c \in Unread
          BY <1>2, <4>2, <4>3
        <4>5. ASSUME c \notin Rows PROVE FALSE
          <5>1. After(c, Key(n))
            <6>1. c \in Unread \ FirstOf(Unread, Batch) /\ n \in FirstOf(Unread, Batch)
              BY <1>2, <2>2, <4>4, <4>5
            <6>2. Batch \in Nat
              BY ImportFields
            <6> QED
              BY <1>2, <6>1, <6>2, PageInOrder
          <5>2. c \in Calls /\ n \in Calls
            BY <1>4, <2>2, ImportFields
          <5>3. c.start > n.start \/ c.start = n.start
            BY <5>1, <5>2, AfterKey
          <5> QED
            BY <3>1, <3>4, <3>5, <5>3
        <4> QED
          BY <4>5
      <3> QED
        BY <1>10, <3>7, <3>8
    <2> QED
      BY <2>1, <2>2
  <1>13. PassReads'
    <2>1. \A c \in Log : c \in Have \/ Awaits(c) => c \in Have' \/ Awaits(c)'
      BY <1>3, <1>7
    <2>2. pass.at = "reading" => \A c \in Log : Prompt(c) /\ written[c] < pass.now => c \in Have' \/ Awaits(c)'
      BY <2>1 DEF CostInv, PassReads
    <2>3. pass.at \in {"days", "done"} => \A c \in Log : Prompt(c) /\ written[c] < pass.now => c \in Have'
      BY <1>7 DEF CostInv, PassReads, AllRead
    <2>4. pass.at = "days" =>
             \A c \in Log : written[c] < pass.now /\ DayOf(c.start) >= DayOf(pass.now) - ReconcileDays
                            => c \in Have' \/ Awaits(c)'
      BY <2>1 DEF CostInv, PassReads
    <2> QED
      BY <1>1, <1>3, <1>5, <2>2, <2>3, <2>4 DEF PassReads, AllRead, Prompt
  <1>14. AllRead(imported.ok)' /\ DaysRead(imported.reconciled)'
    BY <1>1, <1>5, <1>7 DEF CostInv, AllRead, DaysRead, Prompt
  <1> QED
    BY <1>8, <1>9, <1>11, <1>12, <1>13, <1>14 DEF CostInv

-----------------------------------------------------------------------------
(* The daily check and the ends of a pass.                                 *)

LEMMA DifferingFields ==
    ASSUME CostInv
    PROVE  /\ IsFiniteSet(Differing) /\ Differing \subseteq Int /\ Cardinality(Differing) \in Nat
           /\ \A d \in Differing : Cardinality({e \in Differing : e < d}) \in 0..(Cardinality(Differing) - 1)
           /\ \A d \in Differing : Earlier(Cardinality({e \in Differing : e < d})) = d
  <1> DEFINE a == DayOf(pass.now) - ReconcileDays
             b == DayOf(clock)
             D == Differing
             below(d) == {e \in D : e < d}
  <1>1. a \in Int /\ b \in Int
    <2>1. pass.now \in Int /\ clock \in Int /\ ReconcileDays \in Int /\ Day \in Nat \ {0}
      BY ImportFields
    <2>2. DayOf(pass.now) \in Int /\ DayOf(clock) \in Int
      BY <2>1 DEF DayOf
    <2> QED
      BY <2>1, <2>2
  <1>2. D \subseteq a..b
    BY DEF Differing
  <1> HIDE DEF a, b, D
  <1>3. IsFiniteSet(D) /\ D \subseteq Int /\ Cardinality(D) \in Nat
    <2>1. IsFiniteSet(a..b) /\ a..b \subseteq Int
      BY <1>1, FS_Interval
    <2>2. IsFiniteSet(D)
      BY <1>2, <2>1, FS_Subset
    <2> QED
      BY <1>2, <2>1, <2>2, FS_CardinalityType
  <1>4. \A d : IsFiniteSet(below(d)) /\ Cardinality(below(d)) \in Nat /\ below(d) \subseteq D
    BY <1>3, FS_Subset, FS_CardinalityType
  <1>5. ASSUME NEW d \in D PROVE Cardinality(below(d)) \in 0..(Cardinality(D) - 1)
    <2>1. d \notin below(d)
      BY <1>3
    <2> DEFINE ours == Cardinality(below(d))
               all == Cardinality(D)
    <2> HIDE DEF below
    <2>2. ours <= all /\ ours # all
      BY <1>3, <1>4, <2>1, FS_Subset
    <2>3. ours \in Nat /\ all \in Nat
      BY <1>3, <1>4
    <2> HIDE DEF ours, all
    <2>4. ours \in 0..(all - 1)
      BY <2>2, <2>3
    <2> QED
      BY <2>4 DEF ours, all
  <1>6. ASSUME NEW d \in D, NEW e \in D, e < d PROVE Cardinality(below(e)) < Cardinality(below(d))
    <2>1. below(e) \subseteq below(d) /\ e \in below(d) /\ e \notin below(e)
      <3>1. d \in Int /\ e \in Int /\ \A x \in D : x \in Int
        BY <1>3
      <3>2. \A x \in D : x < e => x < d
        BY <1>6, <3>1
      <3>3. ~(e < e)
        BY <3>1
      <3> QED
        BY <1>6, <3>2, <3>3
    <2> HIDE DEF below
    <2>2. Cardinality(below(e)) <= Cardinality(below(d)) /\ Cardinality(below(e)) # Cardinality(below(d))
      BY <1>4, <2>1, FS_Subset
    <2> QED
      BY <1>4, <2>2
  <1>7. ASSUME NEW d \in D PROVE Earlier(Cardinality(below(d))) = d
    <2> DEFINE n == Cardinality(below(d))
    <2>1. Earlier(n) = CHOOSE e \in D : Cardinality(below(e)) = n
      BY DEF Earlier, D
    <2>2. \A e \in D : Cardinality(below(e)) = n => e = d
      <3>1. ASSUME NEW e \in D, Cardinality(below(e)) = n, e # d PROVE FALSE
        <4>1. e < d \/ d < e
          BY <1>3, <3>1
        <4>2. Cardinality(below(e)) < n \/ n < Cardinality(below(e))
          BY <1>6, <4>1
        <4> HIDE DEF below
        <4>3. n \in Nat
          BY <1>4
        <4> QED
          BY <3>1, <4>2, <4>3
      <3> QED
        BY <3>1
    <2> HIDE DEF below
    <2> QED
      BY <2>1, <2>2
  <1> QED
    BY <1>3, <1>5, <1>7 DEF D

(* A day that has a call we lack differs, for we have no call of our own.  *)
LEMMA LackingDiffers ==
    ASSUME CostInv, NEW c \in Log, c \notin Have, DayOf(c.start) >= DayOf(pass.now) - ReconcileDays
    PROVE  DayOf(c.start) \in Differing
  <1> DEFINE d == DayOf(c.start)
             ours == {x \in Have : DayOf(x.start) = d}
             theirs == {x \in Log : DayOf(x.start) = d}
  <1>1. IsFiniteSet(theirs) /\ ours \subseteq theirs
    BY PartOfCalls, ImportFields
  <1>2. c \in theirs /\ c \notin ours
    OBVIOUS
  <1>3. Cardinality(theirs) # Cardinality(ours)
    <2> HIDE DEF ours, theirs
    <2> QED
      BY <1>1, <1>2, FS_Subset
  <1>4. OnDay(Log, d) = Cardinality(theirs) /\ OnDay(Have, d) = Cardinality(ours)
    BY DEF OnDay
  <1>5. d \in (DayOf(pass.now) - ReconcileDays)..DayOf(clock)
    <2>1. /\ c.start \in Int /\ clock \in Int /\ Day \in Nat \ {0} /\ pass.now \in Int /\ ReconcileDays \in Int
          /\ c.start <= clock
      <3>1. c.start \in Nat /\ c.start <= written[c] /\ written[c] \in 0..clock /\ clock \in Nat
        BY ImportFields
      <3>2. Day \in Nat \ {0} /\ pass.now \in Int /\ ReconcileDays \in Int
        BY ImportFields
      <3> QED
        BY <3>1, <3>2
    <2> DEFINE s == c.start
               t == clock
    <2>2. s \in Int /\ t \in Int /\ s <= t
      BY <2>1
    <2> HIDE DEF s, t
    <2>3. s \div Day <= t \div Day /\ s \div Day \in Int /\ t \div Day \in Int
      BY <2>1, <2>2, Z3
    <2>4. DayOf(c.start) <= DayOf(clock) /\ DayOf(c.start) \in Int /\ DayOf(clock) \in Int
      BY <2>3 DEF DayOf, s, t
    <2>5. DayOf(pass.now) \in Int
      BY <2>1 DEF DayOf
    <2> QED
      BY <2>1, <2>4, <2>5
  <1> HIDE DEF d, ours, theirs
  <1> QED
    BY <1>3, <1>4, <1>5 DEF Differing, d

LEMMA ReconcileKeeps == CostInv /\ Reconcile /\ UNCHANGED clock => CostInv'
  <1> SUFFICES ASSUME CostInv, Reconcile, UNCHANGED clock PROVE CostInv'
    OBVIOUS
  <1> DEFINE n == Cardinality(Differing)
             day(d) == Ranged(d * Day, (d + 1) * Day)
             left == [i \in 1..n |-> day(Earlier(i - 1))]
  <1>1. pass.at = "reading" /\ pass.left = <<>> /\ Turns("days", left) /\ LogAndStoreStay /\ imported' = imported
    BY DEF Reconcile, LogAndStoreStay
  <1>2. Day \in Int
    BY ImportFields
  <1>3. \A d \in Int : day(d) \in Ranges /\ day(d).lo = d * Day /\ day(d).hi = (d + 1) * Day
    BY <1>2 DEF Ranged, Ranges
  <1>4. /\ Differing \subseteq Int /\ n \in Nat
        /\ \A d \in Differing : Cardinality({e \in Differing : e < d}) \in 0..(n - 1)
        /\ \A d \in Differing : Earlier(Cardinality({e \in Differing : e < d})) = d
    BY DifferingFields
  <1> HIDE DEF n, day
  <1>5. \A i \in 1..n : Earlier(i - 1) \in Differing
    <2> DEFINE below(d) == Cardinality({e \in Differing : e < d})
               Taken == {below(d) : d \in Differing}
    <2>1. Taken = 0..(n - 1)
      <3> DEFINE h == [d \in Differing |-> below(d)]
      <3>1. h \in Surjection(Differing, Taken)
        BY DEF Surjection
      <3>2. h \in Injection(Differing, Taken)
        <4>1. \A d, e \in Differing : below(d) = below(e) => d = e
          BY <1>4
        <4> QED
          BY <4>1 DEF Injection, IsInjective
      <3> HIDE DEF h
      <3>3. IsFiniteSet(Taken) /\ Cardinality(Taken) = n
        BY <3>1, <3>2, DifferingFields, FS_Surjection DEF n
      <3>4. Taken \subseteq 0..(n - 1)
        BY <1>4
      <3>5. IsFiniteSet(0..(n - 1)) /\ Cardinality(0..(n - 1)) = n
        <4>1. 0 \in Int /\ n - 1 \in Int
          BY <1>4
        <4>2. IsFiniteSet(0..(n - 1)) /\ Cardinality(0..(n - 1)) = IF 0 > n - 1 THEN 0 ELSE n - 1 - 0 + 1
          BY <4>1, FS_Interval
        <4> QED
          BY <1>4, <4>2
      <3> DEFINE numbers == 0..(n - 1)
      <3>6. Taken \in SUBSET numbers /\ IsFiniteSet(numbers) /\ Cardinality(numbers) = Cardinality(Taken)
        BY <3>3, <3>4, <3>5
      <3> HIDE DEF Taken, numbers
      <3>7. Taken = numbers
        BY <3>6, FS_Subset
      <3> QED
        BY <3>7 DEF numbers
    <2>2. ASSUME NEW i \in 1..n PROVE Earlier(i - 1) \in Differing
      <3>1. i - 1 \in Taken
        <4>1. i - 1 \in 0..(n - 1)
          BY <1>4
        <4> HIDE DEF Taken
        <4> QED
          BY <2>1, <4>1
      <3>2. PICK d \in Differing : i - 1 = below(d)
        BY <3>1
      <3> QED
        BY <1>4, <3>2
    <2> QED
      BY <2>2
  <1>6. left \in Seq(Ranges) /\ DOMAIN left = 1..n
    <2>1. \A i \in 1..n : day(Earlier(i - 1)) \in Ranges
      BY <1>3, <1>4, <1>5
    <2>2. left \in [1..n -> Ranges]
      BY <2>1
    <2> HIDE DEF left
    <2> QED
      BY <1>4, <2>2, SeqDef
  <1>7. \A i \in 1..n : left[i] = day(Earlier(i - 1))
    OBVIOUS
  <1> HIDE DEF left
  <1>8. /\ pass' \in [at : {"idle", "reading", "days", "done"}, now : 0..clock, left : Seq(Ranges),
                      from : Int \X Int, new : BOOLEAN]
        /\ pass'.at = "days" /\ pass'.left = left /\ pass'.now = pass.now /\ pass'.from = FirstKey(left)
    BY <1>1, <1>6, TurnsTo
  <1>9. imported' \in [ok : {Never} \cup 0..clock, reconciled : {Never} \cup 0..clock]
    BY <1>1 DEF CostInv, CostTypeOK
  <1>10. CostTypeOK' /\ NoneSkipped' /\ Log' = Log /\ Have' = Have
    BY <1>1, <1>8, <1>9, TypeStays
  <1>11. PassInTime' /\ PassGoesOn'
    BY <1>1, <1>8 DEF CostInv, PassInTime, PassGoesOn, LogAndStoreStay
  <1>12. AllRead(pass.now)
    BY <1>1, NoneLeft DEF CostInv, PassReads, AllRead
  <1>13. ASSUME NEW c \in Log, c \notin Have, DayOf(c.start) >= DayOf(pass.now) - ReconcileDays
         PROVE  Awaits(c)'
    <2> DEFINE d == DayOf(c.start)
               k == Cardinality({e \in Differing : e < d})
               i == k + 1
    <2>1. d \in Differing
      BY <1>13, LackingDiffers
    <2>2. k \in 0..(n - 1) /\ Earlier(k) = d
      BY <1>4, <2>1
    <2> HIDE DEF k
    <2>3. i \in 1..n /\ i - 1 = k
      BY <1>4, <2>2
    <2>4. /\ d \in Int /\ d * Day <= c.start /\ c.start < (d + 1) * Day /\ c.start \in Nat /\ c.id \in Nat \ {0}
      BY CallFields, ImportFields
    <2> HIDE DEF d, i
    <2>5. left[i] = day(d)
      BY <1>7, <2>2, <2>3
    <2>6. InRange(c, left[i])
      BY <1>3, <2>4, <2>5 DEF InRange
    <2>7. i = 1 => After(c, pass'.from)
      <3>1. ASSUME i = 1 PROVE After(c, FirstKey(left))
        <4>1. left # <<>> /\ Head(left) = left[1]
          <5>1. 1 \in DOMAIN left
            BY <1>6, <2>3, <3>1
          <5>2. left # <<>>
            BY <5>1, EmptySeq
          <5> QED
            BY <1>6, <5>2, HeadTailProperties
        <4>2. FirstKey(left) = <<d * Day, 0>>
          BY <1>3, <2>4, <2>5, <3>1, <4>1 DEF FirstKey
        <4>3. d * Day \in Int
          BY <1>2, <2>4
        <4> DEFINE lo == d * Day
        <4>4. lo \in Int /\ lo <= c.start /\ FirstKey(left) = <<lo, 0>>
          BY <2>4, <4>2, <4>3
        <4> HIDE DEF lo
        <4> QED
          BY <2>4, <4>4 DEF After
      <3> QED
        BY <1>8, <3>1
    <2>8. i \in DOMAIN pass'.left /\ InRange(c, pass'.left[i])
      BY <1>6, <1>8, <2>3, <2>6
    <2> QED
      BY <2>7, <2>8 DEF Awaits
  <1>14. PassReads'
    BY <1>1, <1>8, <1>10, <1>12, <1>13 DEF PassReads, AllRead, Prompt, LogAndStoreStay
  <1>15. AllRead(imported.ok)' /\ DaysRead(imported.reconciled)'
    BY <1>1, <1>10 DEF CostInv, AllRead, DaysRead, Prompt, LogAndStoreStay
  <1> QED
    BY <1>10, <1>11, <1>14, <1>15 DEF CostInv

LEMMA ReconciledKeeps == CostInv /\ Reconciled /\ UNCHANGED clock => CostInv'
  <1> SUFFICES ASSUME CostInv, Reconciled, UNCHANGED clock PROVE CostInv'
    OBVIOUS
  <1>1. /\ pass.at = "days" /\ pass.left = <<>> /\ Turns("done", <<>>) /\ LogAndStoreStay
        /\ imported' = [imported EXCEPT !.reconciled = pass.now]
    BY DEF Reconciled, LogAndStoreStay
  <1>2. <<>> \in Seq(Ranges)
    OBVIOUS
  <1>3. /\ pass' \in [at : {"idle", "reading", "days", "done"}, now : 0..clock, left : Seq(Ranges),
                      from : Int \X Int, new : BOOLEAN]
        /\ pass'.at = "done" /\ pass'.left = <<>> /\ pass'.now = pass.now
    BY <1>1, <1>2, TurnsTo
  <1>4. /\ imported' \in [ok : {Never} \cup 0..clock, reconciled : {Never} \cup 0..clock]
        /\ imported'.ok = imported.ok /\ imported'.reconciled = pass.now
    <2>1. imported \in [ok : {Never} \cup 0..clock, reconciled : {Never} \cup 0..clock] /\ pass.now \in 0..clock
      BY ImportFields DEF CostInv, CostTypeOK
    <2> QED
      BY <1>1, <2>1
  <1>5. CostTypeOK' /\ NoneSkipped' /\ Log' = Log /\ Have' = Have
    BY <1>1, <1>3, <1>4, TypeStays
  <1>6. PassInTime' /\ PassGoesOn'
    BY <1>1, <1>3 DEF CostInv, PassInTime, PassGoesOn, LogAndStoreStay
  <1>7. AllRead(pass.now) /\ DaysRead(pass.now)
    BY <1>1, NoneLeft DEF CostInv, PassReads, DaysRead
  <1>8. PassReads'
    BY <1>1, <1>3, <1>5, <1>7 DEF PassReads, AllRead, Prompt, LogAndStoreStay
  <1>9. AllRead(imported.ok)' /\ DaysRead(imported.reconciled)'
    BY <1>1, <1>4, <1>5, <1>7 DEF CostInv, AllRead, DaysRead, Prompt, LogAndStoreStay
  <1> QED
    BY <1>5, <1>6, <1>8, <1>9 DEF CostInv

LEMMA FinishKeeps == CostInv /\ Finish /\ UNCHANGED clock => CostInv'
  <1> SUFFICES ASSUME CostInv, Finish, UNCHANGED clock PROVE CostInv'
    OBVIOUS
  <1>1. /\ pass.at = "done" \/ (pass.at = "reading" /\ pass.left = <<>>)
        /\ Turns("idle", <<>>) /\ LogAndStoreStay /\ imported' = [imported EXCEPT !.ok = pass.now]
    BY DEF Finish, LogAndStoreStay
  <1>2. <<>> \in Seq(Ranges)
    OBVIOUS
  <1>3. /\ pass' \in [at : {"idle", "reading", "days", "done"}, now : 0..clock, left : Seq(Ranges),
                      from : Int \X Int, new : BOOLEAN]
        /\ pass'.at = "idle" /\ pass'.left = <<>>
    BY <1>1, <1>2, TurnsTo
  <1>4. /\ imported' \in [ok : {Never} \cup 0..clock, reconciled : {Never} \cup 0..clock]
        /\ imported'.ok = pass.now /\ imported'.reconciled = imported.reconciled
    <2>1. imported \in [ok : {Never} \cup 0..clock, reconciled : {Never} \cup 0..clock] /\ pass.now \in 0..clock
      BY ImportFields DEF CostInv, CostTypeOK
    <2> QED
      BY <1>1, <2>1
  <1>5. CostTypeOK' /\ NoneSkipped' /\ Log' = Log /\ Have' = Have
    BY <1>1, <1>3, <1>4, TypeStays
  <1>6. PassInTime' /\ PassGoesOn' /\ PassReads'
    BY <1>3 DEF PassInTime, PassGoesOn, PassReads
  <1>7. AllRead(pass.now)
    BY <1>1, NoneLeft DEF CostInv, PassReads, AllRead
  <1>8. AllRead(imported.ok)' /\ DaysRead(imported.reconciled)'
    BY <1>1, <1>4, <1>5, <1>7 DEF CostInv, AllRead, DaysRead, Prompt, LogAndStoreStay
  <1> QED
    BY <1>5, <1>6, <1>8 DEF CostInv

LEMMA ImportBegins == clock = 0 /\ CostInit => CostInv
  <1> SUFFICES ASSUME clock = 0, CostInit PROVE CostInv
    OBVIOUS
  <1>1. /\ written = [c \in Calls |-> Never] /\ stored = {} /\ imported = [ok |-> Never, reconciled |-> Never]
        /\ pass = [at |-> "idle", now |-> 0, left |-> <<>>, from |-> <<0, 0>>, new |-> FALSE]
    BY DEF CostInit
  <1>2. Log = {} /\ Have = {}
    BY <1>1 DEF Log, Have
  <1>3. CostTypeOK
    <2>1. pass.left = <<>> /\ <<>> \in Seq(Ranges) /\ 0 \in 0..0
      BY <1>1
    <2>2. pass \in [at : {"idle", "reading", "days", "done"}, now : 0..clock, left : Seq(Ranges),
                    from : Int \X Int, new : BOOLEAN]
      BY <1>1, <2>1
    <2> QED
      BY <1>1, <1>2, <2>2 DEF CostTypeOK
  <1>4. PassInTime /\ PassGoesOn /\ NoneSkipped /\ PassReads /\ AllRead(imported.ok) /\ DaysRead(imported.reconciled)
    BY <1>1, <1>2 DEF PassInTime, PassGoesOn, NoneSkipped, PassReads, AllRead, DaysRead
  <1> QED
    BY <1>3, <1>4 DEF CostInv

LEMMA ImportStep == CostInv /\ [CostNext]_<<clock, costVars>> => CostInv'
  <1> SUFFICES ASSUME CostInv, [CostNext]_<<clock, costVars>> PROVE CostInv'
    OBVIOUS
  <1>1. CASE UNCHANGED <<clock, costVars>>
    BY <1>1 DEF costVars, CostInv, CostTypeOK, PassInTime, PassGoesOn, NoneSkipped, PassReads, AllRead, DaysRead,
                Log, Have, Prompt, Awaits
  <1>2. CASE (\E c \in Calls : Write(c)) /\ UNCHANGED clock
    BY <1>2, WriteKeeps
  <1>3. CASE Begin /\ UNCHANGED clock
    BY <1>3, BeginKeeps
  <1>4. CASE ReadPage /\ UNCHANGED clock
    BY <1>4, ReadPageKeeps
  <1>5. CASE Reconcile /\ UNCHANGED clock
    BY <1>5, ReconcileKeeps
  <1>6. CASE Reconciled /\ UNCHANGED clock
    BY <1>6, ReconciledKeeps
  <1>7. CASE Finish /\ UNCHANGED clock
    BY <1>7, FinishKeeps
  <1>8. CASE GiveUpPass /\ UNCHANGED clock
    BY <1>8, GivenUpKeeps
  <1>9. CASE Tick /\ (pass.at = "idle" \/ clock < pass.now + PassTime) /\ UNCHANGED costVars
    BY <1>9, ClockKeeps
  <1> QED
    BY <1>1, <1>2, <1>3, <1>4, <1>5, <1>6, <1>7, <1>8, <1>9 DEF CostNext

-----------------------------------------------------------------------------
(* The figures: each promised call is one of the rows that are summed.     *)

LEMMA AmountIs ==
    ASSUME NEW S, IsFiniteSet(S), \A r \in S : r.cost \in Nat
    PROVE  \E w : Sums(w, S, [r \in S |-> r.cost]) /\ MapThenSumSet(LAMBDA r : r.cost, S) = w[S]
  <1> DEFINE F == [r \in S |-> r.cost]
             Adds(w) == w = [s \in SUBSET S |-> IF s = {} THEN 0 ELSE SomeOf(s).cost + w[s \ {SomeOf(s)}]]
             w == CHOOSE w : Adds(w)
  <1>1. MapThenSumSet(LAMBDA r : r.cost, S) = w[S]
    BY DEF MapThenSumSet, MapThenFoldSet, SomeOf
  <1>2. F \in [S -> Nat]
    OBVIOUS
  <1>3. \A s \in SUBSET S : s # {} => F[SomeOf(s)] = SomeOf(s).cost
    BY DEF SomeOf
  <1> HIDE DEF F
  <1>4. PICK u : Sums(u, S, F)
    BY <1>2, SumExists
  <1>5. Adds(u)
    BY <1>3, <1>4 DEF Sums
  <1>6. Adds(w)
    <2> HIDE DEF Adds
    <2> QED
      BY <1>5
  <1> HIDE DEF w
  <1>7. \A s \in SUBSET S : w[s] = IF s = {} THEN 0 ELSE F[SomeOf(s)] + w[s \ {SomeOf(s)}]
    BY <1>3, <1>6
  <1>8. \A s \in SUBSET S : w[s] \in Nat
    <2> HIDE DEF Adds
    <2> QED
      BY <1>2, <1>7, SumTyped
  <1>9. w \in [SUBSET S -> Nat]
    <2>1. DOMAIN w = SUBSET S /\ w = [s \in SUBSET S |-> w[s]]
      BY <1>6
    <2> HIDE DEF Adds
    <2> QED
      BY <1>8, <2>1
  <1>10. Sums(w, S, F)
    BY <1>7, <1>9 DEF Sums
  <1> HIDE DEF Adds
  <1> QED
    BY <1>1, <1>10 DEF F

LEMMA CostOfCalls ==
    ASSUME NEW S, IsFiniteSet(S), \A c \in S : PriceCall(c).cost \in Nat
    PROVE  \E w : Sums(w, S, [c \in S |-> PriceCall(c).cost]) /\ MapThenSumSet(LAMBDA c : PriceCall(c).cost, S) = w[S]
  <1> DEFINE F == [c \in S |-> PriceCall(c).cost]
             Adds(w) == w = [s \in SUBSET S |-> IF s = {} THEN 0 ELSE PriceCall(SomeOf(s)).cost + w[s \ {SomeOf(s)}]]
             w == CHOOSE w : Adds(w)
  <1>1. MapThenSumSet(LAMBDA c : PriceCall(c).cost, S) = w[S]
    BY DEF MapThenSumSet, MapThenFoldSet, SomeOf
  <1>2. F \in [S -> Nat]
    OBVIOUS
  <1>3. \A s \in SUBSET S : s # {} => F[SomeOf(s)] = PriceCall(SomeOf(s)).cost
    BY DEF SomeOf
  <1> HIDE DEF F
  <1>4. PICK u : Sums(u, S, F)
    BY <1>2, SumExists
  <1>5. Adds(u)
    BY <1>3, <1>4 DEF Sums
  <1>6. Adds(w)
    <2> HIDE DEF Adds
    <2> QED
      BY <1>5
  <1> HIDE DEF w
  <1>7. \A s \in SUBSET S : w[s] = IF s = {} THEN 0 ELSE F[SomeOf(s)] + w[s \ {SomeOf(s)}]
    BY <1>3, <1>6
  <1>8. \A s \in SUBSET S : w[s] \in Nat
    <2> HIDE DEF Adds
    <2> QED
      BY <1>2, <1>7, SumTyped
  <1>9. w \in [SUBSET S -> Nat]
    <2>1. DOMAIN w = SUBSET S /\ w = [s \in SUBSET S |-> w[s]]
      BY <1>6
    <2> HIDE DEF Adds
    <2> QED
      BY <1>8, <2>1
  <1>10. Sums(w, S, F)
    BY <1>7, <1>9 DEF Sums
  <1> HIDE DEF Adds
  <1> QED
    BY <1>1, <1>10 DEF F

(* What a fresh figure promises has been read.                             *)
LEMMA PromisesAreKept ==
    ASSUME CostInv, State = "fresh", NEW tag
    PROVE  Promised(tag, clock - Stale) \subseteq Have
  <1> SUFFICES ASSUME NEW c \in Log, written[c] <= clock - Stale, Prompt(c) \/ Checked(c) PROVE c \in Have
    BY DEF Promised
  <1>1. imported.ok # Never /\ clock - imported.ok < Stale
    BY DEF State
  <1>2. /\ clock \in Nat /\ Stale \in Nat /\ written[c] \in Int /\ imported.ok \in Int
    <2>1. clock \in Nat /\ Stale \in Nat /\ imported.ok \in {Never} \cup 0..clock
      BY ImportFields
    <2>2. written[c] \in 0..clock
      BY ImportFields
    <2> QED
      BY <1>1, <2>1, <2>2
  <1>3. written[c] < imported.ok
    BY <1>1, <1>2
  <1>4. CASE Prompt(c)
    BY <1>3, <1>4 DEF CostInv, AllRead
  <1>5. CASE Checked(c)
    BY <1>5 DEF CostInv, DaysRead, Checked
  <1> QED
    BY <1>4, <1>5

LEMMA FigureCounts ==
    ASSUME CostInv, NEW tag, NEW P, P \subseteq Have, \A c \in P : c.tag = tag
    PROVE  LET S == Tagged(tag)
               unpriced == {r \in S : r.basis \in {"not priced"}}
               without == {c \in P : PriceCall(c).basis = "not priced"}
           IN  /\ Cardinality(S) \in Cardinality(P)..Cardinality({c \in Log : c.tag = tag})
               /\ Cardinality(unpriced) >= Cardinality(without)
               /\ MapThenSumSet(LAMBDA r : r.cost, S) >= MapThenSumSet(LAMBDA c : PriceCall(c).cost, P)
  <1> DEFINE S == Tagged(tag)
             unpriced == {r \in S : r.basis \in {"not priced"}}
             without == {c \in P : PriceCall(c).basis = "not priced"}
             theirs == {c \in Log : c.tag = tag}
             h == [c \in P |-> PriceCall(c)]
             g == [r \in S |-> r.call]
  <1>1. P \subseteq Calls /\ P \subseteq Log /\ theirs \subseteq Calls
    BY ImportFields
  <1>2. \A r \in stored : r.call \in Log /\ r.call \in Calls /\ r = PriceCall(r.call)
    BY ImportFields DEF CostInv, CostTypeOK
  <1>3. \A c \in P : PriceCall(c) \in S
    <2> SUFFICES ASSUME NEW c \in P PROVE PriceCall(c) \in S
      OBVIOUS
    <2>1. PICK r \in stored : r.call = c
      BY DEF Have
    <2>2. r = PriceCall(c) /\ r.call.tag = tag
      BY <1>2, <2>1
    <2> QED
      BY <2>1, <2>2 DEF Tagged
  <1>4. \A c \in P : PriceCall(c).call = c /\ PriceCall(c).cost \in Nat
    BY <1>1, CallFields
  <1>5. \A r \in S : r \in stored /\ r.call \in theirs /\ r.cost \in Nat
    <2> SUFFICES ASSUME NEW r \in S PROVE r \in stored /\ r.call \in theirs /\ r.cost \in Nat
      OBVIOUS
    <2>1. r \in stored /\ r.call.tag = tag
      BY DEF Tagged
    <2>2. r.call \in Log /\ r.call \in Calls /\ r = PriceCall(r.call)
      BY <1>2, <2>1
    <2>3. PriceCall(r.call).cost \in Nat
      BY <2>2, CallFields
    <2> QED
      BY <2>1, <2>2, <2>3
  <1>6. IsFiniteSet(P) /\ IsFiniteSet(theirs) /\ Cardinality(P) \in Nat /\ Cardinality(theirs) \in Nat
    BY <1>1, PartOfCalls
  <1>7. h \in Injection(P, S)
    <2>1. h \in [P -> S]
      BY <1>3
    <2>2. \A a, b \in P : h[a] = h[b] => a = b
      BY <1>4
    <2> QED
      BY <2>1, <2>2 DEF Injection, IsInjective
  <1>8. g \in Injection(S, theirs)
    <2>1. g \in [S -> theirs]
      BY <1>5
    <2>2. \A a, b \in S : g[a] = g[b] => a = b
      BY <1>2, <1>5
    <2> QED
      BY <2>1, <2>2 DEF Injection, IsInjective
  <1>9. IsFiniteSet(S) /\ Cardinality(S) \in Nat /\ Cardinality(S) <= Cardinality(theirs)
    <2> HIDE DEF S, theirs, g
    <2>1. IsFiniteSet(S) /\ Cardinality(S) <= Cardinality(theirs)
      BY <1>6, <1>8, FS_Injection
    <2> QED
      BY <2>1, FS_CardinalityType
  <1>10. Cardinality(P) <= Cardinality(S)
    <2> HIDE DEF S, h
    <2> QED
      BY <1>7, <1>9, FS_Injection
  <1>11. Cardinality(unpriced) >= Cardinality(without)
    <2> DEFINE k == [c \in without |-> PriceCall(c)]
    <2>1. k \in [without -> unpriced]
      BY <1>3
    <2>2. \A a, b \in without : k[a] = k[b] => a = b
      BY <1>4
    <2>3. k \in Injection(without, unpriced)
      BY <2>1, <2>2 DEF Injection, IsInjective
    <2>4. IsFiniteSet(unpriced) /\ unpriced \subseteq S
      BY <1>9, FS_Subset
    <2> HIDE DEF k, without, unpriced
    <2>5. IsFiniteSet(without) /\ Cardinality(without) <= Cardinality(unpriced)
      BY <2>3, <2>4, FS_Injection
    <2>6. Cardinality(without) \in Nat /\ Cardinality(unpriced) \in Nat
      BY <2>4, <2>5, FS_CardinalityType
    <2> QED
      BY <2>5, <2>6
  <1>12. MapThenSumSet(LAMBDA r : r.cost, S) >= MapThenSumSet(LAMBDA c : PriceCall(c).cost, P)
    <2> DEFINE F == [r \in S |-> r.cost]
               G == [c \in P |-> PriceCall(c).cost]
    <2>1. PICK w : Sums(w, S, F) /\ MapThenSumSet(LAMBDA r : r.cost, S) = w[S]
      <3> HIDE DEF S
      <3> QED
        BY <1>5, <1>9, AmountIs
    <2>2. PICK v : Sums(v, P, G) /\ MapThenSumSet(LAMBDA c : PriceCall(c).cost, P) = v[P]
      BY <1>4, <1>6, CostOfCalls
    <2>3. F \in [S -> Nat] /\ G \in [P -> Nat]
      BY <1>4, <1>5
    <2>4. \A c \in P : G[c] <= F[h[c]]
      BY <1>3, <1>4
    <2>5. w[S] \in Nat /\ v[P] \in Nat
      BY <2>1, <2>2 DEF Sums
    <2> HIDE DEF F, G, S, h
    <2>6. v[P] <= w[S]
      BY <1>6, <1>7, <1>9, <2>1, <2>2, <2>3, <2>4, SumBelow
    <2> QED
      BY <2>1, <2>2, <2>5, <2>6
  <1> HIDE DEF S, unpriced, without, theirs
  <1>13. Cardinality(S) \in Cardinality(P)..Cardinality(theirs)
    BY <1>6, <1>9, <1>10
  <1> QED
    BY <1>11, <1>12, <1>13 DEF S, unpriced, without, theirs

LEMMA FigureFollows == CostInv => FigureIsComplete
  <1> SUFFICES ASSUME CostInv, NEW tag, Slot(Tagged(tag)).state # "not_available", ~Slot(Tagged(tag)).stale
               PROVE  LET slot == Slot(Tagged(tag))
                          promised == Promised(tag, clock - Stale)
                          without == {c \in promised : PriceCall(c).basis = "not priced"}
                      IN  /\ promised \subseteq Have
                          /\ slot.calls \in Cardinality(promised)..Cardinality({c \in Log : c.tag = tag})
                          /\ slot.unpriced >= Cardinality(without)
                          /\ slot.state = "measured" =>
                                slot.amount >= MapThenSumSet(LAMBDA c : PriceCall(c).cost, promised)
    BY DEF FigureIsComplete
  <1> DEFINE S == Tagged(tag)
             slot == Slot(S)
             amount == MapThenSumSet(LAMBDA r : r.cost, S)
             unpriced == {r \in S : r.basis \in {"not priced"}}
             promised == Promised(tag, clock - Stale)
             without == {c \in promised : PriceCall(c).basis = "not priced"}
             what == IF Of(S, {"litellm", "estimated"}) = 0 /\ Of(S, {"not priced"}) > 0 THEN "not_measured" ELSE "measured"
             full == [state |-> what, stale |-> State = "stale", calls |-> Cardinality(S),
                      unpriced |-> Of(S, {"not priced"}), amount |-> amount]
  <1>1. /\ slot = IF State = "never" THEN [state |-> "not_available"] ELSE full
        /\ slot.state # "not_available" /\ ~slot.stale
    BY DEF Slot
  <1>2. /\ full.stale <=> State = "stale"
        /\ full.calls = Cardinality(S) /\ full.unpriced = Of(S, {"not priced"}) /\ full.amount = amount
    OBVIOUS
  <1> HIDE DEF slot, full
  <1>3. State # "never" /\ slot = full
    BY <1>1
  <1>4. State = "fresh"
    <2>1. State # "stale"
      BY <1>1, <1>2, <1>3
    <2> QED
      BY <1>3, <2>1 DEF State
  <1>5. slot.calls = Cardinality(S) /\ slot.unpriced = Cardinality(unpriced) /\ slot.amount = amount
    BY <1>2, <1>3 DEF Of
  <1>6. promised \subseteq Have /\ \A c \in promised : c.tag = tag
    BY <1>4, PromisesAreKept DEF Promised
  <1>7. /\ Cardinality(S) \in Cardinality(promised)..Cardinality({c \in Log : c.tag = tag})
        /\ Cardinality(unpriced) >= Cardinality(without)
        /\ amount >= MapThenSumSet(LAMBDA c : PriceCall(c).cost, promised)
    <2> HIDE DEF promised
    <2> QED
      BY <1>6, FigureCounts
  <1> HIDE DEF slot, amount, unpriced
  <1> QED
    BY <1>5, <1>6, <1>7 DEF slot, S

(* However late, out of order and interrupted the log is read, a figure    *)
(* shown without the words "may be incomplete" has every call it promises  *)
(* (cost_import.py, costs.py).                                             *)
THEOREM FiguresStayComplete == CostSpec => []FigureIsComplete
  <1>1. CostInv => FigureIsComplete
    BY FigureFollows
  <1> QED
    BY <1>1, ImportBegins, ImportStep, PTL DEF CostSpec

-----------------------------------------------------------------------------
(* Questions to the record.  A store only goes on: what is on record stays *)
(* on record, and an issue is recorded about what is.  A reader's reads    *)
(* all saw the store that its snapshot fixed.                              *)
FeatureKeys == {g.key : g \in Features}
IssueKeys == {i.key : i \in Issues}
Stores ==
    [is : [FeatureKeys -> {"unsent", "running", "delivered", "stopped"}], issue : [IssueKeys -> {"none", "open", "closed"}],
     calls : SUBSET ModelCalls, read : BOOLEAN, fresh : BOOLEAN]
Sound(s) ==
    /\ s \in Stores
    /\ \A i \in Issues : s.issue[i.key] # "none" => i.about \in Missions \/ i.about \in OnRecord(s)
Readers == [at : {"reading"}, question : Questions, snap : Stores, saw : Seq(Stores), passes : Int]
SawSnapshot ==
    /\ reader \in Readers /\ Sound(reader.snap)
    /\ \A i \in DOMAIN reader.saw : reader.saw[i] = reader.snap
ReadInv == Sound(store) /\ (reader = Idle \/ SawSnapshot)

LEMMA ReadInitially == ReadInit => ReadInv
  <1> SUFFICES ASSUME ReadInit PROVE Sound(store)
    BY DEF ReadInv, ReadInit
  <1>1. store \in Stores /\ store.issue = [k \in IssueKeys |-> "none"]
    <2> DEFINE was == [k \in FeatureKeys |-> "unsent"]
               none == [k \in IssueKeys |-> "none"]
    <2>1. store \in [is : {was}, issue : {none}, calls : {{}}, read : {FALSE}, fresh : BOOLEAN]
      BY DEF ReadInit, FeatureKeys, IssueKeys
    <2>2. /\ was \in [FeatureKeys -> {"unsent", "running", "delivered", "stopped"}]
          /\ none \in [IssueKeys -> {"none", "open", "closed"}]
      OBVIOUS
    <2> HIDE DEF was, none
    <2>3. store \in Stores /\ store.issue = none
      BY <2>1, <2>2 DEF Stores
    <2> QED
      BY <2>3 DEF none
  <1>2. \A i \in Issues : store.issue[i.key] = "none"
    BY <1>1 DEF IssueKeys
  <1> QED
    BY <1>1, <1>2 DEF Sound

LEMMA StoresGoOn ==
    ASSUME Sound(store), Passed(store)
    PROVE  Sound(store')
  <1> DEFINE s == store
             t == store'
  <1>0. /\ s.is \in [FeatureKeys -> {"unsent", "running", "delivered", "stopped"}]
        /\ s.issue \in [IssueKeys -> {"none", "open", "closed"}]
        /\ s.calls \subseteq ModelCalls /\ s.read \in BOOLEAN /\ s.fresh \in BOOLEAN
        /\ s \in Stores
        /\ \A i \in Issues : s.issue[i.key] # "none" => i.about \in Missions \/ i.about \in OnRecord(s)
    BY DEF Sound, Stores
  <1>1. ASSUME NEW g \in Features, NEW how \in {"running", "delivered", "stopped"},
               t = [s EXCEPT !.is[g.key] = how, !.fresh = TRUE]
        PROVE  Sound(t)
    <2>1. /\ t.is = [s.is EXCEPT ![g.key] = how] /\ t.fresh = TRUE
          /\ t.issue = s.issue /\ t.calls = s.calls /\ t.read = s.read
      BY <1>0, <1>1 DEF Stores
    <2>2. t \in Stores
      <3>1. t.is \in [FeatureKeys -> {"unsent", "running", "delivered", "stopped"}]
        BY <1>0, <2>1 DEF FeatureKeys
      <3>2. t = [is |-> t.is, issue |-> t.issue, calls |-> t.calls, read |-> t.read, fresh |-> t.fresh]
        BY <1>0, <1>1 DEF Stores
      <3> QED
        BY <1>0, <2>1, <3>1, <3>2 DEF Stores
    <2>3. OnRecord(s) \subseteq OnRecord(t)
      <3>1. \A k \in FeatureKeys : s.is[k] # "unsent" => t.is[k] # "unsent"
        BY <1>0, <1>1, <2>1
      <3> QED
        BY <3>1 DEF OnRecord, FeatureKeys
    <2> QED
      BY <1>0, <2>1, <2>2, <2>3 DEF Sound
  <1>2. ASSUME NEW i \in Issues, NEW what \in {"open", "closed"}, t = [s EXCEPT !.issue[i.key] = what, !.fresh = TRUE],
               i.about \in Missions \/ i.about \in OnRecord(s)
        PROVE  Sound(t)
    <2>1. /\ t.issue = [s.issue EXCEPT ![i.key] = what] /\ t.fresh = TRUE
          /\ t.is = s.is /\ t.calls = s.calls /\ t.read = s.read
      BY <1>0, <1>2 DEF Stores
    <2>2. t \in Stores
      <3>1. t.issue \in [IssueKeys -> {"none", "open", "closed"}]
        BY <1>0, <2>1 DEF IssueKeys
      <3>2. t = [is |-> t.is, issue |-> t.issue, calls |-> t.calls, read |-> t.read, fresh |-> t.fresh]
        BY <1>0, <1>2 DEF Stores
      <3> QED
        BY <1>0, <2>1, <3>1, <3>2 DEF Stores
    <2>3. OnRecord(t) = OnRecord(s)
      BY <2>1 DEF OnRecord
    <2>4. ASSUME NEW j \in Issues, t.issue[j.key] # "none" PROVE j.about \in Missions \/ j.about \in OnRecord(t)
      <3>1. CASE j.key = i.key
        BY <1>2, <2>3, <3>1, PagesAssumption
      <3>2. CASE j.key # i.key
        <4>1. t.issue[j.key] = s.issue[j.key]
          BY <1>0, <2>1, <3>2 DEF IssueKeys
        <4> QED
          BY <1>0, <2>3, <2>4, <4>1
      <3> QED
        BY <3>1, <3>2
    <2> QED
      BY <2>2, <2>4 DEF Sound
  <1>3. ASSUME NEW c \in ModelCalls, t = [s EXCEPT !.calls = @ \cup {c}, !.read = TRUE] PROVE Sound(t)
    <2>1. t.calls = s.calls \cup {c} /\ t.read = TRUE /\ t.is = s.is /\ t.issue = s.issue /\ t.fresh = s.fresh
      BY <1>0, <1>3 DEF Stores
    <2>2. t \in Stores
      <3>1. t = [is |-> t.is, issue |-> t.issue, calls |-> t.calls, read |-> t.read, fresh |-> t.fresh]
        BY <1>0, <1>3 DEF Stores
      <3> QED
        BY <1>0, <2>1, <3>1 DEF Stores
    <2>3. OnRecord(t) = OnRecord(s)
      BY <2>1 DEF OnRecord
    <2> QED
      BY <1>0, <2>1, <2>2, <2>3 DEF Sound
  <1>4. ASSUME t = [s EXCEPT !.fresh = TRUE] PROVE Sound(t)
    <2>1. t.calls = s.calls /\ t.read = s.read /\ t.is = s.is /\ t.issue = s.issue /\ t.fresh = TRUE
      BY <1>0, <1>4 DEF Stores
    <2>2. t \in Stores
      <3>1. t = [is |-> t.is, issue |-> t.issue, calls |-> t.calls, read |-> t.read, fresh |-> t.fresh]
        BY <1>0, <1>4 DEF Stores
      <3> QED
        BY <1>0, <2>1, <3>1 DEF Stores
    <2>3. OnRecord(t) = OnRecord(s)
      BY <2>1 DEF OnRecord
    <2> QED
      BY <1>0, <2>1, <2>2, <2>3 DEF Sound
  <1> DEFINE OneFeature == \E g \in Features : \E how \in {"running", "delivered", "stopped"} :
                              t = [s EXCEPT !.is[g.key] = how, !.fresh = TRUE]
             OneIssue == \E i \in Issues : \E what \in {"open", "closed"} :
                            /\ t = [s EXCEPT !.issue[i.key] = what, !.fresh = TRUE]
                            /\ i.about \in Missions \/ i.about \in OnRecord(s)
             OneCall == \E c \in ModelCalls : t = [s EXCEPT !.calls = @ \cup {c}, !.read = TRUE]
             Same == t = [s EXCEPT !.fresh = TRUE]
  <1>5. OneFeature \/ OneIssue \/ OneCall \/ Same
    <2>1. ASSUME NEW g \in Features, t = [s EXCEPT !.is[g.key] = "running", !.fresh = TRUE] PROVE OneFeature
      BY <2>1
    <2>2. ASSUME NEW g \in Features, t = [s EXCEPT !.is[g.key] = g.how, !.fresh = TRUE] PROVE OneFeature
      <3>1. g.how \in {"running", "delivered", "stopped"}
        BY PagesAssumption
      <3> QED
        BY <2>2, <3>1
    <2>3. ASSUME NEW i \in Issues, i.about \in Missions \/ i.about \in OnRecord(s),
                 t = [s EXCEPT !.issue[i.key] = "open", !.fresh = TRUE]
          PROVE  OneIssue
      BY <2>3
    <2>4. ASSUME NEW i \in Issues, s.issue[i.key] = "open", t = [s EXCEPT !.issue[i.key] = "closed", !.fresh = TRUE]
          PROVE  OneIssue
      BY <1>0, <2>4
    <2> HIDE DEF OneFeature, OneIssue
    <2> QED
      BY <2>1, <2>2, <2>3, <2>4 DEF Passed
  <1>6. CASE OneFeature
    <2>1. PICK g \in Features, how \in {"running", "delivered", "stopped"} : t = [s EXCEPT !.is[g.key] = how, !.fresh = TRUE]
      BY <1>6
    <2> HIDE DEF t
    <2> QED
      BY <1>1, <2>1 DEF t
  <1>7. CASE OneIssue
    <2>1. PICK i \in Issues, what \in {"open", "closed"} :
            /\ t = [s EXCEPT !.issue[i.key] = what, !.fresh = TRUE]
            /\ i.about \in Missions \/ i.about \in OnRecord(s)
      BY <1>7
    <2> QED
      BY <1>2, <2>1
  <1> HIDE DEF OneFeature, OneIssue
  <1> QED
    BY <1>3, <1>4, <1>5, <1>6, <1>7

LEMMA ReadSteps == ReadInv /\ [ReadNext]_readVars => ReadInv'
  <1> SUFFICES ASSUME ReadInv, [ReadNext]_readVars PROVE ReadInv'
    OBVIOUS
  <1> USE DEF ReadInv
  <1>1. CASE Pass
    <2>1. Sound(store)'
      BY <1>1, StoresGoOn DEF Pass, Sound, OnRecord
    <2>2. CASE reader = Idle /\ UNCHANGED reader
      BY <2>1, <2>2 DEF Idle
    <2>3. CASE reader # Idle /\ reader' = [reader EXCEPT !.passes = @ + 1]
      <3>1. SawSnapshot
        BY <2>3
      <3>2. reader' \in Readers /\ reader'.snap = reader.snap /\ reader'.saw = reader.saw
        BY <2>3, <3>1 DEF SawSnapshot, Readers
      <3> QED
        BY <2>1, <3>1, <3>2 DEF SawSnapshot, Sound, OnRecord
    <2> QED
      BY <1>1, <2>2, <2>3 DEF Pass
  <1>2. CASE OpenSnapshot
    <2>1. PICK q \in Questions : reader' = [at |-> "reading", question |-> q, snap |-> store, saw |-> <<>>, passes |-> 0]
      BY <1>2 DEF OpenSnapshot
    <2>2. store' = store /\ store \in Stores
      BY <1>2 DEF OpenSnapshot, Sound
    <2>3. reader' \in Readers /\ reader'.snap = store /\ DOMAIN reader'.saw = {}
      BY <2>1, <2>2 DEF Readers
    <2> QED
      BY <2>2, <2>3 DEF SawSnapshot, Sound, OnRecord
  <1>3. CASE Read
    <2>1. SawSnapshot /\ reader # Idle /\ reader' = [reader EXCEPT !.saw = Append(@, reader.snap)] /\ store' = store
      BY <1>3 DEF Read, Seen
    <2> DEFINE saw == reader.saw
               next == Append(saw, reader.snap)
    <2>2. reader \in Readers /\ saw \in Seq(Stores) /\ reader.snap \in Stores
      BY <2>1 DEF SawSnapshot, Readers
    <2>3. next \in Seq(Stores) /\ \A i \in DOMAIN next : next[i] = reader.snap
      <3>1. \A i \in DOMAIN saw : saw[i] = reader.snap
        BY <2>1 DEF SawSnapshot
      <3> HIDE DEF saw
      <3> QED
        BY <2>2, <3>1, AppendProperties
    <2>4. reader' \in Readers /\ reader'.saw = next /\ reader'.snap = reader.snap
      BY <2>1, <2>2, <2>3 DEF Readers
    <2> QED
      BY <2>1, <2>3, <2>4 DEF SawSnapshot, Sound, OnRecord
  <1>4. CASE UNCHANGED readVars
    BY <1>4 DEF readVars, SawSnapshot, Sound, OnRecord
  <1> QED
    BY <1>1, <1>2, <1>3, <1>4 DEF ReadNext

LEMMA ReadInvariant == ReadSpec => []ReadInv
  BY ReadInitially, ReadSteps, PTL DEF ReadSpec

LEMMA InTwoParts ==
    ASSUME NEW S, IsFiniteSet(S), NEW T, T \subseteq S
    PROVE  Cardinality(T) + Cardinality(S \ T) = Cardinality(S)
  <1>1. IsFiniteSet(T) /\ Cardinality(T) \in Nat /\ Cardinality(S) \in Nat
    BY PartIsFinite
  <1>2. S \cap T = T
    OBVIOUS
  <1>3. Cardinality(S \ T) = Cardinality(S) - Cardinality(S \cap T)
    BY FS_Difference
  <1> QED
    BY <1>1, <1>2, <1>3

LEMMA ListedAndMore ==
    ASSUME NEW S, IsFiniteSet(S)
    PROVE  Listed(S) \in Int /\ More(S) \in Int /\ Listed(S) + More(S) = Cardinality(S)
  <1> DEFINE n == Cardinality(S)
  <1>1. n \in Nat /\ MaxListed \in Nat
    BY FS_CardinalityType, ReadingAssumption
  <1>2. Listed(S) = Min({n, MaxListed}) /\ More(S) = n - Listed(S)
    BY DEF Listed, More
  <1> HIDE DEF n
  <1>3. Min({n, MaxListed}) = IF n <= MaxListed THEN n ELSE MaxListed
    BY <1>1, OfTwo
  <1> QED
    BY <1>1, <1>2, <1>3 DEF n

(* What is on record.                                                      *)
LEMMA RecordIs ==
    ASSUME NEW s, Sound(s)
    PROVE  /\ OnRecord(s) \subseteq Features /\ IsFiniteSet(OnRecord(s))
           /\ \A g \in OnRecord(s) : s.is[g.key] \in {"running", "delivered", "stopped"} /\ g.project \in Everything
           /\ \A i \in Issues : s.issue[i.key] \in {"none", "open", "closed"} /\ i.about.project \in Everything
           /\ \A P : In(s, P) \subseteq OnRecord(s) /\ IsFiniteSet(In(s, P))
           /\ \A P : OpenIssues(s, P) \subseteq Issues /\ IsFiniteSet(OpenIssues(s, P))
           /\ IsFiniteSet(Issues) /\ IsFiniteSet(Features)
  <1>1. OnRecord(s) \subseteq Features /\ IsFiniteSet(OnRecord(s)) /\ IsFiniteSet(Issues) /\ IsFiniteSet(Features)
    <2>1. OnRecord(s) \subseteq Features
      BY DEF OnRecord
    <2> QED
      BY <2>1, PagesAssumption, PartIsFinite
  <1>2. ASSUME NEW g \in OnRecord(s)
        PROVE  s.is[g.key] \in {"running", "delivered", "stopped"} /\ g.project \in Everything
    <2>1. s.is \in [FeatureKeys -> {"unsent", "running", "delivered", "stopped"}]
      BY DEF Sound, Stores
    <2>2. g \in Features /\ g.key \in FeatureKeys /\ s.is[g.key] # "unsent"
      BY DEF OnRecord, FeatureKeys
    <2>3. s.is[g.key] \in {"unsent", "running", "delivered", "stopped"}
      BY <2>1, <2>2
    <2> QED
      BY <2>2, <2>3 DEF Everything
  <1>3. ASSUME NEW i \in Issues
        PROVE  s.issue[i.key] \in {"none", "open", "closed"} /\ i.about.project \in Everything
    <2>1. s.issue \in [IssueKeys -> {"none", "open", "closed"}] /\ i.key \in IssueKeys
      BY DEF Sound, Stores, IssueKeys
    <2>2. i.about \in Features \cup Missions
      BY PagesAssumption
    <2> QED
      BY <2>1, <2>2 DEF Everything
  <1>4. ASSUME NEW P PROVE In(s, P) \subseteq OnRecord(s) /\ IsFiniteSet(In(s, P))
    <2>1. In(s, P) \subseteq OnRecord(s)
      BY DEF In
    <2> QED
      BY <1>1, <2>1, PartIsFinite
  <1>5. ASSUME NEW P PROVE OpenIssues(s, P) \subseteq Issues /\ IsFiniteSet(OpenIssues(s, P))
    <2>1. OpenIssues(s, P) \subseteq Issues
      BY DEF OpenIssues
    <2> QED
      BY <1>1, <2>1, PartIsFinite
  <1> QED
    BY <1>1, <1>2, <1>3, <1>4, <1>5

(* The record that a question is about.                                    *)
LEMMA AboutIs ==
    ASSUME NEW s, Sound(s), NEW q
    PROVE  /\ About(s, q).kind = "feature" => About(s, q).is \in OnRecord(s)
           /\ About(s, q).kind = "project" => About(s, q).is \in {g.project : g \in OnRecord(s)} \ {NoProject}
  <1> DEFINE features == FindFeatures(s, q.feature)
             projects == FindProjects(s, q.project)
             near == SuggestFeatures(s, q.feature)
  <1>1. features \subseteq OnRecord(s)
    BY DEF FindFeatures, BestOf
  <1>2. projects \subseteq {g.project : g \in OnRecord(s)} \ {NoProject}
    BY DEF FindProjects, BestOf
  <1>3. IsFiniteSet(features)
    BY <1>1, RecordIs, PartIsFinite
  <1>4. IsFiniteSet(projects)
    <2> DEFINE R == OnRecord(s)
               of == [g \in R |-> g.project]
               all == {of[g] : g \in R}
    <2>1. projects \subseteq all
      BY <1>2
    <2>2. IsFiniteSet(R)
      BY RecordIs
    <2> HIDE DEF R, of
    <2>3. IsFiniteSet(all)
      BY <2>2, MadeOf
    <2> HIDE DEF all
    <2> QED
      BY <2>1, <2>3, PartIsFinite
  <1>5. ASSUME NEW found, IsFiniteSet(found), Cardinality(found) = 1 PROVE (CHOOSE x \in found : TRUE) \in found
    <2>1. found # {}
      BY <1>5, FS_EmptySet
    <2> QED
      BY <2>1
  <1>6. About(s, q).kind = "feature" => /\ Cardinality(features) = 1
                                        /\ About(s, q).is = CHOOSE x \in features : TRUE
    BY DEF About, Only
  <1>7. About(s, q).kind = "project" => /\ Cardinality(projects) = 1
                                        /\ About(s, q).is = CHOOSE x \in projects : TRUE
    BY DEF About, Only
  <1> HIDE DEF features, projects
  <1>8. About(s, q).kind = "feature" => About(s, q).is \in features
    BY <1>3, <1>5, <1>6
  <1>9. About(s, q).kind = "project" => About(s, q).is \in projects
    BY <1>4, <1>5, <1>7
  <1> QED
    BY <1>1, <1>2, <1>8, <1>9

(* What is left out of a list, with what is listed, is all there is.        *)
LEMMA RecentIs ==
    ASSUME NEW I, IsFiniteSet(I)
    PROVE  /\ Recent(I).listed = {i \in I : ~Old(i)} /\ IsFiniteSet(Recent(I).listed) /\ Recent(I).hidden \in Nat
           /\ Recent(I).hidden = Cardinality({i \in I : Old(i)})
  <1>1. {i \in I : ~Old(i)} \subseteq I /\ {i \in I : Old(i)} \subseteq I
    OBVIOUS
  <1>2. IsFiniteSet({i \in I : ~Old(i)})
    BY <1>1, PartIsFinite
  <1>3. Cardinality({i \in I : Old(i)}) \in Nat
    BY <1>1, PartIsFinite
  <1> QED
    BY <1>2, <1>3 DEF Recent

LEMMA SummaryAddsUp ==
    ASSUME NEW s, Sound(s), NEW saw, saw[1] = s, saw[2] = s, NEW p, NEW w
    PROVE  LET overview == ProjectSummary(saw, p, w)
           IN  /\ overview.count = overview.listed + overview.more + overview.hidden
               /\ overview.period_delivered <= overview.delivered_total /\ overview.delivered_7d <= overview.delivered_total
               /\ overview.in_progress + overview.delivered_total <= overview.known
  <1> DEFINE overview == ProjectSummary(saw, p, w)
             I == OpenIssues(s, {p})
             L == Recent(I).listed
             h == Recent(I).hidden
             D == Delivered(s, {p})
             G == InProgress(s, {p})
             K == In(s, {p})
             week == {g \in D : g.ends >= Now - 7}
             period == DeliveredIn(s, w, {p})
  <1>1. /\ overview.count = Cardinality(L) + h /\ overview.hidden = h
        /\ overview.listed = Listed(L) /\ overview.more = More(L)
        /\ overview.delivered_total = Cardinality(D) /\ overview.delivered_7d = Cardinality(week)
        /\ overview.in_progress = Cardinality(G)
        /\ overview.period_delivered = Cardinality(period) /\ overview.known = Cardinality(K)
    BY DEF ProjectSummary, ProjectView
  <1>2. IsFiniteSet(L) /\ h \in Nat
    <2>1. IsFiniteSet(I)
      BY RecordIs
    <2> HIDE DEF I
    <2> QED
      BY <2>1, RecentIs
  <1>3. Listed(L) \in Int /\ More(L) \in Int /\ Listed(L) + More(L) = Cardinality(L)
    <2> HIDE DEF L
    <2> QED
      BY <1>2, ListedAndMore
  <1>4. IsFiniteSet(K) /\ D \subseteq K /\ G \subseteq K /\ D \cap G = {}
    <2>1. IsFiniteSet(K)
      BY RecordIs
    <2> QED
      BY <2>1 DEF Delivered, InProgress
  <1>5. week \subseteq D /\ period \subseteq D
    BY DEF DeliveredIn
  <1> HIDE DEF L, h, D, G, K, week, period
  <1>6. IsFiniteSet(D) /\ Cardinality(D) \in Nat
    BY <1>4, PartIsFinite
  <1>7. Cardinality(week) <= Cardinality(D) /\ Cardinality(period) <= Cardinality(D)
    BY <1>5, <1>6, PartIsFinite
  <1>8. Cardinality(G) + Cardinality(D) <= Cardinality(K)
    <2> DEFINE rest == K \ D
    <2>1. G \subseteq rest /\ rest \subseteq K
      BY <1>4
    <2>2. IsFiniteSet(rest) /\ Cardinality(D) + Cardinality(rest) = Cardinality(K)
      BY <1>4, <2>1, PartIsFinite, InTwoParts
    <2> HIDE DEF rest
    <2>3. Cardinality(G) <= Cardinality(rest) /\ Cardinality(G) \in Nat /\ Cardinality(rest) \in Nat
      BY <2>1, <2>2, PartIsFinite
    <2> QED
      BY <1>6, <2>2, <2>3
  <1>9. overview.count = overview.listed + overview.more + overview.hidden
    BY <1>1, <1>2, <1>3
  <1> HIDE DEF overview
  <1>10. /\ overview.period_delivered <= overview.delivered_total /\ overview.delivered_7d <= overview.delivered_total
         /\ overview.in_progress + overview.delivered_total <= overview.known
    BY <1>1, <1>7, <1>8
  <1> QED
    BY <1>9, <1>10 DEF overview

LEMMA IssuesAddUp ==
    ASSUME NEW s, Sound(s), NEW saw, saw[2] = s, saw[3] = s, NEW about, about.kind # "project" => about.is = Everything
    PROVE  LET issues == OpenIssuesAnswer(saw, about) IN issues.count = issues.listed + issues.more + issues.hidden
  <1> DEFINE issues == OpenIssuesAnswer(saw, about)
             p == about.is
             all == OpenIssues(s, Everything)
             these == {i \in Recent(all).listed : InScope(i.about.project, ScopeOf(about))}
             I == OpenIssues(s, {p})
  <1>1. IsFiniteSet(all) /\ IsFiniteSet(I)
    BY RecordIs
  <1>2. /\ Recent(all).listed = {i \in all : ~Old(i)} /\ IsFiniteSet(Recent(all).listed) /\ Recent(all).hidden \in Nat
        /\ Recent(I).listed = {i \in I : ~Old(i)} /\ IsFiniteSet(Recent(I).listed) /\ Recent(I).hidden \in Nat
    <2> HIDE DEF all, I
    <2> QED
      BY <1>1, RecentIs
  <1>3. IsFiniteSet(these)
    <2>1. these \subseteq Recent(all).listed
      OBVIOUS
    <2> HIDE DEF all, these
    <2> QED
      BY <1>2, <2>1, PartIsFinite
  <1>4. Listed(these) \in Int /\ More(these) \in Int /\ Listed(these) + More(these) = Cardinality(these)
    <2> HIDE DEF these
    <2> QED
      BY <1>3, ListedAndMore
  <1>5. issues.listed = Listed(these) /\ issues.more = More(these)
    BY DEF OpenIssuesAnswer, IssuesView
  <1>6. CASE about.kind = "project"
    <2>1. these = Recent(I).listed
      <3>1. these = {i \in all : ~Old(i) /\ i.about.project = p}
        BY <1>2, <1>6 DEF ScopeOf, InScope
      <3>2. all = {i \in Issues : s.issue[i.key] = "open" /\ i.about.project \in Everything}
            /\ I = {i \in Issues : s.issue[i.key] = "open" /\ i.about.project = p}
        BY DEF OpenIssues, InScope
      <3>3. \A i \in Issues : i.about.project \in Everything
        BY RecordIs
      <3> HIDE DEF all, I, these
      <3> QED
        BY <1>2, <3>1, <3>2, <3>3
    <2>2. issues.count = Cardinality(Recent(I).listed) + Recent(I).hidden /\ issues.hidden = Recent(I).hidden
      BY <1>6 DEF OpenIssuesAnswer, ProjectView
    <2> HIDE DEF issues, these, I
    <2> QED
      BY <1>2, <1>4, <1>5, <2>1, <2>2 DEF issues
  <1>7. CASE about.kind # "project"
    <2>1. issues.count = Cardinality(these) + Recent(all).hidden /\ issues.hidden = Recent(all).hidden
      BY <1>7 DEF OpenIssuesAnswer, IssuesView
    <2> HIDE DEF issues, these, all
    <2> QED
      BY <1>2, <1>4, <1>5, <2>1 DEF issues
  <1> QED
    BY <1>6, <1>7

LEMMA CostsAddUp ==
    ASSUME NEW s, Sound(s), NEW p, NEW w
    PROVE  LET cost == CostSummary(s, p, w)
               mine == In(s, {p})
           IN  /\ cost.left_out = Cardinality({g \in mine : BeforeTagging(g)})
               /\ cost.spend.calls # {} => cost.left_out < Cardinality(mine) \/ MissionsOf(p) # {}
  <1> DEFINE cost == CostSummary(s, p, w)
             mine == In(s, {p})
             out == mine \ Measured(s, p)
  <1>1. cost.left_out = Cardinality(out) /\ cost.spend = TaggedSpend(s, {p}, w)
    BY DEF CostSummary
  <1>2. out = {g \in mine : BeforeTagging(g)}
    BY DEF Measured
  <1>3. ASSUME cost.spend.calls # {}, MissionsOf(p) = {} PROVE cost.left_out < Cardinality(mine)
    <2>1. HasWorkSinceTagging(s, p)
      BY <1>1, <1>3 DEF TaggedSpend
    <2>2. PICK g \in mine : ~BeforeTagging(g)
      BY <1>3, <2>1 DEF HasWorkSinceTagging
    <2>3. IsFiniteSet(mine)
      BY RecordIs
    <2>4. out \subseteq mine /\ g \notin out
      BY <1>2, <2>2
    <2> HIDE DEF mine, out
    <2>5. Cardinality(out) <= Cardinality(mine) /\ Cardinality(out) # Cardinality(mine)
      BY <2>2, <2>3, <2>4, FS_Subset
    <2>6. Cardinality(out) \in Nat /\ Cardinality(mine) \in Nat
      BY <2>3, <2>4, PartIsFinite
    <2> QED
      BY <1>1, <2>5, <2>6
  <1> QED
    BY <1>1, <1>2, <1>3

LEMMA TimesAddUp ==
    ASSUME NEW S, IsFiniteSet(S)
    PROVE  LET time == SumTime(S) IN Cardinality(time.features) + time.left_out = Cardinality(S)
  <1> DEFINE known == {g \in S : g.time # Unmeasured}
  <1>1. SumTime(S).features = known /\ SumTime(S).left_out = Cardinality(S \ known)
    BY DEF SumTime
  <1>2. known \subseteq S
    OBVIOUS
  <1> HIDE DEF known
  <1>3. Cardinality(known) + Cardinality(S \ known) = Cardinality(S)
    BY <1>2, InTwoParts
  <1> QED
    BY <1>1, <1>3

LEMMA ReportIsMine ==
    ASSUME NEW s, Sound(s), NEW saw, saw[2] = s, NEW about, NEW w
    PROVE  LET report == ReportAnswer(saw, about, w)
           IN  report.delivered \cup report.in_flight \subseteq In(s, ScopeOf(about))
  <1> DEFINE report == WeeklyReport(s, Operator, w)
             scope == ScopeOf(about)
  <1>1. report.delivered \subseteq OnRecord(s) /\ report.in_flight \subseteq OnRecord(s)
    BY DEF WeeklyReport, DeliveredIn, Delivered, InProgress, In
  <1>2. /\ ReportAnswer(saw, about, w).delivered = {g \in report.delivered : InScope(g.project, scope)}
        /\ ReportAnswer(saw, about, w).in_flight = {g \in report.in_flight : InScope(g.project, scope)}
    BY DEF ReportAnswer
  <1> HIDE DEF report, scope
  <1> QED
    BY <1>1, <1>2 DEF In, scope

LEMMA DeliveredAddsUp ==
    ASSUME NEW s, Sound(s), NEW saw, saw[2] = s, NEW about, NEW w,
           about.kind = "project" \/ (about.kind = "every" /\ about.is = Everything)
    PROVE  LET delivered == DeliveredAnswer(saw, about, w)
           IN  /\ delivered.rows = DeliveredIn(s, w, ScopeOf(about))
               /\ delivered.other_endings \subseteq In(s, ScopeOf(about)) \ delivered.rows
  <1> DEFINE scope == ScopeOf(about)
             these == {g \in DeliveredIn(s, w, Everything) : InScope(g.project, scope)}
             others == IF about.kind = "project" THEN {} ELSE OtherEndings(s, w)
  <1>1. DeliveredAnswer(saw, about, w).rows = these /\ DeliveredAnswer(saw, about, w).other_endings = others
    BY DEF DeliveredAnswer
  <1>2. \A g \in OnRecord(s) : g.project \in Everything
    BY RecordIs
  <1>3. these = DeliveredIn(s, w, scope)
    <2> HIDE DEF scope
    <2> QED
      BY <1>2 DEF DeliveredIn, Delivered, In, InScope
  <1>4. others \subseteq In(s, scope) \ these
    <2>1. CASE about.kind = "project"
      BY <2>1
    <2>2. CASE about.kind # "project"
      <3>1. scope = Everything /\ others = OtherEndings(s, w)
        BY <2>2 DEF ScopeOf
      <3>2. OtherEndings(s, w) \subseteq In(s, Everything)
        BY <1>2 DEF OtherEndings, In, InScope
      <3>3. OtherEndings(s, w) \cap these = {}
        BY DEF OtherEndings, DeliveredIn, Delivered
      <3> HIDE DEF others, scope, these
      <3> QED
        BY <3>1, <3>2, <3>3
    <2> QED
      BY <2>1, <2>2
  <1> QED
    BY <1>1, <1>3, <1>4

LEMMA StatusAddsUp ==
    ASSUME NEW s, Sound(s), NEW saw, saw[1] = s, saw[2] = s, NEW f \in OnRecord(s)
    PROVE  LET answer == FeatureStatus(saw, f)
           IN  /\ answer.page /\ answer.stopped = (answer.status = "stopped")
               /\ answer.delivered_on = (answer.status = "delivered")
  <1> DEFINE how == s.is[f.key]
  <1>1. how \in {"running", "delivered", "stopped"}
    BY RecordIs
  <1>2. /\ FeatureStatus(saw, f).page = (f \in OnRecord(s)) /\ FeatureStatus(saw, f).status = how
        /\ FeatureStatus(saw, f).stopped = (how \notin {"running", "delivered"})
        /\ FeatureStatus(saw, f).delivered_on = (how = "delivered")
    BY DEF FeatureStatus
  <1> HIDE DEF how
  <1> QED
    BY <1>1, <1>2

(* The answer of reads that all saw one store.                              *)
LEMMA OneStoreAddsUp ==
    ASSUME NEW s, Sound(s), NEW saw, saw[1] = s, saw[2] = s, saw[3] = s, NEW q
    PROVE  AddsUp(q, saw)
  <1> DEFINE about == About(s, q)
             mine == In(s, ScopeOf(about))
             w == q.window
  <1>1. /\ about.kind = "feature" => about.is \in OnRecord(s)
        /\ about.kind = "every" => about.is = Everything
        /\ about.kind = "project" => ScopeOf(about) = {about.is}
    <2>1. about.kind = "feature" => about.is \in OnRecord(s)
      BY AboutIs
    <2>2. about.kind = "every" => about.is = Everything
      BY DEF About, Only
    <2> QED
      BY <2>1, <2>2 DEF ScopeOf
  <1> HIDE DEF about
  <1>2. ASSUME about.kind = "feature"
        PROVE  LET answer == FeatureStatus(saw, about.is)
               IN  /\ answer.page /\ answer.stopped = (answer.status = "stopped")
                   /\ answer.delivered_on = (answer.status = "delivered")
    BY <1>1, <1>2, StatusAddsUp
  <1>3. LET overview == ProjectSummary(saw, about.is, w)
        IN  /\ overview.count = overview.listed + overview.more + overview.hidden
            /\ overview.period_delivered <= overview.delivered_total /\ overview.delivered_7d <= overview.delivered_total
            /\ overview.in_progress + overview.delivered_total <= overview.known
    BY SummaryAddsUp
  <1>4. ASSUME about.kind \in {"project", "every"}
        PROVE  LET issues == OpenIssuesAnswer(saw, about) IN issues.count = issues.listed + issues.more + issues.hidden
    <2>1. about.kind # "project" => about.is = Everything
      BY <1>1, <1>4
    <2> QED
      BY <2>1, IssuesAddUp
  <1>5. LET report == ReportAnswer(saw, about, w) IN report.delivered \cup report.in_flight \subseteq mine
    BY ReportIsMine
  <1>6. ASSUME about.kind \in {"project", "every"}
        PROVE  LET delivered == DeliveredAnswer(saw, about, w)
               IN  /\ delivered.rows = DeliveredIn(s, w, ScopeOf(about))
                   /\ delivered.other_endings \subseteq mine \ delivered.rows
    <2>1. about.kind = "project" \/ (about.kind = "every" /\ about.is = Everything)
      BY <1>1, <1>6
    <2> QED
      BY <2>1, DeliveredAddsUp
  <1>7. ASSUME about.kind = "project"
        PROVE  LET cost == CostAnswer(saw, about, w)
               IN  /\ cost.left_out = Cardinality({g \in mine : BeforeTagging(g)})
                   /\ cost.spend.calls # {} => cost.left_out < Cardinality(mine) \/ MissionsOf(about.is) # {}
    <2>1. CostAnswer(saw, about, w) = CostSummary(s, about.is, w) /\ mine = In(s, {about.is})
      BY <1>1, <1>7 DEF CostAnswer
    <2> DEFINE p == about.is
    <2>2. LET cost == CostSummary(s, p, w)
          IN  /\ cost.left_out = Cardinality({g \in In(s, {p}) : BeforeTagging(g)})
              /\ cost.spend.calls # {} => cost.left_out < Cardinality(In(s, {p})) \/ MissionsOf(p) # {}
      <3> HIDE DEF p
      <3> QED
        BY CostsAddUp
    <2>3. {g \in mine : BeforeTagging(g)} = {g \in In(s, {p}) : BeforeTagging(g)}
      BY <2>1
    <2> HIDE DEF mine
    <2> QED
      BY <2>1, <2>2, <2>3
  <1>8. ASSUME about.kind = "feature" PROVE CostAnswer(saw, about, w).spend.calls \subseteq s.calls
    <2>1. CostAnswer(saw, about, w).spend = FeatureSpend(s, about.is, w)
      BY <1>8 DEF CostAnswer
    <2> QED
      BY <2>1 DEF FeatureSpend
  <1>9. ASSUME about.kind = "project"
        PROVE  LET time == TimeAnswer(saw, about, w)
               IN  Cardinality(time.features) + time.left_out = Cardinality({g \in mine : Within(g.sent, w)})
    <2> DEFINE S == {g \in mine : Within(g.sent, w)}
    <2>1. TimeAnswer(saw, about, w) = SumTime(S)
      BY <1>1, <1>9 DEF TimeAnswer, TimeSummary
    <2>2. IsFiniteSet(mine) /\ S \subseteq mine
      BY RecordIs
    <2> HIDE DEF S, mine
    <2>3. IsFiniteSet(S)
      BY <2>2, PartIsFinite
    <2> QED
      BY <2>1, <2>3, TimesAddUp DEF S
  <1>10. About(saw[1], q) = about
    BY DEF about
  <1> HIDE DEF mine
  <1> QED
    BY <1>2, <1>3, <1>4, <1>5, <1>6, <1>7, <1>8, <1>9, <1>10 DEF AddsUp, mine

(* However passes commit while a question is read, its answer adds up, and *)
(* says so when the record is stale: AnswersAddUp.  Every read of it saw   *)
(* the one store its snapshot fixed.                                       *)
LEMMA SnapshotsAddUp == ReadInv => AnswersAddUp
  <1> SUFFICES ASSUME SawSnapshot, Len(reader.saw) = Reads
               PROVE  AddsUp(reader.question, reader.saw) /\ reader.saw[4].fresh = reader.saw[2].fresh
    BY DEF ReadInv, AnswersAddUp
  <1> DEFINE saw == reader.saw
             s == reader.snap
  <1>1. saw \in Seq(Stores) /\ Sound(s) /\ Len(saw) = 4
    BY DEF SawSnapshot, Readers, Reads
  <1>2. DOMAIN saw = 1..4
    BY <1>1, LenProperties
  <1>3. saw[1] = s /\ saw[2] = s /\ saw[3] = s /\ saw[4] = s
    BY <1>2 DEF SawSnapshot
  <1> HIDE DEF saw, s
  <1>4. AddsUp(reader.question, saw)
    BY <1>1, <1>3, OneStoreAddsUp
  <1> QED
    BY <1>3, <1>4 DEF saw

THEOREM AnswersAlwaysAddUp == ReadSpec => []AnswersAddUp
  BY ReadInvariant, SnapshotsAddUp, PTL

-----------------------------------------------------------------------------
(* The pages and reports made of one store.                                *)

(* A project's row and its page.                                           *)
LEMMA RowIsPage ==
    ASSUME NEW s, Sound(s), NEW p
    PROVE  LET row == ProjectRow(s, p)
               page == ProjectView(s, p)
           IN  /\ row.in_progress = page.in_progress /\ row.delivered = page.delivered_total
               /\ row.open_issues = page.open_issues_total
               /\ CostSummary(s, p, AllTime).spend = page.spend /\ TimeSummary(s, p, AllTime) = page.time
               /\ Cardinality(page.time.features) + page.time.left_out = Cardinality(In(s, {p}))
  <1> DEFINE row == ProjectRow(s, p)
             page == ProjectView(s, p)
             mine == In(s, {p})
  <1>1. /\ row.in_progress = page.in_progress /\ row.delivered = page.delivered_total
        /\ row.open_issues = page.open_issues_total
    BY DEF ProjectRow, ProjectView
  <1>2. CostSummary(s, p, AllTime).spend = page.spend
    BY DEF ProjectView, CostSummary
  <1>3. page.time = SumTime(mine) /\ IsFiniteSet(mine)
    BY RecordIs DEF ProjectView
  <1>4. {g \in mine : Within(g.sent, AllTime)} = mine
    <2>1. ASSUME NEW g \in mine PROVE Within(g.sent, AllTime)
      <3>1. g.sent \in 0..Now /\ Now \in Nat
        BY PagesAssumption DEF In, OnRecord
      <3> QED
        BY <3>1 DEF Within, AllTime
    <2> QED
      BY <2>1
  <1>5. TimeSummary(s, p, AllTime) = page.time
    BY <1>3, <1>4 DEF TimeSummary
  <1>6. LET time == SumTime(mine) IN Cardinality(time.features) + time.left_out = Cardinality(mine)
    <2> HIDE DEF mine
    <2> QED
      BY <1>3, TimesAddUp
  <1> HIDE DEF row, page, mine
  <1>7. Cardinality(page.time.features) + page.time.left_out = Cardinality(mine)
    BY <1>3, <1>6
  <1> QED
    BY <1>1, <1>2, <1>5, <1>7 DEF row, page, mine

(* The calls of a project in a period: before tagging started there are    *)
(* none with a tag.                                                        *)
LEMMA TagsAreLate ==
    ASSUME NEW s, Sound(s), NEW p, NEW c \in s.calls, c.tag \in ProjectTags(s, p)
    PROVE  c.tag # "" /\ c.at \in 0..Now /\ c.at >= TaggingStarted
  <1>1. c \in ModelCalls
    BY DEF Sound, Stores
  <1>2. Measured(s, p) \cup MissionsOf(p) \subseteq Features \cup Missions
    BY DEF Measured, In, OnRecord, MissionsOf
  <1>3. c.tag # ""
    BY <1>2, PagesAssumption DEF ProjectTags
  <1> QED
    BY <1>1, <1>3, PagesAssumption

ProjectCalls(s, p, w) ==
    IF s.read /\ HasWorkSinceTagging(s, p) THEN {c \in s.calls : Within(c.at, w) /\ c.tag \in ProjectTags(s, p)} ELSE {}

LEMMA SpendIs ==
    ASSUME NEW s, Sound(s), NEW p \in Projects(s), NEW w, w.to \in Int
    PROVE  TaggedSpend(s, {p}, w).calls = ProjectCalls(s, p, w)
  <1> DEFINE tagged == {c \in s.calls : Within(c.at, w) /\ c.tag \in ProjectTags(s, p)}
  <1>1. TaggingStarted \in Int
    BY PagesAssumption
  <1>2. w.to <= TaggingStarted => tagged = {}
    <2>1. ASSUME w.to <= TaggingStarted, NEW c \in tagged PROVE FALSE
      <3>1. c.at \in 0..Now /\ c.at >= TaggingStarted
        BY TagsAreLate
      <3>2. c.at < w.to
        BY DEF Within
      <3>3. Now \in Nat
        BY PagesAssumption
      <3> HIDE DEF tagged
      <3> QED
        BY <1>1, <2>1, <3>1, <3>2, <3>3
    <2> QED
      BY <2>1
  <1>3. {p} \cap Projects(s) # {}
    OBVIOUS
  <1>4. {c \in s.calls : Within(c.at, w) /\ \E r \in {p} : c.tag \in ProjectTags(s, r)} = tagged
    OBVIOUS
  <1>5. (\E r \in {p} : HasWorkSinceTagging(s, r)) <=> HasWorkSinceTagging(s, p)
    OBVIOUS
  <1> HIDE DEF tagged
  <1>6. TaggedSpend(s, {p}, w).calls =
          IF ~s.read \/ w.to <= TaggingStarted \/ ~HasWorkSinceTagging(s, p) THEN {} ELSE tagged
    BY <1>3, <1>4, <1>5 DEF TaggedSpend
  <1>7. ProjectCalls(s, p, w) = IF s.read /\ HasWorkSinceTagging(s, p) THEN tagged ELSE {}
    BY DEF ProjectCalls, tagged
  <1> QED
    BY <1>2, <1>6, <1>7

(* The weeks of a project's page follow each other, the last with today.    *)
WeekBack(n) == WeekOf(Now - 7 * n)
FirstDay == WeekOf(Now - 7 * (ProjectWeeks - 1)).from

LEMMA WeekIs ==
    \E monday \in Int :
        /\ monday <= Now /\ Now < monday + 7
        /\ \A n \in 0..7 : WeekBack(n) = [from |-> monday - 7 * n, to |-> monday - 7 * n + 7]
        /\ FirstDay = monday - 49
  <1> DEFINE rest == Now % 7
             monday == Now - rest
  <1>1. Now \in Nat /\ rest \in 0..6
    <2>1. \A k \in Int : k % 7 \in 0..6
      BY Z3
    <2>2. Now \in Nat
      BY PagesAssumption
    <2>3. Now \in Int
      BY <2>2
    <2>4. Now % 7 \in 0..6
      BY <2>1, <2>3, Zenon
    <2> QED
      BY <2>2, <2>4
  <1>2. ASSUME NEW n \in 0..7 PROVE (Now - 7 * n) % 7 = rest
    <2>1. \A k, m \in Int : (k - 7 * m) % 7 = k % 7
      BY Z3
    <2> QED
      BY <1>1, <2>1
  <1> HIDE DEF rest
  <1>3. ASSUME NEW n \in 0..7
        PROVE  WeekBack(n) = [from |-> monday - 7 * n, to |-> monday - 7 * n + 7]
    <2>1. WeekOf(Now - 7 * n).from = monday - 7 * n /\ WeekOf(Now - 7 * n) =
            [from |-> WeekOf(Now - 7 * n).from, to |-> WeekOf(Now - 7 * n).from + 7]
      BY <1>1, <1>2 DEF WeekOf
    <2> HIDE DEF monday
    <2> QED
      BY <2>1 DEF WeekBack
  <1>4. monday \in Int /\ monday <= Now /\ Now < monday + 7
    BY <1>1
  <1>5. FirstDay = monday - 49
    <2>1. FirstDay = WeekBack(7).from
      BY DEF FirstDay, WeekBack, ProjectWeeks
    <2>2. 7 \in 0..7
      OBVIOUS
    <2> HIDE DEF monday
    <2> QED
      BY <1>3, <1>4, <2>1, <2>2
  <1> HIDE DEF monday
  <1> QED
    BY <1>3, <1>4, <1>5

(* A day up to today is in exactly one of them, unless it is before all.    *)
LEMMA OneWeek ==
    ASSUME NEW t \in Int, t <= Now
    PROVE  /\ (\E n \in 0..7 : Within(t, WeekBack(n))) <=> t >= FirstDay
           /\ \A n, m \in 0..7 : Within(t, WeekBack(n)) /\ Within(t, WeekBack(m)) => n = m
  <1>1. PICK monday \in Int :
          /\ monday <= Now /\ Now < monday + 7
          /\ \A n \in 0..7 : WeekBack(n) = [from |-> monday - 7 * n, to |-> monday - 7 * n + 7]
          /\ FirstDay = monday - 49
    BY WeekIs
  <1>2. \A n \in 0..7 : Within(t, WeekBack(n)) <=> monday - 7 * n <= t /\ t < monday - 7 * n + 7
    BY <1>1 DEF Within
  <1>3. ASSUME NEW n \in 0..7, Within(t, WeekBack(n)) PROVE t >= FirstDay
    BY <1>1, <1>2, <1>3
  <1>4. ASSUME t >= FirstDay PROVE \E n \in 0..7 : Within(t, WeekBack(n))
    <2>0. Now \in Nat /\ t >= monday - 49 /\ t < monday + 7
      <3>1. Now \in Nat
        BY PagesAssumption
      <3>2. t >= monday - 49 /\ Now < monday + 7
        BY <1>1, <1>4
      <3> QED
        BY <3>1, <3>2
    <2>1. \E n \in 0..7 : monday - 7 * n <= t /\ t < monday - 7 * n + 7
      <3>1. SUFFICES ASSUME \A n \in 0..7 : ~(monday - 7 * n <= t /\ t < monday - 7 * n + 7) PROVE FALSE
        OBVIOUS
      <3>2. 0 \in 0..7 /\ 1 \in 0..7 /\ 2 \in 0..7 /\ 3 \in 0..7 /\ 4 \in 0..7 /\ 5 \in 0..7 /\ 6 \in 0..7 /\ 7 \in 0..7
        OBVIOUS
      <3>3. /\ ~(monday - 7 * 0 <= t /\ t < monday - 7 * 0 + 7) /\ ~(monday - 7 * 1 <= t /\ t < monday - 7 * 1 + 7)
            /\ ~(monday - 7 * 2 <= t /\ t < monday - 7 * 2 + 7) /\ ~(monday - 7 * 3 <= t /\ t < monday - 7 * 3 + 7)
            /\ ~(monday - 7 * 4 <= t /\ t < monday - 7 * 4 + 7) /\ ~(monday - 7 * 5 <= t /\ t < monday - 7 * 5 + 7)
            /\ ~(monday - 7 * 6 <= t /\ t < monday - 7 * 6 + 7) /\ ~(monday - 7 * 7 <= t /\ t < monday - 7 * 7 + 7)
        BY <3>1, <3>2, Zenon
      <3> QED
        BY <2>0, <3>3
    <2> QED
      BY <1>2, <2>1
  <1>5. ASSUME NEW n \in 0..7, NEW m \in 0..7, Within(t, WeekBack(n)), Within(t, WeekBack(m)) PROVE n = m
    BY <1>2, <1>5
  <1> QED
    BY <1>3, <1>4, <1>5

LEMMA EightWeeks == 0..ProjectWeeks - 1 = 0..7
  BY DEF ProjectWeeks

(* A project's weeks add up to its page since the first of them.           *)
LEMMA WeeksDeliver ==
    ASSUME NEW s, Sound(s), NEW p
    PROVE  LET weeks == Weeks(s, p)
           IN  SumFunction([n \in DOMAIN weeks |-> weeks[n].delivered]) =
                   Cardinality({f \in Delivered(s, {p}) : f.ends >= FirstDay})
  <1> DEFINE weeks == Weeks(s, p)
             X == [n \in 0..7 |-> DeliveredIn(s, WeekBack(n), {p})]
             D == Delivered(s, {p})
             all == UNION {X[n] : n \in 0..7}
  <1>1. DOMAIN weeks = 0..7
    BY EightWeeks DEF Weeks
  <1>2. \A n \in 0..7 : weeks[n].delivered = Cardinality(X[n])
    <2>1. \A n \in 0..7 : weeks[n].delivered = Cardinality(DeliveredIn(s, WeekBack(n), {p}))
      BY EightWeeks DEF Weeks, WeekBack
    <2>2. \A n \in 0..7 : X[n] = DeliveredIn(s, WeekBack(n), {p})
      OBVIOUS
    <2> HIDE DEF weeks, X
    <2> QED
      BY <2>1, <2>2
  <1>3. IsFiniteSet(D) /\ \A f \in D : f.ends \in Int /\ f.ends <= Now
    <2>1. D \subseteq In(s, {p}) /\ IsFiniteSet(In(s, {p})) /\ In(s, {p}) \subseteq Features
      BY RecordIs DEF Delivered
    <2>2. \A f \in Features : f.ends \in 0..Now
      BY PagesAssumption
    <2>3. Now \in Nat
      BY PagesAssumption
    <2> HIDE DEF D
    <2>4. IsFiniteSet(D)
      BY <2>1, PartIsFinite
    <2>5. \A f \in D : f.ends \in 0..Now
      BY <2>1, <2>2
    <2> QED
      BY <2>3, <2>4, <2>5
  <1>4. \A n \in 0..7 : X[n] = {f \in D : Within(f.ends, WeekBack(n))}
    BY DEF DeliveredIn
  <1> HIDE DEF weeks, X, D
  <1>5. \A n \in 0..7 : IsFiniteSet(X[n])
    <2>1. \A n \in 0..7 : X[n] \subseteq D
      BY <1>4
    <2> QED
      BY <1>3, <2>1, PartIsFinite
  <1>6. \A n, m \in 0..7 : n # m => X[n] \cap X[m] = {}
    <2>1. ASSUME NEW n \in 0..7, NEW m \in 0..7, n # m, NEW f \in X[n] \cap X[m] PROVE FALSE
      <3>1. f \in D /\ Within(f.ends, WeekBack(n)) /\ Within(f.ends, WeekBack(m))
        BY <1>4, <2>1
      <3> QED
        BY <1>3, <2>1, <3>1, OneWeek
    <2> QED
      BY <2>1
  <1>7. all = {f \in D : f.ends >= FirstDay}
    <2>1. ASSUME NEW f \in D PROVE (\E n \in 0..7 : f \in X[n]) <=> f.ends >= FirstDay
      <3>1. (\E n \in 0..7 : f \in X[n]) <=> \E n \in 0..7 : Within(f.ends, WeekBack(n))
        BY <1>4
      <3> QED
        BY <1>3, <3>1, OneWeek
    <2>2. \A n \in 0..7 : X[n] \subseteq D
      BY <1>4
    <2> QED
      BY <2>1, <2>2
  <1>8. SumFunction([n \in 0..7 |-> Cardinality(X[n])]) = Cardinality(all)
    <2> DEFINE S == 0..7
    <2>1. IsFiniteSet(S)
      <3>1. \A a, b \in Int : IsFiniteSet(a..b)
        BY FS_Interval
      <3>2. 0 \in Int /\ 7 \in Int
        OBVIOUS
      <3> QED
        BY <3>1, <3>2, Zenon
    <2>2. \A n \in S : IsFiniteSet(X[n])
      BY <1>5
    <2>3. \A n, m \in S : n # m => X[n] \cap X[m] = {}
      BY <1>6
    <2> HIDE DEF S
    <2>4. SumFunction([n \in S |-> Cardinality(X[n])]) = Cardinality(UNION {X[n] : n \in S})
      BY ONLY <2>1, <2>2, <2>3, SumOfSizes
    <2> QED
      BY <2>4 DEF S
  <1>9. [n \in DOMAIN weeks |-> weeks[n].delivered] = [n \in 0..7 |-> Cardinality(X[n])]
    BY <1>1, <1>2
  <1> HIDE DEF all
  <1>10. SumFunction([n \in DOMAIN weeks |-> weeks[n].delivered]) = Cardinality({f \in D : f.ends >= FirstDay})
    BY <1>7, <1>8, <1>9
  <1> QED
    BY <1>10 DEF weeks, D

LEMMA WeeksSpend ==
    ASSUME NEW s, Sound(s), NEW p \in Projects(s)
    PROVE  LET weeks == Weeks(s, p)
           IN  /\ UNION {weeks[n].spend.calls : n \in DOMAIN weeks} =
                      {c \in ProjectView(s, p).spend.calls : c.at >= FirstDay}
               /\ \A n \in DOMAIN weeks : weeks[n].spend.calls \cap weeks[n].untagged = {}
  <1> DEFINE weeks == Weeks(s, p)
             told == {c \in ProjectView(s, p).spend.calls : c.at >= FirstDay}
  <1>1. DOMAIN weeks = 0..7
    BY EightWeeks DEF Weeks
  <1>2. Now \in Nat
    BY PagesAssumption
  <1>3. ASSUME NEW n \in 0..7 PROVE weeks[n].spend.calls = ProjectCalls(s, p, WeekBack(n))
    <2>1. weeks[n].spend = TaggedSpend(s, {p}, WeekBack(n))
      BY EightWeeks DEF Weeks, WeekBack
    <2>2. WeekBack(n).to \in Int
      BY WeekIs
    <2> HIDE DEF weeks
    <2> QED
      BY <2>1, <2>2, SpendIs
  <1>4. ProjectView(s, p).spend.calls = ProjectCalls(s, p, AllTime)
    <2>1. AllTime.to \in Int
      BY <1>2 DEF AllTime
    <2>2. ProjectView(s, p).spend = TaggedSpend(s, {p}, AllTime)
      BY DEF ProjectView
    <2> QED
      BY <2>1, <2>2, SpendIs
  <1>5. ASSUME NEW c, NEW w, c \in ProjectCalls(s, p, w)
        PROVE  /\ c \in s.calls /\ c.tag \in ProjectTags(s, p) /\ Within(c.at, w)
               /\ c.tag # "" /\ c.at \in Int /\ c.at <= Now /\ Within(c.at, AllTime)
    <2>1. c \in s.calls /\ c.tag \in ProjectTags(s, p) /\ Within(c.at, w)
      BY <1>5 DEF ProjectCalls
    <2>2. c.tag # ""
      BY <2>1, TagsAreLate
    <2>3. c.at \in 0..Now
      BY <2>1, TagsAreLate
    <2>4. c.at \in Int /\ c.at <= Now /\ 0 <= c.at /\ c.at < Now + 1
      BY <1>2, <2>3
    <2>5. Within(c.at, AllTime)
      BY <2>4 DEF Within, AllTime
    <2> QED
      BY <2>1, <2>2, <2>4, <2>5
  <1>6. \A c : \A v, w : c \in ProjectCalls(s, p, v) /\ Within(c.at, w) => c \in ProjectCalls(s, p, w)
    BY DEF ProjectCalls
  <1>7. ASSUME NEW c
        PROVE  (\E n \in 0..7 : c \in ProjectCalls(s, p, WeekBack(n)))
                   <=> c \in ProjectCalls(s, p, AllTime) /\ c.at >= FirstDay
    <2>1. ASSUME NEW n \in 0..7, c \in ProjectCalls(s, p, WeekBack(n))
          PROVE  c \in ProjectCalls(s, p, AllTime) /\ c.at >= FirstDay
      <3>1. c.at \in Int /\ c.at <= Now /\ Within(c.at, WeekBack(n)) /\ Within(c.at, AllTime)
        BY <1>5, <2>1
      <3>2. c.at >= FirstDay
        BY <3>1, OneWeek
      <3> QED
        BY <1>6, <2>1, <3>1, <3>2
    <2>2. ASSUME c \in ProjectCalls(s, p, AllTime), c.at >= FirstDay
          PROVE  \E n \in 0..7 : c \in ProjectCalls(s, p, WeekBack(n))
      <3>1. c.at \in Int /\ c.at <= Now
        BY <1>5, <2>2
      <3>2. PICK n \in 0..7 : Within(c.at, WeekBack(n))
        BY <2>2, <3>1, OneWeek
      <3> QED
        BY <1>6, <2>2, <3>2
    <2> QED
      BY <2>1, <2>2
  <1>8. \A n \in 0..7 : \A c \in weeks[n].untagged : c.tag = ""
    <2>1. \A n \in 0..7 : weeks[n].untagged = {c \in s.calls : Within(c.at, WeekBack(n)) /\ c.tag = ""}
      BY EightWeeks DEF Weeks, WeekBack
    <2> HIDE DEF weeks
    <2> QED
      BY <2>1
  <1> HIDE DEF weeks
  <1>9. UNION {weeks[n].spend.calls : n \in DOMAIN weeks} = told
    <2>1. \A c : c \in UNION {weeks[n].spend.calls : n \in DOMAIN weeks} <=> \E n \in 0..7 : c \in ProjectCalls(s, p, WeekBack(n))
      BY <1>1, <1>3
    <2>2. \A c : c \in told <=> c \in ProjectCalls(s, p, AllTime) /\ c.at >= FirstDay
      BY <1>4
    <2> HIDE DEF told
    <2> QED
      BY <1>7, <2>1, <2>2
  <1>10. \A n \in DOMAIN weeks : weeks[n].spend.calls \cap weeks[n].untagged = {}
    BY <1>1, <1>3, <1>5, <1>8
  <1> QED
    BY <1>9, <1>10 DEF weeks

(* The issues page counts each project's issues, and those of no project.   *)
LEMMA IssuesPageIs ==
    ASSUME NEW s, Sound(s)
    PROVE  LET page == IssuesView(s)
               total(p) == ProjectView(s, p).open_issues_total
           IN  Cardinality(page.listed) + page.hidden = SumFunction([p \in Projects(s) \cup {NoProject} |-> total(p)])
  <1> DEFINE P == Projects(s) \cup {NoProject}
             X == [p \in P |-> OpenIssues(s, {p})]
             all == OpenIssues(s, Everything)
             together == UNION {X[p] : p \in P}
  <1>1. ASSUME NEW I, IsFiniteSet(I) PROVE Cardinality(Recent(I).listed) + Recent(I).hidden = Cardinality(I)
    <2> DEFINE old == {i \in I : Old(i)}
               rest == I \ old
    <2>1. Recent(I).listed = rest /\ Recent(I).hidden = Cardinality(old)
      BY DEF Recent
    <2>2. old \subseteq I /\ rest \subseteq I
      OBVIOUS
    <2>3. IsFiniteSet(old) /\ IsFiniteSet(rest)
      <3> HIDE DEF old, rest
      <3> QED
        BY <1>1, <2>2, PartIsFinite
    <2>4. Cardinality(old) + Cardinality(rest) = Cardinality(I)
      <3> HIDE DEF old
      <3> QED
        BY <1>1, <2>2, InTwoParts
    <2>5. Cardinality(old) \in Nat /\ Cardinality(rest) \in Nat
      BY <2>3, FS_CardinalityType
    <2> HIDE DEF old, rest
    <2> QED
      BY <2>1, <2>4, <2>5
  <1>2. IsFiniteSet(P)
    <2> DEFINE R == OnRecord(s)
               of == [x \in R \cup Missions |-> x.project]
               made == {of[x] : x \in R \cup Missions}
    <2>1. IsFiniteSet(R \cup Missions)
      <3>1. IsFiniteSet(R)
        BY RecordIs
      <3>2. IsFiniteSet(Missions)
        BY PagesAssumption
      <3> QED
        BY <3>1, <3>2, FS_Union
    <2>2. Projects(s) \subseteq made
      BY DEF Projects
    <2> HIDE DEF R, of
    <2>3. IsFiniteSet(made)
      BY <2>1, MadeOf
    <2> HIDE DEF made
    <2>4. IsFiniteSet(Projects(s))
      BY <2>2, <2>3, PartIsFinite
    <2> QED
      BY <2>4, FS_AddElement
  <1>3. \A p \in P : IsFiniteSet(X[p])
    BY RecordIs
  <1>4. \A p, q \in P : p # q => X[p] \cap X[q] = {}
    BY DEF OpenIssues, InScope
  <1>5. together = all
    <2>1. ASSUME NEW i \in Issues, s.issue[i.key] = "open"
          PROVE  i.about.project \in P /\ i.about.project \in Everything
      <3>1. i.about.project \in Everything
        BY RecordIs
      <3>2. i.about \in Missions \/ i.about \in OnRecord(s)
        BY <2>1 DEF Sound
      <3> QED
        BY <3>1, <3>2 DEF Projects
    <2>2. \A p \in P : X[p] = {i \in Issues : s.issue[i.key] = "open" /\ i.about.project = p}
      BY DEF OpenIssues, InScope
    <2>3. all = {i \in Issues : s.issue[i.key] = "open" /\ i.about.project \in Everything}
      BY DEF OpenIssues, InScope
    <2> HIDE DEF P, X, all
    <2> QED
      BY <2>1, <2>2, <2>3
  <1>6. IsFiniteSet(all)
    BY RecordIs
  <1>7. SumFunction([p \in P |-> Cardinality(X[p])]) = Cardinality(together)
    <2> HIDE DEF P, X
    <2> QED
      BY ONLY <1>2, <1>3, <1>4, SumOfSizes
  <1>8. \A p \in P : ProjectView(s, p).open_issues_total = Cardinality(X[p])
    <2>1. ASSUME NEW p \in P PROVE ProjectView(s, p).open_issues_total = Cardinality(X[p])
      <3> DEFINE I == OpenIssues(s, {p})
      <3>1. ProjectView(s, p).open_issues_total = Cardinality(Recent(I).listed) + Recent(I).hidden
        BY DEF ProjectView
      <3>2. X[p] = I /\ IsFiniteSet(I)
        BY RecordIs
      <3> HIDE DEF I, X
      <3> QED
        BY <1>1, <3>1, <3>2
    <2> QED
      BY <2>1
  <1>9. Cardinality(IssuesView(s).listed) + IssuesView(s).hidden = Cardinality(all)
    <2> HIDE DEF all
    <2> QED
      BY <1>1, <1>6 DEF IssuesView, all
  <1> HIDE DEF P, X, all, together
  <1>10. [p \in P |-> ProjectView(s, p).open_issues_total] = [p \in P |-> Cardinality(X[p])]
    BY <1>8
  <1>11. Cardinality(IssuesView(s).listed) + IssuesView(s).hidden =
             SumFunction([p \in P |-> ProjectView(s, p).open_issues_total])
    BY <1>5, <1>7, <1>9, <1>10
  <1> QED
    BY <1>11 DEF P

(* A report is of what the pages show.                                     *)
LEMMA ReportIsOnPages ==
    ASSUME NEW s, Sound(s), NEW w
    PROVE  LET whole == WeeklyReport(s, Operator, w)
           IN  /\ whole.in_flight \subseteq FeaturesView(s, 7)
               /\ whole.delivered \cap OtherEndings(s, w) = {}
  <1>1. WeeklyReport(s, Operator, w).in_flight = InProgress(s, Everything)
    BY DEF WeeklyReport, TenantProjects
  <1>2. WeeklyReport(s, Operator, w).delivered = DeliveredIn(s, w, Everything)
    BY DEF WeeklyReport, TenantProjects
  <1>3. InProgress(s, Everything) \subseteq FeaturesView(s, 7)
    BY DEF InProgress, In, FeaturesView
  <1>4. DeliveredIn(s, w, Everything) \cap OtherEndings(s, w) = {}
    BY DEF DeliveredIn, Delivered, OtherEndings
  <1> QED
    BY <1>1, <1>2, <1>3, <1>4

(* Nothing of another client is tracked: a code is one feature's.          *)
LEMMA TrackedIsMine ==
    ASSUME NEW s, NEW m, NEW mine
    PROVE  Tracked(s, m, mine) \cap Codes(OnRecord(s) \ Cut(OnRecord(s), mine)) = {}
  <1>1. Cut(OnRecord(s), mine) = In(s, mine)
    BY DEF Cut, In, InScope
  <1>2. ASSUME NEW code \in Tracked(s, m, mine), NEW f \in OnRecord(s) \ In(s, mine), code = f.code, code # ""
        PROVE  FALSE
    <2>1. code \notin Codes(In(s, mine))
      <3>1. ASSUME NEW g \in In(s, mine), g.code = code PROVE FALSE
        <4>1. f \in Features /\ g \in Features
          BY DEF OnRecord, In
        <4>2. f = g
          BY <1>2, <3>1, <4>1, PagesAssumption
        <4> QED
          BY <3>1, <4>2
      <3> QED
        BY <3>1 DEF Codes
    <2>2. code \in Codes(OnRecord(s))
      BY <1>2 DEF Codes
    <2>3. Codes({g \in In(s, mine) : g.project = m.project}) \subseteq Codes(In(s, mine))
      BY DEF Codes
    <2> QED
      BY <2>1, <2>2, <2>3 DEF Tracked
  <1> QED
    BY <1>1, <1>2 DEF Codes

LEMMA SpendIsMine ==
    ASSUME NEW s, Sound(s), NEW P, "" \notin P, NEW w
    PROVE  TaggedSpend(s, P, w).calls \subseteq TaggedSpend(s, Projects(s), w).calls
  <1> DEFINE all == Projects(s)
             made(Q) == {c \in s.calls : Within(c.at, w) /\ \E p \in Q : c.tag \in ProjectTags(s, p)}
  <1>1. \A Q : TaggedSpend(s, Q, w).calls =
          IF ~s.read \/ Q \cap all = {} \/ w.to <= TaggingStarted \/ ~\E p \in Q : HasWorkSinceTagging(s, p) THEN {} ELSE made(Q)
    BY DEF TaggedSpend
  <1>2. ASSUME NEW p \in P, HasWorkSinceTagging(s, p) PROVE p \in all
    <2>1. PICK x \in In(s, {p}) \cup MissionsOf(p) : TRUE
      BY <1>2 DEF HasWorkSinceTagging
    <2>2. (x \in OnRecord(s) \/ x \in Missions) /\ x.project = p
      BY <2>1 DEF In, InScope, MissionsOf
    <2> QED
      BY <2>2 DEF Projects, NoProject
  <1>3. ASSUME NEW p \in P, NEW tag \in ProjectTags(s, p) PROVE p \in all
    <2>1. PICK x \in Measured(s, p) \cup MissionsOf(p) : TRUE
      BY <1>3 DEF ProjectTags
    <2>2. (x \in OnRecord(s) \/ x \in Missions) /\ x.project = p
      BY <2>1 DEF Measured, In, InScope, MissionsOf
    <2> QED
      BY <2>2 DEF Projects, NoProject
  <1>4. made(P) \subseteq made(all)
    BY <1>3
  <1>5. TaggedSpend(s, P, w).calls =
          IF ~s.read \/ P \cap all = {} \/ w.to <= TaggingStarted \/ ~\E p \in P : HasWorkSinceTagging(s, p) THEN {} ELSE made(P)
    BY <1>1
  <1>6. TaggedSpend(s, all, w).calls =
          IF ~s.read \/ all \cap all = {} \/ w.to <= TaggingStarted \/ ~\E p \in all : HasWorkSinceTagging(s, p) THEN {} ELSE made(all)
    BY <1>1
  <1> HIDE DEF all, made
  <1> QED
    BY <1>2, <1>4, <1>5, <1>6 DEF all

(* What a client is sent is the operator's, cut to its projects.            *)
LEMMA ClientSeesItsOwn ==
    ASSUME NEW s, Sound(s), NEW w, NEW c \in DOMAIN Clients
    PROVE  LET whole == WeeklyReport(s, Operator, w)
               report == WeeklyReport(s, c, w)
               mine == Clients[c]
           IN  /\ report.delivered = Cut(whole.delivered, mine) /\ report.in_flight = Cut(whole.in_flight, mine)
               /\ report.opened = {i \in whole.opened : i.about.project \in mine}
               /\ report.closed = {i \in whole.closed : i.about.project \in mine}
               /\ report.tracked \cap Codes(OnRecord(s) \ Cut(OnRecord(s), mine)) = {}
               /\ mine = {} => DOMAIN report.plan = {}
               /\ report.spend.calls \subseteq whole.spend.calls
               /\ Export(s, c, w).delivered = report.delivered
  <1> DEFINE whole == WeeklyReport(s, Operator, w)
             report == WeeklyReport(s, c, w)
             mine == Clients[c]
             others == Codes(OnRecord(s) \ Cut(OnRecord(s), mine))
             plan == {m \in Milestones : m.tenant = c /\ Covers(s, m, mine)}
             opened(P) == {i \in Issues : s.issue[i.key] \in {"open", "closed"} /\ InScope(i.about.project, P) /\ Within(i.opened, w)}
             closed(P) == {i \in Issues : s.issue[i.key] \in {"closed"} /\ InScope(i.about.project, P) /\ Within(i.closes, w)}
  <1>1. TenantProjects(c) = mine /\ TenantProjects(Operator) = Everything /\ "" \notin mine
    BY PagesAssumption DEF TenantProjects, Operator
  <1>2. mine # Everything /\ NoProject \in Everything
    BY <1>1 DEF Everything, NoProject
  <1> HIDE DEF mine
  <1>3. /\ report.delivered = DeliveredIn(s, w, mine) /\ whole.delivered = DeliveredIn(s, w, Everything)
        /\ report.in_flight = InProgress(s, mine) /\ whole.in_flight = InProgress(s, Everything)
    BY <1>1 DEF WeeklyReport
  <1>4. report.opened = opened(mine) /\ whole.opened = opened(Everything)
    BY <1>1 DEF WeeklyReport
  <1>5. report.closed = closed(mine) /\ whole.closed = closed(Everything)
    BY <1>1 DEF WeeklyReport
  <1>6. report.tracked = UNION {Tracked(s, m, mine) : m \in plan} /\ DOMAIN report.plan = plan
    BY <1>1 DEF WeeklyReport
  <1>7. report.spend = TaggedSpend(s, mine, w) /\ whole.spend = TaggedSpend(s, Projects(s), w)
    BY <1>1, <1>2 DEF WeeklyReport
  <1>8. Export(s, c, w).delivered = report.delivered
    BY DEF Export
  <1>9. (\A g \in OnRecord(s) : g.project \in Everything) /\ \A i \in Issues : i.about.project \in Everything
    BY RecordIs
  <1>10. /\ DeliveredIn(s, w, mine) = Cut(DeliveredIn(s, w, Everything), mine)
         /\ InProgress(s, mine) = Cut(InProgress(s, Everything), mine)
    BY <1>9 DEF DeliveredIn, Delivered, InProgress, In, InScope, Cut
  <1>11. /\ opened(mine) = {i \in opened(Everything) : i.about.project \in mine}
         /\ closed(mine) = {i \in closed(Everything) : i.about.project \in mine}
    BY <1>9 DEF InScope
  <1>12. \A m \in plan : Tracked(s, m, mine) \cap others = {}
    BY TrackedIsMine
  <1>13. mine = {} => plan = {}
    BY DEF Covers
  <1>14. TaggedSpend(s, mine, w).calls \subseteq TaggedSpend(s, Projects(s), w).calls
    BY <1>1, SpendIsMine
  <1> HIDE DEF report, whole, opened, closed, plan, others
  <1>15. report.tracked \cap others = {}
    BY <1>6, <1>12
  <1>16. report.spend.calls \subseteq whole.spend.calls
    BY <1>7, <1>14
  <1>17. report.delivered = Cut(whole.delivered, mine) /\ report.in_flight = Cut(whole.in_flight, mine)
    BY <1>3, <1>10
  <1>18. /\ report.opened = {i \in whole.opened : i.about.project \in mine}
         /\ report.closed = {i \in whole.closed : i.about.project \in mine}
    BY <1>4, <1>5, <1>11
  <1>19. mine = {} => DOMAIN report.plan = {}
    BY <1>6, <1>13
  <1> QED
    BY <1>8, <1>15, <1>16, <1>17, <1>18, <1>19 DEF report, whole, others, mine

(* At every moment the pages agree with each other: PagesAgree.             *)
LEMMA SoundPagesAgree == ReadInv => PagesAgree
  <1> SUFFICES ASSUME Sound(store) PROVE PagesAgree
    BY DEF ReadInv
  <1> DEFINE s == store
  <1>1. \A p \in Projects(s) :
          LET row == ProjectRow(s, p)
              page == ProjectView(s, p)
          IN  /\ row.in_progress = page.in_progress /\ row.delivered = page.delivered_total
              /\ row.open_issues = page.open_issues_total
              /\ CostSummary(s, p, AllTime).spend = page.spend /\ TimeSummary(s, p, AllTime) = page.time
              /\ Cardinality(page.time.features) + page.time.left_out = Cardinality(In(s, {p}))
    BY RowIsPage
  <1>2. \A p \in Projects(s) :
          LET weeks == Weeks(s, p)
          IN  SumFunction([n \in DOMAIN weeks |-> weeks[n].delivered]) = Cardinality({f \in Delivered(s, {p}) : f.ends >= FirstDay})
    BY WeeksDeliver
  <1>3. \A p \in Projects(s) :
          LET weeks == Weeks(s, p)
          IN  /\ UNION {weeks[n].spend.calls : n \in DOMAIN weeks} = {c \in ProjectView(s, p).spend.calls : c.at >= FirstDay}
              /\ \A n \in DOMAIN weeks : weeks[n].spend.calls \cap weeks[n].untagged = {}
    BY WeeksSpend
  <1>4. LET page == IssuesView(s)
            total(p) == ProjectView(s, p).open_issues_total
        IN  Cardinality(page.listed) + page.hidden = SumFunction([p \in Projects(s) \cup {NoProject} |-> total(p)])
    BY IssuesPageIs
  <1>5. \A w : LET whole == WeeklyReport(s, Operator, w)
               IN  whole.in_flight \subseteq FeaturesView(s, 7) /\ whole.delivered \cap OtherEndings(s, w) = {}
    BY ReportIsOnPages
  <1>6. \A w : \A c \in DOMAIN Clients :
          LET whole == WeeklyReport(s, Operator, w)
              report == WeeklyReport(s, c, w)
              mine == Clients[c]
          IN  /\ report.delivered = Cut(whole.delivered, mine) /\ report.in_flight = Cut(whole.in_flight, mine)
              /\ report.opened = {i \in whole.opened : i.about.project \in mine}
              /\ report.closed = {i \in whole.closed : i.about.project \in mine}
              /\ report.tracked \cap Codes(OnRecord(s) \ Cut(OnRecord(s), mine)) = {}
              /\ mine = {} => DOMAIN report.plan = {}
              /\ report.spend.calls \subseteq whole.spend.calls
              /\ Export(s, c, w).delivered = report.delivered
    BY ClientSeesItsOwn
  <1> QED
    BY <1>1, <1>2, <1>3, <1>4, <1>5, <1>6 DEF PagesAgree, FirstDay

(* Whatever is on record, the pages, reports and costs made of it agree, a  *)
(* project's weeks add up to its totals, and a client is sent its own work  *)
(* and no other's (dbread.py).                                              *)
THEOREM PagesAlwaysAgree == ReadSpec => []PagesAgree
  BY ReadInvariant, SoundPagesAgree, PTL
=============================================================================
