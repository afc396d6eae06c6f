------------------------- MODULE FactoryRecordProofs -------------------------
(***************************************************************************)
(* Proofs about what the dashboard makes of the record of a feature.       *)
(***************************************************************************)
EXTENDS FactoryRecord, DataInduction, SequenceTheorems, FiniteSetTheorems, TLAPS

-----------------------------------------------------------------------------
(* The walk over the rows of a wait (factory._walk).                       *)

WalkRow(times) == [at : times, opens : BOOLEAN, closes : BOOLEAN, gated : BOOLEAN]
WalkState(times, kind) ==
    [since : times \cup {None}, seen : times \cup {None}, worked : BOOLEAN,
     waits : Seq([kind : {kind}, from : times \cup {None}, to : times \cup {None}])]

LEMMA WalkedType ==
    ASSUME NEW times, NEW kind, NEW w \in WalkState(times, kind), NEW r \in WalkRow(times)
    PROVE  Walked(kind, w, r) \in WalkState(times, kind)
  <1> DEFINE Waits == [kind : {kind}, from : times \cup {None}, to : times \cup {None}]
  <1>1. /\ w.since \in times \cup {None} /\ w.seen \in times \cup {None} /\ w.worked \in BOOLEAN
        /\ w.waits \in Seq(Waits)
    BY DEF WalkState
  <1>2. r.at \in times /\ {r.opens, r.closes, r.gated} \subseteq BOOLEAN
    BY DEF WalkRow
  <1>3. Wait(kind, w.since, w.seen) \in Waits /\ Wait(kind, w.since, r.at) \in Waits
    BY <1>1, <1>2 DEF Wait
  <1>4. Append(w.waits, Wait(kind, w.since, w.seen)) \in Seq(Waits)
        /\ Append(w.waits, Wait(kind, w.since, r.at)) \in Seq(Waits)
    BY <1>1, <1>3, AppendProperties
  <1> HIDE DEF Waits
  <1> QED
    BY <1>1, <1>2, <1>4 DEF Walked, WalkState, Waits

Walks(w, rows, kind) ==
    w[0] = NoWait /\ \A i \in 1..Len(rows) : w[i] = Walked(kind, w[i - 1], rows[i])
LEMMA WalkingType ==
    ASSUME NEW times, NEW kind, NEW rows \in Seq(WalkRow(times))
    PROVE  /\ Walking(rows, kind) \in [0..Len(rows) -> WalkState(times, kind)]
           /\ Walks(Walking(rows, kind), rows, kind)
  <1> DEFINE n == Len(rows)
             T == WalkState(times, kind)
             g == [x \in T \X (1..n) |-> Walked(kind, x[1], rows[x[2]])]
             Rule(after) == after = [i \in 0..n |-> IF i = 0 THEN NoWait ELSE Walked(kind, after[i - 1], rows[i])]
  <1>1. n \in Nat /\ \A i \in 1..n : rows[i] \in WalkRow(times)
    BY LenProperties
  <1>2. NoWait \in T
    <2>1. <<>> \in Seq([kind : {kind}, from : times \cup {None}, to : times \cup {None}])
      BY EmptySeq
    <2> QED
      BY <2>1 DEF NoWait, WalkState
  <1>3. g \in [T \X (1..n) -> T]
    <2>1. ASSUME NEW x \in T \X (1..n) PROVE Walked(kind, x[1], rows[x[2]]) \in T
      <3>1. x[1] \in T /\ x[2] \in 1..n
        OBVIOUS
      <3> HIDE DEF T
      <3> QED
        BY <3>1, <1>1, WalkedType DEF T
    <2> HIDE DEF T, n
    <2> QED
      BY <2>1 DEF g
  <1>4. \E w \in [0..n -> T] : w[0] = NoWait /\ \A i \in 1..n : w[i] = g[<<w[i - 1], i>>]
    <2>1. n \in Nat
      BY <1>1
    <2> HIDE DEF T, g, n
    <2>2. g \in Steps(T, n)
      BY <1>3 DEF Steps
    <2>3. \E w : Follows(w, T, n, NoWait, g)
      BY <2>1, <2>2, <1>2, Recursion
    <2> QED
      BY <2>3 DEF Follows
  <1>5. PICK w \in [0..n -> T] : w[0] = NoWait /\ \A i \in 1..n : w[i] = g[<<w[i - 1], i>>]
    BY <1>4
  <1>6. ASSUME NEW i \in 1..n PROVE w[i] = Walked(kind, w[i - 1], rows[i])
    <2>1. w[i - 1] \in T /\ <<w[i - 1], i>> \in T \X (1..n)
      BY <1>1, <1>5
    <2>2. g[<<w[i - 1], i>>] = Walked(kind, w[i - 1], rows[i])
      <3> HIDE DEF T, n
      <3> QED
        BY <2>1
    <2> QED
      BY <1>5, <2>2
  <1>7. Rule(w)
    <2> HIDE DEF T, g
    <2>1. ASSUME NEW i \in 0..n PROVE w[i] = IF i = 0 THEN NoWait ELSE Walked(kind, w[i - 1], rows[i])
      BY <1>5, <1>6, <1>1
    <2> QED
      BY <1>5, <2>1
  <1>8. Walking(rows, kind) = CHOOSE after : Rule(after)
    BY DEF Walking
  <1>9. Rule(Walking(rows, kind))
    <2> HIDE DEF Rule
    <2> QED
      BY <1>7, <1>8
  <1> DEFINE v == Walking(rows, kind)
  <1>10. v[0] = NoWait /\ (\A i \in 1..n : v[i] = Walked(kind, v[i - 1], rows[i])) /\ DOMAIN v = 0..n
         /\ v = [i \in 0..n |-> v[i]]
    <2> HIDE DEF v
    <2>1. v = [i \in 0..n |-> IF i = 0 THEN NoWait ELSE Walked(kind, v[i - 1], rows[i])]
      BY <1>9 DEF v
    <2> QED
      BY <1>1, <2>1
  <1>11. \A i \in 0..n : v[i] \in T
    <2> HIDE DEF T, v
    <2> DEFINE S == {i \in 0..n : v[i] \in T}
    <2>1. 0 \in S
      BY <1>1, <1>2, <1>10
    <2>2. ASSUME NEW i \in 1..n, i - 1 \in S PROVE i \in S
      <3>1. v[i] = Walked(kind, v[i - 1], rows[i]) /\ v[i - 1] \in T /\ rows[i] \in WalkRow(times)
        BY <1>1, <1>10, <2>2
      <3> QED
        BY <3>1, WalkedType DEF T
    <2> HIDE DEF S
    <2>3. \A i \in 0..n : i \in S
      BY <1>1, <2>1, <2>2, UpTo
    <2> QED
      BY <2>3 DEF S
  <1> QED
    <2> HIDE DEF T, v, n
    <2>1. v \in [0..n -> T]
      BY <1>10, <1>11
    <2> QED
      BY <1>10, <2>1 DEF T, v, n, Walks

(* The rule of WaitsByRule, part by part; and what the walk knows of the   *)
(* first i rows: the run that is open, and the waits that are over.        *)
Openings(rows) == {j \in DOMAIN rows : rows[j].opens}
Begins(rows) ==
    {i \in Openings(rows) : \A p \in Openings(rows) : p < i =>
         \E k \in p + 1 .. i - 1 : rows[k].closes \/ ~rows[k].gated}
OfRun(rows, b) == {k \in b .. Len(rows) : Begins(rows) \cap (b + 1 .. k) = {}}
Closings(rows, b) == {k \in OfRun(rows, b) : ~rows[k].opens /\ rows[k].closes}

LastBegin(rows, i, b) == b \in Begins(rows) /\ b <= i /\ \A c \in Begins(rows) : c <= i => c <= b
LastOpening(rows, i, p) == p \in Openings(rows) /\ p <= i /\ \A q \in Openings(rows) : q <= i => q <= p
EndsAt(rows, i, b, e) ==
    \/ e \in Closings(rows, b) /\ e <= i /\ \A c \in Closings(rows, b) : e <= c
    \/ /\ Closings(rows, b) = {}
       /\ \E c \in Begins(rows) : b < c /\ c <= i
       /\ e \in Openings(rows) \cap OfRun(rows, b) /\ \A q \in Openings(rows) \cap OfRun(rows, b) : q <= e
IsOver(rows, kind, i, x) ==
    \E b \in Begins(rows), e \in DOMAIN rows : EndsAt(rows, i, b, e) /\ x = Wait(kind, rows[b].at, rows[e].at)

ShutAt(rows, i) ==
    /\ \A p \in Openings(rows) : p <= i => \E k \in p + 1 .. i : rows[k].closes
    /\ \A b \in Begins(rows) : LastBegin(rows, i, b) => \E c \in Closings(rows, b) : c <= i
SeenAt(rows, i, w) ==
    \E p \in Openings(rows) :
        /\ LastOpening(rows, i, p) /\ w.seen = rows[p].at
        /\ w.worked <=> \E k \in p + 1 .. i : ~rows[k].gated
        /\ \A k \in p + 1 .. i : ~rows[k].closes
BegunAt(rows, i, w) ==
    \E b \in Begins(rows) :
        LastBegin(rows, i, b) /\ w.since = rows[b].at /\ \A c \in Closings(rows, b) : i < c
WalkedTo(rows, kind, i, w) ==
    /\ w.since = None => ShutAt(rows, i)
    /\ w.since # None => SeenAt(rows, i, w) /\ BegunAt(rows, i, w)
    /\ \A x : x \in ToSet(w.waits) <=> IsOver(rows, kind, i, x)

LEMMA ToSetAppends ==
    ASSUME NEW S, NEW s \in Seq(S), NEW x \in S
    PROVE  \A y : y \in ToSet(Append(s, x)) <=> y \in ToSet(s) \/ y = x
  <1>1. /\ Len(s) \in Nat /\ DOMAIN s = 1..Len(s)
        /\ DOMAIN Append(s, x) = 1..Len(s) + 1
        /\ \A i \in 1..Len(s) : Append(s, x)[i] = s[i]
        /\ Append(s, x)[Len(s) + 1] = x
    BY LenProperties, AppendProperties
  <1> QED
    BY <1>1 DEF ToSet

LEMMA RunFacts ==
    ASSUME NEW times, NEW rows \in Seq(WalkRow(times))
    PROVE  /\ Len(rows) \in Nat /\ DOMAIN rows = 1..Len(rows)
           /\ \A i \in DOMAIN rows : /\ rows[i].at \in times
                                     /\ {rows[i].opens, rows[i].closes, rows[i].gated} \subseteq BOOLEAN
           /\ Begins(rows) \subseteq Openings(rows) /\ Openings(rows) \subseteq 1..Len(rows)
           /\ \A b \in Begins(rows), i \in 0..Len(rows) :
                 LastBegin(rows, i, b) <=> i \in OfRun(rows, b)
           /\ \A b \in Begins(rows) :
                 /\ OfRun(rows, b) \subseteq b..Len(rows)
                 /\ b \in OfRun(rows, b)
                 /\ \A i \in OfRun(rows, b), k \in b..Len(rows) : k <= i => k \in OfRun(rows, b)
                 /\ \A k \in Closings(rows, b) : k \in OfRun(rows, b) /\ b < k
  <1>1. Len(rows) \in Nat /\ DOMAIN rows = 1..Len(rows) /\ \A i \in DOMAIN rows : rows[i] \in WalkRow(times)
    BY LenProperties
  <1>2. \A i \in DOMAIN rows : /\ rows[i].at \in times
                               /\ {rows[i].opens, rows[i].closes, rows[i].gated} \subseteq BOOLEAN
    BY <1>1 DEF WalkRow
  <1>3. Begins(rows) \subseteq Openings(rows) /\ Openings(rows) \subseteq 1..Len(rows)
    BY <1>1 DEF Begins, Openings
  <1>4. ASSUME NEW b \in Begins(rows)
        PROVE  /\ OfRun(rows, b) \subseteq b..Len(rows)
               /\ b \in OfRun(rows, b)
               /\ \A i \in OfRun(rows, b), k \in b..Len(rows) : k <= i => k \in OfRun(rows, b)
               /\ \A k \in Closings(rows, b) : k \in OfRun(rows, b) /\ b < k
    <2>1. b \in 1..Len(rows) /\ rows[b].opens
      BY <1>1, <1>3 DEF Openings
    <2>2. OfRun(rows, b) \subseteq b..Len(rows) /\ b \in OfRun(rows, b)
      BY <1>1, <2>1 DEF OfRun
    <2>3. ASSUME NEW i \in OfRun(rows, b), NEW k \in b..Len(rows), k <= i PROVE k \in OfRun(rows, b)
      BY <1>1, <2>1, <2>2, <2>3 DEF OfRun
    <2>4. \A k \in Closings(rows, b) : k \in OfRun(rows, b) /\ b < k
      BY <2>1, <2>2, <1>1 DEF Closings
    <2> QED
      BY <2>2, <2>3, <2>4
  <1>5. ASSUME NEW b \in Begins(rows), NEW i \in 0..Len(rows)
        PROVE  LastBegin(rows, i, b) <=> i \in OfRun(rows, b)
    BY <1>1, <1>3 DEF LastBegin, OfRun
  <1> QED
    BY <1>1, <1>2, <1>3, <1>4, <1>5

(* How one more row changes the waits that are over.                       *)
LEMMA EndsSame ==
    ASSUME NEW times, NEW rows \in Seq(WalkRow(times)), NEW i \in 1..Len(rows),
           NEW b \in Begins(rows), NEW e \in DOMAIN rows,
           i \in Closings(rows, b) => \E c \in Closings(rows, b) : c < i,
           i \in Begins(rows) /\ LastBegin(rows, i - 1, b) => Closings(rows, b) # {}
    PROVE  EndsAt(rows, i, b, e) <=> EndsAt(rows, i - 1, b, e)
  <1>1. /\ Len(rows) \in Nat /\ DOMAIN rows = 1..Len(rows)
        /\ Begins(rows) \subseteq 1..Len(rows)
        /\ Closings(rows, b) \subseteq 1..Len(rows)
    BY RunFacts DEF OfRun, Closings
  <1>2. ASSUME e \in Closings(rows, b), \A c \in Closings(rows, b) : e <= c
        PROVE  e <= i <=> e <= i - 1
    BY <1>1, <1>2
  <1>3. ASSUME Closings(rows, b) = {}
        PROVE  (\E c \in Begins(rows) : b < c /\ c <= i) <=> (\E c \in Begins(rows) : b < c /\ c <= i - 1)
    <2>1. ASSUME NEW c \in Begins(rows), b < c, c <= i PROVE \E d \in Begins(rows) : b < d /\ d <= i - 1
      <3>1. CASE c = i
        <4>1. ~LastBegin(rows, i - 1, b)
          BY <3>1, <1>3
        <4>2. PICK d \in Begins(rows) : d <= i - 1 /\ ~(d <= b)
          BY <4>1, <3>1, <2>1, <1>1 DEF LastBegin
        <4> QED
          BY <4>2, <1>1
      <3>2. CASE c # i
        BY <3>2, <2>1, <1>1
      <3> QED
        BY <3>1, <3>2
    <2> QED
      BY <2>1, <1>1
  <1> QED
    BY <1>2, <1>3 DEF EndsAt

LEMMA OverSame ==
    ASSUME NEW times, NEW kind, NEW rows \in Seq(WalkRow(times)), NEW i \in 1..Len(rows),
           \A b \in Begins(rows) : i \in Closings(rows, b) => \E c \in Closings(rows, b) : c < i,
           \A b \in Begins(rows) :
               i \in Begins(rows) /\ LastBegin(rows, i - 1, b) => Closings(rows, b) # {}
    PROVE  \A x : IsOver(rows, kind, i, x) <=> IsOver(rows, kind, i - 1, x)
  <1>1. \A b \in Begins(rows), e \in DOMAIN rows : EndsAt(rows, i, b, e) <=> EndsAt(rows, i - 1, b, e)
    BY EndsSame
  <1> QED
    BY <1>1 DEF IsOver

(* A closing row ends the wait that is open.                               *)
LEMMA OverClosed ==
    ASSUME NEW times, NEW kind, NEW rows \in Seq(WalkRow(times)), NEW i \in 1..Len(rows),
           NEW b \in Begins(rows), LastBegin(rows, i - 1, b),
           i \in Closings(rows, b), \A c \in Closings(rows, b) : i - 1 < c
    PROVE  \A x : IsOver(rows, kind, i, x) <=>
                      IsOver(rows, kind, i - 1, x) \/ x = Wait(kind, rows[b].at, rows[i].at)
  <1>1. /\ Len(rows) \in Nat /\ DOMAIN rows = 1..Len(rows)
        /\ Begins(rows) \subseteq 1..Len(rows)
        /\ \A a \in Begins(rows) : Closings(rows, a) \subseteq OfRun(rows, a)
        /\ \A a \in Begins(rows), k \in 0..Len(rows) : LastBegin(rows, k, a) <=> k \in OfRun(rows, a)
        /\ Closings(rows, b) \subseteq 1..Len(rows)
    <2>1. \A a \in Begins(rows) : Closings(rows, a) \subseteq OfRun(rows, a)
      BY DEF Closings
    <2>2. OfRun(rows, b) \subseteq 1..Len(rows)
      BY RunFacts
    <2> QED
      BY <2>1, <2>2, RunFacts
  <1>2. i \notin Begins(rows)
    BY <1>1, RunFacts DEF Closings, Openings
  <1>3. LastBegin(rows, i, b)
    BY <1>1
  <1>4. ASSUME NEW a \in Begins(rows), a # b PROVE i \notin Closings(rows, a)
    <2>1. ~LastBegin(rows, i, a)
      BY <1>1, <1>3, <1>4 DEF LastBegin
    <2> QED
      BY <2>1, <1>1
  <1>5. ASSUME NEW a \in Begins(rows), NEW e \in DOMAIN rows, a # b
        PROVE  EndsAt(rows, i, a, e) <=> EndsAt(rows, i - 1, a, e)
    BY <1>2, <1>4, <1>5, EndsSame
  <1>6. ASSUME NEW e \in DOMAIN rows
        PROVE  /\ EndsAt(rows, i, b, e) <=> e = i
               /\ ~EndsAt(rows, i - 1, b, e)
    BY <1>1 DEF EndsAt
  <1> QED
    BY <1>1, <1>5, <1>6 DEF IsOver

(* A new beginning ends the run before it, where it was last seen open.    *)
LEMMA OverBegun ==
    ASSUME NEW times, NEW kind, NEW rows \in Seq(WalkRow(times)), NEW i \in Begins(rows),
           NEW b \in Begins(rows), LastBegin(rows, i - 1, b), \A c \in Closings(rows, b) : i - 1 < c,
           NEW p \in Openings(rows), LastOpening(rows, i - 1, p)
    PROVE  \A x : IsOver(rows, kind, i, x) <=>
                      IsOver(rows, kind, i - 1, x) \/ x = Wait(kind, rows[b].at, rows[p].at)
  <1>1. /\ Len(rows) \in Nat /\ DOMAIN rows = 1..Len(rows)
        /\ Begins(rows) \subseteq Openings(rows) /\ Openings(rows) \subseteq 1..Len(rows)
        /\ \A a \in Begins(rows) : Closings(rows, a) \subseteq OfRun(rows, a)
        /\ \A a \in Begins(rows), k \in 0..Len(rows) : LastBegin(rows, k, a) <=> k \in OfRun(rows, a)
        /\ OfRun(rows, b) \subseteq b..Len(rows)
        /\ i \in 1..Len(rows)
        /\ b < i /\ b <= p /\ p < i
    BY RunFacts DEF LastBegin, LastOpening
  <1>2. OfRun(rows, b) = b..i - 1
    <2>1. \A k \in OfRun(rows, b) : k < i
      BY <1>1 DEF OfRun
    <2>2. i - 1 \in OfRun(rows, b)
      BY <1>1
    <2>3. \A k \in b..i - 1 : k \in OfRun(rows, b)
      BY <2>2, <1>1, RunFacts
    <2>4. \A k \in OfRun(rows, b) : k \in b..i - 1
      BY <2>1, <1>1
    <2> QED
      BY <2>3, <2>4
  <1>3. Closings(rows, b) = {}
    BY <1>1, <1>2
  <1>4. ASSUME NEW a \in Begins(rows), NEW e \in DOMAIN rows, a # b
        PROVE  EndsAt(rows, i, a, e) <=> EndsAt(rows, i - 1, a, e)
    <2>1. i \notin Closings(rows, a)
      BY <1>1 DEF Closings, Openings
    <2>2. ~LastBegin(rows, i - 1, a)
      BY <1>1, <1>4 DEF LastBegin
    <2> QED
      BY <2>1, <2>2, <1>1, EndsSame
  <1>5. ASSUME NEW e \in DOMAIN rows
        PROVE  /\ EndsAt(rows, i, b, e) <=> e = p
               /\ ~EndsAt(rows, i - 1, b, e)
    <2>1. ~(\E c \in Begins(rows) : b < c /\ c <= i - 1)
      BY <1>1 DEF LastBegin
    <2>2. \E c \in Begins(rows) : b < c /\ c <= i
      BY <1>1
    <2>3. p \in Openings(rows) \cap OfRun(rows, b) /\ \A q \in Openings(rows) \cap OfRun(rows, b) : q <= p
      BY <1>1, <1>2 DEF LastOpening
    <2>4. e \in Openings(rows) \cap OfRun(rows, b) /\ (\A q \in Openings(rows) \cap OfRun(rows, b) : q <= e)
              <=> e = p
      BY <2>3, <1>1
    <2> QED
      BY <2>1, <2>2, <2>4, <1>3 DEF EndsAt
  <1> QED
    BY <1>1, <1>4, <1>5 DEF IsOver

(* One more row.                                                           *)
LEMMA StepOpens ==
    ASSUME NEW times, None \notin times, NEW kind, NEW rows \in Seq(WalkRow(times)), NEW i \in 1..Len(rows),
           NEW w \in WalkState(times, kind), WalkedTo(rows, kind, i - 1, w), rows[i].opens
    PROVE  WalkedTo(rows, kind, i, Walked(kind, w, rows[i]))
  <1> DEFINE v == Walked(kind, w, rows[i])
             Waits == [kind : {kind}, from : times \cup {None}, to : times \cup {None}]
  <1>1. /\ Len(rows) \in Nat /\ DOMAIN rows = 1..Len(rows)
        /\ Begins(rows) \subseteq Openings(rows) /\ Openings(rows) \subseteq 1..Len(rows)
        /\ rows[i].at \in times /\ rows[i].at # None
        /\ \A a \in Begins(rows) : \A k \in Closings(rows, a) : a < k /\ k \in 1..Len(rows)
    BY RunFacts
  <1>2. /\ w.since \in times \cup {None} /\ w.seen \in times \cup {None} /\ w.worked \in BOOLEAN
        /\ w.waits \in Seq(Waits)
    BY DEF WalkState
  <1>3. i \in Openings(rows) /\ LastOpening(rows, i, i)
    BY <1>1 DEF Openings, LastOpening
  <1>4. \A a \in Begins(rows) : i \notin Closings(rows, a)
    BY DEF Closings
  <1>5. CASE w.since = None \/ w.worked
    <2>1. /\ v.since = rows[i].at /\ v.seen = rows[i].at /\ v.worked = FALSE
          /\ v.waits = IF w.since # None /\ w.worked THEN Append(w.waits, Wait(kind, w.since, w.seen)) ELSE w.waits
      BY <1>5 DEF Walked
    <2>2. i \in Begins(rows)
      <3>1. ASSUME NEW p \in Openings(rows), p < i
            PROVE  \E k \in p + 1 .. i - 1 : rows[k].closes \/ ~rows[k].gated
        <4>1. p <= i - 1
          BY <1>1, <3>1
        <4>2. CASE w.since = None
          BY <4>1, <4>2 DEF WalkedTo, ShutAt
        <4>3. CASE w.since # None /\ w.worked
          <5>1. PICK q \in Openings(rows) : LastOpening(rows, i - 1, q) /\ \E k \in q + 1 .. i - 1 : ~rows[k].gated
            BY <4>3 DEF WalkedTo, SeenAt
          <5>2. p <= q /\ q \in Nat /\ p \in Nat
            BY <4>1, <5>1, <1>1 DEF LastOpening
          <5> QED
            BY <5>1, <5>2
        <4> QED
          BY <1>5, <4>2, <4>3
      <3> QED
        BY <1>3, <3>1 DEF Begins
    <2>3. SeenAt(rows, i, v)
      BY <1>3, <2>1 DEF SeenAt
    <2>4. BegunAt(rows, i, v)
      <3>1. LastBegin(rows, i, i)
        BY <2>2, <1>1 DEF LastBegin
      <3>2. \A c \in Closings(rows, i) : i < c
        BY <2>2, <1>1
      <3> QED
        BY <3>1, <3>2, <2>1, <2>2 DEF BegunAt
    <2>5. \A x : x \in ToSet(v.waits) <=> IsOver(rows, kind, i, x)
      <3>1. CASE w.since = None
        <4>1. \A x : IsOver(rows, kind, i, x) <=> IsOver(rows, kind, i - 1, x)
          <5>1. \A b \in Begins(rows) : LastBegin(rows, i - 1, b) => Closings(rows, b) # {}
            BY <3>1 DEF WalkedTo, ShutAt
          <5> QED
            BY <1>4, <5>1, OverSame
        <4> QED
          BY <3>1, <2>1, <4>1 DEF WalkedTo
      <3>2. CASE w.since # None
        <4>1. PICK b \in Begins(rows) : /\ LastBegin(rows, i - 1, b) /\ w.since = rows[b].at
                                        /\ \A c \in Closings(rows, b) : i - 1 < c
          BY <3>2 DEF WalkedTo, BegunAt
        <4>2. PICK p \in Openings(rows) : LastOpening(rows, i - 1, p) /\ w.seen = rows[p].at
          BY <3>2 DEF WalkedTo, SeenAt
        <4>3. \A x : IsOver(rows, kind, i, x) <=>
                         IsOver(rows, kind, i - 1, x) \/ x = Wait(kind, w.since, w.seen)
          <5>1. \A x : IsOver(rows, kind, i, x) <=>
                           IsOver(rows, kind, i - 1, x) \/ x = Wait(kind, rows[b].at, rows[p].at)
            <6>1. /\ i \in Begins(rows) /\ LastBegin(rows, i - 1, b) /\ \A c \in Closings(rows, b) : i - 1 < c
                  /\ LastOpening(rows, i - 1, p)
              BY <2>2, <4>1, <4>2
            <6> HIDE DEF v, Waits
            <6> QED
              BY <6>1, OverBegun
          <5>2. Wait(kind, rows[b].at, rows[p].at) = Wait(kind, w.since, w.seen)
            BY <4>1, <4>2
          <5> HIDE DEF v
          <5> QED
            BY <5>1, <5>2
        <4>4. Wait(kind, w.since, w.seen) \in Waits
          BY <1>2 DEF Wait
        <4>5. \A x : x \in ToSet(v.waits) <=> x \in ToSet(w.waits) \/ x = Wait(kind, w.since, w.seen)
          <5> DEFINE over == Wait(kind, w.since, w.seen)
                     held == w.waits
          <5>1. v.waits = Append(held, over)
            BY <1>5, <3>2, <2>1
          <5>2. over \in Waits /\ held \in Seq(Waits)
            BY <1>2, <4>4
          <5> HIDE DEF Waits, v, over, held
          <5>3. \A x : x \in ToSet(Append(held, over)) <=> x \in ToSet(held) \/ x = over
            BY <5>2, ToSetAppends
          <5>4. \A x : x \in ToSet(v.waits) <=> x \in ToSet(held) \/ x = over
            BY <5>1, <5>3
          <5> QED
            BY <5>4 DEF held, over
        <4> QED
          BY <4>3, <4>5 DEF WalkedTo
      <3> QED
        BY <3>1, <3>2
    <2> QED
      BY <2>1, <2>3, <2>4, <2>5, <1>1 DEF WalkedTo
  <1>6. CASE w.since # None /\ ~w.worked
    <2>1. v.since = w.since /\ v.seen = rows[i].at /\ v.worked = FALSE /\ v.waits = w.waits
      BY <1>6 DEF Walked
    <2>2. PICK p \in Openings(rows) : /\ LastOpening(rows, i - 1, p)
                                      /\ \A k \in p + 1 .. i - 1 : rows[k].gated /\ ~rows[k].closes
      BY <1>6 DEF WalkedTo, SeenAt
    <2>3. i \notin Begins(rows)
      <3>1. p < i
        BY <2>2, <1>1 DEF LastOpening
      <3> QED
        BY <2>2, <3>1 DEF Begins
    <2>4. PICK b \in Begins(rows) : /\ LastBegin(rows, i - 1, b) /\ w.since = rows[b].at
                                    /\ \A c \in Closings(rows, b) : i - 1 < c
      BY <1>6 DEF WalkedTo, BegunAt
    <2>5. LastBegin(rows, i, b)
      BY <2>3, <2>4, <1>1 DEF LastBegin
    <2>6. \A c \in Closings(rows, b) : i < c
      BY <2>4, <1>4, <1>1
    <2>7. BegunAt(rows, i, v)
      BY <2>1, <2>4, <2>5, <2>6 DEF BegunAt
    <2>8. SeenAt(rows, i, v)
      BY <1>3, <2>1 DEF SeenAt
    <2>9. \A x : IsOver(rows, kind, i, x) <=> IsOver(rows, kind, i - 1, x)
      BY <1>4, <2>3, OverSame
    <2> QED
      BY <1>6, <2>1, <2>7, <2>8, <2>9 DEF WalkedTo
  <1> QED
    BY <1>2, <1>5, <1>6

LEMMA StepCloses ==
    ASSUME NEW times, None \notin times, NEW kind, NEW rows \in Seq(WalkRow(times)), NEW i \in 1..Len(rows),
           NEW w \in WalkState(times, kind), WalkedTo(rows, kind, i - 1, w),
           ~rows[i].opens, rows[i].closes, w.since # None
    PROVE  WalkedTo(rows, kind, i, Walked(kind, w, rows[i]))
  <1> DEFINE v == Walked(kind, w, rows[i])
             Waits == [kind : {kind}, from : times \cup {None}, to : times \cup {None}]
  <1>1. /\ Len(rows) \in Nat /\ DOMAIN rows = 1..Len(rows)
        /\ Begins(rows) \subseteq Openings(rows) /\ Openings(rows) \subseteq 1..Len(rows)
        /\ rows[i].at \in times
    BY RunFacts
  <1>2. w.since \in times \cup {None} /\ w.waits \in Seq(Waits)
    BY DEF WalkState
  <1>3. v.since = None /\ v.waits = Append(w.waits, Wait(kind, w.since, rows[i].at))
    BY DEF Walked
  <1>4. i \notin Openings(rows) /\ i \notin Begins(rows)
    BY <1>1 DEF Openings
  <1>5. PICK b \in Begins(rows) : /\ LastBegin(rows, i - 1, b) /\ w.since = rows[b].at
                                  /\ \A c \in Closings(rows, b) : i - 1 < c
    BY DEF WalkedTo, BegunAt
  <1>6. LastBegin(rows, i, b)
    BY <1>4, <1>5, <1>1 DEF LastBegin
  <1>7. i \in Closings(rows, b)
    <2>1. i \in OfRun(rows, b)
      BY <1>6, RunFacts
    <2> QED
      BY <2>1 DEF Closings
  <1>8. ShutAt(rows, i)
    <2>1. ASSUME NEW p \in Openings(rows), p <= i PROVE \E k \in p + 1 .. i : rows[k].closes
      <3>1. i \in p + 1 .. i
        BY <1>1, <1>4, <2>1
      <3> QED
        BY <3>1
    <2>2. ASSUME NEW a \in Begins(rows), LastBegin(rows, i, a) PROVE \E c \in Closings(rows, a) : c <= i
      <3>1. a = b
        BY <1>1, <1>6, <2>2 DEF LastBegin
      <3> QED
        BY <3>1, <1>7
    <2> QED
      BY <2>1, <2>2 DEF ShutAt
  <1>9. \A x : IsOver(rows, kind, i, x) <=> IsOver(rows, kind, i - 1, x) \/ x = Wait(kind, w.since, rows[i].at)
    BY <1>5, <1>7, OverClosed
  <1>10. \A x : x \in ToSet(v.waits) <=> x \in ToSet(w.waits) \/ x = Wait(kind, w.since, rows[i].at)
    <2>1. Wait(kind, w.since, rows[i].at) \in Waits
      BY <1>1, <1>2 DEF Wait
    <2> DEFINE over == Wait(kind, w.since, rows[i].at)
               held == w.waits
    <2>2. v.waits = Append(held, over) /\ over \in Waits /\ held \in Seq(Waits)
      BY <1>2, <1>3, <2>1
    <2> HIDE DEF Waits, v, over, held
    <2>3. \A x : x \in ToSet(Append(held, over)) <=> x \in ToSet(held) \/ x = over
      BY <2>2, ToSetAppends
    <2>4. \A x : x \in ToSet(v.waits) <=> x \in ToSet(held) \/ x = over
      BY <2>2, <2>3
    <2> QED
      BY <2>4 DEF held, over
  <1> QED
    BY <1>3, <1>8, <1>9, <1>10 DEF WalkedTo

LEMMA StepPasses ==
    ASSUME NEW times, None \notin times, NEW kind, NEW rows \in Seq(WalkRow(times)), NEW i \in 1..Len(rows),
           NEW w \in WalkState(times, kind), WalkedTo(rows, kind, i - 1, w),
           ~rows[i].opens, ~(rows[i].closes /\ w.since # None)
    PROVE  WalkedTo(rows, kind, i, Walked(kind, w, rows[i]))
  <1> DEFINE v == Walked(kind, w, rows[i])
  <1>1. /\ Len(rows) \in Nat /\ DOMAIN rows = 1..Len(rows)
        /\ Begins(rows) \subseteq Openings(rows) /\ Openings(rows) \subseteq 1..Len(rows)
        /\ {rows[i].closes, rows[i].gated} \subseteq BOOLEAN
        /\ \A b \in Begins(rows) : Closings(rows, b) \subseteq 1..Len(rows)
    BY RunFacts
  <1>2. w.worked \in BOOLEAN
    BY DEF WalkState
  <1>3. v.since = w.since /\ v.seen = w.seen /\ (v.worked <=> w.worked \/ ~rows[i].gated) /\ v.waits = w.waits
    BY DEF Walked
  <1>4. i \notin Openings(rows) /\ i \notin Begins(rows)
    BY <1>1 DEF Openings
  <1>5. /\ \A b \in Begins(rows) : LastBegin(rows, i, b) <=> LastBegin(rows, i - 1, b)
        /\ \A p \in Openings(rows) : p <= i => p <= i - 1
        /\ \A p \in Openings(rows) : LastOpening(rows, i - 1, p) => LastOpening(rows, i, p)
    BY <1>1, <1>4 DEF LastBegin, LastOpening
  <1>6. CASE w.since = None
    <2>1. ShutAt(rows, i - 1)
      BY <1>6 DEF WalkedTo
    <2>2. ASSUME NEW p \in Openings(rows), p <= i PROVE \E k \in p + 1 .. i : rows[k].closes
      <3>1. PICK k \in p + 1 .. i - 1 : rows[k].closes
        BY <2>1, <2>2, <1>5 DEF ShutAt
      <3> QED
        BY <3>1, <1>1
    <2>3. ASSUME NEW b \in Begins(rows), LastBegin(rows, i, b)
          PROVE  \E c \in Closings(rows, b) : c <= i - 1 /\ c < i /\ c <= i
      BY <2>1, <2>3, <1>1, <1>5 DEF ShutAt
    <2>4. ShutAt(rows, i)
      BY <2>2, <2>3 DEF ShutAt
    <2>5. ASSUME NEW b \in Begins(rows), i \in Closings(rows, b) PROVE \E c \in Closings(rows, b) : c < i
      <3>1. i \in OfRun(rows, b)
        BY <2>5 DEF Closings
      <3>2. LastBegin(rows, i, b)
        BY <3>1, RunFacts
      <3> QED
        BY <3>2, <2>3
    <2>6. \A x : IsOver(rows, kind, i, x) <=> IsOver(rows, kind, i - 1, x)
      BY <2>5, <1>4, OverSame
    <2> QED
      BY <1>3, <1>6, <2>4, <2>6 DEF WalkedTo
  <1>7. CASE w.since # None
    <2>1. \A b \in Begins(rows) : i \notin Closings(rows, b)
      BY <1>7 DEF Closings
    <2>2. \A x : IsOver(rows, kind, i, x) <=> IsOver(rows, kind, i - 1, x)
      BY <2>1, <1>4, OverSame
    <2>3. BegunAt(rows, i, v)
      <3>1. PICK b \in Begins(rows) : /\ LastBegin(rows, i - 1, b) /\ w.since = rows[b].at
                                      /\ \A c \in Closings(rows, b) : i - 1 < c
        BY <1>7 DEF WalkedTo, BegunAt
      <3>2. \A c \in Closings(rows, b) : i < c
        BY <3>1, <2>1, <1>1
      <3> QED
        BY <3>1, <3>2, <1>3, <1>5 DEF BegunAt
    <2>4. SeenAt(rows, i, v)
      <3>1. PICK p \in Openings(rows) : /\ LastOpening(rows, i - 1, p) /\ w.seen = rows[p].at
                                        /\ w.worked <=> \E k \in p + 1 .. i - 1 : ~rows[k].gated
                                        /\ \A k \in p + 1 .. i - 1 : ~rows[k].closes
        BY <1>7 DEF WalkedTo, SeenAt
      <3>2. p < i
        BY <3>1, <1>1, <1>4, <1>5 DEF LastOpening
      <3>3. \A k \in p + 1 .. i : k \in p + 1 .. i - 1 \/ k = i
        BY <1>1, <3>2
      <3>4. \A k \in p + 1 .. i - 1 : k \in p + 1 .. i
        BY <1>1, <3>2
      <3>5. i \in p + 1 .. i
        BY <1>1, <3>2
      <3>6. v.worked <=> \E k \in p + 1 .. i : ~rows[k].gated
        BY <3>1, <3>3, <3>4, <3>5, <1>3
      <3>7. \A k \in p + 1 .. i : ~rows[k].closes
        BY <3>1, <3>3, <1>7
      <3> QED
        BY <3>1, <3>6, <3>7, <1>3, <1>5 DEF SeenAt
    <2> QED
      BY <1>3, <1>7, <2>2, <2>3, <2>4 DEF WalkedTo
  <1> QED
    BY <1>6, <1>7

(* What the walk knows holds after every row.                              *)
LEMMA WalkedAlways ==
    ASSUME NEW times, None \notin times, NEW kind, NEW rows \in Seq(WalkRow(times))
    PROVE  \A i \in 0..Len(rows) : WalkedTo(rows, kind, i, Walking(rows, kind)[i])
  <1> DEFINE w == Walking(rows, kind)
             S == {i \in 0..Len(rows) : WalkedTo(rows, kind, i, w[i])}
  <1>1. /\ Len(rows) \in Nat /\ DOMAIN rows = 1..Len(rows)
        /\ Begins(rows) \subseteq Openings(rows) /\ Openings(rows) \subseteq 1..Len(rows)
        /\ \A i \in DOMAIN rows : rows[i].opens \in BOOLEAN /\ rows[i].closes \in BOOLEAN
    BY RunFacts
  <1>2. /\ w \in [0..Len(rows) -> WalkState(times, kind)]
        /\ w[0] = NoWait
        /\ \A i \in 1..Len(rows) : w[i] = Walked(kind, w[i - 1], rows[i])
    <2>1. Walking(rows, kind) \in [0..Len(rows) -> WalkState(times, kind)]
      BY WalkingType
    <2>2. Walking(rows, kind)[0] = NoWait
      BY WalkingType DEF Walks
    <2>3. \A i \in 1..Len(rows) : Walking(rows, kind)[i] = Walked(kind, Walking(rows, kind)[i - 1], rows[i])
      <3>1. Walks(Walking(rows, kind), rows, kind)
        BY WalkingType
      <3> HIDE DEF w, S
      <3> QED
        BY <3>1 DEF Walks
    <2> QED
      BY <2>1, <2>2, <2>3
  <1> HIDE DEF w
  <1>3. 0 \in S
    <2>1. NoWait.since = None /\ ToSet(NoWait.waits) = {}
      BY DEF NoWait, ToSet
    <2>2. ShutAt(rows, 0)
      BY <1>1 DEF ShutAt, LastBegin
    <2>3. ASSUME NEW x PROVE ~IsOver(rows, kind, 0, x)
      <3>1. ASSUME NEW b \in Begins(rows), NEW e \in DOMAIN rows PROVE ~EndsAt(rows, 0, b, e)
        BY <1>1 DEF EndsAt
      <3> QED
        BY <3>1 DEF IsOver
    <2> QED
      BY <1>1, <1>2, <2>1, <2>2, <2>3 DEF WalkedTo
  <1>4. ASSUME NEW i \in 1..Len(rows), i - 1 \in S PROVE i \in S
    <2>1. w[i - 1] \in WalkState(times, kind) /\ i \in 0..Len(rows) /\ w[i] = Walked(kind, w[i - 1], rows[i])
      BY <1>1, <1>2
    <2>2. WalkedTo(rows, kind, i - 1, w[i - 1])
      BY <1>4
    <2> DEFINE u == w[i - 1]
    <2>3. u \in WalkState(times, kind) /\ WalkedTo(rows, kind, i - 1, u)
      BY <2>1, <2>2
    <2> HIDE DEF u
    <2>4. ASSUME rows[i].opens PROVE WalkedTo(rows, kind, i, Walked(kind, u, rows[i]))
      BY <2>3, <2>4, StepOpens
    <2>5. ASSUME ~rows[i].opens /\ rows[i].closes /\ u.since # None PROVE WalkedTo(rows, kind, i, Walked(kind, u, rows[i]))
      BY <2>3, <2>5, StepCloses
    <2>6. ASSUME ~rows[i].opens /\ ~(rows[i].closes /\ u.since # None) PROVE WalkedTo(rows, kind, i, Walked(kind, u, rows[i]))
      BY <2>3, <2>6, StepPasses
    <2>7. WalkedTo(rows, kind, i, Walked(kind, u, rows[i]))
      BY <1>1, <2>4, <2>5, <2>6
    <2> QED
      BY <2>1, <2>7 DEF u
  <1> HIDE DEF S
  <1>5. \A i \in 0..Len(rows) : i \in S
    BY <1>1, <1>3, <1>4, UpTo
  <1> QED
    BY <1>5 DEF S, w

(* When a wait ends by the rule, and which waits are over at the last row. *)
EndByRule(rows, still, b) ==
    IF Closings(rows, b) # {} THEN rows[Min(Closings(rows, b))].at
    ELSE IF still /\ b = Max(Begins(rows)) THEN None
    ELSE rows[Max(Openings(rows) \cap OfRun(rows, b))].at

LEMMA RuleUnfolds ==
    ASSUME NEW rows, NEW still, NEW kind
    PROVE  WaitsByRule(rows, still, kind) =
               {Wait(kind, rows[b].at, EndByRule(rows, still, b)) : b \in Begins(rows)}
  BY DEF WaitsByRule, EndByRule, Closings, OfRun, Begins, Openings

LEMMA EndsByRule ==
    ASSUME NEW times, NEW rows \in Seq(WalkRow(times)), NEW b \in Begins(rows), NEW still, NEW e \in DOMAIN rows,
           EndsAt(rows, Len(rows), b, e)
    PROVE  EndByRule(rows, still, b) = rows[e].at
  <1>1. /\ Len(rows) \in Nat /\ DOMAIN rows = 1..Len(rows)
        /\ Begins(rows) \subseteq Openings(rows) /\ Openings(rows) \subseteq 1..Len(rows)
        /\ Closings(rows, b) \subseteq 1..Len(rows) /\ OfRun(rows, b) \subseteq b..Len(rows)
    BY RunFacts DEF Closings
  <1>2. CASE Closings(rows, b) # {}
    <2>1. e \in Closings(rows, b) /\ \A c \in Closings(rows, b) : e <= c
      BY <1>2 DEF EndsAt
    <2>2. Closings(rows, b) \subseteq Nat
      BY <1>1
    <2>3. Min(Closings(rows, b)) \in Closings(rows, b) /\ \A c \in Closings(rows, b) : Min(Closings(rows, b)) <= c
      BY <1>2, <2>2, MinIs
    <2>4. Min(Closings(rows, b)) = e
      <3> DEFINE m == Min(Closings(rows, b))
      <3>1. m \in Nat /\ e \in Nat /\ m <= e /\ e <= m
        BY <2>1, <2>2, <2>3
      <3> HIDE DEF m
      <3>2. m = e
        BY <3>1
      <3> QED
        BY <3>2 DEF m
    <2> QED
      BY <1>2, <2>4 DEF EndByRule
  <1>3. CASE Closings(rows, b) = {}
    <2> DEFINE seen == Openings(rows) \cap OfRun(rows, b)
    <2>1. /\ \E c \in Begins(rows) : b < c
          /\ e \in seen /\ \A q \in seen : q <= e
      BY <1>3 DEF EndsAt
    <2>2. seen \subseteq 0..Len(rows) /\ Begins(rows) \subseteq 0..Len(rows)
      BY <1>1
    <2> HIDE DEF seen
    <2>3. Max(seen) \in seen /\ \A q \in seen : q <= Max(seen)
      BY <1>1, <2>1, <2>2, MaxIs
    <2>4. Max(seen) = e
      <3> DEFINE m == Max(seen)
      <3>1. m \in Nat /\ e \in Nat /\ m <= e /\ e <= m
        BY <2>1, <2>2, <2>3
      <3> HIDE DEF m
      <3>2. m = e
        BY <3>1
      <3> QED
        BY <3>2 DEF m
    <2>5. b # Max(Begins(rows))
      <3>1. \A q \in Begins(rows) : q <= Max(Begins(rows))
        BY <1>1, <2>2, MaxIs
      <3> QED
        BY <2>1, <2>2, <3>1
    <2> QED
      BY <1>3, <2>4, <2>5 DEF EndByRule, seen
  <1> QED
    BY <1>2, <1>3

LEMMA EndsSomewhere ==
    ASSUME NEW times, NEW rows \in Seq(WalkRow(times)), NEW b \in Begins(rows),
           Closings(rows, b) # {} \/ \E c \in Begins(rows) : b < c
    PROVE  \E e \in DOMAIN rows : EndsAt(rows, Len(rows), b, e)
  <1>1. /\ Len(rows) \in Nat /\ DOMAIN rows = 1..Len(rows)
        /\ Begins(rows) \subseteq Openings(rows) /\ Openings(rows) \subseteq 1..Len(rows)
        /\ Closings(rows, b) \subseteq 1..Len(rows) /\ OfRun(rows, b) \subseteq b..Len(rows)
        /\ b \in OfRun(rows, b)
    BY RunFacts DEF Closings
  <1>2. CASE Closings(rows, b) # {}
    <2>1. Closings(rows, b) \subseteq Nat
      BY <1>1
    <2>2. PICK e \in Closings(rows, b) : \A c \in Closings(rows, b) : e <= c
      BY <1>2, <2>1, LeastNat
    <2>3. EndsAt(rows, Len(rows), b, e)
      BY <1>1, <2>2 DEF EndsAt
    <2> QED
      BY <1>1, <2>2, <2>3
  <1>3. CASE Closings(rows, b) = {}
    <2> DEFINE seen == Openings(rows) \cap OfRun(rows, b)
    <2>1. seen \subseteq 0..Len(rows) /\ seen # {} /\ seen \subseteq DOMAIN rows
      BY <1>1
    <2>2. PICK e \in seen : \A q \in seen : q <= e
      <3> HIDE DEF seen
      <3> QED
        BY <1>1, <2>1, MaxIs
    <2>3. \E c \in Begins(rows) : b < c /\ c <= Len(rows)
      BY <1>1, <1>3
    <2>4. EndsAt(rows, Len(rows), b, e)
      BY <1>3, <2>2, <2>3 DEF EndsAt
    <2> QED
      BY <2>1, <2>2, <2>4
  <1> QED
    BY <1>2, <1>3

(* The waits worked out row by row are the ones the rule gives, for any    *)
(* rows whose times are recorded (factory._walk).                          *)
THEOREM WalkFollowsTheRule ==
    ASSUME NEW times, None \notin times, NEW kind, NEW still, NEW rows \in Seq(WalkRow(times))
    PROVE  ToSet(Walk(rows, still, kind)) = WaitsByRule(rows, still, kind)
  <1> DEFINE n == Len(rows)
             w == Walking(rows, kind)[n]
             Waits == [kind : {kind}, from : times \cup {None}, to : times \cup {None}]
             ByRule(b) == Wait(kind, rows[b].at, EndByRule(rows, still, b))
  <1>1. /\ n \in Nat /\ DOMAIN rows = 1..n
        /\ Begins(rows) \subseteq Openings(rows) /\ Openings(rows) \subseteq 1..n
        /\ \A i \in DOMAIN rows : rows[i].at \in times
        /\ \A b \in Begins(rows) : Closings(rows, b) \subseteq 1..n
    BY RunFacts
  <1>2. w \in WalkState(times, kind) /\ WalkedTo(rows, kind, n, w)
    BY <1>1, WalkingType, WalkedAlways
  <1>3. /\ w.since \in times \cup {None} /\ w.seen \in times \cup {None}
        /\ w.waits \in Seq(Waits)
    BY <1>2 DEF WalkState
  <1>4. ToSet(Walk(rows, still, kind)) =
            ToSet(IF w.since = None THEN w.waits
                  ELSE Append(w.waits, Wait(kind, w.since, IF still THEN None ELSE w.seen)))
    BY DEF Walk
  <1> HIDE DEF w
  <1>5. ASSUME NEW x
        PROVE  x \in ToSet(w.waits) <=>
                   \E b \in Begins(rows) : /\ Closings(rows, b) # {} \/ \E c \in Begins(rows) : b < c
                                           /\ x = ByRule(b)
    <2>1. x \in ToSet(w.waits) <=> IsOver(rows, kind, n, x)
      BY <1>2 DEF WalkedTo
    <2>2. ASSUME IsOver(rows, kind, n, x)
          PROVE  \E b \in Begins(rows) : /\ Closings(rows, b) # {} \/ \E c \in Begins(rows) : b < c
                                         /\ x = ByRule(b)
      <3>1. PICK b \in Begins(rows), e \in DOMAIN rows : EndsAt(rows, n, b, e) /\ x = Wait(kind, rows[b].at, rows[e].at)
        BY <2>2 DEF IsOver
      <3>2. EndByRule(rows, still, b) = rows[e].at
        BY <3>1, EndsByRule
      <3>3. Closings(rows, b) # {} \/ \E c \in Begins(rows) : b < c
        BY <3>1 DEF EndsAt
      <3> QED
        BY <3>1, <3>2, <3>3
    <2>3. ASSUME NEW b \in Begins(rows), Closings(rows, b) # {} \/ \E c \in Begins(rows) : b < c, x = ByRule(b)
          PROVE  IsOver(rows, kind, n, x)
      <3>1. PICK e \in DOMAIN rows : EndsAt(rows, n, b, e)
        BY <2>3, EndsSomewhere
      <3>2. EndByRule(rows, still, b) = rows[e].at
        BY <3>1, EndsByRule
      <3> QED
        BY <2>3, <3>1, <3>2 DEF IsOver
    <2> QED
      BY <2>1, <2>2, <2>3
  <1>6. CASE w.since = None
    <2>1. ASSUME NEW b \in Begins(rows) PROVE Closings(rows, b) # {} \/ \E c \in Begins(rows) : b < c
      <3>1. CASE LastBegin(rows, n, b)
        BY <1>2, <1>6, <3>1 DEF WalkedTo, ShutAt
      <3>2. CASE ~LastBegin(rows, n, b)
        BY <1>1, <3>2 DEF LastBegin
      <3> QED
        BY <3>1, <3>2
    <2>2. \A x : x \in ToSet(w.waits) <=> x \in {ByRule(b) : b \in Begins(rows)}
      <3> HIDE DEF ByRule
      <3> QED
        BY <2>1, <1>5
    <2> QED
      BY <1>4, <1>6, <2>2, RuleUnfolds
  <1>7. CASE w.since # None
    <2>1. PICK b \in Begins(rows) : LastBegin(rows, n, b) /\ w.since = rows[b].at /\ \A c \in Closings(rows, b) : n < c
      BY <1>2, <1>7 DEF WalkedTo, BegunAt
    <2>2. PICK p \in Openings(rows) : LastOpening(rows, n, p) /\ w.seen = rows[p].at
      BY <1>2, <1>7 DEF WalkedTo, SeenAt
    <2>3. Closings(rows, b) = {} /\ ~\E c \in Begins(rows) : b < c
      BY <1>1, <2>1 DEF LastBegin
    <2>4. ASSUME NEW c \in Begins(rows), c # b PROVE \E d \in Begins(rows) : c < d
      BY <1>1, <2>1, <2>4 DEF LastBegin
    <2>5. b = Max(Begins(rows))
      <3> DEFINE m == Max(Begins(rows))
      <3>1. m \in Begins(rows) /\ \A c \in Begins(rows) : c <= m
        BY <1>1, MaxIs
      <3>2. m \in Nat /\ b \in Nat /\ b <= m /\ m <= b
        BY <1>1, <2>1, <3>1 DEF LastBegin
      <3> HIDE DEF m
      <3>3. b = m
        BY <3>2
      <3> QED
        BY <3>3 DEF m
    <2>6. p = Max(Openings(rows) \cap OfRun(rows, b))
      <3> DEFINE seen == Openings(rows) \cap OfRun(rows, b)
                 m == Max(seen)
      <3>1. n \in OfRun(rows, b) /\ b <= p /\ p \in b..n
        BY <1>1, <2>1, <2>2, RunFacts DEF LastOpening
      <3>2. p \in seen
        BY <3>1, RunFacts
      <3>3. seen \subseteq 0..n /\ \A q \in seen : q <= p
        BY <1>1, <2>2 DEF LastOpening
      <3> HIDE DEF seen
      <3>4. m \in seen /\ \A q \in seen : q <= m
        BY <1>1, <3>2, <3>3, MaxIs
      <3> HIDE DEF m
      <3>5. m \in 0..n /\ p \in 0..n /\ p <= m /\ m <= p
        BY <3>2, <3>3, <3>4
      <3>6. p = m
        BY <1>1, <3>5
      <3> QED
        BY <3>6 DEF m, seen
    <2>7. EndByRule(rows, still, b) = IF still THEN None ELSE w.seen
      BY <2>2, <2>3, <2>5, <2>6 DEF EndByRule
    <2> DEFINE last == Wait(kind, w.since, IF still THEN None ELSE w.seen)
               held == w.waits
    <2>8. last = ByRule(b)
      BY <2>1, <2>7
    <2>9. last \in Waits /\ held \in Seq(Waits)
      BY <1>3 DEF Wait
    <2>10. ToSet(Walk(rows, still, kind)) = ToSet(Append(held, last))
      BY <1>4, <1>7
    <2>11. \A x : x \in ToSet(held) <=>
                   \E c \in Begins(rows) : /\ Closings(rows, c) # {} \/ \E d \in Begins(rows) : c < d
                                           /\ x = ByRule(c)
      BY <1>5
    <2> HIDE DEF last, held, Waits, ByRule
    <2>12. \A x : x \in ToSet(Append(held, last)) <=> x \in ToSet(held) \/ x = last
      BY <2>9, ToSetAppends
    <2>13. \A x : x \in ToSet(Append(held, last)) <=> x \in {ByRule(c) : c \in Begins(rows)}
      BY <2>12, <2>11, <2>8, <2>3, <2>4
    <2> QED
      BY <2>10, <2>13, RuleUnfolds DEF ByRule
  <1> QED
    BY <1>6, <1>7

-----------------------------------------------------------------------------
(* The rows at some places of a sequence (RowsAt), and one more row.       *)

Lists(S) == Seq(S)
Picked(places, w, i, r) == IF i \in places THEN Append(w, r) ELSE w
Picks(w, rows, places) == w[0] = <<>> /\ \A i \in 1..Len(rows) : w[i] = Picked(places, w[i - 1], i, rows[i])
PicksUpTo(rows, places) ==
    CHOOSE w : w = [i \in 0..Len(rows) |-> IF i = 0 THEN <<>> ELSE Picked(places, w[i - 1], i, rows[i])]

LEMMA PickedType ==
    ASSUME NEW S, NEW w \in Lists(S), NEW r \in S, NEW places, NEW i
    PROVE  Picked(places, w, i, r) \in Lists(S)
  <1>1. Append(w, r) \in Seq(S)
    BY AppendProperties DEF Lists
  <1> QED
    BY <1>1 DEF Picked, Lists

LEMMA PicksType ==
    ASSUME NEW S, NEW rows \in Seq(S), NEW places
    PROVE  /\ PicksUpTo(rows, places) \in [0..Len(rows) -> Lists(S)]
           /\ Picks(PicksUpTo(rows, places), rows, places)
           /\ RowsAt(rows, places) = PicksUpTo(rows, places)[Len(rows)]
  <1> DEFINE n == Len(rows)
             T == Lists(S)
             none == <<>>
             g == [x \in T \X (1..n) |-> Picked(places, x[1], x[2], rows[x[2]])]
             Rule(w) == w = [i \in 0..n |-> IF i = 0 THEN none ELSE Picked(places, w[i - 1], i, rows[i])]
             v == PicksUpTo(rows, places)
  <1>1. n \in Nat /\ \A i \in 1..n : rows[i] \in S
    BY LenProperties
  <1>2. none \in T
    BY EmptySeq DEF Lists
  <1>3. g \in Steps(T, n)
    <2>1. ASSUME NEW x \in T \X (1..n)
          PROVE  Picked(places, x[1], x[2], rows[x[2]]) \in T
      <3>1. x[1] \in Lists(S) /\ rows[x[2]] \in S
        BY <1>1
      <3> QED
        BY <3>1, PickedType
    <2> HIDE DEF T, n
    <2>2. g \in [T \X (1..n) -> T]
      BY <2>1 DEF g
    <2> QED
      BY <2>2 DEF Steps
  <1>4. \E w : Follows(w, T, n, none, g)
    <2> HIDE DEF T, n, g, none
    <2> QED
      BY <1>1, <1>2, <1>3, Recursion
  <1>5. PICK w : w \in [0..n -> T] /\ w[0] = none /\ \A i \in 1..n : w[i] = g[<<w[i - 1], i>>]
    BY <1>4 DEF Follows
  <1> HIDE DEF none
  <1>6. ASSUME NEW i \in 1..n PROVE w[i] = Picked(places, w[i - 1], i, rows[i])
    <2>1. w[i - 1] \in T /\ <<w[i - 1], i>> \in T \X (1..n)
      BY <1>1, <1>5
    <2>2. g[<<w[i - 1], i>>] = Picked(places, w[i - 1], i, rows[i])
      <3> HIDE DEF T, n
      <3> QED
        BY <2>1
    <2> QED
      BY <1>5, <2>2
  <1>7. Rule(w)
    <2> HIDE DEF T, g
    <2>1. ASSUME NEW i \in 0..n PROVE w[i] = IF i = 0 THEN none ELSE Picked(places, w[i - 1], i, rows[i])
      BY <1>5, <1>6, <1>1
    <2> QED
      BY <1>5, <2>1
  <1>8. Rule(v)
    <2>1. v = CHOOSE u : Rule(u)
      BY DEF PicksUpTo, none
    <2> HIDE DEF Rule, v
    <2> QED
      BY <1>7, <2>1
  <1>9. RowsAt(rows, places) = v[n]
    BY DEF RowsAt, PicksUpTo, Picked
  <1>10. v[0] = none /\ (\A i \in 1..n : v[i] = Picked(places, v[i - 1], i, rows[i])) /\ DOMAIN v = 0..n
         /\ v = [i \in 0..n |-> v[i]]
    <2> HIDE DEF v
    <2>1. v = [i \in 0..n |-> IF i = 0 THEN none ELSE Picked(places, v[i - 1], i, rows[i])]
      BY <1>8
    <2> QED
      BY <1>1, <2>1
  <1> HIDE DEF v
  <1>11. \A i \in 0..n : v[i] \in T
    <2> DEFINE C == {i \in 0..n : v[i] \in T}
    <2> HIDE DEF T
    <2>1. 0 \in C
      BY <1>1, <1>2, <1>10
    <2>2. ASSUME NEW i \in 1..n, i - 1 \in C PROVE i \in C
      <3>1. v[i] = Picked(places, v[i - 1], i, rows[i]) /\ v[i - 1] \in T /\ rows[i] \in S
        BY <1>1, <1>10, <2>2
      <3> QED
        BY <3>1, PickedType DEF T
    <2> HIDE DEF C
    <2>3. \A i \in 0..n : i \in C
      BY <1>1, <2>1, <2>2, UpTo
    <2> QED
      BY <2>3 DEF C
  <1>12. v \in [0..n -> T]
    <2> HIDE DEF T, n
    <2> QED
      BY <1>10, <1>11
  <1> QED
    BY <1>9, <1>10, <1>12 DEF v, Picks, none

LEMMA RowsAtType ==
    ASSUME NEW S, NEW rows \in Seq(S), NEW places
    PROVE  RowsAt(rows, places) \in Seq(S)
  <1>1. Len(rows) \in 0..Len(rows)
    BY LenProperties
  <1>2. RowsAt(rows, places) \in Lists(S)
    BY <1>1, PicksType
  <1> QED
    BY <1>2 DEF Lists

LEMMA RowsAtOfNone ==
    ASSUME NEW places
    PROVE  RowsAt(<<>>, places) = <<>>
  <1> DEFINE rows == <<>>
  <1>1. rows \in Seq({}) /\ Len(rows) = 0
    BY EmptySeq
  <1> HIDE DEF rows
  <1>2. RowsAt(rows, places) = PicksUpTo(rows, places)[Len(rows)] /\ Picks(PicksUpTo(rows, places), rows, places)
    BY <1>1, PicksType
  <1>3. RowsAt(rows, places) = <<>>
    BY <1>1, <1>2 DEF Picks
  <1> QED
    BY <1>3 DEF rows

LEMMA RowsAtOneMore ==
    ASSUME NEW S, NEW rows \in Seq(S), NEW r \in S, NEW places, NEW more,
           \A i \in 1..Len(rows) : i \in more <=> i \in places
    PROVE  RowsAt(Append(rows, r), more) =
               IF Len(rows) + 1 \in more THEN Append(RowsAt(rows, places), r) ELSE RowsAt(rows, places)
  <1> DEFINE n == Len(rows)
             all == Append(rows, r)
             w == PicksUpTo(rows, places)
             v == PicksUpTo(all, more)
  <1>1. /\ n \in Nat /\ all \in Seq(S) /\ Len(all) = n + 1
        /\ \A i \in 1..n : all[i] = rows[i]
        /\ all[n + 1] = r
    BY LenProperties, AppendProperties
  <1>2. Picks(w, rows, places) /\ RowsAt(rows, places) = w[n]
    BY PicksType
  <1> HIDE DEF all
  <1>3. Picks(v, all, more) /\ RowsAt(all, more) = v[n + 1]
    BY <1>1, PicksType
  <1> HIDE DEF w, v, n
  <1>4. w[0] = <<>> /\ \A i \in 1..n : w[i] = Picked(places, w[i - 1], i, rows[i])
    BY <1>2 DEF Picks, n
  <1>5. v[0] = <<>> /\ \A i \in 1..n + 1 : v[i] = Picked(more, v[i - 1], i, all[i])
    BY <1>1, <1>3 DEF Picks
  <1>6. \A i \in 0..n : v[i] = w[i]
    <2> DEFINE C == {i \in 0..n : v[i] = w[i]}
    <2>1. 0 \in C
      BY <1>1, <1>4, <1>5
    <2>2. ASSUME NEW i \in 1..n, i - 1 \in C PROVE i \in C
      <3>1. i \in 1..n + 1 /\ i \in 0..n
        BY <1>1
      <3>2. v[i - 1] = w[i - 1] /\ all[i] = rows[i] /\ (i \in more <=> i \in places)
        BY <1>1, <2>2 DEF n
      <3>3. v[i] = Picked(more, v[i - 1], i, all[i]) /\ w[i] = Picked(places, w[i - 1], i, rows[i])
        BY <1>4, <1>5, <3>1
      <3>4. v[i] = w[i]
        BY <3>2, <3>3 DEF Picked
      <3> QED
        BY <3>1, <3>4
    <2> HIDE DEF C
    <2>3. \A i \in 0..n : i \in C
      BY <1>1, <2>1, <2>2, UpTo
    <2> QED
      BY <2>3 DEF C
  <1>7. v[n + 1] = IF n + 1 \in more THEN Append(w[n], r) ELSE w[n]
    <2>1. n + 1 \in 1..n + 1 /\ (n + 1) - 1 = n /\ v[n] = w[n]
      BY <1>1, <1>6
    <2>2. v[n + 1] = Picked(more, v[(n + 1) - 1], n + 1, all[n + 1])
      BY <1>5, <2>1
    <2>3. v[n + 1] = Picked(more, w[n], n + 1, r)
      BY <1>1, <2>1, <2>2
    <2> QED
      BY <2>3 DEF Picked
  <1> QED
    BY <1>2, <1>3, <1>7 DEF n, all

LEMMA RowsAtEmpty ==
    ASSUME NEW S, NEW rows \in Seq(S), NEW places
    PROVE  RowsAt(rows, places) = <<>> <=> places \cap (1..Len(rows)) = {}
  <1> DEFINE n == Len(rows)
             w == PicksUpTo(rows, places)
             C == {i \in 0..n : w[i] = <<>> <=> places \cap (1..i) = {}}
  <1>1. /\ n \in Nat /\ \A i \in 1..n : rows[i] \in S
        /\ w \in [0..n -> Lists(S)] /\ Picks(w, rows, places) /\ RowsAt(rows, places) = w[n]
    BY LenProperties, PicksType
  <1> HIDE DEF w
  <1>2. w[0] = <<>> /\ \A i \in 1..n : w[i] = Picked(places, w[i - 1], i, rows[i])
    BY <1>1 DEF Picks
  <1> HIDE DEF n
  <1>3. 0 \in C
    BY <1>1, <1>2
  <1>4. ASSUME NEW i \in 1..n, i - 1 \in C PROVE i \in C
    <2>1. i \in 0..n /\ i - 1 \in 0..n /\ 1..i = (1..i - 1) \cup {i}
      BY <1>1
    <2>2. w[i - 1] \in Seq(S)
      BY <1>1, <2>1 DEF Lists
    <2>3. Append(w[i - 1], rows[i]) # <<>>
      <3> DEFINE s == w[i - 1]
                 r == rows[i]
      <3>1. s \in Seq(S) /\ r \in S
        BY <1>1, <2>2
      <3> HIDE DEF s, r
      <3>2. Append(s, r) \in Seq(S) /\ Len(Append(s, r)) = Len(s) + 1 /\ Len(s) \in Nat
        BY <3>1, AppendProperties, LenProperties
      <3>3. Append(s, r) # <<>>
        BY <3>2, EmptySeq
      <3> QED
        BY <3>3 DEF s, r
    <2>4. w[i] = Picked(places, w[i - 1], i, rows[i])
      BY <1>2
    <2>5. w[i - 1] = <<>> <=> places \cap (1..i - 1) = {}
      BY <1>4
    <2>6. w[i] = <<>> <=> places \cap (1..i) = {}
      BY <2>1, <2>3, <2>4, <2>5 DEF Picked
    <2> QED
      BY <2>1, <2>6
  <1>5. \A i \in 0..n : i \in C
    <2> HIDE DEF C
    <2> QED
      BY <1>1, <1>3, <1>4, UpTo
  <1>6. n \in C
    <2> HIDE DEF C
    <2> QED
      BY <1>1, <1>5
  <1> QED
    BY <1>1, <1>6 DEF n

LEMMA NoneOfKind ==
    ASSUME NEW S, NEW rows \in Seq(S), NEW kinds
    PROVE  OfKind(rows, kinds) = <<>> <=> \A j \in DOMAIN rows : rows[j].kind \notin kinds
  <1> DEFINE places == {j \in DOMAIN rows : rows[j].kind \in kinds}
  <1>1. DOMAIN rows = 1..Len(rows)
    BY LenProperties
  <1>2. places \cap (1..Len(rows)) = {} <=> \A j \in DOMAIN rows : rows[j].kind \notin kinds
    BY <1>1
  <1>3. OfKind(rows, kinds) = RowsAt(rows, places)
    BY DEF OfKind
  <1> HIDE DEF places
  <1> QED
    BY <1>2, <1>3, RowsAtEmpty

-----------------------------------------------------------------------------
(* The record: what it can hold, and how it grows.                         *)

LEMMA OfKindType ==
    ASSUME NEW S, NEW rows \in Seq(S), NEW kinds
    PROVE  OfKind(rows, kinds) \in Seq(S)
  BY RowsAtType DEF OfKind

LEMMA OfKindOneMore ==
    ASSUME NEW S, NEW rows \in Seq(S), NEW r \in S, NEW kinds
    PROVE  OfKind(Append(rows, r), kinds) =
               IF r.kind \in kinds THEN Append(OfKind(rows, kinds), r) ELSE OfKind(rows, kinds)
  <1> DEFINE all == Append(rows, r)
             n == Len(rows)
             places == {i \in DOMAIN rows : rows[i].kind \in kinds}
             more == {i \in DOMAIN all : all[i].kind \in kinds}
  <1>1. /\ n \in Nat /\ DOMAIN rows = 1..n /\ DOMAIN all = 1..n + 1
        /\ \A i \in 1..n : all[i] = rows[i]
        /\ all[n + 1] = r
    BY LenProperties, AppendProperties
  <1>2. (\A i \in 1..n : i \in more <=> i \in places) /\ (n + 1 \in more <=> r.kind \in kinds)
    <2> HIDE DEF all, n
    <2> QED
      BY <1>1
  <1>3. OfKind(all, kinds) = RowsAt(all, more) /\ OfKind(rows, kinds) = RowsAt(rows, places)
    BY DEF OfKind
  <1> HIDE DEF places, more
  <1>4. RowsAt(Append(rows, r), more) =
            IF Len(rows) + 1 \in more THEN Append(RowsAt(rows, places), r) ELSE RowsAt(rows, places)
    BY <1>2, RowsAtOneMore
  <1> QED
    BY <1>2, <1>3, <1>4

LEMMA LastRowType ==
    ASSUME NEW S, NEW rows \in Seq(S), rows # <<>>
    PROVE  LastRow(rows) \in S
  <1>1. Len(rows) \in 1..Len(rows)
    BY EmptySeq, LenProperties
  <1> QED
    BY <1>1, ElementOfSeq DEF LastRow

(* Time going by changes no type.                                          *)
LEMMA TypesGrow ==
    ASSUME NEW t \in Nat, NEW u \in Nat, t <= u
    PROVE  Features(t) \subseteq Features(u)
  <1>1. Times(t) \subseteq Times(u) /\ Moments(t) \subseteq Moments(u)
    BY DEF Times, Moments
  <1>2. Stages(t) \subseteq Stages(u) /\ Events(t) \subseteq Events(u)
    BY <1>1 DEF Stages, Events
  <1>3. Seq(Stages(t)) \subseteq Seq(Stages(u)) /\ Seq(Events(t)) \subseteq Seq(Events(u))
    BY <1>2, SeqMonotonic
  <1>4. Builds(t) \subseteq Builds(u)
    BY <1>1, <1>3 DEF Builds
  <1>5. Runs(t) \subseteq Runs(u)
    BY <1>1, <1>3 DEF Runs
  <1>6. Missions(t) \subseteq Missions(u)
    BY <1>1, <1>4 DEF Missions
  <1>7. Items(t) \subseteq Items(u)
    BY <1>1 DEF Items
  <1>8. Seq(Builds(t)) \subseteq Seq(Builds(u))
    BY <1>4, SeqMonotonic
  <1> QED
    BY <1>4, <1>5, <1>6, <1>7, <1>8 DEF Features

(* A build keeps its role and its rows, and is given at most one row, that *)
(* asks for what is the build's own and for no merge that was decided or   *)
(* retired; it is paused under a request of its own, and a finished one    *)
(* stays finished.                                                         *)
Gates == {BuildGateStage, "budget"} \X Nat
RowBelongs(i, b, kind, req) ==
    /\ kind \in Decided \cup {"offer"} => MergeDecision(b) = None
    /\ kind = "offer" => req = <<"merge", i>> /\ MergeRetired(b) = None
    /\ kind = "pause" => req \in Gates
Keeps(i, b, c) ==
    /\ c.role = b.role
    /\ b.status = "COMPLETE" => c.status = "COMPLETE"
    /\ c.status = "PAUSED" => c.pending \in Gates \/ (b.status = "PAUSED" /\ c.pending = b.pending)
    /\ \/ c.stages = b.stages
       \/ \E r \in Stages(now) :
            r.at = now /\ c.stages = Append(b.stages, r) /\ RowBelongs(i, b, r.kind, r.req)
IsNew(b) == b.stages = <<>> /\ b.status # "PAUSED"
IsNewMerge(b) == b.stages = <<>> /\ b.status = "COMPLETE"

(* A planning run keeps its events; a door is opened under a new request,  *)
(* and again under the one that is open.                                   *)
Asked(run, d) == {e.req : e \in ToSet(OfKind(DoorEvents(run, d), {"GATED"}))}
EventBelongs(run, kind, d, req) ==
    /\ kind = "GATED" => d \in Doors /\ req = <<d, Cardinality(Asked(run, d))>>
    /\ kind = "reopened" => \E c \in OpenCards(DoorCard(run, d)) : req = c.req
KeepsEvents(run, next) ==
    \/ next.events = run.events
    \/ \E e \in Events(now) : next.events = Append(run.events, e) /\ EventBelongs(run, e.kind, e.door, e.req)

(* A mission's plan is answered once.                                      *)
KeepsPlan(m, n) ==
    /\ n.plan = m.plan /\ n.created = m.created
    /\ \/ n.status = m.status /\ n.by = m.by /\ n.approved = m.approved
       \/ n.status # "PROPOSED" /\ (m.status = "PROPOSED" \/ (n.by = m.by /\ n.approved = m.approved))

(* A feature keeps its builds, and whether it is a part of a mission.      *)
KeepsBuilds ==
    /\ Len(f.builds) <= Len(f'.builds)
    /\ \A i \in DOMAIN f.builds : Keeps(i, f.builds[i], f'.builds[i])
    /\ \A i \in DOMAIN f'.builds \ DOMAIN f.builds :
          IsNew(f'.builds[i]) /\ (f.mission # None => f'.builds[i].role = "feature")
KeepsMission ==
    /\ f.mission = None <=> f'.mission = None
    /\ f.mission # None => KeepsPlan(f.mission, f'.mission)
    /\ f.mission # None /\ f.mission.merge # None =>
          f'.mission.merge # None /\ Keeps(0, f.mission.merge, f'.mission.merge)
    /\ f.mission # None /\ f.mission.merge = None => f'.mission.merge = None \/ IsNewMerge(f'.mission.merge)
KeepsRun ==
    /\ f.planning # None => f'.planning # None /\ KeepsEvents(f.planning, f'.planning)
    /\ f.planning = None => f'.planning = None \/ f'.planning.events = <<>>
Grows == KeepsBuilds /\ KeepsMission /\ KeepsRun

(* Which requests a build, a door and a plan are asked under, and that a   *)
(* build is offered only before its merge is decided or its offer retired. *)
Shuts == Decided \cup {"retired"}
PartsAreFeatures == f.mission # None => \A i \in DOMAIN f.builds : f.builds[i].role = "feature"
AskedAs(i, b) ==
    /\ b.status = "PAUSED" => b.pending \in Gates
    /\ \A j \in DOMAIN b.stages : /\ b.stages[j].kind = "offer" => b.stages[j].req = <<"merge", i>>
                                  /\ b.stages[j].kind = "pause" => b.stages[j].req \in Gates
    /\ \A j, k \in DOMAIN b.stages : b.stages[j].kind \in Shuts /\ b.stages[k].kind = "offer" => k < j
BuildsAsked ==
    /\ \A i \in DOMAIN f.builds : AskedAs(i, f.builds[i])
    /\ f.mission # None => (f.mission.merge # None => AskedAs(0, f.mission.merge))
DoorAsked(run, d) ==
    /\ IsFiniteSet(Asked(run, d))
    /\ Asked(run, d) = {<<d, k>> : k \in 0 .. Cardinality(Asked(run, d)) - 1}
    /\ \A j \in DOMAIN DoorEvents(run, d) :
          DoorEvents(run, d)[j].kind \in DoorOpen => DoorEvents(run, d)[j].req \in Asked(run, d)
RunAsked == f.planning # None => \A d \in {"spec", "sign_in"} : DoorAsked(f.planning, d)
PlanAsked ==
    f.mission # None => f.mission.plan = <<"plan", 0>> /\ (f.mission.by # None => f.mission.status # "PROPOSED")
MergeDone == f.mission # None => (f.mission.merge # None => f.mission.merge.status = "COMPLETE")
RecordInv == TypeOK /\ PartsAreFeatures /\ BuildsAsked /\ RunAsked /\ PlanAsked /\ MergeDone

LEMMA FeatureFields ==
    ASSUME TypeOK
    PROVE  /\ now \in Nat /\ now \in Times(now) /\ now \in Moments(now) /\ None \in Moments(now)
           /\ f \in Features(now)
           /\ f.queue \in Items(now) \cup {None} /\ f.planning \in Runs(now) \cup {None}
           /\ f.builds \in Seq(Builds(now)) /\ f.mission \in Missions(now) \cup {None}
           /\ Len(f.builds) \in Nat /\ DOMAIN f.builds = 1..Len(f.builds)
           /\ \A i \in DOMAIN f.builds : f.builds[i] \in Builds(now)
  <1>1. now \in Nat /\ f \in Features(now)
    BY RecordAssumption DEF TypeOK
  <1>2. /\ f.queue \in Items(now) \cup {None} /\ f.planning \in Runs(now) \cup {None}
        /\ f.builds \in Seq(Builds(now)) /\ f.mission \in Missions(now) \cup {None}
    BY <1>1 DEF Features
  <1>3. Len(f.builds) \in Nat /\ DOMAIN f.builds = 1..Len(f.builds) /\ f.builds \in [1..Len(f.builds) -> Builds(now)]
    BY <1>2, LenProperties
  <1> QED
    BY <1>1, <1>2, <1>3 DEF Times, Moments

LEMMA NoneIsNoBuild ==
    ASSUME TypeOK
    PROVE  None \notin Builds(now) /\ None \notin Missions(now) /\ None \notin Runs(now)
  BY NoneAssumption DEF TypeOK

LEMMA RefIsBuild ==
    ASSUME TypeOK, NEW i \in Refs
    PROVE  /\ BuildOf(i) \in Builds(now)
           /\ i = 0 => f.mission \in Missions(now) /\ f.mission.merge \in Builds(now) /\ BuildOf(i) = f.mission.merge
           /\ i # 0 => i \in DOMAIN f.builds /\ BuildOf(i) = f.builds[i]
           /\ i \in Nat
  <1>1. CASE i = 0
    <2>1. i \notin DOMAIN f.builds
      BY <1>1, FeatureFields
    <2>2. f.mission # None /\ f.mission.merge # None
      BY <2>1 DEF Refs
    <2>3. f.mission \in Missions(now) /\ f.mission.merge \in Builds(now)
      BY <2>2, FeatureFields DEF Missions
    <2> QED
      BY <1>1, <2>3 DEF BuildOf
  <1>2. CASE i # 0
    <2>1. i \in DOMAIN f.builds
      BY <1>2 DEF Refs
    <2> QED
      BY <1>2, <2>1, FeatureFields DEF BuildOf
  <1> QED
    BY <1>1, <1>2

LEMMA BuildFields ==
    ASSUME NEW t, NEW b \in Builds(t)
    PROVE  /\ b.status \in BuildActive \cup BuildBroken \cup {"COMPLETE"}
           /\ b.started \in Moments(t) /\ b.completed \in Moments(t)
           /\ b.pending \in Requests /\ b.stages \in Seq(Stages(t))
           /\ b.role \in {None, "feature", "mission-merge"}
  BY DEF Builds

LEMMA RunFields ==
    ASSUME TypeOK, f.planning # None
    PROVE  /\ f.planning \in Runs(now) /\ f.planning.events \in Seq(Events(now))
           /\ \A d : DoorEvents(f.planning, d) \in Seq(Events(now))
  <1>1. f.planning \in Runs(now)
    BY FeatureFields
  <1>2. f.planning.events \in Seq(Events(now))
    BY <1>1 DEF Runs
  <1> QED
    BY <1>1, <1>2, RowsAtType DEF DoorEvents

LEMMA CardFields ==
    /\ \A kind, req, opened, answerable :
          /\ OpenCard(kind, req, opened, answerable).req = req
          /\ OpenCard(kind, req, opened, answerable).answered = FALSE
          /\ OpenCard(kind, req, opened, answerable).open = TRUE
    /\ \A kind, req, opened, at :
          /\ Unanswered(kind, req, opened, at).req = req
          /\ Unanswered(kind, req, opened, at).answered = FALSE
          /\ Unanswered(kind, req, opened, at).open = FALSE
    /\ \A kind, req, opened, who, decision, at :
          /\ Answered(kind, req, opened, who, decision, at).req = req
          /\ Answered(kind, req, opened, who, decision, at).answered = TRUE
          /\ Answered(kind, req, opened, who, decision, at).open = FALSE
    /\ \A kind, req, opened, row :
          /\ DoorVerdict(kind, req, opened, row).req = req
          /\ DoorVerdict(kind, req, opened, row).open = FALSE
  <1>1. \A kind, req, opened, answerable :
          /\ OpenCard(kind, req, opened, answerable).req = req
          /\ OpenCard(kind, req, opened, answerable).answered = FALSE
          /\ OpenCard(kind, req, opened, answerable).open = TRUE
    BY DEF OpenCard
  <1>2. \A kind, req, opened, at :
          /\ Unanswered(kind, req, opened, at).req = req
          /\ Unanswered(kind, req, opened, at).answered = FALSE
          /\ Unanswered(kind, req, opened, at).open = FALSE
    BY DEF Unanswered, OpenCard
  <1>3. \A kind, req, opened, who, decision, at :
          /\ Answered(kind, req, opened, who, decision, at).req = req
          /\ Answered(kind, req, opened, who, decision, at).answered = TRUE
          /\ Answered(kind, req, opened, who, decision, at).open = FALSE
    BY DEF Answered, Unanswered, OpenCard
  <1>4. \A kind, req, opened, row :
          /\ DoorVerdict(kind, req, opened, row).req = req
          /\ DoorVerdict(kind, req, opened, row).open = FALSE
    BY <1>2, <1>3 DEF DoorVerdict
  <1> QED
    BY <1>1, <1>2, <1>3, <1>4

LEMMA DoorEventsOneMore ==
    ASSUME NEW S, NEW run, run.events \in Seq(S), NEW e \in S, NEW next, next.events = Append(run.events, e), NEW d
    PROVE  DoorEvents(next, d) = IF e.door = d THEN Append(DoorEvents(run, d), e) ELSE DoorEvents(run, d)
  <1> DEFINE rows == run.events
             all == Append(rows, e)
             n == Len(rows)
             places == {i \in DOMAIN rows : rows[i].door = d}
             more == {i \in DOMAIN all : all[i].door = d}
  <1>1. /\ n \in Nat /\ DOMAIN rows = 1..n /\ DOMAIN all = 1..n + 1
        /\ \A i \in 1..n : all[i] = rows[i]
        /\ all[n + 1] = e
    BY LenProperties, AppendProperties
  <1>2. (\A i \in 1..n : i \in more <=> i \in places) /\ (n + 1 \in more <=> e.door = d)
    <2> HIDE DEF all, n
    <2> QED
      BY <1>1
  <1>3. DoorEvents(next, d) = RowsAt(all, more) /\ DoorEvents(run, d) = RowsAt(rows, places)
    BY DEF DoorEvents
  <1>4. rows \in Seq(S)
    OBVIOUS
  <1> HIDE DEF places, more, rows
  <1>5. RowsAt(Append(rows, e), more) =
            IF Len(rows) + 1 \in more THEN Append(RowsAt(rows, places), e) ELSE RowsAt(rows, places)
    BY <1>2, <1>4, RowsAtOneMore
  <1> QED
    BY <1>2, <1>3, <1>5

LEMMA DoorEventsSame ==
    ASSUME NEW run, NEW next, next.events = run.events, NEW d
    PROVE  DoorEvents(next, d) = DoorEvents(run, d)
  BY DEF DoorEvents

(* The openings of a door that show a card, and when a card was shown.     *)
Opens(rows) == {i \in DOMAIN rows : rows[i].kind \in DoorOpen /\ rows[i].req # None}
ShownAt(rows, req) == FirstShown(OfKind(rows, DoorOpen), req)

LEMMA DoorCardIs ==
    ASSUME NEW S, NEW run, NEW d, DoorEvents(run, d) \in Seq(S), NEW c \in DoorCard(run, d)
    PROVE  LET rows == DoorEvents(run, d) IN
           /\ Opens(rows) # {} /\ Max(Opens(rows)) \in Opens(rows)
           /\ \A i \in Opens(rows) : i <= Max(Opens(rows))
           /\ c.req = rows[Max(Opens(rows))].req
           /\ Max(Opens(rows)) < Len(rows) =>
                 c = DoorVerdict(d, c.req, ShownAt(rows, c.req), rows[Max(Opens(rows)) + 1])
           /\ c.answered => Max(Opens(rows)) < Len(rows) /\ OpenCards(DoorCard(run, d)) = {}
  <1> DEFINE rows == DoorEvents(run, d)
             opens == {i \in DOMAIN rows : rows[i].kind \in DoorOpen /\ rows[i].req # None}
             req == rows[Max(opens)].req
             shown == FirstShown(OfKind(rows, DoorOpen), req)
             cards == IF opens = {} THEN {}
                      ELSE IF Max(opens) < Len(rows) THEN {DoorVerdict(d, req, shown, rows[Max(opens) + 1])}
                      ELSE IF run.state \in PlanningOver THEN {Unanswered(d, req, shown, run.completed)}
                      ELSE {OpenCard(d, req, shown, TRUE)}
  <1>1. DoorCard(run, d) = cards
    BY DEF DoorCard
  <1>2. rows \in Seq(S)
    OBVIOUS
  <1>3. opens = Opens(rows) /\ shown = ShownAt(rows, req)
    BY DEF Opens, ShownAt
  <1> HIDE DEF rows
  <1>4. Len(rows) \in Nat /\ DOMAIN rows = 1..Len(rows)
    BY <1>2, LenProperties
  <1>5. opens \subseteq 0..Len(rows) /\ opens # {}
    <2>1. opens \subseteq DOMAIN rows
      OBVIOUS
    <2>2. c \in cards
      BY <1>1
    <2> HIDE DEF opens, req, shown
    <2>3. opens = {} => cards = {}
      OBVIOUS
    <2> HIDE DEF cards
    <2> QED
      BY <1>4, <2>1, <2>2, <2>3
  <1>6. Max(opens) \in opens /\ \A i \in opens : i <= Max(opens)
    <2> HIDE DEF opens
    <2> QED
      BY <1>4, <1>5, MaxIs
  <1> HIDE DEF opens, req, shown
  <1>7. CASE Max(opens) < Len(rows)
    <2>1. cards = {DoorVerdict(d, req, shown, rows[Max(opens) + 1])}
      BY <1>5, <1>7
    <2> HIDE DEF cards
    <2>2. c = DoorVerdict(d, req, shown, rows[Max(opens) + 1])
      BY <1>1, <2>1
    <2>3. c.req = req /\ c.open = FALSE
      <3>1. /\ DoorVerdict(d, req, shown, rows[Max(opens) + 1]).req = req
            /\ DoorVerdict(d, req, shown, rows[Max(opens) + 1]).open = FALSE
        BY CardFields
      <3> QED
        BY <2>2, <3>1
    <2>4. OpenCards(DoorCard(run, d)) = {}
      BY <1>1, <2>1, <2>2, <2>3 DEF OpenCards
    <2> QED
      BY <1>3, <1>5, <1>6, <1>7, <2>2, <2>3, <2>4 DEF rows, req
  <1>8. CASE ~(Max(opens) < Len(rows))
    <2>1. c = Unanswered(d, req, shown, run.completed) \/ c = OpenCard(d, req, shown, TRUE)
      BY <1>1, <1>5, <1>8
    <2>2. c.req = req /\ c.answered = FALSE
      <3>1. Unanswered(d, req, shown, run.completed).req = req /\ Unanswered(d, req, shown, run.completed).answered = FALSE
        BY CardFields
      <3>2. OpenCard(d, req, shown, TRUE).req = req /\ OpenCard(d, req, shown, TRUE).answered = FALSE
        BY DEF OpenCard
      <3> QED
        BY <2>1, <3>1, <3>2
    <2> QED
      BY <1>3, <1>5, <1>6, <1>8, <2>2 DEF rows, req
  <1> QED
    BY <1>7, <1>8

(* A card of a door is asked under a request of that door.                 *)
LEMMA DoorCardAsked ==
    ASSUME NEW S, NEW run, NEW d, DoorEvents(run, d) \in Seq(S), DoorAsked(run, d), NEW c \in DoorCard(run, d)
    PROVE  /\ c.req \in Asked(run, d)
           /\ \E k \in 0 .. Cardinality(Asked(run, d)) - 1 : c.req = <<d, k>>
  <1> DEFINE rows == DoorEvents(run, d)
             last == Max(Opens(rows))
  <1>1. last \in Opens(rows) /\ c.req = rows[last].req
    BY DoorCardIs
  <1>2. last \in DOMAIN rows /\ rows[last].kind \in DoorOpen
    BY <1>1 DEF Opens
  <1>3. c.req \in Asked(run, d)
    BY <1>1, <1>2 DEF DoorAsked
  <1> QED
    BY <1>3 DEF DoorAsked

LEMMA AskedOneMore ==
    ASSUME NEW S, NEW run, NEW next, NEW d, NEW e \in S, DoorEvents(run, d) \in Seq(S),
           DoorEvents(next, d) = Append(DoorEvents(run, d), e)
    PROVE  Asked(next, d) = IF e.kind = "GATED" THEN Asked(run, d) \cup {e.req} ELSE Asked(run, d)
  <1> DEFINE rows == DoorEvents(run, d)
             gated == OfKind(rows, {"GATED"})
  <1>1. OfKind(DoorEvents(next, d), {"GATED"}) = IF e.kind = "GATED" THEN Append(gated, e) ELSE gated
    <2>1. rows \in Seq(S)
      OBVIOUS
    <2>2. OfKind(Append(rows, e), {"GATED"}) = IF e.kind \in {"GATED"} THEN Append(gated, e) ELSE gated
      <3> HIDE DEF rows
      <3> QED
        BY <2>1, OfKindOneMore
    <2> QED
      BY <2>2
  <1>2. gated \in Seq(S)
    BY OfKindType
  <1>3. CASE e.kind = "GATED"
    <2>1. OfKind(DoorEvents(next, d), {"GATED"}) = Append(gated, e)
      BY <1>1, <1>3
    <2> HIDE DEF gated
    <2>2. \A y : y \in ToSet(Append(gated, e)) <=> y \in ToSet(gated) \/ y = e
      BY <1>2, ToSetAppends
    <2>3. {x.req : x \in ToSet(Append(gated, e))} = {x.req : x \in ToSet(gated)} \cup {e.req}
      BY <2>2
    <2>4. Asked(run, d) = {x.req : x \in ToSet(gated)}
      BY DEF Asked, gated
    <2>5. Asked(next, d) = {x.req : x \in ToSet(Append(gated, e))}
      BY <2>1 DEF Asked
    <2> QED
      BY <1>3, <2>3, <2>4, <2>5
  <1>4. CASE e.kind # "GATED"
    BY <1>1, <1>4 DEF Asked
  <1> QED
    BY <1>3, <1>4

(* A door's requests stay numbered in the order they were asked.           *)
LEMMA DoorAskedStays ==
    ASSUME NEW run, NEW next, NEW d \in {"spec", "sign_in"}, run.events \in Seq(Events(now)),
           KeepsEvents(run, next), DoorAsked(run, d)
    PROVE  DoorAsked(next, d)
  <1> DEFINE rows == DoorEvents(run, d)
             n == Cardinality(Asked(run, d))
  <1>1. rows \in Seq(Events(now))
    BY RowsAtType DEF DoorEvents
  <1>2. CASE DoorEvents(next, d) = rows
    BY <1>2 DEF DoorAsked, Asked
  <1>3. ASSUME NEW e \in Events(now), next.events = Append(run.events, e), EventBelongs(run, e.kind, e.door, e.req)
        PROVE  DoorAsked(next, d)
    <2>1. DoorEvents(next, d) = IF e.door = d THEN Append(rows, e) ELSE rows
      <3> DEFINE S == Events(now)
      <3>1. run.events \in Seq(S) /\ e \in S
        OBVIOUS
      <3> HIDE DEF S
      <3> QED
        BY <1>3, <3>1, DoorEventsOneMore
    <2>2. CASE e.door # d
      BY <1>2, <2>1, <2>2
    <2>3. CASE e.door = d
      <3> DEFINE more == Append(rows, e)
      <3>1. DoorEvents(next, d) = more
        BY <2>1, <2>3
      <3>2. Asked(next, d) = IF e.kind = "GATED" THEN Asked(run, d) \cup {e.req} ELSE Asked(run, d)
        BY <1>1, <3>1, AskedOneMore
      <3>3. /\ Len(rows) \in Nat /\ DOMAIN rows = 1..Len(rows) /\ DOMAIN more = 1..Len(rows) + 1
            /\ \A j \in 1..Len(rows) : more[j] = rows[j]
            /\ more[Len(rows) + 1] = e
        <4> HIDE DEF rows
        <4> QED
          BY <1>1, LenProperties, AppendProperties
      <3>4. e.kind \in DoorOpen => e.req \in Asked(next, d)
        <4>1. CASE e.kind = "GATED"
          BY <3>2, <4>1
        <4>2. CASE e.kind = "reopened"
          <5>1. PICK c \in OpenCards(DoorCard(run, d)) : e.req = c.req
            BY <1>3, <2>3, <4>2 DEF EventBelongs
          <5>2. c \in DoorCard(run, d)
            BY DEF OpenCards
          <5>3. c.req \in Asked(run, d)
            BY <1>1, <5>2, DoorCardAsked
          <5> QED
            BY <3>2, <5>1, <5>3
        <4> QED
          BY <4>1, <4>2 DEF DoorOpen
      <3>5. \A j \in DOMAIN more : more[j].kind \in DoorOpen => more[j].req \in Asked(next, d)
        <4>1. \A j \in 1..Len(rows) : rows[j].kind \in DoorOpen => rows[j].req \in Asked(run, d)
          BY <3>3 DEF DoorAsked
        <4> HIDE DEF more, rows
        <4>2. SUFFICES ASSUME NEW j \in 1..Len(rows) + 1, more[j].kind \in DoorOpen PROVE more[j].req \in Asked(next, d)
          BY <3>3
        <4>3. CASE j = Len(rows) + 1
          BY <3>3, <3>4, <4>2, <4>3
        <4>4. CASE j \in 1..Len(rows)
          BY <3>2, <3>3, <4>1, <4>2, <4>4
        <4> QED
          BY <3>3, <4>3, <4>4
      <3>6. IsFiniteSet(Asked(next, d)) /\ Asked(next, d) = {<<d, k>> : k \in 0 .. Cardinality(Asked(next, d)) - 1}
        <4>1. CASE e.kind # "GATED"
          BY <3>2, <4>1 DEF DoorAsked
        <4>2. CASE e.kind = "GATED"
          <5>1. e.req = <<d, n>> /\ Asked(next, d) = Asked(run, d) \cup {e.req}
            BY <1>3, <2>3, <3>2, <4>2 DEF EventBelongs
          <5>2. IsFiniteSet(Asked(run, d)) /\ n \in Nat /\ Asked(run, d) = {<<d, k>> : k \in 0 .. n - 1}
            BY FS_CardinalityType DEF DoorAsked
          <5> HIDE DEF n
          <5>3. <<d, n>> \notin Asked(run, d)
            BY <5>2
          <5>4. IsFiniteSet(Asked(next, d)) /\ Cardinality(Asked(next, d)) = n + 1
            <6> DEFINE all == Asked(run, d)
            <6>1. IsFiniteSet(all) /\ e.req \notin all /\ Cardinality(all) = n
              BY <5>1, <5>2, <5>3 DEF n
            <6> HIDE DEF all
            <6>2. IsFiniteSet(all \cup {e.req}) /\ Cardinality(all \cup {e.req}) = n + 1
              BY <6>1, FS_AddElement
            <6> QED
              BY <5>1, <6>2 DEF all
          <5>5. {<<d, k>> : k \in 0 .. n - 1} \cup {<<d, n>>} = {<<d, k>> : k \in 0 .. (n + 1) - 1}
            BY <5>2
          <5> QED
            BY <5>1, <5>2, <5>4, <5>5
        <4> QED
          BY <4>1, <4>2
      <3> QED
        BY <3>1, <3>5, <3>6 DEF DoorAsked
    <2> QED
      BY <2>2, <2>3
  <1> QED
    BY <1>2, <1>3, DoorEventsSame DEF KeepsEvents

(* What was answered at a door stays, whatever is recorded there next.     *)
LEMMA DoorAnswerStays ==
    ASSUME NEW run, NEW next, NEW d \in {"spec", "sign_in"}, run.events \in Seq(Events(now)),
           KeepsEvents(run, next), DoorAsked(run, d),
           NEW c \in DoorCard(run, d), c.answered, NEW x \in DoorCard(next, d), x.req = c.req
    PROVE  x = c
  <1> DEFINE rows == DoorEvents(run, d)
             more == DoorEvents(next, d)
             last == Max(Opens(rows))
  <1>1. rows \in Seq(Events(now))
    BY RowsAtType DEF DoorEvents
  <1>2. /\ last \in Opens(rows) /\ \A i \in Opens(rows) : i <= last
        /\ c.req = rows[last].req /\ last < Len(rows)
        /\ c = DoorVerdict(d, c.req, ShownAt(rows, c.req), rows[last + 1])
        /\ OpenCards(DoorCard(run, d)) = {}
    BY <1>1, DoorCardIs
  <1>3. ASSUME more \in Seq(Events(now)), Opens(more) = Opens(rows), more[last + 1] = rows[last + 1], last < Len(more),
               ShownAt(more, c.req) = ShownAt(rows, c.req)
        PROVE  x = c
    <2>1. x = DoorVerdict(d, x.req, ShownAt(more, x.req), more[last + 1])
      BY <1>3, DoorCardIs
    <2> HIDE DEF rows, more, last
    <2> QED
      BY <1>2, <1>3, <2>1
  <1>4. CASE more = rows
    BY <1>1, <1>2, <1>3, <1>4
  <1>5. ASSUME NEW e \in Events(now), next.events = Append(run.events, e), EventBelongs(run, e.kind, e.door, e.req)
        PROVE  x = c
    <2>1. more = IF e.door = d THEN Append(rows, e) ELSE rows
      <3> DEFINE S == Events(now)
      <3>1. run.events \in Seq(S) /\ e \in S
        OBVIOUS
      <3>2. next.events = Append(run.events, e)
        BY <1>5
      <3> HIDE DEF S, rows, more
      <3>3. DoorEvents(next, d) = IF e.door = d THEN Append(DoorEvents(run, d), e) ELSE DoorEvents(run, d)
        BY <3>1, <3>2, DoorEventsOneMore
      <3> QED
        BY <3>3 DEF rows, more
    <2>2. CASE e.door # d
      BY <1>4, <2>1, <2>2
    <2>3. CASE e.door = d /\ e.kind \notin DoorOpen
      <3>1. more = Append(rows, e)
        BY <2>1, <2>3
      <3>2. OfKind(Append(rows, e), DoorOpen) = OfKind(rows, DoorOpen)
        <4> HIDE DEF rows
        <4> QED
          BY <1>1, <2>3, OfKindOneMore
      <3> HIDE DEF rows, more
      <3>3. /\ more \in Seq(Events(now)) /\ Len(more) = Len(rows) + 1 /\ Len(rows) \in Nat
            /\ DOMAIN rows = 1..Len(rows) /\ DOMAIN more = 1..Len(rows) + 1
            /\ \A j \in 1..Len(rows) : more[j] = rows[j]
            /\ more[Len(rows) + 1] = e
        BY <1>1, <3>1, LenProperties, AppendProperties
      <3>4. Opens(more) = Opens(rows)
        <4>1. Opens(more) = {i \in 1..Len(rows) + 1 : more[i].kind \in DoorOpen /\ more[i].req # None}
          BY <3>3 DEF Opens
        <4>2. Opens(rows) = {i \in 1..Len(rows) : rows[i].kind \in DoorOpen /\ rows[i].req # None}
          BY <3>3 DEF Opens
        <4>3. ~(more[Len(rows) + 1].kind \in DoorOpen)
          BY <2>3, <3>3
        <4>4. \A i \in 1..Len(rows) + 1 : i \in 1..Len(rows) \/ i = Len(rows) + 1
          BY <3>3
        <4> QED
          BY <3>3, <4>1, <4>2, <4>3, <4>4
      <3>5. last + 1 \in 1..Len(rows) /\ last < Len(more)
        <4>1. last \in 1..Len(rows)
          BY <1>2, <3>3 DEF Opens
        <4> HIDE DEF last
        <4> QED
          BY <1>2, <3>3, <4>1
      <3>6. ShownAt(more, c.req) = ShownAt(rows, c.req)
        BY <3>1, <3>2 DEF ShownAt
      <3> QED
        BY <1>3, <3>3, <3>4, <3>5, <3>6
    <2>4. CASE e.door = d /\ e.kind = "reopened"
      BY <1>2, <1>5, <2>4 DEF EventBelongs
    <2>5. CASE e.door = d /\ e.kind = "GATED"
      <3> DEFINE n == Cardinality(Asked(run, d))
      <3>1. e.req = <<d, n>> /\ d \in Doors
        BY <1>5, <2>5 DEF EventBelongs
      <3>2. n \in Nat
        BY FS_CardinalityType DEF DoorAsked
      <3>3. PICK k \in 0 .. n - 1 : c.req = <<d, k>>
        BY <1>1, DoorCardAsked
      <3>4. e.req # None /\ e.req # c.req
        <4> HIDE DEF n
        <4>1. <<d, n>> \in Doors \X Nat
          BY <3>1, <3>2
        <4>2. n # k
          BY <3>2, <3>3
        <4> QED
          BY <3>1, <3>3, <4>1, <4>2, NoneAssumption
      <3>5. more = Append(rows, e)
        BY <2>1, <2>5
      <3>6. x.req = more[Max(Opens(more))].req /\ \A i \in Opens(more) : i <= Max(Opens(more))
            /\ Max(Opens(more)) \in Opens(more)
        <4>1. more \in Seq(Events(now))
          <5> HIDE DEF rows, more
          <5> QED
            BY <1>1, <3>5, AppendProperties
        <4> QED
          BY <4>1, DoorCardIs
      <3> HIDE DEF rows, more, n
      <3>7. /\ Len(rows) \in Nat /\ DOMAIN more = 1..Len(rows) + 1
            /\ more[Len(rows) + 1] = e
        BY <1>1, <3>5, LenProperties, AppendProperties
      <3>8. Len(rows) + 1 \in Opens(more)
        BY <2>5, <3>4, <3>7 DEF Opens, DoorOpen
      <3>9. Max(Opens(more)) = Len(rows) + 1
        <4> DEFINE m == Max(Opens(more))
        <4>1. m \in 1..Len(rows) + 1 /\ Len(rows) + 1 <= m
          BY <3>6, <3>7, <3>8 DEF Opens
        <4> HIDE DEF m
        <4>2. m = Len(rows) + 1
          BY <3>7, <4>1
        <4> QED
          BY <4>2 DEF m
      <3> QED
        BY <3>4, <3>6, <3>7, <3>9
    <2> QED
      BY <2>2, <2>3, <2>4, <2>5 DEF DoorOpen
  <1> QED
    BY <1>4, <1>5, DoorEventsSame DEF KeepsEvents

LEMMA DoorAskedAtFirst ==
    ASSUME NEW run, run.events = <<>>, NEW d
    PROVE  DoorAsked(run, d)
  <1> DEFINE places == {i \in DOMAIN run.events : run.events[i].door = d}
             gated == {i \in DOMAIN <<>> : <<>>[i].kind \in {"GATED"}}
  <1>1. DoorEvents(run, d) = RowsAt(<<>>, places)
    BY DEF DoorEvents
  <1>2. OfKind(<<>>, {"GATED"}) = RowsAt(<<>>, gated)
    BY DEF OfKind
  <1> HIDE DEF places, gated
  <1>3. DoorEvents(run, d) = <<>> /\ OfKind(<<>>, {"GATED"}) = <<>>
    BY <1>1, <1>2, RowsAtOfNone
  <1>4. Asked(run, d) = {e.req : e \in ToSet(<<>>)}
    BY <1>3 DEF Asked
  <1>5. ToSet(<<>>) = {} /\ \A j \in DOMAIN <<>> : FALSE
    BY DEF ToSet
  <1>6. Asked(run, d) = {} /\ IsFiniteSet({}) /\ Cardinality({}) = 0
    BY <1>4, <1>5, FS_EmptySet
  <1> QED
    BY <1>3, <1>5, <1>6 DEF DoorAsked

LEMMA NotShut ==
    ASSUME TypeOK, NEW b, b.stages \in Seq(Stages(now)), MergeDecision(b) = None, MergeRetired(b) = None
    PROVE  \A j \in DOMAIN b.stages : b.stages[j].kind \notin Shuts
  <1> DEFINE rows == b.stages
             said == OfKind(rows, Decided)
             retired == OfKind(rows, {"retired"})
  <1>1. rows \in Seq(Stages(now)) /\ None \notin Stages(now) /\ None \notin Times(now)
    BY NoneAssumption, RecordAssumption DEF TypeOK, Times
  <1> HIDE DEF rows
  <1>2. said = <<>>
    <2>1. said # <<>> => LastRow(said) \in Stages(now)
      BY <1>1, OfKindType, LastRowType
    <2> QED
      BY <1>1, <2>1 DEF MergeDecision, rows
  <1>3. retired = <<>>
    <2>1. retired \in Seq(Stages(now))
      BY <1>1, OfKindType
    <2>2. retired # <<>> => retired[1] \in Stages(now)
      <3> HIDE DEF retired
      <3> QED
        BY <2>1, EmptySeq, LenProperties
    <2>3. retired # <<>> => retired[1].at # None
      BY <1>1, <2>2 DEF Stages
    <2> QED
      BY <2>3 DEF MergeRetired, FirstAt, rows
  <1> HIDE DEF said, retired
  <1>4. ASSUME NEW j \in DOMAIN rows PROVE rows[j].kind \notin Decided /\ rows[j].kind \notin {"retired"}
    <2>1. rows[j].kind \notin Decided
      BY <1>1, <1>2, NoneOfKind DEF said
    <2>2. rows[j].kind \notin {"retired"}
      BY <1>1, <1>3, NoneOfKind DEF retired
    <2> QED
      BY <2>1, <2>2
  <1> QED
    BY <1>4 DEF Shuts, rows

LEMMA AskedAsStays ==
    ASSUME TypeOK, NEW i, NEW b, NEW c, b.stages \in Seq(Stages(now)), AskedAs(i, b), Keeps(i, b, c)
    PROVE  AskedAs(i, c)
  <1>1. c.status = "PAUSED" => c.pending \in Gates
    BY DEF AskedAs, Keeps
  <1>2. CASE c.stages = b.stages
    BY <1>1, <1>2 DEF AskedAs
  <1>3. ASSUME NEW r \in Stages(now), c.stages = Append(b.stages, r), RowBelongs(i, b, r.kind, r.req)
        PROVE  AskedAs(i, c)
    <2> DEFINE s == b.stages
               t == c.stages
               fits(row) == /\ row.kind = "offer" => row.req = <<"merge", i>>
                            /\ row.kind = "pause" => row.req \in Gates
    <2>1. (\A j \in DOMAIN s : fits(s[j])) /\ fits(r)
      BY <1>3 DEF AskedAs, RowBelongs
    <2>a. \A j, k \in DOMAIN s : s[j].kind \in Shuts /\ s[k].kind = "offer" => k < j
      BY DEF AskedAs
    <2>b. r.kind = "offer" => \A j \in DOMAIN s : s[j].kind \notin Shuts
      BY <1>3, NotShut DEF RowBelongs
    <2>c. "offer" \notin Shuts
      BY DEF Shuts, Decided
    <2>2. s \in Seq(Stages(now)) /\ t = Append(s, r)
      BY <1>3
    <2> HIDE DEF s, t, fits
    <2>3. /\ Len(s) \in Nat /\ DOMAIN s = 1..Len(s) /\ DOMAIN t = 1..Len(s) + 1
          /\ \A j \in 1..Len(s) : t[j] = s[j]
          /\ t[Len(s) + 1] = r
      BY <2>2, LenProperties, AppendProperties
    <2>4. \A j \in 1..Len(s) + 1 : j \in 1..Len(s) \/ j = Len(s) + 1
      BY <2>3
    <2>5. \A j \in DOMAIN t : fits(t[j])
      BY <2>1, <2>3, <2>4
    <2>6. \A j, k \in DOMAIN t : t[j].kind \in Shuts /\ t[k].kind = "offer" => k < j
      BY <2>a, <2>b, <2>c, <2>3, <2>4
    <2> QED
      BY <1>1, <2>5, <2>6 DEF AskedAs, t, fits
  <1> QED
    BY <1>2, <1>3 DEF Keeps

LEMMA AskedAsAtFirst ==
    ASSUME NEW i, NEW b, IsNew(b) \/ IsNewMerge(b)
    PROVE  AskedAs(i, b)
  <1>1. \A j \in DOMAIN <<>> : FALSE
    OBVIOUS
  <1> QED
    BY <1>1 DEF IsNew, IsNewMerge, AskedAs

(* The invariant holds after a step when the types do, and nothing is lost. *)
LEMMA GrowsKeepsInv ==
    ASSUME RecordInv, TypeOK', Grows
    PROVE  RecordInv'
  <1>1. TypeOK /\ PartsAreFeatures /\ BuildsAsked /\ RunAsked /\ PlanAsked /\ KeepsBuilds /\ KeepsMission /\ KeepsRun
    BY DEF RecordInv, Grows
  <1>2. PartsAreFeatures'
    <2>1. SUFFICES ASSUME f'.mission # None, NEW i \in DOMAIN f'.builds PROVE f'.builds[i].role = "feature"
      BY DEF PartsAreFeatures
    <2>2. f.mission # None
      BY <1>1, <2>1 DEF KeepsMission
    <2>3. CASE i \in DOMAIN f.builds
      BY <1>1, <2>2, <2>3 DEF KeepsBuilds, Keeps, PartsAreFeatures
    <2>4. CASE i \notin DOMAIN f.builds
      BY <1>1, <2>1, <2>2, <2>4 DEF KeepsBuilds
    <2> QED
      BY <2>3, <2>4
  <1>3. BuildsAsked'
    <2>1. ASSUME NEW i \in DOMAIN f'.builds PROVE AskedAs(i, f'.builds[i])
      <3>1. CASE i \in DOMAIN f.builds
        <4>1. f.builds[i].stages \in Seq(Stages(now)) /\ AskedAs(i, f.builds[i]) /\ Keeps(i, f.builds[i], f'.builds[i])
          BY <1>1, <3>1, FeatureFields, BuildFields DEF KeepsBuilds, BuildsAsked
        <4> QED
          BY <1>1, <4>1, AskedAsStays
      <3>2. CASE i \notin DOMAIN f.builds
        <4>1. IsNew(f'.builds[i])
          BY <1>1, <2>1, <3>2 DEF KeepsBuilds
        <4> QED
          BY <4>1, AskedAsAtFirst
      <3> QED
        BY <3>1, <3>2
    <2>2. ASSUME f'.mission # None, f'.mission.merge # None PROVE AskedAs(0, f'.mission.merge)
      <3>1. f.mission # None
        BY <1>1, <2>2 DEF KeepsMission
      <3>2. CASE f.mission.merge = None
        <4>1. IsNewMerge(f'.mission.merge)
          BY <1>1, <2>2, <3>1, <3>2 DEF KeepsMission
        <4> QED
          BY <4>1, AskedAsAtFirst
      <3>3. CASE f.mission.merge # None
        <4>1. f.mission.merge \in Builds(now)
          BY <1>1, <3>1, <3>3, FeatureFields DEF Missions
        <4>2. f.mission.merge.stages \in Seq(Stages(now)) /\ AskedAs(0, f.mission.merge)
              /\ Keeps(0, f.mission.merge, f'.mission.merge)
          BY <1>1, <3>1, <3>3, <4>1, BuildFields DEF KeepsMission, BuildsAsked
        <4> QED
          BY <1>1, <4>2, AskedAsStays
      <3> QED
        BY <3>2, <3>3
    <2> QED
      BY <2>1, <2>2 DEF BuildsAsked
  <1>4. RunAsked'
    <2>1. SUFFICES ASSUME f'.planning # None, NEW d \in {"spec", "sign_in"} PROVE DoorAsked(f'.planning, d)
      BY DEF RunAsked
    <2>2. CASE f.planning = None
      <3>1. f'.planning.events = <<>>
        BY <1>1, <2>1, <2>2 DEF KeepsRun
      <3> QED
        BY <3>1, DoorAskedAtFirst
    <2>3. CASE f.planning # None
      <3>1. f.planning.events \in Seq(Events(now)) /\ KeepsEvents(f.planning, f'.planning) /\ DoorAsked(f.planning, d)
        BY <1>1, <2>3, RunFields DEF KeepsRun, RunAsked
      <3> QED
        BY <3>1, DoorAskedStays
    <2> QED
      BY <2>2, <2>3
  <1>5. PlanAsked'
    BY <1>1 DEF PlanAsked, KeepsMission, KeepsPlan
  <1>6. MergeDone'
    BY <1>1 DEF MergeDone, RecordInv, KeepsMission, Keeps, IsNewMerge
  <1> QED
    BY <1>2, <1>3, <1>4, <1>5, <1>6 DEF RecordInv

(* One build changes.                                                      *)
LEMMA OneBuildChanges ==
    ASSUME RecordInv, NEW i \in Refs, NEW b \in Builds(now), Keeps(i, BuildOf(i), b), Becomes(i, b)
    PROVE  RecordInv' /\ Grows
  <1>1. now' = now /\ resent' = resent
    BY DEF Becomes
  <1>2. TypeOK /\ PartsAreFeatures
    BY DEF RecordInv
  <1>3. \A j, x : Keeps(j, x, x)
    BY DEF Keeps
  <1>4. CASE i = 0
    <2> DEFINE m == [f.mission EXCEPT !.merge = b]
    <2>1. f.mission \in Missions(now) /\ f.mission.merge \in Builds(now) /\ BuildOf(i) = f.mission.merge
      BY <1>2, <1>4, RefIsBuild
    <2>2. f' = [f EXCEPT !.mission = m]
      BY <1>4 DEF Becomes
    <2>3. m \in Missions(now) /\ m.merge = b /\ KeepsPlan(f.mission, m)
      BY <2>1 DEF Missions, KeepsPlan
    <2> HIDE DEF m
    <2>4. f' \in Features(now) /\ f'.builds = f.builds /\ f'.mission = m /\ f'.planning = f.planning
      BY <1>2, <2>2, <2>3, FeatureFields DEF Features
    <2>5. f.mission # None /\ f'.mission # None /\ b # None
      BY <1>2, <2>1, <2>3, <2>4, NoneIsNoBuild
    <2>6. TypeOK'
      BY <1>1, <1>2, <2>4 DEF TypeOK
    <2>7. KeepsRun
      BY <2>4 DEF KeepsRun, KeepsEvents
    <2>8. KeepsBuilds
      BY <1>3, <2>4, FeatureFields, <1>2 DEF KeepsBuilds
    <2>9. KeepsMission
      <3>1. Keeps(0, f.mission.merge, m.merge) /\ f.mission.merge # None
        BY <1>2, <1>4, <2>1, <2>3, NoneIsNoBuild
      <3> QED
        BY <2>3, <2>4, <2>5, <3>1 DEF KeepsMission
    <2> QED
      BY <2>6, <2>7, <2>8, <2>9, GrowsKeepsInv DEF Grows
  <1>5. CASE i # 0
    <2> DEFINE bs == [f.builds EXCEPT ![i] = b]
    <2>1. i \in DOMAIN f.builds /\ BuildOf(i) = f.builds[i]
      BY <1>2, <1>5, RefIsBuild
    <2>2. f' = [f EXCEPT !.builds = bs]
      BY <1>5 DEF Becomes
    <2>3. bs \in Seq(Builds(now)) /\ Len(bs) = Len(f.builds)
      <3>1. f.builds \in Seq(Builds(now)) /\ i \in 1..Len(f.builds)
        BY <1>2, <2>1, FeatureFields
      <3> QED
        BY <3>1, ExceptSeq
    <2>4. DOMAIN bs = DOMAIN f.builds /\ \A j \in DOMAIN f.builds : bs[j] = IF j = i THEN b ELSE f.builds[j]
      OBVIOUS
    <2> HIDE DEF bs
    <2>5. f' \in Features(now) /\ f'.builds = bs /\ f'.mission = f.mission /\ f'.planning = f.planning
      BY <1>2, <2>2, <2>3, FeatureFields DEF Features
    <2>6. TypeOK'
      BY <1>1, <1>2, <2>5 DEF TypeOK
    <2>7. KeepsRun
      BY <2>5 DEF KeepsRun, KeepsEvents
    <2>8. KeepsBuilds
      <3>1. \A j \in DOMAIN f.builds : Keeps(j, f.builds[j], bs[j])
        BY <1>3, <2>1, <2>4
      <3> QED
        BY <1>2, <2>3, <2>4, <2>5, <3>1, FeatureFields DEF KeepsBuilds
    <2>9. KeepsMission
      BY <1>3, <2>5 DEF KeepsMission, KeepsPlan
    <2> QED
      BY <2>6, <2>7, <2>8, <2>9, GrowsKeepsInv DEF Grows
  <1> QED
    BY <1>4, <1>5

(* What Forge does to one build.                                           *)
StageKinds == Gated \cup Resumed \cup Decided \cup MergeSteps \cup {"work", "retired"}

LEMMA LoggedBuild ==
    ASSUME TypeOK, NEW i, NEW b \in Builds(now), NEW kind \in StageKinds, NEW req \in Requests, NEW who \in People,
           RowBelongs(i, b, kind, req)
    PROVE  Logged(b, kind, req, who) \in Builds(now) /\ Keeps(i, b, Logged(b, kind, req, who))
  <1> DEFINE r == [at |-> now, kind |-> kind, req |-> req, who |-> who]
             s == Append(b.stages, r)
  <1>1. r \in Stages(now) /\ r.at = now /\ RowBelongs(i, b, r.kind, r.req)
    BY FeatureFields DEF Stages, StageKinds
  <1>2. Logged(b, kind, req, who) = [b EXCEPT !.stages = s]
    BY DEF Logged
  <1> HIDE DEF r
  <1>3. s \in Seq(Stages(now))
    BY <1>1, AppendProperties, BuildFields
  <1>4. s = Append(b.stages, r)
    OBVIOUS
  <1> HIDE DEF s
  <1>5. [b EXCEPT !.stages = s] \in Builds(now) /\ [b EXCEPT !.stages = s].stages = s
        /\ [b EXCEPT !.stages = s].role = b.role /\ [b EXCEPT !.stages = s].status = b.status
        /\ [b EXCEPT !.stages = s].pending = b.pending
    BY <1>3 DEF Builds
  <1> QED
    BY <1>1, <1>2, <1>4, <1>5 DEF Keeps

LEMMA LogsSteps ==
    ASSUME RecordInv, NEW i \in Refs, NEW kind \in StageKinds, NEW req \in Requests, NEW who \in People,
           Logs(i, kind, req, who), RowBelongs(i, BuildOf(i), kind, req)
    PROVE  RecordInv' /\ Grows
  <1>1. BuildOf(i) \in Builds(now)
    BY RefIsBuild DEF RecordInv
  <1> DEFINE b == Logged(BuildOf(i), kind, req, who)
  <1>2. b \in Builds(now) /\ Keeps(i, BuildOf(i), b) /\ Becomes(i, b)
    BY <1>1, LoggedBuild DEF RecordInv, Logs
  <1> HIDE DEF b
  <1> QED
    BY <1>2, OneBuildChanges

LEMMA NoPerson ==
    /\ None \in Requests /\ None \in People /\ "ann" \in People /\ Answerers \subseteq People
    /\ Paused \cup Resumed \cup Decided \cup {"offer", "work", "retired", "step", "merge_failed", "joined", "merged"}
           \subseteq StageKinds
  BY DEF Requests, People, StageKinds, Gated, Resumed, Decided, MergeSteps, Paused

LEMMA StartBuildStep ==
    ASSUME RecordInv, NEW i \in Refs, StartBuild(i)
    PROVE  RecordInv' /\ Grows
  <1>1. TypeOK /\ BuildOf(i) \in Builds(now)
    BY RefIsBuild DEF RecordInv
  <1>2. PICK start \in {now, None} : Becomes(i, [BuildOf(i) EXCEPT !.status = "RUNNING", !.started = start])
    BY DEF StartBuild
  <1> DEFINE b == [BuildOf(i) EXCEPT !.status = "RUNNING", !.started = start]
  <1>3. start \in Moments(now)
    BY <1>1, FeatureFields
  <1>4. b \in Builds(now) /\ Keeps(i, BuildOf(i), b) /\ Becomes(i, b)
    BY <1>1, <1>2, <1>3 DEF Builds, Keeps, BuildActive, StartBuild
  <1> HIDE DEF b
  <1> QED
    BY <1>4, OneBuildChanges

LEMMA PauseBuildStep ==
    ASSUME RecordInv, NEW i \in Refs, PauseBuild(i)
    PROVE  RecordInv' /\ Grows
  <1>1. TypeOK /\ BuildOf(i) \in Builds(now)
    BY RefIsBuild DEF RecordInv
  <1> DEFINE n == Len(OfKind(BuildOf(i).stages, Paused))
             req == <<IF n = 0 THEN BuildGateStage ELSE "budget", n>>
             b == [BuildOf(i) EXCEPT !.status = "PAUSED", !.pending = req]
  <1>2. n \in Nat
    <2>1. OfKind(BuildOf(i).stages, Paused) \in Seq(Stages(now))
      BY <1>1, BuildFields, OfKindType
    <2> QED
      BY <2>1, LenProperties
  <1>3. Becomes(i, b)
    BY DEF PauseBuild
  <1>4. req \in Requests /\ req \in Gates
    <2> HIDE DEF n
    <2> QED
      BY <1>2 DEF Requests, BuildGateStage, Gates
  <1> HIDE DEF req
  <1>5. b \in Builds(now) /\ Keeps(i, BuildOf(i), b)
    BY <1>1, <1>4 DEF Builds, Keeps, BuildActive, PauseBuild
  <1> HIDE DEF b
  <1> QED
    BY <1>3, <1>5, OneBuildChanges

LEMMA RecordPauseStep ==
    ASSUME RecordInv, NEW i \in Refs, RecordPause(i)
    PROVE  RecordInv' /\ Grows
  <1>1. BuildOf(i) \in Builds(now)
    BY RefIsBuild DEF RecordInv
  <1>2. Logs(i, "pause", BuildOf(i).pending, None) /\ BuildOf(i).status = "PAUSED"
    BY DEF RecordPause
  <1>3. AskedAs(i, BuildOf(i))
    BY RefIsBuild, NoneIsNoBuild DEF RecordInv, BuildsAsked
  <1>4. RowBelongs(i, BuildOf(i), "pause", BuildOf(i).pending)
    BY <1>2, <1>3 DEF AskedAs, RowBelongs, Decided
  <1> QED
    BY <1>1, <1>2, <1>4, NoPerson, BuildFields, LogsSteps DEF Paused

LEMMA RecordResumeStep ==
    ASSUME RecordInv, NEW i \in Refs, RecordResume(i)
    PROVE  RecordInv' /\ Grows
  <1>1. PICK kind \in Resumed : Logs(i, kind, None, None)
    BY DEF RecordResume
  <1>2. RowBelongs(i, BuildOf(i), kind, None)
    BY DEF RowBelongs, Decided, Resumed
  <1> QED
    BY <1>1, <1>2, NoPerson, LogsSteps

LEMMA UnpauseStep ==
    ASSUME RecordInv, NEW i \in Refs, Unpause(i)
    PROVE  RecordInv' /\ Grows
  <1>1. TypeOK /\ BuildOf(i) \in Builds(now)
    BY RefIsBuild DEF RecordInv
  <1> DEFINE b == [BuildOf(i) EXCEPT !.status = "RUNNING", !.pending = None]
  <1>2. Becomes(i, b)
    BY DEF Unpause
  <1>3. b \in Builds(now) /\ Keeps(i, BuildOf(i), b)
    BY <1>1, NoPerson DEF Builds, Keeps, BuildActive, Unpause
  <1> HIDE DEF b
  <1> QED
    BY <1>2, <1>3, OneBuildChanges

LEMMA WorkStep ==
    ASSUME RecordInv, NEW i \in Refs, Work(i)
    PROVE  RecordInv' /\ Grows
  BY NoPerson, LogsSteps DEF Work, RowBelongs, Decided

LEMMA EndBuildStep ==
    ASSUME RecordInv, NEW i \in Refs, EndBuild(i)
    PROVE  RecordInv' /\ Grows
  <1>1. TypeOK /\ BuildOf(i) \in Builds(now)
    BY RefIsBuild DEF RecordInv
  <1> DEFINE Over(status) == [BuildOf(i) EXCEPT !.status = status, !.completed = now,
                                                !.started = IF @ = None THEN now ELSE @]
  <1>2. PICK status \in Endings : Becomes(i, Over(status))
    BY DEF EndBuild
  <1> DEFINE b == Over(status)
  <1>3. status \in BuildActive \cup BuildBroken \cup {"COMPLETE"} /\ now \in Moments(now)
        /\ BuildOf(i).started \in Moments(now)
    BY <1>1, FeatureFields, BuildFields, RecordAssumption
  <1>4. b \in Builds(now) /\ b.status = status /\ b.stages = BuildOf(i).stages /\ b.role = BuildOf(i).role
    BY <1>1, <1>3 DEF Builds
  <1>5. status # "PAUSED" /\ BuildOf(i).status # "COMPLETE"
    BY RecordAssumption DEF BuildBroken, EndBuild, BuildActive
  <1> HIDE DEF b
  <1>6. Keeps(i, BuildOf(i), b)
    BY <1>4, <1>5 DEF Keeps
  <1> QED
    BY <1>2, <1>4, <1>6, OneBuildChanges DEF b

LEMMA OfferStep ==
    ASSUME RecordInv, NEW i \in Refs, Offer(i)
    PROVE  RecordInv' /\ Grows
  <1>1. i \in Nat
    BY RefIsBuild DEF RecordInv
  <1>2. <<"merge", i>> \in Requests
    BY <1>1 DEF Requests
  <1>3. Logs(i, "offer", <<"merge", i>>, None)
    BY DEF Offer
  <1>4. RowBelongs(i, BuildOf(i), "offer", <<"merge", i>>)
    BY DEF Offer, Undecided, RowBelongs
  <1> QED
    BY <1>2, <1>3, <1>4, NoPerson, LogsSteps

LEMMA DecideStep ==
    ASSUME RecordInv, NEW i \in Refs, Decide(i)
    PROVE  RecordInv' /\ Grows
  <1>1. PICK kind \in Decided, who \in Answerers : Logs(i, kind, None, who)
    BY DEF Decide
  <1>2. RowBelongs(i, BuildOf(i), kind, None)
    BY DEF Decide, Undecided, RowBelongs, Decided
  <1> QED
    BY <1>1, <1>2, NoPerson, LogsSteps

LEMMA MergeRowStep ==
    ASSUME RecordInv, NEW i \in Refs, MergeRow(i)
    PROVE  RecordInv' /\ Grows
  <1>1. PICK kind \in {"step", "merge_failed", "joined", "merged"} : Logs(i, kind, None, None)
    BY DEF MergeRow
  <1>2. RowBelongs(i, BuildOf(i), kind, None)
    BY DEF RowBelongs, Decided
  <1> QED
    BY <1>1, <1>2, NoPerson, LogsSteps

LEMMA RetireStep ==
    ASSUME RecordInv, NEW i \in Refs, Retire(i)
    PROVE  RecordInv' /\ Grows
  BY NoPerson, LogsSteps DEF Retire, RowBelongs, Decided

(* What Forge does to anything but a build.                                *)
LEMMA OthersChange ==
    ASSUME RecordInv, f' \in Features(now), now' = now, resent' = resent, KeepsBuilds, KeepsMission, KeepsRun
    PROVE  RecordInv' /\ Grows
  <1>1. TypeOK'
    BY DEF RecordInv, TypeOK
  <1> QED
    BY <1>1, GrowsKeepsInv DEF Grows

LEMMA SameBuilds ==
    ASSUME TypeOK, f'.builds = f.builds
    PROVE  KeepsBuilds
  BY FeatureFields DEF KeepsBuilds, Keeps

LEMMA SameMission ==
    ASSUME f'.mission = f.mission
    PROVE  KeepsMission
  BY DEF KeepsMission, KeepsPlan, Keeps

LEMMA SameRun ==
    ASSUME f'.planning = f.planning
    PROVE  KeepsRun
  BY DEF KeepsRun, KeepsEvents

LEMMA ItemSteps ==
    ASSUME RecordInv, f.queue # None, NEW status \in {"ADMITTED", "WITHDRAWN"}, NEW field \in {"admitted", "closed"},
           Item(status, field)
    PROVE  RecordInv' /\ Grows
  <1> DEFINE q == [[f.queue EXCEPT !.status = status] EXCEPT ![field] = now]
  <1>1. TypeOK /\ f \in Features(now) /\ f.queue \in Items(now) /\ now \in Moments(now)
    BY FeatureFields DEF RecordInv
  <1>2. q \in Items(now)
    <2> DEFINE p == [f.queue EXCEPT !.status = status]
    <2>1. p \in Items(now)
      BY <1>1 DEF Items
    <2>2. q = [p EXCEPT ![field] = now]
      OBVIOUS
    <2> HIDE DEF p, q
    <2>3. CASE field = "admitted"
      BY <1>1, <2>1, <2>2, <2>3 DEF Items
    <2>4. CASE field = "closed"
      BY <1>1, <2>1, <2>2, <2>4 DEF Items
    <2> QED
      BY <2>3, <2>4
  <1>3. f' = [f EXCEPT !.queue = q] /\ now' = now /\ resent' = resent
    BY DEF Item
  <1> HIDE DEF q
  <1>4. f' \in Features(now) /\ f'.builds = f.builds /\ f'.mission = f.mission /\ f'.planning = f.planning
    BY <1>1, <1>2, <1>3 DEF Features
  <1>5. KeepsBuilds /\ KeepsMission /\ KeepsRun
    BY <1>1, <1>4, SameBuilds, SameMission, SameRun
  <1> QED
    BY <1>3, <1>4, <1>5, OthersChange

LEMMA LeaveQueueStep ==
    ASSUME RecordInv, LeaveQueue
    PROVE  RecordInv' /\ Grows
  BY ItemSteps DEF LeaveQueue

LEMMA RunSteps ==
    ASSUME RecordInv, NEW run \in Runs(now), Run(run),
           IF f.planning = None THEN run.events = <<>> ELSE KeepsEvents(f.planning, run)
    PROVE  RecordInv' /\ Grows
  <1>1. TypeOK /\ f \in Features(now)
    BY FeatureFields DEF RecordInv
  <1>2. f' = [f EXCEPT !.planning = run] /\ now' = now /\ resent' = resent
    BY DEF Run
  <1>3. f' \in Features(now) /\ f'.builds = f.builds /\ f'.mission = f.mission /\ f'.planning = run
    BY <1>1, <1>2 DEF Features
  <1>4. KeepsBuilds /\ KeepsMission
    BY <1>1, <1>3, SameBuilds, SameMission
  <1>5. KeepsRun
    BY <1>1, <1>3, NoneIsNoBuild DEF KeepsRun
  <1> QED
    BY <1>2, <1>3, <1>4, <1>5, OthersChange

LEMMA ToldRun ==
    ASSUME TypeOK, NEW run \in Runs(now), NEW req \in Requests, NEW who \in People,
           NEW kind \in DoorOpen \cup {"approved", "revise", "cancelled", "timed_out", "noted"},
           NEW door \in Doors \cup {"spec_complete", "nothing", "retired"},
           NEW decision \in {None, "approved", "revise"}
    PROVE  Told(run, kind, door, req, who, decision) \in Runs(now)
  <1> DEFINE e == [at |-> now, kind |-> kind, door |-> door, req |-> req, who |-> who, decision |-> decision]
             s == Append(run.events, e)
  <1>1. e \in Events(now)
    BY FeatureFields DEF Events
  <1>2. Told(run, kind, door, req, who, decision) = [run EXCEPT !.events = s]
    BY DEF Told
  <1> HIDE DEF e
  <1>3. run.events \in Seq(Events(now))
    BY DEF Runs
  <1>4. s \in Seq(Events(now))
    BY <1>1, <1>3, AppendProperties
  <1> HIDE DEF s
  <1> QED
    BY <1>2, <1>4 DEF Runs

LEMMA ToldSteps ==
    ASSUME RecordInv, f.planning # None, NEW run \in Runs(now), run.events = f.planning.events,
           NEW kind \in DoorOpen \cup {"approved", "revise", "cancelled", "timed_out", "noted"},
           NEW door \in Doors \cup {"spec_complete", "nothing", "retired"},
           NEW req \in Requests, NEW who \in People, NEW decision \in {None, "approved", "revise"},
           EventBelongs(f.planning, kind, door, req), Run(Told(run, kind, door, req, who, decision))
    PROVE  RecordInv' /\ Grows
  <1> DEFINE e == [at |-> now, kind |-> kind, door |-> door, req |-> req, who |-> who, decision |-> decision]
             told == Told(run, kind, door, req, who, decision)
  <1>1. TypeOK
    BY DEF RecordInv
  <1>2. told \in Runs(now)
    BY <1>1, ToldRun
  <1>3. e \in Events(now) /\ e.kind = kind /\ e.door = door /\ e.req = req
    BY <1>1, FeatureFields DEF Events
  <1>4. told.events = Append(f.planning.events, e)
    <2>1. told = [run EXCEPT !.events = Append(run.events, e)]
      BY DEF Told
    <2> HIDE DEF told, e
    <2> QED
      BY <2>1 DEF Runs
  <1> HIDE DEF told, e
  <1>5. KeepsEvents(f.planning, told)
    BY <1>3, <1>4 DEF KeepsEvents
  <1> QED
    BY <1>2, <1>5, RunSteps DEF told

LEMMA QueueRunStep ==
    ASSUME RecordInv, QueueRun
    PROVE  RecordInv' /\ Grows
  <1>1. <<>> \in Seq(Events(now))
    BY EmptySeq
  <1>2. NewRun("QUEUED") \in Runs(now)
    BY <1>1, FeatureFields DEF NewRun, Runs, PlanningActive, RecordInv
  <1>3. NewRun("QUEUED").events = <<>>
    BY DEF NewRun
  <1> QED
    BY <1>2, <1>3, RunSteps DEF QueueRun

LEMMA StartRunStep ==
    ASSUME RecordInv, StartRun
    PROVE  RecordInv' /\ Grows
  <1>1. f.planning # None /\ TypeOK
    BY DEF StartRun, RecordInv
  <1> DEFINE run == [f.planning EXCEPT !.state = "RUNNING", !.started = now]
  <1>2. run \in Runs(now) /\ KeepsEvents(f.planning, run)
    BY <1>1, RunFields, FeatureFields DEF Runs, PlanningActive, KeepsEvents
  <1>3. Run(run)
    BY DEF StartRun
  <1> HIDE DEF run
  <1> QED
    BY <1>1, <1>2, <1>3, RunSteps

(* A card of a door names a request that was recorded.                     *)
LEMMA AskingType ==
    ASSUME TypeOK, f.planning # None, NEW d, NEW c \in Asking(d)
    PROVE  c.req \in Requests
  <1> DEFINE rows == DoorEvents(f.planning, d)
             last == Max(Opens(rows))
  <1>1. rows \in Seq(Events(now)) /\ c \in DoorCard(f.planning, d)
    BY RunFields DEF Asking, OpenCards
  <1>2. last \in Opens(rows) /\ c.req = rows[last].req
    BY <1>1, DoorCardIs
  <1> HIDE DEF rows
  <1>3. last \in DOMAIN rows
    BY <1>2 DEF Opens
  <1>4. rows[last] \in Events(now)
    BY <1>1, <1>3, LenProperties
  <1> QED
    BY <1>2, <1>4 DEF Events

LEMMA OpenDoorStep ==
    ASSUME RecordInv, NEW d \in Doors, OpenDoor(d)
    PROVE  RecordInv' /\ Grows
  <1>1. f.planning # None /\ TypeOK /\ d \in {"spec", "sign_in"} /\ RunAsked
    BY RecordAssumption DEF OpenDoor, Planner, RecordInv
  <1> DEFINE n == Cardinality(Asked(f.planning, d))
             run == [f.planning EXCEPT !.state = IF d = "spec" THEN "FEATURE_SPEC" ELSE "FEATURE_PLAN"]
             req == <<d, n>>
  <1>2. n \in Nat
    BY <1>1, FS_CardinalityType DEF RunAsked, DoorAsked
  <1>3. Run(Told(run, "GATED", d, req, None, None))
    BY DEF OpenDoor, Asked
  <1>4. run \in Runs(now) /\ run.events = f.planning.events
    BY <1>1, RunFields DEF Runs, PlanningActive
  <1> HIDE DEF run
  <1>5. req \in Requests
    <2> HIDE DEF n
    <2> QED
      BY <1>2 DEF Requests
  <1>6. EventBelongs(f.planning, "GATED", d, req)
    BY DEF EventBelongs
  <1> HIDE DEF req
  <1> QED
    BY <1>1, <1>3, <1>4, <1>5, <1>6, NoPerson, ToldSteps DEF DoorOpen

LEMMA ReopenDoorStep ==
    ASSUME RecordInv, NEW d \in Doors, ReopenDoor(d)
    PROVE  RecordInv' /\ Grows
  <1>1. f.planning # None /\ TypeOK
    BY DEF ReopenDoor, Planner, RecordInv
  <1>2. PICK c \in Asking(d) : Run(Told(f.planning, "reopened", d, c.req, None, None))
    BY DEF ReopenDoor
  <1>3. c.req \in Requests /\ f.planning \in Runs(now)
    BY <1>1, AskingType, RunFields
  <1>4. EventBelongs(f.planning, "reopened", d, c.req)
    BY DEF EventBelongs, Asking
  <1> QED
    BY <1>1, <1>2, <1>3, <1>4, NoPerson, ToldSteps DEF DoorOpen

LEMMA AnswerDoorStep ==
    ASSUME RecordInv, NEW d \in Doors, AnswerDoor(d)
    PROVE  RecordInv' /\ Grows
  <1>1. f.planning # None /\ TypeOK
    BY DEF AnswerDoor, Planner, RecordInv
  <1>2. PICK c \in Asking(d), verdict \in {"approved", "revise", "cancelled", "timed_out"} :
            Run(Told(f.planning, verdict, d, c.req, IF verdict = "timed_out" THEN None ELSE "ann",
                     IF verdict \in {"approved", "revise"} THEN verdict ELSE None))
    BY DEF AnswerDoor
  <1> DEFINE who == IF verdict = "timed_out" THEN None ELSE "ann"
             decision == IF verdict \in {"approved", "revise"} THEN verdict ELSE None
  <1>3. c.req \in Requests /\ f.planning \in Runs(now)
    BY <1>1, AskingType, RunFields
  <1>4. who \in People /\ decision \in {None, "approved", "revise"}
    BY NoPerson
  <1>5. Run(Told(f.planning, verdict, d, c.req, who, decision))
    BY <1>2
  <1> HIDE DEF who, decision
  <1>6. EventBelongs(f.planning, verdict, d, c.req)
    BY DEF EventBelongs
  <1> QED
    BY <1>1, <1>3, <1>4, <1>5, <1>6, ToldSteps

LEMMA NoteRunStep ==
    ASSUME RecordInv, NoteRun
    PROVE  RecordInv' /\ Grows
  <1>1. f.planning # None /\ TypeOK
    BY DEF NoteRun, RecordInv
  <1>2. PICK note \in {"spec_complete", "nothing", "retired"} :
            Run(Told(f.planning, "noted", note, None, None, None))
    BY DEF NoteRun
  <1>3. EventBelongs(f.planning, "noted", note, None) /\ f.planning \in Runs(now)
    BY <1>1, RunFields DEF EventBelongs
  <1> QED
    BY <1>1, <1>2, <1>3, NoPerson, ToldSteps

LEMMA EndRunStep ==
    ASSUME RecordInv, EndRun
    PROVE  RecordInv' /\ Grows
  <1>1. f.planning # None /\ TypeOK
    BY DEF EndRun, Planner, RecordInv
  <1> DEFINE events == f.planning.events
             over(state) == [f.planning EXCEPT !.state = state, !.completed = now]
  <1>2. \A state \in PlanningOver : over(state) \in Runs(now) /\ over(state).events = events
    BY <1>1, RunFields, FeatureFields DEF Runs
  <1>3. CASE events # <<>> /\ Run(Told(over("CANCELLED"), "cancelled", LastRow(events).door, None, None, None))
    <2>1. LastRow(events) \in Events(now)
      BY <1>1, <1>3, RunFields, LastRowType
    <2>2. LastRow(events).door \in Doors \cup {"spec_complete", "nothing", "retired"}
      BY <2>1 DEF Events
    <2>3. over("CANCELLED") \in Runs(now) /\ over("CANCELLED").events = f.planning.events
      BY <1>2 DEF PlanningOver
    <2> DEFINE door == LastRow(events).door
    <2>4. EventBelongs(f.planning, "cancelled", door, None)
      BY DEF EventBelongs
    <2>5. Run(Told(over("CANCELLED"), "cancelled", door, None, None, None))
      BY <1>3
    <2> HIDE DEF over, door
    <2> QED
      BY <1>1, <2>2, <2>3, <2>4, <2>5, NoPerson, ToldSteps DEF door
  <1>4. CASE \E state \in RunEndings : Run(over(state))
    <2>1. PICK state \in RunEndings : Run(over(state))
      BY <1>4
    <2>2. over(state) \in Runs(now) /\ over(state).events = f.planning.events
      BY <1>2, RecordAssumption
    <2> HIDE DEF over
    <2>3. KeepsEvents(f.planning, over(state))
      BY <2>2 DEF KeepsEvents
    <2> QED
      BY <1>1, <2>1, <2>2, <2>3, RunSteps
  <1> QED
    BY <1>3, <1>4 DEF EndRun

LEMMA MissionSteps ==
    ASSUME RecordInv, f.mission # None, NEW m \in Missions(now), Mission(m),
           KeepsPlan(f.mission, m), m.merge = f.mission.merge \/ (f.mission.merge = None /\ IsNewMerge(m.merge))
    PROVE  RecordInv' /\ Grows
  <1>1. TypeOK /\ f \in Features(now)
    BY FeatureFields DEF RecordInv
  <1>2. f' = [f EXCEPT !.mission = m] /\ now' = now /\ resent' = resent
    BY DEF Mission
  <1>3. f' \in Features(now) /\ f'.builds = f.builds /\ f'.mission = m /\ f'.planning = f.planning
    BY <1>1, <1>2 DEF Features
  <1>4. m # None
    BY <1>1, NoneIsNoBuild
  <1>5. KeepsBuilds /\ KeepsMission /\ KeepsRun
    BY <1>1, <1>3, <1>4, SameBuilds, SameRun DEF KeepsMission, Keeps
  <1> QED
    BY <1>2, <1>3, <1>5, OthersChange

LEMMA MissionFields ==
    ASSUME TypeOK, f.mission # None
    PROVE  f.mission \in Missions(now) /\ f.mission.merge \in Builds(now) \cup {None}
  <1>1. f.mission \in Missions(now)
    BY FeatureFields
  <1> QED
    BY <1>1 DEF Missions

LEMMA AnswerPlanStep ==
    ASSUME RecordInv, AnswerPlan
    PROVE  RecordInv' /\ Grows
  <1>1. f.mission # None /\ TypeOK
    BY DEF AnswerPlan, RecordInv
  <1> DEFINE m1 == [f.mission EXCEPT !.status = "RUNNING", !.approved = now, !.by = "ann"]
             m2 == [f.mission EXCEPT !.status = "REJECTED", !.closed = now]
  <1>2. /\ m1 \in Missions(now) /\ m1.merge = f.mission.merge
        /\ m2 \in Missions(now) /\ m2.merge = f.mission.merge
        /\ f.mission.status = "PROPOSED" => KeepsPlan(f.mission, m1) /\ KeepsPlan(f.mission, m2)
    BY <1>1, MissionFields, FeatureFields, NoPerson DEF Missions, KeepsPlan
  <1>3. f.mission.status = "PROPOSED" /\ (Mission(m1) \/ Mission(m2))
    BY DEF AnswerPlan
  <1> HIDE DEF m1, m2
  <1> QED
    BY <1>1, <1>2, <1>3, MissionSteps

LEMMA NewBuildType ==
    ASSUME TypeOK, NEW role \in {None, "feature", "mission-merge"}
    PROVE  /\ NewBuild(role) \in Builds(now)
           /\ NewBuild(role).role = role /\ NewBuild(role).stages = <<>> /\ NewBuild(role).status = "QUEUED"
  <1>1. <<>> \in Seq(Stages(now))
    BY EmptySeq
  <1> QED
    BY <1>1, FeatureFields, NoPerson DEF NewBuild, Builds, BuildActive

LEMMA MergeMissionStep ==
    ASSUME RecordInv, MergeMission
    PROVE  RecordInv' /\ Grows
  <1>1. f.mission # None /\ f.mission.merge = None /\ TypeOK
    BY DEF MergeMission, RecordInv
  <1> DEFINE new == NewBuild("mission-merge")
             b == [new EXCEPT !.status = "COMPLETE", !.started = now, !.completed = now]
             m == [f.mission EXCEPT !.merge = b]
  <1>2. Mission(m)
    BY DEF MergeMission
  <1>3. new \in Builds(now) /\ new.stages = <<>>
    BY <1>1, NewBuildType
  <1> HIDE DEF new
  <1>4. b \in Builds(now) /\ IsNewMerge(b)
    BY <1>1, <1>3, FeatureFields DEF Builds, IsNewMerge
  <1> HIDE DEF b
  <1>5. m \in Missions(now) /\ m.merge = b /\ KeepsPlan(f.mission, m)
    BY <1>1, <1>4, MissionFields DEF Missions, KeepsPlan
  <1> HIDE DEF m
  <1> QED
    BY <1>1, <1>2, <1>4, <1>5, MissionSteps

LEMMA CloseMissionStep ==
    ASSUME RecordInv, CloseMission
    PROVE  RecordInv' /\ Grows
  <1>1. f.mission # None /\ TypeOK
    BY DEF CloseMission, RecordInv
  <1> DEFINE status == IF MissionDelivered(f.mission) = None THEN "NOT_MERGED" ELSE "MERGED"
             m == [f.mission EXCEPT !.closed = now, !.status = status]
  <1>2. status \in {"NOT_MERGED", "MERGED"}
    OBVIOUS
  <1>3. Mission(m)
    BY DEF CloseMission
  <1> HIDE DEF status
  <1>4. m \in Missions(now) /\ m.merge = f.mission.merge /\ KeepsPlan(f.mission, m)
    BY <1>1, <1>2, MissionFields, FeatureFields DEF Missions, KeepsPlan
  <1> HIDE DEF m
  <1> QED
    BY <1>1, <1>3, <1>4, MissionSteps

LEMMA QueueBuildStep ==
    ASSUME RecordInv, QueueBuild
    PROVE  RecordInv' /\ Grows
  <1>1. TypeOK
    BY DEF RecordInv
  <1> DEFINE b == NewBuild(IF f.mission = None THEN None ELSE "feature")
             bs == Append(f.builds, b)
  <1>2. f' = [f EXCEPT !.builds = bs] /\ now' = now /\ resent' = resent
    BY DEF QueueBuild
  <1>3. b \in Builds(now) /\ IsNew(b) /\ (f.mission # None => b.role = "feature")
    BY <1>1, NewBuildType DEF IsNew
  <1> HIDE DEF b
  <1>4. /\ bs \in Seq(Builds(now)) /\ Len(bs) = Len(f.builds) + 1
        /\ \A i \in 1..Len(f.builds) : bs[i] = f.builds[i]
        /\ bs[Len(f.builds) + 1] = b
    BY <1>1, <1>3, FeatureFields, AppendProperties
  <1> HIDE DEF bs
  <1>5. f' \in Features(now) /\ f'.builds = bs /\ f'.mission = f.mission /\ f'.planning = f.planning
    BY <1>1, <1>2, <1>4, FeatureFields DEF Features
  <1>6. DOMAIN bs = 1..Len(f.builds) + 1
    BY <1>4, LenProperties
  <1>7. KeepsBuilds
    <2>1. Len(f.builds) \in Nat /\ DOMAIN f.builds = 1..Len(f.builds)
      BY <1>1, FeatureFields
    <2>2. \A i \in DOMAIN f.builds : bs[i] = f.builds[i] /\ Keeps(i, f.builds[i], bs[i])
      BY <1>4, <2>1 DEF Keeps
    <2>3. \A i \in DOMAIN bs \ DOMAIN f.builds : bs[i] = b
      BY <1>4, <1>6, <2>1
    <2>4. Len(f.builds) <= Len(bs)
      BY <1>4, <2>1
    <2> QED
      BY <1>3, <1>5, <2>2, <2>3, <2>4 DEF KeepsBuilds
  <1>8. KeepsMission /\ KeepsRun
    BY <1>5, SameMission, SameRun
  <1> QED
    BY <1>2, <1>5, <1>7, <1>8, OthersChange

LEMMA Unchanged ==
    ASSUME TypeOK, f' = f
    PROVE  Grows
  BY SameBuilds, SameMission, SameRun DEF Grows

LEMMA SendAgainStep ==
    ASSUME RecordInv, SendAgain
    PROVE  RecordInv' /\ Grows
  BY Unchanged, FeatureFields, GrowsKeepsInv DEF SendAgain, RecordInv, TypeOK

LEMMA TickStep ==
    ASSUME RecordInv, Tick
    PROVE  RecordInv' /\ Grows
  <1>1. TypeOK /\ now \in Nat /\ f \in Features(now)
    BY FeatureFields DEF RecordInv
  <1>2. now' = now + 1 /\ f' = f /\ resent' = resent /\ now < MaxClock
    BY DEF Tick
  <1>3. now + 1 \in Nat /\ now <= now + 1
    BY <1>1
  <1>4. f \in Features(now + 1)
    BY <1>1, <1>3, TypesGrow
  <1>5. TypeOK'
    BY <1>1, <1>2, <1>4, RecordAssumption DEF TypeOK
  <1> QED
    BY <1>1, <1>2, <1>5, Unchanged, GrowsKeepsInv

LEMMA StutterStep ==
    ASSUME RecordInv, UNCHANGED vars
    PROVE  RecordInv' /\ Grows
  BY Unchanged, GrowsKeepsInv DEF vars, RecordInv, TypeOK

LEMMA RecordStep ==
    ASSUME RecordInv, [Next]_vars
    PROVE  RecordInv' /\ Grows
  <1>1. CASE UNCHANGED vars
    BY <1>1, StutterStep
  <1>2. CASE Next
    <2>1. ASSUME NEW d \in Doors, OpenDoor(d) \/ ReopenDoor(d) \/ AnswerDoor(d)
          PROVE  RecordInv' /\ Grows
      BY <2>1, OpenDoorStep, ReopenDoorStep, AnswerDoorStep
    <2>2. ASSUME NEW i \in Refs,
                 \/ StartBuild(i) \/ PauseBuild(i) \/ RecordPause(i) \/ RecordResume(i) \/ Unpause(i) \/ Work(i)
                 \/ EndBuild(i) \/ Offer(i) \/ Decide(i) \/ MergeRow(i) \/ Retire(i)
          PROVE  RecordInv' /\ Grows
      BY <2>2, StartBuildStep, PauseBuildStep, RecordPauseStep, RecordResumeStep, UnpauseStep, WorkStep,
         EndBuildStep, OfferStep, DecideStep, MergeRowStep, RetireStep
    <2> QED
      BY <1>2, <2>1, <2>2, QueueBuildStep, LeaveQueueStep, QueueRunStep, StartRunStep, NoteRunStep, EndRunStep,
         AnswerPlanStep, MergeMissionStep, CloseMissionStep, SendAgainStep, TickStep DEF Next
  <1> QED
    BY <1>1, <1>2

(* At first.                                                               *)
LEMMA RecordInit ==
    ASSUME Init
    PROVE  RecordInv
  <1>1. now = 0 /\ resent = {} /\ 0 \in Times(0) /\ -1 \in Times(0) /\ 0 \in 0..MaxClock
    BY RecordAssumption DEF Init, Times
  <1>2. /\ <<>> \in Seq(Stages(0)) /\ <<>> \in Seq(Events(0)) /\ <<>> \in Seq(Builds(0))
        /\ None \in Moments(0) /\ 0 \in Moments(0) /\ -1 \in Moments(0)
    BY EmptySeq DEF Moments, Times
  <1>3. \A role \in {None, "feature"} :
            /\ NewBuild(role) \in Builds(0) /\ NewBuild(role).role = role
    BY <1>1, <1>2, NoPerson DEF NewBuild, Builds, BuildActive
  <1>4. Empty \in Features(0) /\ Empty.mission = None /\ Empty.builds = <<>>
    BY <1>2 DEF Empty, Features
  <1>5. NewRun("RUNNING") \in Runs(0)
    BY <1>1, <1>2 DEF NewRun, Runs, PlanningActive
  <1>6. <<"plan", 0>> \in Requests /\ <<"merge", 0>> \in Requests
    BY DEF Requests
  <1>7. NewMission \in Missions(0) /\ NewItem \in Items(0)
    <2> DEFINE plan == <<"plan", 0>>
    <2>1. NewMission = [status |-> "PROPOSED", closed |-> None, stopping |-> FALSE, merge |-> None, plan |-> plan,
                        approved |-> None, by |-> None, created |-> now, features |-> 1]
      BY DEF NewMission
    <2>2. plan \in Requests
      BY <1>6
    <2> HIDE DEF plan
    <2> QED
      BY <1>1, <1>2, <2>1, <2>2, NoPerson DEF Missions, NewItem, Items
  <1>8. Going0 \in Builds(0)
    <2> DEFINE new == NewBuild(None)
    <2>1. new \in Builds(0)
      BY <1>3
    <2> HIDE DEF new
    <2>2. [new EXCEPT !.status = "RUNNING", !.started = now] \in Builds(0)
      BY <1>1, <1>2, <2>1 DEF Builds, BuildActive
    <2> QED
      BY <2>2 DEF Going0, new
  <1>9. ASSUME NEW k \in Nat
        PROVE  /\ Word0(k) \in Builds(0) /\ AskedAs(k, Word0(k)) /\ Word0(k).status = "COMPLETE"
               /\ k = 1 => Joined0 \in Builds(0) /\ Joined0.role = "feature" /\ \A i : AskedAs(i, Joined0)
    <2> DEFINE word == <<"merge", k>>
               row(kind) == [at |-> -1, kind |-> kind, req |-> word, who |-> "ann"]
               offer == row("offer")
               approve == row("approve")
               joined == row("joined")
               new == NewBuild(None)
    <2>1. offer \in Stages(0) /\ approve \in Stages(0) /\ joined \in Stages(0)
          /\ [approve EXCEPT !.kind = "joined"] = joined
      <3>1. word \in Requests
        BY DEF Requests
      <3> HIDE DEF word
      <3> QED
        BY <1>1, <3>1, NoPerson DEF Stages, Gated, Decided, MergeSteps
    <2>2. Word0(k) = [new EXCEPT !.status = "COMPLETE", !.queued = -1, !.started = -1, !.completed = -1,
                                 !.stages = <<offer, approve>>]
      BY DEF Word0
    <2>3. new \in Builds(0)
      BY <1>3
    <2>a. offer.kind = "offer" /\ offer.req = word /\ approve.kind = "approve" /\ joined.kind = "joined"
      OBVIOUS
    <2> HIDE DEF offer, approve, joined, new
    <2> DEFINE said == <<offer, approve>>
               landed == <<approve, joined>>
    <2>4. said \in Seq(Stages(0)) /\ landed \in Seq(Stages(0)) /\ said[2] = approve
      BY <2>1
    <2>b. /\ \A j \in DOMAIN said : said[j].kind # "pause" /\ (said[j].kind = "offer" => said[j].req = word)
          /\ \A j \in DOMAIN landed : landed[j].kind \notin {"pause", "offer"}
          /\ \A j, l \in DOMAIN said : said[j].kind \in Shuts /\ said[l].kind = "offer" => l < j
      <3>1. DOMAIN said = 1..2 /\ DOMAIN landed = 1..2 /\ said[1] = offer /\ said[2] = approve
            /\ landed[1] = approve /\ landed[2] = joined
        OBVIOUS
      <3>2. \A j \in 1..2 : j = 1 \/ j = 2
        OBVIOUS
      <3>3. "offer" \notin Shuts
        BY DEF Shuts, Decided
      <3> HIDE DEF word, said, landed
      <3> QED
        BY <2>a, <3>1, <3>2, <3>3
    <2>5. Word0(k).stages = said
      BY <2>2, <2>3 DEF Builds
    <2>6. k = 1 => Joined0 = [Word0(k) EXCEPT !.role = "feature", !.stages = landed]
      BY <2>1, <2>4, <2>5 DEF Joined0
    <2>7. Word0(k) = [new EXCEPT !.status = "COMPLETE", !.queued = -1, !.started = -1, !.completed = -1,
                                 !.stages = said]
      BY <2>2
    <2> HIDE DEF said, landed
    <2>8. Word0(k) \in Builds(0) /\ Word0(k).status = "COMPLETE"
      BY <1>1, <1>2, <2>3, <2>4, <2>7 DEF Builds
    <2>9. k = 1 => Joined0 \in Builds(0) /\ Joined0.role = "feature" /\ Joined0.status = "COMPLETE"
                   /\ Joined0.stages = landed
      BY <2>4, <2>6, <2>8 DEF Builds
    <2>10. AskedAs(k, Word0(k))
      BY <2>5, <2>8, <2>b DEF AskedAs
    <2>11. k = 1 => \A i : AskedAs(i, Joined0)
      BY <2>9, <2>b DEF AskedAs
    <2> QED
      BY <2>8, <2>9, <2>10, <2>11
  <1>10. /\ Word0(0) \in Builds(0) /\ AskedAs(0, Word0(0)) /\ Word0(0).status = "COMPLETE" /\ Word0(1) \in Builds(0) /\ AskedAs(1, Word0(1))
         /\ Word0(2) \in Builds(0) /\ AskedAs(2, Word0(2))
         /\ Joined0 \in Builds(0) /\ Joined0.role = "feature" /\ \A i : AskedAs(i, Joined0)
    BY <1>9
  <1>11. \A i : AskedAs(i, Going0)
    <2>1. Going0.stages = <<>> /\ Going0.status = "RUNNING"
      BY DEF Going0, NewBuild
    <2>2. \A j \in DOMAIN <<>> : FALSE
      OBVIOUS
    <2> QED
      BY <2>1, <2>2 DEF AskedAs
  <1> DEFINE asked(bs) == bs \in Seq(Builds(0)) /\ \A i \in DOMAIN bs : AskedAs(i, bs[i])
             going == <<Going0>>
             overlap == <<Going0, Going0>>
             merging == <<Word0(1), Word0(2)>>
             one == <<Joined0>>
             first == NewMission
             parted == [first EXCEPT !.status = "RUNNING", !.approved = -1, !.by = "ann",
                                     !.created = -1, !.merge = Word0(0)]
             run == NewRun("RUNNING")
  <1>12. asked(going) /\ asked(overlap) /\ asked(merging) /\ asked(one) /\ asked(<<>>)
         /\ \A i \in DOMAIN one : one[i].role = "feature"
    <2>1. asked(going)
      BY <1>8, <1>11
    <2>2. asked(overlap)
      BY <1>8, <1>11
    <2>3. asked(merging)
      <3>1. merging \in Seq(Builds(0)) /\ DOMAIN merging = 1..2 /\ merging[1] = Word0(1) /\ merging[2] = Word0(2)
        BY <1>10
      <3>2. \A i \in 1..2 : i = 1 \/ i = 2
        OBVIOUS
      <3> HIDE DEF merging
      <3> QED
        BY <1>10, <3>1, <3>2
    <2>4. asked(one) /\ \A i \in DOMAIN one : one[i].role = "feature"
      BY <1>10
    <2>5. asked(<<>>)
      BY <1>2
    <2> QED
      BY <2>1, <2>2, <2>3, <2>4, <2>5
  <1>13. /\ first \in Missions(0) /\ first.plan = <<"plan", 0>> /\ first.by = None /\ first.merge = None
         /\ parted \in Missions(0) /\ parted.plan = <<"plan", 0>> /\ parted.status = "RUNNING"
         /\ parted.merge = Word0(0)
    <2>1. first.plan = <<"plan", 0>> /\ first.by = None /\ first.merge = None
      BY DEF NewMission
    <2>2. first \in Missions(0)
      BY <1>7
    <2> HIDE DEF first
    <2>3. parted \in Missions(0)
      BY <1>1, <1>2, <1>10, <2>2, NoPerson DEF Missions
    <2>4. parted.plan = first.plan /\ parted.status = "RUNNING" /\ parted.merge = Word0(0)
      BY <2>2 DEF Missions
    <2> QED
      BY <2>1, <2>2, <2>3, <2>4
  <1>14. run \in Runs(0) /\ \A d : DoorAsked(run, d)
    <2>1. run.events = <<>>
      BY DEF NewRun
    <2> HIDE DEF run
    <2>2. \A d : DoorAsked(run, d)
      BY <2>1, DoorAskedAtFirst
    <2> QED
      BY <1>5, <2>2 DEF run
  <1> HIDE DEF asked, going, overlap, merging, one, first, parted, run
  <1>15. PICK s \in Starts : f = Start[s]
    BY DEF Init
  <1>16. s \in {"queue", "planning", "build", "overlap", "merging", "mission", "joined"}
    BY <1>15, RecordAssumption
  <1>17. \/ f = [Empty EXCEPT !.queue = NewItem]
         \/ f = [Empty EXCEPT !.planning = run]
         \/ f = [Empty EXCEPT !.builds = going]
         \/ f = [Empty EXCEPT !.builds = overlap]
         \/ f = [Empty EXCEPT !.builds = merging]
         \/ f = [Empty EXCEPT !.mission = first]
         \/ f = [Empty EXCEPT !.builds = one, !.mission = parted]
    BY <1>15, <1>16 DEF Start, parted, one, first, going, overlap, merging, run
  <1> DEFINE start(x) ==
               /\ x \in Features(0) /\ asked(x.builds)
               /\ x.mission # None => /\ \A i \in DOMAIN x.builds : x.builds[i].role = "feature"
                                      /\ x.mission.merge # None => /\ AskedAs(0, x.mission.merge)
                                                                   /\ x.mission.merge.status = "COMPLETE"
                                      /\ x.mission.plan = <<"plan", 0>>
                                      /\ x.mission.by # None => x.mission.status # "PROPOSED"
               /\ x.planning # None => \A d : DoorAsked(x.planning, d)
  <1>18. Empty.planning = None
    BY DEF Empty
  <1>19. \A bs : asked(bs) => start([Empty EXCEPT !.builds = bs])
    BY <1>4, <1>18 DEF Features, asked
  <1>20. start([Empty EXCEPT !.queue = NewItem]) /\ start([Empty EXCEPT !.planning = run])
    BY <1>4, <1>7, <1>12, <1>14, <1>18 DEF Features
  <1>21. start([Empty EXCEPT !.mission = first])
    <2>1. \A i \in DOMAIN <<>> : FALSE
      OBVIOUS
    <2> QED
      BY <1>4, <1>12, <1>13, <1>18, <2>1 DEF Features
  <1>22. start([Empty EXCEPT !.builds = one, !.mission = parted])
    <2>1. one \in Seq(Builds(0))
      BY <1>12 DEF asked
    <2> DEFINE x == [Empty EXCEPT !.builds = one, !.mission = parted]
    <2>2. x \in Features(0) /\ x.builds = one /\ x.mission = parted /\ x.planning = None
      BY <1>4, <1>13, <1>18, <2>1 DEF Features
    <2> HIDE DEF x
    <2>3. start(x)
      BY <1>10, <1>12, <1>13, <2>2
    <2> QED
      BY <2>3 DEF x
  <1> HIDE DEF start
  <1>23. start(f)
    BY <1>12, <1>17, <1>19, <1>20, <1>21, <1>22
  <1> QED
    BY <1>1, <1>23 DEF start, asked, RecordInv, TypeOK, PartsAreFeatures, BuildsAsked, RunAsked, PlanAsked, MergeDone

LEMMA RecordInvariant == Spec => []RecordInv /\ [][Grows]_vars
  <1>1. Init => RecordInv
    BY RecordInit
  <1>2. RecordInv /\ [Next]_vars => RecordInv' /\ [Grows]_vars
    BY RecordStep
  <1> QED
    BY <1>1, <1>2, PTL DEF Spec

(* The record keeps its types, and no row has a time to come.              *)
THEOREM RecordType == Spec => []TypeOK
  <1>1. RecordInv => TypeOK
    BY DEF RecordInv
  <1> QED
    BY <1>1, RecordInvariant, PTL

LEMMA MarkedRows ==
    ASSUME NEW S, \A r \in S : r.at \in Int, NEW rows \in Seq(S), NEW opens, NEW closes, NEW gated
    PROVE  Marked(rows, opens, closes, gated) \in Seq(WalkRow(Int))
  <1>1. Len(rows) \in Nat /\ DOMAIN rows = 1..Len(rows) /\ \A i \in 1..Len(rows) : rows[i] \in S
    BY LenProperties
  <1> DEFINE row(i) == [at |-> rows[i].at, opens |-> rows[i].kind \in opens,
                        closes |-> rows[i].kind \in closes, gated |-> rows[i].kind \in gated]
  <1>2. \A i \in 1..Len(rows) : row(i) \in WalkRow(Int)
    BY <1>1 DEF WalkRow
  <1>3. Marked(rows, opens, closes, gated) = [i \in 1..Len(rows) |-> row(i)]
    BY <1>1 DEF Marked
  <1> HIDE DEF row
  <1>4. [i \in 1..Len(rows) |-> row(i)] \in Seq(WalkRow(Int))
    BY <1>1, <1>2, IsASeq
  <1> QED
    BY <1>3, <1>4

(* The waits of every build and planning run, worked out row by row, are   *)
(* the ones the rule gives, in every record Forge can write.               *)
THEOREM WaitsAlwaysFollowTheRule == Spec => []WaitsFollowTheRule
  <1>1. ASSUME TypeOK PROVE WaitsFollowTheRule
    <2>1. None \notin Int
      BY RecordAssumption
    <2>2. (\A r \in Stages(now) : r.at \in Int) /\ \A r \in Events(now) : r.at \in Int
      BY <1>1, FeatureFields DEF Stages, Events, Times
    <2>3. ASSUME NEW i \in Refs
          PROVE  LET b == BuildOf(i) IN
                 /\ ToSet(Walk(GateRows(b), b.status = "PAUSED", "gate")) =
                        WaitsByRule(GateRows(b), b.status = "PAUSED", "gate")
                 /\ ToSet(Walk(OfferRows(b), TRUE, "merge")) = WaitsByRule(OfferRows(b), TRUE, "merge")
      <3> DEFINE b == BuildOf(i)
                 gates == GateRows(b)
                 offers == OfferRows(b)
                 paused == b.status = "PAUSED"
      <3>1. b \in Builds(now)
        BY <1>1, RefIsBuild
      <3>2. b.stages \in Seq(Stages(now))
        BY <3>1, BuildFields
      <3>3. gates \in Seq(WalkRow(Int)) /\ offers \in Seq(WalkRow(Int))
        BY <2>2, <3>2, MarkedRows DEF GateRows, OfferRows
      <3> HIDE DEF gates, offers, paused
      <3>4. ToSet(Walk(gates, paused, "gate")) = WaitsByRule(gates, paused, "gate")
        BY <2>1, <3>3, WalkFollowsTheRule
      <3>5. ToSet(Walk(offers, TRUE, "merge")) = WaitsByRule(offers, TRUE, "merge")
        BY <2>1, <3>3, WalkFollowsTheRule
      <3> QED
        BY <3>4, <3>5 DEF gates, offers, paused
    <2>4. ASSUME f.planning # None
          PROVE  ToSet(Walk(DoorRows(f.planning, "spec"), Planner, "door")) =
                     WaitsByRule(DoorRows(f.planning, "spec"), Planner, "door")
      <3> DEFINE rows == DoorRows(f.planning, "spec")
                 still == Planner
      <3>1. DoorEvents(f.planning, "spec") \in Seq(Events(now))
        BY <1>1, <2>4, RunFields
      <3>2. rows \in Seq(WalkRow(Int))
        BY <2>2, <3>1, MarkedRows DEF DoorRows
      <3> HIDE DEF rows, still
      <3>3. ToSet(Walk(rows, still, "door")) = WaitsByRule(rows, still, "door")
        BY <2>1, <3>2, WalkFollowsTheRule
      <3> QED
        BY <3>3 DEF rows, still
    <2> QED
      BY <2>3, <2>4 DEF WaitsFollowTheRule
  <1> QED
    BY <1>1, RecordType, PTL

-----------------------------------------------------------------------------
(* The date of a delivery.                                                 *)

(* The first row of some kinds stays the first.                            *)
LEMMA FirstStays ==
    ASSUME TypeOK, NEW ref, NEW b, b.stages \in Seq(Stages(now)), NEW c, Keeps(ref, b, c), NEW kinds
    PROVE  /\ FirstAt(OfKind(b.stages, kinds)) \in Moments(now)
           /\ FirstAt(OfKind(b.stages, kinds)) # None =>
                  FirstAt(OfKind(c.stages, kinds)) = FirstAt(OfKind(b.stages, kinds))
           /\ FirstAt(OfKind(b.stages, kinds)) = None => FirstAt(OfKind(c.stages, kinds)) \in {None, now}
  <1> DEFINE s == OfKind(b.stages, kinds)
  <1>1. s \in Seq(Stages(now))
    BY OfKindType
  <1> HIDE DEF s
  <1>2. Len(s) \in Nat /\ DOMAIN s = 1..Len(s) /\ (s # <<>> => Len(s) # 0) /\ \A i \in 1..Len(s) : s[i] \in Stages(now)
    BY <1>1, EmptySeq, LenProperties
  <1>3. None \notin Times(now)
    BY RecordAssumption DEF Times
  <1>4. s # <<>> => s[1].at \in Times(now)
    BY <1>2 DEF Stages
  <1>5. FirstAt(s) \in Moments(now) /\ (FirstAt(s) = None <=> s = <<>>)
    BY <1>3, <1>4 DEF FirstAt, Moments
  <1>6. CASE c.stages = b.stages
    BY <1>5, <1>6 DEF s
  <1>7. CASE \E r \in Stages(now) : r.at = now /\ c.stages = Append(b.stages, r)
    <2>1. PICK r \in Stages(now) : r.at = now /\ c.stages = Append(b.stages, r)
      BY <1>7
    <2>2. OfKind(c.stages, kinds) = IF r.kind \in kinds THEN Append(s, r) ELSE s
      <3> DEFINE rows == b.stages
      <3>1. rows \in Seq(Stages(now))
        OBVIOUS
      <3> HIDE DEF rows
      <3>2. OfKind(Append(rows, r), kinds) =
                IF r.kind \in kinds THEN Append(OfKind(rows, kinds), r) ELSE OfKind(rows, kinds)
        BY <3>1, OfKindOneMore
      <3> QED
        BY <2>1, <3>2 DEF s, rows
    <2>3. Append(s, r) # <<>> /\ Append(s, r)[1] = IF s = <<>> THEN r ELSE s[1]
      <3>1. /\ Append(s, r) \in Seq(Stages(now)) /\ Len(Append(s, r)) = Len(s) + 1
            /\ \A i \in 1..Len(s) : Append(s, r)[i] = s[i]
            /\ Append(s, r)[Len(s) + 1] = r
        BY <1>1, AppendProperties
      <3>2. Append(s, r) # <<>>
        BY <1>2, <3>1, EmptySeq
      <3>3. CASE s = <<>>
        <4>1. Len(s) + 1 = 1
          BY <3>3
        <4> QED
          BY <3>1, <3>2, <3>3, <4>1
      <3>4. CASE s # <<>>
        <4>1. 1 \in 1..Len(s)
          BY <1>2, <3>4
        <4> QED
          BY <3>1, <3>2, <3>4, <4>1
      <3> QED
        BY <3>3, <3>4
    <2>4. FirstAt(Append(s, r)) = IF s = <<>> THEN now ELSE FirstAt(s)
      BY <2>1, <2>3 DEF FirstAt
    <2> QED
      BY <1>5, <2>2, <2>4 DEF s
  <1> QED
    BY <1>6, <1>7 DEF Keeps

LEMMA MinIsLeast ==
    ASSUME NEW T, NEW t, T \subseteq Times(t), T # {}
    PROVE  Min(T) \in T /\ \A y \in T : Min(T) <= y
  <1> DEFINE U == {x + 1 : x \in T}
  <1>1. T \subseteq Int /\ \A x \in T : -1 <= x
    BY DEF Times
  <1>2. U \subseteq Nat /\ U # {}
    <2>1. \A x \in T : x + 1 \in Nat
      BY <1>1
    <2> QED
      BY <2>1
  <1>3. PICK u \in U : \A y \in U : u <= y
    <2> HIDE DEF U
    <2>1. Min(U) \in U /\ \A y \in U : Min(U) <= y
      BY <1>2, MinIs
    <2> QED
      BY <2>1
  <1>4. PICK x \in T : u = x + 1
    BY <1>3
  <1>5. ASSUME NEW y \in T PROVE x <= y
    <2>1. y + 1 \in U
      OBVIOUS
    <2>2. x + 1 <= y + 1
      BY <1>3, <1>4, <2>1
    <2> QED
      BY <1>1, <2>2
  <1>6. \E z \in T : \A y \in T : z <= y
    BY <1>5
  <1> QED
    BY <1>6 DEF Min

(* The merge step of one build.                                            *)
LEMMA BuildDeliveryStays ==
    ASSUME TypeOK, NEW i, NEW b, b.stages \in Seq(Stages(now)), NEW c, Keeps(i, b, c)
    PROVE  /\ BuildDelivered(b) \in Moments(now)
           /\ BuildDelivered(b) # None => BuildDelivered(c) = BuildDelivered(b)
           /\ BuildDelivered(b) = None => BuildDelivered(c) \in {None, now}
           /\ BuildLanded(b) # None => BuildLanded(c) = BuildLanded(b)
           /\ FirstAt(OfKind(b.stages, {"merged", "joined"})) # None =>
                  FirstAt(OfKind(c.stages, {"merged", "joined"})) = FirstAt(OfKind(b.stages, {"merged", "joined"}))
  <1>1. None \in Moments(now) /\ c.role = b.role
    BY FeatureFields DEF Keeps
  <1>2. \A kinds : /\ FirstAt(OfKind(b.stages, kinds)) \in Moments(now)
                   /\ FirstAt(OfKind(b.stages, kinds)) # None =>
                          FirstAt(OfKind(c.stages, kinds)) = FirstAt(OfKind(b.stages, kinds))
                   /\ FirstAt(OfKind(b.stages, kinds)) = None => FirstAt(OfKind(c.stages, kinds)) \in {None, now}
    BY FirstStays
  <1> QED
    BY <1>1, <1>2 DEF BuildDelivered, BuildLanded

LEMMA NothingYet ==
    ASSUME NEW b, b.stages = <<>>
    PROVE  BuildDelivered(b) = None /\ BuildLanded(b) = None
  <1>1. \A kinds : OfKind(<<>>, kinds) = <<>>
    BY RowsAtOfNone DEF OfKind
  <1> QED
    BY <1>1 DEF BuildDelivered, BuildLanded, FirstAt

(* The deliveries of a feature's own builds.                               *)
Deliveries(g) == {BuildDelivered(b) : b \in ToSet(g.builds)}
OnBranch(g) == \E b \in ToSet(g.builds) : b.role = "feature" /\ BuildLanded(b) # None
LEMMA DeliveredAtIs ==
    ASSUME NEW g
    PROVE  DeliveredAt(g) = IF Earliest(Deliveries(g)) = None /\ g.mission # None /\ OnBranch(g)
                            THEN MissionDelivered(g.mission) ELSE Earliest(Deliveries(g))
  BY DEF DeliveredAt, Deliveries, OnBranch

LEMMA BuildsStay ==
    ASSUME RecordInv, Grows, RecordInv'
    PROVE  DOMAIN f.builds \subseteq DOMAIN f'.builds
  <1>1. DOMAIN f.builds = 1..Len(f.builds) /\ Len(f.builds) \in Nat
    BY FeatureFields DEF RecordInv
  <1>2. f'.builds \in Seq(Builds(now'))
    BY DEF RecordInv, TypeOK, Features
  <1>3. DOMAIN f'.builds = 1..Len(f'.builds) /\ Len(f'.builds) \in Nat
    BY <1>2, LenProperties
  <1> QED
    BY <1>1, <1>3 DEF Grows, KeepsBuilds

LEMMA OwnDeliveryStays ==
    ASSUME RecordInv, Grows, RecordInv', Earliest(Deliveries(f)) # None
    PROVE  Earliest(Deliveries(f')) = Earliest(Deliveries(f))
  <1> DEFINE T == Recorded(Deliveries(f))
             U == Recorded(Deliveries(f'))
             m == Min(T)
  <1>1. /\ TypeOK /\ now \in Nat /\ KeepsBuilds
        /\ \A i \in DOMAIN f.builds : f.builds[i] \in Builds(now)
        /\ None \notin Times(now)
    BY FeatureFields, RecordAssumption DEF RecordInv, Grows, Times
  <1>2. \A i \in DOMAIN f.builds : f.builds[i].stages \in Seq(Stages(now)) /\ Keeps(i, f.builds[i], f'.builds[i])
    BY <1>1, BuildFields DEF KeepsBuilds
  <1>3. DOMAIN f.builds \subseteq DOMAIN f'.builds
    BY BuildsStay
  <1>4. /\ T = {x \in {BuildDelivered(f.builds[i]) : i \in DOMAIN f.builds} : x # None}
        /\ U = {x \in {BuildDelivered(f'.builds[i]) : i \in DOMAIN f'.builds} : x # None}
    BY DEF Recorded, Deliveries, ToSet
  <1>5. T \subseteq Times(now)
    <2>1. ASSUME NEW i \in DOMAIN f.builds PROVE BuildDelivered(f.builds[i]) \in Times(now) \cup {None}
      BY <1>1, <1>2, BuildDeliveryStays DEF Moments
    <2> QED
      BY <1>4, <2>1
  <1>6. T # {} /\ Earliest(Deliveries(f)) = m
    BY DEF Earliest
  <1>7. m \in T /\ \A y \in T : m <= y
    <2> HIDE DEF T
    <2> QED
      BY <1>5, <1>6, MinIsLeast
  <1> HIDE DEF m
  <1>8. m \in U
    <2>1. PICK i \in DOMAIN f.builds : m = BuildDelivered(f.builds[i]) /\ m # None
      BY <1>4, <1>7
    <2>2. BuildDelivered(f'.builds[i]) = m
      BY <1>1, <1>2, <2>1, BuildDeliveryStays
    <2> QED
      BY <1>3, <1>4, <2>1, <2>2
  <1>9. ASSUME NEW y \in U PROVE y \in Times(now) /\ m <= y
    <2>1. PICK j \in DOMAIN f'.builds : y = BuildDelivered(f'.builds[j]) /\ y # None
      BY <1>4
    <2>2. j \in DOMAIN f.builds
      BY <1>1, <2>1, NothingYet DEF KeepsBuilds, IsNew
    <2>3. CASE BuildDelivered(f.builds[j]) = None
      <3>1. y = now
        BY <1>1, <1>2, <2>1, <2>2, <2>3, BuildDeliveryStays
      <3> QED
        BY <1>1, <1>5, <1>7, <3>1 DEF Times
    <2>4. CASE BuildDelivered(f.builds[j]) # None
      <3>1. y = BuildDelivered(f.builds[j])
        BY <1>1, <1>2, <2>1, <2>2, <2>4, BuildDeliveryStays
      <3>2. y \in T
        BY <1>4, <2>2, <2>4, <3>1
      <3> QED
        BY <1>5, <1>7, <3>2
    <2> QED
      BY <2>3, <2>4
  <1>10. Min(U) \in U /\ \A y \in U : Min(U) <= y
    <2> HIDE DEF U
    <2>1. U \subseteq Times(now) /\ U # {}
      BY <1>8, <1>9
    <2> QED
      BY <2>1, MinIsLeast
  <1>11. Min(U) = m
    <2> DEFINE n == Min(U)
    <2> HIDE DEF U
    <2>1. n \in Times(now) /\ m \in Times(now) /\ n <= m /\ m <= n
      BY <1>8, <1>9, <1>10
    <2> HIDE DEF n
    <2>2. n = m
      BY <2>1 DEF Times
    <2> QED
      BY <2>2 DEF n
  <1>12. Earliest(Deliveries(f')) = Min(U)
    BY <1>8 DEF Earliest
  <1> QED
    BY <1>6, <1>11, <1>12

(* A part of a mission has no delivery of its own.                         *)
LEMMA PartsDeliverNothing ==
    ASSUME f.mission # None, PartsAreFeatures
    PROVE  Earliest(Deliveries(f)) = None
  <1>1. ASSUME NEW b \in ToSet(f.builds) PROVE BuildDelivered(b) = None
    BY DEF PartsAreFeatures, ToSet, BuildDelivered
  <1> QED
    BY <1>1 DEF Earliest, Recorded, Deliveries

LEMMA DeliveryStays ==
    ASSUME RecordInv, Grows, RecordInv', DeliveredAt(f) # None
    PROVE  DeliveredAt(f') = DeliveredAt(f)
  <1>1. CASE f.mission = None
    <2>1. f'.mission = None /\ Earliest(Deliveries(f)) # None
      BY <1>1, DeliveredAtIs DEF Grows, KeepsMission
    <2> QED
      BY <1>1, <2>1, OwnDeliveryStays, DeliveredAtIs
  <1>2. CASE f.mission # None
    <2>1. f'.mission # None
      BY <1>2 DEF Grows, KeepsMission
    <2>2. Earliest(Deliveries(f)) = None
      BY <1>2, PartsDeliverNothing DEF RecordInv
    <2>3. Earliest(Deliveries(f')) = None
      <3>1. ASSUME NEW b \in ToSet(f'.builds) PROVE BuildDelivered(b) = None
        BY <2>1 DEF RecordInv, PartsAreFeatures, ToSet, BuildDelivered
      <3> QED
        BY <3>1 DEF Earliest, Recorded, Deliveries
    <2>4. OnBranch(f) /\ MissionDelivered(f.mission) = DeliveredAt(f)
      BY <2>2, DeliveredAtIs
    <2>5. OnBranch(f')
      <3>1. PICK i \in DOMAIN f.builds : f.builds[i].role = "feature" /\ BuildLanded(f.builds[i]) # None
        BY <2>4 DEF OnBranch, ToSet
      <3>2. f.builds[i].stages \in Seq(Stages(now)) /\ Keeps(i, f.builds[i], f'.builds[i]) /\ TypeOK
        BY FeatureFields, BuildFields DEF RecordInv, Grows, KeepsBuilds
      <3>3. BuildLanded(f'.builds[i]) # None /\ f'.builds[i].role = "feature"
        <4>1. BuildLanded(f'.builds[i]) = BuildLanded(f.builds[i])
          BY <3>1, <3>2, BuildDeliveryStays
        <4> QED
          BY <3>1, <3>2, <4>1 DEF Keeps
      <3>4. i \in DOMAIN f'.builds
        BY BuildsStay
      <3> QED
        BY <3>3, <3>4 DEF OnBranch, ToSet
    <2>6. MissionDelivered(f'.mission) = MissionDelivered(f.mission)
      <3>1. f.mission.merge # None /\ TypeOK
        BY <2>4 DEF MissionDelivered, RecordInv
      <3>2. f.mission.merge \in Builds(now)
        BY <1>2, <3>1, MissionFields
      <3>3. f'.mission.merge # None /\ Keeps(0, f.mission.merge, f'.mission.merge)
        BY <1>2, <3>1 DEF Grows, KeepsMission
      <3>4. FirstAt(OfKind(f.mission.merge.stages, {"merged", "joined"})) # None
        BY <2>4, <3>1 DEF MissionDelivered
      <3>5. FirstAt(OfKind(f'.mission.merge.stages, {"merged", "joined"})) =
                FirstAt(OfKind(f.mission.merge.stages, {"merged", "joined"}))
        <4>1. f.mission.merge.stages \in Seq(Stages(now)) /\ TypeOK
          BY <3>1, <3>2, BuildFields
        <4> QED
          BY <3>3, <3>4, <4>1, BuildDeliveryStays
      <3> QED
        BY <3>1, <3>3, <3>5 DEF MissionDelivered
    <2> QED
      BY <2>1, <2>3, <2>4, <2>5, <2>6, DeliveredAtIs
  <1> QED
    BY <1>1, <1>2

(* A delivery is never withdrawn or given another date by the rows that    *)
(* come later (_assemble).                                                 *)
THEOREM DeliveryIsKept == Spec => DeliveredStays
  <1>1. ASSUME RecordInv, [Next]_vars
        PROVE  [Sent /\ DeliveredAt(f) # None => Standing(f').ended = DeliveredAt(f)]_vars
    <2>1. RecordInv' /\ Grows
      BY <1>1, RecordStep
    <2>2. ASSUME DeliveredAt(f) # None PROVE Standing(f').ended = DeliveredAt(f)
      <3>1. DeliveredAt(f') = DeliveredAt(f)
        BY <1>1, <2>1, <2>2, DeliveryStays
      <3>2. Standing(f') = Stands(Merged, "delivered", "merged and checked", DeliveredAt(f'))
        BY <2>2, <3>1 DEF Standing
      <3>3. Stands(Merged, "delivered", "merged and checked", DeliveredAt(f')).ended = DeliveredAt(f')
        BY DEF Stands
      <3> QED
        BY <3>1, <3>2, <3>3
    <2> QED
      BY <2>2
  <1> QED
    BY <1>1, RecordInvariant, PTL DEF Spec, DeliveredStays
-----------------------------------------------------------------------------
(* The cards of a feature and of its mission.                              *)

(* The rows at some places are the rows of those places.                   *)
LEMMA RowsAtAre ==
    ASSUME NEW S, NEW rows \in Seq(S), NEW places
    PROVE  RowsAt(rows, places) \in Seq({rows[j] : j \in places \cap (1..Len(rows))})
  <1> DEFINE n == Len(rows)
             R == {rows[j] : j \in places \cap (1..n)}
             T == Seq(R)
             v == PicksUpTo(rows, places)
  <1>1. n \in Nat
    BY LenProperties
  <1>2. RowsAt(rows, places) = v[n] /\ Picks(v, rows, places)
    BY PicksType
  <1> HIDE DEF v
  <1>3. v[0] = <<>> /\ \A i \in 1..n : v[i] = Picked(places, v[i - 1], i, rows[i])
    BY <1>2 DEF Picks
  <1>4. ASSUME NEW w \in T, NEW i \in 1..n PROVE Picked(places, w, i, rows[i]) \in T
    <2>1. CASE i \in places
      <3>1. rows[i] \in R
        BY <2>1
      <3> HIDE DEF R
      <3> QED
        BY <2>1, <3>1, AppendProperties DEF Picked
    <2>2. CASE i \notin places
      BY <2>2 DEF Picked
    <2> QED
      BY <2>1, <2>2
  <1>5. <<>> \in T
    BY EmptySeq
  <1> DEFINE C == {i \in 0..n : v[i] \in T}
  <1> HIDE DEF T, n
  <1>6. 0 \in C
    BY <1>1, <1>3, <1>5
  <1>7. ASSUME NEW i \in 1..n, i - 1 \in C PROVE i \in C
    <2>1. i \in 0..n /\ v[i - 1] \in T
      BY <1>1, <1>7
    <2>2. v[i] \in T
      BY <1>3, <1>4, <2>1
    <2> QED
      BY <2>1, <2>2
  <1> HIDE DEF C
  <1>8. \A i \in 0..n : i \in C
    BY <1>1, <1>6, <1>7, UpTo
  <1>9. n \in C
    BY <1>1, <1>8
  <1> QED
    BY <1>2, <1>9 DEF C, T, n

(* The last row of some kinds is a row of one of them.                     *)
LEMMA LastOfKind ==
    ASSUME NEW S, NEW rows \in Seq(S), NEW kinds, OfKind(rows, kinds) # <<>>
    PROVE  \E j \in DOMAIN rows : LastRow(OfKind(rows, kinds)) = rows[j] /\ rows[j].kind \in kinds
  <1> DEFINE places == {j \in DOMAIN rows : rows[j].kind \in kinds}
             R == {rows[j] : j \in places \cap (1..Len(rows))}
             some == OfKind(rows, kinds)
  <1>1. some = RowsAt(rows, places)
    BY DEF OfKind
  <1>2. \A r \in R : \E j \in DOMAIN rows : r = rows[j] /\ rows[j].kind \in kinds
    OBVIOUS
  <1> HIDE DEF places
  <1>3. some \in Seq(R)
    BY <1>1, RowsAtAre
  <1> HIDE DEF R, some
  <1>4. LastRow(some) \in R
    <2>1. some # <<>>
      BY DEF some
    <2> QED
      BY <1>3, <2>1, LastRowType
  <1> QED
    BY <1>2, <1>4 DEF some

(* What a person decided about a merge is not decided again, and the merge *)
(* is not offered again: its card stays.                                   *)
LEMMA MergeCardAsked ==
    ASSUME NEW i, NEW b, b.stages \in Seq(Stages(now)), AskedAs(i, b), NEW x \in MergeCard(b)
    PROVE  x.req = <<"merge", i>>
  <1> DEFINE offers == OfKind(b.stages, {"offer"})
             req == LastRow(offers).req
             shown == FirstShown(offers, req)
             said == MergeDecision(b)
  <1>1. offers # <<>>
    BY DEF MergeCard
  <1>2. \/ \E who, decision, at : x = Answered("merge", req, shown, who, decision, at)
        \/ \E at : x = Unanswered("merge", req, shown, at)
        \/ x = OpenCard("merge", req, shown, TRUE)
    BY DEF MergeCard
  <1>3. req = <<"merge", i>>
    <2>1. \E j \in DOMAIN b.stages : LastRow(offers) = b.stages[j] /\ b.stages[j].kind \in {"offer"}
      <3> DEFINE rows == b.stages
                 kinds == {"offer"}
      <3>1. rows \in Seq(Stages(now)) /\ OfKind(rows, kinds) # <<>>
        BY <1>1
      <3> HIDE DEF rows, kinds
      <3>2. \E j \in DOMAIN rows : LastRow(OfKind(rows, kinds)) = rows[j] /\ rows[j].kind \in kinds
        BY <3>1, LastOfKind
      <3> QED
        BY <3>2 DEF rows, kinds
    <2> QED
      BY <2>1 DEF AskedAs
  <1> HIDE DEF req, shown, said
  <1>4. x.req = req
    <2>1. ASSUME NEW who, NEW decision, NEW at, x = Answered("merge", req, shown, who, decision, at)
          PROVE  x.req = req
      BY <2>1, CardFields
    <2>2. ASSUME NEW at, x = Unanswered("merge", req, shown, at) PROVE x.req = req
      BY <2>2, CardFields
    <2>3. CASE x = OpenCard("merge", req, shown, TRUE)
      BY <2>3 DEF OpenCard
    <2> QED
      BY <1>2, <2>1, <2>2, <2>3
  <1> QED
    BY <1>3, <1>4

LEMMA MergeAnswerStays ==
    ASSUME NEW ref, NEW b, NEW c, b.stages \in Seq(Stages(now)), Keeps(ref, b, c),
           NEW x \in MergeCard(b), x.answered, NEW y \in MergeCard(c)
    PROVE  y = x
  <1> DEFINE offers == OfKind(b.stages, {"offer"})
             req == LastRow(offers).req
             shown == FirstShown(offers, req)
             said == MergeDecision(b)
             answer == Answered("merge", req, shown, said.who, said.kind, said.at)
  <1>1. offers # <<>> /\ said # None /\ said.who # None /\ x = answer
    <2>1. offers # <<>>
      BY DEF MergeCard
    <2>2. \/ said # None /\ said.who # None /\ x = answer
          \/ \E at : x = Unanswered("merge", req, shown, at)
          \/ x = OpenCard("merge", req, shown, TRUE)
      BY DEF MergeCard
    <2>3. ASSUME NEW at, x = Unanswered("merge", req, shown, at) PROVE FALSE
      <3> HIDE DEF req, shown
      <3>1. x.answered = FALSE
        BY <2>3, CardFields
      <3> QED
        BY <3>1
    <2>4. CASE x = OpenCard("merge", req, shown, TRUE)
      <3> HIDE DEF req, shown
      <3>1. x.answered = FALSE
        BY <2>4, CardFields
      <3> QED
        BY <3>1
    <2> QED
      BY <2>1, <2>2, <2>3, <2>4
  <1>2. OfKind(c.stages, {"offer"}) = offers /\ MergeDecision(c) = said
    <2>1. CASE c.stages = b.stages
      BY <2>1 DEF MergeDecision
    <2>2. ASSUME NEW r \in Stages(now), c.stages = Append(b.stages, r), RowBelongs(ref, b, r.kind, r.req)
          PROVE  OfKind(c.stages, {"offer"}) = offers /\ MergeDecision(c) = said
      <3>1. r.kind \notin Decided /\ r.kind # "offer"
        BY <1>1, <2>2 DEF RowBelongs
      <3> DEFINE rows == b.stages
      <3>2. rows \in Seq(Stages(now)) /\ c.stages = Append(rows, r)
        BY <2>2
      <3> HIDE DEF rows
      <3>3. \A kinds : OfKind(Append(rows, r), kinds) =
                           IF r.kind \in kinds THEN Append(OfKind(rows, kinds), r) ELSE OfKind(rows, kinds)
        BY <3>2, OfKindOneMore
      <3>4. OfKind(c.stages, {"offer"}) = OfKind(rows, {"offer"}) /\ OfKind(c.stages, Decided) = OfKind(rows, Decided)
        BY <3>1, <3>2, <3>3
      <3> QED
        BY <3>4 DEF rows, MergeDecision
    <2> QED
      BY <2>1, <2>2 DEF Keeps
  <1>3. MergeCard(c) = {answer}
    BY <1>1, <1>2 DEF MergeCard
  <1> QED
    BY <1>1, <1>3

(* Who answered a pause is not on record.                                  *)
LEMMA GateCardAsked ==
    ASSUME NEW i, NEW b, b.stages \in Seq(Stages(now)), AskedAs(i, b), NEW x \in GateCard(b)
    PROVE  x.req \in Gates /\ ~x.answered
  <1> DEFINE pauses == OfKind(b.stages, Paused)
             kindOf(req) == IF StageOf(req) = BuildGateStage THEN "build_gate" ELSE "paused"
             mine == FirstShown(pauses, b.pending)
             shown == FirstRecorded(<<mine, IF pauses = <<>> THEN b.started ELSE LastRow(pauses).at>>)
             last == LastRow(pauses)
  <1>1. \/ b.status = "PAUSED" /\ x = OpenCard(kindOf(b.pending), b.pending, shown, kindOf(b.pending) = "build_gate")
        \/ pauses # <<>> /\ x = Unanswered(kindOf(last.req), last.req, last.at, None)
    BY DEF GateCard
  <1>2. pauses # <<>> => last.req \in Gates
    <2>1. SUFFICES ASSUME pauses # <<>> PROVE last.req \in Gates
      OBVIOUS
    <2>2. \E j \in DOMAIN b.stages : last = b.stages[j] /\ b.stages[j].kind \in Paused
      <3> DEFINE rows == b.stages
      <3>1. rows \in Seq(Stages(now)) /\ OfKind(rows, Paused) # <<>>
        BY <2>1
      <3> HIDE DEF rows
      <3>2. \E j \in DOMAIN rows : LastRow(OfKind(rows, Paused)) = rows[j] /\ rows[j].kind \in Paused
        BY <3>1, LastOfKind
      <3> QED
        BY <3>2 DEF rows
    <2> QED
      BY <2>2 DEF AskedAs, Paused
  <1> HIDE DEF kindOf, shown, last, pauses
  <1>3. CASE b.status = "PAUSED" /\ x = OpenCard(kindOf(b.pending), b.pending, shown, kindOf(b.pending) = "build_gate")
    <2>1. x.req = b.pending /\ x.answered = FALSE
      BY <1>3, CardFields
    <2> QED
      BY <1>3, <2>1 DEF AskedAs
  <1>4. CASE pauses # <<>> /\ x = Unanswered(kindOf(last.req), last.req, last.at, None)
    <2>1. x.req = last.req /\ x.answered = FALSE
      BY <1>4, CardFields
    <2> QED
      BY <1>2, <1>4, <2>1
  <1> QED
    BY <1>1, <1>3, <1>4

(* A plan is answered once.                                                *)
LEMMA PlanCardAsked ==
    ASSUME NEW m, NEW x \in MissionPlanCard(m)
    PROVE  x.req = m.plan
  <1>1. \/ \E opened, a : x = OpenCard("mission_plan", m.plan, opened, a)
        \/ \E opened, who, at : x = Answered("mission_plan", m.plan, opened, who, "approve", at)
        \/ \E opened, at : x = Unanswered("mission_plan", m.plan, opened, at)
    BY DEF MissionPlanCard
  <1> QED
    BY <1>1, CardFields

LEMMA PlanAnswerStays ==
    ASSUME NEW m, NEW n, KeepsPlan(m, n), m.by # None => m.status # "PROPOSED",
           NEW x \in MissionPlanCard(m), x.answered, NEW y \in MissionPlanCard(n)
    PROVE  y = x
  <1> DEFINE answer == Answered("mission_plan", m.plan, m.created, m.by, "approve", m.approved)
  <1>1. m.plan # None /\ m.by # None /\ x = answer
    <2>1. \A req, opened, at, a : Unanswered("mission_plan", req, opened, at).answered = FALSE
                                  /\ OpenCard("mission_plan", req, opened, a).answered = FALSE
      BY CardFields
    <2> QED
      BY <2>1 DEF MissionPlanCard
  <1>2. n.status # "PROPOSED" /\ n.plan = m.plan /\ n.created = m.created /\ n.by = m.by /\ n.approved = m.approved
    BY <1>1 DEF KeepsPlan
  <1>3. MissionPlanCard(n) = {answer}
    BY <1>1, <1>2 DEF MissionPlanCard
  <1> QED
    BY <1>1, <1>3

(* Which card each request is shown as.                                    *)
DoorAsks(x) ==
    f.planning # None /\ \E d \in {"spec", "sign_in"} :
        x \in DoorCard(f.planning, d) /\ \E k \in Nat : x.req = <<d, k>>
GateAsks(x) == x.req \in Gates /\ ~x.answered
MergeAsks(x) ==
    \E i \in Nat :
        /\ x.req = <<"merge", i>>
        /\ \/ i \in DOMAIN f.builds /\ x \in MergeCard(f.builds[i])
           \/ i = 0 /\ f.mission # None /\ f.mission.merge # None /\ x \in MergeCard(f.mission.merge)
PlanAsks(x) == f.mission # None /\ x \in MissionPlanCard(f.mission) /\ x.req = <<"plan", 0>>
CardsAsked == \A x \in AllCards : DoorAsks(x) \/ GateAsks(x) \/ MergeAsks(x) \/ PlanAsks(x)

LEMMA CardsAreAsked ==
    ASSUME RecordInv
    PROVE  CardsAsked
  <1>1. TypeOK /\ BuildsAsked /\ RunAsked /\ PlanAsked
    BY DEF RecordInv
  <1>2. SUFFICES ASSUME NEW x \in AllCards PROVE DoorAsks(x) \/ GateAsks(x) \/ MergeAsks(x) \/ PlanAsks(x)
    BY DEF CardsAsked
  <1>3. \/ /\ f.planning # None
           /\ \/ \E d \in {"spec", "sign_in"} : x \in DoorCard(f.planning, d)
              \/ x \in CheckpointCard(f.planning)
        \/ \E i \in DOMAIN f.builds : x \in BuildCards(f.builds[i])
        \/ f.mission # None /\ x \in MissionPlanCard(f.mission)
        \/ f.mission # None /\ f.mission.merge # None /\ x \in BuildCards(f.mission.merge)
    BY DEF AllCards, FeatureCards, MissionCards, ToSet
  <1>4. ASSUME f.planning # None, NEW d \in {"spec", "sign_in"}, x \in DoorCard(f.planning, d)
        PROVE  DoorAsks(x)
    <2>1. DoorEvents(f.planning, d) \in Seq(Events(now)) /\ DoorAsked(f.planning, d)
      BY <1>1, <1>4, RunFields DEF RunAsked
    <2>2. PICK k \in 0 .. Cardinality(Asked(f.planning, d)) - 1 : x.req = <<d, k>>
      BY <1>4, <2>1, DoorCardAsked
    <2> QED
      BY <1>4, <2>2 DEF DoorAsks
  <1>5. ASSUME f.planning # None PROVE CheckpointCard(f.planning) = {}
    <2>1. f.planning.pending = None
      BY <1>1, <1>5, RunFields DEF Runs
    <2> QED
      BY <2>1 DEF CheckpointCard
  <1>6. ASSUME NEW i \in Nat, NEW b \in Builds(now), AskedAs(i, b), x \in BuildCards(b)
        PROVE  GateAsks(x) \/ (x.req = <<"merge", i>> /\ x \in MergeCard(b))
    <2>1. b.stages \in Seq(Stages(now))
      BY BuildFields
    <2>2. CASE x \in GateCard(b)
      BY <1>6, <2>1, <2>2, GateCardAsked DEF GateAsks
    <2>3. CASE x \in MergeCard(b)
      BY <1>6, <2>1, <2>3, MergeCardAsked
    <2> QED
      BY <1>6, <2>2, <2>3 DEF BuildCards
  <1>7. ASSUME NEW i \in DOMAIN f.builds, x \in BuildCards(f.builds[i])
        PROVE  GateAsks(x) \/ MergeAsks(x)
    <2>1. i \in Nat /\ f.builds[i] \in Builds(now) /\ AskedAs(i, f.builds[i])
      BY <1>1, FeatureFields DEF BuildsAsked
    <2> QED
      BY <1>6, <1>7, <2>1 DEF MergeAsks
  <1>8. ASSUME f.mission # None, f.mission.merge # None, x \in BuildCards(f.mission.merge)
        PROVE  GateAsks(x) \/ MergeAsks(x)
    <2>1. 0 \in Nat /\ f.mission.merge \in Builds(now) /\ AskedAs(0, f.mission.merge)
      BY <1>1, <1>8, FeatureFields DEF BuildsAsked, Missions
    <2>2. GateAsks(x) \/ (x.req = <<"merge", 0>> /\ x \in MergeCard(f.mission.merge))
      BY <1>6, <1>8, <2>1
    <2> QED
      BY <1>8, <2>1, <2>2 DEF MergeAsks
  <1>9. ASSUME f.mission # None, x \in MissionPlanCard(f.mission) PROVE PlanAsks(x)
    <2>1. x.req = f.mission.plan
      BY <1>9, PlanCardAsked
    <2> QED
      BY <1>1, <1>9, <2>1 DEF PlanAsked, PlanAsks
  <1> QED
    BY <1>3, <1>4, <1>5, <1>7, <1>8, <1>9

(* A request is shown as one card, and no answered card changes.           *)
LEMMA AnswerStays ==
    ASSUME RecordInv, RecordInv', Grows, CardsAsked, CardsAsked',
           NEW c \in AllCards, c.answered, NEW x \in AllCards', x.req = c.req
    PROVE  x = c
  <1>1. TypeOK /\ RunAsked /\ PlanAsked /\ KeepsBuilds /\ KeepsMission /\ KeepsRun
    BY DEF RecordInv, Grows
  <1>2. DoorAsks(c) \/ MergeAsks(c) \/ PlanAsks(c)
    BY DEF CardsAsked, GateAsks
  <1>3. \/ f'.planning # None /\ \E d \in {"spec", "sign_in"} :
               x \in DoorCard(f'.planning, d) /\ \E k \in Nat : x.req = <<d, k>>
        \/ x.req \in Gates
        \/ \E i \in Nat :
             /\ x.req = <<"merge", i>>
             /\ \/ i \in DOMAIN f'.builds /\ x \in MergeCard(f'.builds[i])
                \/ i = 0 /\ f'.mission # None /\ f'.mission.merge # None /\ x \in MergeCard(f'.mission.merge)
        \/ f'.mission # None /\ x \in MissionPlanCard(f'.mission) /\ x.req = <<"plan", 0>>
    BY DEF CardsAsked, DoorAsks, GateAsks, MergeAsks, PlanAsks
  <1>4. x.req \in Gates => \E k \in Nat : x.req = <<BuildGateStage, k>> \/ x.req = <<"budget", k>>
    BY DEF Gates
  <1>5. CASE DoorAsks(c)
    <2>1. f.planning # None
      BY <1>5 DEF DoorAsks
    <2>2. PICK d \in {"spec", "sign_in"} : c \in DoorCard(f.planning, d) /\ \E k \in Nat : c.req = <<d, k>>
      BY <1>5 DEF DoorAsks
    <2>3. PICK k \in Nat : x.req = <<d, k>>
      BY <2>2
    <2>4. x \in DoorCard(f'.planning, d)
      BY <1>3, <1>4, <2>3 DEF BuildGateStage
    <2>5. f.planning.events \in Seq(Events(now)) /\ KeepsEvents(f.planning, f'.planning) /\ DoorAsked(f.planning, d)
      BY <1>1, <2>1, RunFields DEF KeepsRun, RunAsked
    <2> QED
      BY <2>2, <2>4, <2>5, DoorAnswerStays
  <1>6. CASE MergeAsks(c)
    <2>1. PICK i \in Nat :
             /\ c.req = <<"merge", i>>
             /\ \/ i \in DOMAIN f.builds /\ c \in MergeCard(f.builds[i])
                \/ i = 0 /\ f.mission # None /\ f.mission.merge # None /\ c \in MergeCard(f.mission.merge)
      BY <1>6 DEF MergeAsks
    <2>2. \/ i \in DOMAIN f'.builds /\ x \in MergeCard(f'.builds[i])
          \/ i = 0 /\ x \in MergeCard(f'.mission.merge)
      BY <1>3, <1>4, <2>1 DEF BuildGateStage
    <2>3. 0 \notin DOMAIN f.builds
      BY <1>1, FeatureFields
    <2>4. 0 \notin DOMAIN f'.builds
      <3>1. f'.builds \in Seq(Builds(now'))
        BY DEF RecordInv, TypeOK, Features
      <3>2. DOMAIN f'.builds = 1..Len(f'.builds)
        BY <3>1, LenProperties
      <3> QED
        BY <3>2
    <2>5. CASE i \in DOMAIN f.builds
      <3>1. f.builds[i].stages \in Seq(Stages(now)) /\ Keeps(i, f.builds[i], f'.builds[i])
        BY <1>1, <2>5, FeatureFields, BuildFields DEF KeepsBuilds
      <3>2. c \in MergeCard(f.builds[i]) /\ x \in MergeCard(f'.builds[i])
        BY <2>1, <2>2, <2>3, <2>5
      <3> QED
        BY <3>1, <3>2, MergeAnswerStays
    <2>6. CASE i = 0
      <3>1. f.mission # None /\ f.mission.merge # None /\ c \in MergeCard(f.mission.merge)
        BY <2>1, <2>3, <2>6
      <3>2. f.mission.merge \in Builds(now)
        BY <1>1, <3>1, FeatureFields DEF Missions
      <3>3. f.mission.merge.stages \in Seq(Stages(now)) /\ Keeps(0, f.mission.merge, f'.mission.merge)
        BY <1>1, <3>1, <3>2, BuildFields DEF KeepsMission
      <3>4. x \in MergeCard(f'.mission.merge)
        BY <2>2, <2>4, <2>6
      <3> QED
        BY <3>1, <3>3, <3>4, MergeAnswerStays
    <2> QED
      BY <2>1, <2>5, <2>6
  <1>7. CASE PlanAsks(c)
    <2>1. f.mission # None /\ c \in MissionPlanCard(f.mission) /\ c.req = <<"plan", 0>>
      BY <1>7 DEF PlanAsks
    <2>2. x \in MissionPlanCard(f'.mission)
      BY <1>3, <1>4, <2>1 DEF BuildGateStage
    <2>3. KeepsPlan(f.mission, f'.mission) /\ (f.mission.by # None => f.mission.status # "PROPOSED")
      BY <1>1, <2>1 DEF KeepsMission, PlanAsked
    <2> QED
      BY <2>1, <2>2, <2>3, PlanAnswerStays
  <1> QED
    BY <1>2, <1>5, <1>6, <1>7

(* What a person answered stays as it was recorded, though more rows are   *)
(* written at the same door and the subject moves on (cards.py).           *)
THEOREM AnswersAreKept == Spec => AnswersStay
  <1>1. RecordInv => CardsAsked
    BY CardsAreAsked
  <1>2. RecordInv /\ CardsAsked /\ CardsAsked' /\ [Next]_vars
            => [\A c \in AllCards : c.answered => \A d \in AllCards' : d.req = c.req => d = c]_vars
    BY RecordStep, AnswerStays
  <1> QED
    BY <1>1, <1>2, RecordInvariant, PTL DEF Spec, AnswersStay

-----------------------------------------------------------------------------
(* The waits of a feature: their kinds and times, and whose they are.      *)

LEMMA MarkedIn ==
    ASSUME NEW S, NEW times, \A r \in S : r.at \in times, NEW rows \in Seq(S), NEW opens, NEW closes, NEW gated
    PROVE  /\ Marked(rows, opens, closes, gated) \in Seq(WalkRow(times))
           /\ Len(Marked(rows, opens, closes, gated)) = Len(rows)
           /\ \A i \in 1..Len(rows) :
                 /\ Marked(rows, opens, closes, gated)[i].at = rows[i].at
                 /\ Marked(rows, opens, closes, gated)[i].opens <=> rows[i].kind \in opens
                 /\ Marked(rows, opens, closes, gated)[i].closes <=> rows[i].kind \in closes
  <1>1. Len(rows) \in Nat /\ DOMAIN rows = 1..Len(rows) /\ \A i \in 1..Len(rows) : rows[i] \in S
    BY LenProperties
  <1> DEFINE row(i) == [at |-> rows[i].at, opens |-> rows[i].kind \in opens,
                        closes |-> rows[i].kind \in closes, gated |-> rows[i].kind \in gated]
             m == [i \in 1..Len(rows) |-> row(i)]
  <1>2. \A i \in 1..Len(rows) : row(i) \in WalkRow(times)
    BY <1>1 DEF WalkRow
  <1>3. Marked(rows, opens, closes, gated) = m
    BY <1>1 DEF Marked
  <1>4. \A i \in 1..Len(rows) : /\ m[i].at = rows[i].at
                                /\ m[i].opens <=> rows[i].kind \in opens
                                /\ m[i].closes <=> rows[i].kind \in closes
    OBVIOUS
  <1> HIDE DEF row
  <1>5. m \in Seq(WalkRow(times))
    BY <1>1, <1>2, IsASeq
  <1>6. Len(m) = Len(rows)
    <2>1. DOMAIN m = 1..Len(m) /\ DOMAIN m = 1..Len(rows) /\ Len(m) \in Nat
      BY <1>5, LenProperties
    <2> DEFINE a == Len(m)
               b == Len(rows)
    <2>2. a \in Nat /\ b \in Nat /\ 1..a = 1..b
      BY <1>1, <2>1
    <2> HIDE DEF a, b
    <2>3. \A k \in Nat \ {0} : k <= a <=> k <= b
      BY <2>2
    <2>4. a = b
      BY <2>2, <2>3
    <2> QED
      BY <2>4 DEF a, b
  <1> QED
    BY <1>3, <1>4, <1>5, <1>6

AWait(kinds, times) == [kind : kinds, from : times \cup {None}, to : times \cup {None}]
Waits(kinds, times) == Seq(AWait(kinds, times))

LEMMA WalkType ==
    ASSUME NEW times, NEW kind, NEW still, NEW rows \in Seq(WalkRow(times))
    PROVE  Walk(rows, still, kind) \in Waits({kind}, times)
  <1> DEFINE w == Walking(rows, kind)[Len(rows)]
             last == Wait(kind, w.since, IF still THEN None ELSE w.seen)
  <1>1. w \in WalkState(times, kind)
    <2>1. Len(rows) \in 0..Len(rows)
      BY LenProperties
    <2>2. Walking(rows, kind) \in [0..Len(rows) -> WalkState(times, kind)]
      BY WalkingType
    <2> QED
      BY <2>1, <2>2
  <1>2. Walk(rows, still, kind) = IF w.since = None THEN w.waits ELSE Append(w.waits, last)
    BY DEF Walk
  <1> HIDE DEF w
  <1>3. w.since \in times \cup {None} /\ w.seen \in times \cup {None} /\ w.waits \in Seq(AWait({kind}, times))
    BY <1>1 DEF WalkState, AWait
  <1>4. last \in AWait({kind}, times)
    BY <1>3 DEF Wait, AWait
  <1> HIDE DEF last
  <1>5. Append(w.waits, last) \in Seq(AWait({kind}, times))
    BY <1>3, <1>4, AppendProperties
  <1> QED
    BY <1>2, <1>3, <1>5 DEF Waits

LEMMA WalkWaits ==
    ASSUME NEW times, None \notin times, NEW kind, NEW still, NEW rows \in Seq(WalkRow(times)),
           NEW x \in ToSet(Walk(rows, still, kind))
    PROVE  /\ x.kind = kind /\ x.from \in times /\ x.to \in times \cup {None}
           /\ \E b \in Begins(rows) : x.from = rows[b].at /\ x.to = EndByRule(rows, still, b)
  <1>1. PICK b \in Begins(rows) : x = Wait(kind, rows[b].at, EndByRule(rows, still, b))
    BY WalkFollowsTheRule, RuleUnfolds
  <1>2. rows[b].at \in times
    BY RunFacts
  <1>3. x.kind = kind /\ x.from = rows[b].at /\ x.to = EndByRule(rows, still, b)
    BY <1>1 DEF Wait
  <1>4. x \in AWait({kind}, times)
    <2> DEFINE s == Walk(rows, still, kind)
    <2>1. s \in Seq(AWait({kind}, times))
      BY WalkType DEF Waits
    <2> HIDE DEF s
    <2>2. x \in ToSet(s)
      BY DEF s
    <2> QED
      BY <2>1, <2>2, LenProperties DEF ToSet
  <1> QED
    BY <1>2, <1>3, <1>4 DEF AWait

(* A wait that has no end is the latest of its rows, and no row closed it. *)
LEMMA OpenWalk ==
    ASSUME NEW times, None \notin times, NEW kind, NEW still, NEW rows \in Seq(WalkRow(times)),
           NEW x \in ToSet(Walk(rows, still, kind)), x.to = None
    PROVE  /\ still
           /\ \E b \in DOMAIN rows : /\ x.from = rows[b].at /\ rows[b].opens
                                     /\ \A k \in DOMAIN rows : b <= k => rows[k].opens \/ ~rows[k].closes
  <1>1. PICK b \in Begins(rows) : x.from = rows[b].at /\ EndByRule(rows, still, b) = None
    BY WalkWaits
  <1>2. /\ Len(rows) \in Nat /\ DOMAIN rows = 1..Len(rows)
        /\ \A i \in DOMAIN rows : rows[i].at \in times
        /\ Begins(rows) \subseteq Openings(rows) /\ Openings(rows) \subseteq 1..Len(rows)
        /\ OfRun(rows, b) \subseteq b..Len(rows) /\ b \in OfRun(rows, b)
        /\ Closings(rows, b) \subseteq 1..Len(rows)
    BY RunFacts DEF Closings
  <1>3. Closings(rows, b) = {}
    <2>1. SUFFICES ASSUME Closings(rows, b) # {} PROVE FALSE
      OBVIOUS
    <2>2. Min(Closings(rows, b)) \in Closings(rows, b)
      <3>1. Closings(rows, b) \subseteq Nat
        BY <1>2
      <3> QED
        BY <2>1, <3>1, MinIs
    <2>3. rows[Min(Closings(rows, b))].at \in times
      BY <1>2, <2>2
    <2> QED
      BY <1>1, <2>1, <2>3 DEF EndByRule
  <1>4. still /\ b = Max(Begins(rows))
    <2> DEFINE T == Openings(rows) \cap OfRun(rows, b)
    <2>1. T \subseteq 0..Len(rows) /\ T # {}
      BY <1>2
    <2> HIDE DEF T
    <2>2. Max(T) \in T
      BY <1>2, <2>1, MaxIs
    <2>3. rows[Max(T)].at \in times
      BY <1>2, <2>2 DEF T
    <2> QED
      BY <1>1, <1>3, <2>3 DEF EndByRule, T
  <1>5. \A c \in Begins(rows) : c <= b
    <2>1. Begins(rows) \subseteq 0..Len(rows)
      BY <1>2
    <2>2. \A c \in Begins(rows) : c <= Max(Begins(rows))
      BY <1>2, <2>1, MaxIs
    <2> QED
      BY <1>4, <2>2
  <1>6. ASSUME NEW k \in DOMAIN rows, b <= k PROVE rows[k].opens \/ ~rows[k].closes
    <2>1. k \in OfRun(rows, b)
      <3>1. k \in b..Len(rows) /\ b \in 1..Len(rows)
        BY <1>2, <1>6
      <3>2. Begins(rows) \cap (b + 1 .. k) = {}
        BY <1>2, <1>5
      <3> QED
        BY <3>1, <3>2 DEF OfRun
    <2> QED
      BY <1>3, <2>1 DEF Closings
  <1> QED
    BY <1>1, <1>2, <1>4, <1>6 DEF Openings

LEMMA ToSetJoined ==
    ASSUME NEW S, NEW s \in Seq(S), NEW t \in Seq(S)
    PROVE  s \o t \in Seq(S) /\ \A x \in ToSet(s \o t) : x \in ToSet(s) \/ x \in ToSet(t)
  <1> DEFINE all == s \o t
             m == Len(s)
             n == Len(t)
  <1>1. /\ all \in Seq(S) /\ Len(all) = m + n
        /\ \A i \in 1..m + n : all[i] = IF i <= m THEN s[i] ELSE t[i - m]
    BY ConcatProperties
  <1>2. m \in Nat /\ n \in Nat /\ DOMAIN s = 1..m /\ DOMAIN t = 1..n
    BY LenProperties
  <1> HIDE DEF all
  <1>3. DOMAIN all = 1..m + n
    BY <1>1, LenProperties
  <1> HIDE DEF m, n
  <1>4. ASSUME NEW x \in ToSet(all) PROVE x \in ToSet(s) \/ x \in ToSet(t)
    <2>1. PICK i \in 1..m + n : x = all[i]
      BY <1>3 DEF ToSet
    <2>2. CASE i <= m
      <3>1. i \in 1..m
        BY <1>2, <2>2
      <3> QED
        BY <1>1, <1>2, <2>1, <2>2, <3>1 DEF ToSet
    <2>3. CASE ~(i <= m)
      <3>1. i - m \in 1..n
        BY <1>2, <2>3
      <3> QED
        BY <1>1, <1>2, <2>1, <2>3, <3>1 DEF ToSet
    <2> QED
      BY <2>2, <2>3
  <1> QED
    BY <1>1, <1>4 DEF all

Flatten(seqs) ==
    CHOOSE w : w = [i \in 1..Len(seqs) |-> IF i = 1 THEN seqs[i] ELSE w[i - 1] \o seqs[i]]

LEMMA FlattenType ==
    ASSUME NEW S, NEW seqs \in Seq(Lists(S))
    PROVE  FlattenSeq(seqs) \in Seq(S) /\ \A x \in ToSet(FlattenSeq(seqs)) : \E i \in DOMAIN seqs : x \in ToSet(seqs[i])
  <1> DEFINE n == Len(seqs)
             T == Lists(S)
             none == <<>>
             g == [x \in T \X (1..n) |-> x[1] \o seqs[x[2]]]
             Rule(w) == w = [i \in 1..n |-> IF i = 1 THEN seqs[i] ELSE w[i - 1] \o seqs[i]]
             v == Flatten(seqs)
  <1>1. n \in Nat /\ DOMAIN seqs = 1..n /\ \A i \in 1..n : seqs[i] \in T
    BY LenProperties
  <1>2. none \in T
    BY EmptySeq DEF Lists
  <1>3. g \in Steps(T, n)
    <2>1. ASSUME NEW x \in T \X (1..n)
          PROVE  x[1] \o seqs[x[2]] \in T
      <3>1. x[1] \in Seq(S) /\ seqs[x[2]] \in Seq(S)
        BY <1>1 DEF Lists
      <3> DEFINE a == x[1]
                 b == seqs[x[2]]
      <3> HIDE DEF a, b
      <3>2. a \o b \in Seq(S)
        BY <3>1, ToSetJoined DEF a, b
      <3> QED
        BY <3>2 DEF a, b, Lists
    <2> HIDE DEF T, n
    <2>2. g \in [T \X (1..n) -> T]
      BY <2>1 DEF g
    <2> QED
      BY <2>2 DEF Steps
  <1>4. \E w : Follows(w, T, n, none, g)
    <2> HIDE DEF T, n, g, none
    <2> QED
      BY <1>1, <1>2, <1>3, Recursion
  <1>5. PICK w : w \in [0..n -> T] /\ w[0] = none /\ \A i \in 1..n : w[i] = g[<<w[i - 1], i>>]
    BY <1>4 DEF Follows
  <1>6. ASSUME NEW i \in 1..n PROVE w[i] = w[i - 1] \o seqs[i] /\ w[i - 1] \in T
    <2>1. w[i - 1] \in T /\ <<w[i - 1], i>> \in T \X (1..n)
      BY <1>1, <1>5
    <2>2. g[<<w[i - 1], i>>] = w[i - 1] \o seqs[i]
      <3> HIDE DEF T, n, none
      <3> QED
        BY <2>1
    <2> QED
      BY <1>5, <2>1, <2>2
  <1>7. \E u : Rule(u)
    <2> DEFINE u == [i \in 1..n |-> w[i]]
    <2>1. ASSUME NEW i \in 1..n PROVE w[i] = IF i = 1 THEN seqs[i] ELSE u[i - 1] \o seqs[i]
      <3>1. CASE i = 1
        <4>c. w[i] = w[i - 1] \o seqs[i]
          BY <1>6
        <4>d. i - 1 = 0
          BY <3>1
        <4>0. i - 1 = 0 /\ w[i] = w[i - 1] \o seqs[i]
          BY <4>c, <4>d
        <4>a. seqs[i] \in Seq(S)
          BY <1>1 DEF Lists
        <4>b. w[0] = none
          BY <1>5
        <4>1. w[i] = none \o seqs[i] /\ seqs[i] \in Seq(S)
          <5> HIDE DEF none
          <5> QED
            BY <4>0, <4>a, <4>b
        <4> DEFINE s == seqs[i]
        <4>2. s \in Seq(S)
          BY <4>1
        <4> HIDE DEF s
        <4>3. none \o s = s
          BY <4>2, ConcatEmptySeq
        <4> QED
          BY <3>1, <4>1, <4>3 DEF s
      <3>2. CASE i # 1
        <4>1. i - 1 \in 1..n
          BY <1>1, <3>2
        <4>2. u[i - 1] = w[i - 1]
          BY <4>1
        <4> QED
          BY <1>6, <3>2, <4>2
      <3> QED
        BY <3>1, <3>2
    <2>2. Rule(u)
      BY <2>1
    <2> HIDE DEF Rule, u
    <2> QED
      BY <2>2
  <1>8. Rule(v)
    <2>1. v = CHOOSE u : Rule(u)
      BY DEF Flatten
    <2> HIDE DEF Rule, v
    <2> QED
      BY <1>7, <2>1
  <1>9. FlattenSeq(seqs) = IF n = 0 THEN seqs ELSE v[n]
    BY DEF FlattenSeq, Flatten
  <1>10. \A i \in 1..n : v[i] = IF i = 1 THEN seqs[i] ELSE v[i - 1] \o seqs[i]
    <2> HIDE DEF v
    <2>1. v = [i \in 1..n |-> IF i = 1 THEN seqs[i] ELSE v[i - 1] \o seqs[i]]
      BY <1>8
    <2> QED
      BY <1>1, <2>1
  <1> HIDE DEF v
  <1> DEFINE joined(i) == v[i] \in Seq(S) /\ \A x \in ToSet(v[i]) : \E j \in 1..n : x \in ToSet(seqs[j])
  <1>11. \A i \in 1..n : joined(i)
    <2> DEFINE C == {i \in 0..n : i = 0 \/ joined(i)}
    <2>1. 0 \in C
      BY <1>1
    <2>2. ASSUME NEW i \in 1..n, i - 1 \in C PROVE i \in C
      <3>1. seqs[i] \in Seq(S) /\ i \in 0..n
        BY <1>1 DEF Lists
      <3>2. CASE i = 1
        <4>1. v[i] = seqs[i]
          BY <1>10, <3>2
        <4> QED
          BY <3>1, <4>1
      <3>3. CASE i # 1
        <4>0. i - 1 \in C /\ i - 1 # 0
          BY <2>2, <3>3
        <4>a. v[i] = v[i - 1] \o seqs[i]
          BY <1>10, <3>3
        <4>b. joined(i - 1)
          <5> HIDE DEF joined
          <5> QED
            BY <4>0
        <4>1. joined(i - 1) /\ v[i] = v[i - 1] \o seqs[i]
          BY <4>a, <4>b
        <4> DEFINE a == v[i - 1]
                   b == seqs[i]
        <4>2. a \in Seq(S) /\ b \in Seq(S) /\ v[i] = a \o b
          BY <3>1, <4>1
        <4>3. /\ \A x \in ToSet(a) : \E j \in 1..n : x \in ToSet(seqs[j])
              /\ \A x \in ToSet(b) : \E j \in 1..n : x \in ToSet(seqs[j])
          BY <4>1
        <4> HIDE DEF a, b
        <4>4. a \o b \in Seq(S) /\ \A x \in ToSet(a \o b) : x \in ToSet(a) \/ x \in ToSet(b)
          BY <4>2, ToSetJoined
        <4>5. joined(i)
          BY <4>2, <4>3, <4>4
        <4> QED
          BY <3>1, <4>5
      <3> QED
        BY <3>2, <3>3
    <2> HIDE DEF C
    <2>3. \A i \in 0..n : i \in C
      BY <1>1, <2>1, <2>2, UpTo
    <2>4. ASSUME NEW i \in 1..n PROVE joined(i)
      <3>1. i \in 0..n /\ i # 0
        BY <1>1
      <3>2. i \in C
        BY <2>3, <3>1
      <3> QED
        BY <3>1, <3>2 DEF C
    <2> QED
      BY <2>4
  <1>12. CASE n = 0
    <2>1. seqs = <<>>
      BY <1>12, EmptySeq
    <2>2. FlattenSeq(seqs) = <<>>
      BY <1>9, <1>12, <2>1
    <2>3. ToSet(<<>>) = {} /\ <<>> \in Seq(S)
      BY EmptySeq DEF ToSet
    <2> QED
      BY <2>2, <2>3
  <1>13. CASE n # 0
    <2>1. n \in 1..n /\ FlattenSeq(seqs) = v[n]
      BY <1>1, <1>9, <1>13
    <2>2. joined(n)
      BY <1>11, <2>1
    <2> QED
      BY <1>1, <2>1, <2>2
  <1> QED
    BY <1>12, <1>13

WaitKinds == {"spec approval", "build approval", "merge decision"}
GateWalk(b) == Walk(GateRows(b), b.status = "PAUSED", "build approval")
MergeWalk(b, latest) == Walk(OfferRows(b), latest /\ b.status \notin BuildBroken \cup {"SKIPPED"}, "merge decision")
DoorWalk(run, d) == Walk(DoorRows(run, d), run.state \in PlanningActive, "spec approval")

LEMMA RowsWalked ==
    ASSUME TypeOK
    PROVE  /\ None \notin Times(now)
           /\ \A b \in Builds(now) : /\ GateRows(b) \in Seq(WalkRow(Times(now)))
                                     /\ OfferRows(b) \in Seq(WalkRow(Times(now)))
           /\ f.planning # None => \A d : DoorRows(f.planning, d) \in Seq(WalkRow(Times(now)))
  <1>1. None \notin Times(now)
    BY RecordAssumption DEF Times
  <1>2. (\A r \in Stages(now) : r.at \in Times(now)) /\ \A r \in Events(now) : r.at \in Times(now)
    BY DEF Stages, Events
  <1>3. ASSUME NEW b \in Builds(now)
        PROVE  GateRows(b) \in Seq(WalkRow(Times(now))) /\ OfferRows(b) \in Seq(WalkRow(Times(now)))
    <2>1. b.stages \in Seq(Stages(now))
      BY BuildFields
    <2> QED
      BY <1>2, <2>1, MarkedIn DEF GateRows, OfferRows
  <1>4. ASSUME f.planning # None, NEW d PROVE DoorRows(f.planning, d) \in Seq(WalkRow(Times(now)))
    <2>1. DoorEvents(f.planning, d) \in Seq(Events(now))
      BY <1>4, RunFields
    <2> QED
      BY <1>2, <2>1, MarkedIn DEF DoorRows
  <1> QED
    BY <1>1, <1>3, <1>4

LEMMA MoreWaits ==
    ASSUME NEW times, NEW kind \in WaitKinds, NEW s \in Waits({kind}, times)
    PROVE  s \in Waits(WaitKinds, times)
  <1>1. AWait({kind}, times) \subseteq AWait(WaitKinds, times)
    BY DEF AWait
  <1>2. s \in Seq(AWait({kind}, times))
    BY DEF Waits
  <1> QED
    BY <1>1, <1>2, SeqMonotonic DEF Waits

LEMMA BuildWaitsAre ==
    ASSUME TypeOK, NEW b \in Builds(now), NEW latest
    PROVE  /\ BuildWaits(b, latest) \in Waits(WaitKinds, Times(now))
           /\ \A x \in ToSet(BuildWaits(b, latest)) : x \in ToSet(GateWalk(b)) \/ x \in ToSet(MergeWalk(b, latest))
  <1> DEFINE s == GateWalk(b)
             t == MergeWalk(b, latest)
  <1>1. GateRows(b) \in Seq(WalkRow(Times(now))) /\ OfferRows(b) \in Seq(WalkRow(Times(now)))
    BY RowsWalked
  <1>2. s \in Waits({"build approval"}, Times(now)) /\ t \in Waits({"merge decision"}, Times(now))
    BY <1>1, WalkType DEF GateWalk, MergeWalk
  <1>3. BuildWaits(b, latest) = s \o t
    BY DEF BuildWaits, GateWalk, MergeWalk
  <1> HIDE DEF s, t
  <1>4. s \in Waits(WaitKinds, Times(now)) /\ t \in Waits(WaitKinds, Times(now))
    <2>1. "build approval" \in WaitKinds /\ "merge decision" \in WaitKinds
      BY DEF WaitKinds
    <2> QED
      BY <1>2, <2>1, MoreWaits
  <1>5. s \o t \in Waits(WaitKinds, Times(now)) /\ \A x \in ToSet(s \o t) : x \in ToSet(s) \/ x \in ToSet(t)
    BY <1>4, ToSetJoined DEF Waits
  <1> QED
    BY <1>3, <1>5 DEF s, t

LEMMA PlanningWaitsAre ==
    ASSUME TypeOK, f.planning # None
    PROVE  /\ PlanningWaits(f.planning) \in Waits(WaitKinds, Times(now))
           /\ \A x \in ToSet(PlanningWaits(f.planning)) :
                 x \in ToSet(DoorWalk(f.planning, "spec")) \/ x \in ToSet(DoorWalk(f.planning, "product_docs"))
  <1> DEFINE s == DoorWalk(f.planning, "spec")
             t == DoorWalk(f.planning, "product_docs")
  <1>1. \A d : DoorRows(f.planning, d) \in Seq(WalkRow(Times(now)))
    BY RowsWalked
  <1>2. s \in Waits({"spec approval"}, Times(now)) /\ t \in Waits({"spec approval"}, Times(now))
    BY <1>1, WalkType DEF DoorWalk
  <1>3. PlanningWaits(f.planning) = s \o t
    BY DEF PlanningWaits, DoorWalk
  <1> HIDE DEF s, t
  <1>4. s \in Waits(WaitKinds, Times(now)) /\ t \in Waits(WaitKinds, Times(now))
    <2>1. "spec approval" \in WaitKinds
      BY DEF WaitKinds
    <2> QED
      BY <1>2, <2>1, MoreWaits
  <1>5. s \o t \in Waits(WaitKinds, Times(now)) /\ \A x \in ToSet(s \o t) : x \in ToSet(s) \/ x \in ToSet(t)
    BY <1>4, ToSetJoined DEF Waits
  <1> QED
    BY <1>3, <1>5 DEF s, t

(* Nothing is recorded at the door for the product's documents.            *)
LEMMA NoProductDoor ==
    ASSUME TypeOK, f.planning # None
    PROVE  ToSet(DoorWalk(f.planning, "product_docs")) = {}
  <1> DEFINE events == f.planning.events
             places == {i \in DOMAIN events : events[i].door = "product_docs"}
             rows == DoorRows(f.planning, "product_docs")
  <1>1. events \in Seq(Events(now))
    BY RunFields
  <1>2. \A i \in DOMAIN events : events[i].door # "product_docs"
    <2>1. \A i \in DOMAIN events : events[i] \in Events(now)
      <3> HIDE DEF events
      <3> QED
        BY <1>1, LenProperties
    <2> QED
      BY <2>1, RecordAssumption DEF Events
  <1>3. places = {}
    BY <1>2
  <1>4. DoorEvents(f.planning, "product_docs") = <<>>
    <2>1. DoorEvents(f.planning, "product_docs") = RowsAt(events, places)
      BY DEF DoorEvents
    <2> HIDE DEF events, places
    <2>2. RowsAt(events, places) = <<>> <=> places \cap (1..Len(events)) = {}
      BY <1>1, RowsAtEmpty
    <2> QED
      BY <1>3, <2>1, <2>2
  <1>5. rows \in Seq(WalkRow(Times(now))) /\ DOMAIN rows = {}
    <2>1. rows \in Seq(WalkRow(Times(now)))
      BY RowsWalked
    <2>2. DOMAIN <<>> = {}
      OBVIOUS
    <2> QED
      BY <1>4, <2>1, <2>2 DEF DoorRows, Marked
  <1> HIDE DEF rows
  <1>6. ASSUME NEW x \in ToSet(DoorWalk(f.planning, "product_docs")) PROVE FALSE
    <2> DEFINE still == f.planning.state \in PlanningActive
               kind == "spec approval"
               times == Times(now)
    <2>1. x \in ToSet(Walk(rows, still, kind)) /\ rows \in Seq(WalkRow(times)) /\ None \notin times
      BY <1>5, <1>6, RowsWalked DEF DoorWalk, rows
    <2> HIDE DEF still, kind, times
    <2>2. \E b \in Begins(rows) : x.from = rows[b].at
      BY <2>1, WalkWaits
    <2> QED
      BY <1>5, <2>2 DEF Begins, Openings
  <1> QED
    BY <1>6

(* Every wait is a planning run's at its first door, or a build's.         *)
LEMMA FeatureWaitsAre ==
    ASSUME TypeOK
    PROVE  \A x \in ToSet(FeatureWaits(f)) :
              /\ x \in AWait(WaitKinds, Times(now))
              /\ \/ f.planning # None /\ x \in ToSet(DoorWalk(f.planning, "spec"))
                 \/ \E i \in DOMAIN f.builds : \/ x \in ToSet(GateWalk(f.builds[i]))
                                               \/ x \in ToSet(MergeWalk(f.builds[i], i = Len(f.builds)))
  <1> DEFINE W == AWait(WaitKinds, Times(now))
             s == IF f.planning = None THEN <<>> ELSE PlanningWaits(f.planning)
             of(i) == BuildWaits(f.builds[i], i = Len(f.builds))
             seqs == [i \in DOMAIN f.builds |-> of(i)]
             t == FlattenSeq(seqs)
  <1>1. DOMAIN f.builds = 1..Len(f.builds) /\ Len(f.builds) \in Nat /\ \A i \in DOMAIN f.builds : f.builds[i] \in Builds(now)
    BY FeatureFields
  <1>2. FeatureWaits(f) = s \o t
    BY DEF FeatureWaits
  <1>3. s \in Seq(W) /\ \A x \in ToSet(s) : f.planning # None /\ x \in ToSet(DoorWalk(f.planning, "spec"))
    <2>1. CASE f.planning = None
      <3>1. <<>> \in Seq(W) /\ ToSet(<<>>) = {}
        BY EmptySeq DEF ToSet
      <3> QED
        BY <2>1, <3>1
    <2>2. CASE f.planning # None
      BY <2>2, PlanningWaitsAre, NoProductDoor DEF Waits
    <2> QED
      BY <2>1, <2>2
  <1>4. \A i \in 1..Len(f.builds) : of(i) \in Lists(W)
    BY <1>1, BuildWaitsAre DEF Waits, Lists
  <1>5. \A i \in DOMAIN f.builds : \A x \in ToSet(of(i)) :
            x \in ToSet(GateWalk(f.builds[i])) \/ x \in ToSet(MergeWalk(f.builds[i], i = Len(f.builds)))
    BY <1>1, BuildWaitsAre
  <1>6. seqs \in Seq(Lists(W)) /\ DOMAIN seqs = DOMAIN f.builds /\ \A i \in DOMAIN seqs : seqs[i] = of(i)
    <2> HIDE DEF W, of
    <2>1. [i \in 1..Len(f.builds) |-> of(i)] \in Seq(Lists(W))
      BY <1>1, <1>4, IsASeq
    <2> QED
      BY <1>1, <2>1
  <1> HIDE DEF W, s, of, seqs
  <1>7. t \in Seq(W) /\ \A x \in ToSet(t) : \E i \in DOMAIN seqs : x \in ToSet(seqs[i])
    BY <1>6, FlattenType
  <1> HIDE DEF t
  <1>8. s \o t \in Seq(W) /\ \A x \in ToSet(s \o t) : x \in ToSet(s) \/ x \in ToSet(t)
    BY <1>3, <1>7, ToSetJoined
  <1>9. ASSUME NEW x \in ToSet(s \o t)
        PROVE  /\ x \in W
               /\ \/ f.planning # None /\ x \in ToSet(DoorWalk(f.planning, "spec"))
                  \/ \E i \in DOMAIN f.builds : \/ x \in ToSet(GateWalk(f.builds[i]))
                                                \/ x \in ToSet(MergeWalk(f.builds[i], i = Len(f.builds)))
    <2>1. x \in W
      <3> DEFINE all == s \o t
      <3>1. all \in Seq(W) /\ x \in ToSet(all)
        BY <1>8, <1>9
      <3> HIDE DEF all
      <3> QED
        BY <3>1, LenProperties DEF ToSet
    <2> QED
      BY <1>3, <1>5, <1>6, <1>7, <1>8, <1>9, <2>1
  <1> QED
    BY <1>2, <1>9 DEF W

-----------------------------------------------------------------------------
(* The issues of a feature: which are open, and what its outcome is then.  *)

LEMMA FirstOfTwo ==
    ASSUME NEW a, NEW b
    PROVE  FirstRecorded(<<a, b>>) = IF a # None THEN a ELSE b
  <1> DEFINE ts == <<a, b>>
             known == {i \in DOMAIN ts : ts[i] # None}
  <1>1. ts[1] = a /\ ts[2] = b /\ DOMAIN ts = 1..2
    OBVIOUS
  <1>2. \A i \in 1..2 : i = 1 \/ i = 2
    OBVIOUS
  <1>3. FirstRecorded(ts) = IF known = {} THEN None ELSE ts[Min(known)]
    BY DEF FirstRecorded
  <1>4. known \subseteq Nat /\ (1 \in known <=> a # None) /\ (2 \in known <=> b # None) /\ \A i \in known : i = 1 \/ i = 2
    BY <1>1, <1>2
  <1> HIDE DEF ts, known
  <1> DEFINE m == Min(known)
  <1>5. known # {} => m \in known /\ \A y \in known : m <= y
    BY <1>4, MinIs
  <1>a. FirstRecorded(ts) = IF known = {} THEN None ELSE ts[m]
    BY <1>3
  <1> HIDE DEF m
  <1>6. CASE a # None
    <2>1. m = 1
      <3>1. 1 \in known
        BY <1>4, <1>6
      <3>2. m \in known /\ m <= 1
        BY <1>5, <3>1
      <3>3. m = 1 \/ m = 2
        BY <1>4, <3>2
      <3> QED
        BY <3>2, <3>3
    <2> QED
      BY <1>1, <1>a, <1>4, <1>6, <2>1 DEF ts
  <1>7. CASE a = None /\ b # None
    <2>1. m = 2
      BY <1>4, <1>5, <1>7
    <2> QED
      BY <1>1, <1>a, <1>4, <1>7, <2>1 DEF ts
  <1>8. CASE a = None /\ b = None
    <2>1. known = {}
      BY <1>4, <1>8
    <2> QED
      BY <1>a, <1>8, <2>1 DEF ts
  <1> QED
    BY <1>6, <1>7, <1>8

(* A build that failed, and one whose failure nothing that came later      *)
(* closed.                                                                 *)
Failed(b) == MergeCheckFailed(b) # None \/ b.status = "FAILED"
ClosedBy(i) ==
    FirstRecorded(<<IF i < Len(f.builds) THEN f.builds[i + 1].queued ELSE None, DeliveredAt(f)>>)

LEMMA ClosedIs ==
    ASSUME TypeOK, NEW i \in DOMAIN f.builds
    PROVE  ClosedBy(i) = None <=> i = Len(f.builds) /\ DeliveredAt(f) = None
  <1> DEFINE next == IF i < Len(f.builds) THEN f.builds[i + 1].queued ELSE None
  <1>1. ClosedBy(i) = IF next # None THEN next ELSE DeliveredAt(f)
    BY FirstOfTwo DEF ClosedBy
  <1>2. DOMAIN f.builds = 1..Len(f.builds) /\ Len(f.builds) \in Nat /\ \A j \in DOMAIN f.builds : f.builds[j] \in Builds(now)
    BY FeatureFields
  <1>3. next = None <=> i = Len(f.builds)
    <2>1. ASSUME i < Len(f.builds) PROVE f.builds[i + 1].queued # None
      <3>1. i + 1 \in DOMAIN f.builds
        BY <1>2, <2>1
      <3>2. f.builds[i + 1].queued \in Times(now)
        BY <1>2, <3>1 DEF Builds
      <3> QED
        BY <3>2, RecordAssumption DEF Times
    <2> QED
      BY <1>2, <2>1
  <1> HIDE DEF next
  <1> QED
    BY <1>1, <1>3

(* When the request was not sent again, a build's issue is open exactly    *)
(* when nothing closed it, and is red when the build failed.               *)
LEMMA BuildIssueIs ==
    ASSUME NEW i \in DOMAIN f.builds
    PROVE  /\ \A x \in BuildIssue(f, resent, i) :
                 /\ x.kind \notin LiveKinds
                 /\ x.closed = None => ClosedBy(i) = None
                 /\ Failed(f.builds[i]) \/ f.builds[i].status \in {"CANCELLED", "INTERRUPTED"}
                 /\ x.band = "R" => Failed(f.builds[i])
           /\ resent = {} /\ ClosedBy(i) = None /\ Failed(f.builds[i]) =>
                 \E x \in BuildIssue(f, resent, i) : x.closed = None /\ x.band = "R"
  <1> DEFINE b == f.builds[i]
             ended == FirstRecorded(<<b.completed, b.queued, SentAt(f)>>)
             orResent(t) == IF ClosedBy(i) = None THEN ResentAfter(resent, t) ELSE ClosedBy(i)
             check == MergeCheckFailed(b)
  <1>1. BuildIssue(f, resent, i) =
            IF check # None THEN {Issue("Merge check failed", "R", check, orResent(check))}
            ELSE IF b.status = "FAILED" THEN {Issue("Build failed", "R", ended, orResent(ended))}
            ELSE IF b.status = "CANCELLED" THEN {Issue("Build cancelled", "A", ended, orResent(ended))}
            ELSE IF b.status = "INTERRUPTED" THEN {Issue("Build interrupted", "A", ended, ClosedBy(i))}
            ELSE {}
    BY DEF BuildIssue, ClosedBy
  <1>2. \A t : orResent(t) = None => ClosedBy(i) = None
    OBVIOUS
  <1>3. resent = {} /\ ClosedBy(i) = None => \A t : orResent(t) = None
    BY DEF ResentAfter, Earliest, Recorded
  <1>4. Failed(b) <=> check # None \/ b.status = "FAILED"
    BY DEF Failed
  <1> HIDE DEF b, ended, orResent, check
  <1>5. CASE check # None
    <2> DEFINE x == Issue("Merge check failed", "R", check, orResent(check))
    <2>1. BuildIssue(f, resent, i) = {x}
      BY <1>1, <1>5
    <2>2. x.kind = "Merge check failed" /\ x.band = "R" /\ x.closed = orResent(check)
      BY DEF Issue
    <2> HIDE DEF x
    <2> QED
      BY <1>2, <1>3, <1>4, <1>5, <2>1, <2>2 DEF LiveKinds, b
  <1>6. CASE check = None /\ b.status = "FAILED"
    <2> DEFINE x == Issue("Build failed", "R", ended, orResent(ended))
    <2>1. BuildIssue(f, resent, i) = {x}
      BY <1>1, <1>6
    <2>2. x.kind = "Build failed" /\ x.band = "R" /\ x.closed = orResent(ended)
      BY DEF Issue
    <2> HIDE DEF x
    <2> QED
      BY <1>2, <1>3, <1>4, <1>6, <2>1, <2>2 DEF LiveKinds, b
  <1>7. CASE check = None /\ b.status = "CANCELLED"
    <2> DEFINE x == Issue("Build cancelled", "A", ended, orResent(ended))
    <2>1. BuildIssue(f, resent, i) = {x}
      BY <1>1, <1>7
    <2>2. x.kind = "Build cancelled" /\ x.band = "A" /\ x.closed = orResent(ended)
      BY DEF Issue
    <2> HIDE DEF x
    <2> QED
      BY <1>2, <1>4, <1>7, <2>1, <2>2 DEF LiveKinds, b
  <1>8. CASE check = None /\ b.status = "INTERRUPTED"
    <2> DEFINE x == Issue("Build interrupted", "A", ended, ClosedBy(i))
    <2>1. BuildIssue(f, resent, i) = {x}
      BY <1>1, <1>8
    <2>2. x.kind = "Build interrupted" /\ x.band = "A" /\ x.closed = ClosedBy(i)
      BY DEF Issue
    <2> HIDE DEF x
    <2> QED
      BY <1>4, <1>8, <2>1, <2>2 DEF LiveKinds, b
  <1>9. CASE check = None /\ b.status \notin {"FAILED", "CANCELLED", "INTERRUPTED"}
    <2>1. BuildIssue(f, resent, i) = {}
      BY <1>1, <1>9
    <2> QED
      BY <1>4, <1>9, <2>1 DEF b
  <1> QED
    BY <1>5, <1>6, <1>7, <1>8, <1>9

(* A wait's issue, and a stall's, are live ones.                           *)
LEMMA WaitIssuesAre ==
    ASSUME NEW waits, \A w \in ToSet(waits) : w.kind \in LiveKinds
    PROVE  \A x \in WaitIssues(waits, now) :
              /\ x.kind \in LiveKinds
              /\ \E w \in ToSet(waits) : /\ x.kind = w.kind /\ x.opened = w.from /\ x.closed = w.to
                                         /\ x.band = Band(Norm.waiting, WaitSecs(w, now))
  <1> SUFFICES ASSUME NEW x \in WaitIssues(waits, now)
               PROVE  /\ x.kind \in LiveKinds
                      /\ \E w \in ToSet(waits) : /\ x.kind = w.kind /\ x.opened = w.from /\ x.closed = w.to
                                                 /\ x.band = Band(Norm.waiting, WaitSecs(w, now))
    OBVIOUS
  <1>1. PICK w \in ToSet(waits) : x = Issue(w.kind, Band(Norm.waiting, WaitSecs(w, now)), w.from, w.to)
    BY DEF WaitIssues
  <1>2. x.kind = w.kind /\ x.opened = w.from /\ x.closed = w.to /\ x.band = Band(Norm.waiting, WaitSecs(w, now))
    BY <1>1 DEF Issue
  <1> QED
    BY <1>2

LEMMA WaitKindsLive ==
    ASSUME TypeOK
    PROVE  /\ \A w \in ToSet(FeatureWaits(f)) : w.kind \in LiveKinds
           /\ \A b \in Builds(now) : \A w \in ToSet(BuildWaits(b, TRUE)) : w.kind \in LiveKinds
  <1>1. WaitKinds \subseteq LiveKinds
    BY DEF WaitKinds, LiveKinds
  <1>2. \A w \in ToSet(FeatureWaits(f)) : w.kind \in WaitKinds
    BY FeatureWaitsAre DEF AWait
  <1>3. ASSUME NEW b \in Builds(now), NEW w \in ToSet(BuildWaits(b, TRUE)) PROVE w.kind \in WaitKinds
    <2> DEFINE s == BuildWaits(b, TRUE)
    <2>1. s \in Seq(AWait(WaitKinds, Times(now))) /\ w \in ToSet(s)
      BY <1>3, BuildWaitsAre DEF Waits
    <2> HIDE DEF s
    <2>2. w \in AWait(WaitKinds, Times(now))
      BY <2>1, LenProperties DEF ToSet
    <2> QED
      BY <2>2 DEF AWait
  <1> QED
    BY <1>1, <1>2, <1>3

LEMMA StallIssueIs ==
    ASSUME NEW x \in StallIssue(f, now)
    PROVE  x.kind \in LiveKinds /\ x.band = QuietSpell(f, now).band /\ x.band # "G" /\ QuietSpell(f, now) # None
  <1> DEFINE q == QuietSpell(f, now)
  <1>1. x = Issue("Stalled", q.band, q.since, None) /\ q # None /\ q.band # "G"
    BY DEF StallIssue
  <1> HIDE DEF q
  <1>2. x.kind = "Stalled" /\ x.band = q.band
    BY <1>1 DEF Issue
  <1> QED
    BY <1>1, <1>2 DEF LiveKinds, q

LEMMA PlanningIssueIs ==
    /\ Standing(f).outcome # "planning_failed" => PlanningIssue(f, resent, now) = {}
    /\ \A x \in PlanningIssue(f, resent, now) : x.kind \notin LiveKinds /\ x.band = "R"
    /\ Standing(f).outcome = "planning_failed" /\ resent = {} =>
          \E x \in PlanningIssue(f, resent, now) : x.closed = None
  <1> DEFINE when == FirstRecorded(<<f.planning.completed, f.planning.queued, now>>)
             issue == Issue("Planning failed", "R", when, ResentAfter(resent, when))
  <1>1. PlanningIssue(f, resent, now) = IF Standing(f).outcome # "planning_failed" THEN {} ELSE {issue}
    BY DEF PlanningIssue
  <1>2. resent = {} => ResentAfter(resent, when) = None
    BY DEF ResentAfter, Earliest, Recorded
  <1>3. issue.kind = "Planning failed" /\ issue.band = "R" /\ issue.closed = ResentAfter(resent, when)
    BY DEF Issue
  <1> HIDE DEF issue
  <1> QED
    BY <1>1, <1>2, <1>3 DEF LiveKinds

(* Which outcomes are failures.                                            *)
LEMMA BuildOutcome ==
    ASSUME TypeOK, NEW b \in Builds(now), NEW mission, NEW open
    PROVE  /\ WhereBuild(b, mission, open).outcome \in Failures <=> Failed(b)
           /\ WhereBuild(b, mission, open).outcome # "planning_failed"
           /\ b.status \in {"CANCELLED", "INTERRUPTED"} =>
                 WhereBuild(b, mission, open).outcome \notin Unfinished \cup {"delivered"}
  <1>1. b.status \in BuildActive \cup BuildBroken \cup {"COMPLETE"}
    BY BuildFields
  <1> QED
    BY <1>1 DEF Stands, Going, WhereBuild, Failed, Failures, Unfinished, BuildActive, BuildBroken

LEMMA PlanningOutcome ==
    ASSUME NEW run, NEW open
    PROVE  WherePlanning(run, open).outcome \in Failures <=> WherePlanning(run, open).outcome = "planning_failed"
  BY DEF Stands, Going, WherePlanning, Failures

LEMMA QueueOutcome ==
    ASSUME NEW item
    PROVE  WhereQueue(item).outcome \notin Failures
  BY DEF Stands, Going, WhereQueue, Failures

(* A feature that was delivered, that has builds, and that has none yet.   *)
LEMMA OutcomeIs ==
    ASSUME TypeOK
    PROVE  /\ DeliveredAt(f) # None => Standing(f).outcome = "delivered"
           /\ DeliveredAt(f) = None /\ f.builds # <<>> =>
                 /\ f.builds[Len(f.builds)] \in Builds(now) /\ Len(f.builds) \in DOMAIN f.builds
                 /\ Standing(f).outcome # "planning_failed"
                 /\ Standing(f).outcome \in Failures <=> Failed(f.builds[Len(f.builds)])
                 /\ f.builds[Len(f.builds)].status \in {"CANCELLED", "INTERRUPTED"} =>
                       Standing(f).outcome \notin Unfinished \cup {"delivered"}
           /\ DeliveredAt(f) = None /\ f.builds = <<>> =>
                 (Standing(f).outcome \in Failures <=> Standing(f).outcome = "planning_failed")
  <1>1. DeliveredAt(f) # None => Standing(f).outcome = "delivered"
    BY DEF Stands, Going, Standing
  <1> DEFINE open == OpenWait(FeatureWaits(f))
             b == LastRow(f.builds)
  <1>2. ASSUME DeliveredAt(f) = None, f.builds # <<>>
        PROVE  Standing(f) = WhereBuild(b, f.mission, open) /\ b \in Builds(now) /\ b = f.builds[Len(f.builds)]
               /\ Len(f.builds) \in DOMAIN f.builds
    <2>1. Len(f.builds) \in DOMAIN f.builds
      <3> DEFINE bs == f.builds
      <3>1. bs \in Seq(Builds(now)) /\ bs # <<>>
        BY <1>2, FeatureFields
      <3> HIDE DEF bs
      <3>2. Len(bs) \in DOMAIN bs
        BY <3>1, EmptySeq, LenProperties
      <3> QED
        BY <3>2 DEF bs
    <2> QED
      BY <1>2, <2>1, FeatureFields DEF Standing, Where, LastRow
  <1>3. ASSUME DeliveredAt(f) = None, f.builds = <<>>
        PROVE  Standing(f) = IF f.planning # None THEN WherePlanning(f.planning, open) ELSE WhereQueue(f.queue)
    BY <1>3 DEF Standing, Where
  <1> HIDE DEF open, b
  <1>4. ASSUME DeliveredAt(f) = None, f.builds # <<>>
        PROVE  /\ Standing(f).outcome # "planning_failed"
               /\ Standing(f).outcome \in Failures <=> Failed(b)
               /\ b.status \in {"CANCELLED", "INTERRUPTED"} => Standing(f).outcome \notin Unfinished \cup {"delivered"}
    BY <1>2, <1>4, BuildOutcome
  <1>5. ASSUME DeliveredAt(f) = None, f.builds = <<>>
        PROVE  Standing(f).outcome \in Failures <=> Standing(f).outcome = "planning_failed"
    <2>1. CASE f.planning # None
      BY <1>3, <1>5, <2>1, PlanningOutcome
    <2>2. CASE f.planning = None
      <3>1. Standing(f).outcome \notin Failures
        BY <1>3, <1>5, <2>2, QueueOutcome
      <3> QED
        BY <3>1 DEF Failures
    <2> QED
      BY <2>1, <2>2
  <1> QED
    BY <1>1, <1>2, <1>4, <1>5

(* The issues of a feature, one by one (issues.find_issues).                *)
LEMMA IssuesAre ==
    ASSUME NEW x
    PROVE  x \in Issues <=> \/ \E i \in DOMAIN f.builds : x \in BuildIssue(f, resent, i)
                            \/ x \in PlanningIssue(f, resent, now)
                            \/ x \in WaitIssues(FeatureWaits(f), now)
                            \/ x \in StallIssue(f, now)
  <1>1. x \in FeatureIssues(f, resent, now)
            <=> \/ x \in UNION {BuildIssue(f, resent, i) : i \in DOMAIN f.builds}
                \/ x \in PlanningIssue(f, resent, now)
                \/ x \in WaitIssues(FeatureWaits(f), now)
                \/ x \in StallIssue(f, now)
    BY DEF FeatureIssues
  <1>2. x \in UNION {BuildIssue(f, resent, i) : i \in DOMAIN f.builds}
            <=> \E i \in DOMAIN f.builds : x \in BuildIssue(f, resent, i)
    OBVIOUS
  <1> QED
    BY <1>1, <1>2 DEF Issues

LEMMA FeatureIsBlamed ==
    ASSUME TypeOK, resent = {}
    PROVE  Standing(f).outcome \in Failures <=> Blamed(Issues)
  <1> DEFINE blames(x) == x.closed = None /\ x.band = "R" /\ x.kind \notin LiveKinds
  <1>1. Blamed(Issues) <=> \E x \in Issues : blames(x)
    BY DEF Blamed, StillOpen
  <1>2. \A x \in WaitIssues(FeatureWaits(f), now) : ~blames(x)
    BY WaitIssuesAre, WaitKindsLive
  <1>3. \A x \in StallIssue(f, now) : ~blames(x)
    BY StallIssueIs
  <1>4. (\E x \in PlanningIssue(f, resent, now) : blames(x)) <=> Standing(f).outcome = "planning_failed"
    BY PlanningIssueIs
  <1>5. \A i \in DOMAIN f.builds :
            (\E x \in BuildIssue(f, resent, i) : blames(x)) <=> ClosedBy(i) = None /\ Failed(f.builds[i])
    BY BuildIssueIs
  <1>6. \A x : x \in Issues <=> \/ \E i \in DOMAIN f.builds : x \in BuildIssue(f, resent, i)
                              \/ x \in PlanningIssue(f, resent, now)
                              \/ x \in WaitIssues(FeatureWaits(f), now)
                              \/ x \in StallIssue(f, now)
    BY IssuesAre
  <1> HIDE DEF blames
  <1>7. Blamed(Issues) <=> \/ Standing(f).outcome = "planning_failed"
                           \/ \E i \in DOMAIN f.builds : ClosedBy(i) = None /\ Failed(f.builds[i])
    BY <1>1, <1>2, <1>3, <1>4, <1>5, <1>6
  <1>8. Blamed(Issues) <=> \/ Standing(f).outcome = "planning_failed"
                           \/ \E i \in DOMAIN f.builds : /\ i = Len(f.builds) /\ DeliveredAt(f) = None
                                                         /\ Failed(f.builds[i])
    BY <1>7, ClosedIs
  <1>9. CASE DeliveredAt(f) # None
    <2>1. Standing(f).outcome = "delivered"
      BY <1>9, OutcomeIs
    <2> QED
      BY <1>8, <1>9, <2>1 DEF Failures
  <1>10. CASE DeliveredAt(f) = None /\ f.builds # <<>>
    <2>1. /\ Len(f.builds) \in DOMAIN f.builds /\ Standing(f).outcome # "planning_failed"
          /\ Standing(f).outcome \in Failures <=> Failed(f.builds[Len(f.builds)])
      BY <1>10, OutcomeIs
    <2> QED
      BY <1>8, <1>10, <2>1
  <1>11. CASE DeliveredAt(f) = None /\ f.builds = <<>>
    <2>1. Standing(f).outcome \in Failures <=> Standing(f).outcome = "planning_failed"
      BY <1>11, OutcomeIs
    <2>2. DOMAIN <<>> = {}
      OBVIOUS
    <2> QED
      BY <1>8, <1>11, <2>1, <2>2
  <1> QED
    BY <1>9, <1>10, <1>11

LEMMA MissionIsBlamed ==
    ASSUME RecordInv, Merges # <<>>
    PROVE  MergeCheckFailed(f.mission.merge) # None <=> Blamed(MissionIssues(f.mission, Merges, now))
  <1> DEFINE m == f.mission
             b == f.mission.merge
             merges == <<b>>
             steps == OfKind(b.stages, MergeSteps)
             n == Len(steps)
             failed == {j \in DOMAIN steps : steps[j].kind = "merge_failed"}
             closes(j) == IF j < n THEN steps[j + 1].at ELSE None
             issue(j) == Issue("Merge check failed", "R", steps[j].at, closes(j))
             waits == WaitIssues(BuildWaits(b, TRUE), now)
  <1>1. m # None /\ b # None /\ Merges = merges /\ b \in Builds(now) /\ b.status = "COMPLETE" /\ TypeOK
    BY MissionFields DEF Merges, RecordInv, MergeDone
  <1>2. steps \in Seq(Stages(now))
    <2> DEFINE rows == b.stages
    <2>1. rows \in Seq(Stages(now))
      BY <1>1, BuildFields
    <2> HIDE DEF rows
    <2>2. OfKind(rows, MergeSteps) \in Seq(Stages(now))
      BY <2>1, OfKindType
    <2> QED
      BY <2>2 DEF rows
  <1>3. MergeIssues(m, merges, 1) = {issue(j) : j \in failed}
    <2> DEFINE next == IF 1 < Len(merges) THEN merges[1 + 1].queued ELSE None
               all(c) == OfKind(c.stages, MergeSteps)
               bad(c) == {j \in DOMAIN all(c) : all(c)[j].kind = "merge_failed"}
               until(c, j) == IF j < Len(all(c)) THEN all(c)[j + 1].at ELSE next
               when(c) == FirstRecorded(<<c.completed, c.queued, m.created>>)
               made(c) == IF bad(c) = {} /\ c.status = "FAILED"
                          THEN {Issue("Merge check failed", "R", when(c), next)}
                          ELSE {Issue("Merge check failed", "R", all(c)[j].at, until(c, j)) : j \in bad(c)}
    <2>1. MergeIssues(m, merges, 1) = made(merges[1])
      BY DEF MergeIssues
    <2>2. merges[1] = b /\ next = None
      OBVIOUS
    <2> HIDE DEF merges, next
    <2>3. made(b) = {Issue("Merge check failed", "R", all(b)[j].at, until(b, j)) : j \in bad(b)}
      BY <1>1
    <2>4. bad(b) = failed /\ \A j : Issue("Merge check failed", "R", all(b)[j].at, until(b, j)) = issue(j)
      BY <2>2
    <2> QED
      BY <2>1, <2>2, <2>3, <2>4
  <1>4. MissionIssues(m, merges, now) = waits \cup {issue(j) : j \in failed}
    <2>1. DOMAIN merges = {1}
      OBVIOUS
    <2>2. UNION {MergeIssues(m, merges, i) : i \in DOMAIN merges} = MergeIssues(m, merges, 1)
      BY <2>1
    <2> QED
      BY <1>1, <1>3, <2>2 DEF MissionIssues
  <1>5. \A x \in waits : x.kind \in LiveKinds
    BY <1>1, WaitIssuesAre, WaitKindsLive
  <1>6. \A j : issue(j).kind = "Merge check failed" /\ issue(j).band = "R" /\ issue(j).closed = closes(j)
    BY DEF Issue
  <1>7. MergeCheckFailed(b) = IF steps # <<>> /\ LastRow(steps).kind = "merge_failed" THEN LastRow(steps).at ELSE None
    BY DEF MergeCheckFailed
  <1> HIDE DEF steps, issue, waits, merges
  <1>8. /\ n \in Nat /\ DOMAIN steps = 1..n /\ (steps # <<>> <=> n # 0)
        /\ \A j \in 1..n : steps[j].at \in Times(now)
    <2>1. n \in Nat /\ DOMAIN steps = 1..n /\ (steps # <<>> => n # 0) /\ \A j \in 1..n : steps[j] \in Stages(now)
      BY <1>2, EmptySeq, LenProperties
    <2>2. steps = <<>> => n = 0
      OBVIOUS
    <2> QED
      BY <2>1, <2>2 DEF Stages
  <1>9. None \notin Times(now)
    BY RecordAssumption DEF Times
  <1>10. LastRow(steps) = steps[n]
    BY DEF LastRow
  <1> HIDE DEF n
  <1>11. \A j \in 1..n : closes(j) = None <=> j = n
    <2>1. ASSUME NEW j \in 1..n, j < n PROVE steps[j + 1].at # None
      <3>1. j + 1 \in 1..n
        BY <1>8, <2>1
      <3> QED
        BY <1>8, <1>9, <3>1
    <2> QED
      BY <1>8, <2>1
  <1> HIDE DEF closes
  <1>12. Blamed(MissionIssues(m, merges, now)) <=> \E j \in failed : closes(j) = None
    <2>1. "Merge check failed" \notin LiveKinds
      BY DEF LiveKinds
    <2>2. Blamed(MissionIssues(m, merges, now)) <=>
              \E x \in waits \cup {issue(j) : j \in failed} : x.closed = None /\ x.band = "R" /\ x.kind \notin LiveKinds
      BY <1>4 DEF Blamed, StillOpen
    <2> QED
      BY <1>5, <1>6, <2>1, <2>2
  <1>13. (\E j \in failed : closes(j) = None) <=> n # 0 /\ steps[n].kind = "merge_failed"
    <2>1. n # 0 => n \in 1..n
      BY <1>8
    <2>2. \A j \in failed : j \in 1..n /\ steps[j].kind = "merge_failed" /\ n # 0
      BY <1>8
    <2> QED
      BY <1>8, <1>11, <2>1, <2>2
  <1>14. MergeCheckFailed(b) # None <=> n # 0 /\ steps[n].kind = "merge_failed"
    <2>1. n # 0 => steps[n].at # None
      <3>1. n # 0 => n \in 1..n
        BY <1>8
      <3> QED
        BY <1>8, <1>9, <3>1
    <2> QED
      BY <1>7, <1>8, <1>10, <2>1
  <1> QED
    BY <1>1, <1>12, <1>13, <1>14

(* A feature that ended in a failure has an open issue that says so, until *)
(* the same request is sent again, and no other feature has one; the same  *)
(* of a mission whose own merge failed last (issues.find_issues against    *)
(* factory._where).                                                        *)
THEOREM FailuresHaveIssues == Spec => []FailureHasIssue
  <1>1. RecordInv => FailureHasIssue
    BY FeatureIsBlamed, MissionIsBlamed DEF FailureHasIssue, RecordInv
  <1> QED
    BY <1>1, RecordInvariant, PTL

-----------------------------------------------------------------------------
(* A feature that is on track: its signals against its issues.             *)

LEMMA WaitTimes ==
    ASSUME TypeOK, NEW x \in ToSet(FeatureWaits(f))
    PROVE  x.kind \in WaitKinds /\ x.from \in Times(now) /\ x.to \in Times(now) \cup {None}
  <1>1. /\ x \in AWait(WaitKinds, Times(now))
        /\ \/ f.planning # None /\ x \in ToSet(DoorWalk(f.planning, "spec"))
           \/ \E i \in DOMAIN f.builds : \/ x \in ToSet(GateWalk(f.builds[i]))
                                         \/ x \in ToSet(MergeWalk(f.builds[i], i = Len(f.builds)))
    BY FeatureWaitsAre
  <1>2. /\ None \notin Times(now)
        /\ \A i \in DOMAIN f.builds : /\ GateRows(f.builds[i]) \in Seq(WalkRow(Times(now)))
                                      /\ OfferRows(f.builds[i]) \in Seq(WalkRow(Times(now)))
        /\ f.planning # None => DoorRows(f.planning, "spec") \in Seq(WalkRow(Times(now)))
    BY RowsWalked, FeatureFields
  <1> DEFINE times == Times(now)
             gate == "build approval"
             merge == "merge decision"
             door == "spec approval"
  <1>3. x.from \in times
    <2>1. CASE f.planning # None /\ x \in ToSet(DoorWalk(f.planning, "spec"))
      <3> DEFINE rows == DoorRows(f.planning, "spec")
                 still == f.planning.state \in PlanningActive
      <3>1. x \in ToSet(Walk(rows, still, door)) /\ rows \in Seq(WalkRow(times)) /\ None \notin times
        BY <1>2, <2>1 DEF DoorWalk
      <3> HIDE DEF rows, still, door, times
      <3> QED
        BY <3>1, WalkWaits
    <2>2. CASE \E i \in DOMAIN f.builds : x \in ToSet(GateWalk(f.builds[i]))
      <3> PICK i \in DOMAIN f.builds : x \in ToSet(GateWalk(f.builds[i]))
        BY <2>2
      <3> DEFINE rows == GateRows(f.builds[i])
                 still == f.builds[i].status = "PAUSED"
      <3>1. x \in ToSet(Walk(rows, still, gate)) /\ rows \in Seq(WalkRow(times)) /\ None \notin times
        BY <1>2 DEF GateWalk
      <3> HIDE DEF rows, still, gate, times
      <3> QED
        BY <3>1, WalkWaits
    <2>3. CASE \E i \in DOMAIN f.builds : x \in ToSet(MergeWalk(f.builds[i], i = Len(f.builds)))
      <3> PICK i \in DOMAIN f.builds : x \in ToSet(MergeWalk(f.builds[i], i = Len(f.builds)))
        BY <2>3
      <3> DEFINE rows == OfferRows(f.builds[i])
                 still == i = Len(f.builds) /\ f.builds[i].status \notin BuildBroken \cup {"SKIPPED"}
      <3>1. x \in ToSet(Walk(rows, still, merge)) /\ rows \in Seq(WalkRow(times)) /\ None \notin times
        BY <1>2 DEF MergeWalk
      <3> HIDE DEF rows, still, merge, times
      <3> QED
        BY <3>1, WalkWaits
    <2> QED
      BY <1>1, <2>1, <2>2, <2>3
  <1> QED
    BY <1>1, <1>3 DEF AWait

LEMMA MaxOfTwo ==
    ASSUME NEW x \in Int
    PROVE  Max({0, x}) = IF x <= 0 THEN 0 ELSE x
  <1> DEFINE T == {0, x}
             top == IF x <= 0 THEN 0 ELSE x
  <1>1. top \in T /\ \A y \in T : top >= y
    OBVIOUS
  <1>2. \A z \in T : (\A y \in T : z >= y) => z = top
    OBVIOUS
  <1> HIDE DEF T, top
  <1>3. Max(T) = top
    BY <1>1, <1>2 DEF Max
  <1> QED
    BY <1>3 DEF T, top

LEMMA WaitSecsIs ==
    ASSUME TypeOK, NEW x \in ToSet(FeatureWaits(f))
    PROVE  WaitSecs(x, now) \in 0..now + 1
  <1> DEFINE d == (IF x.to = None THEN now ELSE x.to) - x.from
  <1>1. now \in Nat /\ x.from \in -1..now /\ (x.to = None \/ x.to \in -1..now)
    BY WaitTimes, FeatureFields DEF Times
  <1>2. d \in Int /\ d <= now + 1
    BY <1>1
  <1>3. WaitSecs(x, now) = Max({0, d})
    BY DEF WaitSecs
  <1> HIDE DEF d
  <1>4. Max({0, d}) = IF d <= 0 THEN 0 ELSE d
    BY <1>2, MaxOfTwo
  <1> QED
    BY <1>1, <1>2, <1>3, <1>4

(* No wait is longer than the longest.                                     *)
LEMMA LongestIs ==
    ASSUME TypeOK, NEW x \in ToSet(FeatureWaits(f))
    PROVE  /\ LongestWait(FeatureWaits(f), now) \in Int
           /\ WaitSecs(x, now) <= LongestWait(FeatureWaits(f), now)
  <1> DEFINE waits == FeatureWaits(f)
             secs(w) == WaitSecs(w, now)
             T == {secs(w) : w \in ToSet(waits)}
             n == now + 1
  <1>1. n \in Nat
    BY FeatureFields
  <1>2. \A w \in ToSet(waits) : secs(w) \in 0..n
    BY WaitSecsIs
  <1>3. waits # <<>>
    BY EmptySeq DEF ToSet
  <1>4. LongestWait(waits, now) = Max(T)
    BY <1>3 DEF LongestWait
  <1>5. secs(x) \in T /\ T \subseteq 0..n
    BY <1>2
  <1> DEFINE top == Max(T)
             mine == secs(x)
  <1>6. top \in T /\ \A y \in T : y <= top
    <2> HIDE DEF T, n
    <2> QED
      BY <1>1, <1>5, MaxIs
  <1>7. top \in 0..n /\ mine <= top
    BY <1>5, <1>6
  <1>8. LongestWait(FeatureWaits(f), now) = top /\ WaitSecs(x, now) = mine
    BY <1>4
  <1> HIDE DEF top, mine, n
  <1> QED
    BY <1>1, <1>7, <1>8

LEMMA BandIs ==
    ASSUME NEW norm \in [green : Int, amber : Int], NEW v \in Int, NEW u \in Int, u <= v, Band(norm, v) = "G"
    PROVE  Band(norm, u) = "G"
  <1>1. norm.green \in Int /\ v <= norm.green
    BY DEF Band
  <1> QED
    BY <1>1 DEF Band

LEMMA OnTrackIs ==
    ASSUME OnTrack(f, now) = "G"
    PROVE  /\ Standing(f).outcome \notin Failures /\ Standing(f).outcome \in Unfinished \cup {"delivered"}
           /\ Signals(f, now).stall \notin {"A", "R"} /\ Signals(f, now).waiting \notin {"A", "R"}
  <1> DEFINE signals == Signals(f, now)
             outcome == Standing(f).outcome
             bands == {signals[s] : s \in DOMAIN signals} \ {"gap"}
  <1>1. OnTrack(f, now) = IF outcome \in Failures THEN "R"
                          ELSE IF outcome \notin Unfinished \cup {"delivered"} \/ bands = {} THEN "gap"
                          ELSE Worst(bands)
    BY DEF OnTrack, Shown
  <1>2. outcome \notin Failures /\ outcome \in Unfinished \cup {"delivered"} /\ Worst(bands) = "G"
    BY <1>1
  <1>3. "A" \notin bands /\ "R" \notin bands
    BY <1>2 DEF Worst
  <1>4. {"stall", "waiting"} \subseteq DOMAIN signals
    BY DEF Signals
  <1>5. signals["stall"] = signals.stall /\ signals["waiting"] = signals.waiting
    OBVIOUS
  <1> HIDE DEF signals
  <1>6. signals["stall"] \notin {"A", "R"} /\ signals["waiting"] \notin {"A", "R"}
    BY <1>3, <1>4
  <1> QED
    BY <1>2, <1>5, <1>6 DEF signals

LEMMA OnTrackIsGreen ==
    ASSUME TypeOK, OnTrack(f, now) = "G", NEW x \in Issues, x.closed = None
    PROVE  x.band = "G"
  <1> DEFINE outcome == Standing(f).outcome
             signals == Signals(f, now)
  <1>1. outcome \notin Failures /\ outcome \in Unfinished \cup {"delivered"}
    BY OnTrackIs
  <1>2. signals.stall \notin {"A", "R"} /\ signals.waiting \notin {"A", "R"}
    BY OnTrackIs
  <1>3. signals.stall = Stall(f, now)
        /\ signals.waiting = Measured(Norm.waiting, LongestWait(FeatureWaits(f), now))
    BY DEF Signals
  <1> HIDE DEF signals
  <1>4. ASSUME NEW i \in DOMAIN f.builds, x \in BuildIssue(f, resent, i) PROVE FALSE
    <2>1. ClosedBy(i) = None /\ (Failed(f.builds[i]) \/ f.builds[i].status \in {"CANCELLED", "INTERRUPTED"})
      BY <1>4, BuildIssueIs
    <2>2. i = Len(f.builds) /\ DeliveredAt(f) = None
      BY <2>1, ClosedIs
    <2>3. f.builds # <<>>
      OBVIOUS
    <2> QED
      BY <1>1, <2>1, <2>2, <2>3, OutcomeIs
  <1>5. x \notin PlanningIssue(f, resent, now)
    <2>1. outcome # "planning_failed"
      BY <1>1 DEF Failures
    <2> QED
      BY <2>1, PlanningIssueIs
  <1>6. ASSUME x \in WaitIssues(FeatureWaits(f), now) PROVE x.band = "G"
    <2> DEFINE longest == LongestWait(FeatureWaits(f), now)
               norm == Norm.waiting
               here(w) == WaitSecs(w, now)
    <2>1. PICK w \in ToSet(FeatureWaits(f)) : x.band = Band(norm, here(w))
      BY <1>6, WaitIssuesAre, WaitKindsLive
    <2>2. here(w) \in 0..now + 1 /\ now \in Nat
      BY WaitSecsIs, FeatureFields
    <2>3. longest \in Int /\ here(w) <= longest
      BY LongestIs
    <2>4. norm \in [green : Int, amber : Int]
      BY NormAssumption DEF Signaled
    <2> HIDE DEF longest, norm, here
    <2>5. longest # None /\ here(w) \in Int
      BY <2>2, <2>3, RecordAssumption
    <2>6. signals.waiting = Band(norm, longest)
      BY <1>3, <2>5 DEF Measured, longest, norm
    <2>7. Band(norm, longest) = "G"
      BY <1>2, <2>6 DEF Band
    <2>8. Band(norm, here(w)) = "G"
      BY <2>3, <2>4, <2>5, <2>7, BandIs
    <2> QED
      BY <2>1, <2>8
  <1>7. x \notin StallIssue(f, now)
    <2> SUFFICES ASSUME x \in StallIssue(f, now) PROVE FALSE
      OBVIOUS
    <2> DEFINE q == QuietSpell(f, now)
    <2>1. q # None /\ q.band # "G"
      BY StallIssueIs
    <2>2. outcome = "in_progress" /\ OpenWait(FeatureWaits(f)) = None
      BY <2>1 DEF QuietSpell
    <2>3. \E norm, v : q.band = Band(norm, v)
      BY <2>1 DEF QuietSpell
    <2> HIDE DEF q
    <2>4. Stall(f, now) = q.band
      <3>1. InProgress(f)
        BY <2>2 DEF InProgress, Unfinished
      <3>2. Stall(f, now) = StallSignal(q)
        BY <2>2, <3>1 DEF Stall, q
      <3> QED
        BY <2>1, <3>2 DEF StallSignal
    <2> QED
      BY <1>2, <1>3, <2>1, <2>3, <2>4 DEF Band
  <1> QED
    BY <1>4, <1>5, <1>6, <1>7, IssuesAre

(* A feature shown as on track has no open issue beyond green: the signals *)
(* and the issues, worked out apart, agree (norms.on_track, issues.py).    *)
THEOREM OnTrackIsClean == Spec => []OnTrackHasNoIssue
  <1>1. RecordInv => OnTrackHasNoIssue
    BY OnTrackIsGreen DEF OnTrackHasNoIssue, StillOpen, RecordInv
  <1> QED
    BY <1>1, RecordInvariant, PTL

-----------------------------------------------------------------------------
(* An open wait has a card that is open.                                   *)

(* What an open wait says of the rows it was worked out from.              *)
LEMMA OpenMarked ==
    ASSUME NEW S, NEW times, None \notin times, \A r \in S : r.at \in times, NEW rows \in Seq(S), NEW opens,
           NEW closes, NEW gated, NEW kind, NEW still,
           NEW x \in ToSet(Walk(Marked(rows, opens, closes, gated), still, kind)), x.to = None
    PROVE  /\ still /\ x.kind = kind
           /\ \E b \in DOMAIN rows : /\ rows[b].kind \in opens
                                     /\ \A k \in DOMAIN rows : b <= k => rows[k].kind \in opens \/ rows[k].kind \notin closes
  <1> DEFINE marks == Marked(rows, opens, closes, gated)
  <1>1. /\ marks \in Seq(WalkRow(times)) /\ Len(marks) = Len(rows)
        /\ \A i \in 1..Len(rows) : /\ marks[i].opens <=> rows[i].kind \in opens
                                   /\ marks[i].closes <=> rows[i].kind \in closes
    BY MarkedIn
  <1>2. x \in ToSet(Walk(marks, still, kind))
    OBVIOUS
  <1> HIDE DEF marks
  <1>3. /\ still
        /\ \E b \in DOMAIN marks : /\ marks[b].opens
                                   /\ \A k \in DOMAIN marks : b <= k => marks[k].opens \/ ~marks[k].closes
    BY <1>1, <1>2, OpenWalk
  <1>4. x.kind = kind
    BY <1>1, <1>2, WalkWaits
  <1>5. DOMAIN rows = 1..Len(rows) /\ DOMAIN marks = 1..Len(rows)
    BY <1>1, LenProperties
  <1> QED
    BY <1>1, <1>3, <1>4, <1>5

LEMMA RowTimes ==
    ASSUME TypeOK
    PROVE  None \notin Times(now) /\ (\A r \in Stages(now) : r.at \in Times(now)) /\ \A e \in Events(now) : e.at \in Times(now)
  <1>1. None \notin Times(now)
    BY RecordAssumption DEF Times
  <1> QED
    BY <1>1 DEF Stages, Events

LEMMA DoorRowKinds ==
    ASSUME TypeOK, f.planning # None, NEW i \in DOMAIN DoorEvents(f.planning, "spec")
    PROVE  /\ "spec" \in Doors
           /\ DoorEvents(f.planning, "spec")[i] \in Events(now)
           /\ DoorEvents(f.planning, "spec")[i].kind \in {e.kind : e \in ToSet(f.planning.events)}
  <1> DEFINE events == f.planning.events
             places == {j \in DOMAIN events : events[j].door = "spec"}
             rows == RowsAt(events, places)
             S == ToSet(events)
  <1>1. events \in Seq(Events(now)) /\ DoorEvents(f.planning, "spec") = rows
    BY RunFields DEF DoorEvents
  <1>2. Len(events) \in Nat /\ DOMAIN events = 1..Len(events) /\ \A j \in 1..Len(events) : events[j] \in Events(now)
    BY <1>1, LenProperties
  <1>3. \A j \in 1..Len(events) : events[j] \in S
    BY <1>2 DEF ToSet
  <1>4. events \in Seq(S)
    BY <1>1, <1>2, <1>3
  <1> HIDE DEF places, S, events
  <1>5. rows \in Seq(S) /\ rows \in Seq(Events(now))
    BY <1>1, <1>4, RowsAtType
  <1>6. i \in DOMAIN rows
    BY <1>1
  <1>7. rows # <<>>
    <2>1. DOMAIN <<>> = {}
      OBVIOUS
    <2> HIDE DEF rows
    <2> QED
      BY <1>6, <2>1
  <1>8. places \cap (1..Len(events)) # {}
    BY <1>1, <1>7, RowsAtEmpty
  <1>9. PICK j \in 1..Len(events) : events[j].door = "spec"
    BY <1>8 DEF places
  <1>10. "spec" \in Doors
    BY <1>2, <1>9 DEF Events
  <1> HIDE DEF rows
  <1>11. rows[i] \in S /\ rows[i] \in Events(now)
    BY <1>5, <1>6, LenProperties
  <1> QED
    BY <1>1, <1>10, <1>11 DEF S, events

LEMMA DoorWaitHasCard ==
    ASSUME RecordInv, f.planning # None, NEW x \in ToSet(DoorWalk(f.planning, "spec")), x.to = None
    PROVE  x.kind = "spec approval" /\ \E c \in DoorCard(f.planning, "spec") : c.open /\ c.kind = "spec"
  <1> DEFINE rows == DoorEvents(f.planning, "spec")
             kinds == {e.kind : e \in ToSet(f.planning.events)}
             opens == {"GATED", "PAUSED"}
             closes == kinds \ opens
             still == f.planning.state \in PlanningActive
             kind == "spec approval"
             n == Len(rows)
             asked == Asked(f.planning, "spec")
  <1>1. TypeOK /\ DoorAsked(f.planning, "spec")
    BY DEF RecordInv, RunAsked
  <1>2. rows \in Seq(Events(now)) /\ x \in ToSet(Walk(Marked(rows, opens, closes, opens), still, kind))
    BY <1>1, RunFields DEF DoorWalk, DoorRows
  <1>3. n \in Nat /\ DOMAIN rows = 1..n
    BY <1>2, LenProperties
  <1>4. \A i \in DOMAIN rows : rows[i] \in Events(now) /\ rows[i].kind \in kinds /\ "spec" \in Doors
    BY <1>1, DoorRowKinds
  <1>5. \A i \in DOMAIN rows : rows[i].kind \in DoorOpen => rows[i].req \in asked
    BY <1>1 DEF DoorAsked
  <1>6. asked = {<<"spec", k>> : k \in 0 .. Cardinality(asked) - 1} /\ IsFiniteSet(asked)
    BY <1>1 DEF DoorAsked
  <1>7. Cardinality(asked) \in Nat
    BY <1>6, FS_CardinalityType
  <1> DEFINE times == Times(now)
             S == Events(now)
  <1>8. None \notin times /\ \A r \in S : r.at \in times
    BY <1>1, RowTimes
  <1>9. /\ still /\ x.kind = kind
        /\ \E b \in DOMAIN rows : /\ rows[b].kind \in opens
                                  /\ \A k \in DOMAIN rows : b <= k => rows[k].kind \in opens \/ rows[k].kind \notin closes
    <2> HIDE DEF rows, opens, closes, still, kind, times, S, n
    <2>1. rows \in Seq(S)
      BY <1>2 DEF S
    <2> QED
      BY <1>2, <1>8, <2>1, OpenMarked
  <1>10. n \in DOMAIN rows /\ rows[n].kind \in opens
    <2> HIDE DEF rows, kinds, n, opens
    <2>1. PICK b \in DOMAIN rows :
                 \A k \in DOMAIN rows : b <= k => rows[k].kind \in opens \/ rows[k].kind \notin closes
      BY <1>9
    <2>2. n \in DOMAIN rows /\ b <= n
      BY <1>3, <2>1
    <2> QED
      BY <1>4, <2>1, <2>2
  <1>11. rows[n].kind = "GATED"
    <2>1. rows[n].kind \in opens /\ rows[n] \in Events(now)
      BY <1>4, <1>10
    <2> QED
      BY <2>1 DEF Events, DoorOpen
  <1>12. rows[n].req # None
    <2>1. rows[n].req \in asked /\ "spec" \in Doors
      BY <1>4, <1>5, <1>10, <1>11 DEF DoorOpen
    <2> DEFINE top == Cardinality(asked) - 1
               req == rows[n].req
    <2>2. req \in asked /\ top \in Int
      BY <1>7, <2>1
    <2> HIDE DEF top, req, asked
    <2>3. PICK k \in 0..top : req = <<"spec", k>>
      BY <1>6, <2>2 DEF top
    <2>4. k \in Nat
      BY <2>2, <2>3
    <2>5. req \in (Doors \cup {BuildGateStage, "budget"}) \X Nat
      BY <2>1, <2>3, <2>4
    <2>6. req # None
      BY <2>5, NoneAssumption
    <2> QED
      BY <2>6 DEF req
  <1> DEFINE all == Opens(rows)
             last == Max(all)
  <1>13. n \in all /\ all \subseteq 0..n
    BY <1>3, <1>10, <1>11, <1>12 DEF Opens, DoorOpen
  <1>14. last \in all /\ \A i \in all : i <= last
    <2> HIDE DEF all, rows, n
    <2> QED
      BY <1>3, <1>13, MaxIs
  <1>15. last = n
    <2> HIDE DEF all, last, rows, n
    <2> QED
      BY <1>3, <1>13, <1>14
  <1>16. all # {} /\ ~(last < n)
    <2> HIDE DEF all, last, rows, n
    <2> QED
      BY <1>3, <1>13, <1>15
  <1>17. f.planning.state \notin PlanningOver
    BY <1>9 DEF PlanningActive, PlanningOver
  <1> DEFINE req == rows[last].req
             shown == FirstShown(OfKind(rows, DoorOpen), req)
             card == OpenCard("spec", req, shown, TRUE)
  <1>18. DoorCard(f.planning, "spec") = IF all = {} THEN {}
             ELSE IF last < n THEN {DoorVerdict("spec", req, shown, rows[last + 1])}
             ELSE IF f.planning.state \in PlanningOver THEN {Unanswered("spec", req, shown, f.planning.completed)}
             ELSE {card}
    BY DEF DoorCard, Opens
  <1>19. card.open /\ card.kind = "spec"
    BY DEF OpenCard
  <1> HIDE DEF all, last, n, card
  <1> QED
    BY <1>9, <1>16, <1>17, <1>18, <1>19

LEMMA GateWaitHasCard ==
    ASSUME RecordInv, NEW i \in DOMAIN f.builds, NEW x \in ToSet(GateWalk(f.builds[i])), x.to = None
    PROVE  /\ x.kind = "build approval"
           /\ \E c \in GateCard(f.builds[i]) : c.open /\ c.kind \in {"build_gate", "paused"}
  <1> DEFINE b == f.builds[i]
             rows == b.stages
             still == b.status = "PAUSED"
             kind == "build approval"
             times == Times(now)
             S == Stages(now)
  <1>1. TypeOK /\ AskedAs(i, b)
    BY DEF RecordInv, BuildsAsked
  <1>2. b \in Builds(now) /\ rows \in Seq(S)
    BY <1>1, FeatureFields, BuildFields
  <1>3. None \notin times /\ \A r \in S : r.at \in times
    BY <1>1, RowTimes
  <1>4. x \in ToSet(Walk(Marked(rows, Paused, Resumed, Gated), still, kind))
    BY DEF GateWalk, GateRows
  <1>5. still /\ x.kind = kind
    <2> HIDE DEF rows, still, kind, times, S
    <2> QED
      BY <1>2, <1>3, <1>4, OpenMarked
  <1>6. b.pending # None
    BY <1>1, <1>5, NoneAssumption DEF AskedAs, Gates
  <1> HIDE DEF b
  <1> DEFINE pauses == OfKind(b.stages, Paused)
             kindOf(req) == IF StageOf(req) = BuildGateStage THEN "build_gate" ELSE "paused"
             shown == FirstRecorded(<<FirstShown(pauses, b.pending),
                                      IF pauses = <<>> THEN b.started ELSE LastRow(pauses).at>>)
             card == OpenCard(kindOf(b.pending), b.pending, shown, kindOf(b.pending) = "build_gate")
  <1>7. GateCard(b) = {card}
    BY <1>5, <1>6 DEF GateCard
  <1>8. card.open /\ card.kind \in {"build_gate", "paused"}
    BY DEF OpenCard
  <1> HIDE DEF card
  <1>9. \E c \in GateCard(b) : c.open /\ c.kind \in {"build_gate", "paused"}
    BY <1>7, <1>8
  <1> QED
    BY <1>5, <1>9 DEF b

LEMMA MergeWaitHasCard ==
    ASSUME RecordInv, NEW i \in DOMAIN f.builds, NEW latest, NEW x \in ToSet(MergeWalk(f.builds[i], latest)), x.to = None
    PROVE  x.kind = "merge decision" /\ \E c \in MergeCard(f.builds[i]) : c.open /\ c.kind = "merge"
  <1> DEFINE b == f.builds[i]
             rows == b.stages
             still == latest /\ b.status \notin BuildBroken \cup {"SKIPPED"}
             kind == "merge decision"
             times == Times(now)
             S == Stages(now)
             opens == {"offer"}
  <1>1. TypeOK /\ AskedAs(i, b)
    BY DEF RecordInv, BuildsAsked
  <1>2. b \in Builds(now) /\ rows \in Seq(S)
    BY <1>1, FeatureFields, BuildFields
  <1>3. None \notin times /\ \A r \in S : r.at \in times
    BY <1>1, RowTimes
  <1>4. x \in ToSet(Walk(Marked(rows, opens, Shuts, Gated), still, kind))
    BY DEF MergeWalk, OfferRows, Shuts
  <1>5. /\ x.kind = kind
        /\ \E k \in DOMAIN rows : /\ rows[k].kind \in opens
                                  /\ \A j \in DOMAIN rows : k <= j => rows[j].kind \in opens \/ rows[j].kind \notin Shuts
    <2> HIDE DEF rows, still, kind, times, S, opens
    <2> QED
      BY <1>2, <1>3, <1>4, OpenMarked
  <1>6. PICK k \in DOMAIN rows : /\ rows[k].kind = "offer"
                                 /\ \A j \in DOMAIN rows : k <= j => rows[j].kind = "offer" \/ rows[j].kind \notin Shuts
    BY <1>5
  <1>7. \A j \in DOMAIN rows : rows[j].kind \in Shuts => k < j
    BY <1>1, <1>6 DEF AskedAs
  <1>8. \A j \in DOMAIN rows : rows[j].kind \notin Shuts
    <2>1. DOMAIN rows = 1..Len(rows) /\ Len(rows) \in Nat
      BY <1>2, LenProperties
    <2>2. "offer" \notin Shuts
      BY DEF Shuts, Decided
    <2> HIDE DEF rows
    <2> QED
      BY <1>6, <1>7, <2>1, <2>2
  <1>9. OfKind(rows, Decided) = <<>> /\ OfKind(rows, {"retired"}) = <<>>
    <2>1. /\ \A j \in DOMAIN rows : rows[j].kind \notin Decided
          /\ \A j \in DOMAIN rows : rows[j].kind \notin {"retired"}
      BY <1>8 DEF Shuts
    <2> HIDE DEF rows, S
    <2>2. OfKind(rows, Decided) = <<>>
      BY <1>2, <2>1, NoneOfKind
    <2>3. OfKind(rows, {"retired"}) = <<>>
      BY <1>2, <2>1, NoneOfKind
    <2> QED
      BY <2>2, <2>3
  <1>10. OfKind(rows, {"offer"}) # <<>>
    <2> HIDE DEF rows, S
    <2> QED
      BY <1>2, <1>6, NoneOfKind
  <1>11. MergeDecision(b) = None /\ MergeRetired(b) = None
    BY <1>9 DEF MergeDecision, MergeRetired, FirstAt
  <1> HIDE DEF b
  <1> DEFINE offers == OfKind(b.stages, {"offer"})
             req == LastRow(offers).req
             card == OpenCard("merge", req, FirstShown(offers, req), TRUE)
  <1>12. MergeCard(b) = {card}
    BY <1>10, <1>11 DEF MergeCard
  <1>13. card.open /\ card.kind = "merge"
    BY DEF OpenCard
  <1> HIDE DEF card
  <1>14. \E c \in MergeCard(b) : c.open /\ c.kind = "merge"
    BY <1>12, <1>13
  <1> QED
    BY <1>5, <1>14 DEF b

LEMMA OpenWaitHasCard ==
    ASSUME RecordInv, NEW x \in ToSet(FeatureWaits(f)), x.to = None
    PROVE  \E c \in OpenCards(FeatureCards(f)) : c.kind \in Behind(x.kind)
  <1>1. \/ f.planning # None /\ x \in ToSet(DoorWalk(f.planning, "spec"))
        \/ \E i \in DOMAIN f.builds : \/ x \in ToSet(GateWalk(f.builds[i]))
                                      \/ x \in ToSet(MergeWalk(f.builds[i], i = Len(f.builds)))
    BY FeatureWaitsAre DEF RecordInv
  <1>2. \A i \in DOMAIN f.builds : GateCard(f.builds[i]) \cup MergeCard(f.builds[i]) \subseteq FeatureCards(f)
    BY DEF FeatureCards, BuildCards, ToSet
  <1>3. f.planning # None => DoorCard(f.planning, "spec") \subseteq FeatureCards(f)
    BY DEF FeatureCards
  <1>4. CASE f.planning # None /\ x \in ToSet(DoorWalk(f.planning, "spec"))
    <2>1. PICK c \in DoorCard(f.planning, "spec") : c.open /\ c.kind = "spec" /\ x.kind = "spec approval"
      BY <1>4, DoorWaitHasCard
    <2> QED
      BY <1>3, <1>4, <2>1 DEF OpenCards, Behind
  <1>5. ASSUME NEW i \in DOMAIN f.builds, x \in ToSet(GateWalk(f.builds[i]))
        PROVE  \E c \in OpenCards(FeatureCards(f)) : c.kind \in Behind(x.kind)
    <2>1. PICK c \in GateCard(f.builds[i]) : c.open /\ c.kind \in {"build_gate", "paused"} /\ x.kind = "build approval"
      BY <1>5, GateWaitHasCard
    <2> QED
      BY <1>2, <2>1 DEF OpenCards, Behind
  <1>6. ASSUME NEW i \in DOMAIN f.builds, x \in ToSet(MergeWalk(f.builds[i], i = Len(f.builds)))
        PROVE  \E c \in OpenCards(FeatureCards(f)) : c.kind \in Behind(x.kind)
    <2> DEFINE latest == i = Len(f.builds)
    <2> HIDE DEF latest
    <2>0. x \in ToSet(MergeWalk(f.builds[i], latest))
      BY <1>6 DEF latest
    <2>1. PICK c \in MergeCard(f.builds[i]) : c.open /\ c.kind = "merge" /\ x.kind = "merge decision"
      BY <2>0, MergeWaitHasCard
    <2> QED
      BY <1>2, <2>1 DEF OpenCards, Behind
  <1> QED
    BY <1>1, <1>4, <1>5, <1>6

-----------------------------------------------------------------------------
(* An open wait is listed, and "Waiting for a person" has each open wait   *)
(* and each open card once.                                                *)

LEMMA OpenWaitHasIssue ==
    ASSUME TypeOK, NEW w \in ToSet(FeatureWaits(f)), w.to = None
    PROVE  \E i \in StillOpen(WaitIssues(FeatureWaits(f), now)) : i.kind = w.kind /\ i.opened = w.from
  <1> DEFINE waits == FeatureWaits(f)
             band(x) == Band(Norm.waiting, WaitSecs(x, now))
             issue(x) == Issue(x.kind, band(x), x.from, x.to)
  <1>1. WaitIssues(waits, now) = {issue(x) : x \in {y \in ToSet(waits) : y.to = None \/ band(y) # "G"}}
    BY DEF WaitIssues
  <1>2. issue(w).kind = w.kind /\ issue(w).opened = w.from /\ issue(w).closed = None
    BY DEF Issue
  <1> HIDE DEF issue, band, waits
  <1>3. issue(w) \in WaitIssues(waits, now)
    BY <1>1 DEF waits
  <1> QED
    BY <1>2, <1>3 DEF StillOpen, waits

(* What is open and lives as long as its cause is listed, however old.     *)
LEMMA LiveIsListed ==
    ASSUME NEW issues, NEW t, NEW openDays, NEW closedDays, NEW i \in StillOpen(issues), i.kind \in LiveKinds
    PROVE  i \in Recent(issues, t, openDays, closedDays).open
  <1> DEFINE old == {x \in StillOpen(issues) : x.kind \notin LiveKinds /\ x.opened < t - openDays}
  <1>1. Recent(issues, t, openDays, closedDays).open = StillOpen(issues) \ old
    BY DEF Recent
  <1>2. i \notin old
    OBVIOUS
  <1> QED
    BY <1>1, <1>2

(* One of the open waits began last.                                       *)
LEMMA LatestIssue ==
    ASSUME TypeOK, NEW waits, waits # {}, \A i \in waits : i.opened \in Times(now)
    PROVE  \E i \in waits : \A j \in waits : j.opened <= i.opened
  <1> DEFINE n == now + 1
             up(i) == i.opened + 1
             T == {up(i) : i \in waits}
  <1>1. now \in Nat /\ n \in Nat
    BY FeatureFields
  <1>2. \A i \in waits : i.opened \in -1..now
    BY DEF Times
  <1>3. T # {} /\ T \subseteq 0..n
    <2>1. \A i \in waits : up(i) \in 0..n
      BY <1>1, <1>2
    <2> HIDE DEF up, n
    <2> QED
      BY <2>1
  <1> DEFINE top == Max(T)
  <1>4. top \in T /\ \A y \in T : y <= top
    <2> HIDE DEF T, n
    <2> QED
      BY <1>1, <1>3, MaxIs
  <1> HIDE DEF top
  <1>5. PICK i \in waits : top = i.opened + 1
    BY <1>4
  <1>6. \A j \in waits : j.opened + 1 \in T
    OBVIOUS
  <1> HIDE DEF T
  <1>7. ASSUME NEW j \in waits PROVE j.opened <= i.opened
    <2>1. j.opened + 1 <= i.opened + 1
      BY <1>4, <1>5, <1>6
    <2> QED
      BY <1>2, <2>1
  <1> QED
    BY <1>7

LEMMA EachCardOnce ==
    ASSUME TypeOK, NEW c \in OpenCards(FeatureCards(f))
    PROVE  Cardinality({i \in NeedsYou : c \in i.cards}) = 1
  <1> DEFINE waits == StillOpen(WaitIssues(FeatureWaits(f), now))
             cards == OpenCards(FeatureCards(f))
             first == CHOOSE i \in waits : \A j \in waits : j.opened <= i.opened
             item(what, since, mine) == [what |-> what, since |-> since, cards |-> mine]
             shown(i) == item(i.kind, i.opened, IF i = first THEN cards ELSE {})
             alone(x) == item("card", x.opened, {x})
             ofWaits == {shown(i) : i \in waits}
             ofCards == IF waits = {} THEN {alone(x) : x \in cards} ELSE {}
  <1>1. NeedsYou = ofWaits \cup ofCards
    BY DEF NeedsYou
  <1>2. \A i \in waits : i.opened \in Times(now)
    BY WaitIssuesAre, WaitKindsLive, WaitTimes DEF StillOpen
  <1>3. waits # {} => first \in waits
    <2> HIDE DEF waits
    <2>1. waits # {} => \E i \in waits : \A j \in waits : j.opened <= i.opened
      BY <1>2, LatestIssue
    <2> QED
      BY <2>1
  <1>4. /\ \A i : shown(i).cards = IF i = first THEN cards ELSE {}
        /\ \A x : alone(x).cards = {x}
    OBVIOUS
  <1> DEFINE mine == {i \in NeedsYou : c \in i.cards}
  <1> HIDE DEF waits, cards, first, shown, alone
  <1>5. c \in cards
    BY DEF cards
  <1>6. CASE waits = {}
    <2>1. NeedsYou = {alone(x) : x \in cards}
      BY <1>1, <1>6
    <2>2. mine = {alone(c)}
      BY <1>4, <1>5, <2>1
    <2> HIDE DEF mine
    <2>3. Cardinality(mine) = 1
      BY <2>2, FS_Singleton
    <2> QED
      BY <2>3 DEF mine
  <1>7. CASE waits # {}
    <2>1. NeedsYou = {shown(i) : i \in waits} /\ first \in waits
      BY <1>1, <1>3, <1>7
    <2>2. mine = {shown(first)}
      BY <1>4, <1>5, <2>1
    <2> HIDE DEF mine
    <2>3. Cardinality(mine) = 1
      BY <2>2, FS_Singleton
    <2> QED
      BY <2>3 DEF mine
  <1> QED
    BY <1>6, <1>7

LEMMA OpenWaitNeedsYou ==
    ASSUME NEW i \in StillOpen(WaitIssues(FeatureWaits(f), now))
    PROVE  \E x \in NeedsYou : x.what = i.kind /\ x.since = i.opened
  <1> DEFINE waits == StillOpen(WaitIssues(FeatureWaits(f), now))
             cards == OpenCards(FeatureCards(f))
             first == CHOOSE j \in waits : \A k \in waits : k.opened <= j.opened
             item(what, since, mine) == [what |-> what, since |-> since, cards |-> mine]
             shown(j) == item(j.kind, j.opened, IF j = first THEN cards ELSE {})
             ofCards == IF waits = {} THEN {item("card", c.opened, {c}) : c \in cards} ELSE {}
  <1>1. NeedsYou = {shown(j) : j \in waits} \cup ofCards
    BY DEF NeedsYou
  <1>2. shown(i).what = i.kind /\ shown(i).since = i.opened
    OBVIOUS
  <1>3. i \in waits
    OBVIOUS
  <1> HIDE DEF waits, cards, first, shown, ofCards
  <1> QED
    BY <1>1, <1>2, <1>3

(* Where the pages say that a feature waits for a person, they show the    *)
(* card that can be answered and list the wait among the issues, however   *)
(* old it is, and "Waiting for a person" has each open wait, and each open *)
(* card once (factory.py's waits, cards.py, issues.recent, app.py).        *)
THEOREM OpenWaitsAreShown == Spec => []OpenWaitIsShown
  <1>1. ASSUME RecordInv PROVE OpenWaitIsShown
    <2>1. TypeOK
      BY <1>1 DEF RecordInv
    <2>2. ASSUME NEW w \in ToSet(FeatureWaits(f)), w.to = None
          PROVE  /\ \E c \in OpenCards(FeatureCards(f)) : c.kind \in Behind(w.kind)
                 /\ \E i \in Recent(Issues, now, 0, 0).open : i.kind = w.kind /\ i.opened = w.from
                 /\ \E i \in NeedsYou : i.what = w.kind /\ i.since = w.from
      <3>1. \E c \in OpenCards(FeatureCards(f)) : c.kind \in Behind(w.kind)
        BY <1>1, <2>2, OpenWaitHasCard
      <3>2. PICK i \in StillOpen(WaitIssues(FeatureWaits(f), now)) : i.kind = w.kind /\ i.opened = w.from
        BY <2>1, <2>2, OpenWaitHasIssue
      <3>3. i.kind \in LiveKinds /\ i \in StillOpen(Issues)
        BY <2>1, <3>2, WaitKindsLive, IssuesAre DEF StillOpen
      <3>4. i \in Recent(Issues, now, 0, 0).open
        BY <3>3, LiveIsListed
      <3>5. \E x \in NeedsYou : x.what = w.kind /\ x.since = w.from
        BY <3>2, OpenWaitNeedsYou
      <3> QED
        BY <3>1, <3>2, <3>4, <3>5
    <2>3. \A c \in OpenCards(FeatureCards(f)) : Cardinality({i \in NeedsYou : c \in i.cards}) = 1
      BY <2>1, EachCardOnce
    <2> QED
      BY <2>2, <2>3 DEF OpenWaitIsShown
  <1> QED
    BY <1>1, RecordInvariant, PTL

-----------------------------------------------------------------------------
(* The time since a feature was sent, divided among the periods that cover *)
(* its moments (timing.py): first the sweep over any spans.                 *)

LEMMA RankIs ==
    /\ DOMAIN Precedence = 1..7
    /\ \A key \in ToSet(Precedence) : Rank(key) \in 1..7 /\ Precedence[Rank(key)] = key
  <1>1. DOMAIN Precedence = 1..7
    BY DEF Precedence
  <1>2. ASSUME NEW key \in ToSet(Precedence) PROVE Rank(key) \in 1..7 /\ Precedence[Rank(key)] = key
    <2>1. \E i \in DOMAIN Precedence : Precedence[i] = key
      BY DEF ToSet
    <2> QED
      BY <1>1, <2>1 DEF Rank
  <1> QED
    BY <1>1, <1>2

(* The period that a moment belongs to, and the moments of a period.       *)
AreSpans(spans) == \A s \in spans : s.key \in ToSet(Precedence) /\ s.from \in Int /\ s.to \in Int \cup {None}
Covering(spans, t) == {Rank(s.key) : s \in {x \in spans : x.from <= t /\ (x.to = None \/ t < x.to)}}
UnderOf(ranks) == IF ranks = {} THEN "not_placed" ELSE Precedence[Min(ranks)]
PeriodAt(spans, t) == UnderOf(Covering(spans, t))
MomentsOf(spans, lo, hi, key) == {t \in lo..hi - 1 : PeriodAt(spans, t) = key}

LEMMA PeriodIs ==
    ASSUME NEW spans, AreSpans(spans), NEW t
    PROVE  PeriodAt(spans, t) \in Periods
  <1> DEFINE ranks == Covering(spans, t)
  <1>1. ranks \subseteq 1..7
    BY RankIs DEF Covering, AreSpans
  <1>2. CASE ranks = {}
    BY <1>2 DEF PeriodAt, UnderOf, Periods
  <1>3. CASE ranks # {}
    <2>1. Min(ranks) \in ranks
      <3> DEFINE one == 1
                 last == 7
      <3>1. one \in Int /\ last \in Int /\ ranks \subseteq one..last
        BY <1>1
      <3> HIDE DEF ranks, one, last
      <3> QED
        BY <1>3, <3>1, EndsOf
    <2> DEFINE m == Min(ranks)
    <2>2. m \in DOMAIN Precedence /\ PeriodAt(spans, t) = Precedence[m]
      BY <1>1, <1>3, <2>1, RankIs DEF PeriodAt, UnderOf
    <2> HIDE DEF m
    <2>3. Precedence[m] \in ToSet(Precedence)
      BY <2>2 DEF ToSet
    <2> QED
      BY <2>2, <2>3 DEF Periods
  <1> QED
    BY <1>2, <1>3

(* The spans inside [lo, hi] cover of its moments what the spans cover.     *)
LEMMA ClippedAre ==
    ASSUME NEW spans, AreSpans(spans), NEW lo \in Int, NEW hi \in Int, lo <= hi
    PROVE  /\ \A c \in Clipped(spans, lo, hi) :
                c.from \in lo..hi /\ c.to \in lo..hi /\ c.from < c.to
           /\ \A t \in lo..hi - 1 :
                {Rank(c.key) : c \in {x \in Clipped(spans, lo, hi) : x.from <= t /\ t < x.to}} = Covering(spans, t)
  <1> DEFINE from(s) == IF s.from >= lo THEN s.from ELSE lo
             to(s) == IF s.to = None \/ s.to >= hi THEN hi ELSE s.to
             cut(s) == [key |-> s.key, from |-> from(s), to |-> to(s)]
  <1>1. Clipped(spans, lo, hi) = {c \in {cut(s) : s \in spans} : c.to > c.from}
    <2> DEFINE was(s) == [key |-> s.key, from |-> Max({s.from, lo}), to |-> IF s.to = None THEN hi ELSE Min({s.to, hi})]
    <2>1. ASSUME NEW s \in spans PROVE was(s) = cut(s)
      <3>1. s.from \in Int /\ (s.to = None \/ s.to \in Int)
        BY DEF AreSpans
      <3>2. Max({s.from, lo}) = from(s)
        BY <3>1, OfTwo
      <3>3. (IF s.to = None THEN hi ELSE Min({s.to, hi})) = to(s)
        <4>1. ASSUME s.to \in Int, s.to # None PROVE Min({s.to, hi}) = to(s)
          <5>1. Min({s.to, hi}) = IF s.to <= hi THEN s.to ELSE hi
            BY <4>1, OfTwo
          <5> QED
            BY <4>1, <5>1
        <4> QED
          BY <3>1, <4>1
      <3> QED
        BY <3>2, <3>3
    <2>2. Clipped(spans, lo, hi) = {c \in {was(s) : s \in spans} : c.to > c.from}
      BY DEF Clipped
    <2>3. {was(s) : s \in spans} = {cut(s) : s \in spans}
      <3> HIDE DEF was, cut
      <3> QED
        BY <2>1
    <2> QED
      BY <2>2, <2>3
  <1>2. ASSUME NEW s \in spans
        PROVE  /\ s.from \in Int /\ (s.to = None \/ s.to \in Int)
               /\ from(s) \in Int /\ lo <= from(s) /\ to(s) \in Int /\ to(s) <= hi
               /\ cut(s).key = s.key /\ cut(s).from = from(s) /\ cut(s).to = to(s)
    BY DEF AreSpans
  <1>3. ASSUME NEW t \in lo..hi - 1, NEW s \in spans
        PROVE  from(s) <= t /\ t < to(s) <=> s.from <= t /\ (s.to = None \/ t < s.to)
    BY <1>2 DEF AreSpans
  <1> HIDE DEF from, to
  <1>4. ASSUME NEW c \in Clipped(spans, lo, hi)
        PROVE  c.from \in lo..hi /\ c.to \in lo..hi /\ c.from < c.to
    <2>1. PICK s \in spans : c = cut(s) /\ c.to > c.from
      BY <1>1, <1>4
    <2> QED
      BY <1>2, <2>1
  <1>5. ASSUME NEW t \in lo..hi - 1
        PROVE  {Rank(c.key) : c \in {x \in Clipped(spans, lo, hi) : x.from <= t /\ t < x.to}} = Covering(spans, t)
    <2>1. ASSUME NEW c \in Clipped(spans, lo, hi), c.from <= t, t < c.to PROVE Rank(c.key) \in Covering(spans, t)
      <3>1. PICK s \in spans : c = cut(s)
        BY <1>1, <2>1
      <3>2. c.key = s.key /\ s.from <= t /\ (s.to = None \/ t < s.to)
        BY <1>2, <1>3, <2>1, <3>1
      <3> QED
        BY <3>2 DEF Covering
    <2>2. ASSUME NEW s \in spans, s.from <= t, s.to = None \/ t < s.to
          PROVE  \E c \in Clipped(spans, lo, hi) : c.from <= t /\ t < c.to /\ c.key = s.key
      <3>1. from(s) <= t /\ t < to(s)
        BY <1>3, <2>2
      <3>2. from(s) < to(s)
        BY <1>2, <3>1
      <3>3. cut(s) \in Clipped(spans, lo, hi)
        BY <1>1, <1>2, <3>2
      <3> QED
        BY <1>2, <3>1, <3>3
    <2> QED
      BY <2>1, <2>2 DEF Covering
  <1> QED
    BY <1>4, <1>5

(* Between two cuts next to each other lie the moments of one piece: each   *)
(* moment lies in one piece and no other.                                   *)
Pieces(cuts) == {p \in cuts \X cuts : p[1] < p[2] /\ ~\E c \in cuts : p[1] < c /\ c < p[2]}

LEMMA OnePiece ==
    ASSUME NEW lo \in Int, NEW hi \in Int, NEW cuts, cuts \subseteq lo..hi, lo \in cuts, hi \in cuts
    PROVE  /\ IsFiniteSet(Pieces(cuts))
           /\ \A p \in Pieces(cuts) : p[1] \in lo..hi /\ p[2] \in lo..hi /\ p[1] < p[2]
           /\ \A t \in lo..hi - 1 : \E p \in Pieces(cuts) : p[1] <= t /\ t < p[2]
           /\ \A p, q \in Pieces(cuts) : \A t \in Int :
                p[1] <= t /\ t < p[2] /\ q[1] <= t /\ t < q[2] => p = q
  <1>1. IsFiniteSet(Pieces(cuts))
    <2>1. IsFiniteSet(cuts)
      BY FS_Interval, FS_Subset
    <2>2. IsFiniteSet(cuts \X cuts)
      BY <2>1, FS_Product
    <2> QED
      BY <2>2, FS_Subset DEF Pieces
  <1>2. \A p \in Pieces(cuts) : /\ p = <<p[1], p[2]>> /\ p[1] \in cuts /\ p[2] \in cuts /\ p[1] < p[2]
                                /\ \A c \in cuts : ~(p[1] < c /\ c < p[2])
    BY DEF Pieces
  <1>3. \A p \in Pieces(cuts) : p[1] \in lo..hi /\ p[2] \in lo..hi /\ p[1] < p[2]
    BY <1>2
  <1>4. ASSUME NEW t \in lo..hi - 1 PROVE \E p \in Pieces(cuts) : p[1] <= t /\ t < p[2]
    <2> DEFINE before == {c \in cuts : c <= t}
               after == {c \in cuts : t < c}
               a == Max(before)
               b == Min(after)
    <2>1. before \subseteq lo..hi /\ before # {} /\ after \subseteq lo..hi /\ after # {}
      <3>1. lo \in before /\ hi \in after
        OBVIOUS
      <3> QED
        BY <3>1
    <2>2. a \in before /\ (\A y \in before : y <= a) /\ b \in after /\ \A y \in after : b <= y
      <3> HIDE DEF before, after
      <3> QED
        BY <2>1, EndsOf
    <2> HIDE DEF a, b
    <2>3. a \in cuts /\ b \in cuts /\ a <= t /\ t < b
      BY <2>2
    <2>4. a \in Int /\ b \in Int /\ a < b
      BY <2>3
    <2>5. ASSUME NEW c \in cuts, a < c, c < b PROVE FALSE
      <3>1. c \in Int /\ (c <= t \/ t < c)
        OBVIOUS
      <3>2. CASE c <= t
        <4>1. c <= a
          BY <2>2, <3>2
        <4> QED
          BY <2>4, <2>5, <3>1, <4>1
      <3>3. CASE t < c
        <4>1. b <= c
          BY <2>2, <3>3
        <4> QED
          BY <2>4, <2>5, <3>1, <4>1
      <3> QED
        BY <3>1, <3>2, <3>3
    <2>6. <<a, b>> \in Pieces(cuts)
      BY <2>3, <2>4, <2>5 DEF Pieces
    <2>7. <<a, b>>[1] <= t /\ t < <<a, b>>[2]
      BY <2>3
    <2> QED
      BY <2>6, <2>7
  <1>5. ASSUME NEW p \in Pieces(cuts), NEW q \in Pieces(cuts), NEW t \in Int,
               p[1] <= t, t < p[2], q[1] <= t, t < q[2]
        PROVE  p = q
    <2>1. /\ p[1] \in cuts /\ p[2] \in cuts /\ q[1] \in cuts /\ q[2] \in cuts
          /\ p[1] \in Int /\ p[2] \in Int /\ q[1] \in Int /\ q[2] \in Int
      BY <1>2
    <2>2. ~(p[1] < q[1]) /\ ~(q[1] < p[1]) /\ ~(q[2] < p[2]) /\ ~(p[2] < q[2])
      <3>1. q[1] < p[2] /\ p[1] < q[2]
        BY <1>5, <2>1
      <3> QED
        BY <1>2, <1>5, <2>1, <3>1
    <2>3. p[1] = q[1] /\ p[2] = q[2]
      BY <2>1, <2>2
    <2> QED
      BY <1>2, <2>3
  <1> QED
    BY <1>1, <1>3, <1>4, <1>5

(* A sum of seconds.                                                       *)
SecsOf(S) == MapThenSumSet(LAMBDA r : r.secs, S)

LEMMA SecsAdded ==
    ASSUME NEW S, IsFiniteSet(S), \A r \in S : r.secs \in Nat
    PROVE  \E w : Sums(w, S, [r \in S |-> r.secs]) /\ SecsOf(S) = w[S]
  <1> DEFINE F == [r \in S |-> r.secs]
             Adds(w) == w = [s \in SUBSET S |-> IF s = {} THEN 0 ELSE SomeOf(s).secs + w[s \ {SomeOf(s)}]]
             w == CHOOSE w : Adds(w)
  <1>1. SecsOf(S) = w[S]
    BY DEF SecsOf, MapThenSumSet, MapThenFoldSet, SomeOf
  <1>2. F \in [S -> Nat]
    OBVIOUS
  <1>3. \A s \in SUBSET S : s # {} => F[SomeOf(s)] = SomeOf(s).secs
    BY DEF SomeOf
  <1> HIDE DEF F
  <1>4. PICK u : Sums(u, S, F)
    BY <1>2, SumExists
  <1>5. Adds(u)
    BY <1>3, <1>4 DEF Sums
  <1>6. Adds(w)
    <2> HIDE DEF Adds
    <2> QED
      BY <1>5
  <1> HIDE DEF w
  <1>7. \A s \in SUBSET S : w[s] = IF s = {} THEN 0 ELSE F[SomeOf(s)] + w[s \ {SomeOf(s)}]
    BY <1>3, <1>6
  <1>8. \A s \in SUBSET S : w[s] \in Nat
    <2> HIDE DEF Adds
    <2> QED
      BY <1>2, <1>7, SumTyped
  <1>9. w \in [SUBSET S -> Nat]
    <2>1. DOMAIN w = SUBSET S /\ w = [s \in SUBSET S |-> w[s]]
      BY <1>6
    <2> HIDE DEF Adds
    <2> QED
      BY <1>8, <2>1
  <1>10. Sums(w, S, F)
    BY <1>7, <1>9 DEF Sums
  <1> HIDE DEF Adds
  <1> QED
    BY <1>1, <1>10 DEF F

(* Seconds that are each the number of moments of a set of its own add up   *)
(* to the moments of all.                                                   *)
LEMMA SecsApart ==
    ASSUME NEW S, IsFiniteSet(S), NEW X,
           \A r \in S : r.secs = Cardinality(X[r]) /\ IsFiniteSet(X[r]),
           \A r, s \in S : r # s => X[r] \cap X[s] = {}
    PROVE  SecsOf(S) = Cardinality(UNION {X[r] : r \in S})
  <1> DEFINE F == [r \in S |-> r.secs]
  <1>1. \A r \in S : r.secs \in Nat /\ F[r] = r.secs
    BY FS_CardinalityType
  <1>2. PICK w : Sums(w, S, F) /\ SecsOf(S) = w[S]
    BY <1>1, SecsAdded
  <1>3. F \in [S -> Nat]
    BY <1>1
  <1>4. \A r \in S : IsFiniteSet(X[r]) /\ Cardinality(X[r]) = F[r]
    BY <1>1
  <1> HIDE DEF F
  <1>5. IsFiniteSet(UNION {X[r] : r \in S}) /\ w[S] = Cardinality(UNION {X[r] : r \in S})
    <2>1. Sums(w, S, F)
      BY <1>2
    <2>2. \A x, y \in S : x # y => X[x] \cap X[y] = {}
      OBVIOUS
    <2>3. \A x \in S : IsFiniteSet(X[x]) /\ Cardinality(X[x]) = F[x]
      BY <1>4
    <2> QED
      BY ONLY IsFiniteSet(S), <1>3, <2>1, <2>2, <2>3, SumOfApart
  <1> QED
    BY <1>2, <1>5

(* timing._sweep counts the moments of each period.                        *)
LEMMA SweepCounts ==
    ASSUME NEW spans, AreSpans(spans), NEW lo \in Int, NEW hi \in Int, lo <= hi, NEW key \in Periods
    PROVE  Sweep(spans, lo, hi)[key] = Cardinality(MomentsOf(spans, lo, hi, key))
  <1> DEFINE clipped == Clipped(spans, lo, hi)
             cuts == {lo, hi} \cup {c.from : c \in clipped} \cup {c.to : c \in clipped}
             inside(p) == {s \in clipped : s.from <= p[1] /\ s.to >= p[2]}
             covering(p) == {Rank(c.key) : c \in inside(p)}
             place(p) == [from |-> p[1], secs |-> p[2] - p[1], key |-> UnderOf(covering(p))]
             placed == {place(p) : p \in Pieces(cuts)}
             S == {p \in placed : p.key = key}
             X == [r \in S |-> r.from .. r.from + r.secs - 1]
  <1>1. Sweep(spans, lo, hi)[key] = SecsOf(S)
    BY DEF Sweep, Pieces, UnderOf, SecsOf
  <1>2. /\ \A c \in clipped : c.from \in lo..hi /\ c.to \in lo..hi /\ c.from < c.to
        /\ \A t \in lo..hi - 1 :
             {Rank(c.key) : c \in {x \in clipped : x.from <= t /\ t < x.to}} = Covering(spans, t)
    BY ClippedAre
  <1>3. cuts \subseteq lo..hi /\ lo \in cuts /\ hi \in cuts /\ \A c \in clipped : c.from \in cuts /\ c.to \in cuts
    BY <1>2
  <1> HIDE DEF clipped, cuts
  <1>4. /\ IsFiniteSet(Pieces(cuts))
        /\ \A p \in Pieces(cuts) : p[1] \in lo..hi /\ p[2] \in lo..hi /\ p[1] < p[2]
        /\ \A t \in lo..hi - 1 : \E p \in Pieces(cuts) : p[1] <= t /\ t < p[2]
        /\ \A p, q \in Pieces(cuts) : \A t \in Int :
             p[1] <= t /\ t < p[2] /\ q[1] <= t /\ t < q[2] => p = q
    BY <1>3, OnePiece
  <1>5. ASSUME NEW p \in Pieces(cuts), NEW t \in Int, p[1] <= t, t < p[2] PROVE covering(p) = Covering(spans, t)
    <2>1. t \in lo..hi - 1 /\ p[1] \in Int /\ p[2] \in Int
      BY <1>4, <1>5
    <2>2. ASSUME NEW c \in clipped PROVE c.from <= p[1] /\ c.to >= p[2] <=> c.from <= t /\ t < c.to
      <3>1. c.from \in Int /\ c.to \in Int /\ c.from \in cuts /\ c.to \in cuts
        BY <1>2, <1>3
      <3>2. ~(p[1] < c.from /\ c.from < p[2]) /\ ~(p[1] < c.to /\ c.to < p[2])
        BY <3>1 DEF Pieces
      <3> QED
        BY <1>5, <2>1, <3>1, <3>2
    <2>3. inside(p) = {x \in clipped : x.from <= t /\ t < x.to}
      BY <2>2
    <2> QED
      BY <1>2, <2>1, <2>3
  <1> HIDE DEF inside, covering
  <1>6. ASSUME NEW r \in placed
        PROVE  \E p \in Pieces(cuts) :
                 /\ r = place(p) /\ r.from = p[1] /\ r.secs = p[2] - p[1] /\ r.secs \in Nat /\ r.from \in Int
                 /\ r.from .. r.from + r.secs - 1 = p[1] .. p[2] - 1
                 /\ \A t \in p[1] .. p[2] - 1 : r.key = PeriodAt(spans, t)
    <2>1. PICK p \in Pieces(cuts) : r = place(p)
      OBVIOUS
    <2>2. p[1] \in Int /\ p[2] \in Int /\ p[1] < p[2] /\ r.from = p[1] /\ r.secs = p[2] - p[1]
      BY <1>4, <2>1
    <2>3. r.secs \in Nat /\ r.from .. r.from + r.secs - 1 = p[1] .. p[2] - 1
      BY <2>2
    <2>4. \A t \in p[1] .. p[2] - 1 : r.key = PeriodAt(spans, t)
      BY <1>5, <2>1, <2>2 DEF PeriodAt
    <2> QED
      BY <2>1, <2>2, <2>3, <2>4
  <1>7. IsFiniteSet(S)
    <2>1. IsFiniteSet(placed)
      <3> DEFINE P == Pieces(cuts)
                 g == [p \in P |-> place(p)]
      <3>1. placed = {g[p] : p \in P}
        OBVIOUS
      <3>2. IsFiniteSet(P)
        BY <1>4
      <3> HIDE DEF g, P, placed
      <3> QED
        BY <3>1, <3>2, MadeOf
    <2> QED
      BY <2>1, FS_Subset
  <1>8. ASSUME NEW r \in S PROVE r.secs = Cardinality(X[r]) /\ IsFiniteSet(X[r])
    <2>1. PICK p \in Pieces(cuts) : r.from = p[1] /\ r.secs = p[2] - p[1] /\ X[r] = p[1] .. p[2] - 1
      BY <1>6
    <2>2. p[1] \in Int /\ p[2] \in Int /\ p[1] < p[2] /\ p[2] - 1 \in Int
      BY <1>4
    <2> DEFINE a == p[1]
               b == p[2] - 1
    <2>3. IsFiniteSet(a..b) /\ Cardinality(a..b) = IF a > b THEN 0 ELSE b - a + 1
      <3>1. a \in Int /\ b \in Int
        BY <2>2
      <3> HIDE DEF a, b
      <3> QED
        BY <3>1, FS_Interval
    <2>4. (IF a > b THEN 0 ELSE b - a + 1) = p[2] - p[1]
      BY <2>2
    <2> HIDE DEF X
    <2> QED
      BY <2>1, <2>3, <2>4
  <1>9. ASSUME NEW r \in S, NEW s \in S, r # s PROVE X[r] \cap X[s] = {}
    <2>1. PICK p \in Pieces(cuts) : r = place(p) /\ X[r] = p[1] .. p[2] - 1
      BY <1>6
    <2>2. PICK q \in Pieces(cuts) : s = place(q) /\ X[s] = q[1] .. q[2] - 1
      BY <1>6
    <2> HIDE DEF S, X
    <2>3. ASSUME NEW t \in X[r], t \in X[s] PROVE FALSE
      <3>1. t \in p[1] .. p[2] - 1 /\ t \in q[1] .. q[2] - 1 /\ p[1] \in Int /\ p[2] \in Int /\ q[1] \in Int /\ q[2] \in Int
        BY <1>4, <2>1, <2>2, <2>3
      <3>2. t \in Int /\ p[1] <= t /\ t < p[2] /\ q[1] <= t /\ t < q[2]
        BY <3>1
      <3>3. p = q
        BY <1>4, <3>2
      <3> QED
        BY <1>9, <2>1, <2>2, <3>3
    <2> QED
      BY <2>3
  <1>10. UNION {X[r] : r \in S} = MomentsOf(spans, lo, hi, key)
    <2>1. ASSUME NEW r \in S, NEW t \in X[r] PROVE t \in MomentsOf(spans, lo, hi, key)
      <3>1. PICK p \in Pieces(cuts) : X[r] = p[1] .. p[2] - 1 /\ \A u \in p[1] .. p[2] - 1 : r.key = PeriodAt(spans, u)
        BY <1>6
      <3>2. p[1] \in lo..hi /\ p[2] \in lo..hi /\ t \in p[1] .. p[2] - 1
        BY <1>4, <2>1, <3>1
      <3>3. t \in lo..hi - 1
        BY <3>2
      <3> QED
        BY <3>1, <3>2, <3>3 DEF MomentsOf
    <2>2. ASSUME NEW t \in MomentsOf(spans, lo, hi, key) PROVE \E r \in S : t \in X[r]
      <3>1. t \in lo..hi - 1 /\ PeriodAt(spans, t) = key
        BY DEF MomentsOf
      <3>2. PICK p \in Pieces(cuts) : p[1] <= t /\ t < p[2]
        BY <1>4, <3>1
      <3> DEFINE r == place(p)
      <3>3. r.from = p[1] /\ r.secs = p[2] - p[1] /\ r.key = UnderOf(covering(p)) /\ p[1] \in Int /\ p[2] \in Int
        BY <1>4
      <3>4. r \in S
        <4>1. r.key = key
          BY <1>5, <3>1, <3>2, <3>3 DEF PeriodAt
        <4> QED
          BY <4>1
      <3>5. t \in r.from .. r.from + r.secs - 1
        BY <3>1, <3>2, <3>3
      <3> HIDE DEF r, S
      <3> QED
        BY <3>4, <3>5
    <2> QED
      BY <2>1, <2>2
  <1> HIDE DEF S, X
  <1>11. SecsOf(S) = Cardinality(UNION {X[r] : r \in S})
    <2>1. \A r \in S : r.secs = Cardinality(X[r]) /\ IsFiniteSet(X[r])
      BY <1>8
    <2>2. \A r, s \in S : r # s => X[r] \cap X[s] = {}
      BY <1>9
    <2>3. IsFiniteSet(S)
      BY <1>7
    <2> QED
      BY ONLY <2>1, <2>2, <2>3, SecsApart
  <1> QED
    BY <1>1, <1>10, <1>11

LEMMA PeriodsFinite == IsFiniteSet(Periods)
  <1> DEFINE n == 8
             places == 1..n
             name == [i \in places |-> IF i = 8 THEN "not_placed" ELSE Precedence[i]]
  <1>1. IsFiniteSet(places)
    <2>1. IsFiniteSet(1..n)
      <3> DEFINE one == 1
      <3>1. one \in Int /\ n \in Int
        OBVIOUS
      <3>2. IsFiniteSet(one..n)
        <4> HIDE DEF one, n
        <4> QED
          BY <3>1, FS_Interval
      <3> QED
        BY <3>2
    <2> QED
      BY <2>1
  <1>2. Periods = {name[i] : i \in places}
    <2>1. \A i \in 1..7 : i \in places /\ name[i] = Precedence[i]
      OBVIOUS
    <2>2. 8 \in places /\ name[8] = "not_placed"
      OBVIOUS
    <2>3. \A i \in places : i = 8 \/ i \in 1..7
      OBVIOUS
    <2>4. Periods = {Precedence[i] : i \in 1..7} \cup {"not_placed"}
      BY RankIs DEF Periods, ToSet
    <2> HIDE DEF name, places, n
    <2> QED
      BY <2>1, <2>2, <2>3, <2>4
  <1> HIDE DEF name, places
  <1> QED
    BY <1>1, <1>2, MadeOf

(* How many moments fall under each period that has any, as the property    *)
(* EachMomentOnce counts them.                                              *)
CountedBetween(spans, lo, hi) ==
    LET ats == {<<t, PeriodAt(spans, t)>> : t \in lo..hi - 1}
    IN  {<<key, Cardinality({at \in ats : at[2] = key})>> : key \in {at[2] : at \in ats}}

LEMMA TimeAddsUp ==
    ASSUME NEW spans, AreSpans(spans), NEW lo \in Int, NEW hi \in Int, lo <= hi, NEW open
    PROVE  LET parts == Parts(Sweep(spans, lo, hi), open)
           IN  /\ CountedBetween(spans, lo, hi) \subseteq {<<part.key, part.secs>> : part \in parts}
               /\ SecsOf(parts) = hi - lo
  <1> DEFINE of == [key \in Periods |-> MomentsOf(spans, lo, hi, key)]
             secs == Sweep(spans, lo, hi)
             part == [k \in Periods |-> [key |-> k, secs |-> secs[k], open |-> k \in open]]
             all == {part[k] : k \in Periods}
             parts == {p \in all : p.secs > 0 \/ p.open}
             X == [p \in parts |-> of[p.key]]
  <1>1. IsFiniteSet(lo..hi - 1) /\ Cardinality(lo..hi - 1) = hi - lo
    <2> DEFINE b == hi - 1
    <2>1. b \in Int
      OBVIOUS
    <2>2. IsFiniteSet(lo..b) /\ Cardinality(lo..b) = IF lo > b THEN 0 ELSE b - lo + 1
      <3> HIDE DEF b
      <3> QED
        BY <2>1, FS_Interval
    <2>3. (IF lo > b THEN 0 ELSE b - lo + 1) = hi - lo
      OBVIOUS
    <2> QED
      BY <2>2, <2>3
  <1>2. ASSUME NEW key \in Periods
        PROVE  /\ IsFiniteSet(of[key]) /\ secs[key] = Cardinality(of[key]) /\ secs[key] \in Nat
               /\ (secs[key] = 0 <=> of[key] = {})
    <2>1. of[key] \subseteq lo..hi - 1
      BY DEF MomentsOf
    <2>2. IsFiniteSet(of[key])
      BY <1>1, <2>1, FS_Subset
    <2>3. secs[key] = Cardinality(of[key])
      BY SweepCounts
    <2> QED
      BY <2>2, <2>3, FS_EmptySet, FS_CardinalityType
  <1>3. \A key \in Periods : of[key] = {t \in lo..hi - 1 : PeriodAt(spans, t) = key}
    BY DEF MomentsOf
  <1>4. \A t : PeriodAt(spans, t) \in Periods
    BY PeriodIs
  <1>5. Parts(secs, open) = parts
    BY DEF Parts
  <1> HIDE DEF of, secs
  <1>6. ASSUME NEW p \in parts PROVE p.key \in Periods /\ p = part[p.key] /\ p.secs = secs[p.key]
    OBVIOUS
  <1>7. \A k \in Periods : part[k].key = k /\ part[k].secs = secs[k]
    OBVIOUS
  <1>8. \A k \in Periods : of[k] # {} => part[k] \in parts
    <2>1. \A k \in Periods : of[k] # {} => part[k].secs > 0
      BY <1>2, <1>7
    <2> QED
      BY <2>1
  <1>9. SecsOf(parts) = hi - lo
    <2>1. IsFiniteSet(parts)
      <3>1. IsFiniteSet(all)
        <4> HIDE DEF part
        <4> QED
          BY PeriodsFinite, MadeOf
      <3> QED
        BY <3>1, FS_Subset
    <2>2. \A p \in parts : X[p] = of[p.key]
      OBVIOUS
    <2> HIDE DEF X, parts, part
    <2>3. \A p \in parts : p.secs = Cardinality(X[p]) /\ IsFiniteSet(X[p])
      BY <1>2, <1>6, <2>2
    <2>4. \A p, q \in parts : p # q => X[p] \cap X[q] = {}
      <3>1. ASSUME NEW p \in parts, NEW q \in parts, p # q PROVE X[p] \cap X[q] = {}
        <4>1. p.key # q.key /\ p.key \in Periods /\ q.key \in Periods
          BY <1>6, <3>1
        <4> QED
          BY <1>3, <2>2, <4>1
      <3> QED
        BY <3>1
    <2>5. UNION {X[p] : p \in parts} = lo..hi - 1
      <3>1. \A p \in parts : X[p] \subseteq lo..hi - 1
        BY <1>3, <1>6, <2>2
      <3>2. ASSUME NEW t \in lo..hi - 1 PROVE \E p \in parts : t \in X[p]
        <4> DEFINE k == PeriodAt(spans, t)
        <4>1. k \in Periods /\ t \in of[k]
          BY <1>3, <1>4
        <4>2. part[k] \in parts /\ part[k].key = k
          BY <1>7, <1>8, <4>1
        <4> HIDE DEF k
        <4> QED
          BY <2>2, <4>1, <4>2
      <3> QED
        BY <3>1, <3>2
    <2>6. SecsOf(parts) = Cardinality(UNION {X[p] : p \in parts})
      BY ONLY <2>1, <2>3, <2>4, SecsApart
    <2> QED
      BY <1>1, <2>5, <2>6
  <1>10. CountedBetween(spans, lo, hi) \subseteq {<<p.key, p.secs>> : p \in parts}
    <2> DEFINE ats == {<<t, PeriodAt(spans, t)>> : t \in lo..hi - 1}
               at2(key) == {at \in ats : at[2] = key}
    <2>1. CountedBetween(spans, lo, hi) = {<<key, Cardinality(at2(key))>> : key \in {at[2] : at \in ats}}
      BY DEF CountedBetween
    <2>2. ASSUME NEW key \in {at[2] : at \in ats} PROVE \E p \in parts : p.key = key /\ p.secs = Cardinality(at2(key))
      <3>1. PICK t \in lo..hi - 1 : key = PeriodAt(spans, t)
        OBVIOUS
      <3>2. key \in Periods /\ t \in of[key]
        BY <1>3, <1>4, <3>1
      <3>3. Cardinality(at2(key)) = Cardinality(of[key])
        <4> DEFINE P == of[key]
                   Q == at2(key)
                   h == [u \in P |-> <<u, key>>]
        <4>1. Q = {<<u, key>> : u \in P}
          BY <1>3, <3>2
        <4>2. h \in Bijection(P, Q)
          <5>1. h \in [P -> Q] /\ \A u, v \in P : h[u] = h[v] => u = v
            BY <4>1
          <5>2. \A q \in Q : \E u \in P : h[u] = q
            BY <4>1
          <5> HIDE DEF h, P, Q
          <5> QED
            BY <5>1, <5>2 DEF Bijection, Injection, IsInjective, Surjection
        <4>3. IsFiniteSet(P)
          BY <1>2, <3>2
        <4> HIDE DEF h, P, Q
        <4>4. Cardinality(Q) = Cardinality(P)
          BY <4>2, <4>3, FS_Bijection DEF ExistsBijection
        <4> QED
          BY <4>4 DEF P, Q
      <3>4. part[key] \in parts /\ part[key].key = key /\ part[key].secs = Cardinality(of[key])
        BY <1>2, <1>7, <1>8, <3>2
      <3> HIDE DEF at2, parts, part
      <3> QED
        BY <3>3, <3>4
    <2> HIDE DEF at2, parts, ats
    <2> QED
      BY <2>1, <2>2
  <1> QED
    BY <1>5, <1>9, <1>10 DEF secs

-----------------------------------------------------------------------------
(* The times that are read from a record are times or none.                 *)
LEMMA MomentsAre ==
    ASSUME TypeOK
    PROVE  /\ Times(now) = -1..now /\ Times(now) \subseteq Int /\ None \notin Int
           /\ Moments(now) = Times(now) \cup {None} /\ now \in Nat /\ None \in Moments(now)
           /\ Moments(now) \subseteq Int \cup {None}
  BY FeatureFields, RecordAssumption DEF Times, Moments

LEMMA FirstIn ==
    ASSUME NEW M, None \in M, NEW ts \in Seq(M)
    PROVE  FirstRecorded(ts) \in M
  <1> DEFINE known == {i \in DOMAIN ts : ts[i] # None}
  <1>1. DOMAIN ts \subseteq Nat /\ \A i \in DOMAIN ts : ts[i] \in M
    BY LenProperties
  <1>2. CASE known = {}
    BY <1>2 DEF FirstRecorded
  <1>3. CASE known # {}
    <2>1. Min(known) \in known
      <3>1. known \subseteq Nat
        BY <1>1
      <3> HIDE DEF known
      <3> QED
        BY <1>3, <3>1, MinIs
    <2> QED
      BY <1>1, <1>3, <2>1 DEF FirstRecorded
  <1> QED
    BY <1>2, <1>3

LEMMA FirstMoment ==
    ASSUME TypeOK
    PROVE  /\ \A a, b \in Moments(now) : FirstRecorded(<<a, b>>) \in Moments(now)
           /\ \A a, b, c \in Moments(now) : FirstRecorded(<<a, b, c>>) \in Moments(now)
  <1> DEFINE M == Moments(now)
  <1>1. None \in M
    BY MomentsAre
  <1> HIDE DEF M
  <1>2. \A a, b \in M : FirstRecorded(<<a, b>>) \in M
    <2>1. ASSUME NEW a \in M, NEW b \in M PROVE FirstRecorded(<<a, b>>) \in M
      <3> DEFINE ts == <<a, b>>
      <3>1. ts \in Seq(M)
        OBVIOUS
      <3> HIDE DEF ts
      <3>2. FirstRecorded(ts) \in M
        BY <1>1, <3>1, FirstIn
      <3> QED
        BY <3>2 DEF ts
    <2> QED
      BY <2>1
  <1>3. \A a, b, c \in M : FirstRecorded(<<a, b, c>>) \in M
    <2>1. ASSUME NEW a \in M, NEW b \in M, NEW c \in M PROVE FirstRecorded(<<a, b, c>>) \in M
      <3> DEFINE ts == <<a, b, c>>
      <3>1. ts \in Seq(M)
        OBVIOUS
      <3> HIDE DEF ts
      <3>2. FirstRecorded(ts) \in M
        BY <1>1, <3>1, FirstIn
      <3> QED
        BY <3>2 DEF ts
    <2> QED
      BY <2>1
  <1> QED
    BY <1>2, <1>3 DEF M

LEMMA FirstAndLast ==
    ASSUME TypeOK, NEW T, T \subseteq Moments(now)
    PROVE  Latest(T) \in Moments(now) /\ Earliest(T) \in Moments(now)
  <1> DEFINE R == Recorded(T)
             one == -1
  <1>1. R \subseteq one..now /\ one \in Int /\ now \in Int
    BY MomentsAre DEF Recorded
  <1>2. CASE R = {}
    BY <1>2, MomentsAre DEF Latest, Earliest
  <1>3. CASE R # {}
    <2>1. Max(R) \in R /\ Min(R) \in R
      <3> HIDE DEF R, one
      <3> QED
        BY <1>1, <1>3, EndsOf
    <2> QED
      BY <1>3, <2>1 DEF Latest, Earliest, Recorded
  <1> QED
    BY <1>2, <1>3

LEMMA StageMoments ==
    ASSUME TypeOK, NEW rows \in Seq(Stages(now))
    PROVE  /\ \A kinds : FirstAt(OfKind(rows, kinds)) \in Moments(now)
           /\ \A kinds : \A s \in ToSet(OfKind(rows, kinds)) : s.at \in Times(now)
           /\ \A s \in ToSet(rows) : s.at \in Times(now)
           /\ \A kinds : OfKind(rows, kinds) # <<>> => LastRow(OfKind(rows, kinds)).at \in Times(now)
  <1>0. ASSUME NEW r \in Seq(Stages(now))
        PROVE  /\ FirstAt(r) \in Moments(now) /\ (\A s \in ToSet(r) : s.at \in Times(now))
               /\ (r # <<>> => LastRow(r).at \in Times(now))
    <2>1. \A s \in Stages(now) : s.at \in Times(now)
      BY RowTimes
    <2>2. \A s \in ToSet(r) : s \in Stages(now)
      BY DEF ToSet
    <2>3. r # <<>> => r[1] \in Stages(now)
      <3>1. r # <<>> => 1 \in DOMAIN r
        BY EmptySeq, LenProperties
      <3> QED
        BY <3>1
    <2>4. r # <<>> => LastRow(r) \in Stages(now)
      BY LastRowType
    <2> QED
      BY <2>1, <2>2, <2>3, <2>4, MomentsAre DEF FirstAt
  <1>1. \A kinds : OfKind(rows, kinds) \in Seq(Stages(now))
    BY OfKindType
  <1> QED
    BY <1>0, <1>1

LEMMA BuildMoments ==
    ASSUME TypeOK, NEW b \in Builds(now)
    PROVE  /\ b.queued \in Times(now) /\ b.started \in Moments(now) /\ b.completed \in Moments(now)
           /\ BuildDelivered(b) \in Moments(now) /\ BuildLanded(b) \in Moments(now)
           /\ MergeRetired(b) \in Moments(now) /\ MergeCheckFailed(b) \in Moments(now)
           /\ LastRowAt(b) \in Moments(now)
           /\ (MergeDecision(b) # None => MergeDecision(b).at \in Times(now))
           /\ \A s \in ToSet(b.stages) : s.at \in Times(now)
  <1>1. b.stages \in Seq(Stages(now))
    BY BuildFields
  <1>2. b.queued \in Times(now) /\ b.started \in Moments(now) /\ b.completed \in Moments(now)
    BY DEF Builds
  <1>3. None \in Moments(now) /\ Times(now) \subseteq Moments(now)
    BY MomentsAre
  <1>4. BuildDelivered(b) \in Moments(now) /\ BuildLanded(b) \in Moments(now) /\ MergeRetired(b) \in Moments(now)
    BY <1>1, <1>3, StageMoments DEF BuildDelivered, BuildLanded, MergeRetired
  <1>5. MergeCheckFailed(b) \in Moments(now)
    BY <1>1, <1>3, StageMoments DEF MergeCheckFailed
  <1>6. \A s \in ToSet(b.stages) : s.at \in Times(now)
    BY <1>1, StageMoments
  <1>7. LastRowAt(b) \in Moments(now)
    <2> DEFINE T == {s.at : s \in ToSet(b.stages)}
    <2>1. T \subseteq Moments(now)
      BY <1>3, <1>6
    <2> HIDE DEF T
    <2>2. Latest(T) \in Moments(now)
      BY <2>1, FirstAndLast
    <2> QED
      BY <2>2 DEF LastRowAt, T
  <1>8. MergeDecision(b) # None => MergeDecision(b).at \in Times(now)
    BY <1>1, StageMoments DEF MergeDecision
  <1> QED
    BY <1>2, <1>4, <1>5, <1>6, <1>7, <1>8

LEMMA StartAndEnd ==
    ASSUME TypeOK, NEW b \in Builds(now)
    PROVE  BuildStart(b) \in Moments(now) /\ BuildEnd(b) \in Moments(now)
  <1>1. /\ b.started \in Moments(now) /\ b.completed \in Moments(now) /\ LastRowAt(b) \in Moments(now)
        /\ Times(now) \subseteq Moments(now) /\ b.stages \in Seq(Stages(now)) /\ None \in Moments(now)
    BY BuildMoments, BuildFields, MomentsAre
  <1>2. BuildEnd(b) \in Moments(now)
    BY <1>1, FirstMoment DEF BuildEnd
  <1>3. BuildStart(b) \in Moments(now)
    <2> DEFINE firsts == {s.at : s \in ToSet(OfKind(b.stages, {"pause", "work", "skip"}))}
               both == {b.started, Min(firsts)}
    <2>1. firsts \subseteq Times(now)
      BY <1>1, StageMoments
    <2>2. ASSUME firsts # {}, b.started # None PROVE Min(both) \in Times(now)
      <3>1. Min(firsts) \in Times(now)
        <4> HIDE DEF firsts
        <4> QED
          BY <2>1, <2>2, MinIsLeast
      <3>2. b.started \in Times(now)
        BY <1>1, <2>2, MomentsAre
      <3>3. both \subseteq Times(now) /\ both # {}
        BY <3>1, <3>2
      <3> HIDE DEF both
      <3> QED
        BY <3>3, MinIsLeast
    <2> HIDE DEF firsts
    <2>3. BuildStart(b) = b.started \/ (firsts # {} /\ b.started # None /\ BuildStart(b) = Min(both))
      BY DEF BuildStart, firsts
    <2> QED
      BY <1>1, <2>2, <2>3
  <1> QED
    BY <1>2, <1>3

(* What a span is made of.                                                 *)
ASpan(s) == s.key \in ToSet(Precedence) /\ s.from \in Int /\ s.to \in Int \cup {None}

LEMMA SpanIs ==
    ASSUME NEW key \in {"approvals", "merge_decision", "merge_check", "building", "planning", "queue", "mission_merge"},
           NEW from \in Int, NEW to \in Int \cup {None}, NEW open
    PROVE  ASpan(Span(key, from, to, open))
  <1>1. key \in ToSet(Precedence)
    <2>1. \E i \in 1..7 : Precedence[i] = key
      BY DEF Precedence
    <2> QED
      BY <2>1, RankIs DEF ToSet
  <1> QED
    BY <1>1 DEF ASpan, Span

LEMMA MergeCheckSpans ==
    ASSUME TypeOK, NEW b \in Builds(now), NEW s \in MergeCheck(b)
    PROVE  ASpan(s)
  <1> DEFINE said == MergeDecision(b)
             after == {r.at : r \in {r \in ToSet(b.stages) : r.kind \in MergeSteps /\ r.at >= said.at}}
             landed == FirstRecorded(<<BuildDelivered(b), BuildLanded(b), MergeCheckFailed(b)>>)
             merging == landed = None /\ b.status \notin BuildBroken
             T == after \cup {said.at}
             to == IF merging THEN None ELSE Max(T)
  <1>1. Approved(b) /\ s = Span("merge_check", said.at, to, merging)
    BY DEF MergeCheck
  <1>2. said.at \in Times(now) /\ \A r \in ToSet(b.stages) : r.at \in Times(now)
    BY <1>1, BuildMoments DEF Approved
  <1>3. T \subseteq Times(now) /\ T # {}
    BY <1>2
  <1> DEFINE one == -1
  <1>4. T \subseteq one..now /\ one \in Int /\ now \in Int /\ Times(now) \subseteq Int
    BY <1>3, MomentsAre
  <1>5. Max(T) \in T
    <2> HIDE DEF T, one
    <2> QED
      BY <1>3, <1>4, EndsOf
  <1>6. said.at \in Int /\ to \in Int \cup {None}
    BY <1>2, <1>3, <1>4, <1>5
  <1> HIDE DEF said, to, merging
  <1> QED
    BY <1>1, <1>6, SpanIs

LEMMA SpansAre ==
    ASSUME TypeOK
    PROVE  AreSpans(Spans(f))
  <1>0. /\ Times(now) \subseteq Int /\ Moments(now) \subseteq Int \cup {None} /\ None \in Moments(now)
        /\ Moments(now) = Times(now) \cup {None}
    BY MomentsAre
  <1>1. ASSUME NEW s \in QueueSpans(f) PROVE ASpan(s)
    <2> DEFINE q == f.queue
               shut == IF q.status = "QUEUED" THEN None ELSE q.closed
               left == FirstRecorded(<<q.admitted, shut>>)
               open == left = None /\ InProgress(f)
    <2>1. q # None /\ s = Span("queue", q.queued, left, open)
      BY <1>1 DEF QueueSpans
    <2>2. q.queued \in Times(now) /\ q.admitted \in Moments(now) /\ shut \in Moments(now)
      BY <1>0, <2>1, FeatureFields DEF Items
    <2> HIDE DEF shut
    <2>3. q.queued \in Int /\ left \in Int \cup {None}
      BY <1>0, <2>2, FirstMoment
    <2> HIDE DEF left, open, q
    <2> QED
      BY <2>1, <2>3, SpanIs
  <1>2. ASSUME NEW s \in PlanningSpans(f) PROVE ASpan(s)
    <2> DEFINE run == f.planning
               shut == IF run.state = "QUEUED" THEN None ELSE run.completed
               begun == FirstRecorded(<<run.started, shut>>)
               open == begun = None /\ InProgress(f)
               working == run.state \in PlanningActive \ {"QUEUED"} /\ OpenWait(FeatureWaits(f)) = None
    <2>1. /\ run # None
          /\ \/ s = Span("queue", run.queued, begun, open)
             \/ run.started # None /\ s = Span("planning", run.started, run.completed, working)
      BY <1>2 DEF PlanningSpans
    <2>2. /\ run.queued \in Times(now) /\ run.started \in Moments(now) /\ shut \in Moments(now)
          /\ run.completed \in Moments(now)
      BY <1>0, <2>1, FeatureFields DEF Runs
    <2> HIDE DEF shut
    <2>3. run.queued \in Int /\ begun \in Int \cup {None} /\ run.completed \in Int \cup {None}
      BY <1>0, <2>2, FirstMoment
    <2>4. run.started # None => run.started \in Int
      BY <1>0, <2>2
    <2> HIDE DEF run, begun, open, working
    <2> QED
      BY <2>1, <2>3, <2>4, SpanIs
  <1>3. ASSUME NEW b \in Builds(now), NEW s \in BuildSpans(f, b) PROVE ASpan(s)
    <2> DEFINE start == BuildStart(b)
               end == BuildEnd(b)
               waiting == b.status \in {"QUEUED", "PREPARING"}
               shut == IF waiting THEN None ELSE b.completed
               left == FirstRecorded(<<start, shut>>)
               open == left = None /\ waiting
               running == b.status \in {"RUNNING", "FINALISING"} /\ OpenWait(FeatureWaits(f)) = None
    <2>1. \/ s = Span("queue", b.queued, left, open)
          \/ start # None /\ s = Span("building", start, end, running)
          \/ s \in MergeCheck(b)
      BY <1>3 DEF BuildSpans
    <2>2. /\ b.queued \in Times(now) /\ start \in Moments(now) /\ end \in Moments(now)
          /\ shut \in Moments(now)
      BY <1>0, StartAndEnd, BuildMoments
    <2> HIDE DEF shut, start, end
    <2>3. b.queued \in Int /\ left \in Int \cup {None} /\ end \in Int \cup {None}
      BY <1>0, <2>2, FirstMoment
    <2>4. start # None => start \in Int
      BY <1>0, <2>2
    <2> HIDE DEF left, open, waiting, running
    <2> QED
      BY <2>1, <2>3, <2>4, SpanIs, MergeCheckSpans
  <1>4. ASSUME NEW s \in WaitSpans(f) PROVE ASpan(s)
    <2>1. PICK w \in ToSet(FeatureWaits(f)) :
            s = Span(IF w.kind = "merge decision" THEN "merge_decision" ELSE "approvals", w.from, w.to, w.to = None)
      BY <1>4 DEF WaitSpans
    <2> DEFINE key == IF w.kind = "merge decision" THEN "merge_decision" ELSE "approvals"
               open == w.to = None
    <2>2. w.from \in Int /\ w.to \in Int \cup {None} /\ s = Span(key, w.from, w.to, open)
      BY <1>0, <2>1, WaitTimes
    <2>3. key \in {"approvals", "merge_decision", "merge_check", "building", "planning", "queue", "mission_merge"}
      OBVIOUS
    <2> HIDE DEF key, open
    <2> QED
      BY <2>2, <2>3, SpanIs
  <1>5. ASSUME NEW s \in MissionSpans(f) PROVE ASpan(s)
    <2> DEFINE lands == {BuildLanded(b) : b \in ToSet(f.builds)}
               landed == Earliest(lands)
               given == MissionDelivered(f.mission)
               end == FirstRecorded(<<given, f.mission.closed>>)
               open == end = None /\ InProgress(f)
    <2>1. f.mission # None /\ landed # None /\ s = Span("mission_merge", landed, end, open)
      BY <1>5 DEF MissionSpans
    <2>2. landed \in Moments(now)
      <3>1. \A b \in ToSet(f.builds) : b \in Builds(now)
        BY FeatureFields DEF ToSet
      <3>2. lands \subseteq Moments(now)
        BY <3>1, BuildMoments
      <3> HIDE DEF lands
      <3> QED
        BY <3>2, FirstAndLast
    <2>3. f.mission.closed \in Moments(now) /\ given \in Moments(now)
      <3>1. f.mission \in Missions(now)
        BY <2>1, FeatureFields
      <3>2. f.mission.closed \in Moments(now) /\ f.mission.merge \in Builds(now) \cup {None}
        BY <3>1 DEF Missions
      <3>3. f.mission.merge # None => f.mission.merge.stages \in Seq(Stages(now))
        BY <3>2, BuildFields
      <3> QED
        BY <1>0, <3>2, <3>3, StageMoments DEF MissionDelivered
    <2> HIDE DEF lands, landed, given
    <2>4. landed \in Int /\ end \in Int \cup {None}
      BY <1>0, <2>1, <2>2, <2>3, FirstMoment
    <2> HIDE DEF end, open
    <2> QED
      BY <2>1, <2>4, SpanIs
  <1>6. \A b \in ToSet(f.builds) : b \in Builds(now)
    BY FeatureFields DEF ToSet
  <1>7. \A s \in Spans(f) : ASpan(s)
    BY <1>1, <1>2, <1>3, <1>4, <1>5, <1>6 DEF Spans
  <1> QED
    BY <1>7 DEF AreSpans, ASpan

(* A feature's end is a time of the record, or none.                       *)
LEMMA EndedIs ==
    ASSUME TypeOK, Sent
    PROVE  Ended(f) \in Moments(now)
  <1>0. None \in Moments(now) /\ Times(now) \subseteq Moments(now)
    BY MomentsAre
  <1> DEFINE open == OpenWait(FeatureWaits(f))
  <1>3. \A b \in ToSet(f.builds) : b \in Builds(now)
    BY FeatureFields DEF ToSet
  <1>4. f.mission # None => /\ f.mission.closed \in Moments(now)
                            /\ MissionDelivered(f.mission) \in Moments(now)
    <2>1. ASSUME f.mission # None PROVE f.mission.closed \in Moments(now) /\ MissionDelivered(f.mission) \in Moments(now)
      <3>1. f.mission \in Missions(now)
        BY <2>1, FeatureFields
      <3>2. f.mission.closed \in Moments(now) /\ f.mission.merge \in Builds(now) \cup {None}
        BY <3>1 DEF Missions
      <3>3. f.mission.merge # None => f.mission.merge.stages \in Seq(Stages(now))
        BY <3>2, BuildFields
      <3> QED
        BY <1>0, <3>2, <3>3, StageMoments DEF MissionDelivered
    <2> QED
      BY <2>1
  <1>5. DeliveredAt(f) \in Moments(now)
    <2> DEFINE T == {BuildDelivered(b) : b \in ToSet(f.builds)}
    <2>1. T \subseteq Moments(now)
      BY <1>3, BuildMoments
    <2>2. Earliest(T) \in Moments(now)
      <3> HIDE DEF T
      <3> QED
        BY <2>1, FirstAndLast
    <2> QED
      BY <1>4, <2>2 DEF DeliveredAt
  <1>6. ASSUME NEW b \in Builds(now) PROVE WhereBuild(b, f.mission, open).ended \in Moments(now)
    <2> DEFINE landed == BuildLanded(b)
               closed == FirstRecorded(<<f.mission.closed, landed>>)
    <2>1. /\ MergeCheckFailed(b) \in Moments(now) /\ MergeRetired(b) \in Moments(now) /\ b.completed \in Moments(now)
          /\ landed \in Moments(now)
      BY BuildMoments
    <2>2. MergeDecision(b) # None => MergeDecision(b).at \in Moments(now)
      BY <1>0, BuildMoments
    <2>3. f.mission # None => closed \in Moments(now)
      BY <1>4, <2>1, FirstMoment
    <2> HIDE DEF open
    <2> QED
      BY <1>0, <2>1, <2>2, <2>3 DEF WhereBuild, Stands, Going, Approved
  <1>7. f.planning # None => WherePlanning(f.planning, open).ended \in Moments(now)
    <2>1. ASSUME f.planning # None PROVE RunRetired(f.planning) \in Moments(now) /\ f.planning.completed \in Moments(now)
      <3>1. f.planning.completed \in Moments(now)
        BY <2>1, RunFields DEF Runs
      <3> DEFINE rows == DoorEvents(f.planning, "retired")
      <3>2. rows \in Seq(Events(now))
        BY <2>1, RunFields
      <3>3. rows # <<>> => rows[1].at \in Times(now)
        <4>1. rows # <<>> => 1 \in DOMAIN rows
          BY <3>2, EmptySeq, LenProperties
        <4>2. rows # <<>> => rows[1] \in Events(now)
          BY <3>2, <4>1
        <4> QED
          BY <4>2, RowTimes
      <3> QED
        BY <1>0, <3>1, <3>3 DEF RunRetired, FirstAt
    <2> HIDE DEF open
    <2> QED
      BY <1>0, <2>1 DEF WherePlanning, Stands, Going
  <1>8. f.queue # None => WhereQueue(f.queue).ended \in Moments(now)
    <2>1. f.queue # None => f.queue.closed \in Moments(now)
      BY FeatureFields DEF Items
    <2> QED
      BY <1>0, <2>1 DEF WhereQueue, Stands, Going
  <1>9. Where(f).ended \in Moments(now)
    <2>1. f.builds # <<>> => LastRow(f.builds) \in Builds(now)
      BY FeatureFields, LastRowType
    <2>2. /\ f.builds # <<>> => Where(f) = WhereBuild(LastRow(f.builds), f.mission, open)
          /\ f.builds = <<>> /\ f.planning # None => Where(f) = WherePlanning(f.planning, open)
          /\ f.builds = <<>> /\ f.planning = None => Where(f) = WhereQueue(f.queue)
      BY DEF Where
    <2> HIDE DEF open
    <2>3. CASE f.builds # <<>>
      BY <1>6, <2>1, <2>2, <2>3
    <2>4. CASE f.builds = <<>> /\ f.planning # None
      BY <1>7, <2>2, <2>4
    <2>5. CASE f.builds = <<>> /\ f.planning = None
      BY <1>8, <2>2, <2>5 DEF Sent
    <2> QED
      BY <2>3, <2>4, <2>5
  <1>10. Standing(f).ended \in Moments(now)
    BY <1>5, <1>9 DEF Standing, Stands
  <1> QED
    BY <1>0, <1>10 DEF Ended

LEMMA SentIs ==
    ASSUME TypeOK, Sent
    PROVE  SentAt(f) \in Times(now)
  <1> DEFINE a == IF f.queue = None THEN None ELSE f.queue.queued
             b == IF f.planning = None THEN None ELSE f.planning.queued
             c == IF f.builds = <<>> THEN None ELSE f.builds[1].queued
             T == {a, b, c}
             R == Recorded(T)
  <1>0. Moments(now) = Times(now) \cup {None} /\ None \notin Times(now)
    BY MomentsAre, RowTimes
  <1>1. f.queue # None => f.queue.queued \in Times(now)
    BY FeatureFields DEF Items
  <1>2. f.planning # None => f.planning.queued \in Times(now)
    BY FeatureFields DEF Runs
  <1>3. f.builds # <<>> => f.builds[1].queued \in Times(now)
    <2>1. f.builds # <<>> => 1 \in DOMAIN f.builds
      BY FeatureFields, EmptySeq
    <2>2. f.builds # <<>> => f.builds[1] \in Builds(now)
      BY <2>1, FeatureFields
    <2> QED
      BY <2>2 DEF Builds
  <1>4. R \subseteq Times(now) /\ R # {}
    <2>1. a \in Times(now) \cup {None} /\ b \in Times(now) \cup {None} /\ c \in Times(now) \cup {None}
      BY <1>1, <1>2, <1>3
    <2>2. a # None \/ b # None \/ c # None
      BY <1>0, <1>1, <1>2, <1>3 DEF Sent
    <2> HIDE DEF a, b, c
    <2> QED
      BY <2>1, <2>2 DEF Recorded
  <1>5. Min(R) \in Times(now)
    <2> HIDE DEF R
    <2> QED
      BY <1>4, MinIsLeast
  <1>6. SentAt(f) = Earliest(T)
    BY DEF SentAt
  <1> QED
    BY <1>4, <1>5, <1>6 DEF Earliest

LEMMA MomentsCounted == TypeOK => EachMomentOnce
  <1> SUFFICES ASSUME TypeOK, Sent, FeatureTime(f, now).measured PROVE EachMomentOnce
    BY DEF EachMomentOnce
  <1> DEFINE lo == SentAt(f)
             last == FirstRecorded(<<Ended(f), now>>)
             hi == Max({last, lo})
             spans == Spans(f)
             time == FeatureTime(f, now)
             open == {s.key : s \in {x \in spans : x.open}}
             parts == Parts(Sweep(spans, lo, hi), open)
  <1>1. lo \in Int
    BY SentIs, MomentsAre
  <1>2. last \in Int
    <2>1. Ended(f) \in Moments(now) /\ now \in Nat /\ Moments(now) \subseteq Int \cup {None}
      BY EndedIs, MomentsAre
    <2>2. last = IF Ended(f) # None THEN Ended(f) ELSE now
      BY FirstOfTwo
    <2> QED
      BY <2>1, <2>2
  <1>3. hi \in Int /\ lo <= hi
    <2> HIDE DEF lo, last
    <2>1. hi = IF last >= lo THEN last ELSE lo
      BY <1>1, <1>2, OfTwo
    <2> HIDE DEF hi
    <2> QED
      BY <1>1, <1>2, <2>1
  <1>4. AreSpans(spans)
    BY SpansAre
  <1>5. time.elapsed = hi - lo /\ time.parts = parts
    BY DEF FeatureTime, TimeFrom
  <1> HIDE DEF lo, last, hi, spans, open, parts
  <1>6. CountedBetween(spans, lo, hi) \subseteq {<<part.key, part.secs>> : part \in parts} /\ SecsOf(parts) = hi - lo
    BY <1>1, <1>3, <1>4, TimeAddsUp DEF parts
  <1> DEFINE upTo == lo + time.elapsed
  <1>7. upTo = hi
    BY <1>1, <1>3, <1>5
  <1> HIDE DEF upTo, time
  <1>8. CountedBetween(spans, lo, upTo) \subseteq {<<part.key, part.secs>> : part \in time.parts}
        /\ SecsOf(time.parts) = time.elapsed
    BY <1>5, <1>6, <1>7
  <1> QED
    BY <1>8 DEF EachMomentOnce, CountedBetween, PeriodAt, Covering, UnderOf, SecsOf, lo, upTo, time, spans

(* Every moment of a feature's time is counted once, under the first of the *)
(* periods that cover it, and what it is divided into adds up to it.        *)
THEOREM MomentsAreCountedOnce == Spec => []EachMomentOnce
  <1>1. RecordInv => EachMomentOnce
    BY MomentsCounted DEF RecordInv
  <1> QED
    BY <1>1, RecordInvariant, PTL
=============================================================================
