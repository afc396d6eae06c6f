------------------------- MODULE EventChannelProofs -------------------------
(***************************************************************************)
(* Proofs about EventChannel, for any sections, any number of them on the  *)
(* page and any bounds.  That nothing is missed rests on two facts at      *)
(* once: a change the page has not heard of is on its way while the        *)
(* connection lasts, and would be sent again if it broke now.              *)
(***************************************************************************)
EXTENDS EventChannel, FiniteSetTheorems, SequenceTheorems, TLAPS

-----------------------------------------------------------------------------
(* Lists of all the members of a set.                                      *)

LEMMA PartIsFinite ==
    ASSUME NEW S, IsFiniteSet(S), NEW T, T \subseteq S
    PROVE  /\ IsFiniteSet(T)
           /\ Cardinality(T) \in Nat /\ Cardinality(S) \in Nat
           /\ Cardinality(T) <= Cardinality(S)
  <1>1. IsFiniteSet(T) /\ Cardinality(T) <= Cardinality(S)
    BY FS_Subset
  <1> QED
    BY <1>1, FS_CardinalityType

(* As many different members as the set has are all of them.               *)
LEMMA AllAreListed ==
    ASSUME NEW S, IsFiniteSet(S), NEW f \in [1..Cardinality(S) -> S],
           \A i, j \in 1..Cardinality(S) : i # j => f[i] # f[j],
           NEW x \in S
    PROVE  \E i \in 1..Cardinality(S) : f[i] = x
  <1> DEFINE D == 1..Cardinality(S)
             T == S \ {x}
  <1>1. SUFFICES ASSUME \A i \in D : f[i] # x PROVE FALSE
    OBVIOUS
  <1>2. Cardinality(S) \in Nat
    BY FS_CardinalityType
  <1>3. IsFiniteSet(D) /\ Cardinality(D) = Cardinality(S)
    BY <1>2, FS_Interval
  <1>4. IsFiniteSet(T) /\ Cardinality(T) = Cardinality(S) - 1
    BY FS_RemoveElement
  <1>5. f \in [D -> T]
    BY <1>1
  <1>6. Cardinality(T) < Cardinality(D)
    BY <1>2, <1>3, <1>4
  <1> HIDE DEF D, T
  <1>7. \E i, j \in D : i # j /\ f[i] = f[j]
    BY <1>3, <1>4, <1>5, <1>6, FS_PigeonHole
  <1> QED
    BY <1>7 DEF D

LEMMA ListsHoldAll ==
    ASSUME NEW S, IsFiniteSet(S), NEW f \in SetToSeqs(S)
    PROVE  /\ Cardinality(S) \in Nat /\ f \in [1..Cardinality(S) -> S]
           /\ \A x \in S : \E i \in 1..Cardinality(S) : f[i] = x
  <1>1. Cardinality(S) \in Nat
    BY FS_CardinalityType
  <1>2. f \in [1..Cardinality(S) -> S] /\ \A i, j \in 1..Cardinality(S) : i # j => f[i] # f[j]
    BY DEF SetToSeqs
  <1> QED
    BY <1>1, <1>2, AllAreListed

(* Rows in order of seq.                                                   *)
LEMMA InOrderIsOrder ==
    ASSUME NEW R, IsFiniteSet(R), \A r \in R : r.seq \in Nat,
           \A r, q \in R : r.seq = q.seq => r = q
    PROVE  /\ Cardinality(R) \in Nat
           /\ InOrder(R) \in [1..Cardinality(R) -> R]
           /\ \A i, j \in 1..Cardinality(R) : i < j => InOrder(R)[i].seq < InOrder(R)[j].seq
           /\ \A r \in R : \E i \in 1..Cardinality(R) : InOrder(R)[i] = r
  <1> DEFINE n == Cardinality(R)
             UpTo(r) == {q \in R : q.seq =< r.seq}
             Rank(r) == Cardinality(UpTo(r))
  <1>1. n \in Nat
    BY FS_CardinalityType
  <1>2. ASSUME NEW r \in R PROVE IsFiniteSet(UpTo(r)) /\ Rank(r) \in 1..n
    <2>1. IsFiniteSet(UpTo(r)) /\ Rank(r) \in Nat /\ Rank(r) <= n
      BY <1>1, PartIsFinite
    <2>2. UpTo(r) # {}
      OBVIOUS
    <2>3. Rank(r) # 0
      BY <2>1, <2>2, FS_EmptySet
    <2> HIDE DEF Rank, UpTo, n
    <2> QED
      BY <1>1, <2>1, <2>3
  <1>3. ASSUME NEW r \in R, NEW q \in R, r.seq < q.seq PROVE Rank(r) < Rank(q)
    <2>1. q \notin UpTo(r) /\ UpTo(r) \cup {q} \subseteq UpTo(q)
      BY <1>3
    <2>2. Cardinality(UpTo(r) \cup {q}) = Rank(r) + 1
      BY <1>2, <2>1, FS_AddElement
    <2>3. Cardinality(UpTo(r) \cup {q}) <= Rank(q)
      BY <1>2, <2>1, PartIsFinite
    <2> HIDE DEF Rank, UpTo, n
    <2>4. Rank(r) \in Nat /\ Rank(q) \in Nat
      BY <1>1, <1>2
    <2> QED
      BY <2>2, <2>3, <2>4
  <1>4. ASSUME NEW r \in R, NEW q \in R, Rank(r) = Rank(q) PROVE r = q
    <2> HIDE DEF Rank, UpTo, n
    <2>1. Rank(r) \in Nat /\ Rank(q) \in Nat
      BY <1>1, <1>2
    <2>2. ~(r.seq < q.seq) /\ ~(q.seq < r.seq)
      BY <1>3, <1>4, <2>1
    <2> QED
      BY <2>2
  <1>5. ASSUME NEW k \in 1..n PROVE \E r \in R : Rank(r) = k
    <2>1. SUFFICES ASSUME \A r \in R : Rank(r) # k PROVE FALSE
      OBVIOUS
    <2> DEFINE ranks == 1..n
               others == ranks \ {k}
               f == [r \in R |-> Rank(r)]
    <2>2. IsFiniteSet(ranks) /\ Cardinality(ranks) = n
      BY <1>1, FS_Interval
    <2>3. IsFiniteSet(others) /\ Cardinality(others) = n - 1
      BY <2>2, FS_RemoveElement
    <2>4. f \in [R -> others]
      BY <1>2, <2>1
    <2>5. Cardinality(others) < Cardinality(R)
      BY <1>1, <2>3
    <2>6. \A r, q \in R : f[r] = f[q] => Rank(r) = Rank(q)
      OBVIOUS
    <2> HIDE DEF ranks, others, f, Rank, UpTo, n
    <2>7. \E r, q \in R : r # q /\ f[r] = f[q]
      BY <2>3, <2>4, <2>5, FS_PigeonHole
    <2> QED
      BY <1>4, <2>6, <2>7
  <1> DEFINE s == InOrder(R)
  <1>6. s = [k \in 1..n |-> CHOOSE r \in R : Rank(r) = k]
    BY DEF InOrder
  <1> HIDE DEF s, Rank, UpTo, n
  <1>7. \A k \in 1..n : s[k] \in R /\ Rank(s[k]) = k
    BY <1>5, <1>6
  <1>8. s \in [1..n -> R]
    BY <1>6, <1>7
  <1>9. \A i, j \in 1..n : i < j => s[i].seq < s[j].seq
    <2> SUFFICES ASSUME NEW i \in 1..n, NEW j \in 1..n, i < j, ~(s[i].seq < s[j].seq) PROVE FALSE
      OBVIOUS
    <2>1. s[i] \in R /\ s[j] \in R /\ Rank(s[i]) = i /\ Rank(s[j]) = j
      BY <1>7
    <2>2. s[i].seq \in Nat /\ s[j].seq \in Nat
      BY <2>1
    <2>3. s[j].seq < s[i].seq \/ s[i] = s[j]
      BY <2>1, <2>2
    <2>4. i \in Nat /\ j \in Nat
      BY <1>1
    <2> QED
      BY <1>3, <2>1, <2>3, <2>4
  <1>10. \A r \in R : \E i \in 1..n : s[i] = r
    BY <1>2, <1>4, <1>7
  <1> QED
    BY <1>1, <1>8, <1>9, <1>10 DEF s, n

-----------------------------------------------------------------------------
(* What the proofs need of the state.                                      *)

(* The kept rows are the last ones given out, with no gap among them, and  *)
(* the last of them is kept.                                               *)
RowsRun ==
    /\ Len(log) <= head
    /\ \A i \in DOMAIN log : log[i].seq = head - Len(log) + i
    /\ head > 0 => log # <<>>

(* The page and its stream are behind the log, the page behind its stream. *)
CursorsBehind ==
    /\ lastId <= head /\ cursor <= head /\ low <= head
    /\ \A i \in DOMAIN queue : queue[i].id <= head
    /\ \A i \in DOMAIN pipe : pipe[i].id <= cursor
    /\ stream # "none" => lastId <= cursor
    /\ stream # "open" => queue = <<>> /\ pipe = <<>>

(* What is sent is in order; an update with a later id than one before it  *)
(* is no refetch: it tells of a row, which is kept or was pruned.          *)
IsRow(update) ==
    \/ \E i \in DOMAIN log : log[i].seq = update.id /\ log[i].panel = update.panel
    \/ update.id < MinSeq
InTurn(first, next) == first.id <= next.id /\ (first.id < next.id => IsRow(next))
SentInTurn ==
    /\ \A i, j \in DOMAIN pipe : i < j => InTurn(pipe[i], pipe[j])
    /\ \A i, j \in DOMAIN queue : i < j => InTurn(queue[i], queue[j])
    /\ \A i \in DOMAIN pipe, j \in DOMAIN queue : InTurn(pipe[i], queue[j])

(* No row is passed over by the stream: one behind an id it is about to    *)
(* send is sent too.                                                       *)
QueueCovers ==
    \A k \in DOMAIN queue, i \in DOMAIN log :
        log[i].panel \in Subscribed /\ cursor < log[i].seq /\ log[i].seq <= queue[k].id =>
            \E j \in DOMAIN queue : queue[j].panel = log[i].panel /\ log[i].seq <= queue[j].id

(* Were the connection to break now, a change not heard of would be sent   *)
(* again; or it is in a refetch that is half received.                     *)
HalfReceived(panel) ==
    \/ \E i \in DOMAIN pipe : pipe[i].panel = panel /\ pipe[i].id <= lastId
    \/ \E i \in DOMAIN queue : queue[i].panel = panel /\ queue[i].id <= lastId
SentAgain(panel) ==
    \/ lastId = 0
    \/ lastId + 1 < MinSeq
    \/ \E i \in DOMAIN log : log[i].panel = panel /\ lastId < log[i].seq
StaleOutlives == \A panel \in stale \cap Subscribed : SentAgain(panel) \/ HalfReceived(panel)

Order == TypeOK /\ RowsRun /\ CursorsBehind
IInv == Order /\ SentInTurn /\ QueueCovers /\ StaleOutlives /\ StaleIsOnItsWay

-----------------------------------------------------------------------------
(* The log and what is read from it.                                       *)

LEMMA Bounds == MaxSeq \in Nat /\ MaxRebuilds \in Nat
  BY ConstantsAssumption

LEMMA EndsOfRows ==
    ASSUME NEW rows \in Seq(Row), rows # <<>>, NEW h \in Nat,
           \A i \in DOMAIN rows : rows[i].seq = h - Len(rows) + i
    PROVE  Min(SeqsOf(rows)) = h - Len(rows) + 1 /\ Max(SeqsOf(rows)) = h
  <1>1. Len(rows) \in Nat \ {0} /\ DOMAIN rows = 1..Len(rows)
    BY EmptySeq, LenProperties
  <1> DEFINE S == SeqsOf(rows)
             lo == h - Len(rows) + 1
  <1>2. \A x \in S : x \in Int /\ lo <= x /\ x <= h
    BY <1>1 DEF SeqsOf
  <1>3. lo \in S
    <2>1. 1 \in DOMAIN rows /\ rows[1].seq = lo
      BY <1>1
    <2> QED
      BY <2>1 DEF SeqsOf
  <1>4. h \in S
    <2>1. Len(rows) \in DOMAIN rows /\ rows[Len(rows)].seq = h
      BY <1>1
    <2> QED
      BY <2>1 DEF SeqsOf
  <1>5. lo \in Int /\ h \in Int
    BY <1>1
  <1> HIDE DEF S, lo
  <1>6. Min(S) \in S /\ \A y \in S : Min(S) =< y
    BY <1>2, <1>3, <1>5 DEF Min
  <1>7. Max(S) \in S /\ \A y \in S : Max(S) >= y
    BY <1>2, <1>4, <1>5 DEF Max
  <1>8. Min(S) = lo
    <2> DEFINE m == Min(S)
    <2>1. m \in Int /\ lo <= m /\ m <= lo
      BY <1>2, <1>3, <1>6
    <2> HIDE DEF m
    <2>2. m = lo
      BY <1>5, <2>1
    <2> QED
      BY <2>2 DEF m
  <1>9. Max(S) = h
    <2> DEFINE m == Max(S)
    <2>1. m \in Int /\ h <= m /\ m <= h
      BY <1>2, <1>4, <1>7
    <2> HIDE DEF m
    <2>2. m = h
      BY <1>5, <2>1
    <2> QED
      BY <2>2 DEF m
  <1> QED
    BY <1>8, <1>9 DEF S, lo

LEMMA Window ==
    TypeOK /\ RowsRun => /\ MinSeq = IF log = <<>> THEN 0 ELSE head - Len(log) + 1
                         /\ MaxSeqNow = head
  <1> SUFFICES ASSUME TypeOK, RowsRun
               PROVE  /\ MinSeq = IF log = <<>> THEN 0 ELSE head - Len(log) + 1
                      /\ MaxSeqNow = head
    OBVIOUS
  <1>1. log \in Seq(Row) /\ head \in Nat
    BY Bounds DEF TypeOK
  <1>2. CASE log = <<>>
    <2>1. head = 0
      BY <1>1, <1>2 DEF RowsRun
    <2> QED
      BY <1>2, <2>1 DEF MinSeq, MaxSeqNow
  <1>3. CASE log # <<>>
    <2>1. Min(SeqsOf(log)) = head - Len(log) + 1 /\ Max(SeqsOf(log)) = head
      BY <1>1, <1>3, EndsOfRows DEF RowsRun
    <2> QED
      BY <1>3, <2>1 DEF MinSeq, MaxSeqNow
  <1> QED
    BY <1>2, <1>3

LEMMA NextWindow ==
    TypeOK' /\ RowsRun' => MinSeq' = IF log' = <<>> THEN 0 ELSE head' - Len(log') + 1
  <1> SUFFICES ASSUME TypeOK', RowsRun'
               PROVE  MinSeq' = IF log' = <<>> THEN 0 ELSE head' - Len(log') + 1
    OBVIOUS
  <1>1. log' \in Seq(Row) /\ head' \in Nat
    BY Bounds DEF TypeOK
  <1>2. CASE log' = <<>>
    BY <1>2 DEF MinSeq
  <1>3. CASE log' # <<>>
    <2>1. Min(SeqsOf(log')) = head' - Len(log') + 1
      BY <1>1, <1>3, EndsOfRows DEF RowsRun
    <2> QED
      BY <1>3, <2>1 DEF MinSeq
  <1> QED
    BY <1>2, <1>3

(* events_since: every row after an id, of the page's sections, in order.  *)
LEMMA EventsAre ==
    ASSUME TypeOK, RowsRun, NEW c \in Nat
    PROVE  /\ EventsSince(c) \in Seq(Update)
           /\ \A k \in DOMAIN EventsSince(c) :
                 /\ c < EventsSince(c)[k].id /\ EventsSince(c)[k].id <= head
                 /\ \E i \in DOMAIN log : /\ log[i].seq = EventsSince(c)[k].id
                                          /\ log[i].panel = EventsSince(c)[k].panel
           /\ \A j, k \in DOMAIN EventsSince(c) : j < k => EventsSince(c)[j].id < EventsSince(c)[k].id
           /\ \A i \in DOMAIN log : log[i].panel \in Subscribed /\ c < log[i].seq =>
                 \E k \in DOMAIN EventsSince(c) : /\ EventsSince(c)[k].panel = log[i].panel
                                                  /\ EventsSince(c)[k].id = log[i].seq
  <1> DEFINE R == {row \in {r \in Range(log) : r.seq > c} : row.panel \in Subscribed}
             s == InOrder(R)
             e == EventsSince(c)
             n == Cardinality(R)
  <1>1. log \in Seq(Row) /\ head \in Nat /\ Len(log) \in Nat /\ DOMAIN log = 1..Len(log)
    BY Bounds, LenProperties DEF TypeOK
  <1>2. \A r \in Range(log) : \E i \in DOMAIN log : r = log[i]
    BY DEF Range
  <1>3. \A i \in DOMAIN log : log[i] \in Range(log) /\ log[i] \in Row
    BY <1>1, ElementOfSeq DEF Range
  <1>4. Range(log) \subseteq Row
    BY <1>2, <1>3
  <1>5. IsFiniteSet(R)
    <2>1. IsFiniteSet(DOMAIN log)
      BY <1>1, FS_Interval
    <2>2. log \in Surjection(DOMAIN log, Range(log))
      BY <1>1, <1>2, <1>3 DEF Surjection
    <2>3. IsFiniteSet(Range(log))
      BY <2>1, <2>2, FS_Surjection
    <2>4. R \subseteq Range(log)
      OBVIOUS
    <2> QED
      BY <2>3, <2>4, PartIsFinite
  <1>6. \A r \in R : r \in Row /\ r.seq \in Nat /\ r.seq \in 1..MaxSeq /\ r.panel \in Subscribed /\ r.seq > c
    BY <1>4, Bounds DEF Row
  <1>7. \A r, q \in R : r.seq = q.seq => r = q
    <2> SUFFICES ASSUME NEW r \in R, NEW q \in R, r.seq = q.seq PROVE r = q
      OBVIOUS
    <2>1. PICK i \in DOMAIN log : r = log[i]
      BY <1>2
    <2>2. PICK j \in DOMAIN log : q = log[j]
      BY <1>2
    <2>3. head - Len(log) + i = head - Len(log) + j /\ i \in Nat /\ j \in Nat
      BY <1>1, <2>1, <2>2 DEF RowsRun
    <2>4. i = j
      BY <1>1, <2>3
    <2> QED
      BY <2>1, <2>2, <2>4
  <1>8. e = [i \in DOMAIN s |-> [id |-> s[i].seq, panel |-> s[i].panel]]
    BY DEF EventsSince, UpdatesOf
  <1>9. \A i \in DOMAIN log : log[i].panel \in Subscribed /\ c < log[i].seq => log[i] \in R
    BY <1>3
  <1>10. \A r \in R : \E i \in DOMAIN log : r = log[i]
    BY <1>2
  <1> HIDE DEF R, s, e, n
  <1>11. /\ n \in Nat /\ s \in [1..n -> R]
         /\ \A i, j \in 1..n : i < j => s[i].seq < s[j].seq
         /\ \A r \in R : \E i \in 1..n : s[i] = r
    <2>1. \A r \in R : r.seq \in Nat
      BY <1>6
    <2> QED
      BY <1>5, <1>7, <2>1, InOrderIsOrder DEF s, n
  <1>12. DOMAIN e = 1..n /\ \A k \in 1..n : s[k] \in R /\ e[k].id = s[k].seq /\ e[k].panel = s[k].panel
    BY <1>8, <1>11
  <1>13. e \in Seq(Update)
    <2>1. \A k \in 1..n : e[k] \in Update
      <3> SUFFICES ASSUME NEW k \in 1..n PROVE e[k] \in Update
        OBVIOUS
      <3>1. e[k] = [id |-> s[k].seq, panel |-> s[k].panel]
        BY <1>8, <1>11
      <3>2. s[k].seq \in 0..MaxSeq /\ s[k].panel \in Subscribed
        BY <1>6, <1>12, Bounds
      <3> QED
        BY <3>1, <3>2 DEF Update
    <2>2. e = [k \in 1..n |-> e[k]]
      BY <1>8, <1>11
    <2> QED
      BY <1>11, <2>1, <2>2, IsASeq
  <1>14. \A i \in DOMAIN log : log[i].seq <= head
    BY <1>1 DEF RowsRun
  <1>15. \A k \in DOMAIN e : /\ c < e[k].id /\ e[k].id <= head
                             /\ \E i \in DOMAIN log : log[i].seq = e[k].id /\ log[i].panel = e[k].panel
    <2> SUFFICES ASSUME NEW k \in DOMAIN e
                 PROVE  /\ c < e[k].id /\ e[k].id <= head
                        /\ \E i \in DOMAIN log : log[i].seq = e[k].id /\ log[i].panel = e[k].panel
      OBVIOUS
    <2>1. s[k] \in R /\ e[k].id = s[k].seq /\ e[k].panel = s[k].panel
      BY <1>12
    <2>2. PICK i \in DOMAIN log : s[k] = log[i]
      BY <1>10, <2>1
    <2> QED
      BY <1>6, <1>14, <2>1, <2>2
  <1>16. \A j, k \in DOMAIN e : j < k => e[j].id < e[k].id
    BY <1>11, <1>12
  <1>17. \A i \in DOMAIN log : log[i].panel \in Subscribed /\ c < log[i].seq =>
            \E k \in DOMAIN e : e[k].panel = log[i].panel /\ e[k].id = log[i].seq
    <2> SUFFICES ASSUME NEW i \in DOMAIN log, log[i].panel \in Subscribed, c < log[i].seq
                 PROVE  \E k \in DOMAIN e : e[k].panel = log[i].panel /\ e[k].id = log[i].seq
      OBVIOUS
    <2>1. PICK k \in 1..n : s[k] = log[i]
      BY <1>9, <1>11
    <2> QED
      BY <1>12, <2>1
  <1> QED
    BY <1>13, <1>15, <1>16, <1>17 DEF e

(* refetch_all: every section of the page, with the newest id.             *)
LEMMA RefetchIs ==
    ASSUME TypeOK, RowsRun, NEW list \in RefetchAll
    PROVE  /\ list \in Seq(Update)
           /\ \A k \in DOMAIN list : list[k].id = head
           /\ \A panel \in Subscribed : \E k \in DOMAIN list : list[k].panel = panel
  <1>1. PICK ps \in SetToSeqs(Subscribed) : list = [i \in DOMAIN ps |-> [id |-> MaxSeqNow, panel |-> ps[i]]]
    BY DEF RefetchAll
  <1> DEFINE n == Cardinality(Subscribed)
  <1>2. /\ n \in Nat /\ ps \in [1..n -> Subscribed]
        /\ \A panel \in Subscribed : \E i \in 1..n : ps[i] = panel
    BY ConstantsAssumption, ListsHoldAll
  <1>3. MaxSeqNow = head /\ head \in 0..MaxSeq
    BY Window DEF TypeOK
  <1> HIDE DEF n
  <1>4. list = [i \in 1..n |-> [id |-> head, panel |-> ps[i]]]
    BY <1>1, <1>2, <1>3
  <1>5. \A i \in 1..n : list[i] \in Update
    BY <1>2, <1>3, <1>4 DEF Update
  <1>6. list \in Seq(Update)
    <2>1. list = [i \in 1..n |-> list[i]]
      BY <1>4
    <2> QED
      BY <1>2, <1>5, <2>1, IsASeq
  <1> QED
    BY <1>2, <1>4, <1>6

-----------------------------------------------------------------------------
(* The log grows at one end and is pruned at the other.                    *)

LEMMA Numbers ==
    Order => /\ head \in Nat /\ cursor \in Nat /\ low \in Nat /\ lastId \in Nat /\ Len(log) \in Nat
             /\ DOMAIN log = 1..Len(log)
             /\ \A i \in DOMAIN log : log[i] \in Row /\ log[i].seq \in Nat
             /\ \A i \in DOMAIN queue : queue[i].id \in Nat
             /\ \A i \in DOMAIN pipe : pipe[i].id \in Nat
  <1> SUFFICES ASSUME Order PROVE
             /\ head \in Nat /\ cursor \in Nat /\ low \in Nat /\ lastId \in Nat /\ Len(log) \in Nat
             /\ DOMAIN log = 1..Len(log)
             /\ \A i \in DOMAIN log : log[i] \in Row /\ log[i].seq \in Nat
             /\ \A i \in DOMAIN queue : queue[i].id \in Nat
             /\ \A i \in DOMAIN pipe : pipe[i].id \in Nat
    OBVIOUS
  <1>1. log \in Seq(Row) /\ queue \in Seq(Update) /\ pipe \in Seq(Update)
    BY DEF Order, TypeOK
  <1>2. \A i \in DOMAIN log : log[i] \in Row /\ log[i].seq \in Nat
    <2>1. \A r \in Row : r.seq \in Nat
      BY Bounds DEF Row
    <2> QED
      BY <1>1, <2>1, ElementOfSeq, LenProperties
  <1>3. /\ \A i \in DOMAIN queue : queue[i] \in Update
        /\ \A i \in DOMAIN pipe : pipe[i] \in Update
    BY <1>1, ElementOfSeq, LenProperties
  <1>4. \A u \in Update : u.id \in Nat
    BY Bounds DEF Update
  <1> QED
    BY <1>1, <1>2, <1>3, <1>4, LenProperties, Bounds DEF Order, TypeOK

LEMMA NextNumbers == Order' => \A i \in DOMAIN queue' : queue'[i].id \in Nat
  <1> SUFFICES ASSUME Order' PROVE \A i \in DOMAIN queue' : queue'[i].id \in Nat
    OBVIOUS
  <1>1. queue' \in Seq(Update)
    BY DEF Order, TypeOK
  <1>2. \A u \in Update : u.id \in Nat
    BY Bounds DEF Update
  <1> QED
    BY <1>1, <1>2, ElementOfSeq, LenProperties

LEMMA RecordMoves ==
    ASSUME Order, NEW panel \in Panels, RecordChange(panel)
    PROVE  /\ TypeOK' /\ RowsRun'
           /\ Len(log') = Len(log) + 1 /\ head' = head + 1
           /\ \A i \in DOMAIN log : i \in DOMAIN log' /\ log'[i] = log[i]
           /\ \A i \in DOMAIN log' : i \in DOMAIN log \/ log'[i] = [seq |-> head + 1, panel |-> panel]
           /\ \E i \in DOMAIN log' : log'[i] = [seq |-> head + 1, panel |-> panel]
           /\ stale' = stale \cup {panel} /\ UNCHANGED <<server, pipe, lastId, rebuilds>>
  <1> DEFINE row == [seq |-> head + 1, panel |-> panel]
  <1>1. /\ head < MaxSeq /\ head' = head + 1 /\ log' = Append(log, row)
        /\ stale' = stale \cup {panel} /\ UNCHANGED <<server, pipe, lastId, rebuilds>>
    BY DEF RecordChange
  <1>2. log \in Seq(Row) /\ head \in Nat /\ head' \in 0..MaxSeq
    BY <1>1, Bounds DEF Order, TypeOK
  <1>3. row \in Row /\ row.seq = head + 1
    BY <1>1, <1>2, Bounds DEF Row
  <1> HIDE DEF row
  <1>4. /\ log' \in Seq(Row) /\ Len(log') = Len(log) + 1
        /\ \A i \in 1..Len(log) : log'[i] = log[i]
        /\ log'[Len(log) + 1] = row
    BY <1>1, <1>2, <1>3, AppendProperties
  <1>5. Len(log) \in Nat /\ DOMAIN log = 1..Len(log) /\ DOMAIN log' = 1..(Len(log) + 1)
    BY <1>2, <1>4, LenProperties
  <1>6. /\ \A i \in DOMAIN log : i \in DOMAIN log' /\ log'[i] = log[i]
        /\ \A i \in DOMAIN log' : i \in DOMAIN log \/ (i = Len(log) + 1 /\ log'[i] = row)
        /\ Len(log) + 1 \in DOMAIN log'
    BY <1>4, <1>5
  <1>7. TypeOK'
    BY <1>1, <1>2, <1>4 DEF Order, TypeOK, server
  <1>8. RowsRun'
    <2>1. log' # <<>>
      BY <1>4, <1>5
    <2>2. Len(log') <= head'
      BY <1>1, <1>2, <1>4, <1>5 DEF Order, RowsRun
    <2>3. \A i \in DOMAIN log' : log'[i].seq = head' - Len(log') + i
      BY <1>1, <1>2, <1>3, <1>4, <1>5, <1>6 DEF Order, RowsRun
    <2> QED
      BY <2>1, <2>2, <2>3 DEF RowsRun
  <1> QED
    BY <1>1, <1>4, <1>6, <1>7, <1>8 DEF row

LEMMA PruneMoves ==
    ASSUME Order, ~QuietHour, NEW n \in 1..Len(log), Prune(n)
    PROVE  /\ TypeOK' /\ RowsRun' /\ n < Len(log)
           /\ log # <<>> /\ log' # <<>> /\ MinSeq' = MinSeq + n
           /\ \A i \in DOMAIN log : i <= n \/ (i - n \in DOMAIN log' /\ log'[i - n] = log[i])
           /\ \A i \in DOMAIN log' : i + n \in DOMAIN log /\ log'[i] = log[i + n]
           /\ UNCHANGED <<head, server, pipe, lastId, stale, rebuilds>>
  <1>1. /\ n < Len(log) /\ log' = SubSeq(log, n + 1, Len(log))
        /\ UNCHANGED <<head, server, pipe, lastId, stale, rebuilds>>
    BY DEF Prune
  <1>2. log \in Seq(Row) /\ head \in Nat /\ Len(log) \in Nat /\ DOMAIN log = 1..Len(log)
    BY Numbers DEF Order, TypeOK
  <1>3. n \in Nat \ {0}
    BY <1>2
  <1>4. \A i \in (n + 1)..Len(log) : log[i] \in Row
    BY <1>2, <1>3, ElementOfSeq
  <1>5. /\ log' \in Seq(Row) /\ Len(log') = Len(log) - n
        /\ \A i \in 1..(Len(log) - n) : log'[i] = log[i + n]
    <2>1. /\ SubSeq(log, n + 1, Len(log)) \in Seq(Row)
          /\ Len(SubSeq(log, n + 1, Len(log))) = IF n + 1 <= Len(log) THEN Len(log) - (n + 1) + 1 ELSE 0
          /\ \A i \in 1..(Len(log) - (n + 1) + 1) : SubSeq(log, n + 1, Len(log))[i] = log[(n + 1) + i - 1]
      BY <1>2, <1>3, <1>4, SubSeqProperties
    <2>2. n + 1 <= Len(log) /\ Len(log) - (n + 1) + 1 = Len(log) - n
      BY <1>1, <1>2, <1>3
    <2>3. \A i \in 1..(Len(log) - n) : (n + 1) + i - 1 = i + n
      BY <1>2, <1>3
    <2> QED
      BY <1>1, <2>1, <2>2, <2>3
  <1>6. DOMAIN log' = 1..(Len(log) - n)
    BY <1>5, LenProperties
  <1>7. /\ \A i \in DOMAIN log : i <= n \/ (i - n \in DOMAIN log' /\ log'[i - n] = log[i])
        /\ \A i \in DOMAIN log' : i + n \in DOMAIN log /\ log'[i] = log[i + n]
    <2>1. Len(log) \in Nat /\ n \in Nat
      BY <1>2, <1>3
    <2>2. ASSUME NEW i \in 1..Len(log), ~(i <= n) PROVE i - n \in 1..(Len(log) - n) /\ (i - n) + n = i
      BY <2>1, <2>2
    <2>3. ASSUME NEW i \in 1..(Len(log) - n) PROVE i + n \in 1..Len(log)
      BY <2>1
    <2>4. ASSUME NEW i \in DOMAIN log, ~(i <= n) PROVE i - n \in DOMAIN log' /\ log'[i - n] = log[i]
      <3>1. i - n \in 1..(Len(log) - n) /\ (i - n) + n = i
        BY <1>2, <2>2, <2>4
      <3>2. log'[i - n] = log[(i - n) + n]
        BY <1>5, <3>1
      <3> QED
        BY <1>6, <3>1, <3>2
    <2>5. ASSUME NEW i \in DOMAIN log' PROVE i + n \in DOMAIN log /\ log'[i] = log[i + n]
      BY <1>2, <1>5, <1>6, <2>3
    <2> QED
      BY <2>4, <2>5
  <1>8. TypeOK'
    <2>1. UNCHANGED <<head, server, pipe, lastId, stale, rebuilds>> /\ log' \in Seq(Row)
      BY <1>1, <1>5
    <2> QED
      BY <2>1 DEF Order, TypeOK, server
  <1>9. /\ head' = head /\ Len(log') = Len(log) - n /\ Len(log) <= head
        /\ Len(log') \in Nat \ {0} /\ Len(log) \in Nat \ {0} /\ n < Len(log)
    <2>1. Len(log) <= head
      BY DEF Order, RowsRun
    <2>2. n < Len(log) /\ head' = head /\ Len(log') = Len(log) - n
      BY <1>1, <1>5
    <2>3. Len(log) \in Nat /\ n \in Nat /\ n # 0
      BY <1>2, <1>3
    <2> QED
      BY <2>1, <2>2, <2>3
  <1>10. log # <<>> /\ log' # <<>>
    BY <1>2, <1>5, <1>9, EmptySeq
  <1>11. RowsRun'
    <2>1. Len(log') <= head'
      <3>1. Len(log) \in Nat /\ n \in Nat /\ head \in Nat
        BY <1>2, <1>3
      <3> QED
        BY <1>9, <3>1
    <2>2. \A i \in DOMAIN log' : log'[i].seq = head' - Len(log') + i
      <3> SUFFICES ASSUME NEW i \in DOMAIN log' PROVE log'[i].seq = head' - Len(log') + i
        OBVIOUS
      <3>1. i + n \in DOMAIN log /\ log'[i] = log[i + n] /\ i \in Nat
        BY <1>2, <1>3, <1>6, <1>7
      <3>2. log[i + n].seq = head - Len(log) + (i + n)
        BY <3>1 DEF Order, RowsRun
      <3>3. Len(log) \in Nat /\ n \in Nat /\ head \in Nat
        BY <1>2, <1>3
      <3> QED
        BY <1>9, <3>1, <3>2, <3>3
    <2> QED
      BY <1>10, <2>1, <2>2 DEF RowsRun
  <1>12. MinSeq' = MinSeq + n
    <2>1. MinSeq' = head' - Len(log') + 1
      BY <1>8, <1>10, <1>11, NextWindow
    <2>2. MinSeq = head - Len(log) + 1
      BY <1>10, Window DEF Order
    <2>3. Len(log) \in Nat /\ n \in Nat /\ head \in Nat
      BY <1>2, <1>3
    <2> QED
      BY <1>9, <2>1, <2>2, <2>3
  <1> QED
    BY <1>1, <1>7, <1>8, <1>10, <1>11, <1>12

(* Either way: a row that goes leaves the window above it, and what is     *)
(* new has the newest id.                                                  *)
LEMMA LogMoves ==
    ASSUME Order, ~QuietHour,
           (\E panel \in Panels : RecordChange(panel)) \/ (\E n \in 1..Len(log) : Prune(n))
    PROVE  /\ Order'
           /\ MinSeq' \in Nat /\ MinSeq \in Nat /\ MinSeq <= MinSeq'
           /\ \A i \in DOMAIN log : (\E j \in DOMAIN log' : log'[j] = log[i]) \/ log[i].seq < MinSeq'
           /\ \A j \in DOMAIN log' : (\E i \in DOMAIN log : log[i] = log'[j]) \/ log'[j].seq = head + 1
           /\ UNCHANGED <<server, pipe, lastId, rebuilds>>
  <1>1. CASE \E panel \in Panels : RecordChange(panel)
    <2>1. PICK panel \in Panels : RecordChange(panel)
      BY <1>1
    <2>2. /\ TypeOK' /\ RowsRun' /\ head' = head + 1 /\ Len(log') = Len(log) + 1
          /\ UNCHANGED <<server, pipe, lastId, rebuilds>>
      BY <2>1, RecordMoves
    <2>3. CursorsBehind'
      BY <2>2, Numbers DEF Order, CursorsBehind, server
    <2>4. MinSeq' = head' - Len(log') + 1
      <3>1. log' # <<>>
        BY <2>2, Numbers DEF RowsRun
      <3> QED
        BY <2>2, <3>1, NextWindow
    <2>5. MinSeq' \in Nat /\ MinSeq \in Nat /\ MinSeq <= MinSeq'
      BY <2>2, <2>4, Window, Numbers DEF Order, RowsRun
    <2> QED
      BY <2>1, <2>2, <2>3, <2>5, RecordMoves DEF Order
  <1>2. CASE \E n \in 1..Len(log) : Prune(n)
    <2>1. PICK n \in 1..Len(log) : Prune(n)
      BY <1>2
    <2>2. /\ TypeOK' /\ RowsRun' /\ log # <<>> /\ MinSeq' = MinSeq + n
          /\ UNCHANGED <<head, server, pipe, lastId, rebuilds>>
          /\ \A i \in DOMAIN log : i <= n \/ (i - n \in DOMAIN log' /\ log'[i - n] = log[i])
          /\ \A i \in DOMAIN log' : i + n \in DOMAIN log /\ log'[i] = log[i + n]
      BY <2>1, PruneMoves
    <2>3. CursorsBehind'
      BY <2>2 DEF Order, CursorsBehind, server
    <2>4. MinSeq = head - Len(log) + 1 /\ MinSeq \in Nat /\ n \in Nat
      BY <2>2, Window, Numbers DEF Order, RowsRun
    <2>5. \A i \in DOMAIN log : i <= n => log[i].seq < MinSeq'
      BY <2>2, <2>4, Numbers DEF Order, RowsRun
    <2> QED
      BY <2>2, <2>3, <2>4, <2>5 DEF Order
  <1> QED
    BY <1>1, <1>2

-----------------------------------------------------------------------------
(* The change log.                                                         *)

LEMMA LogKeepsSent ==
    ASSUME IInv, ~QuietHour,
           (\E panel \in Panels : RecordChange(panel)) \/ (\E n \in 1..Len(log) : Prune(n))
    PROVE  /\ SentInTurn' /\ QueueCovers'
           /\ \A panel \in Panels : SentAgain(panel) \/ HalfReceived(panel) => (SentAgain(panel) \/ HalfReceived(panel))'
  <1>1. /\ Order /\ Order' /\ UNCHANGED <<stream, cursor, low, queue, pipe, lastId, rebuilds>>
        /\ MinSeq' \in Nat /\ MinSeq \in Nat /\ MinSeq <= MinSeq'
        /\ \A i \in DOMAIN log : (\E j \in DOMAIN log' : log'[j] = log[i]) \/ log[i].seq < MinSeq'
        /\ \A j \in DOMAIN log' : (\E i \in DOMAIN log : log[i] = log'[j]) \/ log'[j].seq = head + 1
    BY LogMoves DEF IInv, server
  <1>2. ASSUME NEW u, u.id \in Nat, IsRow(u) PROVE IsRow(u)'
    <2>1. CASE u.id < MinSeq
      BY <1>1, <1>2, <2>1 DEF IsRow
    <2>2. CASE \E i \in DOMAIN log : log[i].seq = u.id /\ log[i].panel = u.panel
      <3>1. PICK i \in DOMAIN log : log[i].seq = u.id /\ log[i].panel = u.panel
        BY <2>2
      <3>2. (\E j \in DOMAIN log' : log'[j] = log[i]) \/ u.id < MinSeq'
        BY <1>1, <3>1
      <3> QED
        BY <3>1, <3>2 DEF IsRow
    <2> QED
      BY <1>2, <2>1, <2>2 DEF IsRow
  <1>3. /\ \A i \in DOMAIN queue : queue[i].id \in Nat /\ queue[i].id <= head
        /\ \A i \in DOMAIN pipe : pipe[i].id \in Nat
        /\ head \in Nat /\ cursor \in Nat /\ lastId \in Nat /\ \A i \in DOMAIN log : log[i].seq \in Nat
    BY <1>1, Numbers DEF Order, CursorsBehind
  <1>4. SentInTurn'
    <2>1. \A i, j \in DOMAIN pipe : i < j => InTurn(pipe[i], pipe[j])'
      <3> SUFFICES ASSUME NEW i \in DOMAIN pipe, NEW j \in DOMAIN pipe, i < j PROVE InTurn(pipe[i], pipe[j])'
        OBVIOUS
      <3>1. InTurn(pipe[i], pipe[j]) /\ pipe[j].id \in Nat /\ pipe' = pipe
        BY <1>1, <1>3 DEF IInv, SentInTurn
      <3> QED
        BY <1>2, <3>1 DEF InTurn
    <2>2. \A i, j \in DOMAIN queue : i < j => InTurn(queue[i], queue[j])'
      <3> SUFFICES ASSUME NEW i \in DOMAIN queue, NEW j \in DOMAIN queue, i < j PROVE InTurn(queue[i], queue[j])'
        OBVIOUS
      <3>1. InTurn(queue[i], queue[j]) /\ queue[j].id \in Nat /\ queue' = queue
        BY <1>1, <1>3 DEF IInv, SentInTurn
      <3> QED
        BY <1>2, <3>1 DEF InTurn
    <2>3. \A i \in DOMAIN pipe, j \in DOMAIN queue : InTurn(pipe[i], queue[j])'
      <3> SUFFICES ASSUME NEW i \in DOMAIN pipe, NEW j \in DOMAIN queue PROVE InTurn(pipe[i], queue[j])'
        OBVIOUS
      <3>1. InTurn(pipe[i], queue[j]) /\ queue[j].id \in Nat /\ queue' = queue /\ pipe' = pipe
        BY <1>1, <1>3 DEF IInv, SentInTurn
      <3> QED
        BY <1>2, <3>1 DEF InTurn
    <2> QED
      BY <1>1, <2>1, <2>2, <2>3 DEF SentInTurn
  <1>5. QueueCovers'
    <2> SUFFICES ASSUME NEW k \in DOMAIN queue, NEW i \in DOMAIN log',
                        log'[i].panel \in Subscribed, cursor < log'[i].seq, log'[i].seq <= queue[k].id
                 PROVE  \E j \in DOMAIN queue : queue[j].panel = log'[i].panel /\ log'[i].seq <= queue[j].id
      BY <1>1 DEF QueueCovers
    <2>1. log'[i].seq # head + 1
      BY <1>3
    <2>2. PICK h \in DOMAIN log : log[h] = log'[i]
      BY <1>1, <2>1
    <2> QED
      BY <2>2 DEF IInv, QueueCovers
  <1>6. ASSUME NEW panel \in Panels, SentAgain(panel) \/ HalfReceived(panel)
        PROVE  (SentAgain(panel) \/ HalfReceived(panel))'
    <2>1. CASE lastId = 0 \/ HalfReceived(panel)
      BY <1>1, <2>1 DEF SentAgain, HalfReceived
    <2>2. CASE lastId + 1 < MinSeq
      BY <1>1, <1>3, <2>2 DEF SentAgain
    <2>3. CASE \E i \in DOMAIN log : log[i].panel = panel /\ lastId < log[i].seq
      <3>1. PICK i \in DOMAIN log : log[i].panel = panel /\ lastId < log[i].seq
        BY <2>3
      <3>2. CASE \E j \in DOMAIN log' : log'[j] = log[i]
        BY <1>1, <3>1, <3>2 DEF SentAgain
      <3>3. CASE log[i].seq < MinSeq'
        <4>1. lastId' + 1 < MinSeq'
          BY <1>1, <1>3, <3>1, <3>3
        <4> QED
          BY <4>1 DEF SentAgain
      <3> QED
        BY <1>1, <3>2, <3>3
    <2> QED
      BY <1>6, <2>1, <2>2, <2>3 DEF SentAgain
  <1> QED
    BY <1>4, <1>5, <1>6

LEMMA RecordKeeps ==
    ASSUME IInv, ~QuietHour, NEW new \in Panels, RecordChange(new)
    PROVE  IInv'
  <1>1. /\ Order /\ TypeOK' /\ RowsRun' /\ Len(log') = Len(log) + 1 /\ head' = head + 1
        /\ \A i \in DOMAIN log : i \in DOMAIN log' /\ log'[i] = log[i]
        /\ stale' = stale \cup {new} /\ UNCHANGED <<stream, cursor, low, queue, pipe, lastId, rebuilds>>
    BY RecordMoves DEF IInv, server
  <1>2. PICK h \in DOMAIN log' : log'[h].seq = head + 1 /\ log'[h].panel = new
    <2>1. PICK h \in DOMAIN log' : log'[h] = [seq |-> head + 1, panel |-> new]
      BY RecordMoves DEF IInv
    <2> QED
      BY <2>1
  <1>3. head \in Nat /\ lastId \in Nat /\ cursor \in Nat /\ lastId <= head /\ cursor <= head /\ Len(log) \in Nat
    BY <1>1, Numbers DEF Order, CursorsBehind
  <1>4. Order' /\ SentInTurn' /\ QueueCovers'
    BY LogKeepsSent, LogMoves DEF IInv
  <1>5. StaleOutlives'
    <2> SUFFICES ASSUME NEW panel \in stale' \cap Subscribed PROVE (SentAgain(panel) \/ HalfReceived(panel))'
      BY DEF StaleOutlives
    <2>1. CASE panel = new
      <3>1. lastId' < log'[h].seq
        BY <1>1, <1>2, <1>3
      <3> QED
        BY <1>2, <2>1, <3>1 DEF SentAgain
    <2>2. CASE panel \in stale
      <3>1. SentAgain(panel) \/ HalfReceived(panel)
        BY <2>2 DEF IInv, StaleOutlives
      <3>2. panel \in Panels
        BY ConstantsAssumption
      <3> QED
        BY <3>1, <3>2, LogKeepsSent
    <2> QED
      BY <1>1, <2>1, <2>2
  <1>6. WillRefetch => WillRefetch'
    <2>1. MinSeq = 0 \/ MinSeq' = MinSeq
      <3>1. log' # <<>>
        BY <1>1, <1>3
      <3>2. MinSeq' = head' - Len(log') + 1
        BY <1>1, <3>1, NextWindow
      <3>3. MinSeq = 0 \/ MinSeq = head - Len(log) + 1
        BY <1>1, Window DEF Order
      <3> QED
        BY <1>1, <1>3, <3>2, <3>3
    <2>2. From' = From /\ From \in Nat
      BY <1>1, <1>3 DEF From
    <2> QED
      BY <1>1, <2>1, <2>2 DEF WillRefetch, Refetches
  <1>7. StaleIsOnItsWay'
    <2> SUFFICES ASSUME NEW panel \in stale' \cap Subscribed PROVE OnItsWay(panel)'
      BY DEF StaleIsOnItsWay
    <2>1. From' = From /\ From < head + 1
      BY <1>1, <1>3 DEF From
    <2>2. CASE panel = new
      BY <1>2, <2>1, <2>2 DEF OnItsWay
    <2>3. CASE panel \in stale
      <3>1. OnItsWay(panel)
        BY <2>3 DEF IInv, StaleIsOnItsWay
      <3>2. CASE \E i \in DOMAIN log : log[i].panel = panel /\ log[i].seq > From
        BY <1>1, <2>1, <3>2 DEF OnItsWay
      <3> QED
        BY <1>1, <1>6, <3>1, <3>2 DEF OnItsWay
    <2> QED
      BY <1>1, <2>2, <2>3
  <1> QED
    BY <1>4, <1>5, <1>7 DEF IInv

LEMMA PruneKeeps ==
    ASSUME IInv, ~QuietHour, ~PruneInReplay, NEW n \in 1..Len(log), Prune(n)
    PROVE  IInv'
  <1>1. /\ Order /\ MinSeq' = MinSeq + n
        /\ \A i \in DOMAIN log : i <= n \/ (i - n \in DOMAIN log' /\ log'[i - n] = log[i])
        /\ UNCHANGED <<head, stream, cursor, low, queue, pipe, lastId, stale, rebuilds>>
    BY PruneMoves DEF IInv, server
  <1>2. /\ Order' /\ SentInTurn' /\ QueueCovers'
        /\ MinSeq' \in Nat /\ MinSeq \in Nat /\ MinSeq <= MinSeq'
        /\ \A i \in DOMAIN log : (\E j \in DOMAIN log' : log'[j] = log[i]) \/ log[i].seq < MinSeq'
    BY LogKeepsSent, LogMoves DEF IInv
  <1>3. StaleOutlives'
    <2> SUFFICES ASSUME NEW panel \in stale \cap Subscribed PROVE (SentAgain(panel) \/ HalfReceived(panel))'
      BY <1>1 DEF StaleOutlives
    <2>1. SentAgain(panel) \/ HalfReceived(panel)
      BY DEF IInv, StaleOutlives
    <2>2. panel \in Panels
      BY ConstantsAssumption
    <2> QED
      BY <2>1, <2>2, LogKeepsSent
  <1>4. /\ lastId \in Nat /\ cursor \in Nat /\ \A i \in DOMAIN log : log[i].seq \in Nat
        /\ stream # "none" => lastId <= cursor
        /\ From' = From /\ From \in Nat
    BY <1>1, Numbers DEF Order, CursorsBehind, From
  <1>5. WillRefetch => WillRefetch'
    BY <1>1, <1>2, <1>4 DEF WillRefetch, Refetches
  <1>6. ASSUME NEW panel \in stale \cap Subscribed PROVE OnItsWay(panel)'
    <2>1. OnItsWay(panel)
      BY DEF IInv, StaleIsOnItsWay
    <2>2. CASE \E i \in DOMAIN log : log[i].panel = panel /\ log[i].seq > From
      <3>1. PICK i \in DOMAIN log : log[i].panel = panel /\ log[i].seq > From
        BY <2>2
      <3>2. CASE \E j \in DOMAIN log' : log'[j] = log[i]
        BY <1>4, <3>1, <3>2 DEF OnItsWay
      <3>3. CASE /\ log[i].seq < MinSeq' /\ stream \in {"none", "connected"}
        <4>1. From' + 1 < MinSeq' /\ MinSeq' > 0
          BY <1>2, <1>4, <3>1, <3>3
        <4>2. stream' # "open" /\ stream' # "windowed"
          BY <1>1, <3>3
        <4>3. WillRefetch'
          BY <4>1, <4>2 DEF WillRefetch, Refetches
        <4> QED
          BY <4>3 DEF OnItsWay
      <3>4. CASE i <= n /\ stream \notin {"none", "connected"}
        <4>1. i \in 1..n
          BY <1>1, <3>4, Numbers
        <4>2. MayBeOld(log[i])
          BY <3>1, <4>1 DEF Prune
        <4>3. From = cursor /\ ~(log[i].seq =< cursor)
          BY <1>4, <3>1, <3>4 DEF From
        <4>4. CASE HasRead(log[i])
          BY <1>1, <3>1, <4>3, <4>4 DEF HasRead, OnItsWay
        <4>5. CASE stream = "windowed" /\ Refetches(cursor, low)
          <5>1. WillRefetch
            BY <4>3, <4>5 DEF WillRefetch
          <5> QED
            BY <1>5, <5>1 DEF OnItsWay
        <4> QED
          BY <3>4, <4>2, <4>4, <4>5 DEF MayBeOld
      <3>5. i <= n \/ \E j \in DOMAIN log' : log'[j] = log[i]
        BY <1>1
      <3> QED
        BY <1>2, <3>2, <3>3, <3>4, <3>5
    <2> QED
      BY <1>1, <1>5, <2>1, <2>2 DEF OnItsWay
  <1>7. StaleIsOnItsWay'
    BY <1>1, <1>6 DEF StaleIsOnItsWay
  <1> QED
    BY <1>2, <1>3, <1>7 DEF IInv

-----------------------------------------------------------------------------
(* The stream.                                                             *)

(* What depends on the log and the page alone stays while they do.         *)
LEMMA SameLog ==
    ASSUME IInv, UNCHANGED <<log, head>>
    PROVE  /\ MinSeq' = MinSeq /\ MinSeq \in Nat /\ RowsRun'
           /\ \A u : IsRow(u)' <=> IsRow(u)
           /\ \A u, v : InTurn(u, v)' <=> InTurn(u, v)
           /\ lastId' = lastId => \A panel : SentAgain(panel)' <=> SentAgain(panel)
  <1>1. MinSeq' = MinSeq
    BY DEF MinSeq
  <1>2. MinSeq \in Nat
    BY Window, Numbers DEF IInv, Order, RowsRun
  <1>3. RowsRun'
    BY DEF IInv, Order, RowsRun
  <1>4. \A u : IsRow(u)' <=> IsRow(u)
    BY <1>1 DEF IsRow
  <1>5. \A u, v : InTurn(u, v)' <=> InTurn(u, v)
    BY <1>4 DEF InTurn
  <1>6. lastId' = lastId => \A panel : SentAgain(panel)' <=> SentAgain(panel)
    BY <1>1 DEF SentAgain
  <1> QED
    BY <1>1, <1>2, <1>3, <1>4, <1>5, <1>6

(* EventSource connects, and the server reads the window.                  *)
LEMMA ConnectKeeps ==
    ASSUME IInv, Connect \/ ReadWindow
    PROVE  IInv'
  <1>1. /\ UNCHANGED <<log, head, queue, pipe, lastId, stale, rebuilds>>
        /\ stream # "open" /\ queue = <<>> /\ pipe = <<>>
        /\ stream' \in {"connected", "windowed"} /\ cursor' \in {cursor, lastId} /\ low' \in {low, MinSeq}
        /\ From' = From
        /\ stream' = "windowed" => low' = MinSeq /\ stream = "connected"
        /\ stream' = "connected" => stream = "none" /\ cursor' = lastId
        /\ stream' = "windowed" => cursor' = cursor
    <2>1. CASE Connect
      BY <2>1 DEF Connect, From, IInv, Order, CursorsBehind
    <2>2. CASE ReadWindow
      BY <2>2 DEF ReadWindow, From, IInv, Order, CursorsBehind
    <2> QED
      BY <2>1, <2>2
  <1>2. /\ MinSeq' = MinSeq /\ MinSeq \in Nat /\ RowsRun' /\ MinSeq <= head
        /\ \A panel : SentAgain(panel)' <=> SentAgain(panel)
    <2>1. MinSeq <= head
      BY Window, Numbers, EmptySeq DEF IInv, Order, RowsRun
    <2> QED
      BY <1>1, <2>1, SameLog
  <1>3. MinSeq \in 0..MaxSeq /\ head \in Nat
    BY <1>2, Bounds, Numbers DEF IInv, Order, TypeOK
  <1>4. TypeOK'
    BY <1>1, <1>3 DEF IInv, Order, TypeOK
  <1>5. CursorsBehind'
    BY <1>1, <1>2, <1>3, Numbers DEF IInv, Order, CursorsBehind
  <1>6. SentInTurn' /\ QueueCovers'
    BY <1>1 DEF SentInTurn, QueueCovers
  <1>7. StaleOutlives'
    BY <1>1, <1>2 DEF IInv, StaleOutlives, HalfReceived
  <1>8. WillRefetch => WillRefetch'
    BY <1>1, <1>2 DEF WillRefetch, Refetches
  <1>9. StaleIsOnItsWay'
    BY <1>1, <1>8 DEF IInv, StaleIsOnItsWay, OnItsWay
  <1> QED
    BY <1>2, <1>4, <1>5, <1>6, <1>7, <1>9 DEF IInv, Order

(* The rows the stream is about to send.                                   *)
LEMMA RowsToSend ==
    ASSUME Order
    PROVE  LET rows == EventsSince(cursor)
           IN  /\ rows \in Seq(Update)
               /\ \A k \in DOMAIN rows : cursor < rows[k].id /\ rows[k].id <= head /\ IsRow(rows[k])
               /\ \A j, k \in DOMAIN rows : j < k => InTurn(rows[j], rows[k])
               /\ \A i \in DOMAIN log : log[i].panel \in Subscribed /\ cursor < log[i].seq =>
                     \E k \in DOMAIN rows : rows[k].panel = log[i].panel /\ log[i].seq <= rows[k].id
  <1> DEFINE rows == EventsSince(cursor)
  <1>1. cursor \in Nat /\ head \in Nat /\ \A i \in DOMAIN log : log[i].seq \in Nat
    BY Numbers
  <1>2. /\ rows \in Seq(Update)
        /\ \A k \in DOMAIN rows :
              /\ cursor < rows[k].id /\ rows[k].id <= head
              /\ \E i \in DOMAIN log : log[i].seq = rows[k].id /\ log[i].panel = rows[k].panel
        /\ \A j, k \in DOMAIN rows : j < k => rows[j].id < rows[k].id
        /\ \A i \in DOMAIN log : log[i].panel \in Subscribed /\ cursor < log[i].seq =>
              \E k \in DOMAIN rows : rows[k].panel = log[i].panel /\ rows[k].id = log[i].seq
    BY <1>1, EventsAre DEF Order
  <1> HIDE DEF rows
  <1>3. \A k \in DOMAIN rows : rows[k].id \in Nat
    <2>1. \A u \in Update : u.id \in Nat
      BY Bounds DEF Update
    <2> QED
      BY <1>2, <2>1, ElementOfSeq, LenProperties
  <1>4. \A k \in DOMAIN rows : IsRow(rows[k])
    BY <1>2 DEF IsRow
  <1>5. \A j, k \in DOMAIN rows : j < k => InTurn(rows[j], rows[k])
    BY <1>2, <1>3, <1>4 DEF InTurn
  <1>6. \A i \in DOMAIN log : log[i].panel \in Subscribed /\ cursor < log[i].seq =>
           \E k \in DOMAIN rows : rows[k].panel = log[i].panel /\ log[i].seq <= rows[k].id
    BY <1>1, <1>2
  <1> QED
    BY <1>2, <1>4, <1>5, <1>6 DEF rows

(* The stream is given the rows it missed, or a refetch of everything.     *)
LEMMA ReplayKeeps ==
    ASSUME IInv, Replay
    PROVE  IInv'
  <1>1. /\ Order /\ UNCHANGED <<log, head, cursor, pipe, lastId, stale, rebuilds>>
        /\ stream = "windowed" /\ stream' = "open" /\ low' = 0
        /\ queue = <<>> /\ pipe = <<>> /\ queue' \in ReplayOrRefetch(cursor, low)
    BY DEF Replay, IInv, Order, CursorsBehind
  <1>2. /\ MinSeq' = MinSeq /\ RowsRun'
        /\ \A u, v : InTurn(u, v)' <=> InTurn(u, v)
        /\ \A panel : SentAgain(panel)' <=> SentAgain(panel)
    BY <1>1, SameLog
  <1>3. /\ head \in Nat /\ cursor \in Nat /\ lastId \in Nat /\ \A i \in DOMAIN log : log[i].seq \in Nat
        /\ \A i \in DOMAIN log : log[i].seq <= head
    <2>1. head \in Nat /\ Len(log) \in Nat /\ DOMAIN log = 1..Len(log)
      BY <1>1, Numbers
    <2>2. \A i \in DOMAIN log : log[i].seq <= head
      BY <1>1, <2>1 DEF Order, RowsRun
    <2> QED
      BY <1>1, <2>2, Numbers
  <1>4. CASE cursor = 0 \/ (low > 0 /\ cursor + 1 < low)
    <2>1. queue' \in RefetchAll
      BY <1>1, <1>4 DEF ReplayOrRefetch, Refetches
    <2>2. /\ queue' \in Seq(Update)
          /\ \A k \in DOMAIN queue' : queue'[k].id = head
          /\ \A panel \in Subscribed : \E k \in DOMAIN queue' : queue'[k].panel = panel
      BY <1>1, <2>1, RefetchIs DEF Order
    <2>3. Order'
      BY <1>1, <1>2, <1>3, <2>2, Bounds DEF Order, TypeOK, CursorsBehind
    <2>4. \A i, j \in DOMAIN queue' : InTurn(queue'[i], queue'[j])
      BY <1>3, <2>2 DEF InTurn
    <2>5. SentInTurn'
      BY <1>1, <1>2, <2>4 DEF SentInTurn
    <2>6. QueueCovers'
      BY <1>1, <1>3, <2>2 DEF QueueCovers
    <2>7. StaleOutlives'
      BY <1>1, <1>2 DEF IInv, StaleOutlives, HalfReceived
    <2>8. StaleIsOnItsWay'
      BY <1>1, <2>2 DEF StaleIsOnItsWay, OnItsWay
    <2> QED
      BY <2>3, <2>5, <2>6, <2>7, <2>8 DEF IInv
  <1>5. CASE ~(cursor = 0 \/ (low > 0 /\ cursor + 1 < low))
    <2>1. queue' = EventsSince(cursor)
      BY <1>1, <1>5 DEF ReplayOrRefetch, Refetches
    <2>2. /\ queue' \in Seq(Update)
          /\ \A k \in DOMAIN queue' : queue'[k].id <= head
          /\ \A j, k \in DOMAIN queue' : j < k => InTurn(queue'[j], queue'[k])
          /\ \A i \in DOMAIN log : log[i].panel \in Subscribed /\ cursor < log[i].seq =>
                \E k \in DOMAIN queue' : queue'[k].panel = log[i].panel /\ log[i].seq <= queue'[k].id
      BY <1>1, <2>1, RowsToSend
    <2>3. Order'
      BY <1>1, <1>2, <1>3, <2>2, Bounds DEF Order, TypeOK, CursorsBehind
    <2>4. SentInTurn'
      BY <1>1, <1>2, <2>2 DEF SentInTurn
    <2>5. QueueCovers'
      BY <1>1, <2>2 DEF QueueCovers
    <2>6. StaleOutlives'
      BY <1>1, <1>2 DEF IInv, StaleOutlives, HalfReceived
    <2>7. ~WillRefetch /\ From = cursor /\ From' = cursor
      BY <1>1, <1>5 DEF WillRefetch, From, Refetches
    <2>8. StaleIsOnItsWay'
      BY <1>1, <2>7 DEF IInv, StaleIsOnItsWay, OnItsWay
    <2> QED
      BY <2>3, <2>4, <2>5, <2>6, <2>8 DEF IInv
  <1> QED
    BY <1>4, <1>5

(* Once a second the stream looks for rows it has not sent.                *)
LEMMA TailKeeps ==
    ASSUME IInv, TailLog
    PROVE  IInv'
  <1>1. /\ Order /\ UNCHANGED <<log, head, stream, cursor, low, pipe, lastId, stale, rebuilds>>
        /\ stream = "open" /\ queue = <<>> /\ queue' = EventsSince(cursor)
    BY DEF TailLog, IInv
  <1>2. /\ MinSeq' = MinSeq /\ RowsRun'
        /\ \A u, v : InTurn(u, v)' <=> InTurn(u, v)
        /\ \A panel : SentAgain(panel)' <=> SentAgain(panel)
    BY <1>1, SameLog
  <1>3. /\ queue' \in Seq(Update)
        /\ \A k \in DOMAIN queue' : cursor < queue'[k].id /\ queue'[k].id <= head /\ IsRow(queue'[k])
        /\ \A j, k \in DOMAIN queue' : j < k => InTurn(queue'[j], queue'[k])
        /\ \A i \in DOMAIN log : log[i].panel \in Subscribed /\ cursor < log[i].seq =>
              \E k \in DOMAIN queue' : queue'[k].panel = log[i].panel /\ log[i].seq <= queue'[k].id
    BY <1>1, RowsToSend
  <1>4. Order'
    BY <1>1, <1>2, <1>3 DEF Order, TypeOK, CursorsBehind
  <1>5. \A i \in DOMAIN pipe, j \in DOMAIN queue' : InTurn(pipe[i], queue'[j])
    <2>1. \A i \in DOMAIN pipe : pipe[i].id \in Nat /\ pipe[i].id <= cursor
      BY <1>1, Numbers DEF Order, CursorsBehind
    <2>2. cursor \in Nat /\ \A j \in DOMAIN queue' : queue'[j].id \in Nat
      BY <1>1, <1>4, Numbers, NextNumbers
    <2> QED
      BY <1>3, <2>1, <2>2 DEF InTurn
  <1>6. SentInTurn'
    BY <1>1, <1>2, <1>3, <1>5 DEF IInv, SentInTurn
  <1>7. QueueCovers'
    BY <1>1, <1>3 DEF QueueCovers
  <1>8. StaleOutlives'
    BY <1>1, <1>2 DEF IInv, StaleOutlives, HalfReceived
  <1>9. ~WillRefetch /\ From' = From
    BY <1>1 DEF WillRefetch, From, Refetches
  <1>10. StaleIsOnItsWay'
    BY <1>1, <1>9 DEF IInv, StaleIsOnItsWay, OnItsWay
  <1> QED
    BY <1>4, <1>6, <1>7, <1>8, <1>10 DEF IInv

(* A list without its first, and a list with one more.                     *)
LEMMA FirstAndRest ==
    ASSUME NEW S, NEW s \in Seq(S), s # <<>>
    PROVE  /\ Tail(s) \in Seq(S) /\ 1 \in DOMAIN s /\ s[1] \in S
           /\ \A i \in DOMAIN s : i = 1 \/ (1 < i /\ i - 1 \in DOMAIN Tail(s) /\ Tail(s)[i - 1] = s[i])
           /\ \A i \in DOMAIN Tail(s) : i + 1 \in DOMAIN s /\ 1 < i + 1 /\ Tail(s)[i] = s[i + 1]
  <1>1. /\ Len(s) \in Nat /\ Len(s) # 0 /\ DOMAIN s = 1..Len(s)
        /\ Tail(s) \in Seq(S) /\ Len(Tail(s)) = Len(s) - 1
        /\ \A i \in 1..Len(Tail(s)) : Tail(s)[i] = s[i + 1]
    BY EmptySeq, LenProperties, HeadTailProperties
  <1>2. DOMAIN Tail(s) = 1..(Len(s) - 1)
    BY <1>1, LenProperties
  <1> DEFINE n == Len(s)
             t == Tail(s)
  <1>3. /\ n \in Nat /\ n # 0 /\ DOMAIN s = 1..n /\ DOMAIN t = 1..(n - 1)
        /\ \A i \in 1..(n - 1) : t[i] = s[i + 1]
    BY <1>1, <1>2
  <1>4. 1 \in DOMAIN s /\ s[1] \in S
    <2>1. 1 \in 1..n
      BY <1>3
    <2> QED
      BY <1>3, <2>1, ElementOfSeq
  <1> HIDE DEF n, t
  <1>5. \A i \in 1..n : i = 1 \/ (1 < i /\ i - 1 \in 1..(n - 1) /\ (i - 1) + 1 = i)
    BY <1>3
  <1>6. \A i \in 1..n : i = 1 \/ (1 < i /\ i - 1 \in DOMAIN t /\ t[i - 1] = s[i])
    BY <1>3, <1>5
  <1>7. \A i \in 1..(n - 1) : i + 1 \in 1..n /\ 1 < i + 1
    BY <1>3
  <1> QED
    BY <1>1, <1>3, <1>4, <1>6, <1>7 DEF t

LEMMA OneMore ==
    ASSUME NEW S, NEW s \in Seq(S), NEW x \in S, NEW t, t = Append(s, x)
    PROVE  /\ t \in Seq(S)
           /\ \A i \in DOMAIN s : i \in DOMAIN t /\ t[i] = s[i]
           /\ \E i \in DOMAIN t : t[i] = x
           /\ \A i \in DOMAIN t : (i \in DOMAIN s /\ t[i] = s[i]) \/ (t[i] = x /\ \A j \in DOMAIN t : j <= i)
  <1> DEFINE n == Len(s)
  <1>1. /\ n \in Nat /\ DOMAIN s = 1..n /\ t \in Seq(S) /\ Len(t) = n + 1
        /\ \A i \in 1..n : t[i] = s[i]
        /\ t[n + 1] = x
    BY LenProperties, AppendProperties
  <1>2. DOMAIN t = 1..(n + 1)
    BY <1>1, LenProperties
  <1> HIDE DEF n
  <1>3. \A i \in 1..(n + 1) : i \in 1..n \/ (i = n + 1 /\ \A j \in 1..(n + 1) : j <= i)
    BY <1>1
  <1>4. n + 1 \in DOMAIN t /\ \A i \in 1..n : i \in 1..(n + 1)
    BY <1>1, <1>2
  <1> QED
    BY <1>1, <1>2, <1>3, <1>4

LEMMA MaxOfTwo ==
    ASSUME NEW a \in Nat, NEW b \in Nat
    PROVE  Max({a, b}) \in {a, b} /\ a <= Max({a, b}) /\ b <= Max({a, b})
  <1>1. \E m \in {a, b} : \A y \in {a, b} : m >= y
    <2>1. CASE a >= b
      BY <2>1
    <2>2. CASE b >= a
      BY <2>2
    <2> QED
      BY <2>1, <2>2
  <1>2. Max({a, b}) \in {a, b} /\ \A y \in {a, b} : Max({a, b}) >= y
    BY <1>1 DEF Max
  <1> DEFINE m == Max({a, b})
  <1>3. m \in Nat /\ m >= a /\ m >= b
    BY <1>2
  <1> HIDE DEF m
  <1>4. a <= m /\ b <= m
    BY <1>3
  <1> QED
    BY <1>2, <1>4 DEF m

(* The stream sends the next update.                                       *)
LEMMA YieldKeeps ==
    ASSUME IInv, Yield
    PROVE  IInv'
  <1> DEFINE u == queue[1]
  <1>1. /\ Order /\ UNCHANGED <<log, head, stream, low, lastId, stale, rebuilds>>
        /\ queue # <<>> /\ stream = "open"
        /\ cursor' = Max({cursor, u.id}) /\ pipe' = Append(pipe, u) /\ queue' = Tail(queue)
    BY DEF Yield, IInv, Order, CursorsBehind
  <1>2. queue \in Seq(Update) /\ pipe \in Seq(Update)
    BY <1>1 DEF Order, TypeOK
  <1>3. /\ queue' \in Seq(Update) /\ 1 \in DOMAIN queue /\ u \in Update
        /\ \A i \in DOMAIN queue : i = 1 \/ (1 < i /\ i - 1 \in DOMAIN queue' /\ queue'[i - 1] = queue[i])
        /\ \A i \in DOMAIN queue' : i + 1 \in DOMAIN queue /\ 1 < i + 1 /\ queue'[i] = queue[i + 1]
    BY <1>1, <1>2, FirstAndRest
  <1>4. u.id \in Nat /\ u.id <= head
    BY <1>1, <1>3, Numbers DEF Order, CursorsBehind
  <1> HIDE DEF u
  <1>5. /\ pipe' \in Seq(Update)
        /\ \A i \in DOMAIN pipe : i \in DOMAIN pipe' /\ pipe'[i] = pipe[i]
        /\ \E i \in DOMAIN pipe' : pipe'[i] = u
        /\ \A i \in DOMAIN pipe' :
              (i \in DOMAIN pipe /\ pipe'[i] = pipe[i]) \/ (pipe'[i] = u /\ \A j \in DOMAIN pipe' : j <= i)
    BY <1>1, <1>2, <1>3, OneMore
  <1>6. /\ head \in Nat /\ cursor \in Nat /\ lastId \in Nat /\ \A i \in DOMAIN log : log[i].seq \in Nat
        /\ \A i \in DOMAIN pipe : pipe[i].id \in Nat
        /\ \A i \in DOMAIN queue : queue[i].id \in Nat
        /\ cursor <= head /\ lastId <= cursor
    BY <1>1, Numbers DEF Order, CursorsBehind
  <1>7. cursor' \in {cursor, u.id} /\ cursor <= cursor' /\ u.id <= cursor' /\ cursor' \in Nat /\ cursor' <= head
    BY <1>1, <1>4, <1>6, MaxOfTwo
  <1>8. /\ MinSeq' = MinSeq /\ RowsRun'
        /\ \A a, b : InTurn(a, b)' <=> InTurn(a, b)
        /\ \A panel : SentAgain(panel)' <=> SentAgain(panel)
    BY <1>1, SameLog
  <1>9. TypeOK'
    <2>1. cursor' \in 0..MaxSeq
      BY <1>1, <1>6, <1>7, Bounds DEF Order, TypeOK
    <2> QED
      BY <1>1, <1>3, <1>5, <2>1 DEF Order, TypeOK
  <1>10. CursorsBehind'
    <2>1. \A i \in DOMAIN pipe' : pipe'[i].id <= cursor'
      <3> SUFFICES ASSUME NEW i \in DOMAIN pipe' PROVE pipe'[i].id <= cursor'
        OBVIOUS
      <3>1. CASE i \in DOMAIN pipe /\ pipe'[i] = pipe[i]
        <4>1. pipe[i].id \in Nat /\ pipe[i].id <= cursor
          BY <1>1, <1>6, <3>1 DEF Order, CursorsBehind
        <4> QED
          BY <1>6, <1>7, <3>1, <4>1
      <3>2. CASE pipe'[i] = u
        BY <1>7, <3>2
      <3> QED
        BY <1>5, <3>1, <3>2
    <2>2. \A i \in DOMAIN queue' : queue'[i].id <= head
      BY <1>1, <1>3 DEF Order, CursorsBehind
    <2>3. lastId <= cursor' /\ lastId <= head /\ low <= head
      BY <1>1, <1>6, <1>7 DEF Order, CursorsBehind
    <2> QED
      BY <1>1, <1>7, <2>1, <2>2, <2>3 DEF CursorsBehind
  <1>11. SentInTurn'
    <2>1. /\ \A i, j \in DOMAIN pipe : i < j => InTurn(pipe[i], pipe[j])
          /\ \A i, j \in DOMAIN queue : i < j => InTurn(queue[i], queue[j])
          /\ \A i \in DOMAIN pipe : \A j \in DOMAIN queue : InTurn(pipe[i], queue[j])
      BY DEF IInv, SentInTurn
    <2>2. /\ \A i \in DOMAIN pipe : InTurn(pipe[i], u)
          /\ \A j \in DOMAIN queue : 1 < j => InTurn(u, queue[j])
      BY <1>3, <2>1 DEF u
    <2>3. ASSUME NEW i \in DOMAIN pipe', NEW j \in DOMAIN pipe', i < j
          PROVE  InTurn(pipe'[i], pipe'[j])
      <3>0. DOMAIN pipe' \subseteq Nat
        BY <1>5, LenProperties
      <3>1. i \in DOMAIN pipe /\ pipe'[i] = pipe[i]
        <4>1. i \in Nat /\ j \in Nat
          BY <3>0
        <4>2. ~(j <= i)
          BY <2>3, <4>1
        <4> QED
          BY <1>5, <4>2
      <3>2. CASE j \in DOMAIN pipe /\ pipe'[j] = pipe[j]
        BY <2>1, <2>3, <3>1, <3>2
      <3>3. CASE pipe'[j] = u
        BY <2>2, <3>1, <3>3
      <3> QED
        BY <1>5, <3>2, <3>3
    <2>4. ASSUME NEW i \in DOMAIN queue', NEW j \in DOMAIN queue', i < j
          PROVE  InTurn(queue'[i], queue'[j])
      <3>1. DOMAIN queue' \subseteq Nat
        BY <1>3, LenProperties
      <3>2. i + 1 < j + 1
        BY <2>4, <3>1
      <3> QED
        BY <1>3, <2>1, <3>2
    <2>5. ASSUME NEW i \in DOMAIN pipe', NEW j \in DOMAIN queue' PROVE InTurn(pipe'[i], queue'[j])
      BY <1>3, <1>5, <2>1, <2>2
    <2> QED
      BY <1>8, <2>3, <2>4, <2>5 DEF SentInTurn
  <1>12. ASSUME NEW j \in DOMAIN queue PROVE queue[j] = u \/ \E i \in DOMAIN queue' : queue'[i] = queue[j]
    BY <1>3 DEF u
  <1>13. QueueCovers'
    <2> SUFFICES ASSUME NEW k \in DOMAIN queue', NEW i \in DOMAIN log,
                        log[i].panel \in Subscribed, cursor' < log[i].seq, log[i].seq <= queue'[k].id
                 PROVE  \E j \in DOMAIN queue' : queue'[j].panel = log[i].panel /\ log[i].seq <= queue'[j].id
      BY <1>1 DEF QueueCovers
    <2>1. cursor < log[i].seq /\ u.id < log[i].seq
      BY <1>4, <1>6, <1>7
    <2>2. k + 1 \in DOMAIN queue /\ queue'[k] = queue[k + 1]
      BY <1>3
    <2>3. PICK j \in DOMAIN queue : queue[j].panel = log[i].panel /\ log[i].seq <= queue[j].id
      BY <2>1, <2>2 DEF IInv, QueueCovers
    <2>4. log[i].seq \in Nat
      BY <1>6
    <2>5. queue[j] # u
      BY <1>4, <2>1, <2>3, <2>4
    <2> QED
      BY <1>12, <2>3, <2>5
  <1>14. StaleOutlives'
    <2> SUFFICES ASSUME NEW panel \in stale \cap Subscribed PROVE (SentAgain(panel) \/ HalfReceived(panel))'
      BY <1>1 DEF StaleOutlives
    <2>1. SentAgain(panel) \/ HalfReceived(panel)
      BY DEF IInv, StaleOutlives
    <2>2. CASE HalfReceived(panel)
      <3>1. CASE \E i \in DOMAIN pipe : pipe[i].panel = panel /\ pipe[i].id <= lastId
        BY <1>1, <1>5, <3>1 DEF HalfReceived
      <3>2. CASE \E i \in DOMAIN queue : queue[i].panel = panel /\ queue[i].id <= lastId
        BY <1>1, <1>5, <1>12, <3>2 DEF HalfReceived
      <3> QED
        BY <2>2, <3>1, <3>2 DEF HalfReceived
    <2> QED
      BY <1>8, <2>1, <2>2
  <1>15. StaleIsOnItsWay'
    <2> SUFFICES ASSUME NEW panel \in stale \cap Subscribed PROVE OnItsWay(panel)'
      BY <1>1 DEF StaleIsOnItsWay
    <2>1. OnItsWay(panel) /\ ~WillRefetch /\ From = cursor /\ From' = cursor'
      BY <1>1 DEF IInv, StaleIsOnItsWay, WillRefetch, From, Refetches
    <2>2. CASE \E i \in DOMAIN queue : queue[i].panel = panel
      BY <1>5, <1>12, <2>2 DEF OnItsWay
    <2>3. CASE \E i \in DOMAIN pipe : pipe[i].panel = panel
      BY <1>5, <2>3 DEF OnItsWay
    <2>4. CASE \E i \in DOMAIN log : log[i].panel = panel /\ log[i].seq > cursor
      <3>1. PICK i \in DOMAIN log : log[i].panel = panel /\ log[i].seq > cursor
        BY <2>4
      <3>2. CASE log[i].seq > cursor'
        BY <1>1, <2>1, <3>1, <3>2 DEF OnItsWay
      <3>3. CASE ~(log[i].seq > cursor')
        <4>1. cursor < log[i].seq /\ log[i].seq <= u.id
          BY <1>4, <1>6, <1>7, <3>1, <3>3
        <4>2. \E j \in DOMAIN queue : queue[j].panel = panel
          BY <1>3, <3>1, <4>1 DEF IInv, QueueCovers, u
        <4> QED
          BY <1>5, <1>12, <4>2 DEF OnItsWay
      <3> QED
        BY <3>2, <3>3
    <2> QED
      BY <2>1, <2>2, <2>3, <2>4 DEF OnItsWay
  <1> QED
    BY <1>8, <1>9, <1>10, <1>11, <1>13, <1>14, <1>15 DEF IInv, Order

-----------------------------------------------------------------------------
(* The browser, and what breaks.                                           *)

(* The page is given an update.                                            *)
LEMMA ReceiveKeeps ==
    ASSUME IInv, Receive
    PROVE  IInv'
  <1> DEFINE u == pipe[1]
  <1>1. /\ Order /\ UNCHANGED <<log, head, stream, cursor, low, queue, rebuilds>>
        /\ pipe # <<>> /\ stream = "open"
        /\ lastId' = u.id /\ stale' = stale \ {u.panel} /\ pipe' = Tail(pipe)
    BY DEF Receive, server, IInv, Order, CursorsBehind
  <1>2. /\ pipe' \in Seq(Update) /\ 1 \in DOMAIN pipe /\ u \in Update
        /\ \A i \in DOMAIN pipe : i = 1 \/ (1 < i /\ i - 1 \in DOMAIN pipe' /\ pipe'[i - 1] = pipe[i])
        /\ \A i \in DOMAIN pipe' : i + 1 \in DOMAIN pipe /\ 1 < i + 1 /\ pipe'[i] = pipe[i + 1]
    BY <1>1, FirstAndRest DEF Order, TypeOK
  <1>3. /\ head \in Nat /\ cursor \in Nat /\ \A i \in DOMAIN log : log[i].seq \in Nat
        /\ \A i \in DOMAIN pipe : pipe[i].id \in Nat /\ pipe[i].id <= cursor
        /\ \A i \in DOMAIN queue : queue[i].id \in Nat
        /\ cursor <= head
    BY <1>1, Numbers DEF Order, CursorsBehind
  <1>4. /\ \A i, j \in DOMAIN pipe : i < j => InTurn(pipe[i], pipe[j])
        /\ \A i, j \in DOMAIN queue : i < j => InTurn(queue[i], queue[j])
        /\ \A i \in DOMAIN pipe : \A j \in DOMAIN queue : InTurn(pipe[i], queue[j])
    BY DEF IInv, SentInTurn
  <1>5. /\ u.id \in Nat /\ u.id <= cursor /\ u.id \in 0..MaxSeq
        /\ \A j \in DOMAIN pipe : 1 < j => InTurn(u, pipe[j])
        /\ \A j \in DOMAIN queue : InTurn(u, queue[j])
    BY <1>2, <1>3, <1>4 DEF Update
  <1> HIDE DEF u
  <1>6. /\ MinSeq' = MinSeq /\ MinSeq \in Nat /\ RowsRun'
        /\ \A a, b : InTurn(a, b)' <=> InTurn(a, b)
    BY <1>1, SameLog
  <1>7. TypeOK'
    BY <1>1, <1>2, <1>5 DEF Order, TypeOK
  <1>8. CursorsBehind'
    <2>1. lastId' <= head
      BY <1>1, <1>3, <1>5
    <2> QED
      BY <1>1, <1>2, <1>3, <1>5, <2>1 DEF Order, CursorsBehind
  <1>9. SentInTurn'
    <2>1. ASSUME NEW i \in DOMAIN pipe', NEW j \in DOMAIN pipe', i < j
          PROVE  InTurn(pipe'[i], pipe'[j])
      <3>1. DOMAIN pipe' \subseteq Nat
        BY <1>2, LenProperties
      <3>2. i + 1 < j + 1
        BY <2>1, <3>1
      <3> QED
        BY <1>2, <1>4, <3>2
    <2>2. \A i \in DOMAIN pipe' : \A j \in DOMAIN queue : InTurn(pipe'[i], queue[j])
      BY <1>2, <1>4
    <2> QED
      BY <1>1, <1>4, <1>6, <2>1, <2>2 DEF SentInTurn
  <1>10. QueueCovers'
    BY <1>1 DEF IInv, QueueCovers
  <1>11. ASSUME NEW panel \in stale' \cap Subscribed
         PROVE  /\ panel \in stale /\ panel # u.panel
                /\ \/ \E i \in DOMAIN queue : queue[i].panel = panel
                   \/ \E i \in DOMAIN pipe' : pipe'[i].panel = panel
                   \/ \E i \in DOMAIN log : log[i].panel = panel /\ log[i].seq > cursor
    <2>1. panel \in stale /\ panel # u.panel
      BY <1>1
    <2>2. \/ \E i \in DOMAIN queue : queue[i].panel = panel
          \/ \E i \in DOMAIN pipe : pipe[i].panel = panel
          \/ \E i \in DOMAIN log : log[i].panel = panel /\ log[i].seq > cursor
      BY <1>1, <2>1 DEF IInv, StaleIsOnItsWay, OnItsWay, WillRefetch, From, Refetches
    <2>3. ASSUME NEW i \in DOMAIN pipe, pipe[i].panel = panel
          PROVE  \E j \in DOMAIN pipe' : pipe'[j].panel = panel
      BY <1>2, <2>1, <2>3 DEF u
    <2> QED
      BY <2>1, <2>2, <2>3
  <1>12. StaleIsOnItsWay'
    BY <1>1, <1>11 DEF StaleIsOnItsWay, OnItsWay, From
  <1>13. ASSUME NEW w, w.id \in Nat, InTurn(u, w), lastId' < w.id PROVE SentAgain(w.panel)'
    <2>1. IsRow(w)
      BY <1>1, <1>13 DEF InTurn
    <2>2. CASE \E i \in DOMAIN log : log[i].seq = w.id /\ log[i].panel = w.panel
      BY <1>1, <1>13, <2>2 DEF SentAgain
    <2>3. CASE w.id < MinSeq
      <3>1. lastId' + 1 < MinSeq'
        BY <1>1, <1>5, <1>6, <1>13, <2>3
      <3> QED
        BY <3>1 DEF SentAgain
    <2> QED
      BY <2>1, <2>2, <2>3 DEF IsRow
  <1>14. StaleOutlives'
    <2> SUFFICES ASSUME NEW panel \in stale' \cap Subscribed PROVE (SentAgain(panel) \/ HalfReceived(panel))'
      BY DEF StaleOutlives
    <2>1. CASE \E i \in DOMAIN queue : queue[i].panel = panel
      <3>1. PICK i \in DOMAIN queue : queue[i].panel = panel
        BY <2>1
      <3>2. CASE queue[i].id <= lastId'
        BY <1>1, <3>1, <3>2 DEF HalfReceived
      <3>3. CASE lastId' < queue[i].id
        BY <1>3, <1>5, <1>13, <3>1, <3>3
      <3> QED
        BY <1>1, <1>3, <1>5, <3>2, <3>3
    <2>2. CASE \E i \in DOMAIN pipe' : pipe'[i].panel = panel
      <3>1. PICK i \in DOMAIN pipe' : pipe'[i].panel = panel
        BY <2>2
      <3>2. pipe'[i].id \in Nat /\ InTurn(u, pipe'[i])
        BY <1>2, <1>3, <1>5
      <3>3. CASE pipe'[i].id <= lastId'
        BY <1>1, <3>1, <3>3 DEF HalfReceived
      <3>4. CASE lastId' < pipe'[i].id
        BY <1>13, <3>1, <3>2, <3>4
      <3> QED
        BY <1>1, <1>5, <3>2, <3>3, <3>4
    <2>3. CASE \E i \in DOMAIN log : log[i].panel = panel /\ log[i].seq > cursor
      BY <1>1, <1>3, <1>5, <2>3 DEF SentAgain
    <2> QED
      BY <1>11, <2>1, <2>2, <2>3
  <1> QED
    BY <1>6, <1>7, <1>8, <1>9, <1>10, <1>12, <1>14 DEF IInv, Order

(* The connection breaks, losing what was sent and not received.           *)
LEMMA DisconnectKeeps ==
    ASSUME IInv, ~BrokenRefetch, Disconnect
    PROVE  IInv'
  <1>1. /\ Order /\ UNCHANGED <<log, head, lastId, stale, rebuilds>> /\ ~Refetching
        /\ stream' = "none" /\ cursor' = 0 /\ low' = 0 /\ queue' = <<>> /\ pipe' = <<>>
    BY DEF Disconnect, Disconnected, IInv
  <1>2. /\ MinSeq' = MinSeq /\ MinSeq \in Nat /\ RowsRun'
        /\ \A panel : SentAgain(panel)' <=> SentAgain(panel)
    BY <1>1, SameLog
  <1>3. head \in Nat /\ lastId \in Nat /\ lastId <= head /\ \A i \in DOMAIN log : log[i].seq \in Nat
    BY <1>1, Numbers DEF Order, CursorsBehind
  <1>4. Order'
    BY <1>1, <1>2, <1>3, Bounds DEF Order, TypeOK, CursorsBehind
  <1>5. SentInTurn' /\ QueueCovers'
    BY <1>1 DEF SentInTurn, QueueCovers
  <1>6. ASSUME NEW panel, HalfReceived(panel) PROVE lastId = 0
    <2>1. \E u \in Range(pipe) \cup Range(queue) : u.id =< lastId
      BY <1>6 DEF HalfReceived, Range
    <2> QED
      BY <1>1, <2>1 DEF Refetching
  <1>7. \A panel \in stale \cap Subscribed : SentAgain(panel)
    BY <1>6 DEF IInv, StaleOutlives, SentAgain
  <1>8. StaleOutlives'
    BY <1>1, <1>2, <1>7 DEF StaleOutlives
  <1>9. StaleIsOnItsWay'
    <2> SUFFICES ASSUME NEW panel \in stale \cap Subscribed PROVE OnItsWay(panel)'
      BY <1>1 DEF StaleIsOnItsWay
    <2>1. From' = lastId /\ stream' = "none"
      BY <1>1 DEF From
    <2>2. CASE lastId = 0 \/ lastId + 1 < MinSeq
      <3>1. lastId = 0 \/ (MinSeq' > 0 /\ lastId + 1 < MinSeq')
        BY <1>2, <1>3, <2>2
      <3>2. WillRefetch'
        BY <2>1, <3>1 DEF WillRefetch, Refetches
      <3> QED
        BY <3>2 DEF OnItsWay
    <2>3. CASE \E i \in DOMAIN log : log[i].panel = panel /\ lastId < log[i].seq
      BY <1>1, <1>3, <2>1, <2>3 DEF OnItsWay
    <2> QED
      BY <1>7, <2>2, <2>3 DEF SentAgain
  <1> QED
    BY <1>4, <1>5, <1>8, <1>9 DEF IInv

(* readmodel.db is made afresh, and the open pages are loaded again.       *)
LEMMA RebuiltKeeps ==
    ASSUME IInv, ~OldPages, StoreRebuilt
    PROVE  IInv'
  <1>1. /\ Order /\ rebuilds < MaxRebuilds /\ rebuilds' = rebuilds + 1 /\ log' = <<>> /\ head' = 0
        /\ stream' = "none" /\ cursor' = 0 /\ low' = 0 /\ queue' = <<>> /\ pipe' = <<>>
        /\ lastId' = 0 /\ stale' = {}
    BY DEF StoreRebuilt, Disconnected, IInv
  <1>2. TypeOK'
    BY <1>1, Bounds DEF Order, TypeOK
  <1>3. RowsRun' /\ CursorsBehind'
    BY <1>1 DEF RowsRun, CursorsBehind
  <1>4. SentInTurn' /\ QueueCovers'
    BY <1>1 DEF SentInTurn, QueueCovers
  <1>5. StaleOutlives' /\ StaleIsOnItsWay'
    BY <1>1 DEF StaleOutlives, StaleIsOnItsWay
  <1> QED
    BY <1>2, <1>3, <1>4, <1>5 DEF IInv, Order

-----------------------------------------------------------------------------
LEMMA InitIsGood == Init => IInv
  <1> SUFFICES ASSUME Init PROVE IInv
    OBVIOUS
  <1>1. TypeOK
    BY Bounds DEF Init, TypeOK
  <1>2. RowsRun /\ CursorsBehind
    BY DEF Init, RowsRun, CursorsBehind
  <1>3. SentInTurn /\ QueueCovers
    BY DEF Init, SentInTurn, QueueCovers
  <1>4. StaleOutlives /\ StaleIsOnItsWay
    BY DEF Init, StaleOutlives, StaleIsOnItsWay
  <1> QED
    BY <1>1, <1>2, <1>3, <1>4 DEF IInv, Order

LEMMA StutterKeeps == IInv /\ UNCHANGED vars => IInv'
  <1> SUFFICES ASSUME IInv, UNCHANGED vars PROVE IInv'
    OBVIOUS
  <1>1. UNCHANGED <<log, head, stream, cursor, low, queue, pipe, lastId, stale, rebuilds>>
    BY DEF vars, server
  <1>2. MinSeq' = MinSeq /\ (WillRefetch' <=> WillRefetch) /\ From' = From
    BY <1>1 DEF MinSeq, WillRefetch, From, Refetches
  <1>3. Order'
    BY <1>1 DEF IInv, Order, TypeOK, RowsRun, CursorsBehind
  <1>4. SentInTurn' /\ QueueCovers'
    BY <1>1, SameLog DEF IInv, SentInTurn, QueueCovers
  <1>5. StaleOutlives'
    BY <1>1, SameLog DEF IInv, StaleOutlives, HalfReceived
  <1>6. StaleIsOnItsWay'
    BY <1>1, <1>2 DEF IInv, StaleIsOnItsWay, OnItsWay
  <1> QED
    BY <1>3, <1>4, <1>5, <1>6 DEF IInv

LEMMA StepKeeps ==
    ASSUME ~QuietHour, ~OldPages, ~BrokenRefetch, ~PruneInReplay
    PROVE  IInv /\ [Next]_vars => IInv'
  <1> SUFFICES ASSUME IInv, [Next]_vars PROVE IInv'
    OBVIOUS
  <1>1. ASSUME NEW panel \in Panels, RecordChange(panel) PROVE IInv'
    BY <1>1, RecordKeeps
  <1>2. ASSUME NEW n \in 1..Len(log), Prune(n) PROVE IInv'
    BY <1>2, PruneKeeps
  <1>3. CASE Connect \/ ReadWindow
    BY <1>3, ConnectKeeps
  <1>4. CASE Replay
    BY <1>4, ReplayKeeps
  <1>5. CASE Yield
    BY <1>5, YieldKeeps
  <1>6. CASE TailLog
    BY <1>6, TailKeeps
  <1>7. CASE Receive
    BY <1>7, ReceiveKeeps
  <1>8. CASE Disconnect
    BY <1>8, DisconnectKeeps
  <1>9. CASE StoreRebuilt
    BY <1>9, RebuiltKeeps
  <1>10. CASE UNCHANGED vars
    BY <1>10, StutterKeeps
  <1> QED
    BY <1>1, <1>2, <1>3, <1>4, <1>5, <1>6, <1>7, <1>8, <1>9, <1>10 DEF Next

-----------------------------------------------------------------------------
(* Every variable of the channel keeps its type, in the circumstances the  *)
(* other theorems assume.                                                  *)
THEOREM ChannelTypeCorrect ==
    ASSUME ~QuietHour, ~OldPages, ~BrokenRefetch, ~PruneInReplay
    PROVE  Spec => []TypeOK
  <1>1. IInv => TypeOK
    BY DEF IInv, Order
  <1> QED
    BY <1>1, InitIsGood, StepKeeps, PTL DEF Spec

(* At every moment, connected or not, a change the page has not heard of   *)
(* is on its way to it or would be sent or refetched on a reconnect        *)
(* (app.py _sse_stream, sse.py): unless an hour passes without a change,   *)
(* a page outlives its readmodel.db, a connection breaks in the middle of  *)
(* one refetch, or a row that is needed is pruned between the two reads    *)
(* of a replay.                                                            *)
THEOREM StaleStaysOnItsWay ==
    ASSUME ~QuietHour, ~OldPages, ~BrokenRefetch, ~PruneInReplay
    PROVE  Spec => []StaleIsOnItsWay
  <1>1. IInv => StaleIsOnItsWay
    BY DEF IInv
  <1> QED
    BY <1>1, InitIsGood, StepKeeps, PTL DEF Spec

(* In the same circumstances a page whose stream has nothing left to say   *)
(* was told of every change of its sections, wherever connections broke    *)
(* and whatever was pruned in between (app.py _sse_stream, sse.py).        *)
THEOREM NothingIsMissed ==
    ASSUME ~QuietHour, ~OldPages, ~BrokenRefetch, ~PruneInReplay
    PROVE  Spec => []NothingMissed
  <1>1. IInv => NothingMissed
    <2> SUFFICES ASSUME IInv, Drained, NEW panel \in stale \cap Subscribed PROVE FALSE
      BY DEF NothingMissed
    <2>1. stream = "open" /\ queue = <<>> /\ pipe = <<>> /\ EventsSince(cursor) = <<>>
      BY DEF Drained
    <2>2. \E i \in DOMAIN log : log[i].panel = panel /\ log[i].seq > cursor
      BY <2>1 DEF IInv, StaleIsOnItsWay, OnItsWay, WillRefetch, From, Refetches
    <2>3. PICK i \in DOMAIN log : log[i].panel \in Subscribed /\ cursor < log[i].seq
      <3>1. cursor \in Nat /\ \A i \in DOMAIN log : log[i].seq \in Nat
        BY Numbers DEF IInv
      <3> QED
        BY <2>2, <3>1
    <2>4. \E k \in DOMAIN EventsSince(cursor) : TRUE
      BY <2>3, RowsToSend DEF IInv
    <2> QED
      BY <2>1, <2>4
  <1> QED
    BY <1>1, InitIsGood, StepKeeps, PTL DEF Spec
=============================================================================
