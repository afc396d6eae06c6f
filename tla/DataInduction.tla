---------------------------- MODULE DataInduction ----------------------------
(***************************************************************************)
(* Induction over data, for the proofs about what is worked out row by row *)
(* or summed over a set.  An induction's hypothesis is a set of numbers,   *)
(* for the provers do not instantiate a theorem about an operator.         *)
(***************************************************************************)
EXTENDS Integers, FiniteSets, FiniteSetsExt, FiniteSetTheorems, WellFoundedInduction, TLAPS

-----------------------------------------------------------------------------
(* Induction over data: every set of numbers has a least element, so what  *)
(* holds of 0 and of each number after one it holds of holds of all; and a *)
(* function defined by recursion exists.                                   *)

LEMMA NatOrder == OpToRel(<, Nat) = {ss \in Nat \X Nat : ss[1] < ss[2]}
  BY Zenon DEF OpToRel

LEMMA LeastNat ==
    ASSUME NEW T, T \subseteq Nat, T # {}
    PROVE  \E x \in T : \A y \in T : x <= y
  <1> DEFINE R == {ss \in Nat \X Nat : ss[1] < ss[2]}
  <1>1. IsWellFoundedOn(R, Nat)
    BY NatOrder, NatLessThanWellFounded, Zenon
  <1>2. PICK x \in T : \A y \in T : ~(<<y, x>> \in R)
    BY WFMin, <1>1
  <1>3. ASSUME NEW y \in T PROVE x <= y
    <2>1. <<y, x>> \in Nat \X Nat /\ ~(<<y, x>> \in R)
      BY <1>2
    <2>2. ~(y < x)
      BY <2>1
    <2> QED
      BY <2>2
  <1> QED
    BY <1>3

LEMMA UpTo ==
    ASSUME NEW n \in Nat, NEW S, 0 \in S, \A i \in 1..n : i - 1 \in S => i \in S
    PROVE  \A i \in 0..n : i \in S
  <1> SUFFICES ASSUME (0..n) \ S # {} PROVE FALSE
    OBVIOUS
  <1>1. PICK m \in (0..n) \ S : \A k \in (0..n) \ S : m <= k
    <2> DEFINE T == (0..n) \ S
    <2>1. T \subseteq Nat /\ T # {}
      OBVIOUS
    <2> HIDE DEF T
    <2>2. \E m \in T : \A k \in T : m <= k
      BY <2>1, LeastNat
    <2> QED
      BY <2>2 DEF T
  <1>2. m \in 1..n /\ m \notin S
    BY <1>1
  <1>3. m - 1 \in 0..n /\ m - 1 < m
    BY <1>2
  <1>4. m - 1 \in S
    BY <1>1, <1>3
  <1> QED
    BY <1>2, <1>4

Steps(T, n) == [T \X (1..n) -> T]
Follows(w, T, n, base, g) == w \in [0..n -> T] /\ w[0] = base /\ \A i \in 1..n : w[i] = g[<<w[i - 1], i>>]

LEMMA Recursion ==
    ASSUME NEW T, NEW n \in Nat, NEW base \in T, NEW g \in Steps(T, n)
    PROVE  \E w : Follows(w, T, n, base, g)
  <1> DEFINE Upto(m, w) == w \in [0..m -> T] /\ w[0] = base /\ \A i \in 1..m : w[i] = g[<<w[i - 1], i>>]
             S == {m \in 0..n : \E w : Upto(m, w)}
  <1>1. 0 \in S
    <2> DEFINE w == [i \in 0..0 |-> base]
    <2>1. w \in [0..0 -> T] /\ w[0] = base /\ 1..0 = {}
      OBVIOUS
    <2>2. \E u : Upto(0, u)
      <3>1. Upto(0, w)
        BY <2>1
      <3> HIDE DEF Upto
      <3> QED
        BY <3>1
    <2> HIDE DEF Upto
    <2> QED
      BY <2>2
  <1>2. ASSUME NEW m \in 1..n, m - 1 \in S PROVE m \in S
    <2>1. PICK w : Upto(m - 1, w)
      BY <1>2
    <2> DEFINE v == [i \in 0..m |-> IF i = m THEN g[<<w[m - 1], m>>] ELSE w[i]]
    <2>2. w[m - 1] \in T /\ g[<<w[m - 1], m>>] \in T
      <3>1. w \in [0..m - 1 -> T] /\ m - 1 \in 0..m - 1
        BY <2>1
      <3>2. <<w[m - 1], m>> \in T \X (1..n) /\ g \in [T \X (1..n) -> T]
        BY <3>1 DEF Steps
      <3> QED
        BY <3>1, <3>2
    <2>3. v \in [0..m -> T] /\ v[0] = base
      BY <2>1, <2>2
    <2>4. ASSUME NEW i \in 1..m PROVE v[i] = g[<<v[i - 1], i>>]
      <3>1. v[i - 1] = w[i - 1]
        OBVIOUS
      <3>2. CASE i = m
        <4>1. v[m] = g[<<w[m - 1], m>>]
          OBVIOUS
        <4> QED
          BY <3>1, <3>2, <4>1
      <3>3. CASE i # m
        <4>1. i \in 1..m - 1
          BY <3>3
        <4> QED
          BY <3>1, <3>3, <4>1, <2>1
      <3> QED
        BY <3>2, <3>3
    <2>5. \E u : Upto(m, u)
      <3>1. Upto(m, v)
        BY <2>3, <2>4
      <3> HIDE DEF Upto, v
      <3> QED
        BY <3>1
    <2> HIDE DEF Upto
    <2> QED
      BY <2>5
  <1>3. n \in S
    <2> HIDE DEF S
    <2> QED
      BY <1>1, <1>2, UpTo
  <1> QED
    BY <1>3 DEF Follows

LEMMA MinIs ==
    ASSUME NEW T, T \subseteq Nat, T # {}
    PROVE  Min(T) \in T /\ \A y \in T : Min(T) <= y
  <1>1. \E x \in T : \A y \in T : x <= y
    BY LeastNat
  <1> QED
    BY <1>1 DEF Min

LEMMA MaxIs ==
    ASSUME NEW n \in Nat, NEW T, T \subseteq 0..n, T # {}
    PROVE  Max(T) \in T /\ \A y \in T : y <= Max(T)
  <1> DEFINE D == {n - x : x \in T}
  <1>1. D \subseteq Nat /\ D # {}
    <2>1. \A x \in T : n - x \in Nat
      OBVIOUS
    <2>2. D # {}
      OBVIOUS
    <2> QED
      BY <2>1, <2>2
  <1>2. PICK d \in D : \A e \in D : d <= e
    <2> HIDE DEF D
    <2> QED
      BY <1>1, LeastNat
  <1>3. PICK x \in T : d = n - x
    BY <1>2
  <1>4. ASSUME NEW y \in T PROVE y <= x
    <2>1. n - y \in D
      OBVIOUS
    <2>2. n - x <= n - y
      BY <1>2, <1>3, <2>1
    <2> QED
      BY <2>2
  <1>5. \E z \in T : \A y \in T : z >= y
    BY <1>4
  <1> QED
    BY <1>5 DEF Max


-----------------------------------------------------------------------------
(* Finite sets, by the sets that are one element smaller.                  *)

LEMMA OneLess ==
    ASSUME NEW s, IsFiniteSet(s), NEW x \in s
    PROVE  IsFiniteSet(s \ {x}) /\ Cardinality(s) \in Nat \ {0} /\ Cardinality(s \ {x}) = Cardinality(s) - 1
  <1>1. IsFiniteSet(s \ {x}) /\ Cardinality(s \ {x}) = Cardinality(s) - 1
    BY FS_RemoveElement
  <1>2. Cardinality(s) \in Nat /\ Cardinality(s \ {x}) \in Nat
    BY <1>1, FS_CardinalityType
  <1> QED
    BY <1>1, <1>2

LEMMA BySmaller ==
    ASSUME NEW S, IsFiniteSet(S), NEW C, {} \in C,
           \A s \in SUBSET S : s # {} /\ (\A x \in s : s \ {x} \in C) => s \in C
    PROVE  \A s \in SUBSET S : s \in C
  <1> DEFINE K == {n \in Nat : \A s \in SUBSET S : Cardinality(s) = n => s \in C}
  <1>1. \A s \in SUBSET S : IsFiniteSet(s) /\ Cardinality(s) \in Nat
    BY FS_Subset, FS_CardinalityType
  <1>2. 0 \in K
    <2>1. \A s \in SUBSET S : Cardinality(s) = 0 => s = {}
      BY <1>1, FS_EmptySet
    <2> QED
      BY <2>1
  <1>3. ASSUME NEW m \in Nat, NEW i \in 1..m, i - 1 \in K PROVE i \in K
    <2>1. ASSUME NEW s \in SUBSET S, Cardinality(s) = i PROVE s \in C
      <3>1. s # {}
        BY <2>1, FS_EmptySet
      <3>2. ASSUME NEW x \in s PROVE s \ {x} \in C
        <4>1. Cardinality(s \ {x}) = i - 1 /\ s \ {x} \in SUBSET S
          BY <1>1, <2>1, OneLess
        <4> QED
          BY <1>3, <4>1
      <3> QED
        BY <3>1, <3>2
    <2> QED
      BY <2>1
  <1>4. ASSUME NEW s \in SUBSET S PROVE s \in C
    <2>1. Cardinality(s) \in K
      <3> DEFINE m == Cardinality(s)
      <3>1. m \in Nat /\ m \in 0..m
        BY <1>1
      <3> HIDE DEF K, m
      <3>2. \A i \in 0..m : i \in K
        BY <1>2, <1>3, <3>1, UpTo
      <3> QED
        BY <3>1, <3>2 DEF m
    <2> QED
      BY <2>1
  <1> QED
    BY <1>4

-----------------------------------------------------------------------------
(* Sums.  MapThenSumSet adds the elements in an order of its own; Sums     *)
(* says what such a sum is, of a set and each of its parts.                *)

SomeOf(s) == CHOOSE x \in s : TRUE
Sums(w, S, F) ==
    /\ w \in [SUBSET S -> Nat]
    /\ \A s \in SUBSET S : w[s] = IF s = {} THEN 0 ELSE F[SomeOf(s)] + w[s \ {SomeOf(s)}]

(* There is such a sum.                                                    *)
LEMMA SumExists ==
    ASSUME NEW S, IsFiniteSet(S), NEW F \in [S -> Nat]
    PROVE  \E w : Sums(w, S, F)
  <1> DEFINE next(w, s) == IF s = {} THEN 0 ELSE F[SomeOf(s)] + w[s \ {SomeOf(s)}]
             Right(w, n) == w \in [SUBSET S -> Nat]
                            /\ \A s \in SUBSET S : Cardinality(s) <= n => w[s] = next(w, s)
             K == {n \in Nat : \E w : Right(w, n)}
  <1>1. \A s \in SUBSET S : IsFiniteSet(s) /\ Cardinality(s) \in Nat /\ Cardinality(s) <= Cardinality(S)
    BY FS_Subset, FS_CardinalityType
  <1>2. \A s \in SUBSET S : s # {} => SomeOf(s) \in s /\ SomeOf(s) \in S
    BY DEF SomeOf
  <1>3. 0 \in K
    <2> DEFINE w == [s \in SUBSET S |-> 0]
    <2>1. \A s \in SUBSET S : Cardinality(s) <= 0 => s = {}
      BY <1>1, FS_EmptySet
    <2>2. w \in [SUBSET S -> Nat] /\ w[{}] = 0
      OBVIOUS
    <2>3. Right(w, 0)
      BY <2>1, <2>2
    <2> HIDE DEF Right, w
    <2> QED
      BY <2>3
  <1>4. ASSUME NEW m \in Nat, NEW i \in 1..m, i - 1 \in K PROVE i \in K
    <2>1. PICK w : Right(w, i - 1)
      BY <1>4
    <2>2. w \in [SUBSET S -> Nat]
      BY <2>1
    <2> DEFINE v == [s \in SUBSET S |-> next(w, s)]
    <2>3. ASSUME NEW s \in SUBSET S PROVE next(w, s) \in Nat
      <3>1. CASE s = {}
        BY <3>1
      <3>2. CASE s # {}
        <4>1. F[SomeOf(s)] \in Nat /\ w[s \ {SomeOf(s)}] \in Nat
          BY <1>2, <2>2, <3>2
        <4> QED
          BY <3>2, <4>1
      <3> QED
        BY <3>1, <3>2
    <2>4. v \in [SUBSET S -> Nat]
      BY <2>3
    <2>5. ASSUME NEW s \in SUBSET S, Cardinality(s) <= i PROVE v[s] = next(v, s)
      <3>1. CASE s = {}
        BY <3>1
      <3>2. CASE s # {}
        <4> DEFINE t == s \ {SomeOf(s)}
        <4>1. t \in SUBSET S /\ Cardinality(t) <= i - 1
          <5>1. SomeOf(s) \in s
            BY <1>2, <3>2
          <5>2. Cardinality(t) = Cardinality(s) - 1 /\ Cardinality(s) \in Nat
            BY <1>1, <5>1, OneLess
          <5> QED
            BY <2>5, <5>2
        <4>2. w[t] = next(w, t)
          BY <2>1, <4>1
        <4>3. v[t] = w[t]
          BY <4>1, <4>2
        <4> QED
          BY <3>2, <4>3
      <3> QED
        BY <3>1, <3>2
    <2>6. Right(v, i)
      <3> HIDE DEF v, next
      <3> QED
        BY <2>4, <2>5
    <2> HIDE DEF Right, v
    <2> QED
      BY <2>6
  <1>5. Cardinality(S) \in K
    <2> DEFINE m == Cardinality(S)
    <2>1. m \in Nat /\ m \in 0..m
      BY <1>1
    <2> HIDE DEF K, m
    <2>2. \A i \in 0..m : i \in K
      BY <1>3, <1>4, <2>1, UpTo
    <2> QED
      BY <2>1, <2>2 DEF m
  <1>6. PICK w : Right(w, Cardinality(S))
    BY <1>5
  <1> QED
    BY <1>1, <1>6 DEF Sums

(* Whatever adds up so has numbers for values.                              *)
LEMMA SumTyped ==
    ASSUME NEW S, IsFiniteSet(S), NEW F \in [S -> Nat], NEW w,
           \A s \in SUBSET S : w[s] = IF s = {} THEN 0 ELSE F[SomeOf(s)] + w[s \ {SomeOf(s)}]
    PROVE  \A s \in SUBSET S : w[s] \in Nat
  <1> DEFINE C == {s \in SUBSET S : w[s] \in Nat}
  <1>1. {} \in C
    <2>1. {} \in SUBSET S
      OBVIOUS
    <2>2. w[{}] = 0
      BY <2>1
    <2> QED
      BY <2>1, <2>2
  <1>2. ASSUME NEW s \in SUBSET S, s # {}, \A x \in s : s \ {x} \in C PROVE s \in C
    <2>1. SomeOf(s) \in s
      BY <1>2 DEF SomeOf
    <2>2. w[s \ {SomeOf(s)}] \in Nat /\ F[SomeOf(s)] \in Nat
      BY <1>2, <2>1
    <2> QED
      BY <1>2, <2>2
  <1>3. \A s \in SUBSET S : s \in C
    <2> HIDE DEF C
    <2> QED
      BY <1>1, <1>2, BySmaller
  <1> QED
    BY <1>3

(* The order does not matter: any element may be added last.               *)
LEMMA SumIs ==
    ASSUME NEW S, IsFiniteSet(S), NEW F \in [S -> Nat], NEW w, Sums(w, S, F)
    PROVE  /\ w[{}] = 0
           /\ \A s \in SUBSET S : \A x \in s : w[s] = F[x] + w[s \ {x}]
  <1> DEFINE C == {s \in SUBSET S : \A x \in s : w[s] = F[x] + w[s \ {x}]}
  <1>1. {} \in C /\ w[{}] = 0
    BY DEF Sums
  <1>2. ASSUME NEW s \in SUBSET S, s # {}, \A x \in s : s \ {x} \in C PROVE s \in C
    <2> DEFINE p == SomeOf(s)
    <2>1. p \in s
      BY <1>2 DEF SomeOf
    <2>2. w[s] = F[p] + w[s \ {p}]
      BY <1>2 DEF Sums
    <2> HIDE DEF p
    <2>3. ASSUME NEW x \in s, x # p PROVE w[s] = F[x] + w[s \ {x}]
      <3>1. w[s \ {p}] = F[x] + w[(s \ {p}) \ {x}]
        BY <1>2, <2>1, <2>3
      <3>2. w[s \ {x}] = F[p] + w[(s \ {x}) \ {p}]
        BY <1>2, <2>1, <2>3
      <3>3. (s \ {p}) \ {x} = (s \ {x}) \ {p}
        OBVIOUS
      <3> DEFINE rest == w[(s \ {x}) \ {p}]
      <3>4. rest \in Nat /\ F[x] \in Nat /\ F[p] \in Nat
        BY <2>1 DEF Sums
      <3>5. w[s \ {p}] = F[x] + rest /\ w[s \ {x}] = F[p] + rest
        BY <3>1, <3>2, <3>3
      <3> HIDE DEF rest
      <3> QED
        BY <2>2, <3>4, <3>5
    <2>4. \A x \in s : w[s] = F[x] + w[s \ {x}]
      BY <2>2, <2>3
    <2> QED
      BY <2>4
  <1>3. \A s \in SUBSET S : s \in C
    <2> HIDE DEF C
    <2> QED
      BY <1>1, <1>2, BySmaller
  <1> QED
    BY <1>1, <1>3

(* A sum is no less than one whose terms are found among its own, each at  *)
(* most as much.                                                           *)
LEMMA SumBelow ==
    ASSUME NEW S, IsFiniteSet(S), NEW F \in [S -> Nat], NEW w, Sums(w, S, F),
           NEW T, IsFiniteSet(T), NEW G \in [T -> Nat], NEW v, Sums(v, T, G),
           NEW h \in Injection(T, S), \A t \in T : G[t] <= F[h[t]]
    PROVE  v[T] <= w[S]
  <1>1. /\ h \in [T -> S]
        /\ \A x, y \in T : h[x] = h[y] => x = y
    BY DEF Injection, IsInjective
  <1>2. w[{}] = 0 /\ \A s \in SUBSET S : \A x \in s : w[s] = F[x] + w[s \ {x}]
    BY SumIs
  <1>3. v[{}] = 0 /\ \A t \in SUBSET T : \A x \in t : v[t] = G[x] + v[t \ {x}]
    BY SumIs
  <1>4. w \in [SUBSET S -> Nat] /\ v \in [SUBSET T -> Nat]
    BY DEF Sums
  <1> DEFINE C == {s \in SUBSET S : \A t \in SUBSET T : (\A x \in t : h[x] \in s) => v[t] <= w[s]}
  <1>5. {} \in C
    <2>1. \A t \in SUBSET T : (\A x \in t : h[x] \in {}) => t = {}
      OBVIOUS
    <2>2. v[{}] <= w[{}]
      BY <1>2, <1>3
    <2> QED
      BY <2>1, <2>2
  <1>6. ASSUME NEW s \in SUBSET S, s # {}, \A x \in s : s \ {x} \in C PROVE s \in C
    <2>1. ASSUME NEW t \in SUBSET T, \A x \in t : h[x] \in s PROVE v[t] <= w[s]
      <3>1. CASE t = {}
        <4>1. w[s] \in Nat
          BY <1>4
        <4> QED
          BY <1>3, <3>1, <4>1
      <3>2. CASE t # {}
        <4>1. PICK x \in t : TRUE
          BY <3>2
        <4> DEFINE y == h[x]
                   r == t \ {x}
                   q == s \ {y}
        <4>2. y \in s /\ x \in T /\ y \in S
          BY <2>1
        <4>3. v[t] = G[x] + v[r] /\ w[s] = F[y] + w[q]
          BY <1>2, <1>3, <4>2
        <4>4. r \in SUBSET T /\ q \in SUBSET S
          OBVIOUS
        <4>5. \A z \in r : h[z] \in q
          BY <1>1, <2>1, <4>2
        <4>6. v[r] <= w[q]
          <5>1. q \in C
            BY <1>6, <4>2
          <5> QED
            BY <4>4, <4>5, <5>1
        <4>7. /\ v[r] \in Nat /\ w[q] \in Nat
              /\ G[x] \in Nat /\ F[y] \in Nat /\ G[x] <= F[y]
          BY <1>4, <4>2, <4>4
        <4> HIDE DEF y, r, q
        <4> QED
          BY <4>3, <4>6, <4>7
      <3> QED
        BY <3>1, <3>2
    <2> QED
      BY <2>1
  <1>7. \A s \in SUBSET S : s \in C
    <2> HIDE DEF C
    <2> QED
      BY <1>5, <1>6, BySmaller
  <1>8. \A x \in T : h[x] \in S
    BY <1>1
  <1> QED
    BY <1>7, <1>8

(* What a function makes of a finite set is finite.                         *)
LEMMA MadeOf ==
    ASSUME NEW S, IsFiniteSet(S), NEW g
    PROVE  IsFiniteSet({g[x] : x \in S})
  <1> DEFINE T == {g[x] : x \in S}
             h == [x \in S |-> g[x]]
  <1>1. h \in Surjection(S, T)
    BY DEF Surjection
  <1> HIDE DEF h, T
  <1>2. IsFiniteSet(T)
    BY <1>1, FS_Surjection
  <1> QED
    BY <1>2 DEF T

(* A set of numbers between two numbers has a least and a greatest.        *)
LEMMA EndsOf ==
    ASSUME NEW lo \in Int, NEW hi \in Int, NEW T, T \subseteq lo..hi, T # {}
    PROVE  /\ Min(T) \in T /\ \A y \in T : Min(T) <= y
           /\ Max(T) \in T /\ \A y \in T : y <= Max(T)
  <1> DEFINE U == {x - lo : x \in T}
             V == {hi - x : x \in T}
  <1>1. U \subseteq Nat /\ U # {} /\ V \subseteq Nat /\ V # {}
    <2>1. \A x \in T : x - lo \in Nat /\ hi - x \in Nat
      OBVIOUS
    <2> QED
      BY <2>1
  <1>2. (\E u \in U : \A y \in U : u <= y) /\ \E v \in V : \A y \in V : v <= y
    <2> HIDE DEF U, V
    <2> QED
      BY <1>1, LeastNat
  <1>3. PICK x \in T : \A y \in U : x - lo <= y
    BY <1>2
  <1>4. PICK z \in T : \A y \in V : hi - z <= y
    BY <1>2
  <1>5. \A y \in T : x - lo <= y - lo /\ hi - z <= hi - y
    BY <1>3, <1>4
  <1> HIDE DEF U, V
  <1>6. \A y \in T : x <= y /\ z >= y
    BY <1>5
  <1>7. Min(T) \in T /\ \A y \in T : Min(T) <= y
    BY <1>6 DEF Min
  <1>8. Max(T) \in T /\ \A y \in T : Max(T) >= y
    BY <1>6 DEF Max
  <1> QED
    BY <1>7, <1>8

(* The greater and the smaller of two numbers.                              *)
LEMMA OfTwo ==
    ASSUME NEW a \in Int, NEW b \in Int
    PROVE  /\ Max({a, b}) = IF a >= b THEN a ELSE b
           /\ Min({a, b}) = IF a <= b THEN a ELSE b
  <1> DEFINE T == {a, b}
             top == IF a >= b THEN a ELSE b
             low == IF a <= b THEN a ELSE b
  <1>1. top \in T /\ (\A y \in T : top >= y) /\ \A z \in T : (\A y \in T : z >= y) => z = top
    OBVIOUS
  <1>2. low \in T /\ (\A y \in T : low <= y) /\ \A z \in T : (\A y \in T : z <= y) => z = low
    OBVIOUS
  <1> HIDE DEF T, top, low
  <1>3. Max(T) = top
    BY <1>1 DEF Max
  <1>4. Min(T) = low
    BY <1>2 DEF Min
  <1> QED
    BY <1>3, <1>4 DEF T, top, low

(* As many elements as there are in the sets that share none.              *)
LEMMA SumOfApart ==
    ASSUME NEW S, IsFiniteSet(S), NEW F \in [S -> Nat], NEW w, Sums(w, S, F), NEW X,
           \A x \in S : IsFiniteSet(X[x]) /\ Cardinality(X[x]) = F[x],
           \A x, y \in S : x # y => X[x] \cap X[y] = {}
    PROVE  IsFiniteSet(UNION {X[x] : x \in S}) /\ w[S] = Cardinality(UNION {X[x] : x \in S})
  <1> DEFINE all(s) == UNION {X[x] : x \in s}
             C == {s \in SUBSET S : IsFiniteSet(all(s)) /\ w[s] = Cardinality(all(s))}
  <1>1. w[{}] = 0 /\ \A s \in SUBSET S : \A x \in s : w[s] = F[x] + w[s \ {x}]
    BY SumIs
  <1>2. {} \in C
    <2>1. all({}) = {}
      OBVIOUS
    <2> HIDE DEF all
    <2> QED
      BY <1>1, <2>1, FS_EmptySet
  <1>3. ASSUME NEW s \in SUBSET S, s # {}, \A x \in s : s \ {x} \in C PROVE s \in C
    <2>1. PICK x \in s : TRUE
      BY <1>3
    <2> DEFINE r == s \ {x}
    <2>2. r \in C
      BY <1>3
    <2>3. IsFiniteSet(all(r)) /\ w[r] = Cardinality(all(r)) /\ w[s] = F[x] + w[r]
      BY <1>1, <2>2
    <2>4. all(s) = X[x] \cup all(r) /\ X[x] \cap all(r) = {}
      OBVIOUS
    <2> DEFINE A == all(r)
               B == X[x]
    <2>5. IsFiniteSet(A) /\ IsFiniteSet(B) /\ Cardinality(B) = F[x] /\ A \cap B = {} /\ all(s) = A \cup B
      BY <2>3, <2>4
    <2> HIDE DEF A, B, all, r
    <2>6. IsFiniteSet(A \cup B) /\ Cardinality(A \cup B) = Cardinality(A) + Cardinality(B)
      <3>1. /\ IsFiniteSet(A \cup B)
            /\ Cardinality(A \cup B) = Cardinality(A) + Cardinality(B) - Cardinality(A \cap B)
        BY <2>5, FS_Union
      <3>2. Cardinality(A \cap B) = 0 /\ Cardinality(A) \in Nat /\ Cardinality(B) \in Nat
        BY <2>5, FS_EmptySet, FS_CardinalityType
      <3> QED
        BY <3>1, <3>2
    <2>7. w[s] = Cardinality(all(s))
      <3>1. w[s] = F[x] + Cardinality(A)
        BY <2>3 DEF A
      <3>2. F[x] \in Nat /\ Cardinality(A) \in Nat
        BY <2>5, FS_CardinalityType
      <3> QED
        BY <2>5, <2>6, <3>1, <3>2
    <2>8. IsFiniteSet(all(s))
      BY <2>5, <2>6
    <2> QED
      BY <2>7, <2>8
  <1>4. \A s \in SUBSET S : s \in C
    <2> HIDE DEF C
    <2> QED
      BY <1>2, <1>3, BySmaller
  <1> QED
    BY <1>4

(* What SumFunction adds up.                                               *)
LEMMA FunctionSum ==
    ASSUME NEW S, IsFiniteSet(S), NEW F \in [S -> Nat]
    PROVE  \E w : Sums(w, S, F) /\ SumFunction(F) = w[S]
  <1> DEFINE Adds(w) == w = [s \in SUBSET S |-> IF s = {} THEN 0 ELSE F[SomeOf(s)] + w[s \ {SomeOf(s)}]]
             w == CHOOSE w : Adds(w)
  <1>1. SumFunction(F) = w[S]
    <2>1. DOMAIN F = S
      OBVIOUS
    <2> QED
      BY <2>1 DEF SumFunction, SumFunctionOnSet, FoldFunctionOnSet, MapThenFoldSet, SomeOf
  <1>4. PICK u : Sums(u, S, F)
    BY SumExists
  <1>5. Adds(u)
    BY <1>4 DEF Sums
  <1>6. Adds(w)
    <2> HIDE DEF Adds
    <2> QED
      BY <1>5
  <1> HIDE DEF w
  <1>7. \A s \in SUBSET S : w[s] = IF s = {} THEN 0 ELSE F[SomeOf(s)] + w[s \ {SomeOf(s)}]
    BY <1>6
  <1>8. \A s \in SUBSET S : w[s] \in Nat
    <2> HIDE DEF Adds
    <2> QED
      BY <1>7, SumTyped
  <1>9. w \in [SUBSET S -> Nat]
    <2>1. DOMAIN w = SUBSET S /\ w = [s \in SUBSET S |-> w[s]]
      BY <1>6
    <2> HIDE DEF Adds
    <2> QED
      BY <1>8, <2>1
  <1>10. Sums(w, S, F)
    BY <1>7, <1>9 DEF Sums
  <1> HIDE DEF Adds
  <1> QED
    BY <1>1, <1>10

(* Where each value is the size of a set, and these share nothing, the sum *)
(* is the size of all together.                                            *)
LEMMA SumOfSizes ==
    ASSUME NEW S, IsFiniteSet(S), NEW X,
           \A x \in S : IsFiniteSet(X[x]),
           \A x, y \in S : x # y => X[x] \cap X[y] = {}
    PROVE  SumFunction([x \in S |-> Cardinality(X[x])]) = Cardinality(UNION {X[x] : x \in S})
  <1> DEFINE F == [x \in S |-> Cardinality(X[x])]
  <1>1. F \in [S -> Nat] /\ \A x \in S : IsFiniteSet(X[x]) /\ Cardinality(X[x]) = F[x]
    BY FS_CardinalityType
  <1> HIDE DEF F
  <1>2. PICK w : Sums(w, S, F) /\ SumFunction(F) = w[S]
    BY <1>1, FunctionSum
  <1>3. IsFiniteSet(UNION {X[x] : x \in S}) /\ w[S] = Cardinality(UNION {X[x] : x \in S})
    <2>1. Sums(w, S, F)
      BY <1>2
    <2>2. \A x, y \in S : x # y => X[x] \cap X[y] = {}
      OBVIOUS
    <2>3. F \in [S -> Nat]
      BY <1>1
    <2>4. \A x \in S : IsFiniteSet(X[x]) /\ Cardinality(X[x]) = F[x]
      BY <1>1
    <2> QED
      BY ONLY IsFiniteSet(S), <2>3, <2>1, <2>4, <2>2, SumOfApart
  <1> QED
    BY <1>2, <1>3 DEF F
=============================================================================
