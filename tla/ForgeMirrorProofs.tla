------------------------- MODULE ForgeMirrorProofs --------------------------
(***************************************************************************)
(* Theorems about ForgeMirror, for every set of tables, rows and contents  *)
(* and every bound on their lengths: the copy put together from replaced   *)
(* and added rows is the whole record at one instant, and it implements    *)
(* the pass of FeedPasses.                                                 *)
(***************************************************************************)
EXTENDS ForgeMirror, SequenceTheorems, TLAPS

-----------------------------------------------------------------------------
(* Tables that are only added to.                                          *)

LEMMA TableRows ==
    ASSUME NEW s
    PROVE  s \in BoundedSeq(Rows, MaxRows) <=> s \in Seq(Rows) /\ Len(s) =< MaxRows
  <1>1. MaxRows \in Nat
    BY ConstantsAssumption
  <1>2. ASSUME NEW m \in 0..MaxRows, s \in [1..m -> Rows]
        PROVE  s \in Seq(Rows) /\ Len(s) =< MaxRows
    <2>1. s \in Seq(Rows) /\ m \in Nat
      BY <1>1, <1>2, SeqDef
    <2>2. Len(s) = m
      BY <1>2, <2>1, LenProperties
    <2> QED
      BY <1>1, <2>1, <2>2
  <1>3. ASSUME s \in Seq(Rows), Len(s) =< MaxRows PROVE s \in BoundedSeq(Rows, MaxRows)
    <2>1. s \in [1..Len(s) -> Rows] /\ Len(s) \in 0..MaxRows
      BY <1>1, <1>3, LenProperties
    <2> QED
      BY <2>1 DEF BoundedSeq, SeqOf
  <1> QED
    BY <1>2, <1>3 DEF BoundedSeq, SeqOf

(* The rows of a table from an id on are a table; put after the rows up to *)
(* that id, when those are the same, they make the whole one.              *)
LEMMA RowsFrom ==
    ASSUME NEW s \in Seq(Rows), NEW n \in 0..Len(s)
    PROVE  /\ SubSeq(s, n + 1, Len(s)) \in Seq(Rows)
           /\ Len(SubSeq(s, n + 1, Len(s))) = Len(s) - n
           /\ SubSeq(s, 1, n) \o SubSeq(s, n + 1, Len(s)) = s
  <1>1. Len(s) \in Nat /\ n \in Nat /\ n =< Len(s)
    BY LenProperties
  <1>2. \A i \in (n + 1)..Len(s) : s[i] \in Rows
    BY <1>1, ElementOfSeq
  <1>3. /\ SubSeq(s, n + 1, Len(s)) \in Seq(Rows)
        /\ Len(SubSeq(s, n + 1, Len(s))) = Len(s) - n
    BY <1>1, <1>2, SubSeqProperties
  <1>4. SubSeq(s, 1, n) \o SubSeq(s, n + 1, Len(s)) = SubSeq(s, 1, Len(s))
    <2>1. 1 \in 1..(Len(s) + 1) /\ n \in (1 - 1)..Len(s) /\ Len(s) \in n..Len(s)
      BY <1>1
    <2> QED
      BY <2>1, ConcatAdjacentSubSeq
  <1> QED
    BY <1>3, <1>4, SubSeqFull

LEMMA PrefixCompletes ==
    ASSUME NEW s \in Seq(Rows), NEW t \in Seq(Rows), IsPrefix(s, t)
    PROVE  s \o SubSeq(t, Len(s) + 1, Len(t)) = t
  <1>1. Len(s) \in 0..Len(t)
    BY LenProperties DEF IsPrefix
  <1>2. SubSeq(t, 1, Len(s)) = s
    BY SubSeqFull DEF IsPrefix
  <1> QED
    BY <1>1, <1>2, RowsFrom

LEMMA PrefixOfItself == ASSUME NEW s \in Seq(Rows) PROVE IsPrefix(s, s)
  BY LenProperties DEF IsPrefix

LEMMA EmptyIsPrefix == ASSUME NEW s \in Seq(Rows) PROVE IsPrefix(<<>>, s)
  <1>1. Len(<<>>) = 0 /\ Len(s) \in Nat
    BY LenProperties, EmptySeq
  <1>2. SubSeq(<<>>, 1, 0) = <<>> /\ SubSeq(s, 1, 0) = <<>>
    BY SubSeqEmpty
  <1> QED
    BY <1>1, <1>2 DEF IsPrefix

LEMMA NoRowsType ==
    /\ NoRows \in Tables
    /\ Empty \in Ledgers
    /\ MaxIds(NoRows) \in [Appended -> 0..MaxRows]
    /\ NoSnapshot \in Snapshots
  <1>1. <<>> \in BoundedSeq(Rows, MaxRows) /\ Len(<<>>) = 0 /\ 0 \in 0..MaxRows
    <2>1. <<>> \in Seq(Rows) /\ Len(<<>>) = 0
      BY EmptySeq
    <2>2. MaxRows \in Nat
      BY ConstantsAssumption
    <2>3. 0 =< MaxRows /\ 0 \in 0..MaxRows
      BY <2>2
    <2> QED
      BY <2>1, <2>3, TableRows
  <1> QED
    BY <1>1, ConstantsAssumption
       DEF NoRows, Tables, Empty, Ledgers, MaxIds, NoSnapshot, Snapshots

LEMMA MaxIdsType ==
    ASSUME NEW rows \in Tables
    PROVE  /\ MaxIds(rows) \in [Appended -> 0..MaxRows]
           /\ \A t \in Appended : /\ rows[t] \in Seq(Rows) /\ Len(rows[t]) \in 0..MaxRows
                                  /\ MaxIds(rows)[t] = Len(rows[t])
  <1>1. \A t \in Appended : rows[t] \in Seq(Rows) /\ Len(rows[t]) =< MaxRows
    BY TableRows DEF Tables
  <1>2. \A t \in Appended : Len(rows[t]) \in 0..MaxRows
    BY <1>1, LenProperties, ConstantsAssumption
  <1> QED
    BY <1>1, <1>2 DEF MaxIds

-----------------------------------------------------------------------------
(* The inductive invariant.  A pass that holds a snapshot took it with the *)
(* whole ledger, and what the rule on newest ids has to tell it can.       *)
AllTellable == \A t \in Appended : Tellable(t, ledger.rows[t])
TakenInPass == pass # "read" => taken = Empty
ToTell == pass \notin {"written", "stamped"} => ~changed
IInv == TypeOK /\ CopyFits /\ AllTellable /\ TakenInPass /\ ToTell /\ EveryChangeIsTold

LEMMA Types ==
    ASSUME TypeOK
    PROVE  /\ ledger = [contents |-> ledger.contents, rows |-> ledger.rows]
           /\ copy = [contents |-> copy.contents, rows |-> copy.rows]
           /\ taken = [contents |-> taken.contents, rows |-> taken.rows]
           /\ {ledger.contents, copy.contents, taken.contents, snap.contents} \subseteq Contents
           /\ {ledger.rows, copy.rows, taken.rows, snap.rows} \subseteq Tables
           /\ snap.maxIds \in [Appended -> 0..MaxRows]
  BY DEF TypeOK, Ledgers, Snapshots

LEMMA InitInv == Init => IInv
  <1> SUFFICES ASSUME Init PROVE IInv
    OBVIOUS
  <1>1. TypeOK
    BY NoRowsType DEF Init, TypeOK
  <1>2. ASSUME NEW t \in Appended PROVE Tellable(t, ledger.rows[t])
    <2>1. Ours(t) = {<<>>} /\ ledger.rows[t] \in Seq(Rows)
      BY <1>1, Types, MaxIdsType DEF Init, Ours, Empty, NoRows
    <2> QED
      BY <2>1, EmptyIsPrefix DEF Tellable
  <1> QED
    BY <1>1, <1>2 DEF Init, IInv, CopyFits, AllTellable, TakenInPass, ToTell, EveryChangeIsTold

(* What ReadForge reads of a table is what Write will need to make it      *)
(* Forge's own.                                                            *)
LEMMA ReadFits ==
    ASSUME IInv, ReadForge, NEW t \in Appended
    PROVE  /\ Applied(t)' = ledger.rows[t]
           /\ RowsAfter(t, after[t]) \in BoundedSeq(Rows, MaxRows)
  <1> DEFINE ours == copy.rows[t]
             theirs == ledger.rows[t]
  <1>1. /\ ours \in Seq(Rows) /\ theirs \in Seq(Rows)
        /\ Len(ours) \in Nat /\ Len(theirs) \in Nat /\ Len(theirs) =< MaxRows
        /\ MaxIds(ledger.rows)[t] = Len(theirs)
    BY Types, MaxIdsType, ConstantsAssumption DEF IInv
  <1>2. after[t] = Len(ours)
    BY Types, MaxIdsType DEF IInv, CopyFits, ReadForge
  <1>3. IsPrefix(ours, theirs) \/ Len(theirs) < Len(ours)
    BY DEF IInv, AllTellable, Tellable, Ours
  <1>4. /\ snap'.rows[t] = RowsAfter(t, after[t]) /\ snap'.maxIds[t] = Len(theirs)
        /\ copy' = copy
    BY <1>1 DEF ReadForge
  <1>5. CASE Len(theirs) < Len(ours)
    <2>1. RowsAfter(t, after[t]) = theirs
      <3>1. ~(after[t] =< Len(theirs)) /\ 0 + 1 = 1
        BY <1>1, <1>2, <1>5
      <3>2. RowsAfter(t, after[t]) = SubSeq(theirs, 0 + 1, Len(theirs))
        BY <3>1, Zenon DEF RowsAfter
      <3>3. SubSeq(theirs, 1, Len(theirs)) = theirs
        BY <1>1, SubSeqFull
      <3> QED
        BY <3>1, <3>2, <3>3
    <2>2. Applied(t)' = <<>> \o theirs
      BY <1>4, <1>5, <2>1 DEF Applied, Rewound
    <2> QED
      BY <1>1, <2>1, <2>2, ConcatEmptySeq, TableRows
  <1>6. CASE ~(Len(theirs) < Len(ours))
    <2>1. IsPrefix(ours, theirs) /\ Len(ours) \in 0..Len(theirs)
      BY <1>1, <1>3, <1>6
    <2>2. RowsAfter(t, after[t]) = SubSeq(theirs, Len(ours) + 1, Len(theirs))
      <3>1. after[t] =< Len(theirs)
        BY <1>1, <1>2, <1>6
      <3>2. RowsAfter(t, after[t]) = SubSeq(theirs, after[t] + 1, Len(theirs))
        BY <3>1, Zenon DEF RowsAfter
      <3> QED
        BY <1>2, <3>2
    <2>3. Applied(t)' = ours \o SubSeq(theirs, Len(ours) + 1, Len(theirs))
      BY <1>4, <1>6, <2>2 DEF Applied, Rewound
    <2>4. Applied(t)' = theirs
      BY <1>1, <2>1, <2>3, PrefixCompletes
    <2>5. /\ SubSeq(theirs, Len(ours) + 1, Len(theirs)) \in Seq(Rows)
          /\ Len(SubSeq(theirs, Len(ours) + 1, Len(theirs))) =< MaxRows
      BY <1>1, <2>1, RowsFrom, ConstantsAssumption
    <2> QED
      BY <2>2, <2>4, <2>5, TableRows
  <1> QED
    BY <1>5, <1>6

(* A write leaves the copy equal to the ledger the pass took.              *)
LEMMA WriteCopies ==
    ASSUME IInv, Write
    PROVE  copy' = taken /\ hash' = copy'.contents /\ hash' \in Contents
  <1>1. \A t \in Appended : Applied(t) = taken.rows[t]
    BY DEF IInv, CopyFits, Write
  <1>2. [t \in Appended |-> Applied(t)] = taken.rows
    BY <1>1, Types DEF IInv, Tables
  <1>3. hash = snap.contents => copy.contents = snap.contents
    BY Types, ConstantsAssumption DEF IInv, CopyFits
  <1>4. snap.contents = taken.contents
    BY DEF IInv, CopyFits, Write
  <1>5. copy' = [contents |-> taken.contents, rows |-> taken.rows]
    BY <1>2, <1>3, <1>4 DEF Write
  <1> QED
    BY <1>4, <1>5, Types DEF IInv, Write

(* A write that says nothing changed has changed nothing.                  *)
LEMMA SilentWrite ==
    ASSUME IInv, Write, ~changed'
    PROVE  copy' = copy
  <1>1. hash = snap.contents /\ \A t \in Appended : ~Rewound(t) /\ snap.rows[t] = <<>>
    BY DEF Write, Changed
  <1>2. ASSUME NEW t \in Appended PROVE Applied(t) = copy.rows[t]
    <2>1. copy.rows[t] \in Seq(Rows)
      BY Types, MaxIdsType DEF IInv
    <2> QED
      BY <1>1, <2>1, ConcatEmptySeq DEF Applied
  <1>3. [t \in Appended |-> Applied(t)] = copy.rows
    BY <1>2, Types DEF IInv, Tables
  <1>4. copy' = [contents |-> copy.contents, rows |-> copy.rows]
    BY <1>1, <1>3 DEF Write
  <1> QED
    BY <1>4, Types DEF IInv

LEMMA ForgeInv ==
    ASSUME IInv,
           \/ \E t \in Appended, row \in Rows : ForgeAdds(t, row)
           \/ \E contents \in Contents : ForgeChanges(contents)
           \/ ForgeRestored
    PROVE  /\ IInv' /\ ledger' \in Ledgers
           /\ UNCHANGED <<copy, hash, pass, after, snap, changed, reads, readOk, recent, told, taken>>
  <1>1. UNCHANGED <<copy, hash, pass, after, snap, changed, reads, readOk, recent, told, taken>>
    BY DEF ForgeAdds, ForgeChanges, ForgeRestored
  <1>2. ledger' \in Ledgers /\ \A t \in Appended : Tellable(t, ledger'.rows[t])
    <2>1. ASSUME NEW t \in Appended, NEW row \in Rows, ForgeAdds(t, row)
          PROVE  ledger' \in Ledgers /\ \A u \in Appended : Tellable(u, ledger'.rows[u])
      <3>1. ledger' = [ledger EXCEPT !.rows = [ledger.rows EXCEPT ![t] = Append(ledger.rows[t], row)]]
        BY <2>1, Types DEF ForgeAdds, IInv
      <3>2. ledger'.rows = [ledger.rows EXCEPT ![t] = Append(ledger.rows[t], row)]
            /\ ledger'.contents = ledger.contents
            /\ ledger' = [contents |-> ledger'.contents, rows |-> ledger'.rows]
        BY <3>1, Types DEF IInv
      <3>3. Append(ledger.rows[t], row) \in BoundedSeq(Rows, MaxRows)
        <4>1. ledger.rows[t] \in Seq(Rows) /\ Len(ledger.rows[t]) \in Nat
          BY Types, MaxIdsType, LenProperties DEF IInv
        <4>2. /\ Append(ledger.rows[t], row) \in Seq(Rows)
              /\ Len(Append(ledger.rows[t], row)) = Len(ledger.rows[t]) + 1
          BY <4>1, AppendProperties
        <4> QED
          <5>1. Len(ledger.rows[t]) < MaxRows /\ MaxRows \in Nat
            BY <2>1, ConstantsAssumption DEF ForgeAdds
          <5>2. Len(Append(ledger.rows[t], row)) =< MaxRows
            BY <4>1, <4>2, <5>1
          <5> QED
            BY <4>2, <5>2, TableRows
      <3>4. ledger' \in Ledgers
        BY <3>2, <3>3, Types DEF IInv, Tables, Ledgers
      <3>5. ASSUME NEW u \in Appended PROVE Tellable(u, ledger'.rows[u])
        <4>1. CASE u = t
          BY <2>1, <4>1 DEF ForgeAdds
        <4>2. CASE u # t
          <5>1. ledger'.rows[u] = ledger.rows[u]
            BY <3>2, <4>2, Types DEF IInv, Tables
          <5> QED
            BY <5>1 DEF IInv, AllTellable
        <4> QED
          BY <4>1, <4>2
      <3> QED
        BY <3>4, <3>5
    <2>2. ASSUME NEW contents \in Contents, ForgeChanges(contents)
          PROVE  ledger' \in Ledgers /\ \A u \in Appended : Tellable(u, ledger'.rows[u])
      <3>1. ledger' = [contents |-> contents, rows |-> ledger.rows]
        BY <2>2, Types DEF ForgeChanges, IInv
      <3> QED
        BY <3>1, Types DEF IInv, AllTellable, Ledgers
    <2>3. CASE ForgeRestored
      BY <2>3 DEF ForgeRestored
    <2> QED
      BY <2>1, <2>2, <2>3
  <1>3. TypeOK'
    BY <1>1, <1>2 DEF IInv, TypeOK
  <1>4. CopyFits' /\ TakenInPass' /\ ToTell' /\ EveryChangeIsTold'
    BY <1>1 DEF IInv, CopyFits, TakenInPass, Applied, Rewound, ToTell, EveryChangeIsTold
  <1>5. AllTellable'
    BY <1>1, <1>2 DEF AllTellable, Tellable, Ours
  <1> QED
    BY <1>1, <1>2, <1>3, <1>4, <1>5 DEF IInv

(* A step that leaves the record and the copy alone and holds no snapshot. *)
LEMMA QuietInv ==
    ASSUME IInv, TypeOK', UNCHANGED <<ledger, copy, hash>>, pass' \notin {"begun", "read"},
           taken' = Empty, ToTell', EveryChangeIsTold'
    PROVE  IInv'
  <1>1. \A t \in Appended : Ours(t)' \subseteq Ours(t)
    BY DEF Ours
  <1>2. AllTellable'
    BY <1>1 DEF IInv, AllTellable, Tellable
  <1>3. CopyFits' /\ TakenInPass'
    BY DEF IInv, CopyFits, TakenInPass
  <1> QED
    BY <1>2, <1>3 DEF IInv

LEMMA PassInv ==
    ASSUME IInv,
           Begin \/ ReadForge \/ ReadFails \/ Write \/ Stamp \/ Announce \/ Abandon \/ Stop \/ Start
    PROVE  IInv'
  <1> USE NoRowsType
  <1>1. CASE Begin
    <2>1. TypeOK'
      BY <1>1, Types, MaxIdsType DEF Begin, IInv, TypeOK
    <2>2. CopyFits' /\ TakenInPass' /\ ToTell' /\ EveryChangeIsTold'
      BY <1>1 DEF Begin, IInv, CopyFits, TakenInPass, ToTell, EveryChangeIsTold
    <2>3. AllTellable'
      BY <1>1 DEF Begin, IInv, AllTellable, Tellable, Ours
    <2> QED
      BY <2>1, <2>2, <2>3 DEF IInv
  <1>2. CASE ReadForge
    <2>1. /\ snap' = [contents |-> ledger.contents,
                      rows |-> [t \in Appended |-> RowsAfter(t, after[t])],
                      maxIds |-> MaxIds(ledger.rows)]
          /\ taken' = ledger /\ pass' = "read"
          /\ UNCHANGED <<ledger, copy, hash, after, changed, reads, readOk, recent, told>>
      BY <1>2 DEF ReadForge
    <2>2. [t \in Appended |-> RowsAfter(t, after[t])] \in Tables
      BY <1>2, ReadFits DEF Tables
    <2>3. snap' \in Snapshots
      BY <2>1, <2>2, Types, MaxIdsType DEF IInv, Snapshots
    <2>4. TypeOK'
      BY <2>1, <2>3 DEF IInv, TypeOK
    <2>5. CopyFits'
      BY <1>2, <2>1, ReadFits DEF IInv, CopyFits, ReadForge
    <2>6. ASSUME NEW t \in Appended PROVE Tellable(t, ledger.rows[t])'
      <3>1. IsPrefix(ledger.rows[t], ledger.rows[t])
        BY Types, MaxIdsType, PrefixOfItself DEF IInv
      <3>2. Ours(t)' = {copy.rows[t], ledger.rows[t]}
        BY <2>1 DEF Ours
      <3>3. IsPrefix(copy.rows[t], ledger.rows[t]) \/ Len(ledger.rows[t]) < Len(copy.rows[t])
        BY DEF IInv, AllTellable, Tellable, Ours
      <3> QED
        BY <2>1, <3>1, <3>2, <3>3 DEF Tellable
    <2>7. ToTell' /\ EveryChangeIsTold'
      BY <1>2, <2>1 DEF IInv, ToTell, EveryChangeIsTold, ReadForge
    <2> QED
      BY <2>1, <2>4, <2>5, <2>6, <2>7 DEF IInv, AllTellable, TakenInPass
  <1>3. CASE Write
    <2>1. copy' = taken /\ hash' = copy'.contents /\ hash' \in Contents
      BY <1>3, WriteCopies
    <2>2. /\ pass = "read" /\ pass' = "written" /\ taken' = Empty /\ changed' = Changed
          /\ after' = MaxIds(NoRows) /\ snap' = NoSnapshot
          /\ UNCHANGED <<ledger, reads, readOk, recent, told>>
      BY <1>3 DEF Write
    <2>3. TypeOK'
      BY <2>1, <2>2 DEF IInv, TypeOK, Changed
    <2>4. \A t \in Appended : Ours(t)' \subseteq Ours(t)
      BY <2>1, <2>2 DEF Ours
    <2>5. AllTellable'
      BY <2>2, <2>4 DEF IInv, AllTellable, Tellable
    <2>6. copy = told
      BY <2>2 DEF IInv, ToTell, EveryChangeIsTold
    <2>7. ToTell' /\ EveryChangeIsTold'
      BY <1>3, <2>2, <2>6, SilentWrite DEF ToTell, EveryChangeIsTold
    <2> QED
      BY <2>1, <2>2, <2>3, <2>5, <2>7 DEF IInv, CopyFits, TakenInPass
  <1>4. CASE Stamp
    <2>1. TypeOK' /\ taken' = Empty
      BY <1>4 DEF Stamp, IInv, TypeOK, TakenInPass
    <2>2. ToTell' /\ EveryChangeIsTold'
      BY <1>4 DEF Stamp, IInv, ToTell, EveryChangeIsTold
    <2> QED
      BY <1>4, <2>1, <2>2, QuietInv DEF Stamp
  <1>5. CASE ReadFails \/ Announce \/ Abandon \/ Stop
    <2>1. TypeOK' /\ taken' = Empty /\ pass' \notin {"begun", "read"}
      BY <1>5 DEF ReadFails, Announce, Abandon, Stop, CutOff, Returns, IInv, TypeOK
    <2>2. ~changed' /\ copy' = copy /\ told' = (IF changed THEN copy ELSE told)
      <3>1. CASE ReadFails
        BY <3>1 DEF ReadFails, Returns, IInv, ToTell
      <3>2. CASE Announce \/ Abandon \/ Stop
        BY <3>2 DEF Announce, Abandon, Stop, CutOff, Returns
      <3> QED
        BY <1>5, <3>1, <3>2
    <2>3. ToTell' /\ EveryChangeIsTold'
      BY <2>2 DEF IInv, ToTell, EveryChangeIsTold
    <2> QED
      BY <1>5, <2>1, <2>3, QuietInv DEF ReadFails, Announce, Abandon, Stop
  <1>6. CASE Start
    <2>1. TypeOK' /\ taken' = Empty
      BY <1>6 DEF Start, IInv, TypeOK, TakenInPass
    <2>2. ToTell' /\ EveryChangeIsTold'
      BY <1>6 DEF Start, IInv, ToTell, EveryChangeIsTold
    <2> QED
      BY <1>6, <2>1, <2>2, QuietInv DEF Start
  <1> QED
    BY <1>1, <1>2, <1>3, <1>4, <1>5, <1>6

LEMMA RebuiltInv ==
    ASSUME IInv, StoreRebuilt
    PROVE  IInv'
  <1>1. TypeOK' /\ taken' = Empty /\ copy' = Empty /\ hash' = NoHash /\ pass' = "down"
        /\ ledger' = ledger /\ told' = Empty /\ ~changed'
    BY NoRowsType DEF StoreRebuilt, IInv, TypeOK, TakenInPass, ToTell
  <1>2. ASSUME NEW t \in Appended PROVE Tellable(t, ledger.rows[t])'
    <2>1. Ours(t)' = {<<>>} /\ ledger.rows[t] \in Seq(Rows)
      BY <1>1, Types, MaxIdsType DEF Ours, Empty, NoRows, IInv
    <2> QED
      BY <1>1, <2>1, EmptyIsPrefix DEF Tellable
  <1> QED
    BY <1>1, <1>2 DEF IInv, CopyFits, AllTellable, TakenInPass, ToTell, EveryChangeIsTold

LEMMA InvStep == IInv /\ [Next]_vars => IInv'
  <1> SUFFICES ASSUME IInv, [Next]_vars PROVE IInv'
    OBVIOUS
  <1>1. CASE Ages
    BY <1>1 DEF Ages, IInv, TypeOK, CopyFits, AllTellable, Tellable, Ours, TakenInPass, Applied, Rewound,
                ToTell, EveryChangeIsTold
  <1>2. CASE UNCHANGED vars
    BY <1>2 DEF vars, IInv, TypeOK, CopyFits, AllTellable, Tellable, Ours, TakenInPass, Applied, Rewound,
                ToTell, EveryChangeIsTold
  <1> QED
    BY <1>1, <1>2, ForgeInv, PassInv, RebuiltInv DEF Next

(* Every variable of the mirror keeps its type.                            *)
THEOREM MirrorTypeCorrect == Spec => []TypeOK
  <1>1. IInv => TypeOK
    BY DEF IInv
  <1> QED
    BY <1>1, InitInv, InvStep, PTL DEF Spec

(* The stored hash is the hash of what is stored, and a snapshot fits the  *)
(* rows it will be put after, through restores, stops and a new store.     *)
THEOREM CopyAlwaysFits == Spec => []CopyFits
  <1>1. IInv => CopyFits
    BY DEF IInv
  <1> QED
    BY <1>1, InitInv, InvStep, PTL DEF Spec

(* The pages have been told of the copy as it is, unless a pass has yet to *)
(* tell them or was cut off after its write: over any number of passes,    *)
(* restores and new stores, nothing changes the copy unsaid.               *)
THEOREM CopyIsAlwaysTold == Spec => []EveryChangeIsTold
  <1>1. IInv => EveryChangeIsTold
    BY DEF IInv
  <1> QED
    BY <1>1, InitInv, InvStep, PTL DEF Spec

-----------------------------------------------------------------------------
(* The refinement.                                                         *)

LEMMA FeedInitially == Init => ledger \in Ledgers /\ Feed!FeedInit
  BY DEF Init, Feed!FeedInit

LEMMA FeedStep == IInv /\ [Next]_vars => [Feed!Next]_<<ledger, Feed!feedVars>>
  <1> SUFFICES ASSUME IInv, [Next]_vars PROVE [Feed!Next]_<<ledger, Feed!feedVars>>
    OBVIOUS
  <1> USE DEF Feed!Next, Feed!FeedStep, Feed!feedVars
  <1>1. CASE \/ \E t \in Appended, row \in Rows : ForgeAdds(t, row)
             \/ \E contents \in Contents : ForgeChanges(contents)
             \/ ForgeRestored
    BY <1>1, ForgeInv DEF Feed!RecordChanges
  <1>2. CASE Begin
    BY <1>2 DEF Begin, Feed!PassBegin
  <1>3. CASE ReadForge
    BY <1>3 DEF ReadForge, Feed!PassRead
  <1>4. CASE ReadFails
    BY <1>4 DEF ReadFails, Returns, Feed!PassFail, IInv, TakenInPass
  <1>5. CASE Write
    BY <1>5, WriteCopies DEF Write, Feed!PassWrite
  <1>6. CASE Stamp
    BY <1>6 DEF Stamp, Feed!PassStamp
  <1>7. CASE Announce
    BY <1>7 DEF Announce, Returns, IInv, TakenInPass
  <1>8. CASE Abandon
    BY <1>8 DEF Abandon, Returns, Feed!PassAbandon, Feed!PassUnderWay, IInv, TakenInPass
  <1>9. CASE Stop
    BY <1>9 DEF Stop, Returns, Feed!FeedStop
  <1>10. CASE Start
    BY <1>10 DEF Start, Feed!FeedStart
  <1>11. CASE StoreRebuilt
    BY <1>11 DEF StoreRebuilt, Feed!StoreRebuilt
  <1>12. CASE Ages
    BY <1>12 DEF Ages, Feed!CopyAges
  <1>13. CASE UNCHANGED vars
    BY <1>13 DEF vars
  <1> QED
    BY <1>1, <1>2, <1>3, <1>4, <1>5, <1>6, <1>7, <1>8, <1>9, <1>10, <1>11, <1>12, <1>13 DEF Next

(* The mirror implements the pass the board is built on: whatever Forge    *)
(* and the feed do, the copy in readmodel.db is the whole record at one    *)
(* instant, replaced in one step and counted afterwards.                   *)
THEOREM MirrorIsOneRead == Spec => ImplementsFeedPasses
  BY InitInv, InvStep, FeedInitially, FeedStep, PTL DEF Spec, ImplementsFeedPasses, Feed!Spec
=============================================================================
