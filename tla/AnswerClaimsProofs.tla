------------------------- MODULE AnswerClaimsProofs -------------------------
(***************************************************************************)
(* Theorems about AnswerClaims, for every set of presses, cards and        *)
(* settlers, and for every bound on passes and rebuilds.                   *)
(***************************************************************************)
EXTENDS AnswerClaims, TLAPS

(* A claim is a record; the marker of an empty row is not one.             *)
LEMMA ClaimTypes ==
    /\ NoClaim \notin Claim
    /\ \A p \in Presses, n \in Nat :
          [by |-> p, base |-> n, state |-> Waiting] \in Claim
  BY ConstantsAssumption DEF Claim, Waiting, NotRecorded

LEMMA InitTypeOK == Init => TypeOK
  <1> SUFFICES ASSUME Init PROVE TypeOK
    OBVIOUS
  <1>1. Feed!FeedTypeOK
    BY DEF Feed!FeedTypeOK, Feed!Phases, Init, Feed!FeedInit, Records, CardState, EmptyCopy
  <1>2. settle \in [Settlers -> Settling]
    BY DEF Init, SettleIdle, Settling
  <1>3. press \in [Presses -> Coroutine]
    <2>1. [phase : {"new"}, card : Cards, base : {0}] \subseteq Coroutine
      BY DEF Coroutine, PressPhases
    <2> QED
      BY <2>1 DEF Init
  <1> QED
    BY <1>1, <1>2, <1>3 DEF Init, TypeOK, Codes

(* Each kind of step, one lemma: what a press, a settlement, Forge and the *)
(* feed do to the types.                                                   *)
LEMMA PressTypeOK ==
    ASSUME TypeOK, NEW p \in Presses, PressStep(p)
    PROVE  TypeOK'
  <1> USE DEF TypeOK, Feed!FeedTypeOK, Feed!Phases
  <1>0. CardOf(p) \in Cards
    BY DEF CardOf, Coroutine
  <1>1. \A ph \in PressPhases : Goto(p, ph) =>
            press' \in [Presses -> Coroutine]
    <2> SUFFICES ASSUME NEW ph \in PressPhases, Goto(p, ph)
                 PROVE  press' \in [Presses -> Coroutine]
      OBVIOUS
    <2>1. [press[p] EXCEPT !.phase = ph] \in Coroutine
      BY DEF Coroutine
    <2> QED
      BY <2>1 DEF Goto
  <1>2. \A code \in Codes : Ends(p, code) =>
            /\ press' \in [Presses -> Coroutine]
            /\ outcome' \in [Presses -> Codes]
    BY <1>1 DEF Ends, PressPhases
  <1>3. ASSUME Check(p) PROVE TypeOK'
    <2>1. CASE CheckPasses(p)
      <3>1. [press[p] EXCEPT !.phase = "checked", !.base = reads] \in Coroutine
        BY DEF Coroutine, PressPhases
      <3>2. press' = [press EXCEPT ![p] = [press[p] EXCEPT !.phase = "checked", !.base = reads]]
        BY <2>1 DEF CheckPasses
      <3> QED
        BY <1>3, <2>1, <3>1, <3>2 DEF Check, CheckPasses
    <2>2. CASE CheckRefuses(p)
      <3>1. CheckCode(CardOf(p)) \subseteq Codes
        BY DEF CheckCode, Codes
      <3> QED
        BY <1>2, <1>3, <2>2, <3>1 DEF Check, CheckRefuses
    <2> QED
      BY <1>3, <2>1, <2>2 DEF Check
  <1>4. ASSUME ClaimCard(p) PROVE TypeOK'
    <2>1. press[p].base \in Nat
      BY DEF Coroutine
    <2>2. store' \in [Cards -> Claim \cup {NoClaim}]
      BY <1>0, <1>4, <2>1, ClaimTypes DEF ClaimCard
    <2>3. /\ press' \in [Presses -> Coroutine]
          /\ outcome' \in [Presses -> Codes]
      BY <1>1, <1>2, <1>4 DEF ClaimCard, Codes, PressPhases
    <2> QED
      BY <1>4, <2>2, <2>3 DEF ClaimCard
  <1>5. ASSUME Publish(p) PROVE TypeOK'
    BY <1>1, <1>5 DEF Publish, PressPhases
  <1>6. ASSUME ConnectFails(p) \/ FlushDone(p) \/ FlushFails(p) PROVE TypeOK'
    BY <1>1, <1>6 DEF ConnectFails, FlushDone, FlushFails, PressPhases, history
  <1>7. ASSUME Release(p) PROVE TypeOK'
    <2>1. store' \in [Cards -> Claim \cup {NoClaim}]
      BY <1>7 DEF Release
    <2> QED
      BY <1>2, <1>7, <2>1 DEF Release, Codes, history
  <1>8. ASSUME CountRead(p) PROVE TypeOK'
    <2>1. [press[p] EXCEPT !.phase = "counting", !.base = reads] \in Coroutine
      BY DEF Coroutine, PressPhases
    <2>2. press' = [press EXCEPT ![p] = [press[p] EXCEPT !.phase = "counting", !.base = reads]]
      BY <1>8 DEF CountRead
    <2> QED
      BY <1>8, <2>1, <2>2 DEF CountRead, history
  <1>9. ASSUME SetReadCount(p) PROVE TypeOK'
    <2>1. press[p].base \in Nat
      BY DEF Coroutine
    <2>2. HeldBy(CardOf(p), p) => [store[CardOf(p)] EXCEPT !.base = press[p].base] \in Claim
      BY <1>0, <2>1 DEF HeldBy, Held, Claim
    <2>3. store' \in [Cards -> Claim \cup {NoClaim}]
      BY <1>9, <2>2 DEF SetReadCount
    <2> QED
      BY <1>2, <1>9, <2>3 DEF SetReadCount, Codes, history
  <1> QED
    BY <1>3, <1>4, <1>5, <1>6, <1>7, <1>8, <1>9 DEF PressStep

LEMMA SettleTypeOK ==
    ASSUME TypeOK, NEW s \in Settlers, SettleStep(s)
    PROVE  TypeOK'
  <1> USE DEF TypeOK, Feed!FeedTypeOK, Feed!Phases
  <1>1. SettleIdle \in Settling
    BY DEF Settling, SettleIdle
  <1>2. ASSUME SettleRead(s) PROVE TypeOK'
    <2>1. [SettleIdle EXCEPT !.phase = "read", !.seen = store] \in Settling
      BY DEF Settling, SettleIdle
    <2> QED
      BY <1>2, <2>1 DEF SettleRead, history
  <1>3. ASSUME SettleDecide(s) PROVE TypeOK'
    <2> DEFINE seen == settle[s].seen
    <2>1. \A S \in SUBSET {c \in Cards : seen[c] # NoClaim} : Refs(seen, S) \subseteq RowRef
      <3>1. \A c \in Cards : seen[c] # NoClaim => seen[c].by \in Presses
        BY DEF Settling, Claim
      <3> QED
        BY <3>1 DEF Refs, RowRef
    <2>2. ToDelete(seen) \subseteq RowRef /\ ToMark(seen) \subseteq RowRef
      BY <2>1 DEF ToDelete, ToMark
    <2>3. [SettleIdle EXCEPT !.phase = "decided", !.del = ToDelete(seen), !.upd = ToMark(seen)]
              \in Settling
      BY <2>2 DEF Settling, SettleIdle
    <2> QED
      BY <1>1, <1>3, <2>3 DEF SettleDecide, history
  <1>4. ASSUME SettleWrite(s) PROVE TypeOK'
    <2>1. ASSUME NEW c \in Cards PROVE Settled(c, s) \in Claim \cup {NoClaim}
      <3>1. store[c] # NoClaim => [store[c] EXCEPT !.state = NotRecorded] \in Claim
        BY DEF Claim
      <3> QED
        BY <3>1 DEF Settled, Held
    <2> QED
      BY <1>1, <1>4, <2>1 DEF SettleWrite, history
  <1>5. ASSUME SettleFails(s) PROVE TypeOK'
    BY <1>1, <1>5 DEF SettleFails, history
  <1> QED
    BY <1>2, <1>3, <1>4, <1>5 DEF SettleStep

LEMMA CrashTypeOK ==
    ASSUME TypeOK, BoardCrash
    PROVE  TypeOK'
  <1> USE DEF TypeOK, Feed!FeedTypeOK, Feed!Phases
  <1>1. SettleIdle \in Settling
    BY DEF Settling, SettleIdle
  <1>2. \A p \in Presses : [press[p] EXCEPT !.phase = "dead"] \in Coroutine
    BY DEF Coroutine, PressPhases
  <1> QED
    BY <1>1, <1>2 DEF BoardCrash, history

LEMMA ForgeTypeOK ==
    ASSUME TypeOK, ForgeStep
    PROVE  TypeOK'
  <1> USE DEF TypeOK, Feed!FeedTypeOK, Feed!Phases
  <1>1. ASSUME NEW c \in Cards, NEW st \in CardState
        PROVE  [record EXCEPT ![c] = st] \in Records
    BY DEF Records
  <1>2. \A p \in Presses : CardOf(p) \in Cards
    BY DEF CardOf, Coroutine
  <1>3. ASSUME NEW p \in Presses, ForgeRecords(p) \/ ForgeRefuses(p) PROVE TypeOK'
    BY <1>1, <1>2, <1>3 DEF ForgeRecords, ForgeRefuses, ForgeCloses, CardState, history
  <1>4. ASSUME NEW c \in Cards, ForgeOpens(c) \/ ClosedElsewhere(c) PROVE TypeOK'
    BY <1>1, <1>4 DEF ForgeOpens, ClosedElsewhere, ForgeCloses, CardState, boardVars, history
  <1> QED
    BY <1>3, <1>4 DEF ForgeStep

LEMMA FeedTypeOK ==
    ASSUME TypeOK, FeedStep
    PROVE  TypeOK'
  <1> USE DEF TypeOK, Feed!FeedTypeOK, Feed!Phases, boardVars, history
  <1>0. EmptyCopy \in Records
    BY DEF EmptyCopy, Records, CardState
  <1>1. ASSUME PassBegin PROVE TypeOK'
    BY <1>1 DEF PassBegin, Feed!PassBegin
  <1>2. ASSUME PassStamp PROVE TypeOK'
    BY <1>2 DEF PassStamp, Feed!PassStamp
  <1>3. ASSUME FeedOther PROVE TypeOK'
    <2>1. Feed!FeedTypeOK'
      BY <1>0, <1>3 DEF FeedOther, Feed!PassRead, Feed!PassFail, Feed!PassWrite, Feed!PassAbandon,
                        Feed!FeedStop, Feed!FeedStart, Feed!CopyAges
    <2> QED
      BY <1>3, <2>1 DEF FeedOther
  <1>4. ASSUME StoreRebuilt PROVE TypeOK'
    <2>1. Feed!FeedTypeOK'
      BY <1>0, <1>4 DEF StoreRebuilt, Feed!StoreRebuilt
    <2> QED
      BY <1>4, <2>1 DEF StoreRebuilt
  <1> QED
    BY <1>1, <1>2, <1>3, <1>4 DEF FeedStep

LEMMA TypeStep == TypeOK /\ [Next]_vars => TypeOK'
  <1> SUFFICES ASSUME TypeOK, [Next]_vars PROVE TypeOK'
    OBVIOUS
  <1>1. CASE UNCHANGED vars
    BY <1>1 DEF vars, TypeOK, Feed!FeedTypeOK, Feed!Phases
  <1> QED
    BY <1>1, PressTypeOK, SettleTypeOK, CrashTypeOK, ForgeTypeOK, FeedTypeOK DEF Next

(* Every variable keeps its type through every step of Spec.               *)
THEOREM TypeCorrect == Spec => []TypeOK
  BY InitTypeOK, TypeStep, PTL DEF Spec

-----------------------------------------------------------------------------
(* The inductive invariant behind NotRecordedIsEarned.                     *)
IInv == TypeOK /\ PassesCounted

(* What no step undoes for a press that has begun: the passes counted for  *)
(* its claims stay covered.                                                *)
Later ==
    \A p \in Presses :
        /\ press[p].phase # "new" => press'[p].phase # "new"
        /\ press[p].phase # "new" /\ Begun(p)' => Begun(p)
        /\ since'[p] >= since[p]
        /\ \A base \in Nat : Begun(p) /\ Begun(p)' /\ Covered(p, base) => Covered(p, base)'

LEMMA LaterRow ==
    ASSUME Later, NEW row \in Claim, RowCovered(row)
    PROVE  RowCovered(row)'
  <1>1. row.by \in Presses /\ row.base \in Nat
    BY DEF Claim
  <1> QED
    BY <1>1 DEF Later, RowCovered

LEMMA LaterRef ==
    ASSUME TypeOK, TypeOK', Later, NEW q \in Presses, RefEarned(q)
    PROVE  RefEarned(q)'
  <1>1. since[q] \in Nat /\ since'[q] \in Nat
    BY DEF TypeOK
  <1> QED
    BY <1>1 DEF Later, RefEarned, Earned

(* The rows a step leaves in answer_claims and in a settlement's hands     *)
(* stay covered and earned, so only what the step writes is left to show.  *)
LEMMA LaterInv ==
    ASSUME IInv, TypeOK', Later, OverlapCounted',
           \A p \in Presses : Inside(p)' => Covered(p, press[p].base)',
           \A c \in Cards : Held(c)' =>
              \/ Held(c) /\ store'[c] = store[c]
              \/ /\ RowCovered(store[c])'
                 /\ store'[c].state = NotRecorded => RefEarned(store[c].by)',
           \A s \in Settlers, c \in Cards : settle'[s].seen[c] # NoClaim =>
              \/ settle'[s].seen[c] = settle[s].seen[c]
              \/ Held(c) /\ settle'[s].seen[c] = store[c],
           \A s \in Settlers : \A ref \in settle'[s].upd :
              ref \in settle[s].upd \/ RefEarned(ref[2])'
    PROVE  IInv'
  <1> USE DEF IInv, PassesCounted
  <1>1. \A c \in Cards : Held(c) => store[c] \in Claim
    BY DEF TypeOK, Held
  <1>2. \A s \in Settlers, c \in Cards : settle[s].seen[c] # NoClaim => settle[s].seen[c] \in Claim
    BY DEF TypeOK, Settling
  <1>3. \A s \in Settlers : \A ref \in settle[s].upd : ref[2] \in Presses
    BY DEF TypeOK, Settling, RowRef
  <1>4. CountsCovered'
    <2>1. ASSUME NEW c \in Cards, Held(c)' PROVE RowCovered(store[c])'
      <3>1. CASE Held(c) /\ store'[c] = store[c]
        <4>1. RowCovered(store[c])
          BY <3>1 DEF CountsCovered
        <4>2. store[c] \in Claim
          BY <1>1, <3>1
        <4>3. ASSUME NEW row \in Claim, row = store[c] PROVE RowCovered(row)'
          BY <4>1, <4>3, LaterRow
        <4> QED
          BY <3>1, <4>2, <4>3
      <3> QED
        BY <2>1, <3>1
    <2>2. ASSUME NEW s \in Settlers, NEW c \in Cards, settle'[s].seen[c] # NoClaim
          PROVE  RowCovered(settle[s].seen[c])'
      <3>1. PICK row \in Claim : row = settle'[s].seen[c] /\ RowCovered(row)
        BY <1>1, <1>2, <2>2 DEF CountsCovered
      <3>2. RowCovered(row)'
        BY <3>1, LaterRow
      <3> QED
        BY <3>1, <3>2
    <2> QED
      BY <2>1, <2>2 DEF CountsCovered
  <1>5. MarksEarned'
    <2>1. ASSUME NEW c \in Cards, Held(c)', store'[c].state = NotRecorded
          PROVE  RefEarned(store[c].by)'
      <3>1. CASE Held(c) /\ store'[c] = store[c]
        <4>1. PICK q \in Presses : q = store[c].by /\ RefEarned(q)
          BY <1>1, <2>1, <3>1 DEF MarksEarned, Claim
        <4>2. RefEarned(q)'
          BY <4>1, LaterRef
        <4> QED
          BY <3>1, <4>1, <4>2
      <3> QED
        BY <2>1, <3>1
    <2>2. ASSUME NEW s \in Settlers, NEW ref \in settle'[s].upd PROVE RefEarned(ref[2])'
      <3>1. CASE ref \in settle[s].upd
        <4>1. ref[2] \in Presses /\ RefEarned(ref[2])
          BY <1>3, <3>1 DEF MarksEarned
        <4> QED
          BY <4>1, LaterRef
      <3> QED
        BY <3>1
    <2> QED
      BY <2>1, <2>2 DEF MarksEarned
  <1> QED
    BY <1>4, <1>5

(* Steps that leave the counts alone and start no submission.              *)
CountsStay == UNCHANGED <<pass, reads, published, since, eligible, overlap>>
NoneStarts ==
    \A p \in Presses : /\ press[p].phase # "new" => press'[p].phase # "new"
                       /\ Inside(p)' => Inside(p)

LEMMA StillCounted ==
    ASSUME IInv, CountsStay, NoneStarts
    PROVE  Later /\ OverlapCounted'
  <1>1. ASSUME NEW p \in Presses
        PROVE  /\ Begun(p)' => Begun(p)
               /\ Overlaps(p)' <=> Overlaps(p)
               /\ \A base \in Nat : Covered(p, base)' <=> Covered(p, base)
    BY DEF CountsStay, NoneStarts, Begun, Overlaps, Covered, Feed!PassUnderWay
  <1>2. Later
    BY <1>1 DEF Later, NoneStarts, CountsStay, IInv, TypeOK
  <1>3. OverlapCounted'
    BY <1>1 DEF OverlapCounted, NoneStarts, CountsStay, IInv, PassesCounted
  <1> QED
    BY <1>2, <1>3

LEMMA CheckInv ==
    ASSUME IInv, TypeOK', NEW p \in Presses, Check(p)
    PROVE  IInv'
  <1> USE DEF IInv, PassesCounted
  <1>1. /\ UNCHANGED <<store, settle, pass, reads, published, since, eligible>>
        /\ press[p].phase = "new"
        /\ p \notin published /\ p \notin eligible
    BY DEF Check, OverlapCounted
  <1>2. /\ \A q \in Presses : q # p => press'[q] = press[q] /\ overlap'[q] = overlap[q]
        /\ press'[p].phase # "new"
    BY DEF Check, CheckPasses, CheckRefuses, Ends, Goto, TypeOK, Coroutine
  <1>3. Inside(p)' => /\ press'[p].base = reads
                      /\ overlap'[p] = IF Feed!PassUnderWay THEN 1 ELSE 0
    <2>1. CASE CheckPasses(p)
      BY <2>1 DEF CheckPasses, TypeOK, Coroutine
    <2>2. CASE CheckRefuses(p)
      BY <2>2 DEF CheckRefuses, Ends, Goto, Inside, InSubmit, TypeOK, Coroutine
    <2> QED
      BY <2>1, <2>2 DEF Check
  <1>4. overlap'[p] =< OverlapLimit
    BY ConstantsAssumption DEF Check, CheckPasses, CheckRefuses, OverlapCounted, TypeOK
  <1>5. ASSUME NEW q \in Presses, q # p
        PROVE  /\ Inside(q)' <=> Inside(q)
               /\ Begun(q)' <=> Begun(q)
               /\ Overlaps(q)' <=> Overlaps(q)
               /\ \A base \in Nat : Covered(q, base)' <=> Covered(q, base)
    BY <1>1, <1>2, <1>5 DEF Begun, Inside, Overlaps, Covered, Feed!PassUnderWay
  <1>6. Later
    <2> SUFFICES ASSUME NEW q \in Presses
                 PROVE  /\ press[q].phase # "new" => press'[q].phase # "new"
                        /\ press[q].phase # "new" /\ Begun(q)' => Begun(q)
                        /\ since'[q] >= since[q]
                        /\ \A base \in Nat : Begun(q) /\ Begun(q)' /\ Covered(q, base) => Covered(q, base)'
      BY DEF Later
    <2>1. since'[q] >= since[q]
      BY <1>1 DEF TypeOK
    <2>2. CASE q = p
      BY <1>1, <2>1, <2>2 DEF Begun, Inside, InSubmit
    <2>3. CASE q # p
      BY <1>2, <1>5, <2>1, <2>3
    <2> QED
      BY <2>2, <2>3
  <1>7. OverlapCounted'
    <2>1. ASSUME NEW q \in Presses
          PROVE  /\ overlap'[q] =< OverlapLimit
                 /\ q \in published' => press'[q].phase # "new"
                 /\ Begun(q)' /\ Overlaps(q)' => overlap'[q] >= 1
      <3>1. CASE q = p
        BY <1>1, <1>2, <1>3, <1>4, <3>1 DEF Begun, Overlaps, Feed!PassUnderWay
      <3>2. CASE q # p
        BY <1>1, <1>2, <1>5, <3>2 DEF OverlapCounted
      <3> QED
        BY <3>1, <3>2
    <2> QED
      BY <1>1, <2>1 DEF OverlapCounted
  <1>8. ASSUME NEW q \in Presses, Inside(q)' PROVE Covered(q, press[q].base)'
    <2>1. CASE q = p
      <3>1. reads \in Nat /\ since[p] \in Nat /\ since'[p] = since[p]
        BY <1>1 DEF TypeOK, Feed!FeedTypeOK
      <3> QED
        BY <1>1, <1>3, <1>8, <2>1, <3>1 DEF Covered, Overlaps, Feed!PassUnderWay
    <2>2. CASE q # p
      <3>1. press[q].base \in Nat /\ press'[q] = press[q]
        BY <1>2, <2>2 DEF TypeOK, Coroutine
      <3>2. Covered(q, press[q].base)
        BY <1>5, <1>8, <2>2 DEF CountsCovered
      <3>3. ASSUME NEW base \in Nat, base = press[q].base PROVE Covered(q, base)'
        BY <1>5, <2>2, <3>2, <3>3
      <3> QED
        BY <3>1, <3>3
    <2> QED
      BY <2>1, <2>2
  <1> QED
    BY <1>1, <1>6, <1>7, <1>8, LaterInv DEF Held

(* Steps that also leave every coroutine's own count alone.                *)
BasesStay == \A p \in Presses : press'[p].base = press[p].base

LEMMA StillCovered ==
    ASSUME IInv, CountsStay, NoneStarts, BasesStay
    PROVE  \A p \in Presses : Inside(p)' => Covered(p, press[p].base)'
  <1> SUFFICES ASSUME NEW p \in Presses, Inside(p)'
               PROVE  Covered(p, press[p].base)'
    OBVIOUS
  <1>1. Covered(p, press[p].base)
    BY DEF IInv, PassesCounted, CountsCovered, NoneStarts
  <1> QED
    BY <1>1 DEF CountsStay, BasesStay, Covered, Overlaps, Feed!PassUnderWay

(* A coroutine that moves on, or ends, within a submission.                *)
LEMMA MovesOn ==
    ASSUME IInv, NEW p \in Presses, NEW ph \in PressPhases \ {"new"}, Inside(p), Goto(p, ph)
    PROVE  NoneStarts /\ BasesStay
  <1>1. press' = [press EXCEPT ![p] = [press[p] EXCEPT !.phase = ph]] /\ press \in [Presses -> Coroutine]
    BY DEF Goto, IInv, TypeOK
  <1>2. press[p] \in Coroutine
    BY <1>1
  <1>3. press'[p].phase = ph /\ press'[p].base = press[p].base
    BY <1>1, <1>2 DEF Coroutine
  <1>4. \A q \in Presses : q # p => press'[q] = press[q]
    BY <1>1
  <1> QED
    BY <1>3, <1>4 DEF NoneStarts, BasesStay, Inside

LEMMA ClaimCardInv ==
    ASSUME IInv, TypeOK', NEW p \in Presses, ClaimCard(p)
    PROVE  IInv'
  <1> USE DEF IInv, PassesCounted
  <1>1. CountsStay /\ settle' = settle
    BY DEF ClaimCard, CountsStay
  <1>2. Inside(p) /\ press[p].phase # "new"
    BY DEF ClaimCard, Inside, InSubmit
  <1>3. PICK ph \in PressPhases \ {"new"} : Goto(p, ph)
    BY DEF ClaimCard, Ends, PressPhases
  <1>4. NoneStarts /\ BasesStay
    BY <1>2, <1>3, MovesOn
  <1>5. Later /\ OverlapCounted' /\ \A q \in Presses : Inside(q)' => Covered(q, press[q].base)'
    BY <1>1, <1>4, StillCounted, StillCovered
  <1>6. ASSUME NEW c \in Cards, Held(c)'
        PROVE  \/ Held(c) /\ store'[c] = store[c]
               \/ /\ RowCovered(store[c])'
                  /\ store'[c].state = NotRecorded => RefEarned(store[c].by)'
    <2>1. CASE store' = store
      BY <1>6, <2>1 DEF Held
    <2>2. CASE store' = [store EXCEPT ![CardOf(p)] = [by |-> p, base |-> press[p].base, state |-> Waiting]]
      <3>1. CASE c # CardOf(p)
        BY <1>6, <2>2, <3>1 DEF Held, TypeOK
      <3>2. CASE c = CardOf(p)
        <4>1. store'[c] = [by |-> p, base |-> press[p].base, state |-> Waiting]
          BY <2>2, <3>2 DEF TypeOK
        <4>2. press'[p].phase # "new"
          BY <1>2, <1>4 DEF NoneStarts
        <4>3. press[p].base \in Nat /\ press'[p].base = press[p].base
          BY <1>4 DEF TypeOK, Coroutine, BasesStay
        <4>4. Covered(p, press[p].base)
          BY <1>2 DEF CountsCovered
        <4>5. Begun(p)' => Covered(p, press[p].base)'
          BY <1>2, <1>1, <4>3, <4>4 DEF CountsStay, Covered, Overlaps, Feed!PassUnderWay
        <4>6. RowCovered(store[c])'
          BY <4>1, <4>2, <4>3, <4>5 DEF RowCovered
        <4> QED
          BY <4>1, <4>6 DEF Waiting, NotRecorded
      <3> QED
        BY <3>1, <3>2
    <2> QED
      BY <2>1, <2>2 DEF ClaimCard
  <1> QED
    BY <1>1, <1>5, <1>6, LaterInv

LEMMA PublishInv ==
    ASSUME IInv, TypeOK', NEW p \in Presses, Publish(p)
    PROVE  IInv'
  <1> USE DEF IInv, PassesCounted
  <1>1. UNCHANGED <<store, settle, pass, reads, since, eligible, overlap>> /\ published' = published \cup {p}
    BY DEF Publish
  <1>2. Inside(p)
    BY DEF Publish, Inside, InSubmit
  <1>3. NoneStarts /\ BasesStay
    BY <1>2, MovesOn DEF Publish, PressPhases
  <1>4. ASSUME NEW q \in Presses
        PROVE  /\ Begun(q)' => Begun(q)
               /\ Overlaps(q)' <=> Overlaps(q)
               /\ \A base \in Nat : Covered(q, base)' <=> Covered(q, base)
    BY <1>1, <1>2, <1>3 DEF NoneStarts, Begun, Overlaps, Covered, Feed!PassUnderWay
  <1>5. Later
    BY <1>1, <1>3, <1>4 DEF Later, NoneStarts, TypeOK
  <1>6. OverlapCounted'
    <2>1. press[p].phase # "new"
      BY <1>2 DEF Inside, InSubmit
    <2> QED
      BY <1>1, <1>3, <1>4, <2>1 DEF OverlapCounted, NoneStarts
  <1>7. ASSUME NEW q \in Presses, Inside(q)' PROVE Covered(q, press[q].base)'
    <2>1. Covered(q, press[q].base)
      BY <1>3, <1>7 DEF CountsCovered, NoneStarts
    <2> QED
      BY <1>1, <1>3, <2>1 DEF BasesStay, Covered, Overlaps, Feed!PassUnderWay
  <1> QED
    BY <1>1, <1>5, <1>6, <1>7, LaterInv DEF Held

LEMMA SendInv ==
    ASSUME IInv, TypeOK', NEW p \in Presses,
           ConnectFails(p) \/ FlushDone(p) \/ FlushFails(p) \/ Release(p)
    PROVE  IInv'
  <1>1. CountsStay /\ settle' = settle
    BY DEF ConnectFails, FlushDone, FlushFails, Release, CountsStay, history
  <1>2. Inside(p)
    BY DEF ConnectFails, FlushDone, FlushFails, Release, Inside, InSubmit
  <1>3. PICK ph \in PressPhases \ {"new"} : Goto(p, ph)
    BY DEF ConnectFails, FlushDone, FlushFails, Release, Ends, PressPhases
  <1>4. Later /\ OverlapCounted' /\ \A q \in Presses : Inside(q)' => Covered(q, press[q].base)'
    BY <1>1, <1>2, <1>3, MovesOn, StillCounted, StillCovered
  <1>5. store' = store \/ store' = [store EXCEPT ![CardOf(p)] = NoClaim]
    BY DEF ConnectFails, FlushDone, FlushFails, Release
  <1>6. \A c \in Cards : Held(c)' => Held(c) /\ store'[c] = store[c]
    BY <1>5 DEF Held, IInv, TypeOK
  <1> QED
    BY <1>1, <1>4, <1>6, LaterInv

(* The count read after the send covers at once: whatever pass is under    *)
(* way began before the publication and is in overlap.                     *)
LEMMA CountReadInv ==
    ASSUME IInv, TypeOK', NEW p \in Presses, CountRead(p)
    PROVE  IInv'
  <1> USE DEF IInv, PassesCounted
  <1>1. CountsStay /\ UNCHANGED <<store, settle>>
    BY DEF CountRead, CountsStay, history
  <1>2. Inside(p) /\ press[p].phase # "new"
    BY DEF CountRead, Inside, InSubmit
  <1>3. /\ press'[p].phase # "new" /\ press'[p].base = reads
        /\ \A q \in Presses : q # p => press'[q] = press[q]
    BY DEF CountRead, TypeOK, Coroutine
  <1>4. NoneStarts
    BY <1>2, <1>3 DEF NoneStarts, Inside
  <1>5. ASSUME NEW q \in Presses, Inside(q)' PROVE Covered(q, press[q].base)'
    <2>1. CASE q = p
      <3>1. Overlaps(p) => overlap[p] >= 1
        BY <1>2 DEF OverlapCounted, Begun
      <3>2. reads \in Nat /\ since[p] \in Nat /\ overlap[p] \in Nat
        BY DEF TypeOK, Feed!FeedTypeOK
      <3> QED
        BY <1>1, <1>3, <2>1, <3>1, <3>2 DEF CountsStay, Covered, Overlaps, Feed!PassUnderWay
    <2>2. CASE q # p
      <3>1. Covered(q, press[q].base) /\ press'[q] = press[q]
        BY <1>3, <1>4, <1>5, <2>2 DEF CountsCovered, NoneStarts
      <3> QED
        BY <1>1, <3>1 DEF CountsStay, Covered, Overlaps, Feed!PassUnderWay
    <2> QED
      BY <2>1, <2>2
  <1> QED
    BY <1>1, <1>4, <1>5, StillCounted, LaterInv DEF Held

LEMMA SetReadCountInv ==
    ASSUME IInv, TypeOK', NEW p \in Presses, SetReadCount(p)
    PROVE  IInv'
  <1> USE DEF IInv, PassesCounted
  <1>1. CountsStay /\ settle' = settle
    BY DEF SetReadCount, CountsStay, history
  <1>2. Inside(p) /\ press[p].phase # "new"
    BY DEF SetReadCount, Inside, InSubmit
  <1>3. NoneStarts /\ BasesStay
    BY <1>2, MovesOn DEF SetReadCount, Ends, PressPhases
  <1>4. Later /\ OverlapCounted' /\ \A q \in Presses : Inside(q)' => Covered(q, press[q].base)'
    BY <1>1, <1>3, StillCounted, StillCovered
  <1>5. ASSUME NEW c \in Cards, Held(c)'
        PROVE  \/ Held(c) /\ store'[c] = store[c]
               \/ /\ RowCovered(store[c])'
                  /\ store'[c].state = NotRecorded => RefEarned(store[c].by)'
    <2>1. CASE store' = store
      BY <1>5, <2>1 DEF Held
    <2>2. CASE /\ HeldBy(CardOf(p), p)
               /\ store' = [store EXCEPT ![CardOf(p)].base = press[p].base]
      <3>1. CASE c # CardOf(p)
        BY <1>5, <2>2, <3>1 DEF Held, TypeOK
      <3>2. CASE c = CardOf(p)
        <4>1. store[c] \in Claim /\ store[c].by = p
          BY <2>2, <3>2 DEF HeldBy, Held, TypeOK
        <4>2. store'[c] = [store[c] EXCEPT !.base = press[p].base]
          BY <2>2, <3>2 DEF TypeOK
        <4>3. /\ store'[c].by = p /\ store'[c].base = press[p].base
              /\ store'[c].state = store[c].state
          BY <4>1, <4>2 DEF Claim
        <4>4. Covered(p, press[p].base) /\ press'[p].phase # "new"
          BY <1>2, <1>3 DEF CountsCovered, NoneStarts
        <4>5. Covered(p, press[p].base)'
          BY <1>1, <1>3, <4>4 DEF BasesStay, CountsStay, Covered, Overlaps, Feed!PassUnderWay
        <4>6. RowCovered(store[c])'
          BY <1>3, <4>3, <4>4, <4>5 DEF RowCovered, BasesStay
        <4>7. ASSUME store'[c].state = NotRecorded PROVE RefEarned(store[c].by)'
          <5>1. RefEarned(p)
            BY <2>2, <3>2, <4>1, <4>3, <4>7 DEF MarksEarned, HeldBy
          <5>2. RefEarned(p)'
            BY <1>4, <5>1, LaterRef
          <5> QED
            BY <4>3, <5>2
        <4> QED
          BY <4>6, <4>7
      <3> QED
        BY <3>1, <3>2
    <2> QED
      BY <2>1, <2>2 DEF SetReadCount
  <1> QED
    BY <1>1, <1>4, <1>5, LaterInv

LEMMA CrashInv ==
    ASSUME IInv, TypeOK', BoardCrash
    PROVE  IInv'
  <1>1. CountsStay /\ store' = store
    BY DEF BoardCrash, CountsStay, history
  <1>2. ASSUME NEW p \in Presses
        PROVE  /\ press[p].phase # "new" => press'[p].phase # "new"
               /\ ~Inside(p)'
               /\ press'[p].base = press[p].base
    <2>1. press[p] \in Coroutine
      BY DEF IInv, TypeOK
    <2>2. press'[p] = IF Inside(p) THEN [press[p] EXCEPT !.phase = "dead"] ELSE press[p]
      BY DEF BoardCrash
    <2> QED
      BY <2>1, <2>2 DEF Inside, InSubmit, Coroutine
  <1>3. Later /\ OverlapCounted' /\ \A q \in Presses : Inside(q)' => Covered(q, press[q].base)'
    BY <1>1, <1>2, StillCounted, StillCovered DEF NoneStarts, BasesStay
  <1>4. \A s \in Settlers : settle'[s] = SettleIdle
    BY DEF BoardCrash
  <1> QED
    BY <1>1, <1>3, <1>4, LaterInv DEF Held, SettleIdle

(* Where the hypothesis on the constants is used: a count that has grown   *)
(* by NotRecordedAfter has room for OverlapLimit passes that overlapped    *)
(* the submission and two that began after the publication.                *)
LEMMA CoveredIsEarned ==
    ASSUME IInv, NotRecordedAfter >= OverlapLimit + 2,
           NEW row \in Claim, RowCovered(row), reads >= row.base + NotRecordedAfter
    PROVE  RefEarned(row.by)
  <1>1. row.by \in Presses /\ row.base \in Nat
    BY DEF Claim
  <1>2. /\ reads \in Nat /\ since[row.by] \in Nat /\ overlap[row.by] \in Nat
        /\ overlap[row.by] =< OverlapLimit
    BY <1>1 DEF IInv, TypeOK, Feed!FeedTypeOK, PassesCounted, OverlapCounted
  <1>3. ASSUME Begun(row.by) PROVE since[row.by] >= 2
    <2>1. reads =< row.base + since[row.by] + overlap[row.by]
      BY <1>1, <1>2, <1>3 DEF RowCovered, Covered
    <2> QED
      BY <1>1, <1>2, <2>1, ConstantsAssumption
  <1> QED
    BY <1>3 DEF RefEarned, RowCovered, Earned

LEMMA SettleInv ==
    ASSUME IInv, TypeOK', NotRecordedAfter >= OverlapLimit + 2,
           NEW s \in Settlers, SettleStep(s)
    PROVE  IInv'
  <1> USE DEF IInv, PassesCounted
  <1>1. CountsStay /\ press' = press
    BY DEF SettleStep, SettleRead, SettleDecide, SettleWrite, SettleFails, CountsStay, history
  <1>2. Later /\ OverlapCounted' /\ \A q \in Presses : Inside(q)' => Covered(q, press[q].base)'
    BY <1>1, StillCounted, StillCovered DEF NoneStarts, BasesStay, Inside
  <1>3. \A t \in Settlers : t # s => settle'[t] = settle[t]
    BY DEF SettleStep, SettleRead, SettleDecide, SettleWrite, SettleFails, TypeOK
  <1>4. settle \in [Settlers -> Settling]
    BY DEF TypeOK
  <1>5. ASSUME SettleRead(s) PROVE IInv'
    <2>1. settle'[s].seen = store /\ settle'[s].upd = {} /\ store' = store
      BY <1>4, <1>5 DEF SettleRead, SettleIdle
    <2>2. \A c \in Cards : settle'[s].seen[c] # NoClaim =>
              Held(c) /\ settle'[s].seen[c] = store[c]
      BY <2>1 DEF Held
    <2> QED
      BY <1>2, <1>3, <2>1, <2>2, LaterInv DEF Held
  <1>6. ASSUME SettleDecide(s) PROVE IInv'
    <2> DEFINE seen == settle[s].seen
    <2>1. store' = store /\ \A c \in Cards : settle'[s].seen[c] = NoClaim
      BY <1>4, <1>6 DEF SettleDecide, SettleIdle
    <2>2. settle'[s].upd \subseteq ToMark(seen)
      BY <1>4, <1>6 DEF SettleDecide, SettleIdle
    <2>3. ASSUME NEW ref \in ToMark(seen) PROVE RefEarned(ref[2])
      <3>1. PICK c \in Cards : /\ seen[c] # NoClaim /\ ref = <<c, seen[c].by>>
                               /\ reads >= seen[c].base + NotRecordedAfter
        BY <2>3 DEF ToMark, Refs
      <3>2. seen[c] \in Claim /\ RowCovered(seen[c])
        BY <1>4, <3>1 DEF Settling, CountsCovered
      <3> QED
        BY <3>1, <3>2, CoveredIsEarned
    <2>4. ASSUME NEW ref \in settle'[s].upd PROVE RefEarned(ref[2])'
      <3>1. ref[2] \in Presses
        BY <2>4 DEF TypeOK, Settling, RowRef
      <3> QED
        BY <1>2, <2>2, <2>3, <2>4, <3>1, LaterRef
    <2> QED
      BY <1>2, <1>3, <2>1, <2>4, LaterInv DEF Held
  <1>7. ASSUME SettleWrite(s) PROVE IInv'
    <2>1. settle'[s] = SettleIdle
      BY <1>4, <1>7 DEF SettleWrite
    <2>2. ASSUME NEW c \in Cards, Held(c)'
          PROVE  \/ Held(c) /\ store'[c] = store[c]
                 \/ /\ RowCovered(store[c])'
                    /\ store'[c].state = NotRecorded => RefEarned(store[c].by)'
      <3>1. store'[c] = Settled(c, s) /\ store[c] \in Claim \cup {NoClaim}
        BY <1>7 DEF SettleWrite, TypeOK
      <3>2. CASE Held(c) /\ store'[c] = store[c]
        BY <3>2
      <3>3. CASE /\ Held(c) /\ <<c, store[c].by>> \in settle[s].upd
                 /\ store'[c] = [store[c] EXCEPT !.state = NotRecorded]
        <4>1. /\ store[c] \in Claim /\ store'[c] \in Claim
              /\ store'[c].by = store[c].by /\ store'[c].base = store[c].base
          BY <3>1, <3>3 DEF Held, Claim
        <4>2. RowCovered(store[c]) /\ RefEarned(store[c].by)
          BY <3>3 DEF CountsCovered, MarksEarned
        <4>3. RowCovered(store[c])'
          BY <1>1, <4>1, <4>2
             DEF RowCovered, CountsStay, Begun, Inside, Covered, Overlaps, Feed!PassUnderWay
        <4>4. RefEarned(store[c].by)'
          BY <1>1, <4>1, <4>2 DEF RefEarned, CountsStay, Begun, Inside, Earned
        <4> QED
          BY <4>3, <4>4
      <3> QED
        BY <2>2, <3>1, <3>2, <3>3 DEF Settled, Held
    <2> QED
      BY <1>2, <1>3, <2>1, <2>2, LaterInv DEF SettleIdle
  <1>8. ASSUME SettleFails(s) PROVE IInv'
    <2>1. store' = store /\ settle'[s] = SettleIdle
      BY <1>4, <1>8 DEF SettleFails
    <2> QED
      BY <1>2, <1>3, <2>1, LaterInv DEF SettleIdle, Held
  <1> QED
    BY <1>5, <1>6, <1>7, <1>8 DEF SettleStep

LEMMA ForgeInv ==
    ASSUME IInv, TypeOK', ForgeStep
    PROVE  IInv'
  <1>1. CountsStay /\ UNCHANGED <<press, store, settle>>
    BY DEF ForgeStep, ForgeRecords, ForgeRefuses, ForgeOpens, ClosedElsewhere, CountsStay,
           boardVars, history
  <1> QED
    BY <1>1, StillCounted, StillCovered, LaterInv DEF NoneStarts, BasesStay, Inside, Held

(* The feed's steps: each moves the counts so that nothing is uncovered.   *)
LEMMA FeedInv ==
    ASSUME IInv, TypeOK', FeedStep
    PROVE  IInv'
  <1> USE DEF IInv, PassesCounted
  <1>1. UNCHANGED <<press, store, settle, published>>
    BY DEF FeedStep, PassBegin, PassStamp, FeedOther, StoreRebuilt, boardVars, history
  <1>2. ASSUME NEW p \in Presses
        PROVE  (Inside(p)' <=> Inside(p)) /\ (Begun(p)' <=> Begun(p))
    BY <1>1 DEF Inside, Begun
  <1>3. ASSUME NEW p \in Presses
        PROVE  /\ reads \in Nat /\ since[p] \in Nat /\ overlap[p] \in Nat
               /\ overlap[p] =< OverlapLimit
               /\ Begun(p) /\ Overlaps(p) => overlap[p] >= 1
    BY DEF TypeOK, Feed!FeedTypeOK, OverlapCounted
  <1>4. \A p \in Presses : press[p].base \in Nat
    BY DEF TypeOK, Coroutine
  <1>5. ASSUME Later, OverlapCounted' PROVE IInv'
    <2>1. ASSUME NEW p \in Presses, Inside(p)' PROVE Covered(p, press[p].base)'
      <3>1. Covered(p, press[p].base) /\ Begun(p) /\ Begun(p)'
        BY <1>2, <2>1 DEF CountsCovered, Begun
      <3>2. ASSUME NEW base \in Nat, base = press[p].base PROVE Covered(p, base)'
        BY <1>5, <3>1, <3>2 DEF Later
      <3> QED
        BY <1>1, <1>4, <3>2
    <2> QED
      BY <1>1, <1>5, <2>1, LaterInv DEF Held
  <1>6. ASSUME PassBegin PROVE IInv'
    <2>1. /\ reads' = reads /\ since' = since /\ eligible' = published
          /\ pass = "idle" /\ pass' = "begun"
      BY <1>6 DEF PassBegin, Feed!PassBegin, boardVars
    <2>2. ASSUME NEW p \in Presses
          PROVE  /\ overlap'[p] = IF Inside(p) THEN overlap[p] + 1 ELSE overlap[p]
                 /\ Inside(p) => overlap[p] < OverlapLimit
      BY <1>6 DEF PassBegin
    <2>3. ASSUME NEW p \in Presses
          PROVE  /\ overlap'[p] =< OverlapLimit
                 /\ Begun(p)' /\ Overlaps(p)' => overlap'[p] >= 1
      BY <1>1, <1>2, <1>3, <2>1, <2>2, ConstantsAssumption DEF Overlaps, Begun
    <2>4. ASSUME NEW p \in Presses, NEW base \in Nat, Begun(p), Covered(p, base)
          PROVE  Covered(p, base)'
      BY <1>2, <1>3, <2>1, <2>2, <2>4 DEF Covered, Overlaps, Begun, Feed!PassUnderWay
    <2>5. Later
      BY <1>1, <1>2, <1>3, <2>1, <2>4 DEF Later
    <2>6. OverlapCounted'
      BY <1>1, <2>1, <2>3 DEF OverlapCounted
    <2> QED
      BY <1>5, <2>5, <2>6
  <1>7. ASSUME PassStamp PROVE IInv'
    <2>1. /\ reads' = reads + 1 /\ eligible' = eligible /\ overlap' = overlap
          /\ pass = "written" /\ pass' = "idle"
      BY <1>7 DEF PassStamp, Feed!PassStamp, boardVars
    <2>2. ASSUME NEW p \in Presses
          PROVE  since'[p] = IF p \in eligible THEN since[p] + 1 ELSE since[p]
      BY <1>7 DEF PassStamp
    <2>3. ASSUME NEW p \in Presses, NEW base \in Nat, Begun(p), Covered(p, base)
          PROVE  Covered(p, base)'
      BY <1>3, <2>1, <2>2, <2>3 DEF Covered, Overlaps, Feed!PassUnderWay
    <2>4. Later
      BY <1>1, <1>2, <1>3, <2>2, <2>3 DEF Later
    <2>5. OverlapCounted'
      BY <1>1, <1>2, <2>1 DEF OverlapCounted, Overlaps, Feed!PassUnderWay
    <2> QED
      BY <1>5, <2>4, <2>5
  <1>8. ASSUME FeedOther \/ StoreRebuilt PROVE IInv'
    <2>1. /\ UNCHANGED <<since, eligible, overlap>>
          /\ reads' = reads \/ reads' = 0
          /\ Feed!PassUnderWay' => Feed!PassUnderWay
      BY <1>8 DEF FeedOther, StoreRebuilt, history, Feed!PassRead, Feed!PassFail, Feed!PassWrite,
                  Feed!PassAbandon, Feed!FeedStop, Feed!FeedStart, Feed!CopyAges, Feed!StoreRebuilt,
                  Feed!PassUnderWay
    <2>2. ASSUME NEW p \in Presses, NEW base \in Nat, Begun(p), Covered(p, base)
          PROVE  Covered(p, base)'
      BY <1>3, <2>1, <2>2 DEF Covered, Overlaps
    <2>3. Later
      BY <1>1, <1>2, <1>3, <2>1, <2>2 DEF Later
    <2>4. OverlapCounted'
      BY <1>1, <1>2, <2>1 DEF OverlapCounted, Overlaps
    <2> QED
      BY <1>5, <2>3, <2>4
  <1> QED
    BY <1>6, <1>7, <1>8 DEF FeedStep

LEMMA InitInv == Init => IInv
  <1> SUFFICES ASSUME Init PROVE IInv
    OBVIOUS
  <1>1. TypeOK
    BY InitTypeOK
  <1>2. /\ \A p \in Presses : press[p].phase = "new" /\ overlap[p] = 0
        /\ \A c \in Cards : ~Held(c)
        /\ \A s \in Settlers : settle[s] = SettleIdle
        /\ published = {} /\ eligible = {}
    BY DEF Init, Held
  <1>3. OverlapCounted
    BY <1>2, ConstantsAssumption DEF OverlapCounted, Begun, Inside, InSubmit
  <1>4. CountsCovered
    BY <1>2 DEF CountsCovered, SettleIdle, Inside, InSubmit
  <1>5. MarksEarned
    BY <1>2 DEF MarksEarned, SettleIdle
  <1> QED
    BY <1>1, <1>3, <1>4, <1>5 DEF IInv, PassesCounted

LEMMA StepInv ==
    ASSUME IInv, [Next]_vars, NotRecordedAfter >= OverlapLimit + 2
    PROVE  IInv'
  <1>1. TypeOK'
    BY TypeStep DEF IInv
  <1>2. ASSUME NEW p \in Presses, PressStep(p) PROVE IInv'
    BY <1>1, <1>2, CheckInv, ClaimCardInv, PublishInv, SendInv, CountReadInv, SetReadCountInv
       DEF PressStep
  <1>3. ASSUME NEW s \in Settlers, SettleStep(s) PROVE IInv'
    BY <1>1, <1>3, SettleInv
  <1>4. CASE UNCHANGED vars
    BY <1>1, <1>4, StillCounted, StillCovered, LaterInv
       DEF vars, CountsStay, NoneStarts, BasesStay, Inside, Held
  <1> QED
    BY <1>1, <1>2, <1>3, <1>4, CrashInv, ForgeInv, FeedInv DEF Next

(* An answer is declared unrecorded only after two successful passes that  *)
(* began after it was published, whatever the interleaving, when the count *)
(* waits for at least two passes more than can overlap one submission.     *)
THEOREM NotRecordedOnlyWhenEarned ==
    ASSUME NotRecordedAfter >= OverlapLimit + 2
    PROVE  Spec => []NotRecordedIsEarned
  <1>1. IInv /\ [Next]_vars => IInv'
    BY StepInv
  <1>2. IInv => NotRecordedIsEarned
    BY DEF IInv, PassesCounted, MarksEarned, NotRecordedIsEarned, RefEarned, Begun
  <1> QED
    BY <1>1, <1>2, InitInv, PTL DEF Spec

-----------------------------------------------------------------------------
(* What a person is told is true of Forge's record, and the claim store is *)
(* the lease OneAnswer describes.                                          *)

(* How far a card has come: a state is reached from any earlier one.       *)
Reached(from, to) ==
    /\ from # "absent" => to # "absent"
    /\ from = "closed" => to = "closed"

LEMMA StillReached ==
    ASSUME NEW a, NEW b, NEW c, Reached(a, b), Reached(b, c)
    PROVE  Reached(a, c)
  BY DEF Reached

(* The board's copy and the snapshot of a pass lag Forge's record, and a   *)
(* snapshot is never behind the copy it is about to replace.               *)
CopyBehind ==
    \A c \in Cards : /\ Reached(copy[c], record[c])
                     /\ Reached(snap[c], record[c])
                     /\ pass = "read" => Reached(copy[c], snap[c])

(* Forge's record only moves on, and so does the copy while its store is   *)
(* kept.                                                                   *)
RecordMovesOn == \A c \in Cards : Reached(record[c], record'[c])
CopyMovesOn == \A c \in Cards : Reached(copy[c], copy'[c])

LEMMA RecordStep == TypeOK /\ [Next]_vars => RecordMovesOn
  <1> SUFFICES ASSUME TypeOK, [Next]_vars PROVE RecordMovesOn
    OBVIOUS
  <1> USE DEF TypeOK, Feed!FeedTypeOK, Records
  <1>1. CASE record' = record
    BY <1>1 DEF RecordMovesOn, Reached
  <1>2. ASSUME NEW c \in Cards, ForgeCloses(c) PROVE RecordMovesOn
    BY <1>2 DEF RecordMovesOn, Reached, ForgeCloses
  <1>3. ASSUME NEW c \in Cards, ForgeOpens(c) PROVE RecordMovesOn
    BY <1>3 DEF RecordMovesOn, Reached, ForgeOpens
  <1>4. ASSUME NEW p \in Presses, ForgeRecords(p) PROVE RecordMovesOn
    BY <1>2, <1>4 DEF ForgeRecords, CardOf, Coroutine
  <1>5. CASE ForgeStep
    BY <1>1, <1>2, <1>3, <1>4, <1>5 DEF ForgeStep, ForgeRefuses, ClosedElsewhere
  <1>6. ASSUME NEW p \in Presses, PressStep(p) PROVE record' = record
    BY <1>6 DEF PressStep, Check, ClaimCard, Publish, ConnectFails, FlushDone, FlushFails,
                Release, CountRead, SetReadCount
  <1>7. ASSUME NEW s \in Settlers, SettleStep(s) PROVE record' = record
    BY <1>7 DEF SettleStep, SettleRead, SettleDecide, SettleWrite, SettleFails
  <1>8. BoardCrash \/ FeedStep => record' = record
    BY DEF BoardCrash, FeedStep, PassBegin, PassStamp, FeedOther, StoreRebuilt
  <1> QED
    BY <1>1, <1>5, <1>6, <1>7, <1>8 DEF Next, vars

(* Only the feed touches the copy and the snapshot.                        *)
LEMMA CopyStep ==
    ASSUME TypeOK, [Next]_vars, CopyBehind
    PROVE  /\ CopyBehind'
           /\ rebuilds' = rebuilds => CopyMovesOn
           /\ rebuilds' = rebuilds \/ rebuilds' = rebuilds + 1
  <1>1. RecordMovesOn
    BY RecordStep
  <1>2. CASE UNCHANGED <<copy, snap, pass, rebuilds>>
    BY <1>1, <1>2 DEF CopyBehind, CopyMovesOn, RecordMovesOn, Reached
  <1>3. ASSUME NEW p \in Presses, PressStep(p) PROVE UNCHANGED <<copy, snap, pass, rebuilds>>
    BY <1>3 DEF PressStep, Check, ClaimCard, Publish, ConnectFails, FlushDone, FlushFails,
                Release, CountRead, SetReadCount
  <1>4. ASSUME NEW s \in Settlers, SettleStep(s) PROVE UNCHANGED <<copy, snap, pass, rebuilds>>
    BY <1>4 DEF SettleStep, SettleRead, SettleDecide, SettleWrite, SettleFails
  <1>5. BoardCrash \/ ForgeStep => UNCHANGED <<copy, snap, pass, rebuilds>>
    BY DEF BoardCrash, ForgeStep, ForgeRecords, ForgeRefuses, ForgeOpens, ClosedElsewhere
  <1>6. CASE PassBegin \/ PassStamp
    BY <1>6 DEF PassBegin, PassStamp, Feed!PassBegin, Feed!PassStamp, CopyBehind, CopyMovesOn, Reached
  <1>7. CASE FeedOther
    BY <1>7 DEF FeedOther, Feed!PassRead, Feed!PassFail, Feed!PassWrite, Feed!PassAbandon,
                Feed!FeedStop, Feed!FeedStart, Feed!CopyAges, CopyBehind, CopyMovesOn, Reached,
                EmptyCopy
  <1>8. CASE StoreRebuilt
    BY <1>8 DEF StoreRebuilt, Feed!StoreRebuilt, CopyBehind, Reached, EmptyCopy
  <1> QED
    BY <1>2, <1>3, <1>4, <1>5, <1>6, <1>7, <1>8 DEF Next, FeedStep, vars

(* A step of a press leaves the other presses alone.                       *)
LEMMA OthersStay ==
    ASSUME TypeOK, NEW p \in Presses, PressStep(p), NEW q \in Presses, q # p
    PROVE  press'[q] = press[q] /\ outcome'[q] = outcome[q]
  BY DEF TypeOK, PressStep, Check, CheckPasses, CheckRefuses, ClaimCard, Publish, ConnectFails,
         FlushDone, FlushFails, Release, CountRead, SetReadCount, Ends, Goto, history

LEMMA GoesTo ==
    ASSUME TypeOK, NEW p \in Presses, NEW ph \in PressPhases, Goto(p, ph)
    PROVE  press'[p].phase = ph /\ press'[p].card = press[p].card /\ press'[p].base = press[p].base
  <1>1. press' = [press EXCEPT ![p] = [press[p] EXCEPT !.phase = ph]]
    BY DEF Goto
  <1>2. press \in [Presses -> Coroutine] /\ press[p] \in Coroutine
    BY DEF TypeOK
  <1> QED
    BY <1>1, <1>2 DEF Coroutine

LEMMA TakesCount ==
    ASSUME TypeOK, NEW p \in Presses, NEW ph \in PressPhases,
           press' = [press EXCEPT ![p].phase = ph, ![p].base = reads]
    PROVE  press'[p].phase = ph /\ press'[p].card = press[p].card /\ press'[p].base = reads
  <1>1. press' = [press EXCEPT ![p] = [press[p] EXCEPT !.phase = ph, !.base = reads]]
    OBVIOUS
  <1>2. press \in [Presses -> Coroutine] /\ press[p] \in Coroutine
    BY DEF TypeOK
  <1> QED
    BY <1>1, <1>2 DEF Coroutine

(* A press is for one card, and only its own step ends it.                 *)
LEMMA CardsStay ==
    ASSUME TypeOK, [Next]_vars, NEW q \in Presses
    PROVE  CardOf(q)' = CardOf(q)
  <1>1. CASE press' = press
    BY <1>1 DEF CardOf
  <1>2. ASSUME NEW p \in Presses, PressStep(p) PROVE CardOf(q)' = CardOf(q)
    <2>1. CASE q # p
      BY <1>2, <2>1, OthersStay DEF CardOf
    <2>2. CASE q = p /\ (CheckPasses(p) \/ CountRead(p))
      BY <2>2, TakesCount DEF CardOf, CheckPasses, CountRead, PressPhases
    <2>3. CASE q = p /\ \E ph \in PressPhases : Goto(p, ph)
      BY <2>3, GoesTo DEF CardOf
    <2> QED
      BY <1>2, <2>1, <2>2, <2>3
         DEF PressStep, Check, CheckRefuses, ClaimCard, Publish, ConnectFails,
             FlushDone, FlushFails, Release, SetReadCount, Ends, PressPhases
  <1>3. CASE BoardCrash
    <2>1. press[q] \in Coroutine
      BY DEF TypeOK
    <2>2. press'[q] = IF Inside(q) THEN [press[q] EXCEPT !.phase = "dead"] ELSE press[q]
      BY <1>3 DEF BoardCrash
    <2> QED
      BY <2>1, <2>2 DEF CardOf, Coroutine
  <1>4. (\E s \in Settlers : SettleStep(s)) \/ ForgeStep \/ FeedStep => press' = press
    BY DEF SettleStep, SettleRead, SettleDecide, SettleWrite, SettleFails, ForgeStep, ForgeRecords,
           ForgeRefuses, ForgeOpens, ClosedElsewhere, FeedStep, PassBegin, PassStamp, FeedOther,
           StoreRebuilt, boardVars
  <1> QED
    BY <1>1, <1>2, <1>3, <1>4 DEF Next, vars

(* "Already answered" is said of a card that is closed in a copy that only *)
(* lags the record, so it is true whatever happened to that copy since.    *)
AlreadyInv == TypeOK /\ CopyBehind /\ AlreadyIsTrue

LEMMA AlreadyStep == AlreadyInv /\ [Next]_vars => AlreadyInv'
  <1> SUFFICES ASSUME AlreadyInv, [Next]_vars PROVE AlreadyInv'
    OBVIOUS
  <1> USE DEF AlreadyInv
  <1>1. TypeOK' /\ CopyBehind' /\ RecordMovesOn
    BY TypeStep, CopyStep, RecordStep
  <1>2. ASSUME NEW q \in Presses, outcome'[q] = "already" PROVE record'[CardOf(q)'] = "closed"
    <2>1. CardOf(q) \in Cards /\ CardOf(q)' = CardOf(q)
      BY CardsStay DEF TypeOK, CardOf, Coroutine
    <2>2. record[CardOf(q)] = "closed"
      <3>1. CASE outcome[q] = "already"
        BY <3>1 DEF AlreadyIsTrue
      <3>2. CASE CheckRefuses(q)
        <4>1. "already" \in CheckCode(CardOf(q))
          BY <1>2, <3>2 DEF CheckRefuses, Ends, TypeOK
        <4>2. copy[CardOf(q)] = "closed"
          BY <4>1 DEF CheckCode
        <4> QED
          BY <2>1, <4>2 DEF CopyBehind, Reached
      <3>3. ASSUME NEW p \in Presses, PressStep(p) PROVE outcome[q] = "already" \/ CheckRefuses(q)
        <4>1. CASE q # p
          BY <1>2, <3>3, <4>1, OthersStay
        <4>2. CASE q = p
          BY <1>2, <3>3, <4>2
             DEF TypeOK, PressStep, Check, CheckPasses, ClaimCard, Publish, ConnectFails, FlushDone,
                 FlushFails, Release, CountRead, SetReadCount, Ends
        <4> QED
          BY <4>1, <4>2
      <3>4. \/ BoardCrash \/ ForgeStep \/ FeedStep \/ UNCHANGED vars
            \/ \E s \in Settlers : SettleStep(s)
            => outcome' = outcome
        BY DEF BoardCrash, SettleStep, SettleRead, SettleDecide, SettleWrite, SettleFails, ForgeStep,
               ForgeRecords, ForgeRefuses, ForgeOpens, ClosedElsewhere, FeedStep, PassBegin,
               PassStamp, FeedOther, StoreRebuilt, boardVars, vars
      <3> QED
        BY <1>2, <3>1, <3>2, <3>3, <3>4 DEF Next
    <2> QED
      BY <1>1, <2>1, <2>2 DEF RecordMovesOn, Reached
  <1> QED
    BY <1>1, <1>2 DEF AlreadyIsTrue

(* A person told "already answered" is told the truth about Forge's own    *)
(* record, whatever passes failed, lagged or started from a new store.     *)
THEOREM AlreadyIsNeverWrong == Spec => []AlreadyIsTrue
  <1>1. Init => AlreadyInv
    BY InitTypeOK
       DEF Init, Feed!FeedInit, AlreadyInv, AlreadyIsTrue, CopyBehind, Reached, EmptyCopy
  <1>2. AlreadyInv => AlreadyIsTrue
    BY DEF AlreadyInv
  <1> QED
    BY <1>1, <1>2, AlreadyStep, PTL DEF Spec

-----------------------------------------------------------------------------
(* The way of a coroutine through submit.                                  *)
PhaseSteps ==
    {<<"new", "checked">>, <<"new", "done">>, <<"checked", "claimed">>, <<"checked", "done">>,
     <<"claimed", "published">>, <<"claimed", "failing">>, <<"published", "sent">>,
     <<"published", "failing">>, <<"failing", "done">>, <<"sent", "counting">>,
     <<"counting", "done">>}

LEMMA PressMoves ==
    ASSUME TypeOK, NEW p \in Presses, PressStep(p)
    PROVE  /\ <<press[p].phase, press'[p].phase>> \in PhaseSteps
           /\ press'[p].phase # "done" => outcome'[p] = outcome[p]
           /\ press[p].phase = "failing" => outcome'[p] = "bus"
           /\ published' = IF press'[p].phase = "published" THEN published \cup {p} ELSE published
           /\ UNCHANGED <<record, copy, snap, pass, reads, settle, rebuilds, since, eligible>>
  <1> USE DEF PhaseSteps, PressPhases
  <1>1. CASE Check(p) /\ CheckPasses(p)
    <2>1. press'[p].phase = "checked"
      BY <1>1, TakesCount DEF CheckPasses
    <2> QED
      BY <1>1, <2>1 DEF Check, CheckPasses
  <1>2. CASE Check(p) /\ CheckRefuses(p)
    <2>1. press'[p].phase = "done"
      BY <1>2, GoesTo DEF CheckRefuses, Ends
    <2> QED
      BY <1>2, <2>1 DEF Check
  <1>3. CASE ClaimCard(p)
    <2>1. press'[p].phase = "done" \/ (press'[p].phase = "claimed" /\ outcome' = outcome)
      BY <1>3, GoesTo DEF ClaimCard, Ends
    <2> QED
      BY <1>3, <2>1 DEF ClaimCard
  <1>4. CASE Publish(p)
    BY <1>4, GoesTo DEF Publish
  <1>5. CASE ConnectFails(p)
    BY <1>5, GoesTo DEF ConnectFails, history
  <1>6. CASE FlushDone(p)
    BY <1>6, GoesTo DEF FlushDone, history
  <1>7. CASE FlushFails(p)
    BY <1>7, GoesTo DEF FlushFails, history
  <1>8. CASE Release(p)
    <2>1. press'[p].phase = "done" /\ outcome'[p] = "bus"
      BY <1>8, GoesTo DEF Release, Ends, TypeOK
    <2> QED
      BY <1>8, <2>1 DEF Release, history
  <1>9. CASE CountRead(p)
    <2>1. press'[p].phase = "counting"
      BY <1>9, TakesCount DEF CountRead
    <2> QED
      BY <1>9, <2>1 DEF CountRead, history
  <1>10. CASE SetReadCount(p)
    <2>1. press'[p].phase = "done"
      BY <1>10, GoesTo DEF SetReadCount, Ends
    <2> QED
      BY <1>10, <2>1 DEF SetReadCount, history
  <1> QED
    BY <1>1, <1>2, <1>3, <1>4, <1>5, <1>6, <1>7, <1>8, <1>9, <1>10 DEF PressStep, Check

(* Every other step leaves the coroutines alone, or ends those in submit.  *)
LEMMA OnlyCrashEnds ==
    ASSUME TypeOK, [Next]_vars, ~(\E p \in Presses : PressStep(p)), NEW q \in Presses
    PROVE  /\ press'[q] = press[q] \/ (BoardCrash /\ Inside(q) /\ press'[q].phase = "dead")
           /\ outcome' = outcome
           /\ published' = published
  <1>1. ASSUME BoardCrash PROVE press'[q] = press[q] \/ (Inside(q) /\ press'[q].phase = "dead")
    <2>1. press[q] \in Coroutine
      BY DEF TypeOK
    <2>2. press'[q] = IF Inside(q) THEN [press[q] EXCEPT !.phase = "dead"] ELSE press[q]
      BY <1>1 DEF BoardCrash
    <2> QED
      BY <2>1, <2>2 DEF Coroutine
  <1>2. BoardCrash => UNCHANGED <<outcome, published>>
    BY DEF BoardCrash, history
  <1>3. \/ ForgeStep \/ FeedStep \/ UNCHANGED vars
        \/ \E s \in Settlers : SettleStep(s)
        => UNCHANGED <<press, outcome, published>>
    BY DEF SettleStep, SettleRead, SettleDecide, SettleWrite, SettleFails, ForgeStep,
           ForgeRecords, ForgeRefuses, ForgeOpens, ClosedElsewhere, FeedStep, PassBegin,
           PassStamp, FeedOther, StoreRebuilt, boardVars, history, vars
  <1> QED
    BY <1>1, <1>2, <1>3 DEF Next

(* What begins with a submission: no pass counts for an answer before it   *)
(* is published, no outcome before the end, and a press claims its card.   *)
Begins ==
    /\ \A p \in Presses : p \notin published => since[p] = 0
    /\ \A p \in published : press[p].phase \notin {"new", "checked", "claimed"}
    /\ \A p \in Presses : press[p].phase # "done" => outcome[p] = ""
    /\ \A c \in Cards : Held(c) => CardOf(store[c].by) = c

(* What a step can do to a row of answer_claims.                           *)
RowKept(c) == store'[c] = store[c]
RowTaken(c, p) ==
    /\ press[p].phase = "checked" /\ press'[p].phase = "claimed"
    /\ CardOf(p) = c
    /\ ~(Held(c) /\ store[c].state = Waiting)
    /\ store'[c] = [by |-> p, base |-> press[p].base, state |-> Waiting]
RowRaised(c, p) ==
    /\ press[p].phase = "counting"
    /\ HeldBy(c, p)
    /\ store'[c] = [store[c] EXCEPT !.base = press[p].base]
RowReleased(c, p) ==
    /\ press[p].phase = "failing"
    /\ HeldBy(c, p)
    /\ store'[c] = NoClaim
RowMarked(c, s) ==
    /\ Held(c) /\ <<c, store[c].by>> \in settle[s].upd
    /\ store'[c] = [store[c] EXCEPT !.state = NotRecorded]
RowCleared(c, s) ==
    /\ Held(c) /\ <<c, store[c].by>> \in settle[s].del
    /\ store'[c] = NoClaim

LEMMA TakenRow ==
    ASSUME NEW c \in Cards, NEW p \in Presses, RowTaken(c, p)
    PROVE  /\ CardOf(p) = c /\ press[p].phase = "checked" /\ press'[p].phase = "claimed"
           /\ store'[c].by = p /\ store'[c].base = press[p].base /\ store'[c].state = Waiting
           /\ ~(Held(c) /\ store[c].state = Waiting)
  BY DEF RowTaken

LEMMA RowMoves ==
    ASSUME TypeOK, [Next]_vars, NEW c \in Cards
    PROVE  \/ RowKept(c)
           \/ \E p \in Presses : PressStep(p) /\ (RowTaken(c, p) \/ RowRaised(c, p) \/ RowReleased(c, p))
           \/ \E s \in Settlers : SettleWrite(s) /\ (RowMarked(c, s) \/ RowCleared(c, s))
  <1> USE DEF TypeOK, RowKept
  <1>1. ASSUME NEW p \in Presses, PressStep(p)
        PROVE  RowKept(c) \/ RowTaken(c, p) \/ RowRaised(c, p) \/ RowReleased(c, p)
    <2>1. CASE ClaimCard(p)
      <3>1. Goto(p, "claimed") => press'[p].phase = "claimed"
        BY GoesTo DEF PressPhases
      <3> QED
        BY <2>1, <3>1 DEF ClaimCard, RowTaken
    <2>2. CASE SetReadCount(p)
      <3>1. CASE store' = [store EXCEPT ![CardOf(p)].base = press[p].base] /\ HeldBy(CardOf(p), p)
        <4>1. CardOf(p) = c => store'[c] = [store[c] EXCEPT !.base = press[p].base]
          BY <3>1
        <4> QED
          BY <2>2, <3>1, <4>1 DEF SetReadCount, RowRaised
      <3> QED
        BY <2>2, <3>1 DEF SetReadCount
    <2>3. CASE Release(p)
      BY <2>3 DEF Release, RowReleased
    <2> QED
      BY <1>1, <2>1, <2>2, <2>3
         DEF PressStep, Check, Publish, ConnectFails, FlushDone, FlushFails, CountRead
  <1>2. ASSUME NEW s \in Settlers, SettleStep(s)
        PROVE  RowKept(c) \/ (SettleWrite(s) /\ (RowMarked(c, s) \/ RowCleared(c, s)))
    <2>1. CASE SettleWrite(s)
      <3>1. store'[c] = Settled(c, s)
        BY <2>1 DEF SettleWrite
      <3> QED
        BY <2>1, <3>1 DEF Settled, RowMarked, RowCleared
    <2> QED
      BY <1>2, <2>1 DEF SettleStep, SettleRead, SettleDecide, SettleFails
  <1>3. BoardCrash \/ ForgeStep \/ FeedStep \/ UNCHANGED vars => store' = store
    BY DEF BoardCrash, ForgeStep, ForgeRecords, ForgeRefuses, ForgeOpens, ClosedElsewhere, FeedStep,
           PassBegin, PassStamp, FeedOther, StoreRebuilt, boardVars, vars
  <1> QED
    BY <1>1, <1>2, <1>3 DEF Next

(* What a step leaves in a settlement's hands.                             *)
LEMMA SettleMoves ==
    ASSUME TypeOK, [Next]_vars, NEW s \in Settlers
    PROVE  \/ settle'[s] = settle[s]
           \/ settle'[s] = SettleIdle
           \/ settle'[s].seen = store /\ settle'[s].upd = {} /\ settle'[s].del = {}
           \/ /\ settle'[s].seen = SettleIdle.seen
              /\ settle'[s].upd = ToMark(settle[s].seen)
              /\ settle'[s].del = ToDelete(settle[s].seen)
              /\ UNCHANGED <<press, copy>>
  <1> USE DEF TypeOK
  <1>1. ASSUME NEW t \in Settlers, SettleStep(t), s # t PROVE settle'[s] = settle[s]
    BY <1>1 DEF SettleStep, SettleRead, SettleDecide, SettleWrite, SettleFails
  <1>2. CASE SettleRead(s)
    <2>1. settle'[s] = [SettleIdle EXCEPT !.phase = "read", !.seen = store]
      BY <1>2 DEF SettleRead
    <2> QED
      BY <2>1 DEF SettleIdle
  <1>3. CASE SettleDecide(s)
    <2>1. \/ settle'[s] = SettleIdle
          \/ settle'[s] = [SettleIdle EXCEPT !.phase = "decided", !.del = ToDelete(settle[s].seen),
                                             !.upd = ToMark(settle[s].seen)]
      BY <1>3 DEF SettleDecide
    <2> QED
      BY <1>3, <2>1 DEF SettleIdle, SettleDecide
  <1>4. CASE SettleWrite(s) \/ SettleFails(s)
    BY <1>4 DEF SettleWrite, SettleFails
  <1>5. CASE BoardCrash
    BY <1>5 DEF BoardCrash
  <1>6. \/ \E p \in Presses : PressStep(p)
        \/ ForgeStep \/ FeedStep \/ UNCHANGED vars
        => settle' = settle
    BY PressMoves
       DEF ForgeStep, ForgeRecords, ForgeRefuses, ForgeOpens, ClosedElsewhere, FeedStep,
           PassBegin, PassStamp, FeedOther, StoreRebuilt, boardVars, vars
  <1> QED
    BY <1>1, <1>2, <1>3, <1>4, <1>5, <1>6 DEF Next, SettleStep

-----------------------------------------------------------------------------
(* Counting from both sides.  While a coroutine is inside submit the feed  *)
(* counts no pass that does not overlap it (Within), and no count falls    *)
(* behind the passes that are counted for its answer (Up).                 *)
UnderWay == IF Feed!PassUnderWay THEN 1 ELSE 0
CountedFor(p) == IF p \in eligible THEN UnderWay ELSE 0
Within(p, base) == reads + UnderWay =< base + overlap[p]
Up(p, base) == reads + overlap[p] >= base + since[p]
Overlapped(p) == UnderWay =< overlap[p] /\ since[p] + CountedFor(p) =< overlap[p]

InsideCounted ==
    \A p \in Presses : Inside(p) => Within(p, press[p].base) /\ Overlapped(p)
RowsWait ==
    /\ \A c \in Cards : Held(c) /\ Inside(store[c].by) =>
          store[c].state = Waiting /\ Within(store[c].by, store[c].base)
    /\ \A s \in Settlers, c \in Cards :
          settle[s].seen[c] # NoClaim /\ Inside(settle[s].seen[c].by) =>
             Within(settle[s].seen[c].by, settle[s].seen[c].base)
    /\ \A s \in Settlers : \A ref \in settle[s].upd : ~Inside(ref[2])
CountKept ==
    /\ \A p \in Presses : Inside(p) => Up(p, press[p].base)
    /\ \A c \in Cards : Held(c) => Up(store[c].by, store[c].base)

CountInv == IInv /\ Begins /\ InsideCounted /\ RowsWait /\ (rebuilds = 0 => CountKept)

(* How a step moves the counts of a submission that has begun.             *)
LEMMA CountMoves ==
    ASSUME TypeOK, [Next]_vars, NEW q \in Presses, press[q].phase # "new"
    PROVE  /\ rebuilds' = 0 => rebuilds = 0
           /\ \A base \in Nat :
                 /\ Inside(q) /\ Within(q, base) => Within(q, base)'
                 /\ rebuilds' = 0 /\ Up(q, base) => Up(q, base)'
           /\ Inside(q) /\ Overlapped(q) => Overlapped(q)'
  <1> USE DEF UnderWay, CountedFor, Within, Up, Overlapped, Feed!PassUnderWay
  <1>1. /\ reads \in Nat /\ since[q] \in Nat /\ overlap[q] \in Nat
        /\ rebuilds \in Nat
    BY DEF TypeOK, Feed!FeedTypeOK
  <1>2. CASE UNCHANGED <<pass, reads, since, eligible, rebuilds>> /\ overlap'[q] = overlap[q]
    BY <1>1, <1>2
  <1>3. ASSUME NEW p \in Presses, PressStep(p)
        PROVE  UNCHANGED <<pass, reads, since, eligible, rebuilds>> /\ overlap'[q] = overlap[q]
    <2>1. p = q => ~Check(p)
      BY DEF Check
    <2>2. overlap' = overlap \/ Check(p)
      BY <1>3 DEF PressStep, ClaimCard, Publish, ConnectFails, FlushDone, FlushFails,
                  Release, CountRead, SetReadCount, history
    <2>3. Check(p) => overlap'[q] = overlap[q]
      BY <2>1 DEF Check, CheckPasses, CheckRefuses, TypeOK
    <2>4. UNCHANGED <<pass, reads, since, eligible, rebuilds>>
      BY <1>3, PressMoves
    <2> QED
      BY <2>2, <2>3, <2>4
  <1>4. \/ BoardCrash \/ ForgeStep \/ UNCHANGED vars
        \/ \E s \in Settlers : SettleStep(s)
        => UNCHANGED <<pass, reads, since, eligible, rebuilds, overlap>>
    BY DEF BoardCrash, SettleStep, SettleRead, SettleDecide, SettleWrite, SettleFails, ForgeStep,
           ForgeRecords, ForgeRefuses, ForgeOpens, ClosedElsewhere, history, vars
  <1>5. CASE PassBegin
    <2>1. /\ pass = "idle" /\ pass' = "begun" /\ UNCHANGED <<reads, since, rebuilds>>
          /\ overlap'[q] = IF Inside(q) THEN overlap[q] + 1 ELSE overlap[q]
      BY <1>5 DEF PassBegin, Feed!PassBegin
    <2> QED
      BY <1>1, <2>1
  <1>6. CASE PassStamp
    <2>1. /\ pass = "written" /\ pass' = "idle" /\ reads' = reads + 1
          /\ UNCHANGED <<eligible, overlap, rebuilds>>
          /\ since'[q] = IF q \in eligible THEN since[q] + 1 ELSE since[q]
      BY <1>6 DEF PassStamp, Feed!PassStamp
    <2> QED
      BY <1>1, <2>1
  <1>7. CASE FeedOther
    <2>1. /\ UNCHANGED <<reads, since, eligible, overlap, rebuilds>>
          /\ Feed!PassUnderWay' => Feed!PassUnderWay
      BY <1>7 DEF FeedOther, history, Feed!PassRead, Feed!PassFail, Feed!PassWrite,
                  Feed!PassAbandon, Feed!FeedStop, Feed!FeedStart, Feed!CopyAges
    <2> QED
      BY <1>1, <2>1
  <1>8. CASE StoreRebuilt
    <2>1. /\ reads' = 0 /\ pass = "down" /\ pass' = pass /\ rebuilds' = rebuilds + 1
          /\ UNCHANGED <<since, eligible, overlap>>
      BY <1>8 DEF StoreRebuilt, Feed!StoreRebuilt, history
    <2> QED
      BY <1>1, <2>1
  <1> QED
    BY <1>2, <1>3, <1>4, <1>5, <1>6, <1>7, <1>8 DEF Next, FeedStep

LEMMA BeginsStep ==
    ASSUME IInv, Begins, [Next]_vars
    PROVE  Begins'
  <1> USE DEF Begins, IInv
  <1>0. TypeOK /\ eligible \subseteq published
    BY DEF PassesCounted, OverlapCounted
  <1>1. ASSUME NEW q \in Presses
        PROVE  /\ q \in published => q \in published'
               /\ q \notin published' => since'[q] = 0
    <2>1. CASE \E p \in Presses : PressStep(p)
      BY <1>0, <2>1, PressMoves
    <2>2. CASE ~(\E p \in Presses : PressStep(p))
      <3>1. published' = published
        BY <1>0, <2>2, OnlyCrashEnds
      <3>2. since' = since \/ PassStamp
        BY <2>2 DEF Next, vars, BoardCrash, SettleStep, SettleRead, SettleDecide, SettleWrite,
                    SettleFails, ForgeStep, ForgeRecords, ForgeRefuses, ForgeOpens, ClosedElsewhere,
                    FeedStep, PassBegin, FeedOther, StoreRebuilt, history
      <3>3. PassStamp => since'[q] = IF q \in eligible THEN since[q] + 1 ELSE since[q]
        BY DEF PassStamp
      <3> QED
        BY <1>0, <3>1, <3>2, <3>3
    <2> QED
      BY <2>1, <2>2
  <1>2. ASSUME NEW q \in Presses
        PROVE  /\ q \in published' => press'[q].phase \notin {"new", "checked", "claimed"}
               /\ press'[q].phase # "done" => outcome'[q] = ""
    <2>1. ASSUME NEW p \in Presses, PressStep(p)
          PROVE  /\ q \in published' => press'[q].phase \notin {"new", "checked", "claimed"}
                 /\ press'[q].phase # "done" => outcome'[q] = ""
      <3>1. CASE q = p
        BY <1>0, <2>1, <3>1, PressMoves DEF PhaseSteps
      <3>2. CASE q # p
        BY <1>0, <2>1, <3>2, PressMoves, OthersStay
      <3> QED
        BY <3>1, <3>2
    <2>2. CASE ~(\E p \in Presses : PressStep(p))
      BY <1>0, <2>2, OnlyCrashEnds DEF Inside, InSubmit
    <2> QED
      BY <2>1, <2>2
  <1>3. ASSUME NEW c \in Cards, Held(c)' PROVE CardOf(store[c].by)' = c
    <2>1. Held(c) => /\ store[c] \in Claim /\ store[c].by \in Presses
                     /\ press'[store[c].by].card = c
      BY <1>0, CardsStay DEF Held, TypeOK, Claim, CardOf
    <2>2. CASE RowKept(c)
      BY <1>3, <2>1, <2>2 DEF RowKept, Held, CardOf
    <2>3. ASSUME NEW p \in Presses, RowTaken(c, p) PROVE CardOf(store[c].by)' = c
      <3>1. CardOf(p) = c /\ store'[c].by = p
        BY <2>3, TakenRow
      <3>2. press'[p].card = press[p].card
        BY <1>0, CardsStay DEF CardOf
      <3> QED
        BY <3>1, <3>2 DEF CardOf
    <2>4. ASSUME NEW p \in Presses, RowRaised(c, p) \/ RowReleased(c, p)
          PROVE CardOf(store[c].by)' = c
      BY <1>3, <2>1, <2>4 DEF RowRaised, RowReleased, HeldBy, Held, CardOf, Claim
    <2>5. ASSUME NEW s \in Settlers, RowMarked(c, s) \/ RowCleared(c, s)
          PROVE CardOf(store[c].by)' = c
      BY <1>3, <2>1, <2>5 DEF RowMarked, RowCleared, Held, CardOf, Claim
    <2> QED
      BY <1>0, <2>2, <2>3, <2>4, <2>5, RowMoves
  <1>4. published' \subseteq Presses
    BY TypeStep DEF TypeOK
  <1> QED
    BY <1>1, <1>2, <1>3, <1>4

(* A row, in the store or in a settlement's hands, is of a press that has  *)
(* begun; a submission that is over does not start again.                  *)
LEMMA RowsHaveBegun ==
    ASSUME IInv
    PROVE  /\ \A c \in Cards : Held(c) =>
                 /\ store[c] \in Claim /\ store[c].by \in Presses /\ store[c].base \in Nat
                 /\ press[store[c].by].phase # "new"
           /\ \A s \in Settlers, c \in Cards : settle[s].seen[c] # NoClaim =>
                 /\ settle[s].seen[c].by \in Presses /\ settle[s].seen[c].base \in Nat
                 /\ press[settle[s].seen[c].by].phase # "new"
           /\ \A s \in Settlers : \A ref \in settle[s].upd :
                 ref[2] \in Presses /\ press[ref[2]].phase # "new"
  <1>1. \A c \in Cards : Held(c) => store[c] \in Claim
    BY DEF IInv, TypeOK, Held
  <1>2. \A s \in Settlers, c \in Cards : settle[s].seen[c] # NoClaim => settle[s].seen[c] \in Claim
    BY DEF IInv, TypeOK, Settling
  <1>3. \A s \in Settlers : \A ref \in settle[s].upd : ref[2] \in Presses
    BY DEF IInv, TypeOK, Settling, RowRef
  <1> QED
    BY <1>1, <1>2, <1>3
       DEF IInv, PassesCounted, CountsCovered, MarksEarned, RowCovered, RefEarned, Claim

LEMMA NoneInsideAgain ==
    ASSUME TypeOK, [Next]_vars, NEW q \in Presses, press[q].phase # "new"
    PROVE  Inside(q)' => Inside(q)
  <1>1. ASSUME NEW p \in Presses, PressStep(p) PROVE Inside(q)' => Inside(q)
    BY <1>1, PressMoves, OthersStay DEF PhaseSteps, Inside, InSubmit
  <1>2. CASE ~(\E p \in Presses : PressStep(p))
    BY <1>2, OnlyCrashEnds DEF Inside, InSubmit
  <1> QED
    BY <1>1, <1>2

(* A coroutine's own count stays, or is taken afresh from the feed's.      *)
LEMMA BaseMoves ==
    ASSUME TypeOK, [Next]_vars, NEW q \in Presses
    PROVE  \/ press'[q].base = press[q].base /\ (press[q].phase = "new" => ~Inside(q)')
           \/ CheckPasses(q) /\ Check(q) /\ press'[q].base = reads
           \/ CountRead(q) /\ press'[q].base = reads
  <1>1. ASSUME NEW p \in Presses, PressStep(p), p = q,
               ~(CheckPasses(q) /\ Check(q)), ~CountRead(q)
        PROVE  press'[q].base = press[q].base /\ (press[q].phase = "new" => ~Inside(q)')
    <2>1. PICK ph \in PressPhases : Goto(q, ph) /\ (press[q].phase = "new" => ph = "done")
      BY <1>1 DEF PressStep, Check, CheckRefuses, ClaimCard, Publish, ConnectFails, FlushDone,
                  FlushFails, Release, SetReadCount, Ends, PressPhases
    <2> QED
      BY <2>1, GoesTo DEF Inside, InSubmit
  <1>2. ASSUME NEW p \in Presses, PressStep(p), p # q PROVE press'[q] = press[q]
    BY <1>2, OthersStay
  <1>3. CASE BoardCrash
    <2>1. press[q] \in Coroutine
      BY DEF TypeOK
    <2>2. press'[q] = IF Inside(q) THEN [press[q] EXCEPT !.phase = "dead"] ELSE press[q]
      BY <1>3 DEF BoardCrash
    <2> QED
      BY <2>1, <2>2 DEF Coroutine, Inside, InSubmit
  <1>4. ~BoardCrash /\ ~(\E p \in Presses : PressStep(p)) => press'[q] = press[q]
    BY OnlyCrashEnds
  <1>5. ASSUME CheckPasses(q) \/ CountRead(q) PROVE press'[q].base = reads
    BY <1>5, TakesCount DEF CheckPasses, CountRead, PressPhases
  <1> QED
    BY <1>1, <1>2, <1>3, <1>4, <1>5 DEF Inside, InSubmit

LEMMA InsideStep ==
    ASSUME CountInv, [Next]_vars, NEW q \in Presses, Inside(q)'
    PROVE  /\ Within(q, press[q].base)' /\ Overlapped(q)'
           /\ rebuilds' = 0 => Up(q, press[q].base)'
  <1> USE DEF UnderWay, CountedFor, Within, Up, Overlapped
  <1>1. /\ TypeOK /\ eligible \subseteq published
        /\ reads \in Nat /\ since[q] \in Nat /\ overlap[q] \in Nat /\ press[q].base \in Nat
    BY DEF CountInv, IInv, PassesCounted, OverlapCounted, TypeOK, Feed!FeedTypeOK, Coroutine
  <1>2. CASE press[q].phase # "new"
    <2>1. Inside(q) /\ Within(q, press[q].base) /\ Overlapped(q)
      BY <1>1, <1>2, NoneInsideAgain DEF CountInv, InsideCounted
    <2>2. Overlapped(q)' /\ (rebuilds' = 0 => rebuilds = 0)
      BY <1>1, <1>2, <2>1, CountMoves
    <2>3. CASE press'[q].base = press[q].base
      <3>1. rebuilds = 0 => Up(q, press[q].base)
        BY <2>1 DEF CountInv, CountKept
      <3>2. ASSUME NEW base \in Nat, base = press[q].base
            PROVE  Within(q, base)' /\ (rebuilds' = 0 => Up(q, base)')
        BY <1>1, <1>2, <2>1, <2>2, <3>1, <3>2, CountMoves
      <3> QED
        BY <1>1, <2>2, <2>3, <3>2
    <2>4. CASE CountRead(q) /\ press'[q].base = reads
      <3>1. UNCHANGED <<pass, reads, since, eligible, overlap>>
        BY <2>4 DEF CountRead, history
      <3> QED
        BY <1>1, <2>1, <2>2, <2>4, <3>1 DEF Feed!PassUnderWay
    <2> QED
      BY <1>1, <1>2, <2>3, <2>4, BaseMoves DEF Check
  <1>3. CASE press[q].phase = "new"
    <2>1. CheckPasses(q) /\ Check(q) /\ press'[q].base = reads
      BY <1>1, <1>3, BaseMoves DEF CountRead
    <2>2. q \notin published /\ q \notin eligible /\ since[q] = 0
      BY <1>1, <1>3 DEF CountInv, Begins
    <2>3. /\ UNCHANGED <<pass, reads, since, eligible>>
          /\ overlap'[q] = IF Feed!PassUnderWay THEN 1 ELSE 0
      BY <2>1 DEF Check, CheckPasses, TypeOK, CountInv, IInv
    <2> QED
      BY <1>1, <2>1, <2>2, <2>3 DEF Feed!PassUnderWay
  <1> QED
    BY <1>2, <1>3

LEMMA RowsStep ==
    ASSUME CountInv, [Next]_vars, NEW c \in Cards, Held(c)'
    PROVE  /\ Inside(store[c].by)' =>
                 store'[c].state = Waiting /\ Within(store[c].by, store[c].base)'
           /\ rebuilds' = 0 => Up(store[c].by, store[c].base)'
  <1>1. TypeOK /\ IInv
    BY DEF CountInv, IInv
  <1>2. Held(c) => /\ store[c] \in Claim /\ store[c].by \in Presses /\ store[c].base \in Nat
                   /\ press[store[c].by].phase # "new"
    BY <1>1, RowsHaveBegun
  <1>3. ASSUME Held(c), store'[c].by = store[c].by, store'[c].base = store[c].base,
               Inside(store[c].by)' => store'[c].state = store[c].state
        PROVE  /\ Inside(store[c].by)' =>
                     store'[c].state = Waiting /\ Within(store[c].by, store[c].base)'
               /\ rebuilds' = 0 => Up(store[c].by, store[c].base)'
    <2>1. PICK q \in Presses, base \in Nat : q = store[c].by /\ base = store[c].base
      BY <1>2, <1>3
    <2>2. press[q].phase # "new" /\ (Inside(q)' => Inside(q))
      BY <1>1, <1>2, <1>3, <2>1, NoneInsideAgain
    <2>3. Inside(q) => store[c].state = Waiting /\ Within(q, base)
      BY <1>3, <2>1 DEF CountInv, RowsWait
    <2>4. rebuilds = 0 => Up(q, base)
      BY <1>3, <2>1 DEF CountInv, CountKept
    <2>5. (Inside(q)' => Within(q, base)') /\ (rebuilds' = 0 => Up(q, base)')
      BY <1>1, <2>2, <2>3, <2>4, CountMoves
    <2>6. Inside(q)' => store'[c].state = Waiting
      BY <1>3, <2>1, <2>2, <2>3
    <2> QED
      BY <1>3, <2>1, <2>5, <2>6
  <1>4. CASE RowKept(c)
    BY <1>3, <1>4 DEF RowKept, Held
  <1>5. ASSUME NEW p \in Presses, RowTaken(c, p)
        PROVE  /\ Inside(store[c].by)' =>
                     store'[c].state = Waiting /\ Within(store[c].by, store[c].base)'
               /\ rebuilds' = 0 => Up(store[c].by, store[c].base)'
    <2>1. /\ store'[c].by = p /\ store'[c].base = press[p].base /\ store'[c].state = Waiting
          /\ press[p].phase = "checked" /\ press'[p].phase = "claimed"
      BY <1>5, TakenRow
    <2>2. press'[p].base = press[p].base
      BY <1>1, <2>1, BaseMoves DEF Check, CountRead
    <2>3. Inside(p)'
      BY <2>1 DEF Inside, InSubmit
    <2> QED
      BY <2>1, <2>2, <2>3, InsideStep
  <1>6. ASSUME NEW p \in Presses, PressStep(p), RowRaised(c, p)
        PROVE  /\ Inside(store[c].by)' =>
                     store'[c].state = Waiting /\ Within(store[c].by, store[c].base)'
               /\ rebuilds' = 0 => Up(store[c].by, store[c].base)'
    <2>1. /\ store[c].by = p /\ store'[c].by = p /\ store'[c].base = press[p].base
          /\ press[p].phase = "counting"
      BY <1>2, <1>6 DEF RowRaised, HeldBy, Claim
    <2>2. press'[p].phase = "done"
      BY <1>1, <1>6, <2>1, PressMoves DEF PhaseSteps
    <2>3. Inside(p) /\ ~Inside(p)' /\ press[p].base \in Nat
      BY <1>1, <2>1, <2>2 DEF Inside, InSubmit, TypeOK, Coroutine
    <2>4. rebuilds = 0 => Up(p, press[p].base)
      BY <2>3 DEF CountInv, CountKept
    <2>5. ASSUME NEW base \in Nat, base = press[p].base PROVE rebuilds' = 0 => Up(p, base)'
      BY <1>1, <1>2, <1>6, <2>1, <2>4, <2>5, CountMoves
    <2> QED
      BY <2>1, <2>3, <2>5
  <1>7. ASSUME NEW s \in Settlers, SettleWrite(s), RowMarked(c, s)
        PROVE  /\ Inside(store[c].by)' =>
                     store'[c].state = Waiting /\ Within(store[c].by, store[c].base)'
               /\ rebuilds' = 0 => Up(store[c].by, store[c].base)'
    <2>1. Held(c) /\ store'[c].by = store[c].by /\ store'[c].base = store[c].base
      BY <1>2, <1>7 DEF RowMarked, Claim
    <2>2. ~Inside(store[c].by)
      <3>1. PICK ref \in settle[s].upd : ref = <<c, store[c].by>>
        BY <1>7 DEF RowMarked
      <3> QED
        BY <3>1 DEF CountInv, RowsWait
    <2>3. ~(press'[store[c].by].phase \in InSubmit)
      BY <1>7, <2>2 DEF SettleWrite, Inside
    <2> QED
      BY <1>3, <2>1, <2>3 DEF Inside
  <1> QED
    BY <1>1, <1>4, <1>5, <1>6, <1>7, RowMoves DEF RowReleased, RowCleared, Held

LEMMA SettlingStep ==
    ASSUME CountInv, [Next]_vars, NotRecordedAfter > OverlapLimit, NEW s \in Settlers
    PROVE  /\ \A c \in Cards :
                 settle'[s].seen[c] # NoClaim /\ Inside(settle[s].seen[c].by)' =>
                    Within(settle[s].seen[c].by, settle[s].seen[c].base)'
           /\ \A ref \in settle'[s].upd : ~Inside(ref[2])'
  <1>1. TypeOK /\ IInv
    BY DEF CountInv, IInv
  <1>2. ASSUME NEW row, row.by \in Presses, row.base \in Nat, press[row.by].phase # "new",
               Inside(row.by) => Within(row.by, row.base)
        PROVE  Inside(row.by)' => Within(row.by, row.base)'
    <2>1. PICK q \in Presses, base \in Nat : q = row.by /\ base = row.base
      BY <1>2
    <2>2. /\ press[q].phase # "new"
          /\ Inside(q) => Within(q, base)
      BY <1>2, <2>1
    <2>3. Inside(q)' => Within(q, base)'
      BY <1>1, <2>2, NoneInsideAgain, CountMoves
    <2> QED
      BY <2>1, <2>3 DEF Inside, Within
  <1>3. ASSUME NEW c \in Cards, settle'[s].seen[c] # NoClaim, Inside(settle[s].seen[c].by)'
        PROVE  Within(settle[s].seen[c].by, settle[s].seen[c].base)'
    <2>1. PICK row : /\ row = settle'[s].seen[c]
                     /\ row.by \in Presses /\ row.base \in Nat /\ press[row.by].phase # "new"
                     /\ Inside(row.by) => Within(row.by, row.base)
      <3>1. CASE settle'[s] = settle[s]
        BY <1>1, <1>3, <3>1, RowsHaveBegun DEF CountInv, RowsWait
      <3>2. CASE settle'[s].seen = store
        BY <1>1, <1>3, <3>2, RowsHaveBegun DEF CountInv, RowsWait, Held
      <3>3. CASE settle'[s].seen = SettleIdle.seen
        BY <1>3, <3>3 DEF SettleIdle
      <3> QED
        BY <1>1, <3>1, <3>2, <3>3, SettleMoves
    <2> QED
      BY <1>2, <1>3, <2>1
  <1>4. ASSUME NEW ref \in settle'[s].upd PROVE ~Inside(ref[2])'
    <2>1. CASE ref \in settle[s].upd
      BY <1>1, <2>1, RowsHaveBegun, NoneInsideAgain DEF CountInv, RowsWait
    <2>2. CASE ref \in ToMark(settle[s].seen) /\ press' = press
      <3>1. PICK c \in Cards : LET row == settle[s].seen[c] IN
                /\ row # NoClaim /\ ref[2] = row.by /\ reads >= row.base + NotRecordedAfter
        BY <2>2 DEF ToMark, Refs
      <3>2. PICK q \in Presses, base \in Nat : /\ q = ref[2] /\ reads >= base + NotRecordedAfter
                                               /\ Inside(q) => Within(q, base)
        BY <1>1, <3>1, RowsHaveBegun DEF CountInv, RowsWait
      <3>3. reads \in Nat /\ overlap[q] \in Nat /\ overlap[q] =< OverlapLimit
        BY <1>1 DEF TypeOK, Feed!FeedTypeOK, IInv, PassesCounted, OverlapCounted
      <3>4. ~Inside(q)
        BY <3>2, <3>3, ConstantsAssumption DEF Within, UnderWay
      <3> QED
        BY <2>2, <3>2, <3>4 DEF Inside
    <2> QED
      BY <1>1, <1>4, <2>1, <2>2, SettleMoves DEF SettleIdle
  <1> QED
    BY <1>3, <1>4

LEMMA CountStep ==
    ASSUME NotRecordedAfter >= OverlapLimit + 2, CountInv, [Next]_vars
    PROVE  CountInv'
  <1>1. IInv' /\ Begins'
    BY StepInv, BeginsStep DEF CountInv
  <1>2. NotRecordedAfter > OverlapLimit
    BY ConstantsAssumption
  <1>3. InsideCounted'
    BY InsideStep DEF InsideCounted
  <1>4. RowsWait'
    BY <1>2, RowsStep, SettlingStep DEF RowsWait
  <1>5. rebuilds' = 0 => CountKept'
    BY InsideStep, RowsStep DEF CountKept
  <1> QED
    BY <1>1, <1>3, <1>4, <1>5 DEF CountInv

LEMMA InitCountInv == Init => CountInv
  <1> SUFFICES ASSUME Init PROVE CountInv
    OBVIOUS
  <1>1. /\ \A p \in Presses : press[p].phase = "new" /\ outcome[p] = "" /\ since[p] = 0
        /\ \A c \in Cards : ~Held(c)
        /\ \A s \in Settlers : settle[s] = SettleIdle
        /\ published = {}
    BY DEF Init, Held
  <1>2. Begins
    BY <1>1 DEF Begins
  <1>3. InsideCounted /\ CountKept
    BY <1>1 DEF InsideCounted, CountKept, Inside, InSubmit
  <1>4. RowsWait
    <2>1. SettleIdle.upd = {} /\ \A c \in Cards : SettleIdle.seen[c] = NoClaim
      BY DEF SettleIdle
    <2> QED
      BY <1>1, <2>1, Zenon DEF RowsWait
  <1> QED
    BY <1>2, <1>3, <1>4, InitInv DEF CountInv

LEMMA CountInvHolds ==
    ASSUME NotRecordedAfter >= OverlapLimit + 2
    PROVE  Spec => []CountInv
  <1>1. CountInv /\ [Next]_vars => CountInv'
    BY CountStep
  <1> QED
    BY <1>1, InitCountInv, PTL DEF Spec

(* While readmodel.db is kept, the count behind a claim never falls behind *)
(* the passes its answer has had, by more than can overlap a submission.   *)
THEOREM CountsNeverFallBehind ==
    ASSUME NotRecordedAfter >= OverlapLimit + 2
    PROVE  Spec => [](rebuilds = 0 => CountKeepsUp)
  <1>1. CountInv => (rebuilds = 0 => CountKeepsUp)
    <2> SUFFICES ASSUME CountInv, rebuilds = 0, NEW c \in Cards, Held(c)
                 PROVE  reads + OverlapLimit >= store[c].base + since[store[c].by]
      BY DEF CountKeepsUp
    <2>1. PICK q \in Presses, base \in Nat : q = store[c].by /\ base = store[c].base
      BY RowsHaveBegun DEF CountInv
    <2>2. Up(q, base)
      BY <2>1 DEF CountInv, CountKept
    <2>3. reads \in Nat /\ since[q] \in Nat /\ overlap[q] \in Nat /\ overlap[q] =< OverlapLimit
      BY DEF CountInv, IInv, TypeOK, Feed!FeedTypeOK, PassesCounted, OverlapCounted
    <2> QED
      BY <2>1, <2>2, <2>3, ConstantsAssumption DEF Up
  <1> QED
    BY <1>1, CountInvHolds, PTL

-----------------------------------------------------------------------------
(* While readmodel.db is kept, a card that was shown is never absent from  *)
(* the copy again, so a settlement that clears a claim has seen it closed; *)
(* a coroutine that claimed keeps its row until it gives it up itself; and *)
(* an answer on its way keeps it until it is recorded or has had its two   *)
(* passes.                                                                 *)
Shown ==
    /\ \A p \in Presses : Inside(p) => copy[CardOf(p)] # "absent"
    /\ \A c \in Cards : Held(c) => copy[c] # "absent"
    /\ \A s \in Settlers, c \in Cards : settle[s].seen[c] # NoClaim => copy[c] # "absent"
    /\ \A s \in Settlers : \A ref \in settle[s].del : copy[ref[1]] = "closed"
Claiming(p) == press[p].phase \in InSubmit \ {"checked"}
Holding ==
    \A p \in Presses : Claiming(p) => HeldBy(CardOf(p), p) \/ copy[CardOf(p)] = "closed"
Kept ==
    \A p \in published :
        outcome[p] # "bus" => HeldBy(CardOf(p), p) \/ record[CardOf(p)] = "closed" \/ Earned(p)

LeaseInv == CountInv /\ CopyBehind /\ (rebuilds = 0 => Shown /\ Holding /\ Kept)

LEMMA ShownStep ==
    ASSUME LeaseInv, [Next]_vars, rebuilds' = 0
    PROVE  rebuilds = 0 /\ CopyMovesOn /\ Shown'
  <1>1. TypeOK /\ IInv /\ CopyBehind
    BY DEF LeaseInv, CountInv, IInv
  <1>2. rebuilds = 0 /\ CopyMovesOn
    BY <1>1, CopyStep DEF TypeOK
  <1>3. Shown
    BY <1>2 DEF LeaseInv
  <1>4. ASSUME NEW c \in Cards, copy[c] # "absent" PROVE copy'[c] # "absent"
    BY <1>2, <1>4 DEF CopyMovesOn, Reached
  <1>5. ASSUME NEW p \in Presses, Inside(p)' PROVE copy'[CardOf(p)'] # "absent"
    <2>1. CardOf(p)' = CardOf(p) /\ CardOf(p) \in Cards
      BY <1>1, CardsStay DEF TypeOK, CardOf, Coroutine
    <2>2. CASE press[p].phase # "new"
      BY <1>1, <1>3, <1>4, <1>5, <2>1, <2>2, NoneInsideAgain DEF Shown
    <2>3. CASE press[p].phase = "new"
      <3>1. CheckPasses(p)
        BY <1>1, <1>5, <2>3, BaseMoves DEF CountRead
      <3> QED
        BY <1>4, <2>1, <3>1 DEF CheckPasses, OpenNow
    <2> QED
      BY <2>2, <2>3
  <1>6. ASSUME NEW c \in Cards, Held(c)' PROVE copy[c] # "absent"
    <2>1. ASSUME NEW p \in Presses, RowTaken(c, p) PROVE copy[c] # "absent"
      BY <1>3, <2>1, TakenRow DEF Shown, Inside, InSubmit
    <2>2. Held(c) => copy[c] # "absent"
      BY <1>3 DEF Shown
    <2> QED
      BY <1>1, <1>6, <2>1, <2>2, RowMoves
         DEF RowKept, RowRaised, RowReleased, RowMarked, RowCleared, Held, HeldBy
  <1>7. ASSUME NEW s \in Settlers, NEW c \in Cards, settle'[s].seen[c] # NoClaim
        PROVE  copy[c] # "absent"
    BY <1>1, <1>3, <1>7, SettleMoves DEF Shown, Held, SettleIdle
  <1>8. ASSUME NEW s \in Settlers, NEW ref \in settle'[s].del PROVE copy'[ref[1]] = "closed"
    <2>1. CASE ref \in settle[s].del
      BY <1>1, <1>2, <1>3, <2>1 DEF Shown, CopyMovesOn, Reached, TypeOK, Settling, RowRef
    <2>2. CASE ref \in ToDelete(settle[s].seen) /\ copy' = copy
      <3>1. PICK c \in Cards : ref[1] = c /\ settle[s].seen[c] # NoClaim /\ ~OpenNow(c)
        BY <2>2 DEF ToDelete, Refs
      <3> QED
        BY <1>1, <1>3, <2>2, <3>1
           DEF Shown, OpenNow, TypeOK, Feed!FeedTypeOK, Records, CardState
    <2> QED
      BY <1>1, <1>8, <2>1, <2>2, SettleMoves DEF SettleIdle
  <1> QED
    BY <1>2, <1>4, <1>5, <1>6, <1>7, <1>8 DEF Shown

(* A claim that is held passes to another press only once it is marked,    *)
(* and is lost only as its own press gives it up or the card is closed.    *)
LEMMA HeldOn ==
    ASSUME LeaseInv, [Next]_vars, rebuilds = 0, NEW p \in Presses, HeldBy(CardOf(p), p)
    PROVE  \/ HeldBy(CardOf(p), p)'
           \/ store[CardOf(p)].state = NotRecorded /\ press'[p] = press[p]
           \/ press[p].phase = "failing" /\ press'[p].phase = "done" /\ outcome'[p] = "bus"
           \/ copy[CardOf(p)] = "closed"
  <1> DEFINE c == CardOf(p)
  <1>1. TypeOK /\ IInv
    BY DEF LeaseInv, CountInv, IInv
  <1>2. c \in Cards /\ CardOf(p)' = c
    BY <1>1, CardsStay DEF TypeOK, CardOf, Coroutine
  <1>3. store[c] \in Claim /\ store[c].by = p /\ Held(c)
    BY <1>1, <1>2, RowsHaveBegun DEF HeldBy
  <1>4. store'[c] # NoClaim /\ store'[c].by = p => HeldBy(CardOf(p), p)'
    BY <1>2 DEF HeldBy, Held
  <1>5. CASE RowKept(c)
    BY <1>3, <1>4, <1>5 DEF RowKept, Held
  <1>6. ASSUME NEW q \in Presses, PressStep(q), RowTaken(c, q)
        PROVE  store[c].state = NotRecorded /\ press'[p] = press[p]
    <2>1. store[c].state = NotRecorded
      BY <1>2, <1>3, <1>6, TakenRow DEF Claim
    <2>2. press[q].phase = "checked"
      BY <1>2, <1>6, TakenRow
    <2>3. ~Inside(p)
      BY <1>2, <1>3, <2>1 DEF LeaseInv, CountInv, RowsWait, Waiting, NotRecorded
    <2>4. q # p
      BY <2>2, <2>3 DEF Inside, InSubmit
    <2> QED
      BY <1>1, <1>6, <2>1, <2>4, OthersStay
  <1>7. ASSUME NEW q \in Presses, PressStep(q), RowRaised(c, q) PROVE HeldBy(CardOf(p), p)'
    <2>1. store'[c] \in Claim /\ store'[c].by = p
      BY <1>1, <1>3, <1>7 DEF RowRaised, Claim, TypeOK, Coroutine
    <2> QED
      BY <1>4, <2>1, ClaimTypes
  <1>8. ASSUME NEW q \in Presses, PressStep(q), RowReleased(c, q)
        PROVE  press[p].phase = "failing" /\ press'[p].phase = "done" /\ outcome'[p] = "bus"
    <2>1. q = p /\ press[p].phase = "failing"
      BY <1>3, <1>8 DEF RowReleased, HeldBy
    <2> QED
      BY <1>1, <1>8, <2>1, PressMoves DEF PhaseSteps
  <1>9. ASSUME NEW s \in Settlers, RowMarked(c, s) PROVE HeldBy(CardOf(p), p)'
    <2>1. store'[c] \in Claim /\ store'[c].by = p
      BY <1>3, <1>9 DEF RowMarked, Claim
    <2> QED
      BY <1>4, <2>1, ClaimTypes
  <1>10. ASSUME NEW s \in Settlers, RowCleared(c, s) PROVE copy[c] = "closed"
    <2>1. PICK ref \in settle[s].del : ref = <<c, store[c].by>>
      BY <1>10 DEF RowCleared
    <2> QED
      BY <2>1 DEF LeaseInv, Shown
  <1> QED
    BY <1>1, <1>2, <1>5, <1>6, <1>7, <1>8, <1>9, <1>10, RowMoves

(* The step that claims a card leaves it held.                             *)
LEMMA ClaimHolds ==
    ASSUME TypeOK, [Next]_vars, NEW p \in Presses,
           press[p].phase = "checked", Claiming(p)'
    PROVE  HeldBy(CardOf(p), p)'
  <1>1. ASSUME NEW q \in Presses, PressStep(q) PROVE q = p
    <2>1. q # p => press'[p] = press[p]
      BY <1>1, OthersStay
    <2> QED
      BY <2>1 DEF Claiming
  <1>2. CASE \E q \in Presses : PressStep(q)
    <2>1. PressStep(p)
      BY <1>1, <1>2
    <2>2. ClaimCard(p) /\ press'[p].phase # "done"
      BY <2>1 DEF PressStep, Check, Publish, ConnectFails, FlushDone, FlushFails, Release,
                  CountRead, SetReadCount, Claiming, InSubmit
    <2>3. store' = [store EXCEPT ![CardOf(p)] = [by |-> p, base |-> press[p].base, state |-> Waiting]]
      BY <2>2, GoesTo DEF ClaimCard, Ends, PressPhases
    <2>4. CardOf(p) \in Cards /\ CardOf(p)' = CardOf(p) /\ press[p].base \in Nat
      BY CardsStay DEF TypeOK, CardOf, Coroutine
    <2>5. PICK row : row = [by |-> p, base |-> press[p].base, state |-> Waiting]
      OBVIOUS
    <2>6. row.by = p /\ row # NoClaim
      BY <2>4, <2>5, ClaimTypes
    <2>7. store'[CardOf(p)] = row
      BY <2>3, <2>4, <2>5 DEF TypeOK
    <2> QED
      BY <2>4, <2>6, <2>7 DEF HeldBy, Held
  <1>3. CASE ~(\E q \in Presses : PressStep(q))
    BY <1>3, OnlyCrashEnds DEF Claiming, InSubmit
  <1> QED
    BY <1>2, <1>3

LEMMA HoldingStep ==
    ASSUME LeaseInv, [Next]_vars, rebuilds' = 0
    PROVE  Holding'
  <1> SUFFICES ASSUME NEW p \in Presses, Claiming(p)'
               PROVE  (HeldBy(CardOf(p), p) \/ copy[CardOf(p)] = "closed")'
    BY DEF Holding
  <1>1. TypeOK /\ rebuilds = 0 /\ CopyMovesOn
    BY ShownStep DEF LeaseInv, CountInv, IInv
  <1>2. CardOf(p) \in Cards /\ CardOf(p)' = CardOf(p)
    BY <1>1, CardsStay DEF TypeOK, CardOf, Coroutine
  <1>3. copy[CardOf(p)] = "closed" => copy'[CardOf(p)'] = "closed"
    BY <1>1, <1>2 DEF CopyMovesOn, Reached
  <1>4. CASE Claiming(p)
    <2>1. HeldBy(CardOf(p), p) \/ copy[CardOf(p)] = "closed"
      BY <1>1, <1>4 DEF LeaseInv, Holding
    <2>2. HeldBy(CardOf(p), p) => store[CardOf(p)].state = Waiting
      BY <1>2, <1>4 DEF LeaseInv, CountInv, RowsWait, HeldBy, Claiming, Inside
    <2>3. press'[p].phase # "done"
      BY DEF Claiming, InSubmit
    <2> QED
      BY <1>1, <1>3, <2>1, <2>2, <2>3, HeldOn DEF Waiting, NotRecorded
  <1>5. CASE ~Claiming(p)
    <2>1. press[p].phase = "checked"
      <3>1. ASSUME NEW q \in Presses, PressStep(q) PROVE press[p].phase = "checked"
        BY <1>1, <1>5, <3>1, OthersStay, PressMoves DEF PhaseSteps, Claiming, InSubmit
      <3>2. CASE ~(\E q \in Presses : PressStep(q))
        BY <1>1, <1>5, <3>2, OnlyCrashEnds DEF Claiming, InSubmit
      <3> QED
        BY <3>1, <3>2
    <2> QED
      BY <1>1, <2>1, ClaimHolds
  <1> QED
    BY <1>4, <1>5

LEMMA SinceGrows ==
    ASSUME TypeOK, [Next]_vars, NEW q \in Presses, Earned(q)
    PROVE  Earned(q)'
  <1>1. since' = since \/ PassStamp
    BY PressMoves DEF Next, vars, BoardCrash, SettleStep, SettleRead, SettleDecide, SettleWrite,
                SettleFails, ForgeStep, ForgeRecords, ForgeRefuses, ForgeOpens, ClosedElsewhere,
                FeedStep, PassBegin, FeedOther, StoreRebuilt, history
  <1>2. PassStamp => since'[q] = IF q \in eligible THEN since[q] + 1 ELSE since[q]
    BY DEF PassStamp
  <1> QED
    BY <1>1, <1>2 DEF Earned, TypeOK

LEMMA KeptStep ==
    ASSUME LeaseInv, [Next]_vars, rebuilds' = 0, CopyBehind', Holding'
    PROVE  Kept'
  <1> SUFFICES ASSUME NEW p \in published', outcome'[p] # "bus"
               PROVE  (HeldBy(CardOf(p), p) \/ record[CardOf(p)] = "closed" \/ Earned(p))'
    BY DEF Kept
  <1>1. TypeOK /\ TypeOK' /\ IInv /\ rebuilds = 0
    BY ShownStep, TypeStep DEF LeaseInv, CountInv, IInv
  <1>2. p \in Presses
    BY <1>1 DEF TypeOK
  <1>3. CardOf(p) \in Cards /\ CardOf(p)' = CardOf(p)
    BY <1>1, <1>2, CardsStay DEF TypeOK, CardOf, Coroutine
  <1>4. CASE Claiming(p)'
    BY <1>2, <1>3, <1>4 DEF Holding, CopyBehind, Reached
  <1>5. CASE ~Claiming(p)'
    <2>1. p \in published
      BY <1>1, <1>2, <1>5, PressMoves, OnlyCrashEnds DEF Claiming, InSubmit
    <2>2. outcome[p] # "bus"
      <3>1. press[p].phase = "done" => outcome'[p] = outcome[p]
        BY <1>1, <1>2, PressMoves, OthersStay, OnlyCrashEnds DEF PhaseSteps
      <3> QED
        BY <1>2, <3>1 DEF LeaseInv, CountInv, Begins
    <2>3. HeldBy(CardOf(p), p) \/ record[CardOf(p)] = "closed" \/ Earned(p)
      BY <1>1, <2>1, <2>2 DEF LeaseInv, Kept
    <2>4. record[CardOf(p)] = "closed" => record'[CardOf(p)'] = "closed"
      BY <1>1, <1>3, RecordStep DEF RecordMovesOn, Reached
    <2>5. Earned(p) => Earned(p)'
      BY <1>1, <1>2, SinceGrows
    <2>6. copy[CardOf(p)] = "closed" => record[CardOf(p)] = "closed"
      BY <1>3 DEF LeaseInv, CopyBehind, Reached
    <2>7. HeldBy(CardOf(p), p) /\ store[CardOf(p)].state = NotRecorded => Earned(p)
      BY <1>3, <2>1 DEF LeaseInv, CountInv, IInv, PassesCounted, MarksEarned, RefEarned, Begun, HeldBy
    <2> QED
      BY <1>1, <1>2, <2>3, <2>4, <2>5, <2>6, <2>7, HeldOn
  <1> QED
    BY <1>4, <1>5

LEMMA LeaseStep ==
    ASSUME NotRecordedAfter >= OverlapLimit + 2, LeaseInv, [Next]_vars
    PROVE  LeaseInv'
  <1>1. CountInv' /\ CopyBehind'
    BY CountStep, CopyStep DEF LeaseInv, CountInv, IInv
  <1>2. rebuilds' = 0 => Shown' /\ Holding' /\ Kept'
    BY <1>1, ShownStep, HoldingStep, KeptStep
  <1> QED
    BY <1>1, <1>2 DEF LeaseInv

LEMMA InitLeaseInv == Init => LeaseInv
  <1> SUFFICES ASSUME Init PROVE LeaseInv
    OBVIOUS
  <1>1. /\ \A p \in Presses : press[p].phase = "new"
        /\ \A c \in Cards : ~Held(c)
        /\ \A s \in Settlers : settle[s] = SettleIdle
        /\ published = {}
    BY DEF Init, Held
  <1>2. CopyBehind
    BY DEF Init, Feed!FeedInit, CopyBehind, Reached, EmptyCopy
  <1>3. Shown
    <2>1. SettleIdle.del = {} /\ \A c \in Cards : SettleIdle.seen[c] = NoClaim
      BY DEF SettleIdle
    <2>2. \A p \in Presses : ~Inside(p)
      BY <1>1 DEF Inside, InSubmit
    <2> QED
      BY <1>1, <2>1, <2>2, Zenon DEF Shown
  <1>4. Holding /\ Kept
    BY <1>1 DEF Holding, Kept, Claiming, InSubmit
  <1> QED
    BY <1>2, <1>3, <1>4, InitCountInv DEF LeaseInv

LEMMA LeaseInvHolds ==
    ASSUME NotRecordedAfter >= OverlapLimit + 2
    PROVE  Spec => []LeaseInv
  <1>1. LeaseInv /\ [Next]_vars => LeaseInv'
    BY LeaseStep
  <1> QED
    BY <1>1, InitLeaseInv, PTL DEF Spec

(* While readmodel.db is kept, a sent answer keeps its claim until Forge's *)
(* record has closed the card or the two passes have gone by: no release,  *)
(* settlement, crash or other press takes it away.                         *)
THEOREM SentAnswerStaysHeld ==
    ASSUME NotRecordedAfter >= OverlapLimit + 2
    PROVE  Spec => [](rebuilds = 0 => SentAnswerIsHeld)
  <1>1. LeaseInv => (rebuilds = 0 => SentAnswerIsHeld)
    BY DEF LeaseInv, Kept, SentAnswerIsHeld, SentWell
  <1> QED
    BY <1>1, LeaseInvHolds, PTL

(* While readmodel.db is kept, two presses are only ever both sending for  *)
(* one card once the board's own copy shows that card closed.              *)
THEOREM OneSenderAtATime ==
    ASSUME NotRecordedAfter >= OverlapLimit + 2
    PROVE  Spec => [](rebuilds = 0 => OneSenderPerOpenCard)
  <1>1. LeaseInv => (rebuilds = 0 => OneSenderPerOpenCard)
    <2> SUFFICES ASSUME LeaseInv, rebuilds = 0, NEW p \in Presses, NEW q \in Presses,
                        p # q, CardOf(p) = CardOf(q),
                        {press[p].phase, press[q].phase} \subseteq {"claimed", "published"}
                 PROVE  ~OpenNow(CardOf(p))
      BY DEF OneSenderPerOpenCard
    <2>1. Claiming(p) /\ Claiming(q)
      BY DEF Claiming, InSubmit
    <2> QED
      BY <2>1 DEF LeaseInv, Holding, HeldBy, OpenNow
  <1> QED
    BY <1>1, LeaseInvHolds, PTL

-----------------------------------------------------------------------------
(* The instances in which nobody deletes readmodel.db.                     *)
LEMMA NeverRebuilt ==
    ASSUME MaxRebuilds = 0
    PROVE  Spec => [](rebuilds = 0)
  <1>1. rebuilds = 0 /\ [Next]_vars => (rebuilds = 0)'
    <2>1. rebuilds = 0 => ~StoreRebuilt
      BY DEF StoreRebuilt
    <2> QED
      BY <2>1 DEF Next, vars, PressStep, Check, ClaimCard, Publish, ConnectFails, FlushDone,
                  FlushFails, Release, CountRead, SetReadCount, BoardCrash, SettleStep, SettleRead,
                  SettleDecide, SettleWrite, SettleFails, ForgeStep, ForgeRecords, ForgeRefuses,
                  ForgeOpens, ClosedElsewhere, FeedStep, PassBegin, PassStamp, FeedOther
  <1>2. Init => rebuilds = 0
    BY DEF Init
  <1> QED
    BY <1>1, <1>2, PTL DEF Spec

(* What a settlement is about to clear, Forge's record has closed.         *)
LEMMA ClearsClosed ==
    ASSUME LeaseInv, rebuilds = 0, NEW s \in Settlers, NEW c \in Cards,
           Held(c), <<c, store[c].by>> \in settle[s].del
    PROVE  record[c] = "closed"
  <1>1. PICK ref \in settle[s].del : ref = <<c, store[c].by>>
    OBVIOUS
  <1>2. copy[c] = "closed"
    BY <1>1 DEF LeaseInv, Shown
  <1> QED
    BY <1>2 DEF LeaseInv, CopyBehind, Reached

(* A stopped or lagging feed never clears a claim: a settlement removes    *)
(* one only when Forge's own record has closed the card.                   *)
THEOREM OnlyTheRecordClears ==
    ASSUME NotRecordedAfter >= OverlapLimit + 2, MaxRebuilds = 0
    PROVE  Spec => ClearedOnlyByTheRecord
  <1>1. LeaseInv /\ rebuilds = 0 /\ [Next]_vars =>
            [\A s \in Settlers, c \in Cards :
                 (SettleWrite(s) /\ Held(c) /\ store'[c] = NoClaim) => record[c] = "closed"]_vars
    <2> SUFFICES ASSUME LeaseInv, rebuilds = 0, NEW s \in Settlers, NEW c \in Cards,
                        SettleWrite(s), Held(c), store'[c] = NoClaim
                 PROVE  record[c] = "closed"
      OBVIOUS
    <2>1. store'[c] = Settled(c, s) /\ store[c] \in Claim
      BY DEF SettleWrite, LeaseInv, CountInv, IInv, TypeOK, Held
    <2>2. [store[c] EXCEPT !.state = NotRecorded] \in Claim
      BY <2>1 DEF Claim
    <2>3. <<c, store[c].by>> \in settle[s].del
      BY <2>1, <2>2, ClaimTypes DEF Settled
    <2> QED
      BY <2>3, ClearsClosed
  <1> QED
    BY <1>1, LeaseInvHolds, NeverRebuilt, PTL DEF Spec, ClearedOnlyByTheRecord

-----------------------------------------------------------------------------
(* The refinement of OneAnswer: what its variables are here.               *)
Holder == [c \in Cards |-> IF Held(c) THEN store[c].by ELSE NoClaim]
Lapsed == {c \in Cards : Held(c) /\ store[c].state = NotRecorded}
Closed == {c \in Cards : record[c] = "closed"}
Failed == {p \in Presses : press[p].phase = "failing"}

LEMMA LeaseInit == Init => Lease!Init
  <1> SUFFICES ASSUME Init PROVE Lease!Init
    OBVIOUS
  <1>1. \A c \in Cards : ~Held(c) /\ record[c] # "closed"
    BY DEF Init, Held
  <1>2. \A p \in Presses : press[p].phase # "failing"
    BY DEF Init
  <1> QED
    BY <1>1, <1>2 DEF Init, Lease!Init

(* A row of answer_claims that stays, or only has its count raised, is the *)
(* same lease.                                                             *)
SameLease(c) == Holder'[c] = Holder[c] /\ (c \in Lapsed' <=> c \in Lapsed)

LEMMA StoreSame ==
    ASSUME \A c \in Cards : SameLease(c)
    PROVE  Holder' = Holder /\ Lapsed' = Lapsed
  BY DEF SameLease, Holder, Lapsed

LEMMA KeptRow ==
    ASSUME NEW c \in Cards, RowKept(c)
    PROVE  SameLease(c)
  BY DEF SameLease, RowKept, Holder, Lapsed, Held

LEMMA RaisedRow ==
    ASSUME IInv, NEW c \in Cards, NEW p \in Presses, RowRaised(c, p)
    PROVE  SameLease(c)
  <1>1. store[c] \in Claim /\ Held(c)
    BY RowsHaveBegun DEF RowRaised, HeldBy
  <1>2. press[p].base \in Nat
    BY DEF IInv, TypeOK, Coroutine
  <1>3. store'[c] \in Claim /\ store'[c].by = store[c].by /\ store'[c].state = store[c].state
    BY <1>1, <1>2 DEF RowRaised, Claim
  <1>4. Held(c)'
    BY <1>3, ClaimTypes DEF Held
  <1> QED
    BY <1>1, <1>3, <1>4 DEF SameLease, Holder, Lapsed

(* The presses that are being told of a failure, after a step of one.      *)
LEMMA FailedMoves ==
    ASSUME TypeOK, NEW p \in Presses, PressStep(p)
    PROVE  Failed' = IF press'[p].phase = "failing" THEN Failed \cup {p} ELSE Failed \ {p}
  BY OthersStay DEF Failed

LEMMA PressLease ==
    ASSUME LeaseInv, [Next]_vars, NEW p \in Presses, PressStep(p)
    PROVE  [Lease!Next]_(Lease!vars)
  <1> USE DEF Holder, Lapsed, Closed, Failed
  <1>1. TypeOK /\ IInv /\ CountInv
    BY DEF LeaseInv, CountInv, IInv
  <1>2. Closed' = Closed
    BY <1>1, PressMoves
  <1>3. /\ published' = IF press'[p].phase = "published" THEN published \cup {p} ELSE published
        /\ Failed' = IF press'[p].phase = "failing" THEN Failed \cup {p} ELSE Failed \ {p}
        /\ p \in Failed <=> press[p].phase = "failing"
        /\ <<press[p].phase, press'[p].phase>> \in PhaseSteps
    BY <1>1, PressMoves, FailedMoves
  <1>4. since' = since
    BY <1>1, PressMoves
  <1>5. CASE store' = store
    <2>1. Holder' = Holder /\ Lapsed' = Lapsed
      BY <1>5 DEF Held
    <2>2. CASE press'[p].phase = "published"
      <3>1. Lease!Send(p)
        BY <1>2, <1>3, <1>4, <2>1, <2>2 DEF Lease!Send, PhaseSteps
      <3> QED
        BY <3>1 DEF Lease!Next
    <2>3. CASE press'[p].phase = "failing"
      <3>1. Lease!Fail(p)
        BY <1>2, <1>3, <1>4, <2>1, <2>3 DEF Lease!Fail
      <3> QED
        BY <3>1 DEF Lease!Next
    <2>4. CASE press[p].phase = "failing"
      <3>1. Lease!Told
        <4>1. {p} \in SUBSET Failed /\ Failed' = Failed \ {p} /\ published' = published
          BY <1>3, <2>4 DEF PhaseSteps
        <4> QED
          BY <1>2, <1>4, <2>1, <4>1 DEF Lease!Told
      <3> QED
        BY <3>1 DEF Lease!Next
    <2>5. CASE press'[p].phase \notin {"published", "failing"} /\ press[p].phase # "failing"
      BY <1>2, <1>3, <1>4, <2>1, <2>5 DEF Lease!vars
    <2> QED
      BY <2>2, <2>3, <2>4, <2>5
  <1>6. ASSUME ClaimCard(p), store' # store PROVE [Lease!Next]_(Lease!vars)
    <2> DEFINE c == CardOf(p)
    <2>1. c \in Cards /\ press[p].base \in Nat
      BY <1>1 DEF TypeOK, CardOf, Coroutine
    <2>2. PICK row : row = [by |-> p, base |-> press[p].base, state |-> Waiting]
      OBVIOUS
    <2>3. row.by = p /\ row.state = Waiting /\ row # NoClaim
      BY <2>1, <2>2, ClaimTypes
    <2>4. /\ press[p].phase = "checked" /\ press'[p].phase = "claimed"
          /\ ~(Held(c) /\ store[c].state = Waiting)
          /\ store' = [store EXCEPT ![c] = row]
      BY <1>1, <1>6, <2>2, GoesTo DEF ClaimCard, PressPhases
    <2>5. store'[c] = row /\ \A d \in Cards : d # c => store'[d] = store[d]
      BY <1>1, <2>1, <2>4 DEF TypeOK
    <2>6. p \notin published /\ p \notin Failed /\ UNCHANGED <<published, Failed>>
      BY <1>1, <1>3, <2>4 DEF CountInv, Begins
    <2>7. Held(c) => store[c].state = NotRecorded
      BY <1>1, <2>1, <2>4 DEF TypeOK, Claim, Held
    <2>8. Holder' = [Holder EXCEPT ![c] = p]
      BY <2>1, <2>3, <2>5 DEF Held
    <2>9. Lapsed' = Lapsed \ {c}
      BY <2>1, <2>3, <2>5 DEF Held, Waiting, NotRecorded
    <2>10. Holder[c] = NoClaim \/ c \in Lapsed
      BY <2>1, <2>7
    <2>11. Lease!Take(c, p)
      BY <1>2, <1>4, <2>6, <2>8, <2>9, <2>10 DEF Lease!Take, Lease!Free
    <2> QED
      BY <2>1, <2>11 DEF Lease!Next
  <1>7. ASSUME Release(p), store' # store PROVE [Lease!Next]_(Lease!vars)
    <2>1. PICK c \in Cards : c = CardOf(p)
      BY <1>1 DEF TypeOK, CardOf, Coroutine
    <2>2. HeldBy(c, p) /\ store' = [store EXCEPT ![c] = NoClaim] /\ press[p].phase = "failing"
      BY <1>7, <2>1 DEF Release
    <2>3. store'[c] = NoClaim /\ \A d \in Cards : d # c => store'[d] = store[d]
      BY <1>1, <2>1, <2>2 DEF TypeOK
    <2>4. Holder[c] = p /\ p \in Failed /\ Failed' = Failed \ {p} /\ published' = published
      BY <1>3, <2>1, <2>2 DEF HeldBy, PhaseSteps
    <2>5. Holder' = [Holder EXCEPT ![c] = NoClaim]
      BY <2>1, <2>3 DEF Held
    <2>6. Lapsed' = Lapsed \ {c}
      BY <2>1, <2>3 DEF Held
    <2>7. Lease!GiveUp(c)
      BY <1>2, <1>4, <2>4, <2>5, <2>6 DEF Lease!GiveUp
    <2> QED
      BY <2>1, <2>7 DEF Lease!Next
  <1>8. ASSUME SetReadCount(p), store' # store PROVE [Lease!Next]_(Lease!vars)
    <2>1. press[p].phase = "counting" /\ press'[p].phase = "done"
      BY <1>3, <1>8 DEF SetReadCount, PhaseSteps
    <2>2. \A c \in Cards : SameLease(c)
      <3> SUFFICES ASSUME NEW c \in Cards PROVE SameLease(c)
        OBVIOUS
      <3>1. CASE c = CardOf(p) /\ HeldBy(c, p)
        <4>1. store'[c] = [store[c] EXCEPT !.base = press[p].base] \/ store'[c] = store[c]
          BY <1>1, <1>8, <3>1 DEF SetReadCount, TypeOK
        <4> QED
          BY <1>1, <2>1, <3>1, <4>1, KeptRow, RaisedRow DEF RowKept, RowRaised
      <3>2. CASE ~(c = CardOf(p) /\ HeldBy(c, p))
        BY <1>1, <1>8, <3>2, KeptRow DEF SetReadCount, TypeOK, RowKept
      <3> QED
        BY <3>1, <3>2
    <2>3. Holder' = Holder /\ Lapsed' = Lapsed
      BY <2>2, StoreSame
    <2> QED
      BY <1>2, <1>3, <1>4, <2>1, <2>3 DEF Lease!vars
  <1> QED
    BY <1>5, <1>6, <1>7, <1>8
       DEF PressStep, Check, Publish, ConnectFails, FlushDone, FlushFails, CountRead

(* A settlement that writes is one Settle of the lease: what it deletes is *)
(* closed, and what it marks was never sent or has had its readings.       *)
LEMMA SettleLease ==
    ASSUME LeaseInv, [Next]_vars, rebuilds = 0, NEW s \in Settlers, SettleWrite(s)
    PROVE  Lease!Settle
  <1> USE DEF Holder, Lapsed, Closed, Failed
  <1> DEFINE done == {c \in Cards : Held(c) /\ <<c, store[c].by>> \in settle[s].del}
             late == {c \in Cards \ done : Held(c) /\ <<c, store[c].by>> \in settle[s].upd}
  <1>1. TypeOK /\ IInv
    BY DEF LeaseInv, CountInv, IInv
  <1>2. /\ UNCHANGED <<record, press, published, since>>
        /\ \A c \in Cards : store'[c] = Settled(c, s)
    BY DEF SettleWrite, history
  <1>3. done \in SUBSET Closed
    BY ClearsClosed
  <1>4. ASSUME NEW c \in late
        PROVE  Holder[c] # NoClaim /\ (Holder[c] \in published => since[Holder[c]] >= 2)
    <2>1. PICK q \in Presses : q = store[c].by /\ Held(c)
      BY <1>1, RowsHaveBegun
    <2>2. PICK ref \in settle[s].upd : ref = <<c, q>>
      BY <2>1
    <2>3. RefEarned(q)
      BY <1>1, <2>2 DEF IInv, PassesCounted, MarksEarned
    <2> QED
      BY <2>1, <2>3, ConstantsAssumption DEF RefEarned, Begun, Earned
  <1>5. ASSUME NEW c \in Cards
        PROVE  /\ Holder'[c] = IF c \in done THEN NoClaim ELSE Holder[c]
               /\ c \in Lapsed' <=> c \in (Lapsed \cup late) \ done
    <2>1. CASE c \in done
      BY <1>2, <2>1 DEF Settled, Held
    <2>2. CASE c \in late
      <3>1. store[c] \in Claim /\ Held(c) /\ store'[c] = [store[c] EXCEPT !.state = NotRecorded]
        BY <1>1, <1>2, <2>2, RowsHaveBegun DEF Settled
      <3>2. store'[c] \in Claim /\ store'[c].by = store[c].by /\ store'[c].state = NotRecorded
        BY <3>1 DEF Claim
      <3>3. Held(c)'
        BY <3>2, ClaimTypes DEF Held
      <3> QED
        BY <2>2, <3>1, <3>2, <3>3
    <2>3. CASE c \notin done /\ c \notin late
      <3>1. store'[c] = store[c]
        BY <1>2, <2>3 DEF Settled
      <3> QED
        BY <2>3, <3>1 DEF Held
    <2> QED
      BY <2>1, <2>2, <2>3
  <1>6. Holder' = [c \in Cards |-> IF c \in done THEN NoClaim ELSE Holder[c]]
    BY <1>5
  <1>7. Lapsed' = (Lapsed \cup late) \ done
    BY <1>5
  <1>8. late \in SUBSET {t \in Cards \ done : /\ Holder[t] # NoClaim
                                              /\ Holder[t] \in published => since[Holder[t]] >= 2}
    BY <1>4
  <1>9. Closed' = Closed /\ Failed' = Failed
    BY <1>2
  <1> HIDE DEF done, late
  <1> QED
    BY <1>2, <1>3, <1>6, <1>7, <1>8, <1>9 DEF Lease!Settle

LEMMA OtherLease ==
    ASSUME LeaseInv, [Next]_vars, rebuilds = 0, ~(\E p \in Presses : PressStep(p))
    PROVE  [Lease!Next]_(Lease!vars)
  <1> USE DEF Holder, Lapsed, Closed, Failed
  <1>1. TypeOK /\ IInv
    BY DEF LeaseInv, CountInv, IInv
  <1>2. CASE UNCHANGED <<store, record, published, press, since>>
    BY <1>2 DEF Lease!vars, Held
  <1>3. ASSUME NEW s \in Settlers, SettleStep(s) PROVE [Lease!Next]_(Lease!vars)
    BY <1>2, <1>3, SettleLease
       DEF SettleStep, SettleRead, SettleDecide, SettleFails, Lease!Next, history
  <1>4. CASE BoardCrash
    <2>1. UNCHANGED <<store, record, published, since>>
      BY <1>4 DEF BoardCrash, history
    <2>2. Failed' = {}
      <3>1. ASSUME NEW p \in Presses PROVE press'[p].phase # "failing"
        BY <1>1, <1>4, OnlyCrashEnds DEF BoardCrash, Inside, InSubmit, TypeOK, Coroutine
      <3> QED
        BY <3>1
    <2>3. Holder' = Holder /\ Lapsed' = Lapsed /\ Closed' = Closed
      BY <2>1 DEF Held
    <2>4. Failed' = Failed \ Failed /\ Failed \in SUBSET Failed
      BY <2>2
    <2>5. Lease!Told
      BY <2>1, <2>3, <2>4 DEF Lease!Told
    <2> QED
      BY <2>5 DEF Lease!Next
  <1>5. ASSUME NEW c \in Cards, ForgeCloses(c), UNCHANGED <<store, published, press, since>>
        PROVE  [Lease!Next]_(Lease!vars)
    <2>1. Closed' = Closed \cup {c}
      BY <1>1, <1>5 DEF ForgeCloses, TypeOK, Feed!FeedTypeOK, Records
    <2>2. Holder' = Holder /\ Lapsed' = Lapsed /\ Failed' = Failed
      BY <1>5 DEF Held
    <2>3. Lease!Close(c)
      BY <1>5, <2>1, <2>2 DEF Lease!Close
    <2> QED
      BY <2>3 DEF Lease!Next
  <1>6. CASE ForgeStep
    <2>1. ASSUME NEW c \in Cards, ForgeOpens(c) PROVE Closed' = Closed
      BY <1>1, <2>1 DEF ForgeOpens, TypeOK, Feed!FeedTypeOK, Records
    <2>2. ASSUME NEW c \in Cards, ForgeOpens(c) PROVE [Lease!Next]_(Lease!vars)
      <3>1. UNCHANGED <<store, published, press, since>>
        BY <2>2 DEF ForgeOpens, boardVars, history
      <3> QED
        BY <2>1, <2>2, <3>1 DEF Lease!vars, Held
    <2>3. ASSUME NEW c \in Cards, ClosedElsewhere(c) PROVE [Lease!Next]_(Lease!vars)
      BY <1>5, <2>3 DEF ClosedElsewhere, boardVars, history
    <2>4. ASSUME NEW p \in Presses, ForgeRecords(p) PROVE [Lease!Next]_(Lease!vars)
      BY <1>1, <1>5, <2>4 DEF ForgeRecords, history, TypeOK, CardOf, Coroutine
    <2>5. ASSUME NEW p \in Presses, ForgeRefuses(p) PROVE [Lease!Next]_(Lease!vars)
      BY <1>2, <2>5 DEF ForgeRefuses, history
    <2> QED
      BY <1>6, <2>2, <2>3, <2>4, <2>5 DEF ForgeStep
  <1>7. CASE PassStamp
    <2>1. UNCHANGED <<store, record, published, press>>
      BY <1>7 DEF PassStamp, boardVars
    <2>2. /\ eligible \in SUBSET published
          /\ since' = [p \in Presses |-> IF p \in eligible THEN since[p] + 1 ELSE since[p]]
      BY <1>1, <1>7 DEF PassStamp, IInv, PassesCounted, OverlapCounted
    <2>3. UNCHANGED <<Holder, Lapsed, Closed, Failed>>
      BY <2>1 DEF Held
    <2>4. Lease!Read
      BY <2>1, <2>2, <2>3 DEF Lease!Read
    <2> QED
      BY <2>4 DEF Lease!Next
  <1>8. CASE PassBegin \/ FeedOther \/ StoreRebuilt
    BY <1>2, <1>8 DEF PassBegin, FeedOther, StoreRebuilt, boardVars, history
  <1> QED
    BY <1>2, <1>3, <1>4, <1>6, <1>7, <1>8 DEF Next, FeedStep, vars

(* With the steps of submit, of a settlement and of the feed interleaved,  *)
(* the claim store is the lease OneAnswer describes: every step is one of  *)
(* the lease's, or none, while readmodel.db is kept.                       *)
THEOREM ClaimsAreALease ==
    ASSUME NotRecordedAfter >= OverlapLimit + 2, MaxRebuilds = 0
    PROVE  Spec => ImplementsLease
  <1>1. LeaseInv /\ rebuilds = 0 /\ [Next]_vars => [Lease!Next]_(Lease!vars)
    BY PressLease, OtherLease
  <1> QED
    BY <1>1, LeaseInit, LeaseInvHolds, NeverRebuilt, PTL DEF Spec, ImplementsLease, Lease!Spec
=============================================================================
