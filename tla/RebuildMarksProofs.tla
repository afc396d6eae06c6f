------------------------- MODULE RebuildMarksProofs -------------------------
(***************************************************************************)
(* Theorems about RebuildMarks, for every set of presses, offers and       *)
(* settlers, every cap on rebuilds and every bound on passes.              *)
(***************************************************************************)
EXTENDS RebuildMarks, TLAPS

LEMMA Bounds ==
    /\ RebuildCap \in Nat /\ RebuildUnconfirmedAfter \in Nat
    /\ OverlapLimit \in Nat /\ OverlapLimit >= 1
  BY ConstantsAssumption

Phases == InSubmit \cup {"new", "sent_well", "refused", "bus", "dead"}

(* The way of a coroutine through submit.                                  *)
PhaseSteps ==
    {<<"new", "checked">>, <<"new", "refused">>, <<"checked", "asked">>, <<"checked", "refused">>,
     <<"asked", "published">>, <<"asked", "failing">>, <<"published", "sent">>,
     <<"published", "failing">>, <<"failing", "bus">>, <<"sent", "counting">>,
     <<"counting", "sent_well">>}

(* A mark is a record; the marker of an empty row is not one.              *)
LEMMA MarkIsNoMarker == NoMark \notin Mark
  <1>1. \A n \in 0..RebuildCap : n \in Nat
    BY Bounds
  <1>2. Mark \subseteq [by : Asks, rebuilds : Nat, base : Nat,
                        state : {"requested", "done", "unconfirmed"}]
    BY <1>1, Zenon DEF Mark, Requested, Done, Unconfirmed
  <1> QED
    BY <1>2, ConstantsAssumption

LEMMA GoesTo ==
    ASSUME TypeOK, NEW p \in Asks, NEW ph \in Phases, Goto(p, ph)
    PROVE  /\ ask' \in [Asks -> Coroutine]
           /\ ask'[p].phase = ph /\ ask'[p].offer = ask[p].offer
           /\ ask'[p].base = ask[p].base /\ ask'[p].rebuilds = ask[p].rebuilds
  <1>1. ask' = [ask EXCEPT ![p] = [ask[p] EXCEPT !.phase = ph]]
    BY DEF Goto
  <1>2. ask \in [Asks -> Coroutine] /\ ask[p] \in Coroutine
    BY DEF TypeOK
  <1>3. [ask[p] EXCEPT !.phase = ph] \in Coroutine
    BY <1>2 DEF Coroutine, Phases
  <1> QED
    BY <1>1, <1>2, <1>3 DEF Coroutine

UnderWay == IF Feed!PassUnderWay THEN 1 ELSE 0

LEMMA Checks ==
    ASSUME TypeOK, NEW p \in Asks, Check(p)
    PROVE  /\ ask' \in [Asks -> Coroutine]
           /\ ask'[p].offer = ask[p].offer
           /\ \/ /\ ask'[p].phase = "checked" /\ ask'[p].base = reads
                 /\ copy[ask[p].offer].open
                 /\ overlap' = [overlap EXCEPT ![p] = UnderWay]
              \/ ask'[p].phase = "refused" /\ overlap' = overlap
  <1>1. ask \in [Asks -> Coroutine] /\ ask[p] \in Coroutine /\ ask[p].offer \in Offers
    BY DEF TypeOK, Coroutine
  <1>2. CASE Goto(p, "refused") /\ UNCHANGED overlap
    BY <1>2, GoesTo DEF Phases
  <1>3. ASSUME ~(Goto(p, "refused") /\ UNCHANGED overlap)
        PROVE  /\ ask' = [ask EXCEPT ![p].phase = "checked", ![p].base = reads,
                                     ![p].rebuilds = copy[ask[p].offer].count]
               /\ copy[ask[p].offer].open
               /\ overlap' = [overlap EXCEPT ![p] = UnderWay]
    BY <1>3 DEF Check, OfferOf, UnderWay
  <1>4. ASSUME ~(Goto(p, "refused") /\ UNCHANGED overlap)
        PROVE  ask' \in [Asks -> Coroutine] /\ ask'[p].offer = ask[p].offer
               /\ ask'[p].phase = "checked" /\ ask'[p].base = reads
    <2>1. reads \in Nat /\ copy[ask[p].offer] \in Offer
      BY <1>1, <1>3, <1>4 DEF TypeOK, Feed!FeedTypeOK, Records, Gone
    <2>2. [ask[p] EXCEPT !.phase = "checked", !.base = reads, !.rebuilds = copy[ask[p].offer].count]
              \in Coroutine
      BY <1>1, <2>1 DEF Coroutine, InSubmit, Offer
    <2>3. ask' = [ask EXCEPT ![p] = [ask[p] EXCEPT !.phase = "checked", !.base = reads,
                                                   !.rebuilds = copy[ask[p].offer].count]]
      BY <1>3, <1>4
    <2> QED
      BY <1>1, <2>2, <2>3 DEF Coroutine
  <1> QED
    BY <1>2, <1>3, <1>4

(* What a step of a press does to its coroutine and leaves to the others.  *)
LEMMA AskMoves ==
    ASSUME TypeOK, NEW p \in Asks, AskStep(p)
    PROVE  /\ <<ask[p].phase, ask'[p].phase>> \in PhaseSteps
           /\ ask' \in [Asks -> Coroutine]
           /\ ask'[p].offer = ask[p].offer
           /\ ask[p].phase # "new" => ask'[p].rebuilds = ask[p].rebuilds
           /\ ask'[p].base = IF ask'[p].phase \in {"checked", "counting"} THEN reads ELSE ask[p].base
           /\ ask'[p].phase = "checked" => copy[ask[p].offer].open
           /\ overlap' = IF ask'[p].phase = "checked" THEN [overlap EXCEPT ![p] = UnderWay] ELSE overlap
           /\ published' = IF ask'[p].phase = "published" THEN published \cup {p} ELSE published
           /\ UNCHANGED <<record, copy, snap, pass, reads, readOk, recent, settle, since, eligible>>
           /\ \A q \in Asks : q # p => ask'[q] = ask[q]
  <1> USE DEF PhaseSteps, Phases, InSubmit
  <1>0. \A q \in Asks : q # p => ask'[q] = ask[q]
    BY DEF TypeOK, AskStep, Check, AskRebuild, Publish, SendFails, FlushDone, DropRebuild,
           CountRead, SetReadCount, Goto
  <1>1. CASE Check(p)
    <2>1. ask'[p].phase = "refused" => Goto(p, "refused")
      <3>1. ask[p] \in Coroutine /\ ask \in [Asks -> Coroutine]
        BY DEF TypeOK
      <3>2. ask' = [ask EXCEPT ![p].phase = "checked", ![p].base = reads,
                               ![p].rebuilds = copy[OfferOf(p)].count]
            => ask'[p].phase = "checked"
        BY <3>1 DEF Coroutine
      <3> QED
        BY <1>1, <3>2 DEF Check
    <2>2. ask'[p].phase = "refused" => ask'[p].base = ask[p].base
      BY <2>1, GoesTo
    <2> QED
      BY <1>0, <1>1, <2>2, Checks DEF Check, feed
  <1>2. CASE AskRebuild(p)
    <2>1. (ask'[p].phase = "asked" \/ ask'[p].phase = "refused")
          /\ ask' \in [Asks -> Coroutine] /\ ask'[p].offer = ask[p].offer
          /\ ask'[p].base = ask[p].base /\ ask'[p].rebuilds = ask[p].rebuilds
      BY <1>2, GoesTo DEF AskRebuild
    <2> QED
      BY <1>0, <1>2, <2>1 DEF AskRebuild, feed, history
  <1>3. CASE Publish(p)
    BY <1>0, <1>3, GoesTo DEF Publish, feed
  <1>4. CASE SendFails(p)
    BY <1>0, <1>4, GoesTo DEF SendFails, feed, history
  <1>5. CASE FlushDone(p)
    BY <1>0, <1>5, GoesTo DEF FlushDone, feed, history
  <1>6. CASE DropRebuild(p)
    BY <1>0, <1>6, GoesTo DEF DropRebuild, feed, history
  <1>7. CASE CountRead(p)
    <2>1. ask' = [ask EXCEPT ![p] = [ask[p] EXCEPT !.phase = "counting", !.base = reads]]
      BY <1>7 DEF CountRead
    <2>2. ask \in [Asks -> Coroutine] /\ ask[p] \in Coroutine /\ reads \in Nat
      BY DEF TypeOK, Feed!FeedTypeOK
    <2>3. [ask[p] EXCEPT !.phase = "counting", !.base = reads] \in Coroutine
      BY <2>2 DEF Coroutine
    <2> QED
      BY <1>0, <1>7, <2>1, <2>2, <2>3 DEF CountRead, Coroutine, feed, history
  <1>8. CASE SetReadCount(p)
    BY <1>0, <1>8, GoesTo DEF SetReadCount, feed, history
  <1> QED
    BY <1>1, <1>2, <1>3, <1>4, <1>5, <1>6, <1>7, <1>8 DEF AskStep

(* Every other step leaves the coroutines alone, or ends those in submit.  *)
LEMMA OnlyCrashEnds ==
    ASSUME TypeOK, [Next]_vars, ~(\E p \in Asks : AskStep(p)), NEW q \in Asks
    PROVE  /\ ask' \in [Asks -> Coroutine]
           /\ \/ ask'[q] = ask[q]
              \/ /\ Inside(q) /\ ask'[q].phase = "dead" /\ ask'[q].offer = ask[q].offer
                 /\ ask'[q].base = ask[q].base /\ ask'[q].rebuilds = ask[q].rebuilds
           /\ published' = published
  <1>1. ask \in [Asks -> Coroutine]
    BY DEF TypeOK
  <1>2. CASE BoardCrash
    <2>1. \A p \in Asks : [ask[p] EXCEPT !.phase = "dead"] \in Coroutine
      BY <1>1 DEF Coroutine
    <2>2. ask' = [p \in Asks |-> IF Inside(p) THEN [ask[p] EXCEPT !.phase = "dead"] ELSE ask[p]]
      BY <1>2 DEF BoardCrash
    <2>3. ask[q] \in Coroutine
      BY <1>1
    <2> QED
      BY <1>1, <1>2, <2>1, <2>2, <2>3 DEF BoardCrash, Coroutine, history
  <1>3. \/ \E s \in Settlers : SettleStep(s)
        \/ \E c \in Offers : ForgeWaitsForRoom(c) \/ ForgeRebuilds(c) \/ ForgeCloses(c)
        \/ PassBegin \/ PassStamp \/ FeedOther \/ UNCHANGED vars
        => UNCHANGED <<ask, published>>
    BY DEF SettleStep, SettleRead, SettleDecide, SettleWrite, SettleFails, ForgeWaitsForRoom,
           ForgeRebuilds, ForgeCloses, PassBegin, PassStamp, FeedOther, history, vars
  <1> QED
    BY <1>1, <1>2, <1>3 DEF Next

(* What a step can do to a row of rebuild_marks.                           *)
RowKept(c) == marks'[c] = marks[c]
RowTaken(c, p) ==
    /\ ask[p].phase = "checked" /\ ask'[p].phase = "asked"
    /\ OfferOf(p) = c
    /\ ~(Held(c) /\ marks[c].state = Requested)
    /\ marks'[c] = [by |-> p, rebuilds |-> ask[p].rebuilds, base |-> ask[p].base, state |-> Requested]
RowRaised(c, p) ==
    /\ ask[p].phase = "counting"
    /\ HeldBy(c, p)
    /\ marks'[c] = [marks[c] EXCEPT !.base = ask[p].base]
RowDropped(c, p) ==
    /\ ask[p].phase = "failing"
    /\ HeldBy(c, p)
    /\ marks'[c] = NoMark
RowSettled(c, s) ==
    /\ Held(c) /\ settle[s].does[c] # NoMark
    /\ settle[s].does[c].by = marks[c].by
    /\ \/ settle[s].does[c].verdict = "delete" /\ marks'[c] = NoMark
       \/ /\ settle[s].does[c].verdict \in {Done, Unconfirmed}
          /\ marks'[c] = [marks[c] EXCEPT !.state = settle[s].does[c].verdict]

LEMMA RowMoves ==
    ASSUME TypeOK, [Next]_vars, NEW c \in Offers
    PROVE  \/ RowKept(c)
           \/ \E p \in Asks : AskStep(p) /\ (RowTaken(c, p) \/ RowRaised(c, p) \/ RowDropped(c, p))
           \/ \E s \in Settlers : SettleWrite(s) /\ RowSettled(c, s)
  <1> USE DEF TypeOK, RowKept
  <1>1. ASSUME NEW p \in Asks, AskStep(p)
        PROVE  RowKept(c) \/ RowTaken(c, p) \/ RowRaised(c, p) \/ RowDropped(c, p)
    <2>1. CASE AskRebuild(p)
      <3>1. Goto(p, "asked") => ask'[p].phase = "asked"
        BY GoesTo DEF Phases, InSubmit
      <3> QED
        BY <2>1, <3>1 DEF AskRebuild, RowTaken
    <2>2. CASE SetReadCount(p)
      <3>1. CASE marks' = [marks EXCEPT ![OfferOf(p)].base = ask[p].base] /\ HeldBy(OfferOf(p), p)
        <4>1. OfferOf(p) = c => marks'[c] = [marks[c] EXCEPT !.base = ask[p].base]
          BY <3>1
        <4> QED
          BY <2>2, <3>1, <4>1 DEF SetReadCount, RowRaised
      <3> QED
        BY <2>2, <3>1 DEF SetReadCount
    <2>3. CASE DropRebuild(p)
      BY <2>3 DEF DropRebuild, RowDropped
    <2> QED
      BY <1>1, <2>1, <2>2, <2>3
         DEF AskStep, Check, Publish, SendFails, FlushDone, CountRead
  <1>2. ASSUME NEW s \in Settlers, SettleStep(s)
        PROVE  RowKept(c) \/ (SettleWrite(s) /\ RowSettled(c, s))
    <2>1. CASE SettleWrite(s)
      <3>1. marks'[c] = Settled(c, settle[s].does[c])
        BY <2>1 DEF SettleWrite
      <3>2. settle[s].does[c] # NoMark => settle[s].does[c].verdict \in Verdicts
        BY DEF Settling, Decision
      <3> QED
        BY <2>1, <3>1, <3>2 DEF Settled, RowSettled, Verdicts
    <2> QED
      BY <1>2, <2>1 DEF SettleStep, SettleRead, SettleDecide, SettleFails
  <1>3. \/ BoardCrash
        \/ \E d \in Offers : ForgeWaitsForRoom(d) \/ ForgeRebuilds(d) \/ ForgeCloses(d)
        \/ PassBegin \/ PassStamp \/ FeedOther \/ UNCHANGED vars
        => marks' = marks
    BY DEF BoardCrash, ForgeWaitsForRoom, ForgeRebuilds, ForgeCloses, PassBegin, PassStamp,
           FeedOther, vars
  <1> QED
    BY <1>1, <1>2, <1>3 DEF Next

(* What a settlement decides about the mark it saw on an offer.            *)
DecidedOf(c, seen) ==
    IF seen[c] = NoMark THEN NoMark ELSE [by |-> seen[c].by, verdict |-> Verdict(seen[c], copy[c])]

(* What a step leaves in a settlement's hands.                             *)
LEMMA SettleMoves ==
    ASSUME TypeOK, [Next]_vars, NEW s \in Settlers
    PROVE  \/ settle'[s] = settle[s]
           \/ settle'[s] = SettleIdle
           \/ settle'[s].phase = "read" /\ settle'[s].seen = marks /\ settle'[s].does = NoMarks
           \/ /\ settle'[s].phase = "decided" /\ settle'[s].seen = NoMarks
              /\ settle'[s].does = [c \in Offers |-> DecidedOf(c, settle[s].seen)]
  <1> USE DEF TypeOK
  <1>1. ASSUME NEW t \in Settlers, SettleStep(t), s # t PROVE settle'[s] = settle[s]
    BY <1>1 DEF SettleStep, SettleRead, SettleDecide, SettleWrite, SettleFails
  <1>2. CASE SettleRead(s)
    <2>1. settle'[s] = [SettleIdle EXCEPT !.phase = "read", !.seen = marks]
      BY <1>2 DEF SettleRead
    <2> QED
      BY <2>1 DEF SettleIdle
  <1>3. CASE SettleDecide(s)
    <2>1. \/ settle'[s] = SettleIdle
          \/ settle'[s] = [SettleIdle EXCEPT !.phase = "decided",
                              !.does = [c \in Offers |-> DecidedOf(c, settle[s].seen)]]
      BY <1>3 DEF SettleDecide, DecidedOf
    <2> QED
      BY <2>1 DEF SettleIdle
  <1>4. CASE SettleWrite(s) \/ SettleFails(s)
    BY <1>4 DEF SettleWrite, SettleFails
  <1>5. CASE BoardCrash
    BY <1>5 DEF BoardCrash
  <1>6. \/ \E p \in Asks : AskStep(p)
        \/ \E d \in Offers : ForgeWaitsForRoom(d) \/ ForgeRebuilds(d) \/ ForgeCloses(d)
        \/ PassBegin \/ PassStamp \/ FeedOther \/ UNCHANGED vars
        => settle' = settle
    BY AskMoves DEF ForgeWaitsForRoom, ForgeRebuilds, ForgeCloses, PassBegin, PassStamp, FeedOther, vars
  <1> QED
    BY <1>1, <1>2, <1>3, <1>4, <1>5, <1>6 DEF Next, SettleStep

-----------------------------------------------------------------------------
(* Types.                                                                  *)

LEMMA InitTypeOK == Init => TypeOK
  <1> SUFFICES ASSUME Init PROVE TypeOK
    OBVIOUS
  <1>1. Feed!FeedTypeOK
    <2>1. record \in Records
      <3>1. [open : {TRUE}, count : {0}, wanted : {FALSE}] \subseteq Offer
        <4>1. 0 \in 0..RebuildCap
          BY Bounds
        <4> QED
          BY <4>1, Zenon DEF Offer
      <3> QED
        BY <3>1 DEF Init, Records
    <2>2. EmptyCopy \in Records
      BY DEF EmptyCopy, Records
    <2> QED
      BY <2>1, <2>2 DEF Feed!FeedTypeOK, Feed!Phases, Init, Feed!FeedInit
  <1>2. settle \in [Settlers -> Settling]
    BY DEF Init, SettleIdle, Settling, NoMarks
  <1>3. ask \in [Asks -> Coroutine]
    <2>1. [phase : {"new"}, offer : Offers, base : {0}, rebuilds : {0}] \subseteq Coroutine
      BY Bounds DEF Coroutine
    <2> QED
      BY <2>1 DEF Init
  <1> QED
    BY <1>1, <1>2, <1>3 DEF Init, TypeOK, NoMarks

LEMMA RecordTypeOK ==
    ASSUME TypeOK, [Next]_vars
    PROVE  Feed!FeedTypeOK'
  <1> USE DEF TypeOK, Feed!FeedTypeOK, Feed!Phases
  <1>1. CASE UNCHANGED <<record, copy, snap, pass, reads, readOk, recent>>
    BY <1>1
  <1>2. ASSUME NEW c \in Offers, ForgeWaitsForRoom(c) \/ ForgeRebuilds(c) \/ ForgeCloses(c)
        PROVE  Feed!FeedTypeOK'
    <2>1. record[c] \in Offer
      BY <1>2 DEF Records, ForgeWaitsForRoom, ForgeRebuilds, ForgeCloses, Gone
    <2>2. PICK offer \in Offer \cup {Gone} : record' = [record EXCEPT ![c] = offer]
      <3>1. [record[c] EXCEPT !.wanted = ~record[c].wanted] \in Offer
        BY <2>1 DEF Offer
      <3>2. ASSUME record[c].count < RebuildCap
            PROVE  [record[c] EXCEPT !.count = record[c].count + 1, !.wanted = FALSE] \in Offer
        <4>1. record[c].count \in 0..RebuildCap
          BY <2>1, Zenon DEF Offer
        <4>2. record[c].count + 1 \in 0..RebuildCap
          BY <3>2, <4>1, Bounds
        <4> QED
          BY <2>1, <4>2 DEF Offer
      <3>3. CASE ForgeWaitsForRoom(c)
        <4>1. record' = [record EXCEPT ![c] = [record[c] EXCEPT !.wanted = ~record[c].wanted]]
          BY <3>3 DEF ForgeWaitsForRoom
        <4> QED
          BY <3>1, <4>1
      <3>4. CASE ForgeRebuilds(c)
        <4>1. record' = [record EXCEPT ![c] =
                            [record[c] EXCEPT !.count = record[c].count + 1, !.wanted = FALSE]]
          BY <3>4 DEF ForgeRebuilds
        <4> QED
          BY <3>2, <3>4, <4>1 DEF ForgeRebuilds
      <3> QED
        BY <1>2, <3>3, <3>4 DEF ForgeCloses
    <2>3. record' \in Records
      BY <2>2 DEF Records
    <2> QED
      BY <1>2, <2>3 DEF ForgeWaitsForRoom, ForgeRebuilds, ForgeCloses, feed
  <1>3. CASE PassBegin
    BY <1>3 DEF PassBegin, Feed!PassBegin
  <1>4. CASE PassStamp
    BY <1>4 DEF PassStamp, Feed!PassStamp
  <1>5. CASE FeedOther
    <2>1. EmptyCopy \in Records
      BY DEF EmptyCopy, Records
    <2> QED
      BY <1>5, <2>1 DEF FeedOther, Feed!PassRead, Feed!PassFail, Feed!PassWrite, Feed!PassAbandon,
                        Feed!FeedStop, Feed!FeedStart, Feed!CopyAges
  <1>6. \/ \E p \in Asks : AskStep(p)
        \/ \E s \in Settlers : SettleStep(s)
        \/ BoardCrash \/ UNCHANGED vars
        => UNCHANGED <<record, copy, snap, pass, reads, readOk, recent>>
    BY AskMoves DEF SettleStep, SettleRead, SettleDecide, SettleWrite, SettleFails, BoardCrash,
                    feed, vars
  <1> QED
    BY <1>1, <1>2, <1>3, <1>4, <1>5, <1>6 DEF Next

LEMMA MarksTypeOK ==
    ASSUME TypeOK, [Next]_vars, NEW c \in Offers
    PROVE  marks'[c] \in Mark \cup {NoMark}
  <1>1. marks[c] \in Mark \cup {NoMark}
    BY DEF TypeOK
  <1>2. ASSUME NEW p \in Asks, RowTaken(c, p) PROVE marks'[c] \in Mark
    <2>1. ask[p] \in Coroutine
      BY DEF TypeOK
    <2> QED
      BY <1>2, <2>1 DEF RowTaken, Mark, Coroutine
  <1>3. ASSUME NEW p \in Asks, RowRaised(c, p) PROVE marks'[c] \in Mark
    <2>1. ask[p].base \in Nat /\ marks[c] \in Mark
      BY <1>1, <1>3 DEF TypeOK, Coroutine, RowRaised, HeldBy, Held
    <2> QED
      BY <1>3, <2>1 DEF RowRaised, Mark
  <1>4. ASSUME NEW s \in Settlers, RowSettled(c, s) PROVE marks'[c] \in Mark \cup {NoMark}
    <2>1. marks[c] \in Mark
      BY <1>1, <1>4 DEF RowSettled, Held
    <2> QED
      BY <1>4, <2>1 DEF RowSettled, Mark
  <1> QED
    BY <1>1, <1>2, <1>3, <1>4, RowMoves DEF RowKept, RowDropped

LEMMA SettleTypeOK ==
    ASSUME TypeOK, [Next]_vars, NEW s \in Settlers
    PROVE  settle'[s] \in Settling
  <1>1. ASSUME NEW c \in Offers, settle[s].seen[c] # NoMark
        PROVE  DecidedOf(c, settle[s].seen) \in Decision
    <2>1. settle[s].seen[c] \in Mark
      BY <1>1 DEF TypeOK, Settling
    <2> QED
      BY <1>1, <2>1 DEF DecidedOf, Decision, Verdict, Verdicts, Mark
  <1>2. [c \in Offers |-> DecidedOf(c, settle[s].seen)] \in [Offers -> Decision \cup {NoMark}]
    BY <1>1 DEF DecidedOf
  <1>3. SettleIdle \in Settling /\ settle[s] \in Settling /\ marks \in [Offers -> Mark \cup {NoMark}]
    BY DEF TypeOK, SettleIdle, Settling, NoMarks
  <1>4. CASE \/ settle'[s] = settle[s]
             \/ settle'[s] = SettleIdle
    BY <1>3, <1>4
  <1>5. CASE SettleRead(s)
    <2>1. settle'[s] = [SettleIdle EXCEPT !.phase = "read", !.seen = marks]
      BY <1>5 DEF SettleRead, TypeOK
    <2> QED
      BY <1>3, <2>1 DEF Settling
  <1>6. CASE SettleDecide(s)
    <2>1. \/ settle'[s] = SettleIdle
          \/ settle'[s] = [SettleIdle EXCEPT !.phase = "decided",
                              !.does = [c \in Offers |-> DecidedOf(c, settle[s].seen)]]
      BY <1>6 DEF SettleDecide, DecidedOf, TypeOK
    <2> QED
      BY <1>2, <1>3, <2>1 DEF Settling
  <1>7. ASSUME NEW t \in Settlers, SettleStep(t)
        PROVE  SettleRead(s) \/ SettleDecide(s) \/ settle'[s] = SettleIdle \/ settle'[s] = settle[s]
    <2>1. CASE t = s
      BY <1>7, <2>1 DEF SettleStep, SettleWrite, SettleFails, TypeOK
    <2>2. CASE t # s
      BY <1>7, <2>2 DEF SettleStep, SettleRead, SettleDecide, SettleWrite, SettleFails, TypeOK
    <2> QED
      BY <2>1, <2>2
  <1>8. \/ \E p \in Asks : AskStep(p)
        \/ \E d \in Offers : ForgeWaitsForRoom(d) \/ ForgeRebuilds(d) \/ ForgeCloses(d)
        \/ PassBegin \/ PassStamp \/ FeedOther \/ UNCHANGED vars \/ BoardCrash
        => settle'[s] = settle[s] \/ settle'[s] = SettleIdle
    BY AskMoves DEF ForgeWaitsForRoom, ForgeRebuilds, ForgeCloses, PassBegin, PassStamp, FeedOther,
                    BoardCrash, vars
  <1> QED
    BY <1>4, <1>5, <1>6, <1>7, <1>8 DEF Next

(* Every variable that is a function keeps its domain.                     *)
LEMMA DomainsStay ==
    ASSUME TypeOK, [Next]_vars
    PROVE  /\ marks' = [c \in Offers |-> marks'[c]]
           /\ settle' = [s \in Settlers |-> settle'[s]]
           /\ published' \subseteq Asks /\ eligible' \subseteq Asks
           /\ since' \in [Asks -> Nat] /\ overlap' \in [Asks -> Nat]
  <1> USE DEF TypeOK
  <1>1. ASSUME NEW p \in Asks, AskStep(p)
        PROVE  /\ marks' = [c \in Offers |-> marks'[c]]
               /\ settle' = settle /\ published' \subseteq Asks
               /\ UNCHANGED <<since, eligible>> /\ overlap' \in [Asks -> Nat]
    <2>1. marks' = [c \in Offers |-> marks'[c]]
      BY <1>1 DEF AskStep, Check, AskRebuild, Publish, SendFails, FlushDone, DropRebuild, CountRead,
                  SetReadCount
    <2>2. UnderWay \in Nat
      BY DEF UnderWay
    <2> QED
      BY <1>1, <2>1, <2>2, AskMoves
  <1>2. ASSUME NEW s \in Settlers, SettleStep(s)
        PROVE  /\ marks' = [c \in Offers |-> marks'[c]] /\ settle' = [t \in Settlers |-> settle'[t]]
               /\ UNCHANGED <<published, since, eligible, overlap>>
    BY <1>2 DEF SettleStep, SettleRead, SettleDecide, SettleWrite, SettleFails, history
  <1>3. \/ BoardCrash
        \/ \E d \in Offers : ForgeWaitsForRoom(d) \/ ForgeRebuilds(d) \/ ForgeCloses(d)
        \/ FeedOther \/ UNCHANGED vars
        => /\ marks' = marks /\ settle' = [t \in Settlers |-> settle'[t]]
           /\ UNCHANGED <<published, since, eligible, overlap>>
    BY DEF BoardCrash, ForgeWaitsForRoom, ForgeRebuilds, ForgeCloses, FeedOther, history, vars
  <1>4. PassBegin \/ PassStamp =>
            /\ UNCHANGED <<marks, settle, published>> /\ eligible' \subseteq Asks
            /\ since' \in [Asks -> Nat] /\ overlap' \in [Asks -> Nat]
    BY DEF PassBegin, PassStamp
  <1> QED
    BY <1>1, <1>2, <1>3, <1>4 DEF Next

LEMMA TypeStep == TypeOK /\ [Next]_vars => TypeOK'
  <1> SUFFICES ASSUME TypeOK, [Next]_vars PROVE TypeOK'
    OBVIOUS
  <1>1. ask' \in [Asks -> Coroutine]
    <2>1. CASE \E p \in Asks : AskStep(p)
      BY <2>1, AskMoves
    <2>2. CASE ~(\E p \in Asks : AskStep(p)) /\ Asks # {}
      BY <2>2, OnlyCrashEnds
    <2>3. CASE Asks = {}
      <3>1. ~(\E p \in Asks : AskStep(p)) /\ ~BoardCrash
        BY <2>3 DEF BoardCrash
      <3>2. ask' = ask
        BY <3>1 DEF Next, SettleStep, SettleRead, SettleDecide, SettleWrite, SettleFails,
                    ForgeWaitsForRoom, ForgeRebuilds, ForgeCloses, PassBegin, PassStamp, FeedOther,
                    vars
      <3> QED
        BY <3>2 DEF TypeOK
    <2> QED
      BY <2>1, <2>2, <2>3
  <1>2. marks' \in [Offers -> Mark \cup {NoMark}]
    BY DomainsStay, MarksTypeOK
  <1>3. settle' \in [Settlers -> Settling]
    BY DomainsStay, SettleTypeOK
  <1> QED
    BY <1>1, <1>2, <1>3, DomainsStay, RecordTypeOK DEF TypeOK

(* Every variable of the rebuild path keeps its type through every step.   *)
THEOREM MarksTypeCorrect == Spec => []TypeOK
  BY InitTypeOK, TypeStep, PTL DEF Spec

-----------------------------------------------------------------------------
(* The passes counted for a mark, as in AnswerClaims.  A pass that a count *)
(* read does not include began after the publication (since) or overlapped *)
(* the submission (overlap).                                               *)
Begun(p) == Inside(p) \/ p \in published
Overlaps(p) == Feed!PassUnderWay /\ p \notin eligible
Covered(p, base) == reads + (IF Overlaps(p) THEN 1 ELSE 0) =< base + since[p] + overlap[p]

(* The submissions that have not put a mark, or put none.                  *)
Unmarked == {"new", "checked", "refused"}

Counted(p) ==
    /\ overlap[p] =< OverlapLimit
    /\ p \in published => ask[p].phase \notin Unmarked \cup {"asked"}
    /\ Begun(p) /\ Overlaps(p) => overlap[p] >= 1
    /\ Inside(p) => Covered(p, ask[p].base)
PassesCounted == eligible \subseteq published /\ \A p \in Asks : Counted(p)

(* What no step undoes for a press: where it stands, and the passes that   *)
(* are counted for its marks.                                              *)
Onward(p) ==
    /\ ask'[p].offer = ask[p].offer
    /\ ask[p].phase # "new" => ask'[p].rebuilds = ask[p].rebuilds
    /\ ask[p].phase \notin Unmarked =>
          ask'[p].phase \notin Unmarked /\ (Begun(p)' => Begun(p))
    /\ since'[p] >= since[p]
    /\ \A base \in Nat : Begun(p) /\ Begun(p)' /\ Covered(p, base) => Covered(p, base)'

(* One press and the feed's counts: everything Covered speaks of stays.    *)
CountsStay(p) ==
    /\ UNCHANGED <<pass, reads, since>>
    /\ p \in eligible' <=> p \in eligible
    /\ overlap'[p] = overlap[p]

LEMMA StillCounted ==
    ASSUME TypeOK, PassesCounted, NEW p \in Asks, CountsStay(p),
           Inside(p)' => Inside(p) /\ (ask'[p].base = ask[p].base \/ ask'[p].base = reads),
           Begun(p)' => Begun(p),
           p \in published' => ask'[p].phase \notin Unmarked \cup {"asked"}
    PROVE  /\ since'[p] >= since[p]
           /\ \A base \in Nat : Begun(p) /\ Begun(p)' /\ Covered(p, base) => Covered(p, base)'
           /\ Counted(p)'
  <1>1. /\ Overlaps(p)' <=> Overlaps(p)
        /\ \A base \in Nat : Covered(p, base)' <=> Covered(p, base)
    BY DEF CountsStay, Overlaps, Covered, Feed!PassUnderWay
  <1>2. since'[p] = since[p] /\ since[p] \in Nat /\ overlap[p] \in Nat /\ reads \in Nat
    BY DEF CountsStay, TypeOK, Feed!FeedTypeOK
  <1>3. Counted(p)
    BY DEF PassesCounted
  <1>4. ASSUME Inside(p)' PROVE Covered(p, ask[p].base)'
    <2>1. ask[p].base \in Nat
      BY DEF TypeOK, Coroutine
    <2>2. CASE ask'[p].base = ask[p].base
      <3>1. Covered(p, ask[p].base)
        BY <1>3, <1>4 DEF Counted
      <3> QED
        BY <2>2, <3>1 DEF CountsStay, Overlaps, Covered, Feed!PassUnderWay
    <2>3. CASE ask'[p].base = reads
      <3>1. Overlaps(p) => overlap[p] >= 1
        BY <1>3, <1>4 DEF Counted, Begun
      <3>2. /\ reads' = reads /\ overlap'[p] = overlap[p]
            /\ Overlaps(p)' => overlap[p] >= 1
        BY <1>1, <3>1 DEF CountsStay
      <3> QED
        BY <1>2, <2>3, <3>2 DEF Covered
    <2> QED
      BY <1>4, <2>2, <2>3
  <1> QED
    BY <1>1, <1>2, <1>3, <1>4 DEF Counted, CountsStay

LEMMA AskCounts ==
    ASSUME TypeOK, PassesCounted, NEW p \in Asks, AskStep(p), NEW q \in Asks
    PROVE  Onward(q) /\ Counted(q)'
  <1> USE DEF PhaseSteps, InSubmit, Unmarked
  <1>1. CASE q # p
    <2>1. ask'[q] = ask[q] /\ overlap'[q] = overlap[q] /\ (q \in published' <=> q \in published)
      BY <1>1, AskMoves DEF TypeOK
    <2>2. CountsStay(q)
      BY <2>1, AskMoves DEF CountsStay
    <2>3. (Inside(q)' <=> Inside(q)) /\ (Begun(q)' <=> Begun(q))
      BY <2>1 DEF Inside, Begun
    <2>4. q \in published' => ask'[q].phase \notin Unmarked \cup {"asked"}
      BY <2>1 DEF PassesCounted, Counted
    <2> QED
      BY <2>1, <2>2, <2>3, <2>4, StillCounted DEF Onward
  <1>2. CASE q = p /\ ask[p].phase # "new"
    <2>1. CountsStay(p)
      BY <1>2, AskMoves DEF CountsStay
    <2>2. Inside(p)' => Inside(p) /\ (ask'[p].base = ask[p].base \/ ask'[p].base = reads)
      BY <1>2, AskMoves DEF Inside
    <2>3. Begun(p)' => Begun(p)
      BY <1>2, AskMoves DEF Begun, Inside
    <2>4. p \in published' => ask'[p].phase \notin Unmarked \cup {"asked"}
      BY AskMoves DEF PassesCounted, Counted
    <2>5. ask[p].phase \notin Unmarked => ask'[p].phase \notin Unmarked
      BY AskMoves
    <2> QED
      BY <1>2, <2>1, <2>2, <2>3, <2>4, <2>5, AskMoves, StillCounted DEF Onward
  <1>3. CASE q = p /\ ask[p].phase = "new"
    <2>1. /\ p \notin published /\ p \notin eligible /\ ~Begun(p)
          /\ published' = published /\ p \notin eligible'
      BY <1>3, AskMoves DEF PassesCounted, Counted, Begun, Inside
    <2>2. UNCHANGED <<pass, reads, since>> /\ reads \in Nat /\ since[p] \in Nat /\ overlap[p] \in Nat
      BY AskMoves DEF TypeOK, Feed!FeedTypeOK
    <2>3. CASE ask'[p].phase = "refused"
      <3>1. ~Begun(p)' /\ ~Inside(p)' /\ overlap' = overlap
        BY <2>1, <2>3, AskMoves DEF Begun, Inside
      <3> QED
        BY <1>3, <2>1, <2>2, <3>1, AskMoves DEF Onward, Counted, PassesCounted
    <2>4. CASE ask'[p].phase = "checked"
      <3>1. overlap'[p] = UnderWay /\ ask'[p].base = reads
        BY <2>4, AskMoves DEF TypeOK
      <3>2. Covered(p, ask[p].base)' /\ (Overlaps(p)' => overlap'[p] >= 1)
        BY <2>2, <3>1 DEF Covered, Overlaps, UnderWay, Feed!PassUnderWay
      <3>3. overlap'[p] =< OverlapLimit
        BY <3>1, Bounds DEF UnderWay
      <3> QED
        BY <1>3, <2>1, <2>2, <3>2, <3>3, AskMoves DEF Onward, Counted
    <2> QED
      BY <1>3, <2>3, <2>4, AskMoves
  <1> QED
    BY <1>1, <1>2, <1>3

(* Steps that leave the presses alone or end them, outside the feed.       *)
LEMMA QuietCounts ==
    ASSUME TypeOK, [Next]_vars, PassesCounted, ~(\E p \in Asks : AskStep(p)),
           UNCHANGED <<pass, reads, since, eligible, overlap>>, NEW q \in Asks
    PROVE  Onward(q) /\ Counted(q)'
  <1>1. CountsStay(q)
    BY DEF CountsStay
  <1>2. Inside(q)' => Inside(q) /\ ask'[q].base = ask[q].base
    BY OnlyCrashEnds DEF Inside, InSubmit
  <1>3. Begun(q)' => Begun(q)
    BY <1>2, OnlyCrashEnds DEF Begun
  <1>4. q \in published' => ask'[q].phase \notin Unmarked \cup {"asked"}
    BY OnlyCrashEnds DEF PassesCounted, Counted, Unmarked
  <1>5. ask[q].phase \notin Unmarked => ask'[q].phase \notin Unmarked
    BY OnlyCrashEnds DEF Unmarked
  <1> QED
    BY <1>1, <1>2, <1>3, <1>4, <1>5, OnlyCrashEnds, StillCounted DEF Onward

(* The feed's steps: each moves the counts so that nothing is uncovered.   *)
LEMMA FeedCounts ==
    ASSUME TypeOK, PassesCounted, PassBegin \/ PassStamp \/ FeedOther, NEW p \in Asks
    PROVE  Onward(p) /\ Counted(p)'
  <1>1. UNCHANGED <<ask, published>>
    BY DEF PassBegin, PassStamp, FeedOther, history
  <1>2. (Inside(p)' <=> Inside(p)) /\ (Begun(p)' <=> Begun(p))
    BY <1>1 DEF Inside, Begun
  <1>3. /\ reads \in Nat /\ since[p] \in Nat /\ overlap[p] \in Nat
        /\ Counted(p) /\ eligible \subseteq published /\ ask[p].base \in Nat
    BY DEF TypeOK, Feed!FeedTypeOK, PassesCounted, Coroutine
  <1>4. ASSUME overlap'[p] =< OverlapLimit, since'[p] >= since[p],
               Begun(p) /\ Overlaps(p)' => overlap'[p] >= 1,
               \A base \in Nat : Begun(p) /\ Covered(p, base) => Covered(p, base)'
        PROVE  Onward(p) /\ Counted(p)'
    <2>1. ASSUME Inside(p)' PROVE Covered(p, ask[p].base)'
      <3>1. Covered(p, ask[p].base) /\ Begun(p)
        BY <1>2, <1>3, <2>1 DEF Counted, Begun
      <3>2. ASSUME NEW base \in Nat, base = ask[p].base PROVE Covered(p, base)'
        BY <1>4, <3>1, <3>2
      <3>3. ask'[p].base \in Nat /\ ask'[p].base = ask[p].base
        BY <1>1, <1>3
      <3> QED
        BY <1>1, <1>3, <3>2
    <2> QED
      BY <1>1, <1>2, <1>3, <1>4, <2>1 DEF Onward, Counted
  <1>5. CASE PassBegin
    <2>1. /\ reads' = reads /\ since' = since /\ ~Feed!PassUnderWay /\ eligible' = published
          /\ overlap'[p] = IF Inside(p) THEN overlap[p] + 1 ELSE overlap[p]
          /\ Inside(p) => overlap[p] < OverlapLimit
      BY <1>5 DEF PassBegin, Feed!PassBegin, Feed!PassUnderWay
    <2>2. Begun(p) /\ Overlaps(p)' => Inside(p)
      BY <2>1 DEF Begun, Overlaps
    <2>3. overlap'[p] =< OverlapLimit
      BY <1>3, <2>1, Bounds DEF Counted
    <2>4. ASSUME NEW base \in Nat, Begun(p), Covered(p, base) PROVE Covered(p, base)'
      <3>1. reads =< base + since[p] + overlap[p]
        BY <1>3, <2>1, <2>4 DEF Covered, Overlaps
      <3> QED
        BY <1>3, <2>1, <2>2, <2>4, <3>1 DEF Covered
    <2> QED
      BY <1>3, <1>4, <2>1, <2>2, <2>3, <2>4
  <1>6. CASE PassStamp
    <2>1. /\ reads' = reads + 1 /\ Feed!PassUnderWay /\ ~Feed!PassUnderWay'
          /\ overlap' = overlap /\ eligible' = eligible
          /\ since'[p] = IF p \in eligible THEN since[p] + 1 ELSE since[p]
      BY <1>6 DEF PassStamp, Feed!PassStamp, Feed!PassUnderWay
    <2>2. ~Overlaps(p)'
      BY <2>1 DEF Overlaps
    <2>3. ASSUME NEW base \in Nat, Begun(p), Covered(p, base) PROVE Covered(p, base)'
      <3>1. CASE p \in eligible
        BY <1>3, <2>1, <2>2, <2>3, <3>1 DEF Covered, Overlaps
      <3>2. CASE p \notin eligible
        BY <1>3, <2>1, <2>2, <2>3, <3>2 DEF Covered, Overlaps
      <3> QED
        BY <3>1, <3>2
    <2> QED
      BY <1>3, <1>4, <2>1, <2>2, <2>3 DEF Counted
  <1>7. CASE FeedOther
    <2>1. reads' = reads /\ since' = since /\ overlap' = overlap /\ eligible' = eligible
      BY <1>7 DEF FeedOther, history, Feed!PassRead, Feed!PassFail, Feed!PassWrite,
                  Feed!PassAbandon, Feed!FeedStop, Feed!FeedStart, Feed!CopyAges
    <2>2. Feed!PassUnderWay' => Feed!PassUnderWay
      BY <1>7 DEF FeedOther, Feed!PassRead, Feed!PassFail, Feed!PassWrite, Feed!PassAbandon,
                  Feed!FeedStop, Feed!FeedStart, Feed!CopyAges, Feed!PassUnderWay
    <2>3. Overlaps(p)' => Overlaps(p)
      BY <2>1, <2>2 DEF Overlaps
    <2>4. ASSUME NEW base \in Nat, Begun(p), Covered(p, base) PROVE Covered(p, base)'
      BY <1>3, <2>1, <2>3, <2>4 DEF Covered
    <2> QED
      BY <1>3, <1>4, <2>1, <2>3, <2>4 DEF Counted
  <1> QED
    BY <1>5, <1>6, <1>7

LEMMA CountsStep ==
    ASSUME TypeOK, [Next]_vars, PassesCounted
    PROVE  PassesCounted' /\ \A p \in Asks : Onward(p)
  <1>1. CASE \E p \in Asks : AskStep(p)
    <2>1. eligible' \subseteq published'
      BY <1>1, AskMoves DEF PassesCounted
    <2> QED
      BY <1>1, <2>1, AskCounts DEF PassesCounted
  <1>2. CASE PassBegin \/ PassStamp \/ FeedOther
    <2>1. eligible' \subseteq published'
      BY <1>2 DEF PassBegin, PassStamp, FeedOther, history, PassesCounted
    <2> QED
      BY <1>2, <2>1, FeedCounts DEF PassesCounted
  <1>3. CASE ~(\E p \in Asks : AskStep(p)) /\ ~(PassBegin \/ PassStamp \/ FeedOther)
    <2>1. UNCHANGED <<pass, reads, since, eligible, overlap, published>>
      BY <1>3 DEF Next, SettleStep, SettleRead, SettleDecide, SettleWrite, SettleFails, BoardCrash,
                  ForgeWaitsForRoom, ForgeRebuilds, ForgeCloses, feed, history, vars
    <2> QED
      BY <1>3, <2>1, QuietCounts DEF PassesCounted
  <1> QED
    BY <1>1, <1>2, <1>3

-----------------------------------------------------------------------------
(* Forge's record of an offer counts up until the card closes for good; a  *)
(* later state of an offer is ahead of an earlier one.                     *)
Ahead(now, then) == now.open => then.open /\ now.count >= then.count
RecordMovesOn == \A c \in Offers : Ahead(record'[c], record[c])

(* The board's copy and the snapshot of a pass never count more than the   *)
(* record of an open card, and a pass does not lose a card it has shown.   *)
CopyBehind ==
    \A c \in Offers : record[c].open =>
        /\ copy[c].open => copy[c].count =< record[c].count
        /\ snap[c].open => snap[c].count =< record[c].count
        /\ pass = "read" /\ copy[c].open => snap[c].open

LEMMA CountsAreNat ==
    ASSUME NEW r \in Records, NEW c \in Offers
    PROVE  r[c].count \in Nat
  <1>1. \A n \in 0..RebuildCap : n \in Nat
    BY Bounds
  <1>2. \A o \in Offer : o.count \in Nat
    BY <1>1, Zenon DEF Offer
  <1>3. Gone.count \in Nat
    BY DEF Gone
  <1>4. r[c] \in Offer \/ r[c] = Gone
    BY DEF Records
  <1> QED
    BY <1>2, <1>3, <1>4

LEMMA OfferTypes ==
    ASSUME TypeOK, NEW c \in Offers
    PROVE  /\ record[c].count \in Nat /\ copy[c].count \in Nat /\ snap[c].count \in Nat
           /\ ~EmptyCopy[c].open
  BY CountsAreNat DEF TypeOK, Feed!FeedTypeOK, EmptyCopy, Gone

LEMMA NextCount ==
    ASSUME TypeOK, [Next]_vars, NEW c \in Offers
    PROVE  record'[c].count \in Nat
  <1>1. record' \in Records
    BY TypeStep DEF TypeOK, Feed!FeedTypeOK
  <1> QED
    BY <1>1, CountsAreNat

LEMMA ForgeMoves ==
    ASSUME TypeOK, NEW d \in Offers, ForgeWaitsForRoom(d) \/ ForgeRebuilds(d) \/ ForgeCloses(d),
           NEW c \in Offers
    PROVE  Ahead(record'[c], record[c])
  <1> USE DEF Ahead
  <1>1. record \in [Offers -> Offer \cup {Gone}] /\ record[c].count \in Nat
    BY OfferTypes DEF TypeOK, Feed!FeedTypeOK, Records
  <1>2. CASE c # d
    BY <1>1, <1>2 DEF ForgeWaitsForRoom, ForgeRebuilds, ForgeCloses
  <1>3. CASE c = d /\ ForgeCloses(d)
    BY <1>1, <1>3 DEF ForgeCloses, Gone
  <1>4. CASE c = d /\ ForgeWaitsForRoom(d)
    <2>1. record[c] \in Offer /\ record'[c] = [record[c] EXCEPT !.wanted = ~record[c].wanted]
      BY <1>1, <1>4 DEF ForgeWaitsForRoom, Gone
    <2> QED
      BY <1>1, <2>1 DEF Offer
  <1>5. CASE c = d /\ ForgeRebuilds(d)
    <2>1. /\ record[c] \in Offer
          /\ record'[c] = [record[c] EXCEPT !.count = record[c].count + 1, !.wanted = FALSE]
      BY <1>1, <1>5 DEF ForgeRebuilds, Gone
    <2>2. record'[c].count = record[c].count + 1 /\ record'[c].open = record[c].open
      BY <2>1 DEF Offer
    <2> QED
      BY <1>1, <2>2
  <1> QED
    BY <1>2, <1>3, <1>4, <1>5

LEMMA RecordStep == TypeOK /\ [Next]_vars => RecordMovesOn
  <1> SUFFICES ASSUME TypeOK, [Next]_vars PROVE RecordMovesOn
    OBVIOUS
  <1>1. record' = record => RecordMovesOn
    BY OfferTypes DEF RecordMovesOn, Ahead
  <1>2. (\E d \in Offers : ForgeWaitsForRoom(d) \/ ForgeRebuilds(d) \/ ForgeCloses(d))
            => RecordMovesOn
    BY ForgeMoves DEF RecordMovesOn
  <1> QED
    BY <1>1, <1>2, AskMoves
       DEF Next, SettleStep, SettleRead, SettleDecide, SettleWrite, SettleFails, BoardCrash,
           PassBegin, PassStamp, FeedOther, vars

(* Only the feed touches the copy and the snapshot.                        *)
LEMMA CopyStep ==
    ASSUME TypeOK, [Next]_vars, CopyBehind
    PROVE  /\ CopyBehind'
           /\ \A c \in Offers : record'[c].open /\ copy[c].open => copy'[c].open
  <1> SUFFICES ASSUME NEW c \in Offers, record'[c].open
               PROVE  /\ copy'[c].open => copy'[c].count =< record'[c].count
                      /\ snap'[c].open => snap'[c].count =< record'[c].count
                      /\ pass' = "read" /\ copy'[c].open => snap'[c].open
                      /\ copy[c].open => copy'[c].open
    BY DEF CopyBehind
  <1>1. record[c].open /\ record'[c].count >= record[c].count
    BY RecordStep DEF RecordMovesOn, Ahead
  <1>2. /\ record[c].count \in Nat /\ copy[c].count \in Nat /\ snap[c].count \in Nat
        /\ record'[c].count \in Nat /\ ~EmptyCopy[c].open
    BY OfferTypes, NextCount
  <1>3. /\ copy[c].open => copy[c].count =< record[c].count
        /\ snap[c].open => snap[c].count =< record[c].count
        /\ pass = "read" /\ copy[c].open => snap[c].open
    BY <1>1 DEF CopyBehind
  <1>4. CASE UNCHANGED <<copy, snap, pass>>
    BY <1>1, <1>2, <1>3, <1>4
  <1>5. CASE PassBegin \/ PassStamp
    BY <1>1, <1>2, <1>3, <1>5 DEF PassBegin, PassStamp, Feed!PassBegin, Feed!PassStamp
  <1>6. CASE FeedOther
    <2>1. record' = record
      BY <1>6 DEF FeedOther
    <2> QED
      BY <1>1, <1>2, <1>3, <1>6, <2>1
         DEF FeedOther, Feed!PassRead, Feed!PassFail, Feed!PassWrite, Feed!PassAbandon,
             Feed!FeedStop, Feed!FeedStart, Feed!CopyAges
  <1>7. \/ \E p \in Asks : AskStep(p)
        \/ \E s \in Settlers : SettleStep(s)
        \/ BoardCrash \/ UNCHANGED vars
        \/ \E d \in Offers : ForgeWaitsForRoom(d) \/ ForgeRebuilds(d) \/ ForgeCloses(d)
        => UNCHANGED <<copy, snap, pass>>
    BY AskMoves DEF SettleStep, SettleRead, SettleDecide, SettleWrite, SettleFails, BoardCrash,
                    ForgeWaitsForRoom, ForgeRebuilds, ForgeCloses, feed, vars
  <1> QED
    BY <1>4, <1>5, <1>6, <1>7 DEF Next

-----------------------------------------------------------------------------
(* What a mark, and what a settlement decided about one, may say.  A mark  *)
(* is written by a press for its own offer with the count it was shown.    *)
ByItsPress(c, p) == p \in Asks /\ ask[p].offer = c /\ ask[p].phase \notin Unmarked
Proved(c, n) == record[c].open => record[c].count > n
LongAgo(p) == since[p] + OverlapLimit >= RebuildUnconfirmedAfter
RefEarned(p) == Begun(p) => LongAgo(p)

MarkTrue(c, m) ==
    /\ ByItsPress(c, m.by)
    /\ m.rebuilds = ask[m.by].rebuilds
    /\ Begun(m.by) => Covered(m.by, m.base)
    /\ m.state = Done => Proved(c, m.rebuilds)
    /\ m.state = Unconfirmed => RefEarned(m.by)
DecisionTrue(c, d) ==
    /\ ByItsPress(c, d.by)
    /\ d.verdict = "delete" => ~record[c].open
    /\ d.verdict = Done => Proved(c, ask[d.by].rebuilds)
    /\ d.verdict = Unconfirmed => RefEarned(d.by)

(* An offer a press was checked against is in every later copy until it    *)
(* closes, so a settlement that does not find it there is right to delete. *)
Shown(p) == record[ask[p].offer].open => copy[ask[p].offer].open

MarksAreTrue ==
    /\ \A c \in Offers : Held(c) => MarkTrue(c, marks[c])
    /\ \A s \in Settlers, c \in Offers :
          /\ settle[s].seen[c] # NoMark => MarkTrue(c, settle[s].seen[c])
          /\ settle[s].does[c] # NoMark => DecisionTrue(c, settle[s].does[c])
OffersAreShown == \A p \in Asks : ask[p].phase \notin {"new", "refused"} => Shown(p)

(* An ask keeps its mark from the moment it is put; a submission that died *)
(* before it was told of a failure keeps it too.                           *)
Asking(p) == Begun(p) /\ ask[p].phase \notin Unmarked \cup {"bus"}
Waits(p) ==
    LET c == OfferOf(p) IN
        \/ HeldBy(c, p) /\ marks[c].state = Requested
        \/ record[c].count > ask[p].rebuilds
        \/ LongAgo(p)
        \/ ~record[c].open
AsksWait == \A p \in Asks : Asking(p) => Waits(p)

(* The inductive invariant.                                                *)
IInv == TypeOK /\ PassesCounted /\ CopyBehind /\ MarksAreTrue /\ OffersAreShown /\ AsksWait

(* What is true of a mark stays true, whatever the step.                   *)
LEMMA PressStays ==
    ASSUME IInv, [Next]_vars, NEW c \in Offers, NEW p, ByItsPress(c, p)
    PROVE  /\ ByItsPress(c, p)'
           /\ ask'[p].rebuilds = ask[p].rebuilds
           /\ \A base \in Nat :
                 (Begun(p) => Covered(p, base)) => (Begun(p)' => Covered(p, base)')
           /\ RefEarned(p) => RefEarned(p)'
  <1>1. Onward(p) /\ p \in Asks
    BY CountsStep DEF IInv, ByItsPress
  <1>2. since[p] \in Nat /\ since'[p] \in Nat
    BY <1>1, TypeStep DEF IInv, TypeOK
  <1>3. ByItsPress(c, p)' /\ ask'[p].rebuilds = ask[p].rebuilds /\ (Begun(p)' => Begun(p))
    BY <1>1 DEF Onward, ByItsPress, Unmarked
  <1>4. RefEarned(p) => RefEarned(p)'
    BY <1>1, <1>2, <1>3, Bounds DEF Onward, RefEarned, LongAgo
  <1> QED
    BY <1>1, <1>3, <1>4 DEF Onward

LEMMA ProvedStays ==
    ASSUME IInv, [Next]_vars, NEW c \in Offers, NEW n \in Nat, Proved(c, n)
    PROVE  Proved(c, n)'
  <1>1. record[c].count \in Nat /\ record'[c].count \in Nat
    BY OfferTypes, NextCount DEF IInv
  <1> QED
    BY <1>1, RecordStep DEF IInv, RecordMovesOn, Ahead, Proved

LEMMA MarkStays ==
    ASSUME IInv, [Next]_vars, NEW c \in Offers, NEW m \in Mark, MarkTrue(c, m)
    PROVE  MarkTrue(c, m)'
  <1>1. m.by \in Asks /\ m.rebuilds \in Nat /\ m.base \in Nat
    BY Bounds DEF Mark
  <1>2. /\ ByItsPress(c, m.by)' /\ m.rebuilds = ask'[m.by].rebuilds
        /\ Begun(m.by)' => Covered(m.by, m.base)'
        /\ RefEarned(m.by) => RefEarned(m.by)'
    BY <1>1, PressStays DEF MarkTrue
  <1>3. Proved(c, m.rebuilds) => Proved(c, m.rebuilds)'
    BY <1>1, ProvedStays
  <1> QED
    BY <1>2, <1>3 DEF MarkTrue

LEMMA DecisionStays ==
    ASSUME IInv, [Next]_vars, NEW c \in Offers, NEW d \in Decision, DecisionTrue(c, d)
    PROVE  DecisionTrue(c, d)'
  <1>1. d.by \in Asks /\ ask[d.by].rebuilds \in Nat
    BY Bounds DEF Decision, IInv, TypeOK, Coroutine
  <1>2. /\ ByItsPress(c, d.by)' /\ ask'[d.by].rebuilds = ask[d.by].rebuilds
        /\ RefEarned(d.by) => RefEarned(d.by)'
    BY <1>1, PressStays DEF DecisionTrue
  <1>3. Proved(c, ask[d.by].rebuilds) => Proved(c, ask[d.by].rebuilds)'
    <2>1. PICK n \in Nat : n = ask[d.by].rebuilds
      BY <1>1
    <2>2. Proved(c, n) => Proved(c, n)'
      BY ProvedStays
    <2> QED
      BY <1>2, <2>1, <2>2 DEF Proved
  <1>4. ~record[c].open => ~record'[c].open
    BY RecordStep DEF IInv, RecordMovesOn, Ahead
  <1> QED
    BY <1>2, <1>3, <1>4 DEF DecisionTrue

LEMMA RowIsTrue ==
    ASSUME IInv, [Next]_vars, NEW c \in Offers, Held(c)'
    PROVE  MarkTrue(c, marks[c])'
  <1> SUFFICES ASSUME NEW m \in Mark, m = marks'[c] PROVE MarkTrue(c, m)'
    BY TypeStep DEF IInv, TypeOK, Held
  <1>1. Held(c) => marks[c] \in Mark /\ MarkTrue(c, marks[c])
    BY DEF IInv, TypeOK, Held, MarksAreTrue
  <1>2. CASE RowKept(c)
    <2>1. Held(c) /\ m = marks[c]
      BY <1>2 DEF RowKept, Held
    <2> QED
      BY <1>1, <2>1, MarkStays
  <1>3. ASSUME NEW p \in Asks, AskStep(p), RowTaken(c, p) PROVE MarkTrue(c, m)'
    <2>1. /\ m.by = p /\ m.rebuilds = ask[p].rebuilds /\ m.base = ask[p].base
          /\ m.state = Requested
      BY <1>3 DEF RowTaken
    <2>2. Begun(p) /\ Covered(p, ask[p].base)
      BY <1>3 DEF IInv, PassesCounted, Counted, Begun, Inside, InSubmit, RowTaken
    <2>3. Onward(p) /\ ask[p].base \in Nat
      BY CountsStep DEF IInv, TypeOK, Coroutine
    <2>4. ByItsPress(c, p)' /\ ask'[p].rebuilds = ask[p].rebuilds
      BY <1>3, <2>3 DEF Onward, ByItsPress, RowTaken, OfferOf, Unmarked
    <2>5. ASSUME Begun(p)' PROVE Covered(p, m.base)'
      BY <2>1, <2>2, <2>3, <2>5 DEF Onward
    <2> QED
      BY <2>1, <2>4, <2>5 DEF MarkTrue, Requested, Done, Unconfirmed
  <1>4. ASSUME NEW p \in Asks, AskStep(p), RowRaised(c, p) PROVE MarkTrue(c, m)'
    <2>1. marks[c] \in Mark /\ marks[c].by = p /\ MarkTrue(c, marks[c])
      BY <1>1, <1>4 DEF RowRaised, HeldBy
    <2>2. /\ m.by = p /\ m.rebuilds = marks[c].rebuilds /\ m.base = ask[p].base
          /\ m.state = marks[c].state
      BY <1>4, <2>1 DEF RowRaised, Mark
    <2>3. Covered(p, ask[p].base) /\ ask[p].base \in Nat
      BY <1>4 DEF IInv, TypeOK, Coroutine, PassesCounted, Counted, Inside, InSubmit, RowRaised
    <2>4. MarkTrue(c, m)
      BY <2>1, <2>2, <2>3 DEF MarkTrue
    <2> QED
      BY <2>4, MarkStays
  <1>5. ASSUME NEW s \in Settlers, RowSettled(c, s) PROVE MarkTrue(c, m)'
    <2>1. PICK d : d = settle[s].does[c]
      OBVIOUS
    <2>2. d \in Decision /\ DecisionTrue(c, d)
      BY <1>5, <2>1 DEF IInv, TypeOK, Settling, RowSettled, MarksAreTrue
    <2>3. marks[c] \in Mark /\ marks[c].by = d.by /\ MarkTrue(c, marks[c])
      BY <1>1, <1>5, <2>1 DEF RowSettled
    <2>4. /\ m.by = d.by /\ m.rebuilds = marks[c].rebuilds /\ m.base = marks[c].base
          /\ m.state = d.verdict
      BY <1>5, <2>1, <2>3, ConstantsAssumption DEF RowSettled, Mark, Held
    <2>5. MarkTrue(c, m)
      BY <2>2, <2>3, <2>4 DEF MarkTrue, DecisionTrue
    <2> QED
      BY <2>5, MarkStays
  <1>6. ~(\E p \in Asks : RowDropped(c, p))
    BY DEF RowDropped, Held
  <1> QED
    BY <1>2, <1>3, <1>4, <1>5, <1>6, RowMoves DEF IInv

(* A decision made now is true: what the copy says has come to pass, and a *)
(* count that has grown by RebuildUnconfirmedAfter has room for            *)
(* OverlapLimit passes that overlapped the submission.                     *)
LEMMA VerdictIsTrue ==
    ASSUME IInv, NEW c \in Offers, NEW m \in Mark, MarkTrue(c, m),
           NEW d, d.by = m.by, d.verdict = Verdict(m, copy[c])
    PROVE  DecisionTrue(c, d)
  <1>1. m.by \in Asks /\ m.base \in Nat /\ m.rebuilds \in Nat /\ ByItsPress(c, m.by)
    BY Bounds DEF Mark, MarkTrue
  <1>2. ASSUME d.verdict = "delete" PROVE ~record[c].open
    <2>1. ~copy[c].open
      BY <1>2 DEF Verdict, Done, Unconfirmed
    <2> QED
      BY <1>1, <2>1 DEF IInv, OffersAreShown, Shown, ByItsPress, Unmarked
  <1>3. ASSUME d.verdict = Done PROVE Proved(c, m.rebuilds)
    <2>1. copy[c].open /\ copy[c].count > m.rebuilds
      BY <1>3 DEF Verdict, Rebuilt, Done, Unconfirmed
    <2>2. copy[c].count \in Nat /\ record[c].count \in Nat
      BY OfferTypes DEF IInv
    <2> QED
      BY <1>1, <2>1, <2>2 DEF IInv, CopyBehind, Proved
  <1>4. ASSUME d.verdict = Unconfirmed PROVE RefEarned(m.by)
    <2>1. reads >= m.base + RebuildUnconfirmedAfter
      BY <1>4 DEF Verdict, LongEnough, Done, Unconfirmed
    <2>2. /\ reads \in Nat /\ since[m.by] \in Nat /\ overlap[m.by] \in Nat
          /\ overlap[m.by] =< OverlapLimit
      BY <1>1 DEF IInv, TypeOK, Feed!FeedTypeOK, PassesCounted, Counted
    <2>3. ASSUME Begun(m.by) PROVE reads =< m.base + since[m.by] + overlap[m.by]
      BY <1>1, <2>2, <2>3 DEF MarkTrue, Covered
    <2> QED
      BY <1>1, <2>1, <2>2, <2>3, Bounds DEF RefEarned, LongAgo
  <1> QED
    BY <1>1, <1>2, <1>3, <1>4 DEF DecisionTrue, MarkTrue

LEMMA MarksAreTrueStep == IInv /\ [Next]_vars => MarksAreTrue'
  <1> SUFFICES ASSUME IInv, [Next]_vars PROVE MarksAreTrue'
    OBVIOUS
  <1>1. ASSUME NEW s \in Settlers, NEW c \in Offers, settle'[s].seen[c] # NoMark
        PROVE  MarkTrue(c, settle[s].seen[c])'
    <2>1. CASE settle'[s].seen[c] = settle[s].seen[c]
      <3>1. PICK m \in Mark : m = settle[s].seen[c] /\ MarkTrue(c, m)
        BY <1>1, <2>1 DEF IInv, TypeOK, Settling, MarksAreTrue
      <3> QED
        BY <2>1, <3>1, MarkStays
    <2>2. CASE settle'[s].seen[c] = marks[c]
      <3>1. PICK m \in Mark : m = marks[c] /\ MarkTrue(c, m)
        BY <1>1, <2>2 DEF IInv, TypeOK, MarksAreTrue, Held
      <3> QED
        BY <2>2, <3>1, MarkStays
    <2>3. settle'[s].seen # NoMarks /\ settle'[s] # SettleIdle
      BY <1>1 DEF NoMarks, SettleIdle
    <2>4. TypeOK
      BY DEF IInv
    <2> QED
      BY <2>1, <2>2, <2>3, <2>4, SettleMoves
  <1>2. ASSUME NEW s \in Settlers, NEW c \in Offers, settle'[s].does[c] # NoMark
        PROVE  DecisionTrue(c, settle[s].does[c])'
    <2>1. CASE settle'[s].does[c] = settle[s].does[c]
      <3>1. PICK d \in Decision : d = settle[s].does[c] /\ DecisionTrue(c, d)
        BY <1>2, <2>1 DEF IInv, TypeOK, Settling, MarksAreTrue
      <3> QED
        BY <2>1, <3>1, DecisionStays
    <2>2. CASE settle'[s].does[c] = DecidedOf(c, settle[s].seen)
      <3>1. PICK m \in Mark : m = settle[s].seen[c] /\ MarkTrue(c, m)
        BY <1>2, <2>2 DEF DecidedOf, IInv, TypeOK, Settling, MarksAreTrue
      <3>2. PICK d \in Decision : d = settle'[s].does[c]
        BY <1>2, TypeStep DEF IInv, TypeOK, Settling
      <3>3. d.by = m.by /\ d.verdict = Verdict(m, copy[c])
        BY <1>2, <2>2, <3>1, <3>2 DEF DecidedOf
      <3>4. DecisionTrue(c, d)
        BY <3>1, <3>3, VerdictIsTrue
      <3> QED
        BY <3>2, <3>4, DecisionStays
    <2>3. settle'[s].does # NoMarks /\ settle'[s] # SettleIdle
      BY <1>2 DEF NoMarks, SettleIdle
    <2>4. TypeOK
      BY DEF IInv
    <2>5. settle'[s].does = [o \in Offers |-> DecidedOf(o, settle[s].seen)]
            => settle'[s].does[c] = DecidedOf(c, settle[s].seen)
      OBVIOUS
    <2> QED
      BY <2>1, <2>2, <2>3, <2>4, <2>5, SettleMoves
  <1> QED
    BY <1>1, <1>2, RowIsTrue DEF MarksAreTrue

LEMMA OffersAreShownStep == IInv /\ [Next]_vars => OffersAreShown'
  <1> SUFFICES ASSUME IInv, [Next]_vars, NEW p \in Asks, ask'[p].phase \notin {"new", "refused"}
               PROVE  Shown(p)'
    BY DEF OffersAreShown
  <1>1. PICK c \in Offers : c = ask[p].offer /\ c = ask'[p].offer
    BY CountsStep DEF IInv, TypeOK, Coroutine, Onward
  <1>2. record[c].open => copy[c].open
    <2>1. CASE ask[p].phase \notin {"new", "refused"}
      BY <1>1, <2>1 DEF IInv, OffersAreShown, Shown
    <2>2. CASE AskStep(p) /\ ask[p].phase \in {"new", "refused"}
      BY <1>1, <2>2, AskMoves DEF IInv, PhaseSteps
    <2>3. ASSUME NEW q \in Asks, AskStep(q), q # p PROVE ask'[p] = ask[p]
      BY <2>3, AskMoves DEF IInv
    <2>4. ~(\E q \in Asks : AskStep(q)) => ask'[p] = ask[p] \/ Inside(p)
      BY OnlyCrashEnds DEF IInv
    <2> QED
      BY <2>1, <2>2, <2>3, <2>4 DEF Inside, InSubmit
  <1>3. record'[c].open => record[c].open
    BY RecordStep DEF IInv, RecordMovesOn, Ahead
  <1> QED
    BY <1>1, <1>2, <1>3, CopyStep DEF IInv, Shown

(* An ask begins to wait with its mark, and goes on as it was.             *)
LEMMA AskingFrom ==
    ASSUME IInv, [Next]_vars, NEW p \in Asks, Asking(p)'
    PROVE  Asking(p) \/ RowTaken(OfferOf(p), p)
  <1>1. CASE ask[p].phase \notin Unmarked
    <2>1. Begun(p)
      BY <1>1, CountsStep DEF IInv, Onward, Asking
    <2>2. ASSUME ask[p].phase = "bus" PROVE ask'[p].phase = "bus"
      <3>1. ~AskStep(p)
        BY <2>2, AskMoves DEF IInv, PhaseSteps
      <3>2. \A q \in Asks : AskStep(q) => ask'[p] = ask[p]
        BY <3>1, AskMoves DEF IInv
      <3>3. ~(\E q \in Asks : AskStep(q)) => ask'[p] = ask[p]
        BY <2>2, OnlyCrashEnds DEF IInv, Inside, InSubmit
      <3> QED
        BY <2>2, <3>2, <3>3
    <2> QED
      BY <1>1, <2>1, <2>2 DEF Asking
  <1>2. CASE ask[p].phase \in Unmarked
    <2>1. ask'[p].phase \notin Unmarked /\ ask'[p] # ask[p]
      BY <1>2 DEF Asking
    <2>2. CASE AskStep(p)
      <3>1. ask[p].phase = "checked" /\ ask'[p].phase = "asked"
        BY <1>2, <2>1, <2>2, AskMoves DEF IInv, PhaseSteps, Unmarked
      <3>2. AskRebuild(p)
        BY <2>2, <3>1 DEF AskStep, Check, Publish, SendFails, FlushDone, DropRebuild, CountRead,
                          SetReadCount
      <3>3. ~Goto(p, "refused")
        BY <3>1, GoesTo DEF IInv, Phases
      <3> QED
        BY <3>1, <3>2, <3>3 DEF AskRebuild, RowTaken, OfferOf, IInv, TypeOK, Coroutine
    <2>3. ASSUME NEW q \in Asks, AskStep(q) PROVE AskStep(p)
      BY <2>1, <2>3, AskMoves DEF IInv
    <2>4. CASE ~(\E q \in Asks : AskStep(q))
      <3>1. Inside(p) /\ ask'[p].phase = "dead"
        BY <2>1, <2>4, OnlyCrashEnds DEF IInv
      <3>2. p \notin published /\ published' = published
        BY <1>2, <2>4, OnlyCrashEnds DEF IInv, PassesCounted, Counted
      <3> QED
        BY <3>1, <3>2 DEF Asking, Begun, Inside, InSubmit
    <2> QED
      BY <2>2, <2>3, <2>4
  <1> QED
    BY <1>1, <1>2

LEMMA AsksWaitStep == IInv /\ [Next]_vars => AsksWait'
  <1> SUFFICES ASSUME IInv, [Next]_vars, NEW p \in Asks, Asking(p)' PROVE Waits(p)'
    BY DEF AsksWait
  <1>1. PICK c \in Offers : c = OfferOf(p) /\ c = OfferOf(p)'
    BY CountsStep DEF IInv, TypeOK, Coroutine, Onward, OfferOf
  <1>2. CASE RowTaken(c, p)
    <2>1. /\ marks'[c] = [by |-> p, rebuilds |-> ask[p].rebuilds, base |-> ask[p].base,
                          state |-> Requested]
      BY <1>2 DEF RowTaken
    <2>2. marks'[c] # NoMark
      <3>1. ask[p].rebuilds \in 0..RebuildCap /\ ask[p].base \in Nat
        BY DEF IInv, TypeOK, Coroutine
      <3>2. marks'[c] \in Mark
        BY <2>1, <3>1 DEF Mark
      <3> QED
        BY <3>2, MarkIsNoMarker
    <2>3. HeldBy(c, p)' /\ marks'[c].state = Requested
      BY <2>1, <2>2 DEF HeldBy, Held
    <2> QED
      BY <1>1, <2>3 DEF Waits
  <1>3. CASE Asking(p)
    <2>1. Waits(p) /\ ask[p].phase \notin Unmarked /\ Begun(p)
      BY <1>3 DEF IInv, AsksWait, Asking
    <2>2. /\ ask'[p].rebuilds = ask[p].rebuilds /\ since'[p] >= since[p]
          /\ since[p] \in Nat /\ since'[p] \in Nat /\ Begun(p)'
      BY <2>1, CountsStep, TypeStep DEF IInv, Onward, TypeOK, Asking, Unmarked
    <2>3. CASE LongAgo(p)
      <3>1. LongAgo(p)'
        BY <2>2, <2>3, Bounds DEF LongAgo
      <3> QED
        BY <3>1 DEF Waits
    <2>4. PICK n \in Nat : n = ask[p].rebuilds
      <3>1. ask[p].rebuilds \in 0..RebuildCap
        BY DEF IInv, TypeOK, Coroutine
      <3> QED
        BY <3>1, Bounds
    <2>5. Proved(c, n) => Waits(p)'
      <3>1. Proved(c, n) => Proved(c, n)'
        BY ProvedStays
      <3> QED
        BY <1>1, <2>2, <2>4, <3>1 DEF Waits, Proved
    <2>6. CASE Proved(c, n)
      BY <2>5, <2>6
    <2>7. CASE HeldBy(c, p) /\ marks[c].state = Requested
      <3>1. marks[c] \in Mark /\ marks[c].by = p
        BY <2>7 DEF IInv, TypeOK, HeldBy, Held
      <3>2. CASE RowKept(c)
        BY <1>1, <2>7, <3>2 DEF RowKept, Waits, HeldBy, Held
      <3>3. ASSUME NEW q \in Asks, RowTaken(c, q) PROVE FALSE
        BY <2>7, <3>3 DEF RowTaken, HeldBy
      <3>4. ASSUME NEW q \in Asks, RowRaised(c, q) PROVE Waits(p)'
        <4>1. /\ marks'[c] = [marks[c] EXCEPT !.base = ask[q].base]
              /\ ask[q].base \in Nat
          BY <3>4 DEF RowRaised, IInv, TypeOK, Coroutine
        <4>2. marks'[c] \in Mark /\ marks'[c].by = p /\ marks'[c].state = Requested
          BY <2>7, <3>1, <4>1 DEF Mark
        <4>3. marks'[c] # NoMark
          BY <4>2, MarkIsNoMarker
        <4> QED
          BY <1>1, <4>2, <4>3 DEF Waits, HeldBy, Held
      <3>5. ASSUME NEW q \in Asks, AskStep(q), RowDropped(c, q) PROVE FALSE
        <4>1. q = p /\ ask[p].phase = "failing"
          BY <3>1, <3>5 DEF RowDropped, HeldBy
        <4>2. ask'[p].phase = "bus"
          BY <3>5, <4>1, AskMoves DEF IInv, PhaseSteps
        <4> QED
          BY <4>2 DEF Asking
      <3>6. ASSUME NEW s \in Settlers, RowSettled(c, s) PROVE Waits(p)'
        <4>1. PICK d \in Decision : d = settle[s].does[c] /\ DecisionTrue(c, d)
          BY <3>6 DEF IInv, TypeOK, Settling, RowSettled, MarksAreTrue
        <4>2. d.by = p /\ d.verdict \in {"delete", Done, Unconfirmed}
          BY <3>1, <3>6, <4>1 DEF RowSettled
        <4>3. CASE d.verdict = "delete"
          BY <2>5, <4>1, <4>3 DEF DecisionTrue, Proved
        <4>4. CASE d.verdict = Done
          BY <2>4, <2>5, <4>1, <4>2, <4>4 DEF DecisionTrue
        <4>5. CASE d.verdict = Unconfirmed
          <5>1. LongAgo(p)
            BY <2>1, <4>1, <4>2, <4>5 DEF DecisionTrue, RefEarned
          <5> QED
            BY <2>3, <5>1
        <4> QED
          BY <4>2, <4>3, <4>4, <4>5
      <3> QED
        BY <3>2, <3>3, <3>4, <3>5, <3>6, RowMoves DEF IInv
    <2> QED
      BY <1>1, <2>1, <2>3, <2>4, <2>6, <2>7 DEF Waits, Proved
  <1> QED
    BY <1>1, <1>2, <1>3, AskingFrom

LEMMA InitInv == Init => IInv
  <1> SUFFICES ASSUME Init PROVE IInv
    OBVIOUS
  <1>1. \A p \in Asks : ask[p].phase = "new"
    BY DEF Init
  <1>2. PassesCounted
    BY <1>1, Bounds DEF Init, PassesCounted, Counted, Begun, Inside, InSubmit, Overlaps
  <1>3. CopyBehind
    BY DEF Init, CopyBehind, Feed!FeedInit, EmptyCopy, Gone
  <1>4. MarksAreTrue
    BY DEF Init, MarksAreTrue, NoMarks, Held, SettleIdle
  <1>5. OffersAreShown /\ AsksWait
    BY <1>1 DEF OffersAreShown, AsksWait, Asking, Unmarked
  <1> QED
    BY <1>2, <1>3, <1>4, <1>5, InitTypeOK DEF IInv

LEMMA InvStep == IInv /\ [Next]_vars => IInv'
  BY TypeStep, CountsStep, CopyStep, MarksAreTrueStep, OffersAreShownStep, AsksWaitStep DEF IInv

-----------------------------------------------------------------------------
(* A page says "Rebuilt." or "The rebuild failed" only of an offer whose   *)
(* record counts more rebuilds than the person was shown.                  *)
THEOREM DoneIsAlwaysProved == Spec => []DoneIsProved
  <1>1. IInv => DoneIsProved
    BY DEF IInv, MarksAreTrue, MarkTrue, Proved, DoneIsProved
  <1> QED
    BY <1>1, InitInv, InvStep, PTL DEF Spec

(* The design promises the passes but one: with one pass able to overlap a *)
(* submission, "can't confirm the rebuild yet" is never said too soon.     *)
THEOREM UnconfirmedOnlyWhenEarned ==
    ASSUME OverlapLimit = 1
    PROVE  Spec => []UnconfirmedIsEarned
  <1>1. IInv => UnconfirmedIsEarned
    BY DEF IInv, MarksAreTrue, MarkTrue, RefEarned, LongAgo, Begun, UnconfirmedIsEarned, Earned
  <1> QED
    BY <1>1, InitInv, InvStep, PTL DEF Spec

(* One rebuild at a time: no second press, settlement, failed submission   *)
(* or crash takes a sent ask's mark before the record, or time, answers it.*)
THEOREM AskStaysHeld ==
    ASSUME OverlapLimit = 1
    PROVE  Spec => []AskIsHeld
  <1>1. ASSUME IInv PROVE AskIsHeld
    <2> SUFFICES ASSUME NEW p \in Asks, SentWell(p)
                 PROVE  \/ HeldBy(OfferOf(p), p) /\ marks[OfferOf(p)].state = Requested
                        \/ record[OfferOf(p)].count > ask[p].rebuilds
                        \/ Earned(p)
                        \/ ~record[OfferOf(p)].open
      BY DEF AskIsHeld
    <2>1. Asking(p)
      BY <1>1 DEF IInv, PassesCounted, Counted, SentWell, Asking, Begun
    <2>2. Waits(p)
      BY <1>1, <2>1 DEF IInv, AsksWait
    <2>3. LongAgo(p) => Earned(p)
      BY DEF LongAgo, Earned
    <2> QED
      BY <2>2, <2>3 DEF Waits
  <1> QED
    BY <1>1, InitInv, InvStep, PTL DEF Spec
=============================================================================
