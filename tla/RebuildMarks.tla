---------------------------- MODULE RebuildMarks ----------------------------
(***************************************************************************)
(* "Rebuild the preview": the rebuild path of backend/answers.py (submit)  *)
(* and the marks of backend/claims.py (ask_rebuild, drop_rebuild,          *)
(* set_read_count, _settle_marks) with backend/app.py (rebuild_line).      *)
(*                                                                         *)
(* A rebuild answers nothing, so it claims nothing: the offer gets a mark  *)
(* holding the rebuild count the copy showed.  The record then tells,      *)
(* pass by pass, whether a rebuild waits for room, finished, or cannot be  *)
(* confirmed; settlements of several pages race to write that down.        *)
(***************************************************************************)
EXTENDS Naturals

CONSTANTS
    Asks,                      \* presses of "Rebuild the preview"; also their marks' generations
    Offers,                    \* merge cards, by request id
    Settlers,                  \* page requests that may settle at the same time
    Polling,                   \* those of pages that stay open
    NoMark,                    \* no row in rebuild_marks
    RebuildCap,                \* cards.REBUILD_CAP
    RebuildUnconfirmedAfter,   \* claims.REBUILD_UNCONFIRMED_AFTER
    OverlapLimit,              \* passes that can overlap one submission, as in AnswerClaims
    MaxReads                   \* bound on the feed's passes, for TLC

ASSUME ConstantsAssumption ==
    /\ NoMark \notin [by : Asks, rebuilds : Nat, base : Nat,
                      state : {"requested", "done", "unconfirmed"}]
    /\ Polling \subseteq Settlers
    /\ RebuildCap \in Nat
    /\ RebuildUnconfirmedAfter \in Nat
    /\ OverlapLimit \in Nat \ {0}
    /\ MaxReads \in Nat

(* What Forge's record says of one offer: preview_rebuilds and             *)
(* rebuild_wanted_at while its card is open.                               *)
Offer == [open : {TRUE}, count : 0..RebuildCap, wanted : BOOLEAN]
Gone == [open |-> FALSE, count |-> 0, wanted |-> FALSE]
Records == [Offers -> Offer \cup {Gone}]
EmptyCopy == [c \in Offers |-> Gone]

VARIABLES
    record, copy, snap, pass, reads, readOk, recent,   \* see FeedPasses
    marks,        \* rebuild_marks: request id -> mark
    ask,          \* press -> its coroutine
    settle,       \* settler -> its progress
    published,    \* history: asks that reached the broker
    since,        \* history: successful passes that began after an ask was published
    eligible,     \* history: asks published before the pass under way began
    overlap       \* history: passes that have overlapped each submission

Feed == INSTANCE FeedPasses

feed == <<copy, snap, pass, reads, readOk, recent>>
history == <<published, since, eligible, overlap>>
vars == <<record, feed, marks, ask, settle, history>>

Requested == "requested"
Done == "done"
Unconfirmed == "unconfirmed"
Mark == [by : Asks, rebuilds : 0..RebuildCap, base : Nat,
         state : {Requested, Done, Unconfirmed}]

InSubmit == {"checked", "asked", "published", "sent", "counting", "failing"}
Coroutine == [phase : InSubmit \cup {"new", "sent_well", "refused", "bus", "dead"},
              offer : Offers, base : Nat, rebuilds : 0..RebuildCap]

(* What a settlement decided for one mark it read: leave it, delete it, or *)
(* give it a new state.                                                    *)
Verdicts == {"leave", "delete", Done, Unconfirmed}
Decision == [by : Asks, verdict : Verdicts]
Settling == [phase : {"idle", "read", "decided"},
             seen : [Offers -> Mark \cup {NoMark}],
             does : [Offers -> Decision \cup {NoMark}]]
NoMarks == [c \in Offers |-> NoMark]
SettleIdle == [phase |-> "idle", seen |-> NoMarks, does |-> NoMarks]

TypeOK ==
    /\ Feed!FeedTypeOK
    /\ marks \in [Offers -> Mark \cup {NoMark}]
    /\ ask \in [Asks -> Coroutine]
    /\ settle \in [Settlers -> Settling]
    /\ published \subseteq Asks
    /\ since \in [Asks -> Nat]
    /\ eligible \subseteq Asks
    /\ overlap \in [Asks -> Nat]

Init ==
    /\ record \in [Offers -> [open : {TRUE}, count : {0}, wanted : {FALSE}]]
    /\ Feed!FeedInit
    /\ marks = NoMarks
    /\ ask \in [Asks -> [phase : {"new"}, offer : Offers, base : {0}, rebuilds : {0}]]
    /\ settle = [s \in Settlers |-> SettleIdle]
    /\ published = {}
    /\ since = [p \in Asks |-> 0]
    /\ eligible = {}
    /\ overlap = [p \in Asks |-> 0]

OfferOf(p) == ask[p].offer
Held(c) == marks[c] # NoMark
HeldBy(c, p) == Held(c) /\ marks[c].by = p
Inside(p) == ask[p].phase \in InSubmit
Goto(p, phase) == ask' = [ask EXCEPT ![p].phase = phase]

-----------------------------------------------------------------------------
(* submit with answer = "rebuild".                                         *)

(* _check and decide: fresh copy, open card, fewer than RebuildCap         *)
(* rebuilds; anything else, a record that cannot be read too, sends        *)
(* nothing.                                                                *)
Check(p) ==
    /\ ask[p].phase = "new"
    /\ \/ LET shown == copy[OfferOf(p)] IN
          /\ Feed!Fresh /\ shown.open /\ shown.count < RebuildCap
          /\ ask' = [ask EXCEPT ![p].phase = "checked", ![p].base = reads, ![p].rebuilds = shown.count]
          /\ overlap' = [overlap EXCEPT ![p] = IF Feed!PassUnderWay THEN 1 ELSE 0]
       \/ Goto(p, "refused") /\ UNCHANGED overlap
    /\ UNCHANGED <<record, feed, marks, settle, published, since, eligible>>

(* Mutant: a mark that waits is not looked for.                            *)
AskRebuildBlind(p) ==
    /\ ask[p].phase = "checked"
    /\ marks' = [marks EXCEPT ![OfferOf(p)] = [by |-> p, rebuilds |-> ask[p].rebuilds,
                                               base |-> ask[p].base, state |-> Requested]]
    /\ Goto(p, "asked")
    /\ UNCHANGED <<record, feed, settle, history>>

(* claims.ask_rebuild, one transaction; answers.db may be unavailable.     *)
AskRebuild(p) ==
    /\ ask[p].phase = "checked"
    /\ LET c == OfferOf(p) IN
       \/ /\ ~(Held(c) /\ marks[c].state = Requested)
          /\ marks' = [marks EXCEPT ![c] = [by |-> p, rebuilds |-> ask[p].rebuilds,
                                            base |-> ask[p].base, state |-> Requested]]
          /\ Goto(p, "asked")
       \/ Goto(p, "refused") /\ UNCHANGED marks
    /\ UNCHANGED <<record, feed, settle, history>>

Publish(p) ==
    /\ ask[p].phase = "asked"
    /\ Goto(p, "published")
    /\ published' = published \cup {p}
    /\ UNCHANGED <<record, feed, marks, settle, since, eligible, overlap>>

(* No connection, or the flush failed after the broker took the message.   *)
SendFails(p) ==
    /\ ask[p].phase \in {"asked", "published"}
    /\ Goto(p, "failing")
    /\ UNCHANGED <<record, feed, marks, settle, history>>

FlushDone(p) ==
    /\ ask[p].phase = "published"
    /\ Goto(p, "sent")
    /\ UNCHANGED <<record, feed, marks, settle, history>>

(* claims.drop_rebuild, by generation; answers.db may refuse.              *)
DropRebuild(p) ==
    /\ ask[p].phase = "failing"
    /\ \/ marks' = IF HeldBy(OfferOf(p), p) THEN [marks EXCEPT ![OfferOf(p)] = NoMark] ELSE marks
       \/ UNCHANGED marks
    /\ Goto(p, "bus")
    /\ UNCHANGED <<record, feed, settle, history>>

CountRead(p) ==
    /\ ask[p].phase = "sent"
    /\ ask' = [ask EXCEPT ![p].phase = "counting", ![p].base = reads]
    /\ UNCHANGED <<record, feed, marks, settle, history>>

(* claims.set_read_count(table="rebuild_marks"); skipped when a database fails. *)
SetReadCount(p) ==
    /\ ask[p].phase = "counting"
    /\ \/ marks' = IF HeldBy(OfferOf(p), p)
                   THEN [marks EXCEPT ![OfferOf(p)].base = ask[p].base] ELSE marks
       \/ UNCHANGED marks
    /\ Goto(p, "sent_well")
    /\ UNCHANGED <<record, feed, settle, history>>

BoardCrash ==
    /\ \E p \in Asks : Inside(p)
    /\ ask' = [p \in Asks |-> IF Inside(p) THEN [ask[p] EXCEPT !.phase = "dead"] ELSE ask[p]]
    /\ settle' = [s \in Settlers |-> SettleIdle]
    /\ UNCHANGED <<record, feed, marks, history>>

-----------------------------------------------------------------------------
(* claims.settle, its marks.                                               *)

SettleRead(s) ==
    /\ settle[s].phase = "idle"
    /\ \E c \in Offers : Held(c)
    /\ settle' = [settle EXCEPT ![s] = [SettleIdle EXCEPT !.phase = "read", !.seen = marks]]
    /\ UNCHANGED <<record, feed, marks, ask, history>>

(* _settle_marks for one mark, against one snapshot of the record.         *)
RebuiltAnyCount(m, shown) == shown.count >= m.rebuilds             \* mutant
Rebuilt(m, shown) == shown.count > m.rebuilds
LongEnoughTooSoon(m, shown) ==                                     \* mutant
    ~shown.wanted /\ Feed!Fresh /\ reads + 1 >= m.base + RebuildUnconfirmedAfter
LongEnough(m, shown) ==
    ~shown.wanted /\ Feed!Fresh /\ reads >= m.base + RebuildUnconfirmedAfter

(* Mutant: a mark that cannot be confirmed is never looked at again.       *)
VerdictRequestedOnly(m, shown) ==
    IF ~shown.open THEN "delete"
    ELSE IF m.state # Requested THEN "leave"
    ELSE IF Rebuilt(m, shown) THEN Done
    ELSE IF LongEnough(m, shown) THEN Unconfirmed ELSE "leave"

Verdict(m, shown) ==
    IF ~shown.open THEN "delete"
    ELSE IF m.state = Done THEN "leave"
    ELSE IF Rebuilt(m, shown) THEN Done
    ELSE IF m.state = Requested /\ LongEnough(m, shown) THEN Unconfirmed
    ELSE "leave"

SettleDecide(s) ==
    /\ settle[s].phase = "read"
    /\ LET seen == settle[s].seen
           does == [c \in Offers |-> IF seen[c] = NoMark THEN NoMark
                                     ELSE [by |-> seen[c].by, verdict |-> Verdict(seen[c], copy[c])]]
           idle == \A c \in Offers : does[c] = NoMark \/ does[c].verdict = "leave"
       IN settle' = [settle EXCEPT ![s] =
                        IF idle THEN SettleIdle
                        ELSE [SettleIdle EXCEPT !.phase = "decided", !.does = does]]
    /\ UNCHANGED <<record, feed, marks, ask, history>>

(* Written only while the mark holds the generation inspected.             *)
Settled(c, does) ==
    IF ~Held(c) \/ does = NoMark THEN marks[c]
    ELSE IF does.by # marks[c].by \/ does.verdict = "leave" THEN marks[c]
    ELSE IF does.verdict = "delete" THEN NoMark
    ELSE [marks[c] EXCEPT !.state = does.verdict]

SettleWrite(s) ==
    /\ settle[s].phase = "decided"
    /\ marks' = [c \in Offers |-> Settled(c, settle[s].does[c])]
    /\ settle' = [settle EXCEPT ![s] = SettleIdle]
    /\ UNCHANGED <<record, feed, ask, history>>

SettleFails(s) ==
    /\ settle[s].phase # "idle"
    /\ settle' = [settle EXCEPT ![s] = SettleIdle]
    /\ UNCHANGED <<record, feed, marks, ask, history>>

-----------------------------------------------------------------------------
(* Forge, outside src/.  It rebuilds for any door, after waiting for room  *)
(* or not, successfully or not; and the card closes.                       *)
ForgeWaitsForRoom(c) ==
    /\ record[c].open
    /\ record' = [record EXCEPT ![c].wanted = ~@]
    /\ UNCHANGED <<feed, marks, ask, settle, history>>

ForgeRebuilds(c) ==
    /\ record[c].open
    /\ record[c].count < RebuildCap
    /\ record' = [record EXCEPT ![c].count = @ + 1, ![c].wanted = FALSE]
    /\ UNCHANGED <<feed, marks, ask, settle, history>>

ForgeCloses(c) ==
    /\ record[c].open
    /\ record' = [record EXCEPT ![c] = Gone]
    /\ UNCHANGED <<feed, marks, ask, settle, history>>

(* The feed, with what its passes mean for the history (see AnswerClaims). *)
PassBegin ==
    /\ reads < MaxReads                                              \* bound
    /\ \A p \in Asks : Inside(p) => overlap[p] < OverlapLimit
    /\ Feed!PassBegin
    /\ overlap' = [p \in Asks |-> IF Inside(p) THEN overlap[p] + 1 ELSE overlap[p]]
    /\ eligible' = published
    /\ UNCHANGED <<record, marks, ask, settle, published, since>>

PassStamp ==
    /\ Feed!PassStamp
    /\ since' = [p \in Asks |-> IF p \in eligible THEN since[p] + 1 ELSE since[p]]
    /\ UNCHANGED <<record, marks, ask, settle, published, eligible, overlap>>

FeedOther ==
    /\ \/ Feed!PassRead \/ Feed!PassFail \/ Feed!PassWrite \/ Feed!PassAbandon
       \/ Feed!FeedStop \/ Feed!FeedStart \/ Feed!CopyAges
    /\ UNCHANGED <<record, marks, ask, settle, history>>

AskStep(p) ==
    \/ Check(p) \/ AskRebuild(p) \/ Publish(p) \/ SendFails(p) \/ FlushDone(p)
    \/ DropRebuild(p) \/ CountRead(p) \/ SetReadCount(p)
SettleStep(s) == SettleRead(s) \/ SettleDecide(s) \/ SettleWrite(s) \/ SettleFails(s)

Next ==
    \/ \E p \in Asks : AskStep(p)
    \/ \E s \in Settlers : SettleStep(s)
    \/ BoardCrash
    \/ \E c \in Offers : ForgeWaitsForRoom(c) \/ ForgeRebuilds(c) \/ ForgeCloses(c)
    \/ PassBegin \/ PassStamp \/ FeedOther

Spec == Init /\ [][Next]_vars

-----------------------------------------------------------------------------
(* The ask reached the broker and its coroutine has not said otherwise.    *)
SentWell(p) == p \in published /\ ask[p].phase \notin {"failing", "bus"}

(* The passes the design promises before "can't confirm": every counted    *)
(* pass but the one that may straddle the send.                            *)
Earned(p) == since[p] + 1 >= RebuildUnconfirmedAfter

(* app.rebuild_line says "can't confirm the rebuild yet" of an ask that    *)
(* was sent only after three successful passes that began after it.        *)
UnconfirmedIsEarned ==
    \A c \in Offers :
        Held(c) /\ marks[c].state = Unconfirmed /\ marks[c].by \in published
            => Earned(marks[c].by)

(* One rebuild at a time: an ask that was sent keeps its mark "requested", *)
(* and a second press is ignored, until a rebuild beyond the count it saw  *)
(* has finished, the passes went by, or the card closed, whatever two      *)
(* settlements decide at once about marks that change under them.          *)
AskIsHeld ==
    \A p \in Asks :
        SentWell(p) => LET c == OfferOf(p) IN
            \/ HeldBy(c, p) /\ marks[c].state = Requested
            \/ record[c].count > ask[p].rebuilds
            \/ Earned(p)
            \/ ~record[c].open

(* "Rebuilt." or "The rebuild failed" is said only when Forge's own record *)
(* counts more rebuilds of the offer than the person was shown.            *)
DoneIsProved ==
    \A c \in Offers :
        Held(c) /\ marks[c].state = Done /\ record[c].open
            => record[c].count > marks[c].rebuilds

-----------------------------------------------------------------------------
(* A page that stays open polls, so its settlements follow one another and *)
(* again and again reach their end; other pages may come and go.           *)
Fairness ==
    \A s \in Polling : /\ WF_vars(SettleRead(s))
                       /\ SF_vars(SettleDecide(s))
                       /\ SF_vars(SettleWrite(s))
FairSpec == Spec /\ Fairness

(* The copy shows a rebuild finished since the mark's count.               *)
Finished(c, p) == HeldBy(c, p) /\ copy[c].open /\ copy[c].count > marks[c].rebuilds

(* A finished rebuild is noticed even after "can't confirm", and even when *)
(* a slower settlement overwrites what a quicker one wrote.                *)
FinishedIsNoticed ==
    \A c \in Offers, p \in Asks :
        Finished(c, p) ~> (~Finished(c, p) \/ marks[c].state = Done)
=============================================================================
