---------------------------- MODULE AnswerClaims ----------------------------
(***************************************************************************)
(* Answering the factory's cards from the dashboard: backend/answers.py    *)
(* (submit), backend/claims.py (the claim store and its settlement) and    *)
(* the feed's counted passes they rely on.                                 *)
(*                                                                         *)
(* A press runs submit once: check one snapshot of the copy, claim the     *)
(* request id, publish and flush on the bus, then read the feed's count    *)
(* and move the claim's base up to it.  Every one of those is a step of    *)
(* its own, interleaved with other presses, with the feed's passes, with   *)
(* Forge deciding, and with any page that settles the claims.              *)
(***************************************************************************)
EXTENDS Naturals, FiniteSets

CONSTANTS
    Presses,           \* presses of an answer button; a press is also its claim's generation
    Cards,             \* request ids
    Subject,           \* [Cards -> subjects]: attempts at one question share kind and token
    SlackOnly,         \* the cards shown open that the dashboard may not answer
    Settlers,          \* page requests that may settle at the same time
    NoClaim,           \* no row in answer_claims
    NotRecordedAfter,  \* claims.NOT_RECORDED_AFTER
    OverlapLimit,      \* passes that can overlap one submission (see PassBegin)
    MaxReads,          \* bound on the feed's passes, for TLC
    MaxRebuilds        \* bound on deletions of readmodel.db, for TLC

ASSUME ConstantsAssumption ==
    /\ NoClaim \notin [by : Presses, base : Nat, state : {"waiting", "not_recorded"}]
    /\ NoClaim \notin Presses
    /\ NotRecordedAfter \in Nat
    /\ OverlapLimit \in Nat \ {0}
    /\ MaxReads \in Nat
    /\ MaxRebuilds \in Nat
    /\ SlackOnly \subseteq Cards

CardState == {"absent", "open", "closed"}
Records == [Cards -> CardState]
EmptyCopy == [c \in Cards |-> "absent"]

VARIABLES
    record, copy, snap, pass, reads, readOk, recent,   \* see FeedPasses
    store,        \* answer_claims: request id -> claim
    press,        \* press -> its coroutine
    outcome,      \* press -> Outcome.code
    inbox,        \* answers the broker has passed on and Forge has not handled
    settle,       \* settler -> its progress
    rebuilds,     \* deletions of readmodel.db so far
    published,    \* history: presses whose answer reached the broker
    since,        \* history: successful passes that began after a press's answer was published
    eligible,     \* history: presses published before the pass under way began
    overlap       \* history: passes that have overlapped each press's submission

Feed == INSTANCE FeedPasses

boardVars == <<store, press, outcome, inbox, settle>>
history == <<published, since, eligible, overlap>>
vars == <<record, copy, snap, pass, reads, readOk, recent,
          store, press, outcome, inbox, settle, rebuilds,
          published, since, eligible, overlap>>

Waiting == "waiting"
NotRecorded == "not_recorded"
Claim == [by : Presses, base : Nat, state : {Waiting, NotRecorded}]

(* Where a coroutine is.  "checked" .. "counting" are inside submit.       *)
PressPhases == {"new", "checked", "claimed", "published", "sent", "counting",
                "failing", "done", "dead"}
InSubmit == {"checked", "claimed", "published", "sent", "counting", "failing"}
Codes == {"", "sent", "taken", "already", "moved", "gone", "stale", "bus",
          "refused", "slack", "cant_save"}

Coroutine == [phase : PressPhases, card : Cards, base : Nat]

SettleIdle == [phase |-> "idle", seen |-> [c \in Cards |-> NoClaim], del |-> {}, upd |-> {}]
RowRef == Cards \X Presses
Settling == [phase : {"idle", "read", "decided"}, seen : [Cards -> Claim \cup {NoClaim}],
             del : SUBSET RowRef, upd : SUBSET RowRef]

TypeOK ==
    /\ Feed!FeedTypeOK
    /\ store \in [Cards -> Claim \cup {NoClaim}]
    /\ press \in [Presses -> Coroutine]
    /\ outcome \in [Presses -> Codes]
    /\ inbox \subseteq Presses
    /\ settle \in [Settlers -> Settling]
    /\ rebuilds \in Nat
    /\ published \subseteq Presses
    /\ since \in [Presses -> Nat]
    /\ eligible \subseteq Presses
    /\ overlap \in [Presses -> Nat]

(* Forge asks a question again only once the last attempt is closed.       *)
OneOpenAttempt ==
    \A c, d \in Cards :
        c # d /\ Subject[c] = Subject[d] => ~(record[c] = "open" /\ record[d] = "open")

Init ==
    /\ record \in [Cards -> {"absent", "open"}]
    /\ OneOpenAttempt
    /\ Feed!FeedInit
    /\ store = [c \in Cards |-> NoClaim]
    /\ press \in [Presses -> [phase : {"new"}, card : Cards, base : {0}]]
    /\ outcome = [p \in Presses |-> ""]
    /\ inbox = {}
    /\ settle = [s \in Settlers |-> SettleIdle]
    /\ rebuilds = 0
    /\ published = {}
    /\ since = [p \in Presses |-> 0]
    /\ eligible = {}
    /\ overlap = [p \in Presses |-> 0]

CardOf(p) == press[p].card
Held(c) == store[c] # NoClaim
HeldBy(c, p) == Held(c) /\ store[c].by = p
Inside(p) == press[p].phase \in InSubmit
OpenNow(c) == copy[c] = "open"

Goto(p, phase) == press' = [press EXCEPT ![p].phase = phase]
Ends(p, code) ==
    /\ Goto(p, "done")
    /\ outcome' = [outcome EXCEPT ![p] = code]

-----------------------------------------------------------------------------
(* answers._check and decide, in one snapshot of readmodel.db.             *)

(* The current open card of the same kind and subject, whatever its id.    *)
Newer(c) == {d \in Cards : Subject[d] = Subject[c] /\ OpenNow(d)}

CheckPasses(p) ==
    /\ Feed!Fresh
    /\ OpenNow(CardOf(p))
    /\ CardOf(p) \notin SlackOnly
    /\ press' = [press EXCEPT ![p].phase = "checked", ![p].base = reads]
    /\ overlap' = [overlap EXCEPT ![p] = IF Feed!PassUnderWay THEN 1 ELSE 0]
    /\ UNCHANGED outcome

(* Mutant: every card that is not open counts as answered.                 *)
CheckCodeAlready(c) ==
    {"stale"} \cup (IF ~Feed!Fresh THEN {} ELSE IF OpenNow(c) THEN {"refused"} ELSE {"already"})

(* Nothing is sent: the record is too old or could not be read, or it said *)
(* why, or decide refused the note.                                        *)
CheckCode(c) ==
    {"stale"} \cup
    IF ~Feed!Fresh THEN {}
    ELSE IF OpenNow(c) THEN (IF c \in SlackOnly THEN {"slack"} ELSE {"refused"})
    ELSE IF Newer(c) # {} THEN {"moved"}
    ELSE IF copy[c] = "closed" THEN {"already"} ELSE {"gone"}

CheckRefuses(p) ==
    /\ \E code \in CheckCode(CardOf(p)) : Ends(p, code)
    /\ UNCHANGED overlap

Check(p) ==
    /\ press[p].phase = "new"
    /\ CheckPasses(p) \/ CheckRefuses(p)
    /\ UNCHANGED <<record, copy, snap, pass, reads, readOk, recent, store, inbox,
                   settle, rebuilds, published, since, eligible>>

(* Mutant: the claim is written without looking for one that waits.        *)
ClaimCardBlind(p) ==
    /\ press[p].phase = "checked"
    /\ store' = [store EXCEPT ![CardOf(p)] = [by |-> p, base |-> press[p].base, state |-> Waiting]]
    /\ Goto(p, "claimed")
    /\ UNCHANGED <<record, copy, snap, pass, reads, readOk, recent, outcome, inbox, settle,
                   rebuilds, published, since, eligible, overlap>>

(* claims.claim: one transaction.  A waiting claim turns the press away;   *)
(* anything else (no row, or one marked not recorded) is replaced.         *)
ClaimCard(p) ==
    /\ press[p].phase = "checked"
    /\ LET c == CardOf(p) IN
       \/ /\ Held(c) /\ store[c].state = Waiting
          /\ Ends(p, "taken")
          /\ UNCHANGED store
       \/ /\ ~(Held(c) /\ store[c].state = Waiting)
          /\ store' = [store EXCEPT ![c] = [by |-> p, base |-> press[p].base, state |-> Waiting]]
          /\ Goto(p, "claimed")
          /\ UNCHANGED outcome
       \/ /\ Ends(p, "cant_save")      \* answers.db could not be written
          /\ UNCHANGED store
    /\ UNCHANGED <<record, copy, snap, pass, reads, readOk, recent, inbox, settle,
                   rebuilds, published, since, eligible, overlap>>

(* The broker takes the message: from here Forge may act on it.            *)
Publish(p) ==
    /\ press[p].phase = "claimed"
    /\ Goto(p, "published")
    /\ inbox' = inbox \cup {p}
    /\ published' = published \cup {p}
    /\ UNCHANGED <<record, copy, snap, pass, reads, readOk, recent, store, outcome,
                   settle, rebuilds, since, eligible, overlap>>

(* The connection could not be made, or died before the broker took it.    *)
ConnectFails(p) ==
    /\ press[p].phase = "claimed"
    /\ Goto(p, "failing")
    /\ UNCHANGED <<record, copy, snap, pass, reads, readOk, recent, store, outcome,
                   inbox, settle, rebuilds, history>>

FlushDone(p) ==
    /\ press[p].phase = "published"
    /\ Goto(p, "sent")
    /\ UNCHANGED <<record, copy, snap, pass, reads, readOk, recent, store, outcome,
                   inbox, settle, rebuilds, history>>

(* The flush timed out, or the connection died, after the broker took it.  *)
FlushFails(p) ==
    /\ press[p].phase = "published"
    /\ Goto(p, "failing")
    /\ UNCHANGED <<record, copy, snap, pass, reads, readOk, recent, store, outcome,
                   inbox, settle, rebuilds, history>>

(* claims.release, by generation; the outcome is the same when answers.db  *)
(* refuses the delete.                                                     *)
Release(p) ==
    /\ press[p].phase = "failing"
    /\ \/ store' = IF HeldBy(CardOf(p), p)
                   THEN [store EXCEPT ![CardOf(p)] = NoClaim] ELSE store
       \/ UNCHANGED store
    /\ Ends(p, "bus")
    /\ UNCHANGED <<record, copy, snap, pass, reads, readOk, recent, inbox, settle,
                   rebuilds, history>>

(* Mutant: the passes to wait for are added to the count that is kept.     *)
CountReadAhead(p) ==
    /\ press[p].phase = "sent"
    /\ press' = [press EXCEPT ![p].phase = "counting", ![p].base = reads + NotRecordedAfter]
    /\ UNCHANGED <<record, copy, snap, pass, reads, readOk, recent, store, outcome,
                   inbox, settle, rebuilds, history>>

(* answers._read_count just after the send.                                *)
CountRead(p) ==
    /\ press[p].phase = "sent"
    /\ press' = [press EXCEPT ![p].phase = "counting", ![p].base = reads]
    /\ UNCHANGED <<record, copy, snap, pass, reads, readOk, recent, store, outcome,
                   inbox, settle, rebuilds, history>>

(* claims.set_read_count, by generation; skipped when a database fails.    *)
SetReadCount(p) ==
    /\ press[p].phase = "counting"
    /\ \/ store' = IF HeldBy(CardOf(p), p)
                   THEN [store EXCEPT ![CardOf(p)].base = press[p].base] ELSE store
       \/ UNCHANGED store
    /\ Ends(p, "sent")
    /\ UNCHANGED <<record, copy, snap, pass, reads, readOk, recent, inbox, settle,
                   rebuilds, history>>

(* The board's process ends: every coroutine and page request goes with    *)
(* it; answers.db and readmodel.db stay.                                   *)
BoardCrash ==
    /\ \E p \in Presses : Inside(p)
    /\ press' = [p \in Presses |-> IF Inside(p) THEN [press[p] EXCEPT !.phase = "dead"] ELSE press[p]]
    /\ settle' = [s \in Settlers |-> SettleIdle]
    /\ UNCHANGED <<record, copy, snap, pass, reads, readOk, recent, store, outcome,
                   inbox, rebuilds, history>>

-----------------------------------------------------------------------------
(* claims.settle: three steps, each in its own connection.                 *)

SettleRead(s) ==
    /\ settle[s].phase = "idle"
    /\ \E c \in Cards : Held(c)
    /\ settle' = [settle EXCEPT ![s] = [SettleIdle EXCEPT !.phase = "read", !.seen = store]]
    /\ UNCHANGED <<record, copy, snap, pass, reads, readOk, recent, store, press,
                   outcome, inbox, rebuilds, history>>

(* Mutants: rows named by card alone; claims cleared while the feed is     *)
(* stopped; claims marked one pass too soon, or one too late.              *)
RefsByCard(seen, S) == S
ToDeleteWhenStale(seen) ==
    {<<c, seen[c].by>> : c \in {d \in Cards : seen[d] # NoClaim /\ (~OpenNow(d) \/ ~Feed!Fresh)}}
MarkedWith(seen, enough(_)) ==
    {<<c, seen[c].by>> : c \in {d \in Cards : /\ seen[d] # NoClaim /\ OpenNow(d)
                                             /\ seen[d].state = Waiting /\ Feed!Fresh
                                             /\ enough(seen[d].base)}}
ToMarkTooSoon(seen) == MarkedWith(seen, LAMBDA base : reads + 1 >= base + NotRecordedAfter)
ToMarkTooLate(seen) == MarkedWith(seen, LAMBDA base : reads > base + NotRecordedAfter)

(* _settle_claims over the rows read and one snapshot of the record.       *)
Refs(seen, S) == {<<c, seen[c].by>> : c \in S}
ToDelete(seen) == Refs(seen, {c \in Cards : seen[c] # NoClaim /\ ~OpenNow(c)})
ToMark(seen) ==
    Refs(seen, {c \in Cards : /\ seen[c] # NoClaim
                              /\ OpenNow(c)
                              /\ seen[c].state = Waiting
                              /\ Feed!Fresh
                              /\ reads >= seen[c].base + NotRecordedAfter})

SettleDecide(s) ==
    /\ settle[s].phase = "read"
    /\ LET del == ToDelete(settle[s].seen)
           upd == ToMark(settle[s].seen)
       IN settle' = [settle EXCEPT ![s] =
                        IF del = {} /\ upd = {} THEN SettleIdle
                        ELSE [SettleIdle EXCEPT !.phase = "decided", !.del = del, !.upd = upd]]
    /\ UNCHANGED <<record, copy, snap, pass, reads, readOk, recent, store, press,
                   outcome, inbox, rebuilds, history>>

(* One transaction; a row is touched only while it holds the generation    *)
(* that was inspected.                                                     *)
Settled(c, s) ==
    IF Held(c) /\ <<c, store[c].by>> \in settle[s].del THEN NoClaim
    ELSE IF Held(c) /\ <<c, store[c].by>> \in settle[s].upd
         THEN [store[c] EXCEPT !.state = NotRecorded]
    ELSE store[c]

SettleWrite(s) ==
    /\ settle[s].phase = "decided"
    /\ store' = [c \in Cards |-> Settled(c, s)]
    /\ settle' = [settle EXCEPT ![s] = SettleIdle]
    /\ UNCHANGED <<record, copy, snap, pass, reads, readOk, recent, press, outcome,
                   inbox, rebuilds, history>>

(* readmodel.db or answers.db could not be used: the page renders anyway.  *)
SettleFails(s) ==
    /\ settle[s].phase # "idle"
    /\ settle' = [settle EXCEPT ![s] = SettleIdle]
    /\ UNCHANGED <<record, copy, snap, pass, reads, readOk, recent, store, press,
                   outcome, inbox, rebuilds, history>>

-----------------------------------------------------------------------------
(* Forge, outside src/: first answer wins, it may refuse or never see an   *)
(* answer, cards open, and close through its other doors.                  *)

ForgeCloses(c) ==
    /\ record[c] = "open"
    /\ record' = [record EXCEPT ![c] = "closed"]

ForgeRecords(p) ==
    /\ p \in inbox
    /\ ForgeCloses(CardOf(p))
    /\ inbox' = inbox \ {p}
    /\ UNCHANGED <<copy, snap, pass, reads, readOk, recent, store, press, outcome,
                   settle, rebuilds, history>>

ForgeRefuses(p) ==
    /\ p \in inbox
    /\ inbox' = inbox \ {p}
    /\ UNCHANGED <<record, copy, snap, pass, reads, readOk, recent, store, press,
                   outcome, settle, rebuilds, history>>

ForgeOpens(c) ==
    /\ record[c] = "absent"
    /\ record' = [record EXCEPT ![c] = "open"]
    /\ OneOpenAttempt'
    /\ UNCHANGED <<copy, snap, pass, reads, readOk, recent, boardVars, rebuilds, history>>

ClosedElsewhere(c) ==
    /\ ForgeCloses(c)
    /\ UNCHANGED <<copy, snap, pass, reads, readOk, recent, boardVars, rebuilds, history>>

-----------------------------------------------------------------------------
(* The feed's steps, with what they mean for the history.                  *)

(* A submission lasts at most a busy wait (3 s), a connect (5 s) and a     *)
(* flush (5 s), less than the 15 s the feed sleeps after a pass, so one    *)
(* pass at most overlaps it: OverlapLimit is 1.  A feed that starts does   *)
(* not sleep between its boot pass and the first pass of its loop          *)
(* (__main__._run), so for a submission that meets a start it is 2.        *)
PassBegin ==
    /\ reads < MaxReads                                              \* bound
    /\ \A p \in Presses : Inside(p) => overlap[p] < OverlapLimit
    /\ Feed!PassBegin
    /\ overlap' = [p \in Presses |-> IF Inside(p) THEN overlap[p] + 1 ELSE overlap[p]]
    /\ eligible' = published
    /\ UNCHANGED <<record, boardVars, rebuilds, published, since>>

PassStamp ==
    /\ Feed!PassStamp
    /\ since' = [p \in Presses |-> IF p \in eligible THEN since[p] + 1 ELSE since[p]]
    /\ UNCHANGED <<record, boardVars, rebuilds, published, eligible, overlap>>

FeedOther ==
    /\ \/ Feed!PassRead \/ Feed!PassFail \/ Feed!PassWrite \/ Feed!PassAbandon
       \/ Feed!FeedStop \/ Feed!FeedStart \/ Feed!CopyAges
    /\ UNCHANGED <<record, boardVars, rebuilds, history>>

StoreRebuilt ==
    /\ rebuilds < MaxRebuilds                                        \* bound
    /\ Feed!StoreRebuilt
    /\ rebuilds' = rebuilds + 1
    /\ UNCHANGED <<record, boardVars, history>>

-----------------------------------------------------------------------------
PressStep(p) ==
    \/ Check(p) \/ ClaimCard(p) \/ Publish(p) \/ ConnectFails(p) \/ FlushDone(p)
    \/ FlushFails(p) \/ Release(p) \/ CountRead(p) \/ SetReadCount(p)

SettleStep(s) == SettleRead(s) \/ SettleDecide(s) \/ SettleWrite(s) \/ SettleFails(s)

ForgeStep ==
    \/ \E p \in Presses : ForgeRecords(p) \/ ForgeRefuses(p)
    \/ \E c \in Cards : ForgeOpens(c) \/ ClosedElsewhere(c)

FeedStep == PassBegin \/ PassStamp \/ FeedOther \/ StoreRebuilt

Next ==
    \/ \E p \in Presses : PressStep(p)
    \/ \E s \in Settlers : SettleStep(s)
    \/ BoardCrash
    \/ ForgeStep
    \/ FeedStep

Spec == Init /\ [][Next]_vars

-----------------------------------------------------------------------------
(* Safety.                                                                 *)

(* An answer that reached the broker and that the person was not told had  *)
(* failed.                                                                 *)
SentWell(p) == p \in published /\ press[p].phase # "failing" /\ outcome[p] # "bus"

(* Two successful passes that began after the answer was published.        *)
Earned(p) == since[p] >= 2

(* claims.py promises "not recorded" only once the card is still open      *)
(* after two successful feed passes that began after the answer was sent,  *)
(* whatever steps of the send, of a settlement and of the feed interleave. *)
NotRecordedIsEarned ==
    \A c \in Cards :
        (Held(c) /\ store[c].state = NotRecorded /\ store[c].by \in published)
            => Earned(store[c].by)

(* Why NotRecordedIsEarned holds, as an invariant that is preserved step   *)
(* by step: since a count was taken, the feed has counted no more passes   *)
(* than those that began after the answer was published and those that     *)
(* overlapped the submission; so a count that has grown by                 *)
(* NotRecordedAfter leaves two of the first kind.                          *)
Begun(p) == Inside(p) \/ p \in published
Overlaps(p) == Feed!PassUnderWay /\ p \notin eligible
Covered(p, base) == reads + (IF Overlaps(p) THEN 1 ELSE 0) =< base + since[p] + overlap[p]
RowCovered(row) == /\ press[row.by].phase # "new"
                   /\ Begun(row.by) => Covered(row.by, row.base)
RefEarned(q) == /\ press[q].phase # "new"
                /\ Begun(q) => Earned(q)

OverlapCounted ==
    /\ eligible \subseteq published
    /\ \A p \in Presses : /\ overlap[p] =< OverlapLimit
                          /\ p \in published => press[p].phase # "new"
                          /\ Begun(p) /\ Overlaps(p) => overlap[p] >= 1
CountsCovered ==
    /\ \A p \in Presses : Inside(p) => Covered(p, press[p].base)
    /\ \A c \in Cards : Held(c) => RowCovered(store[c])
    /\ \A s \in Settlers, c \in Cards :
          settle[s].seen[c] # NoClaim => RowCovered(settle[s].seen[c])
MarksEarned ==
    /\ \A c \in Cards : Held(c) /\ store[c].state = NotRecorded => RefEarned(store[c].by)
    /\ \A s \in Settlers : \A ref \in settle[s].upd : RefEarned(ref[2])

PassesCounted == OverlapCounted /\ CountsCovered /\ MarksEarned

(* A sent answer keeps its claim, so the card stays shut to a second       *)
(* press, until Forge's record closed the card or the two passes went by:  *)
(* no release, settlement or later claim of another press takes it away.   *)
SentAnswerIsHeld ==
    \A p \in Presses :
        SentWell(p) => \/ HeldBy(CardOf(p), p)
                       \/ record[CardOf(p)] = "closed"
                       \/ Earned(p)

(* The count behind a claim never falls behind the passes that went by, so *)
(* a card that stays open is declared unrecorded within OverlapLimit       *)
(* passes of the promised two or three and never waits on for good.        *)
CountKeepsUp ==
    \A c \in Cards :
        Held(c) => reads + OverlapLimit >= store[c].base + since[store[c].by]

(* While the board's copy shows a card open, at most one coroutine is      *)
(* between its claim and the end of its send for that card: two presses    *)
(* can only both be sending when the card has already closed.              *)
OneSenderPerOpenCard ==
    \A p, q \in Presses :
        /\ p # q
        /\ CardOf(p) = CardOf(q)
        /\ {press[p].phase, press[q].phase} \subseteq {"claimed", "published"}
        => ~OpenNow(CardOf(p))

(* A person told "already answered" is told the truth about Forge's own    *)
(* record, not about a copy that lags, was abandoned half way through a    *)
(* pass, or was rebuilt from nothing.                                      *)
AlreadyIsTrue ==
    \A p \in Presses : outcome[p] = "already" => record[CardOf(p)] = "closed"

(* claims.py: "only one answer is ever sent from the dashboard".           *)
OnlyOneAnswerSent ==
    \A p, q \in Presses :
        /\ p # q
        /\ CardOf(p) = CardOf(q)
        /\ SentWell(p) /\ SentWell(q)
        => Earned(p) \/ Earned(q)

(* claims.py: "a stopped feed never clears a claim".  A settlement removes *)
(* a claim only when Forge's own record has closed the card.               *)
ClearedOnlyByTheRecord ==
    [][\A s \in Settlers, c \in Cards :
           (SettleWrite(s) /\ Held(c) /\ store'[c] = NoClaim) => record[c] = "closed"]_vars

-----------------------------------------------------------------------------
(* Refinement: with the steps of submit, of a settlement and of the feed   *)
(* all interleaved, the claim store is the lease OneAnswer describes.      *)
Lease == INSTANCE OneAnswer WITH
    Takers <- Presses,
    Things <- Cards,
    None <- NoClaim,
    Enough <- 2,
    holder <- [c \in Cards |-> IF Held(c) THEN store[c].by ELSE NoClaim],
    lapsed <- {c \in Cards : Held(c) /\ store[c].state = NotRecorded},
    closed <- {c \in Cards : record[c] = "closed"},
    sent <- published,
    failed <- {p \in Presses : press[p].phase = "failing"},
    readings <- since

ImplementsLease == Lease!Spec

-----------------------------------------------------------------------------
(* Liveness.  Coroutines run on; a page polls every 30 s, so some          *)
(* settlement always follows, and its two database uses succeed again and  *)
(* again.                                                                  *)
Fairness ==
    /\ \A p \in Presses : WF_vars(PressStep(p))
    /\ \A s \in Settlers : /\ WF_vars(SettleRead(s))
                           /\ SF_vars(SettleDecide(s))
                           /\ SF_vars(SettleWrite(s))

FairSpec == Spec /\ Fairness

(* Waiting, with room left under MaxReads for the passes it waits for.     *)
WaitsFor(p) ==
    LET c == CardOf(p) IN
    /\ HeldBy(c, p)
    /\ store[c].state = Waiting
    /\ store[c].base + NotRecordedAfter =< MaxReads

(* Once the feed has made its passes and keeps the copy fresh, no answer   *)
(* waits for ever: it is recorded, declared unrecorded or released.        *)
WaitingEnds ==
    <>[](Feed!Fresh /\ reads = MaxReads) => \A p \in Presses : WaitsFor(p) ~> ~WaitsFor(p)
=============================================================================
