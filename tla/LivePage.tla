------------------------------ MODULE LivePage ------------------------------
(***************************************************************************)
(* An open page keeping itself current: frontend/static/freshness.js (the  *)
(* poll, the version it compares and refreshContent),                      *)
(* frontend/static/sse.js (refetch of a section), the data version of      *)
(* backend/readmodel/dbread.py with the answers' token that backend/app.py *)
(* (_render) adds to it, and the order in which the feed writes the copy   *)
(* and then tells of it (forge_mirror.mirror_once).                        *)
(*                                                                         *)
(* Both scripts call htmx.ajax with no source element, so every request    *)
(* they make belongs to the page's body: one is in flight, at most one     *)
(* waits, and a newer one takes the waiting one's place.  A waiting        *)
(* request keeps the element it was going to replace.                      *)
(***************************************************************************)
EXTENDS Naturals, FiniteSets

CONSTANTS
    Panels,        \* sections of the page
    CardPanel,     \* the one that shows the answers' state
    Answers,       \* what answers.db can hold
    NoAnswers,     \* nothing in it
    Token,         \* [Answers -> tokens], claims.token: request ids and states only
    SlowPage,      \* may a page still be loading when the next poll comes?
    MaxChanges,    \* bound on changes of the copy, for TLC
    MaxCrashes,    \* bound on crashes of the feed between write and notification
    MaxTicks,      \* bound on the version's five-minute ticks, for TLC
    MaxAnswers     \* bound on changes of answers.db, for TLC

Main == "main"       \* the page's content, which holds the sections

ASSUME ConstantsAssumption ==
    /\ CardPanel \in Panels
    /\ Main \notin Panels
    /\ NoAnswers \in Answers
    /\ SlowPage \in BOOLEAN
    /\ {MaxChanges, MaxCrashes, MaxTicks, MaxAnswers} \subseteq Nat

VARIABLES
    content,     \* how many times the copy has changed: what it holds now
    seq,         \* the feed's change count, named by the content it was recorded for
    untold,      \* the copy was written and its change not yet recorded
    crashes,
    tick,        \* the five-minute clock tick
    answers,     \* answers.db
    answered,    \* changes of answers.db so far
    notices,     \* updates on their way to the page
    timers,      \* sections whose refetch waits for its second to pass (pending)
    slot,        \* the body's request in flight
    queued,      \* the body's request that waits
    refreshing,  \* freshness.js refreshing
    poll,        \* the freshness poll
    shown,       \* section -> the content it shows
    shownAnswers,
    shownVersion \* #freshness data-version

store == <<content, seq, untold, crashes, tick, answers, answered>>
page == <<shown, shownAnswers, shownVersion>>
vars == <<store, notices, timers, slot, queued, refreshing, poll, page>>

Version == [seq : 0..MaxChanges, tick : 0..MaxTicks, token : {Token[a] : a \in Answers}]
VersionNow == [seq |-> seq, tick |-> tick, token |-> Token[answers]]

None == [kind |-> "none"]
(* A request: what it is for, whether the element it would replace is      *)
(* still in the page, and what the server has put in its response.         *)
Request == [kind : Panels \cup {Main}, attached : BOOLEAN, at : {"sent", "read", "joined", "ready"},
            content : 0..MaxChanges, answers : Answers, version : Version]
Waiting == [kind : Panels \cup {Main}, attached : BOOLEAN]
PollIdle == [at |-> "idle"]

TypeOK ==
    /\ content \in 0..MaxChanges
    /\ seq \in 0..MaxChanges
    /\ untold \in BOOLEAN
    /\ crashes \in 0..MaxCrashes
    /\ tick \in 0..MaxTicks
    /\ answers \in Answers
    /\ answered \in 0..MaxAnswers
    /\ notices \subseteq Panels
    /\ timers \subseteq Panels
    /\ slot = None \/ slot \in Request
    /\ queued = None \/ queued \in Waiting
    /\ refreshing \in BOOLEAN
    /\ poll = PollIdle \/ poll \in [at : {"read", "answered"}, version : Version]
    /\ shown \in [Panels -> 0..MaxChanges]
    /\ shownAnswers \in Answers
    /\ shownVersion \in Version

Init ==
    /\ content = 0 /\ seq = 0 /\ untold = FALSE /\ crashes = 0 /\ tick = 0
    /\ answers = NoAnswers /\ answered = 0
    /\ notices = {} /\ timers = {}
    /\ slot = None /\ queued = None /\ refreshing = FALSE
    /\ poll = PollIdle
    /\ shown = [p \in Panels |-> 0]
    /\ shownAnswers = NoAnswers
    /\ shownVersion = VersionNow

-----------------------------------------------------------------------------
(* The store.                                                              *)

FeedWrites ==
    /\ ~untold
    /\ content < MaxChanges                                           \* bound
    /\ content' = content + 1
    /\ untold' = TRUE
    /\ UNCHANGED <<seq, crashes, tick, answers, answered, notices, timers, slot, queued,
                   refreshing, poll, page>>

(* record_change, its rows taken together: the version moves, and the      *)
(* channel tells every section.                                            *)
FeedTells ==
    /\ untold
    /\ untold' = FALSE
    /\ seq' = content
    /\ notices' = Panels
    /\ UNCHANGED <<content, crashes, tick, answers, answered, timers, slot, queued,
                   refreshing, poll, page>>

(* The feed stops after the write; its next pass finds nothing to write.   *)
FeedStops ==
    /\ untold
    /\ crashes < MaxCrashes                                           \* bound
    /\ crashes' = crashes + 1
    /\ untold' = FALSE
    /\ UNCHANGED <<content, seq, tick, answers, answered, notices, timers, slot, queued,
                   refreshing, poll, page>>

Ticks ==
    /\ tick < MaxTicks                                                \* bound
    /\ tick' = tick + 1
    /\ UNCHANGED <<content, seq, untold, crashes, answers, answered, notices, timers, slot,
                   queued, refreshing, poll, page>>

AnswersChange(to) ==
    /\ to # answers
    /\ answered < MaxAnswers                                          \* bound
    /\ answers' = to
    /\ answered' = answered + 1
    /\ UNCHANGED <<content, seq, untold, crashes, tick, notices, timers, slot, queued,
                   refreshing, poll, page>>

-----------------------------------------------------------------------------
(* htmx.ajax: start at once, or wait, in the place of whatever waited.     *)
Sent(wait) == [kind |-> wait.kind, attached |-> wait.attached, at |-> "sent", content |-> 0,
               answers |-> NoAnswers, version |-> [seq |-> 0, tick |-> 0, token |-> Token[NoAnswers]]]

(* The sections a request fetches.                                         *)
Covers(kind) == IF kind = Main THEN Panels ELSE {kind}

Ajax(kind) ==
    LET wait == [kind |-> kind, attached |-> TRUE] IN
    IF slot = None THEN slot' = Sent(wait) /\ UNCHANGED queued
    ELSE queued' = wait /\ UNCHANGED slot

(* A swap replaces elements: what waits to replace one of those will find  *)
(* its own element gone.                                                   *)
After(replaced) ==
    /\ slot' = IF queued = None THEN None
               ELSE Sent([queued EXCEPT !.attached = @ /\ queued.kind \notin replaced])
    /\ queued' = None

(* sse.js refetch: at most once a second for a section, else by a timer.   *)
Receive(p) ==
    /\ p \in notices
    /\ notices' = notices \ {p}
    /\ \/ Ajax(p) /\ UNCHANGED timers
       \/ timers' = timers \cup {p} /\ UNCHANGED <<slot, queued>>
    /\ UNCHANGED <<store, refreshing, poll, page>>

TimerFires(p) ==
    /\ p \in timers
    /\ timers' = timers \ {p}
    /\ Ajax(p)
    /\ UNCHANGED <<store, notices, refreshing, poll, page>>

(* The connection is down and the notices are lost.                        *)
NoticesLost ==
    /\ notices # {}
    /\ notices' = {}
    /\ UNCHANGED <<store, timers, slot, queued, refreshing, poll, page>>

-----------------------------------------------------------------------------
(* The server, answering the request in flight.                            *)

(* One snapshot of readmodel.db gives the sections and the version.        *)
RecordReadCached(request) ==          \* mutant: a page kept for the version it has
    [request EXCEPT !.content = IF request.kind = Main THEN shownVersion.seq ELSE content,
                    !.version.seq = seq, !.version.tick = tick]
RecordRead(request) ==
    [request EXCEPT !.content = content, !.version.seq = seq, !.version.tick = tick]

ReadRecord ==
    /\ slot # None /\ slot.at = "sent"
    /\ slot' = [RecordRead(slot) EXCEPT
                   !.at = IF slot.kind \in {Main, CardPanel} THEN "read" ELSE "ready"]
    /\ UNCHANGED <<store, notices, timers, queued, refreshing, poll, page>>

(* _answer_view reads answers.db for what the cards say.                   *)
ReadAnswers ==
    /\ slot # None /\ slot.at = "read"
    /\ slot' = [slot EXCEPT !.answers = answers, !.at = IF slot.kind = Main THEN "joined" ELSE "ready"]
    /\ UNCHANGED <<store, notices, timers, queued, refreshing, poll, page>>

(* Mutant: the whole version is read here, after the sections.             *)
ReadVersion ==
    /\ slot # None /\ slot.at = "joined"
    /\ slot' = [slot EXCEPT !.version = VersionNow, !.at = "ready"]
    /\ UNCHANGED <<store, notices, timers, queued, refreshing, poll, page>>

(* _render reads answers.db again for the token in the version.            *)
ReadToken ==
    /\ slot # None /\ slot.at = "joined"
    /\ slot' = [slot EXCEPT !.version.token = Token[answers], !.at = "ready"]
    /\ UNCHANGED <<store, notices, timers, queued, refreshing, poll, page>>

(* A section's response replaces that section.                             *)
SwapPanel ==
    /\ slot # None /\ slot.at = "ready" /\ slot.kind # Main
    /\ shown' = IF slot.attached THEN [shown EXCEPT ![slot.kind] = slot.content] ELSE shown
    /\ shownAnswers' = IF slot.attached /\ slot.kind = CardPanel THEN slot.answers ELSE shownAnswers
    /\ After({slot.kind})
    /\ UNCHANGED <<store, notices, timers, refreshing, poll, shownVersion>>

(* A page's response: #freshness out of band, by its id, then #main.  The  *)
(* poll of the old #freshness goes with it.                                *)
SwapMain ==
    /\ slot # None /\ slot.at = "ready" /\ slot.kind = Main
    /\ shownVersion' = slot.version
    /\ shown' = IF slot.attached THEN [p \in Panels |-> slot.content] ELSE shown
    /\ shownAnswers' = IF slot.attached THEN slot.answers ELSE shownAnswers
    /\ After(Panels \cup {Main})
    /\ refreshing' = FALSE
    /\ poll' = PollIdle
    /\ UNCHANGED <<store, notices, timers>>

(* The request failed: nothing is swapped, the next one starts.            *)
RequestFails ==
    /\ slot # None
    /\ After({})
    /\ refreshing' = IF slot.kind = Main THEN FALSE ELSE refreshing
    /\ UNCHANGED <<store, notices, timers, poll, page>>

-----------------------------------------------------------------------------
(* The freshness poll, every 30 seconds.                                   *)

MainUnderWay == Main \in {slot.kind, queued.kind}

(* The server reads the record for the fragment, then answers.db for the   *)
(* token.                                                                  *)
PollRead ==
    /\ poll = PollIdle
    /\ ~SlowPage => ~MainUnderWay
    /\ poll' = [at |-> "read", version |-> VersionNow]
    /\ UNCHANGED <<store, notices, timers, slot, queued, refreshing, page>>

PollAnswered ==
    /\ poll.at = "read"
    /\ poll' = [poll EXCEPT !.at = "answered", !.version.token = Token[answers]]
    /\ UNCHANGED <<store, notices, timers, slot, queued, refreshing, page>>

(* onBeforeSwap: the same version lets the read time in; another one       *)
(* cancels the swap and fetches the content and the version together.      *)
PollSame ==
    /\ poll.at = "answered"
    /\ poll.version = shownVersion
    /\ poll' = PollIdle
    /\ UNCHANGED <<store, notices, timers, slot, queued, refreshing, page>>

(* The promise of a request that waits is kept at once, so refreshing is   *)
(* TRUE only while a request that started at once is out.                  *)
UntilAnswered == TRUE                                              \* mutant
UntilKept == slot = None

(* refreshContent.                                                         *)
PollDiffers ==
    /\ poll.at = "answered"
    /\ poll.version # shownVersion
    /\ poll' = PollIdle
    /\ IF refreshing THEN UNCHANGED <<slot, queued, refreshing>>
       ELSE Ajax(Main) /\ refreshing' = UntilKept
    /\ UNCHANGED <<store, notices, timers, page>>

Next ==
    \/ FeedWrites \/ FeedTells \/ FeedStops \/ Ticks
    \/ \E to \in Answers : AnswersChange(to)
    \/ \E p \in Panels : Receive(p) \/ TimerFires(p)
    \/ NoticesLost
    \/ ReadRecord \/ ReadAnswers \/ ReadToken \/ SwapPanel \/ SwapMain \/ RequestFails
    \/ PollRead \/ PollAnswered \/ PollSame \/ PollDiffers

Spec == Init /\ [][Next]_vars

-----------------------------------------------------------------------------
(* freshness.js: when a poll brings the version the page shows, moving the *)
(* read time on "is true: nothing the page shows has changed".  Once the   *)
(* feed has told of what the copy holds, a page with the current version   *)
(* shows the current record in every section.                              *)
RecordIsHonest ==
    seq = content /\ shownVersion = VersionNow => \A p \in Panels : shown[p] = content

(* No response that was read earlier takes the place of one read later:    *)
(* requests of both scripts share one slot.                                *)
NothingGoesBack == [][\A p \in Panels : shown'[p] >= shown[p]]_vars

(* The feed's loop goes on; pages keep polling, and requests get through   *)
(* again and again.                                                        *)
Fairness ==
    /\ WF_vars(FeedTells)
    /\ SF_vars(PollRead) /\ WF_vars(PollAnswered) /\ WF_vars(PollSame \/ PollDiffers)
    /\ WF_vars(NoticesLost \/ \E p \in Panels : Receive(p))
    /\ WF_vars(\E p \in Panels : TimerFires(p))
    /\ SF_vars(ReadRecord) /\ SF_vars(ReadAnswers) /\ SF_vars(ReadToken)
    /\ SF_vars(SwapPanel) /\ SF_vars(SwapMain)
FairSpec == Spec /\ Fairness

(* However requests fail, crowd each other out or find their element gone, *)
(* an open page comes to show the record as it is, whatever the feed's     *)
(* stops kept back until it told of a later change.                        *)
PageCatchesUp == \A p \in Panels : []<>(shown[p] = content \/ seq # content)
=============================================================================
