---------------------------- MODULE EventChannel ----------------------------
(***************************************************************************)
(* The live-update channel: the change log the feed writes and prunes      *)
(* (store.record_change, forge_mirror.prune_change_log), the decision of   *)
(* backend/sse.py on a reconnect, the /events stream of backend/app.py and *)
(* the browser's EventSource, which remembers the last id it was given and *)
(* sends it when it reconnects.                                            *)
(*                                                                         *)
(* A connection can break at any moment, losing what was sent but not yet  *)
(* received; the change log goes on growing and being pruned meanwhile.    *)
(***************************************************************************)
EXTENDS Naturals, Sequences, FiniteSets, Functions, SequencesExt, FiniteSetsExt

CONSTANTS
    Panels,        \* page sections the feed tells of
    Subscribed,    \* those on this page
    QuietHour,     \* may CHANGE_LOG_KEEP pass without one change recorded?
    OldPages,      \* may a page outlive the readmodel.db it was opened on?
    BrokenRefetch, \* may a connection break between two updates of one refetch?
    PruneInReplay, \* may rows a page missed go between the two reads of a replay?
    MaxSeq,        \* bound on notifications, for TLC
    MaxRebuilds    \* bound on deletions of readmodel.db, for TLC

ASSUME ConstantsAssumption ==
    /\ Subscribed \subseteq Panels /\ IsFiniteSet(Subscribed)
    /\ {QuietHour, OldPages, BrokenRefetch, PruneInReplay} \subseteq BOOLEAN
    /\ MaxSeq \in Nat
    /\ MaxRebuilds \in Nat

VARIABLES
    log,         \* change_log, in the order of seq: [seq, panel]
    head,        \* the last seq given out (AUTOINCREMENT never gives one twice)
    stream,      \* where the server's _sse_stream is
    cursor,      \* its last_id
    low,         \* the min_seq it read
    queue,       \* updates of the list it is yielding
    pipe,        \* updates sent and not yet received
    lastId,      \* the EventSource's last event id
    stale,       \* sections changed since the page last fetched them
    rebuilds     \* deletions of readmodel.db so far

server == <<stream, cursor, low, queue>>
vars == <<log, head, server, pipe, lastId, stale, rebuilds>>

Row == [seq : 1..MaxSeq, panel : Panels]
Update == [id : 0..MaxSeq, panel : Subscribed]

TypeOK ==
    /\ log \in Seq(Row)
    /\ head \in 0..MaxSeq
    /\ stream \in {"none", "connected", "windowed", "open"}
    /\ cursor \in 0..MaxSeq
    /\ low \in 0..MaxSeq
    /\ queue \in Seq(Update)
    /\ pipe \in Seq(Update)
    /\ lastId \in 0..MaxSeq
    /\ stale \subseteq Panels
    /\ rebuilds \in 0..MaxRebuilds

Init ==
    /\ log = <<>>
    /\ head = 0
    /\ stream = "none"
    /\ cursor = 0
    /\ low = 0
    /\ queue = <<>>
    /\ pipe = <<>>
    /\ lastId = 0
    /\ stale = {}
    /\ rebuilds = 0

-----------------------------------------------------------------------------
(* sse.py.                                                                 *)
SeqsOf(rows) == {rows[i].seq : i \in DOMAIN rows}
MinSeq == IF log = <<>> THEN 0 ELSE Min(SeqsOf(log))
MaxSeqNow == IF log = <<>> THEN 0 ELSE Max(SeqsOf(log))

(* ORDER BY seq: the k-th row has k rows up to it.                         *)
InOrder(rows) ==
    [k \in 1..Cardinality(rows) |-> CHOOSE row \in rows : Cardinality({r \in rows : r.seq =< row.seq}) = k]
UpdatesOf(rows) ==
    LET wanted == InOrder({row \in rows : row.panel \in Subscribed})
    IN  [i \in DOMAIN wanted |-> [id |-> wanted[i].seq, panel |-> wanted[i].panel]]

EventsAfterNext(lastSeen) == UpdatesOf({row \in Range(log) : row.seq > lastSeen + 1})   \* mutant
EventsSince(lastSeen) == UpdatesOf({row \in Range(log) : row.seq > lastSeen})

(* One update for every subscribed section, all with the newest id.        *)
RefetchAll ==
    {[i \in DOMAIN ps |-> [id |-> MaxSeqNow, panel |-> ps[i]]] : ps \in SetToSeqs(Subscribed)}

(* The page's id is none, or fell out of the retained window.              *)
Refetches(lastSeen, lo) == lastSeen = 0 \/ (lo > 0 /\ lastSeen + 1 < lo)
ReplayOrRefetch(lastSeen, lo) ==
    IF Refetches(lastSeen, lo) THEN RefetchAll ELSE {EventsSince(lastSeen)}

-----------------------------------------------------------------------------
(* The feed.                                                               *)

(* record_change: one committed row for each section.                      *)
RecordChange(panel) ==
    /\ head < MaxSeq                                                  \* bound
    /\ head' = head + 1
    /\ log' = Append(log, [seq |-> head + 1, panel |-> panel])
    /\ stale' = stale \cup {panel}
    /\ UNCHANGED <<server, pipe, lastId, rebuilds>>

(* The stream has read a row: it sent it, or is about to.                  *)
HasRead(row) ==
    \/ row.seq =< cursor
    \/ \E i \in DOMAIN queue : queue[i].panel = row.panel /\ row.seq =< queue[i].id

(* May a row be an hour old?  An open stream reads each within a second or *)
(* so.  One of a page that was away longer than the hour has not, whether  *)
(* the page is away still, has just connected, or is between the two reads *)
(* of its replay.                                                          *)
MayBeOld(row) ==
    \/ HasRead(row)
    \/ stream \in {"none", "connected"}
    \/ stream = "windowed" /\ (PruneInReplay \/ Refetches(cursor, low))

(* prune_change_log: rows go by their age alone, in the feed's process and *)
(* whatever the streams are doing.                                         *)
Prune(n) ==
    /\ \A i \in 1..n : log[i].panel \in Subscribed => MayBeOld(log[i])
    /\ QuietHour \/ n < Len(log)
    /\ log' = SubSeq(log, n + 1, Len(log))
    /\ UNCHANGED <<head, server, pipe, lastId, stale, rebuilds>>

-----------------------------------------------------------------------------
(* The browser and the /events route.                                      *)

(* Mutant: the stream starts from now, whatever the page has heard.        *)
ConnectFromNow ==
    /\ stream = "none"
    /\ stream' = "connected"
    /\ cursor' = MaxSeqNow
    /\ UNCHANGED <<log, head, low, queue, pipe, lastId, stale, rebuilds>>

(* EventSource connects, or connects again, with its Last-Event-ID.        *)
Connect ==
    /\ stream = "none"
    /\ stream' = "connected"
    /\ cursor' = lastId
    /\ UNCHANGED <<log, head, low, queue, pipe, lastId, stale, rebuilds>>

(* replay_or_refetch reads the window and then the rows, with no           *)
(* transaction around the two reads.                                       *)
ReadWindow ==
    /\ stream = "connected"
    /\ stream' = "windowed"
    /\ low' = MinSeq
    /\ UNCHANGED <<log, head, cursor, queue, pipe, lastId, stale, rebuilds>>

Replay ==
    /\ stream = "windowed"
    /\ stream' = "open"
    /\ queue' \in ReplayOrRefetch(cursor, low)
    /\ low' = 0
    /\ UNCHANGED <<log, head, cursor, pipe, lastId, stale, rebuilds>>

Yield ==
    /\ queue # <<>>
    /\ cursor' = Max({cursor, queue[1].id})
    /\ pipe' = Append(pipe, queue[1])
    /\ queue' = Tail(queue)
    /\ UNCHANGED <<log, head, stream, low, lastId, stale, rebuilds>>

(* The tail loop's look at the log, once a second.                         *)
TailLog ==
    /\ stream = "open"
    /\ queue = <<>>
    /\ EventsSince(cursor) # <<>>
    /\ queue' = EventsSince(cursor)
    /\ UNCHANGED <<log, head, stream, cursor, low, pipe, lastId, stale, rebuilds>>

(* The page is given an update: it takes its id and fetches the section.   *)
Receive ==
    /\ pipe # <<>>
    /\ lastId' = pipe[1].id
    /\ stale' = stale \ {pipe[1].panel}
    /\ pipe' = Tail(pipe)
    /\ UNCHANGED <<log, head, server, rebuilds>>

Disconnected ==
    /\ stream' = "none"
    /\ cursor' = 0
    /\ low' = 0
    /\ queue' = <<>>
    /\ pipe' = <<>>

(* A refetch of several sections gives each the same id, so broken off     *)
(* after the first received the rest would not be sent again.              *)
Refetching == lastId # 0 /\ \E update \in Range(pipe) \cup Range(queue) : update.id =< lastId
Disconnect ==
    /\ stream # "none"
    /\ BrokenRefetch \/ ~Refetching
    /\ Disconnected
    /\ UNCHANGED <<log, head, lastId, stale, rebuilds>>

(* docs/runbook.md: readmodel.db is deleted and made afresh, and its       *)
(* change log starts again from 1; open pages are loaded again or not.     *)
StoreRebuilt ==
    /\ rebuilds < MaxRebuilds                                         \* bound
    /\ rebuilds' = rebuilds + 1
    /\ log' = <<>>
    /\ head' = 0
    /\ Disconnected
    /\ IF OldPages THEN UNCHANGED <<lastId, stale>> ELSE lastId' = 0 /\ stale' = {}

Next ==
    \/ \E panel \in Panels : RecordChange(panel)
    \/ \E n \in 1..Len(log) : Prune(n)
    \/ Connect \/ ReadWindow \/ Replay \/ Yield \/ TailLog \/ Receive
    \/ Disconnect \/ StoreRebuilt

Spec == Init /\ [][Next]_vars

-----------------------------------------------------------------------------
(* The stream has nothing left to say and the page has heard all of it.    *)
Drained == stream = "open" /\ queue = <<>> /\ pipe = <<>> /\ EventsSince(cursor) = <<>>

(* sse.py: a reconnecting client is replayed what it missed or told to     *)
(* refetch.  Once the stream is drained, the page was told of every        *)
(* section that changed, wherever connections broke and whatever was       *)
(* pruned in between.                                                      *)
NothingMissed == Drained => stale \cap Subscribed = {}

(* What makes it so: at every moment, connected or not, a change the page  *)
(* has not heard of is on its way, or is a kept row after the id the       *)
(* stream will start from, or will be covered by a refetch of everything.  *)
From == IF stream = "none" THEN lastId ELSE cursor
WillRefetch ==
    stream # "open" /\ Refetches(From, IF stream = "windowed" THEN low ELSE MinSeq)
OnItsWay(panel) ==
    \/ \E i \in DOMAIN queue : queue[i].panel = panel
    \/ \E i \in DOMAIN pipe : pipe[i].panel = panel
    \/ \E i \in DOMAIN log : log[i].panel = panel /\ log[i].seq > From
    \/ WillRefetch
StaleIsOnItsWay == \A panel \in stale \cap Subscribed : OnItsWay(panel)

(* The feed's side goes on; the browser reconnects; a connection may break *)
(* again and again, but not each time before one update gets through.      *)
Fairness ==
    /\ SF_vars(Connect) /\ SF_vars(ReadWindow) /\ SF_vars(Replay)
    /\ SF_vars(Yield) /\ SF_vars(TailLog) /\ SF_vars(Receive)
FairSpec == Spec /\ Fairness

(* Every change is heard of, however often the connection breaks.          *)
ChangeIsHeard == \A panel \in Subscribed : panel \in stale ~> panel \notin stale
=============================================================================
