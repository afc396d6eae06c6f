---------------------------- MODULE FactoryRecord ----------------------------
(***************************************************************************)
(* The record of one feature as Forge writes it, and what the dashboard    *)
(* makes of it after every row: its standing, waits, cards, issues and     *)
(* times.  Every action is Forge's, so external: the rows it writes are    *)
(* those tests/forge_fake.py, test_feature_time.py and test_approvals.py   *)
(* put in the record.  What is checked is backend/readmodel.               *)
(***************************************************************************)
EXTENDS Timing, Cards, Norms

CONSTANTS Starts,    \* what the record holds at first: among DOMAIN Start
          Doors,     \* the planning doors that may open: among "spec", "sign_in"
          Resends,   \* whether the same request may be sent again
          Answerers, \* who may answer a merge card: a person, or None when nobody is on record
          Endings,   \* the statuses builds end in: "COMPLETE" and some of BuildBroken
          RunEndings,\* the states planning ends in, of PlanningOver
          MaxRows(_), MaxBuilds(_),   \* how much a feature like this one may grow
          MaxClock

ASSUME RecordAssumption ==
    /\ Starts \subseteq {"queue", "planning", "build", "overlap", "merging", "mission", "joined"}
    /\ Doors \subseteq {"spec", "sign_in"}
    /\ Endings \subseteq {"COMPLETE"} \cup BuildBroken
    /\ RunEndings \subseteq PlanningOver
    /\ MaxClock \in Nat
    /\ None \notin Int

VARIABLES now,       \* the clock of Forge and of the dashboard
          f,         \* the feature, and the mission it belongs to
          resent     \* when the same request was sent again

vars == <<now, f, resent>>

NewBuild(role) ==
    [status |-> "QUEUED", queued |-> now, started |-> None, completed |-> None,
     role |-> role, pending |-> None, stages |-> <<>>]
NewRun(state) ==
    [state |-> state, queued |-> now, started |-> IF state = "QUEUED" THEN None ELSE now,
     completed |-> None, pending |-> None, events |-> <<>>]
NewMission ==
    [status |-> "PROPOSED", closed |-> None, stopping |-> FALSE, merge |-> None, plan |-> <<"plan", 0>>,
     approved |-> None, by |-> None, created |-> now, features |-> 1]
NewItem == [status |-> "QUEUED", queued |-> now, admitted |-> None, closed |-> None]
Empty == [queue |-> None, planning |-> None, builds |-> <<>>, mission |-> None]

(* A build under way, and one whose merge was approved before time 0.      *)
Going0 == [NewBuild(None) EXCEPT !.status = "RUNNING", !.started = now]
Word0(i) ==
    LET row(kind) == [at |-> -1, kind |-> kind, req |-> <<"merge", i>>, who |-> "ann"]
    IN  [NewBuild(None) EXCEPT !.status = "COMPLETE", !.queued = -1, !.started = -1, !.completed = -1,
                               !.stages = <<row("offer"), row("approve")>>]
Joined0 == [Word0(1) EXCEPT !.role = "feature",
                         !.stages = <<@[2], [@[2] EXCEPT !.kind = "joined"]>>]

Start ==
    [queue |-> [Empty EXCEPT !.queue = NewItem],
     planning |-> [Empty EXCEPT !.planning = NewRun("RUNNING")],
     build |-> [Empty EXCEPT !.builds = <<Going0>>],
     overlap |-> [Empty EXCEPT !.builds = <<Going0, Going0>>],
     merging |-> [Empty EXCEPT !.builds = <<Word0(1), Word0(2)>>],
     mission |-> [Empty EXCEPT !.mission = NewMission],
     joined |-> [Empty EXCEPT !.builds = <<Joined0>>,
                              !.mission = [NewMission EXCEPT !.status = "RUNNING", !.approved = -1, !.by = "ann",
                                                             !.created = -1, !.merge = Word0(0)]]]

Init == now = 0 /\ resent = {} /\ f \in {Start[s] : s \in Starts}

----------------------------------------------------------------------------
(* Builds.  A feature's builds are 1, 2, ...; 0 is its mission's merge.    *)

Refs == DOMAIN f.builds \cup (IF f.mission = None THEN {} ELSE {0 : x \in {f.mission.merge} \ {None}})
BuildOf(i) == IF i = 0 THEN f.mission.merge ELSE f.builds[i]
Becomes(i, b) ==
    /\ f' = IF i = 0 THEN [f EXCEPT !.mission.merge = b] ELSE [f EXCEPT !.builds[i] = b]
    /\ UNCHANGED <<now, resent>>

RowsOf(i) == Cardinality({j \in DOMAIN BuildOf(i).stages : BuildOf(i).stages[j].at >= 0})
Rows == (IF f.planning = None THEN 0 ELSE Len(f.planning.events)) + MapThenSumSet(RowsOf, Refs)
Logged(b, kind, req, who) ==
    [b EXCEPT !.stages = Append(@, [at |-> now, kind |-> kind, req |-> req, who |-> who])]
Logs(i, kind, req, who) == Rows < MaxRows(f) /\ Becomes(i, Logged(BuildOf(i), kind, req, who))

QueueBuild ==
    /\ Len(f.builds) < MaxBuilds(f)
    /\ IF f.mission # None THEN f.mission.status = "RUNNING"
       ELSE f.builds # <<>> \/ (f.planning # None /\ f.planning.state = "BUILD_QUEUED")
    /\ f' = [f EXCEPT !.builds = Append(@, NewBuild(IF f.mission = None THEN None ELSE "feature"))]
    /\ UNCHANGED <<now, resent>>

(* Some builds record their start only when they end.                      *)
StartBuild(i) ==
    LET b == BuildOf(i)
    IN  /\ b.status = "QUEUED"
        /\ \E start \in {now, None} : Becomes(i, [b EXCEPT !.status = "RUNNING", !.started = start])

(* The pause is in the build's status before its row is in the log.  The   *)
(* first is the go-ahead, a later one a stage answered elsewhere.          *)
PauseBuild(i) ==
    LET b == BuildOf(i)
        n == Len(OfKind(b.stages, Paused))
        stage == IF n = 0 THEN BuildGateStage ELSE "budget"
    IN  /\ b.status = "RUNNING" /\ Rows < MaxRows(f)
        /\ Becomes(i, [b EXCEPT !.status = "PAUSED", !.pending = <<stage, n>>])
PauseRecorded(b) == FirstShown(OfKind(b.stages, Paused), b.pending) # None
RecordPause(i) ==
    LET b == BuildOf(i)
    IN  b.status = "PAUSED" /\ ~PauseRecorded(b) /\ Logs(i, "pause", b.pending, None)
RecordResume(i) ==
    LET gates == OfKind(BuildOf(i).stages, Paused \cup Resumed)
    IN  /\ BuildOf(i).status \in {"PAUSED", "RUNNING"}
        /\ gates # <<>> /\ LastRow(gates).kind = "pause"
        /\ \E kind \in Resumed : Logs(i, kind, None, None)
Unpause(i) ==
    /\ BuildOf(i).status = "PAUSED"
    /\ Becomes(i, [BuildOf(i) EXCEPT !.status = "RUNNING", !.pending = None])

Work(i) == BuildOf(i).status = "RUNNING" /\ Logs(i, "work", None, None)
EndBuild(i) ==
    LET b == BuildOf(i)
    IN  /\ b.status \in BuildActive
        /\ \E status \in Endings :
              Becomes(i, [b EXCEPT !.status = status, !.completed = now,
                                   !.started = IF @ = None THEN now ELSE @])

(* The merge word.  A part of a mission is joined to the mission's branch  *)
(* without a card; any other build is offered, and offered again after a   *)
(* restart.                                                                *)
Undecided(b) == b.status = "COMPLETE" /\ MergeDecision(b) = None /\ MergeRetired(b) = None
NotIn(b) == BuildDelivered(b) = None /\ BuildLanded(b) = None /\ MergeRetired(b) = None
Offer(i) ==
    LET b == BuildOf(i) IN b.role # "feature" /\ Undecided(b) /\ Logs(i, "offer", <<"merge", i>>, None)
Decide(i) ==
    LET b == BuildOf(i)
    IN  /\ Undecided(b) /\ (MergeOffered(b) \/ b.role = "feature")
        /\ \E kind \in Decided, who \in Answerers : Logs(i, kind, None, who)
MergeRow(i) ==
    LET b == BuildOf(i)
        done == IF b.role = "feature" THEN "joined" ELSE "merged"
    IN  /\ b.status = "COMPLETE" /\ Approved(b) /\ NotIn(b)
        /\ \E kind \in {"step", "merge_failed", done} : Logs(i, kind, None, None)
Retire(i) ==
    LET b == BuildOf(i)
    IN  b.status = "COMPLETE" /\ MergeOffered(b) /\ NotIn(b) /\ Logs(i, "retired", None, None)

----------------------------------------------------------------------------
(* The queue and planning.                                                 *)

Item(status, field) ==
    /\ f' = [f EXCEPT !.queue = [[@ EXCEPT !.status = status] EXCEPT ![field] = now]]
    /\ UNCHANGED <<now, resent>>
LeaveQueue ==
    /\ f.queue # None /\ f.queue.status = "QUEUED"
    /\ Item("ADMITTED", "admitted") \/ Item("WITHDRAWN", "closed")

Run(run) == f' = [f EXCEPT !.planning = run] /\ UNCHANGED <<now, resent>>
Told(run, kind, door, req, who, decision) ==
    [run EXCEPT !.events = Append(@, [at |-> now, kind |-> kind, door |-> door, req |-> req,
                                      who |-> who, decision |-> decision])]
QueueRun ==
    /\ f.queue # None /\ f.queue.status = "ADMITTED" /\ f.planning = None
    /\ Run(NewRun("QUEUED"))
StartRun ==
    /\ f.planning # None /\ f.planning.state = "QUEUED"
    /\ Run([f.planning EXCEPT !.state = "RUNNING", !.started = now])
Planner == f.planning # None /\ f.planning.state \in PlanningActive \ {"QUEUED"}

(* The cards the doors of this run have open.                              *)
Asking(d) == OpenCards(DoorCard(f.planning, d))
OpenDoor(d) ==
    LET n == Cardinality({e.req : e \in ToSet(OfKind(DoorEvents(f.planning, d), {"GATED"}))})
    IN  /\ Planner /\ Rows < MaxRows(f) /\ \A x \in Doors : Asking(x) = {}
        /\ Run(Told([f.planning EXCEPT !.state = IF d = "spec" THEN "FEATURE_SPEC" ELSE "FEATURE_PLAN"],
                    "GATED", d, <<d, n>>, None, None))

(* Forge asks again after a restart.                                       *)
ReopenDoor(d) ==
    /\ Planner /\ Rows < MaxRows(f)
    /\ \E c \in Asking(d) : Run(Told(f.planning, "reopened", d, c.req, None, None))
AnswerDoor(d) ==
    /\ Planner /\ Rows < MaxRows(f)
    /\ \E c \in Asking(d), verdict \in {"approved", "revise", "cancelled", "timed_out"} :
          Run(Told(f.planning, verdict, d, c.req, IF verdict = "timed_out" THEN None ELSE "ann",
                   IF verdict \in {"approved", "revise"} THEN verdict ELSE None))

(* What else Forge notes of a run: the spec finished, that there is        *)
(* nothing to build, or that its handover was retired by a clean-up.       *)
NoteRun ==
    /\ f.planning # None /\ Rows < MaxRows(f)
    /\ \E note \in {"spec_complete", "nothing", "retired"} :
         /\ IF note = "retired" THEN f.builds = <<>> /\ ~Planner ELSE Planner
         /\ DoorEvents(f.planning, note) = <<>>
         /\ Run(Told(f.planning, "noted", note, None, None, None))

(* A Stop's verdict is followed by a row for the move to CANCELLED, at the *)
(* same door, that says neither who nor what.                              *)
EndRun ==
    /\ Planner
    /\ LET events == f.planning.events
           stopped == events # <<>> /\ LastRow(events).kind = "cancelled"
           over(state) == [f.planning EXCEPT !.state = state, !.completed = now]
       IN  IF stopped THEN Run(Told(over("CANCELLED"), "cancelled", LastRow(events).door, None, None, None))
           ELSE \E state \in RunEndings : Run(over(state))

----------------------------------------------------------------------------
(* The mission, another sending, and time.                                 *)

Mission(m) == f' = [f EXCEPT !.mission = m] /\ UNCHANGED <<now, resent>>
AnswerPlan ==
    /\ f.mission # None /\ f.mission.status = "PROPOSED"
    /\ \/ Mission([f.mission EXCEPT !.status = "RUNNING", !.approved = now, !.by = "ann"])
       \/ Mission([f.mission EXCEPT !.status = "REJECTED", !.closed = now])
MergeMission ==
    /\ f.mission # None /\ f.mission.status = "RUNNING" /\ f.mission.merge = None
    /\ \E i \in DOMAIN f.builds : BuildLanded(f.builds[i]) # None
    /\ Mission([f.mission EXCEPT !.merge = [NewBuild("mission-merge") EXCEPT
                                              !.status = "COMPLETE", !.started = now, !.completed = now]])
CloseMission ==
    /\ f.mission # None /\ f.mission.status = "RUNNING"
    /\ Mission([f.mission EXCEPT !.closed = now,
                                 !.status = IF MissionDelivered(f.mission) = None THEN "NOT_MERGED" ELSE "MERGED"])

Sent == f.queue # None \/ f.planning # None \/ f.builds # <<>>
SendAgain ==
    /\ Resends /\ resent = {} /\ Sent /\ ~InProgress(f)
    /\ resent' = {now} /\ UNCHANGED <<now, f>>
Tick == now < MaxClock /\ now' = now + 1 /\ UNCHANGED <<f, resent>>

Next ==
    \/ QueueBuild \/ LeaveQueue \/ QueueRun \/ StartRun \/ NoteRun \/ EndRun
    \/ AnswerPlan \/ MergeMission \/ CloseMission \/ SendAgain \/ Tick
    \/ \E d \in Doors : OpenDoor(d) \/ ReopenDoor(d) \/ AnswerDoor(d)
    \/ \E i \in Refs :
         \/ StartBuild(i) \/ PauseBuild(i) \/ RecordPause(i) \/ RecordResume(i) \/ Unpause(i) \/ Work(i)
         \/ EndBuild(i) \/ Offer(i) \/ Decide(i) \/ MergeRow(i) \/ Retire(i)

Spec == Init /\ [][Next]_vars

(* What the record can hold when it is t: no row has a time to come.       *)
Times(t) == -1 .. t
Moments(t) == Times(t) \cup {None}
Requests == {None} \cup ((Doors \cup {"plan", "merge", BuildGateStage, "budget"}) \X Nat)
People == Answerers \cup {"ann", None}
Stages(t) ==
    [at : Times(t), req : Requests, who : People,
     kind : Gated \cup Resumed \cup Decided \cup MergeSteps \cup {"work", "retired"}]
Builds(t) ==
    [status : BuildActive \cup BuildBroken \cup {"COMPLETE"}, queued : Times(t), started : Moments(t),
     completed : Moments(t), role : {None, "feature", "mission-merge"}, pending : Requests, stages : Seq(Stages(t))]
Events(t) ==
    [at : Times(t), kind : DoorOpen \cup {"approved", "revise", "cancelled", "timed_out", "noted"},
     door : Doors \cup {"spec_complete", "nothing", "retired"}, req : Requests, who : People,
     decision : {None, "approved", "revise"}]
Runs(t) ==
    [state : PlanningActive \cup PlanningOver, queued : Times(t), started : Moments(t), completed : Moments(t),
     pending : {None}, events : Seq(Events(t))]
Missions(t) ==
    [status : {"PROPOSED", "RUNNING", "REJECTED", "NOT_MERGED", "MERGED"}, closed : Moments(t),
     stopping : {FALSE}, merge : Builds(t) \cup {None}, plan : Requests, approved : Moments(t), by : People,
     created : Times(t), features : Nat]
Items(t) ==
    [status : {"QUEUED", "ADMITTED", "WITHDRAWN"}, queued : Times(t), admitted : Moments(t), closed : Moments(t)]
Features(t) ==
    [queue : Items(t) \cup {None}, planning : Runs(t) \cup {None}, builds : Seq(Builds(t)),
     mission : Missions(t) \cup {None}]

ASSUME NoneAssumption ==
    /\ None \notin (Doors \cup {BuildGateStage, "budget"}) \X Nat
    /\ \A t \in 0..MaxClock : None \notin Builds(t) \cup Missions(t) \cup Runs(t) \cup Stages(t)

TypeOK == now \in 0..MaxClock /\ f \in Features(now) /\ resent \subseteq 0..now

----------------------------------------------------------------------------
(* What the dashboard makes of the record.                                 *)

AllCards == FeatureCards(f) \cup IF f.mission = None THEN {} ELSE MissionCards(f.mission)
Merges == IF f.mission = None \/ f.mission.merge = None THEN <<>> ELSE <<f.mission.merge>>
Issues == FeatureIssues(f, resent, now)
Blamed(issues) == \E i \in StillOpen(issues) : i.band = "R" /\ i.kind \notin LiveKinds

(* needs_you: the newest open wait has the feature's open cards, and cards *)
(* that no wait covers are items of their own.                             *)
NeedsYou ==
    LET waits == StillOpen(WaitIssues(FeatureWaits(f), now))
        cards == OpenCards(FeatureCards(f))
        first == CHOOSE i \in waits : \A j \in waits : j.opened <= i.opened
        item(what, since, mine) == [what |-> what, since |-> since, cards |-> mine]
    IN  {item(i.kind, i.opened, IF i = first THEN cards ELSE {}) : i \in waits}
        \cup IF waits = {} THEN {item("card", c.opened, {c}) : c \in cards} ELSE {}

(* A wait by the rule factory.py states: the first of a run of openings    *)
(* begins it, where a closing row or recorded work breaks a run; the first *)
(* closing row before the next one ends it, and failing that the last      *)
(* moment it was seen waiting, unless it is waiting still.                 *)
WaitsByRule(rows, still, kind) ==
    LET opens == {i \in DOMAIN rows : rows[i].opens}
        begins == {i \in opens : \A p \in opens : p < i =>
                      \E k \in p + 1 .. i - 1 : rows[k].closes \/ ~rows[k].gated}
        ofRun(i) == {k \in i .. Len(rows) : begins \cap (i + 1 .. k) = {}}
        closing(i) == {k \in ofRun(i) : ~rows[k].opens /\ rows[k].closes}
        end(i) == IF closing(i) # {} THEN rows[Min(closing(i))].at
                  ELSE IF still /\ i = Max(begins) THEN None
                  ELSE rows[Max(opens \cap ofRun(i))].at
    IN  {Wait(kind, rows[i].at, end(i)) : i \in begins}

(* The waits worked out row by row are the ones the rule gives, whatever   *)
(* the order of pauses, work, decisions and re-offers (factory._walk).     *)
WaitsFollowTheRule ==
    /\ \A i \in Refs : LET b == BuildOf(i) IN
         /\ ToSet(Walk(GateRows(b), b.status = "PAUSED", "gate")) =
                WaitsByRule(GateRows(b), b.status = "PAUSED", "gate")
         /\ ToSet(Walk(OfferRows(b), TRUE, "merge")) = WaitsByRule(OfferRows(b), TRUE, "merge")
    /\ f.planning # None => ToSet(Walk(DoorRows(f.planning, "spec"), Planner, "door")) =
                               WaitsByRule(DoorRows(f.planning, "spec"), Planner, "door")

(* Every moment from a feature's sending to its end, or to now, is counted *)
(* once, under the first period in the order of precedence that covers it, *)
(* however attempts, waits and queues overlap, so that its parts add up to *)
(* the time it took (timing._sweep under timing.feature_time).             *)
EachMomentOnce ==
    LET covers(spans, t) == {Rank(s.key) : s \in {x \in spans : x.from <= t /\ (x.to = None \/ t < x.to)}}
        under(ranks) == IF ranks = {} THEN "not_placed" ELSE Precedence[Min(ranks)]
        counted(spans, upTo) ==
            LET ats == {<<t, under(covers(spans, t))>> : t \in SentAt(f) .. upTo - 1}
            IN  {<<key, Cardinality({at \in ats : at[2] = key})>> : key \in {at[2] : at \in ats}}
        agrees(time, spans) ==
            time.measured =>
                /\ counted(spans, SentAt(f) + time.elapsed) \subseteq {<<part.key, part.secs>> : part \in time.parts}
                /\ MapThenSumSet(LAMBDA part : part.secs, time.parts) = time.elapsed
    IN  Sent => agrees(FeatureTime(f, now), Spans(f))

(* A delivery is never withdrawn or given another date by rows that come   *)
(* later: a fix build, a clean-up, the mission's closing (_assemble).      *)
DeliveredStays == [][Sent /\ DeliveredAt(f) # None => Standing(f').ended = DeliveredAt(f)]_vars

(* What a person answered stays as it was recorded, though more rows are   *)
(* written at the same door and the subject moves on (cards.py).           *)
AnswersStay ==
    [][\A c \in AllCards : c.answered => \A d \in AllCards' : d.req = c.req => d = c]_vars

(* Where the pages say that a feature waits for a person, they show the    *)
(* card that can be answered and list the wait among the issues, however   *)
(* old it is (factory.py's waits against cards.py's and issues.recent),    *)
(* and "Waiting for a person" has each open wait and each open card once.  *)
Behind(kind) ==
    IF kind = "spec approval" THEN {"spec", "checkpoint"}
    ELSE IF kind = "build approval" THEN {"build_gate", "paused"} ELSE {"merge"}
OpenWaitIsShown ==
    LET open == {w \in ToSet(FeatureWaits(f)) : w.to = None}
        cards == OpenCards(FeatureCards(f))
        listed == Recent(Issues, now, 0, 0).open
        needed == NeedsYou
    IN  /\ \A w \in open :
            /\ \E c \in cards : c.kind \in Behind(w.kind)
            /\ \E i \in listed : i.kind = w.kind /\ i.opened = w.from
            /\ \E i \in needed : i.what = w.kind /\ i.since = w.from
        /\ \A c \in cards : Cardinality({i \in needed : c \in i.cards}) = 1

(* A feature that ended in a failure has an open issue that says so, until *)
(* the same request is sent again, and no other feature has one; the same  *)
(* of a mission whose own merge failed last (issues.find_issues against    *)
(* factory._where).                                                        *)
FailureHasIssue ==
    /\ Sent /\ resent = {} => (Standing(f).outcome \in Failures <=> Blamed(Issues))
    /\ Merges # <<>> => (MergeCheckFailed(f.mission.merge) # None <=> Blamed(MissionIssues(f.mission, Merges, now)))

(* A feature shown as on track has no open issue beyond green: the signals *)
(* and the issues, worked out apart, agree (norms.on_track, issues.py).    *)
OnTrackHasNoIssue ==
    Sent /\ OnTrack(f, now) = "G" => \A i \in StillOpen(Issues) : i.band = "G"

(* norms.quiet_spell says that a stalled feature "is not waiting for a     *)
(* person": no card of it is open.                                         *)
StalledIsNotWaiting ==
    Sent /\ StallIssue(f, now) # {} => OpenCards(FeatureCards(f)) = {}
=============================================================================
