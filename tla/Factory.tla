------------------------------ MODULE Factory ------------------------------
(***************************************************************************)
(* backend/readmodel/factory.py: what a feature's rows in the copy of      *)
(* Forge's record say.  Pure operators: nothing here has a state.          *)
(*                                                                         *)
(* A feature is [queue, planning, builds, mission], the first, second and  *)
(* last None when the record has none.  Times are integers, None a time    *)
(* that is not recorded.  A stage row or planning event is [at, kind, req, *)
(* who]: its kind stands for the label, target, status and detail blocks   *)
(* the code tells rows apart by, req for the card's request id, who for    *)
(* the recorded decided_by.                                                *)
(***************************************************************************)
EXTENDS Integers, FiniteSetsExt, SequencesExt

CONSTANT None

Recorded(T) == T \ {None}
Latest(T) == IF Recorded(T) = {} THEN None ELSE Max(Recorded(T))
Earliest(T) == IF Recorded(T) = {} THEN None ELSE Min(Recorded(T))

(* The first of a list of times that is recorded (Python's `or` chains).   *)
FirstRecorded(ts) ==
    LET known == {i \in DOMAIN ts : ts[i] # None} IN IF known = {} THEN None ELSE ts[Min(known)]

(* The rows at these places, and those of these kinds, oldest first; a row *)
(* without a time is skipped when the tables are read.                     *)
RowsAt(rows, places) ==
    LET upTo[i \in 0..Len(rows)] ==
            IF i = 0 THEN <<>> ELSE IF i \in places THEN Append(upTo[i - 1], rows[i]) ELSE upTo[i - 1]
    IN  upTo[Len(rows)]
OfKind(rows, kinds) == RowsAt(rows, {i \in DOMAIN rows : rows[i].kind \in kinds})
FirstAt(rows) == IF rows = <<>> THEN None ELSE rows[1].at
LastRow(rows) == rows[Len(rows)]

----------------------------------------------------------------------------
(* Builds.                                                                 *)

BuildActive == {"QUEUED", "PREPARING", "RUNNING", "PAUSED", "FINALISING"}
BuildBroken == {"FAILED", "CANCELLED", "INTERRUPTED"}

Paused == {"pause"}                       \* a gate_pause block, status GATED
Resumed == {"resume", "skip"}             \* a gate_resume block, or a person's cli-skip
Decided == {"approve", "decline"}         \* a merge_decision block with a decision
Gated == {"pause", "offer", "step"}       \* rows with status GATED
MergeSteps == {"step", "merged", "joined", "merge_failed"}   \* label merge-deploy

BuildDelivered(b) == IF b.role = "feature" THEN None ELSE FirstAt(OfKind(b.stages, {"merged"}))
BuildLanded(b) == FirstAt(OfKind(b.stages, {"joined"}))
MergeDecision(b) ==
    LET said == OfKind(b.stages, Decided) IN IF said = <<>> THEN None ELSE LastRow(said)
Approved(b) == MergeDecision(b) # None /\ MergeDecision(b).kind = "approve"
MergeOffered(b) == OfKind(b.stages, {"offer"}) # <<>>
MergeRetired(b) == FirstAt(OfKind(b.stages, {"retired"}))
MergeCheckFailed(b) ==
    LET steps == OfKind(b.stages, MergeSteps)
    IN  IF steps # <<>> /\ LastRow(steps).kind = "merge_failed" THEN LastRow(steps).at ELSE None

----------------------------------------------------------------------------
(* Planning runs.  An event's door is the stage label it belongs to.       *)

PlanningActive == {"QUEUED", "RUNNING", "PAUSED", "FEATURE_SPEC", "FEATURE_PLAN"}
DoorEvents(run, door) == RowsAt(run.events, {i \in DOMAIN run.events : run.events[i].door = door})

SpecApproved(run) ==
    \/ \E i \in DOMAIN run.events :
        \/ run.events[i].door = "spec_complete"
        \/ run.events[i].door = "spec" /\ run.events[i].kind \in {"approved", "skipped"}
    \/ run.state \in {"BUILD_QUEUED", "PLANNED_HANDOFF"}
RunRetired(run) == FirstAt(DoorEvents(run, "retired"))
NothingToBuild(run) == DoorEvents(run, "nothing") # <<>>
LastEvent(run) ==
    IF run.events # <<>> THEN LastRow(run.events).at ELSE FirstRecorded(<<run.started, run.queued>>)

----------------------------------------------------------------------------
(* Waits for a person.                                                     *)

Wait(kind, from, to) == [kind |-> kind, from |-> from, to |-> to]
NoWait == [since |-> None, seen |-> None, worked |-> FALSE, waits |-> <<>>]

(* Mutant: work recorded after a pause does not end the wait it began.     *)
WalkedThroughWork(kind, w, r) ==
    IF r.opens
    THEN [w EXCEPT !.since = IF @ = None THEN r.at ELSE @, !.seen = r.at, !.worked = FALSE]
    ELSE LET ends == r.closes /\ w.since # None
         IN  [w EXCEPT !.since = IF ends THEN None ELSE @, !.worked = @ \/ ~r.gated,
                       !.waits = IF ends THEN Append(@, Wait(kind, w.since, r.at)) ELSE @]

(* One row of _walk: since and seen are the open wait's first and last     *)
(* opening row, worked says that work was recorded after it.               *)
Walked(kind, w, r) ==
    IF r.opens
    THEN LET anew == w.since = None \/ w.worked
         IN  [since |-> IF anew THEN r.at ELSE w.since, seen |-> r.at, worked |-> FALSE,
              waits |-> IF w.since # None /\ w.worked
                        THEN Append(w.waits, Wait(kind, w.since, w.seen)) ELSE w.waits]
    ELSE LET ends == r.closes /\ w.since # None
         IN  [since |-> IF ends THEN None ELSE w.since, seen |-> w.seen, worked |-> w.worked \/ ~r.gated,
              waits |-> IF ends THEN Append(w.waits, Wait(kind, w.since, r.at)) ELSE w.waits]

(* The walk after each row.                                                *)
Walking(rows, kind) ==
    LET after[i \in 0..Len(rows)] == IF i = 0 THEN NoWait ELSE Walked(kind, after[i - 1], rows[i]) IN after
Walk(rows, stillWaiting, kind) ==
    LET w == Walking(rows, kind)[Len(rows)]
    IN  IF w.since = None THEN w.waits
        ELSE Append(w.waits, Wait(kind, w.since, IF stillWaiting THEN None ELSE w.seen))

Marked(rows, opens, closes, gated) ==
    [i \in DOMAIN rows |-> [at |-> rows[i].at, opens |-> rows[i].kind \in opens,
                            closes |-> rows[i].kind \in closes, gated |-> rows[i].kind \in gated]]
GateRows(b) == Marked(b.stages, Paused, Resumed, Gated)
OfferRows(b) == Marked(b.stages, {"offer"}, Decided \cup {"retired"}, Gated)
DoorRows(run, door) ==
    Marked(DoorEvents(run, door), {"GATED", "PAUSED"},
           {e.kind : e \in ToSet(run.events)} \ {"GATED", "PAUSED"}, {"GATED", "PAUSED"})

BuildWaits(b, isLatest) ==
    Walk(GateRows(b), b.status = "PAUSED", "build approval")
    \o Walk(OfferRows(b), isLatest /\ b.status \notin BuildBroken \cup {"SKIPPED"}, "merge decision")

PlanningWaits(run) ==
    Walk(DoorRows(run, "spec"), run.state \in PlanningActive, "spec approval")
    \o Walk(DoorRows(run, "product_docs"), run.state \in PlanningActive, "spec approval")

(* Every wait of a feature.  A mission's own merge wait is the mission's.  *)
FeatureWaits(f) ==
    (IF f.planning = None THEN <<>> ELSE PlanningWaits(f.planning))
    \o FlattenSeq([i \in DOMAIN f.builds |-> BuildWaits(f.builds[i], i = Len(f.builds))])

(* The open wait that began last, the later one of two that began together. *)
OpenWait(waits) ==
    LET open == {i \in DOMAIN waits : waits[i].to = None}
    IN  IF open = {} THEN None
        ELSE waits[CHOOSE i \in open : \A j \in open :
                     waits[j].from < waits[i].from \/ (waits[j].from = waits[i].from /\ j <= i)]

----------------------------------------------------------------------------
(* Where a feature stands: [station, outcome, text, ended].                *)

InQueue == 1
Planning == 2
SpecOK == 3
PlanOK == 4
Building == 5
Built == 6
MergeWord == 7
Merged == 8

Unfinished == {"in_progress", "on_mission_branch"}
Failures == {"build_failed", "merge_failed", "planning_failed"}
Stands(station, outcome, text, ended) ==
    [station |-> station, outcome |-> outcome, text |-> text, ended |-> ended]
Going(station, text) == Stands(station, "in_progress", text, None)

WhereQueue(item) ==
    IF item.status = "QUEUED" THEN Going(InQueue, "in the queue")
    ELSE IF item.status = "ADMITTED" THEN Going(Planning, "leaving the queue")
    ELSE Stands(InQueue, "stopped_in_queue", item.status, item.closed)

WherePlanning(run, open) ==
    LET reached == IF run.state = "BUILD_QUEUED" THEN PlanOK
                   ELSE IF SpecApproved(run) THEN SpecOK ELSE Planning
        stopAt == IF reached >= SpecOK THEN SpecOK ELSE Planning
    IN  IF RunRetired(run) # None THEN Stands(reached, "retired", "retired", RunRetired(run))
        ELSE IF run.state = "QUEUED" THEN Going(InQueue, "waiting for planning to start")
        ELSE IF run.state \in PlanningActive THEN
            IF open # None THEN Going(SpecOK, open.kind)
            ELSE IF reached >= SpecOK THEN Going(PlanOK, "writing the plan") ELSE Going(Planning, "planning")
        ELSE IF run.state = "BUILD_QUEUED" THEN Going(Building, "waiting for the build to start")
        ELSE IF run.state = "PLANNED_HANDOFF" THEN
            IF NothingToBuild(run) THEN Stands(Planning, "nothing_to_build", "already done", run.completed)
            ELSE Stands(PlanOK, "handed_off", "handed over", run.completed)
        ELSE IF run.state = "FAILED" THEN Stands(stopAt, "planning_failed", "planning failed", run.completed)
        ELSE Stands(stopAt, "planning_stopped", run.state, run.completed)

WhereBuild(b, mission, open) ==
    LET declined == MergeDecision(b) # None /\ ~Approved(b)
        landed == BuildLanded(b)
        retired == MergeRetired(b) # None /\ BuildDelivered(b) = None /\ landed = None
        waiting == open # None /\ open.kind \in {"build approval", "merge decision"}
        moving == \/ b.status \in BuildActive
                  \/ b.status = "COMPLETE" /\ MergeDecision(b) = None /\ ~retired /\ MergeOffered(b)
    IN  IF MergeCheckFailed(b) # None THEN
            Stands(Merged, "merge_failed", "merge check failed", MergeCheckFailed(b))
        ELSE IF retired /\ b.status = "COMPLETE" THEN
            Stands(MergeWord, "not_merged", "the offer was retired", MergeRetired(b))
        ELSE IF Approved(b) /\ landed = None /\ b.status \notin BuildBroken THEN
            Going(Merged, "merging and checking")
        ELSE IF moving THEN
            IF waiting THEN Going(IF open.kind = "build approval" THEN Building ELSE MergeWord, open.kind)
            ELSE IF b.status \in {"QUEUED", "PREPARING"} THEN Going(Building, "waiting for the build to start")
            ELSE IF b.status = "COMPLETE" THEN Going(MergeWord, "the merge decision is next")
            ELSE Going(Building, "building")
        ELSE IF b.status = "COMPLETE" THEN
            IF declined THEN Stands(MergeWord, "not_merged", "not merged", MergeDecision(b).at)
            ELSE IF landed # None /\ mission # None THEN
                IF mission.status \in {"NOT_MERGED", "REJECTED"}
                THEN Stands(Merged, "mission_not_merged", "the mission was not merged",
                            FirstRecorded(<<mission.closed, landed>>))
                ELSE Stands(Merged, "on_mission_branch", "on the mission's branch", None)
            ELSE Stands(Built, "built_no_merge", "built", b.completed)
        ELSE IF b.status = "FAILED" THEN Stands(Building, "build_failed", "build failed", b.completed)
        ELSE Stands(Building, "cancelled", b.status, b.completed)

Where(f) ==
    LET open == OpenWait(FeatureWaits(f))
    IN  IF f.builds # <<>> THEN WhereBuild(LastRow(f.builds), f.mission, open)
        ELSE IF f.planning # None THEN WherePlanning(f.planning, open)
        ELSE WhereQueue(f.queue)

(* A mission is [status, closed, stopping, merge, plan, approved, by, and  *)
(* the number of features its plan lists].  Its own merge is a build.      *)
MissionDelivered(m) ==
    IF m.merge = None THEN None ELSE FirstAt(OfKind(m.merge.stages, {"merged", "joined"}))

(* Mutant: the latest attempt that was merged gives the delivery its date. *)
DeliveredAtLatest(f) ==
    LET own == Latest({BuildDelivered(b) : b \in ToSet(f.builds)})
        onBranch == \E b \in ToSet(f.builds) : b.role = "feature" /\ BuildLanded(b) # None
    IN  IF own = None /\ f.mission # None /\ onBranch THEN MissionDelivered(f.mission) ELSE own

(* When the merge step of one of its builds passed; for a mission feature  *)
(* on the mission's branch, when the mission's own merge passed.           *)
DeliveredAt(f) ==
    LET own == Earliest({BuildDelivered(b) : b \in ToSet(f.builds)})
        onBranch == \E b \in ToSet(f.builds) : b.role = "feature" /\ BuildLanded(b) # None
    IN  IF own = None /\ f.mission # None /\ onBranch THEN MissionDelivered(f.mission) ELSE own

(* _assemble: a delivery overrides what the latest build says.             *)
Standing(f) ==
    IF DeliveredAt(f) = None THEN Where(f)
    ELSE Stands(Merged, "delivered", "merged and checked", DeliveredAt(f))

InProgress(f) == Standing(f).outcome \in Unfinished

SentAt(f) ==
    Earliest({IF f.queue = None THEN None ELSE f.queue.queued,
              IF f.planning = None THEN None ELSE f.planning.queued,
              IF f.builds = <<>> THEN None ELSE f.builds[1].queued})

(* The last thing Forge recorded for a feature.                            *)
LastActivity(f) ==
    LET ofRun == IF f.planning = None THEN {} ELSE {LastEvent(f.planning)}
        ofItem == IF f.queue = None THEN {} ELSE {f.queue.queued, f.queue.admitted, f.queue.closed}
        ofBuild(b) == {b.queued, b.started, b.completed} \cup {s.at : s \in ToSet(b.stages)}
        times == ofRun \cup ofItem \cup UNION {ofBuild(b) : b \in ToSet(f.builds)}
    IN  FirstRecorded(<<Latest(times), SentAt(f)>>)

(* From start to end, or now, less the waits that fall inside.             *)
MachineTime(start, end, waits, now) ==
    LET stop == IF end = None THEN now ELSE end
        inside(w) == Max({0, Min({IF w.to = None THEN now ELSE w.to, stop}) - Max({w.from, start})})
    IN  IF start = None THEN None
        ELSE Max({0, FoldLeft(LAMBDA left, w : left - inside(w), stop - start, waits)})
WaitsOf(f, kind) == LET waits == FeatureWaits(f) IN OfKind(waits, {kind})
PlanningTime(f, now) ==
    IF f.planning = None THEN None
    ELSE MachineTime(f.planning.started, f.planning.completed, WaitsOf(f, "spec approval"), now)
BuildTime(f, now) ==
    IF f.builds = <<>> THEN None
    ELSE LET b == LastRow(f.builds)
         IN  MachineTime(b.started, IF b.status \in BuildActive THEN None ELSE b.completed,
                         WaitsOf(f, "build approval"), now)
=============================================================================
