------------------------------- MODULE Norms -------------------------------
(***************************************************************************)
(* backend/readmodel/norms.py and issues.py: a feature's signals against   *)
(* the thresholds, and the issues worked out from the record.              *)
(***************************************************************************)
EXTENDS Factory

CONSTANT Norm    \* what each signal is measured against

Signaled == {"attempts", "planning", "build", "stall", "waiting", "quiet"}
ASSUME NormAssumption == Norm \in [Signaled -> [green : Int, amber : Int]]

Band(norm, v) == IF v <= norm.green THEN "G" ELSE IF v <= norm.amber THEN "A" ELSE "R"
Measured(norm, v) == IF v = None THEN "gap" ELSE Band(norm, v)
Worst(bands) == IF "R" \in bands THEN "R" ELSE IF "A" \in bands THEN "A" ELSE "G"

WaitSecs(w, now) == Max({0, (IF w.to = None THEN now ELSE w.to) - w.from})

(* Nothing recorded since, for a feature in progress that has no open      *)
(* wait: a working planning run against the planning stall threshold,      *)
(* anything else against the longer one.                                   *)
QuietSpell(f, now) ==
    LET run == f.planning
        planning == f.builds = <<>> /\ run # None /\ run.state \in PlanningActive \ {"QUEUED"}
        secs == Max({0, now - LastActivity(f)})
    IN  IF \/ Standing(f).outcome # "in_progress"
           \/ OpenWait(FeatureWaits(f)) # None
           \/ LastActivity(f) = None
        THEN None
        ELSE [since |-> LastActivity(f), secs |-> secs, planning |-> planning,
              band |-> Band(IF planning THEN Norm.stall ELSE Norm.quiet, secs)]

(* Mutant: silence is a signal in planning only.                           *)
StallPlanningOnly(f, now) ==
    LET q == QuietSpell(f, now) IN IF q # None /\ q.planning THEN q.band ELSE "gap"

StallSignal(q) == IF q # None /\ (q.planning \/ q.band # "G") THEN q.band ELSE "gap"
Stall(f, now) ==
    IF ~InProgress(f) \/ OpenWait(FeatureWaits(f)) # None THEN "gap" ELSE StallSignal(QuietSpell(f, now))

LongestWait(waits, now) == IF waits = <<>> THEN None ELSE Max({WaitSecs(w, now) : w \in ToSet(waits)})
Signals(f, now) ==
    [attempts |-> IF f.builds = <<>> THEN "gap" ELSE Band(Norm.attempts, Len(f.builds)),
     planning |-> Measured(Norm.planning, PlanningTime(f, now)),
     build |-> Measured(Norm.build, BuildTime(f, now)),
     stall |-> Stall(f, now),
     waiting |-> Measured(Norm.waiting, LongestWait(FeatureWaits(f), now))]

(* The worst measured band; a feature that finished undelivered shows how  *)
(* it ended instead, red for the factory's own failures.                   *)
Shown(outcome, signals) ==
    LET bands == {signals[s] : s \in DOMAIN signals} \ {"gap"}
    IN  IF outcome \in Failures THEN "R"
        ELSE IF outcome \notin Unfinished \cup {"delivered"} \/ bands = {} THEN "gap"
        ELSE Worst(bands)
OnTrack(f, now) == Shown(Standing(f).outcome, Signals(f, now))

----------------------------------------------------------------------------
(* Issues.                                                                 *)

Issue(kind, band, opened, closed) == [kind |-> kind, band |-> band, opened |-> opened, closed |-> closed]

WaitIssues(waits, now) ==
    {Issue(w.kind, Band(Norm.waiting, WaitSecs(w, now)), w.from, w.to) :
        w \in {x \in ToSet(waits) : x.to = None \/ Band(Norm.waiting, WaitSecs(x, now)) # "G"}}

(* Mutant: a build's failure is read off its status, not its merge steps.  *)
BuildIssueByStatus(f, resent, i) ==
    LET b == f.builds[i]
        next == IF i < Len(f.builds) THEN f.builds[i + 1].queued ELSE None
    IN  IF b.status = "FAILED" THEN {Issue("Build failed", "R", b.completed, FirstRecorded(<<next, DeliveredAt(f)>>))}
        ELSE {}

(* A build's failure closes when the next build is queued, the feature is  *)
(* delivered, or the same request is sent again (resent: those times).     *)
ResentAfter(resent, t) == Earliest({r \in resent : r > t})
BuildIssue(f, resent, i) ==
    LET b == f.builds[i]
        next == IF i < Len(f.builds) THEN f.builds[i + 1].queued ELSE None
        closed == FirstRecorded(<<next, DeliveredAt(f)>>)
        ended == FirstRecorded(<<b.completed, b.queued, SentAt(f)>>)
        orResent(t) == IF closed = None THEN ResentAfter(resent, t) ELSE closed
    IN  IF MergeCheckFailed(b) # None THEN
            {Issue("Merge check failed", "R", MergeCheckFailed(b), orResent(MergeCheckFailed(b)))}
        ELSE IF b.status = "FAILED" THEN {Issue("Build failed", "R", ended, orResent(ended))}
        ELSE IF b.status = "CANCELLED" THEN {Issue("Build cancelled", "A", ended, orResent(ended))}
        ELSE IF b.status = "INTERRUPTED" THEN {Issue("Build interrupted", "A", ended, closed)}
        ELSE {}

PlanningIssue(f, resent, now) ==
    LET when == FirstRecorded(<<f.planning.completed, f.planning.queued, now>>)
    IN  IF Standing(f).outcome # "planning_failed" THEN {}
        ELSE {Issue("Planning failed", "R", when, ResentAfter(resent, when))}

StallIssue(f, now) ==
    {Issue("Stalled", q.band, q.since, None) : q \in {x \in {QuietSpell(f, now)} \ {None} : x.band # "G"}}

(* A mission's own merge: each failed step closes at the next step or the  *)
(* next merge build; a failed build without one stands for itself.         *)
MergeIssues(m, merges, i) ==
    LET b == merges[i]
        next == IF i < Len(merges) THEN merges[i + 1].queued ELSE None
        steps == OfKind(b.stages, MergeSteps)
        failed == {j \in DOMAIN steps : steps[j].kind = "merge_failed"}
        when == FirstRecorded(<<b.completed, b.queued, m.created>>)
    IN  IF failed = {} /\ b.status = "FAILED" THEN {Issue("Merge check failed", "R", when, next)}
        ELSE {Issue("Merge check failed", "R", steps[j].at,
                    IF j < Len(steps) THEN steps[j + 1].at ELSE next) : j \in failed}
MissionIssues(m, merges, now) ==
    (IF m.merge = None THEN {} ELSE WaitIssues(BuildWaits(m.merge, TRUE), now))
    \cup UNION {MergeIssues(m, merges, i) : i \in DOMAIN merges}

FeatureIssues(f, resent, now) ==
    (UNION {BuildIssue(f, resent, i) : i \in DOMAIN f.builds})
    \cup PlanningIssue(f, resent, now) \cup WaitIssues(FeatureWaits(f), now) \cup StallIssue(f, now)

LiveKinds == {"spec approval", "build approval", "merge decision", "Stalled"}
StillOpen(issues) == {i \in issues : i.closed = None}

(* What the page lists: open waits and stalls however old, open failures   *)
(* of the last days, and how many older ones it leaves out.                *)
Recent(issues, now, openDays, closedDays) ==
    LET old == {i \in StillOpen(issues) : i.kind \notin LiveKinds /\ i.opened < now - openDays}
    IN  [open |-> StillOpen(issues) \ old, hidden |-> Cardinality(old),
         closed |-> {i \in issues \ StillOpen(issues) : i.closed >= now - closedDays}]
=============================================================================
