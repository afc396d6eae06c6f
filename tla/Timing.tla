------------------------------- MODULE Timing -------------------------------
(***************************************************************************)
(* backend/readmodel/timing.py: how the time since a feature was sent      *)
(* divides into machine time, waiting and the gaps between steps.          *)
(***************************************************************************)
EXTENDS Factory

CONSTANTS UnbackedEnd,        \* a completion this long after the last row was written by a clean-up
          StartWrittenAtEnd   \* a start this near its completion was written with it

(* Which period a moment is counted under when several cover it.           *)
Precedence == <<"approvals", "merge_decision", "merge_check", "building", "planning", "queue", "mission_merge">>
Periods == ToSet(Precedence) \cup {"not_placed"}
Rank(key) == CHOOSE i \in DOMAIN Precedence : Precedence[i] = key

LastRowAt(b) == Latest({s.at : s \in ToSet(b.stages)})

(* The row with the latest time, and of those the highest id.              *)
FinalRow(b) ==
    b.stages[Max({i \in DOMAIN b.stages : b.stages[i].at = LastRowAt(b)})]

(* A later clean-up closed the build: its completion is long after its     *)
(* last row, and that row was not a wait for a person.                     *)
ClosedLate(b) ==
    /\ b.completed # None
    /\ b.status \notin BuildActive
    /\ IF b.stages = <<>>
       THEN LET start == FirstRecorded(<<b.started, b.queued>>)
            IN  start # None /\ b.completed - start > UnbackedEnd
       ELSE /\ FinalRow(b).kind \notin {"pause", "offer"}
            /\ b.completed - LastRowAt(b) > UnbackedEnd

(* started_at, except where it was written at a completion the record      *)
(* backs: then the runner's first row is the start.                        *)
BuildStart(b) ==
    LET firsts == {s.at : s \in ToSet(OfKind(b.stages, {"pause", "work", "skip"}))}
        defect == /\ b.started # None /\ b.completed # None
                  /\ b.completed - b.started \in (-StartWrittenAtEnd)..StartWrittenAtEnd
                  /\ ~ClosedLate(b)
    IN  IF defect /\ firsts # {} THEN Min({b.started, Min(firsts)}) ELSE b.started

BuildEnd(b) ==
    IF b.status \in BuildActive THEN None ELSE FirstRecorded(<<b.completed, LastRowAt(b), b.started>>)

Span(key, from, to, open) == [key |-> key, from |-> from, to |-> to, open |-> open]

(* From the approving decision to the last merge step after it.            *)
MergeCheck(b) ==
    LET said == MergeDecision(b)
        after == {s.at : s \in {r \in ToSet(b.stages) : r.kind \in MergeSteps /\ r.at >= said.at}}
        landed == FirstRecorded(<<BuildDelivered(b), BuildLanded(b), MergeCheckFailed(b)>>)
        merging == landed = None /\ b.status \notin BuildBroken
    IN  IF ~Approved(b) THEN {}
        ELSE {Span("merge_check", said.at, IF merging THEN None ELSE Max(after \cup {said.at}), merging)}

QueueSpans(f) ==
    LET q == f.queue
        left == FirstRecorded(<<q.admitted, IF q.status = "QUEUED" THEN None ELSE q.closed>>)
    IN  IF q = None THEN {}
        ELSE {Span("queue", q.queued, left, left = None /\ InProgress(f))}

PlanningSpans(f) ==
    LET run == f.planning
        begun == FirstRecorded(<<run.started, IF run.state = "QUEUED" THEN None ELSE run.completed>>)
        working == run.state \in PlanningActive \ {"QUEUED"} /\ OpenWait(FeatureWaits(f)) = None
    IN  IF run = None THEN {}
        ELSE {Span("queue", run.queued, begun, begun = None /\ InProgress(f))}
             \cup {Span("planning", run.started, run.completed, working) : x \in {run.started} \ {None}}

BuildSpans(f, b) ==
    LET start == BuildStart(b)
        waiting == b.status \in {"QUEUED", "PREPARING"}
        left == FirstRecorded(<<start, IF waiting THEN None ELSE b.completed>>)
        running == b.status \in {"RUNNING", "FINALISING"} /\ OpenWait(FeatureWaits(f)) = None
    IN  {Span("queue", b.queued, left, left = None /\ waiting)}
        \cup {Span("building", start, BuildEnd(b), running) : x \in {start} \ {None}}
        \cup MergeCheck(b)

WaitSpans(f) ==
    {Span(IF w.kind = "merge decision" THEN "merge_decision" ELSE "approvals", w.from, w.to, w.to = None) :
        w \in ToSet(FeatureWaits(f))}

MissionSpans(f) ==
    LET landed == Earliest({BuildLanded(b) : b \in ToSet(f.builds)})
        end == FirstRecorded(<<MissionDelivered(f.mission), f.mission.closed>>)
    IN  IF f.mission = None \/ landed = None THEN {}
        ELSE {Span("mission_merge", landed, end, end = None /\ InProgress(f))}

Spans(f) ==
    QueueSpans(f) \cup PlanningSpans(f) \cup (UNION {BuildSpans(f, b) : b \in ToSet(f.builds)})
    \cup WaitSpans(f) \cup MissionSpans(f)

(* The spans inside [lo, hi]; one without an end runs to hi.               *)
Clipped(spans, lo, hi) ==
    LET cut(s) == [key |-> s.key, from |-> Max({s.from, lo}), to |-> IF s.to = None THEN hi ELSE Min({s.to, hi})]
    IN  {c \in {cut(s) : s \in spans} : c.to > c.from}

(* Mutant: every period adds up its own spans, overlapping or not.         *)
SweepEach(spans, lo, hi) ==
    LET of(key) == {c \in Clipped(spans, lo, hi) : c.key = key}
    IN  [key \in Periods |-> MapThenSumSet(LAMBDA c : c.to - c.from, of(key))]

(* Time per period over [lo, hi], cut at every start and end: each piece   *)
(* under the first period of Precedence that covers it.                    *)
Sweep(spans, lo, hi) ==
    LET clipped == Clipped(spans, lo, hi)
        cuts == {lo, hi} \cup {c.from : c \in clipped} \cup {c.to : c \in clipped}
        pieces == {p \in cuts \X cuts : p[1] < p[2] /\ ~\E c \in cuts : p[1] < c /\ c < p[2]}
        covering(p) == {Rank(c.key) : c \in {s \in clipped : s.from <= p[1] /\ s.to >= p[2]}}
        under(ranks) == IF ranks = {} THEN "not_placed" ELSE Precedence[Min(ranks)]
        placed == {[from |-> p[1], secs |-> p[2] - p[1], key |-> under(covering(p))] : p \in pieces}
    IN  [key \in Periods |-> MapThenSumSet(LAMBDA p : p.secs, {p \in placed : p.key = key})]

(* Measured is FALSE when a build was closed by a clean-up: the record     *)
(* does not say how the time was spent.                                    *)
Ended(f) ==
    LET s == Standing(f) IN IF s.outcome \in Unfinished THEN None ELSE s.ended
Parts(secs, open) ==
    {part \in {[key |-> k, secs |-> secs[k], open |-> k \in open] : k \in Periods} : part.secs > 0 \/ part.open}
TimeFrom(sent, stop, spans, soFar, measured) ==
    [elapsed |-> stop - sent, soFar |-> soFar, measured |-> measured,
     parts |-> IF measured THEN Parts(Sweep(spans, sent, stop), {s.key : s \in {x \in spans : x.open}}) ELSE {}]
FeatureTime(f, now) ==
    LET ended == Ended(f)
        sent == SentAt(f)
    IN  TimeFrom(sent, Max({FirstRecorded(<<ended, now>>), sent}), Spans(f), ended = None,
                 \A b \in ToSet(f.builds) : ~ClosedLate(b))
=============================================================================
