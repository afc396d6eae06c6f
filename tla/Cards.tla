------------------------------- MODULE Cards -------------------------------
(***************************************************************************)
(* backend/readmodel/cards.py: the cards the factory waits on a person     *)
(* for, and what each recorded once it closed.  A request id is            *)
(* <<stage, number>>: of what Forge packs into it the cards read its       *)
(* stage.  A closed card is answered only when a person's answer is on     *)
(* record; who and decision are then that answer.                          *)
(***************************************************************************)
EXTENDS Factory

DoorOpen == {"GATED", "reopened"}
PlanningOver == {"FAILED", "CANCELLED", "TIMED_OUT", "PLANNED_HANDOFF", "BUILD_QUEUED"}
StageOf(req) == req[1]
BuildGateStage == "autobuild"

OpenCard(kind, req, opened, answerable) ==
    [kind |-> kind, req |-> req, opened |-> opened, open |-> TRUE, answerable |-> answerable,
     answered |-> FALSE, who |-> None, decision |-> None, at |-> None]
Unanswered(kind, req, opened, at) ==
    [OpenCard(kind, req, opened, FALSE) EXCEPT !.open = FALSE, !.at = at]
Answered(kind, req, opened, who, decision, at) ==
    [Unanswered(kind, req, opened, at) EXCEPT !.answered = TRUE, !.who = who, !.decision = decision]

(* When a card with this request id was first shown, of rows that show it. *)
FirstShown(rows, req) == FirstAt(RowsAt(rows, {i \in DOMAIN rows : rows[i].req = req}))

(* _door_verdict: a person's answer names who and, unless it is a Stop,    *)
(* what was decided.                                                       *)
DoorVerdict(kind, req, opened, row) ==
    IF row.who # None /\ (row.decision # None \/ row.kind = "cancelled")
    THEN Answered(kind, req, opened, row.who, row.kind, row.at)
    ELSE Unanswered(kind, req, opened, row.at)

(* Mutant: the verdict is the last row recorded at the door.               *)
DoorCardLastRow(run, door) ==
    LET rows == DoorEvents(run, door)
        opens == {i \in DOMAIN rows : rows[i].kind \in DoorOpen /\ rows[i].req # None}
        last == Max(opens)
        req == rows[last].req
        shown == FirstShown(OfKind(rows, DoorOpen), req)
    IN  IF opens = {} THEN {}
        ELSE IF last < Len(rows) THEN {DoorVerdict(door, req, shown, LastRow(rows))}
        ELSE IF run.state \in PlanningOver THEN {Unanswered(door, req, shown, run.completed)}
        ELSE {OpenCard(door, req, shown, TRUE)}

(* The latest round of one planning door: the verdict is the first row     *)
(* after its latest opening.  A door reopened after a restart keeps its    *)
(* request id, and has been waiting since it first opened.                 *)
DoorCard(run, door) ==
    LET rows == DoorEvents(run, door)
        opens == {i \in DOMAIN rows : rows[i].kind \in DoorOpen /\ rows[i].req # None}
        last == Max(opens)
        req == rows[last].req
        shown == FirstShown(OfKind(rows, DoorOpen), req)
    IN  IF opens = {} THEN {}
        ELSE IF last < Len(rows) THEN {DoorVerdict(door, req, shown, rows[last + 1])}
        ELSE IF run.state \in PlanningOver THEN {Unanswered(door, req, shown, run.completed)}
        ELSE {OpenCard(door, req, shown, TRUE)}

(* The older assumptions checkpoint, answered in Slack.                    *)
CheckpointCard(run) ==
    LET paused == OfKind(run.events, {"GATED", "PAUSED"})
    IN  IF run.state # "PAUSED" \/ run.pending = None THEN {}
        ELSE {OpenCard("checkpoint", run.pending, IF paused = <<>> THEN run.started ELSE LastRow(paused).at, FALSE)}

(* Mutant: a paused build has a card only once its pause is in the log.    *)
GateCardRecorded(b) ==
    LET pauses == OfKind(b.stages, Paused)
        shown == FirstShown(pauses, b.pending)
    IN  IF b.status = "PAUSED" /\ shown # None THEN {OpenCard("build_gate", b.pending, shown, TRUE)} ELSE {}

(* A pause is the build gate only when its request id names that stage;    *)
(* any other pause is answered in Slack.  Who answered a gate is not       *)
(* recorded.  A build paused under a card not recorded yet shows none.     *)
GateCard(b) ==
    LET pauses == OfKind(b.stages, Paused)
        kindOf(req) == IF StageOf(req) = BuildGateStage THEN "build_gate" ELSE "paused"
        mine == FirstShown(pauses, b.pending)
        shown == FirstRecorded(<<mine, IF pauses = <<>> THEN b.started ELSE LastRow(pauses).at>>)
    IN  IF b.status = "PAUSED" /\ b.pending # None
        THEN {OpenCard(kindOf(b.pending), b.pending, shown, kindOf(b.pending) = "build_gate")}
        ELSE IF pauses = <<>> \/ b.status = "PAUSED" THEN {}
        ELSE LET last == LastRow(pauses) IN {Unanswered(kindOf(last.req), last.req, last.at, None)}

MergeCard(b) ==
    LET offers == OfKind(b.stages, {"offer"})
        req == LastRow(offers).req
        shown == FirstShown(offers, req)
        said == MergeDecision(b)
    IN  IF offers = <<>> THEN {}
        ELSE IF said # None THEN
            IF said.who # None THEN {Answered("merge", req, shown, said.who, said.kind, said.at)}
            ELSE {Unanswered("merge", req, shown, said.at)}
        ELSE IF MergeRetired(b) # None THEN {Unanswered("merge", req, shown, MergeRetired(b))}
        ELSE {OpenCard("merge", req, shown, TRUE)}

(* Answerable only when the whole plan is in the copy.                     *)
MissionPlanCard(m) ==
    IF m.plan = None THEN {}
    ELSE IF m.status = "PROPOSED" /\ m.approved = None
         THEN {OpenCard("mission_plan", m.plan, m.created, m.features > 0)}
    ELSE IF m.by # None THEN {Answered("mission_plan", m.plan, m.created, m.by, "approve", m.approved)}
    ELSE {Unanswered("mission_plan", m.plan, m.created,
                     IF m.status \in {"REJECTED", "NOT_STARTED"} THEN m.closed ELSE None)}

BuildCards(b) == GateCard(b) \cup MergeCard(b)
FeatureCards(f) ==
    (IF f.planning = None THEN {}
     ELSE DoorCard(f.planning, "spec") \cup DoorCard(f.planning, "sign_in") \cup CheckpointCard(f.planning))
    \cup UNION {BuildCards(b) : b \in ToSet(f.builds)}
MissionCards(m) == MissionPlanCard(m) \cup IF m.merge = None THEN {} ELSE BuildCards(m.merge)

OpenCards(cards) == {c \in cards : c.open}
=============================================================================
