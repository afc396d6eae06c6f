------------------------------- MODULE Pages -------------------------------
(***************************************************************************)
(* What the pages show of one moment of the store: the views of            *)
(* backend/readmodel/dbread.py, as operators of a store s.  What a         *)
(* feature, its issues and its time are is the record family's (module     *)
(* Factory and its neighbours); here a store says how far each has come.   *)
(* Times are in days of the London calendar.                               *)
(***************************************************************************)
EXTENDS Integers, FiniteSets, FiniteSetsExt

CONSTANTS
    Features,     \* [key, code, project, sent, ends, how, tags, time]; how is delivered or stopped
    Missions,     \* [key, project, sent, tags]
    Issues,       \* [key, about, live, opened, closes]: about a feature or a mission; live for a wait or a stall
    ModelCalls,   \* [key, tag, at]
    Milestones,   \* [key, tenant, codes, project, target]; target is NoDay when it has none
    Clients,      \* client -> the projects configured for it: none when they cannot be read
    Now, TaggingStarted

(* What the pages are made of: a feature has a key and at most one code of *)
(* its own, an issue is about a feature or a mission, nothing is recorded  *)
(* before it happens, and a call has a tag only since tagging started.     *)
ASSUME PagesAssumption ==
    /\ IsFiniteSet(Features) /\ IsFiniteSet(Missions) /\ IsFiniteSet(Issues) /\ Now \in Nat /\ TaggingStarted \in Int
    /\ \A f \in Features : f.how \in {"delivered", "stopped"} /\ f.sent \in 0..Now /\ f.ends \in 0..Now
    /\ \A f, g \in Features : f.key = g.key \/ (f.code = g.code /\ f.code # "") => f = g
    /\ \A i \in Issues : i.about \in Features \cup Missions
    /\ \A i, j \in Issues : i.key = j.key => i = j
    /\ \A x \in Features \cup Missions : "" \notin x.tags
    /\ \A c \in ModelCalls : c.at \in 0..Now /\ (c.tag # "" => c.at >= TaggingStarted)
    /\ "operator" \notin DOMAIN Clients /\ \A c \in DOMAIN Clients : "" \notin Clients[c]

(* A store s, by keys: s.is is unsent, running or how a feature ended;     *)
(* s.issue is none, open or closed; s.calls are stored; s.read says        *)
(* whether the spend log was ever read, s.fresh the record lately.         *)
NoDay == -1
NoProject == ""
Operator == "operator"
Everything == {x.project : x \in Features \cup Missions} \cup {NoProject}     \* no restriction (None)

(* Mutant: a client without projects is given every project.               *)
InScopeOrNone(project, scope) == scope = {} \/ project \in scope
InScope(project, scope) == project \in scope
TenantProjects(tenant) == IF tenant = Operator THEN Everything ELSE Clients[tenant]

OnRecord(s) == {f \in Features : s.is[f.key] # "unsent"}
In(s, scope) == {f \in OnRecord(s) : InScope(f.project, scope)}
InProgress(s, scope) == {f \in In(s, scope) : s.is[f.key] = "running"}
Delivered(s, scope) == {f \in In(s, scope) : s.is[f.key] = "delivered"}
Within(t, w) == w.from <= t /\ t < w.to
DeliveredIn(s, w, scope) == {f \in Delivered(s, scope) : Within(f.ends, w)}
OtherEndings(s, w) == {f \in OnRecord(s) : s.is[f.key] = "stopped" /\ Within(f.ends, w)}
Projects(s) == ({f.project : f \in OnRecord(s)} \cup {m.project : m \in Missions}) \ {NoProject}

(* features_view: the last days, all of them when days is 0.               *)
FeaturesView(s, days) ==
    {f \in OnRecord(s) : days = 0 \/ s.is[f.key] = "running" \/ f.sent >= Now - days}

(* recent: the open issues that are listed, and how many old failures are  *)
(* left out.                                                               *)
OpenIssues(s, scope) == {i \in Issues : s.issue[i.key] = "open" /\ InScope(i.about.project, scope)}
Old(i) == ~i.live /\ i.opened < Now - 14
Recent(I) == [listed |-> {i \in I : ~Old(i)}, hidden |-> Cardinality({i \in I : Old(i)})]
IssuesView(s) == Recent(OpenIssues(s, Everything))

----------------------------------------------------------------------------
(* Cost and time.                                                          *)

BeforeTagging(f) == f.sent < TaggingStarted
Measured(s, p) == {f \in In(s, {p}) : ~BeforeTagging(f)}
MissionsOf(p) == {m \in Missions : m.project = p}
ProjectTags(s, p) == UNION {x.tags : x \in Measured(s, p) \cup MissionsOf(p)}
HasWorkSinceTagging(s, p) == \E x \in In(s, {p}) \cup MissionsOf(p) : ~BeforeTagging(x)

(* tagged_spend: the calls of the projects' tags that started in w.        *)
AllTime == [from |-> 0, to |-> Now + 1]
TaggedSpend(s, P, w) ==
    IF ~s.read THEN [state |-> "not_available", calls |-> {}]
    ELSE IF P \cap Projects(s) = {} \/ w.to <= TaggingStarted \/ ~\E p \in P : HasWorkSinceTagging(s, p)
    THEN [state |-> "not_measured", calls |-> {}]
    ELSE [state |-> "measured", calls |-> {c \in s.calls : Within(c.at, w) /\ \E p \in P : c.tag \in ProjectTags(s, p)}]

FeatureSpend(s, f, w) ==
    IF ~s.read THEN [state |-> "not_available", calls |-> {}]
    ELSE IF BeforeTagging(f) THEN [state |-> "not_measured", calls |-> {}]
    ELSE [state |-> "measured", calls |-> {c \in s.calls : Within(c.at, w) /\ c.tag \in f.tags}]

(* sum_time: the features whose time can be measured, and how many cannot. *)
Unmeasured == -1
SumTime(S) ==
    LET known == {f \in S : f.time # Unmeasured}
    IN  [features |-> known, left_out |-> Cardinality(S \ known), elapsed |-> MapThenSumSet(LAMBDA f : f.time, known)]

(* cost_summary and time_summary of a project.                             *)
CostSummary(s, p, w) == [spend |-> TaggedSpend(s, {p}, w), left_out |-> Cardinality(In(s, {p}) \ Measured(s, p))]
TimeSummary(s, p, w) == SumTime({f \in In(s, {p}) : Within(f.sent, w)})

----------------------------------------------------------------------------
(* A project's page, and its row among the projects.                       *)

ProjectView(s, p) ==
    LET open == Recent(OpenIssues(s, {p}))
        delivered == Delivered(s, {p})
    IN  [in_progress |-> Cardinality(InProgress(s, {p})), delivered_total |-> Cardinality(delivered),
         delivered_7d |-> Cardinality({f \in delivered : f.ends >= Now - 7}),
         issues |-> open.listed, hidden |-> open.hidden, open_issues_total |-> Cardinality(open.listed) + open.hidden,
         spend |-> TaggedSpend(s, {p}, AllTime), time |-> SumTime(In(s, {p}))]

ProjectRow(s, p) ==
    LET open == Recent(OpenIssues(s, {p}))
    IN  [in_progress |-> Cardinality(InProgress(s, {p})), delivered |-> Cardinality(Delivered(s, {p})),
         open_issues |-> Cardinality(open.listed) + open.hidden, spend |-> TaggedSpend(s, {p}, AllTime),
         time |-> SumTime(In(s, {p}))]

(* project_weeks: the last weeks, from Monday.                             *)
ProjectWeeks == 8
WeekOf(t) == LET monday == t - (t % 7) IN [from |-> monday, to |-> monday + 7]
Weeks(s, p) ==
    [n \in 0..ProjectWeeks - 1 |->
        LET w == WeekOf(Now - 7 * n)
            sent == {f \in In(s, {p}) : Within(f.sent, w)}
        IN  [sent |-> Cardinality(sent), delivered |-> Cardinality(DeliveredIn(s, w, {p})), time |-> SumTime(sent),
             spend |-> TaggedSpend(s, {p}, w), untagged |-> {c \in s.calls : Within(c.at, w) /\ c.tag = ""}]]

----------------------------------------------------------------------------
(* The weekly report of a tenant, and what a client may be sent of it.     *)

Codes(S) == {f.code : f \in S} \ {""}

(* _plan_rows: the milestones in scope and what each tracks.  A feature on *)
(* record outside the scope is dropped; a planned code has no record yet.  *)
Covers(s, m, scope) ==
    /\ scope # {}
    /\ m.project # NoProject => InScope(m.project, scope)
    /\ m.project = NoProject /\ scope # Everything => m.codes \cap Codes(In(s, scope)) # {}
Tracked(s, m, scope) ==
    IF m.codes # {} THEN m.codes \ (Codes(OnRecord(s)) \ Codes(In(s, scope)))
    ELSE IF m.project = NoProject THEN {} ELSE Codes({f \in In(s, scope) : f.project = m.project})
Deviation(s, m, scope, ref) ==
    LET done == {f \in Delivered(s, scope) : f.code \in Tracked(s, m, scope)}
    IN  IF done # {} /\ Codes(done) = Tracked(s, m, scope)
        THEN IF m.target # NoDay /\ \A f \in done : f.ends < m.target THEN "ahead" ELSE "on_target"
        ELSE IF m.target # NoDay /\ m.target <= ref THEN "behind" ELSE "on_target"

WeeklyReport(s, tenant, w) ==
    LET scope == TenantProjects(tenant)
        plan == {m \in Milestones : m.tenant = tenant /\ Covers(s, m, scope)}
        issues(stage, T(_)) == {i \in Issues : s.issue[i.key] \in stage /\ InScope(i.about.project, scope) /\ Within(T(i), w)}
    IN  [withheld |-> ~s.fresh, delivered |-> DeliveredIn(s, w, scope), in_flight |-> InProgress(s, scope),
         plan |-> [m \in plan |-> Deviation(s, m, scope, Min({w.to - 1, Now}))],
         tracked |-> UNION {Tracked(s, m, scope) : m \in plan},
         opened |-> issues({"open", "closed"}, LAMBDA i : i.opened), closed |-> issues({"closed"}, LAMBDA i : i.closes),
         spend |-> TaggedSpend(s, IF scope = Everything THEN Projects(s) ELSE scope, w)]

(* export_report: no issues, no work in progress and no costs.             *)
Export(s, tenant, w) ==
    LET r == WeeklyReport(s, tenant, w)
    IN  [delivered |-> r.delivered, milestones |-> r.plan, withheld |-> r.withheld]
=============================================================================
