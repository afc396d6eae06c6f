------------------------------ MODULE Reading ------------------------------
(***************************************************************************)
(* A question put to the record (backend/chat/tools.py): one read snapshot *)
(* of the store for the names it resolves, the page views it is made of    *)
(* and the note on freshness, while the feed goes on committing passes.    *)
(***************************************************************************)
EXTENDS Pages, Sequences

CONSTANTS
    FeatureTier,   \* [names -> [features -> how well the name matches]]
    ProjectTier,   \* the same of projects
    Questions,     \* [query, feature, project, window]
    MaxListed,
    MaxPasses      \* bound on passes committed while one question is read, for TLC

ASSUME ReadingAssumption == MaxListed \in Nat

VARIABLES
    store,     \* the dashboard's store, as the last commit left it
    reader     \* idle, or [at, question, snap, saw, passes]: the snapshot, and the store each read saw

readVars == <<store, reader>>

Nothing == "none"      \* no name given
BadPeriod == [from |-> 1, to |-> 0]
Idle == [at |-> "idle"]
Reads == 4             \* the names, the page, a project's page beside it, the note

----------------------------------------------------------------------------
(* Names.  Tiers, best first: 1 a code, id or exact name, 2 a title or     *)
(* short name, 3 inside it, 4 every word; 5 similar words; 9 no match.     *)

BestOf(S, tier) == {x \in S : tier[x] <= 4 /\ \A y \in S : tier[x] <= tier[y]}
FindFeatures(s, name) == BestOf(OnRecord(s), FeatureTier[name])
SuggestFeatures(s, name) == {f \in OnRecord(s) : FeatureTier[name][f] = 5}
FindProjects(s, name) == BestOf({f.project : f \in OnRecord(s)} \ {NoProject}, ProjectTier[name])

(* A found record, or the question that is put back.                       *)
Only(kind, found, near) ==
    IF Cardinality(found) = 1 THEN [kind |-> kind, is |-> CHOOSE x \in found : TRUE]
    ELSE IF found \cup near # {} THEN [kind |-> "ambiguous", is |-> found \cup near]
    ELSE [kind |-> "not_found", is |-> {}]

NeedsProject == {"project_summary", "cost_summary", "time_summary"}
About(s, q) ==
    IF q.feature # Nothing THEN Only("feature", FindFeatures(s, q.feature), SuggestFeatures(s, q.feature))
    ELSE IF q.project # Nothing THEN Only("project", FindProjects(s, q.project), {})
    ELSE IF q.query \in NeedsProject THEN [kind |-> "no_scope", is |-> {}]
    ELSE [kind |-> "every", is |-> Everything]
ScopeOf(about) == IF about.kind = "project" THEN {about.is} ELSE Everything

----------------------------------------------------------------------------
(* The store and the reader.                                               *)

(* A pass commits: a feature or an issue goes one step on, a call is       *)
(* stored, or the record is only read again.                               *)
Passed(s) ==
    \/ \E f \in Features :
         \/ s.is[f.key] = "unsent" /\ store' = [s EXCEPT !.is[f.key] = "running", !.fresh = TRUE]
         \/ s.is[f.key] = "running" /\ store' = [s EXCEPT !.is[f.key] = f.how, !.fresh = TRUE]
    \/ \E i \in Issues :
         \/ /\ s.issue[i.key] = "none" /\ (i.about \in Missions \/ i.about \in OnRecord(s))
            /\ store' = [s EXCEPT !.issue[i.key] = "open", !.fresh = TRUE]
         \/ s.issue[i.key] = "open" /\ store' = [s EXCEPT !.issue[i.key] = "closed", !.fresh = TRUE]
    \/ \E c \in ModelCalls \ s.calls : store' = [s EXCEPT !.calls = @ \cup {c}, !.read = TRUE]
    \/ ~s.fresh /\ store' = [s EXCEPT !.fresh = TRUE]
Pass ==
    /\ Passed(store)
    /\ \/ reader = Idle /\ UNCHANGED reader
       \/ /\ reader # Idle /\ reader.passes < MaxPasses        \* bound
          /\ reader' = [reader EXCEPT !.passes = @ + 1]

(* _with_store: the snapshot is fixed before anything is read.  A period   *)
(* that cannot be read is answered without the store.                      *)
OpenSnapshot ==
    /\ reader = Idle
    /\ \E q \in Questions :
         /\ q.window # BadPeriod
         /\ reader' = [at |-> "reading", question |-> q, snap |-> store, saw |-> <<>>, passes |-> 0]
    /\ UNCHANGED store

(* Mutant: a view opens a connection of its own (no conn=).                *)
SeenNow == store
Seen == reader.snap
Read ==
    /\ reader # Idle /\ Len(reader.saw) < Reads
    /\ reader' = [reader EXCEPT !.saw = Append(@, Seen)]
    /\ UNCHANGED store

ReadInit ==
    /\ store \in [is : {[k \in {f.key : f \in Features} |-> "unsent"]}, issue : {[k \in {i.key : i \in Issues} |-> "none"]},
                  calls : {{}}, read : {FALSE}, fresh : BOOLEAN]
    /\ reader = Idle
ReadNext == Pass \/ OpenSnapshot \/ Read
ReadSpec == ReadInit /\ [][ReadNext]_readVars

----------------------------------------------------------------------------
(* The answers, of the stores their reads saw.                             *)

Listed(rows) == Min({Cardinality(rows), MaxListed})
More(rows) == Cardinality(rows) - Listed(rows)

FeatureStatus(saw, f) ==
    [page |-> f \in OnRecord(saw[2]), status |-> saw[2].is[f.key],
     stopped |-> saw[1].is[f.key] \notin {"running", "delivered"}, delivered_on |-> saw[1].is[f.key] = "delivered"]
ProjectSummary(saw, p, w) ==
    LET view == ProjectView(saw[2], p)
    IN  [delivered_total |-> view.delivered_total, delivered_7d |-> view.delivered_7d, in_progress |-> view.in_progress,
         count |-> view.open_issues_total, listed |-> Listed(view.issues), more |-> More(view.issues), hidden |-> view.hidden,
         period_delivered |-> Cardinality(DeliveredIn(saw[1], w, {p})), known |-> Cardinality(In(saw[1], {p}))]
OpenIssuesAnswer(saw, about) ==
    LET view == IssuesView(saw[2])
        rows == {i \in view.listed : InScope(i.about.project, ScopeOf(about))}
        page == ProjectView(saw[3], about.is)
    IN  [listed |-> Listed(rows), more |-> More(rows),
         count |-> IF about.kind = "project" THEN page.open_issues_total ELSE Cardinality(rows) + view.hidden,
         hidden |-> IF about.kind = "project" THEN page.hidden ELSE view.hidden]
ReportAnswer(saw, about, w) ==
    LET report == WeeklyReport(saw[2], Operator, w)
        mine(S) == {f \in S : InScope(f.project, ScopeOf(about))}
    IN  [withheld |-> report.withheld, delivered |-> mine(report.delivered), in_flight |-> mine(report.in_flight)]
DeliveredAnswer(saw, about, w) ==
    [rows |-> {f \in DeliveredIn(saw[2], w, Everything) : InScope(f.project, ScopeOf(about))},
     other_endings |-> IF about.kind = "project" THEN {} ELSE OtherEndings(saw[2], w)]
CostAnswer(saw, about, w) ==
    IF about.kind = "project" THEN CostSummary(saw[2], about.is, w)
    ELSE [spend |-> FeatureSpend(saw[2], about.is, w), left_out |-> 0]
TimeAnswer(saw, about, w) ==
    IF about.kind = "project" THEN TimeSummary(saw[2], about.is, w) ELSE SumTime({about.is})

----------------------------------------------------------------------------

(* However passes commit while a question is read, its answer adds up: the *)
(* feature that was found has a page, and both say the same of how it      *)
(* ended; a count of issues is the rows, the rows left out and the old     *)
(* ones; what was delivered in a period is no more than was ever, and      *)
(* what a project's counts cover no more than was found of it; the         *)
(* features a figure leaves out are those found that it does not measure;  *)
(* an answer out of a stale record says so.                                *)
AddsUp(q, saw) ==
    LET about == About(saw[1], q)
        issues == OpenIssuesAnswer(saw, about)
        summary == ProjectSummary(saw, about.is, q.window)
        report == ReportAnswer(saw, about, q.window)
        status == FeatureStatus(saw, about.is)
        cost == CostAnswer(saw, about, q.window)
        time == TimeAnswer(saw, about, q.window)
        delivered == DeliveredAnswer(saw, about, q.window)
        mine == In(saw[1], ScopeOf(about))
    IN  CASE q.query = "feature_status" /\ about.kind = "feature" ->
               /\ status.page /\ status.stopped = (status.status = "stopped")
               /\ status.delivered_on = (status.status = "delivered")
          [] q.query = "project_summary" /\ about.kind = "project" ->
               /\ summary.count = summary.listed + summary.more + summary.hidden
               /\ summary.period_delivered <= summary.delivered_total /\ summary.delivered_7d <= summary.delivered_total
               /\ summary.in_progress + summary.delivered_total <= summary.known
          [] q.query = "open_issues" /\ about.kind \in {"project", "every"} ->
               issues.count = issues.listed + issues.more + issues.hidden
          [] q.query = "weekly_report" /\ about.kind \in {"project", "every"} ->
               report.delivered \cup report.in_flight \subseteq mine
          [] q.query = "delivered" /\ about.kind \in {"project", "every"} ->
               /\ delivered.rows = DeliveredIn(saw[1], q.window, ScopeOf(about))
               /\ delivered.other_endings \subseteq mine \ delivered.rows
          [] q.query = "cost_summary" /\ about.kind = "project" ->
               /\ cost.left_out = Cardinality({f \in mine : BeforeTagging(f)})
               /\ cost.spend.calls # {} => cost.left_out < Cardinality(mine) \/ MissionsOf(about.is) # {}
          [] q.query = "cost_summary" /\ about.kind = "feature" -> cost.spend.calls \subseteq saw[1].calls
          [] q.query = "time_summary" /\ about.kind = "project" ->
               Cardinality(time.features) + time.left_out = Cardinality({f \in mine : Within(f.sent, q.window)})
          [] OTHER -> TRUE
AnswersAddUp ==
    reader # Idle /\ Len(reader.saw) = Reads =>
        /\ AddsUp(reader.question, reader.saw)
        /\ reader.saw[4].fresh = reader.saw[2].fresh

(* The pages agree at every moment: a project's row has its page's counts, *)
(* its weeks add up to its totals, the chat's cost and time are its page's *)
(* too, the issues page counts what the project pages count together, a    *)
(* report's work is on the Delivered and Features pages, and a client's    *)
(* report is the operator's cut to its projects, none when it has none     *)
(* (_tenant_projects: "one client never sees another's"), and its export   *)
(* no more than its report.                                                *)
Cut(S, scope) == {f \in S : f.project \in scope}
PagesAgree ==
    reader = Idle /\ OnRecord(store) # {} =>
    LET s == store
        windows == {q.window : q \in Questions} \ {BadPeriod, AllTime}
        total(p) == ProjectView(s, p).open_issues_total
    IN  /\ \A p \in Projects(s) :
             LET row == ProjectRow(s, p)
                 page == ProjectView(s, p)
             IN  /\ row.in_progress = page.in_progress /\ row.delivered = page.delivered_total
                 /\ row.open_issues = page.open_issues_total
                 /\ CostSummary(s, p, AllTime).spend = page.spend /\ TimeSummary(s, p, AllTime) = page.time
                 /\ Cardinality(page.time.features) + page.time.left_out = Cardinality(In(s, {p}))
                 /\ LET weeks == Weeks(s, p)
                        since == WeekOf(Now - 7 * (ProjectWeeks - 1)).from
                    IN  /\ SumFunction([n \in DOMAIN weeks |-> weeks[n].delivered]) =
                              Cardinality({f \in Delivered(s, {p}) : f.ends >= since})
                        /\ UNION {weeks[n].spend.calls : n \in DOMAIN weeks} = {c \in page.spend.calls : c.at >= since}
                        /\ \A n \in DOMAIN weeks : weeks[n].spend.calls \cap weeks[n].untagged = {}
        /\ LET page == IssuesView(s)
           IN  Cardinality(page.listed) + page.hidden = SumFunction([p \in Projects(s) \cup {NoProject} |-> total(p)])
        /\ \A w \in windows :
             LET whole == WeeklyReport(s, Operator, w)
             IN  /\ whole.in_flight \subseteq FeaturesView(s, 7)
                 /\ whole.delivered \cap OtherEndings(s, w) = {}
                 /\ \A c \in DOMAIN Clients :
                      LET report == WeeklyReport(s, c, w)
                          mine == Clients[c]
                      IN  /\ report.delivered = Cut(whole.delivered, mine) /\ report.in_flight = Cut(whole.in_flight, mine)
                          /\ report.opened = {i \in whole.opened : i.about.project \in mine}
                          /\ report.closed = {i \in whole.closed : i.about.project \in mine}
                          /\ report.tracked \cap Codes(OnRecord(s) \ Cut(OnRecord(s), mine)) = {}
                          /\ mine = {} => DOMAIN report.plan = {}
                          /\ report.spend.calls \subseteq whole.spend.calls
                          /\ Export(s, c, w).delivered = report.delivered
=============================================================================
