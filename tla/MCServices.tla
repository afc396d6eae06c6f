----------------------------- MODULE MCServices -----------------------------
(***************************************************************************)
(* The services beside the record, for TLC.  They share no state but the   *)
(* clock, so one of them, the focus, runs in each behaviour and the others *)
(* stay as they began: the state spaces add up and do not multiply.        *)
(***************************************************************************)
EXTENDS SignIn, Suggestions, CostImport, Ask, Reading, Microphone, FeedFiles

VARIABLE focus

(* Sign-in. *)
Account(hash, tenant, identity) ==
    [name |-> "ann", hash |-> hash, tenant |-> tenant, identity |-> identity, extra |-> FALSE]
TextsUsed ==
    {<<Account("p1", "operator", "id")>>, <<Account("p2", "client", "")>>,
     <<Account("p1", "client", "id")>>}     \* not allowed: only operators have an identity

(* Suggestions. *)
ByUsed == [p \in 1..4 |-> IF p = 4 THEN "bob" ELSE "ann"]

(* Costs. *)
Call(id, start, model, tokens, spend) ==
    [id |-> id, start |-> start, tag |-> "f", model |-> model, tokens |-> tokens, spend |-> spend]
CallsUsed == {Call(1, 0, "flash", 1, 0), Call(2, 1, "other", 1, 0), Call(3, 3, "flash", 2, 5)}
PricesUsed == [flash |-> 2]

(* Questions: a recording that will do, and one that is too long.          *)
RecordingsUsed ==
    {[label |-> "webm", found |-> "webm", big |-> FALSE, seconds |-> Unstated],
     [label |-> "wav", found |-> "wav", big |-> FALSE, seconds |-> 31]}

(* The pages: two projects, a feature without a code, a feature sent       *)
(* before tagging, an old failure of a mission.                            *)
F1 == [key |-> "f1", code |-> "c1", project |-> "a/x", sent |-> 29, ends |-> 30, how |-> "delivered", tags |-> {"t1"}, time |-> 3]
F2 == [key |-> "f2", code |-> "c2", project |-> "b/y", sent |-> 5, ends |-> 28, how |-> "delivered", tags |-> {"t2"},
       time |-> Unmeasured]
F3 == [key |-> "f3", code |-> "", project |-> "a/x", sent |-> 29, ends |-> 30, how |-> "stopped", tags |-> {"t3"}, time |-> 1]
M1 == [key |-> "m1", project |-> "b/y", sent |-> 20, tags |-> {"t4"}]
FeaturesUsed == {F1, F2, F3}
MissionsUsed == {M1}
IssuesUsed ==
    {[key |-> "i1", about |-> F1, live |-> TRUE, opened |-> 10, closes |-> 29],
     [key |-> "i2", about |-> M1, live |-> FALSE, opened |-> 10, closes |-> 30],
     [key |-> "i3", about |-> F3, live |-> FALSE, opened |-> 30, closes |-> 30]}
ModelCallsUsed == {[key |-> "k1", tag |-> "t1", at |-> 30], [key |-> "k2", tag |-> "t4", at |-> 22]}
MilestonesUsed ==
    {[key |-> "n1", tenant |-> "ann", codes |-> {"c1", "c2"}, project |-> "", target |-> 29],
     [key |-> "n2", tenant |-> "operator", codes |-> {}, project |-> "b/y", target |-> 31]}
ClientsUsed == [ann |-> {"a/x"}, bob |-> {}]
FeatureTierUsed ==
    [n \in {"c1", "note"} |-> [f \in FeaturesUsed |->
        CASE n = "c1" /\ f = F1 -> 1 [] n = "note" /\ f = F2 -> 3 [] n = "note" /\ f = F1 -> 4 [] n = "note" /\ f = F3 -> 5
          [] OTHER -> 9]]
ProjectTierUsed == [n \in {"x"} |-> [p \in {"a/x", "b/y"} |-> IF p = "a/x" THEN 2 ELSE 9]]
Week == [from |-> 28, to |-> 35]
Asking(query, feature, project, window) == [query |-> query, feature |-> feature, project |-> project, window |-> window]
QuestionsUsed ==
    {Asking("feature_status", "c1", Nothing, AllTime), Asking("feature_status", "note", Nothing, AllTime),
     Asking("project_summary", Nothing, "x", Week), Asking("open_issues", Nothing, "x", AllTime),
     Asking("open_issues", Nothing, Nothing, AllTime), Asking("weekly_report", Nothing, "x", Week),
     Asking("delivered", Nothing, "x", Week), Asking("delivered", Nothing, Nothing, Week),
     Asking("cost_summary", "c1", Nothing, AllTime), Asking("cost_summary", Nothing, "x", AllTime),
     Asking("time_summary", Nothing, "x", Week)}

(* plans.yaml. *)
Milestone(id, of) == [id |-> id, of |-> of]
PlanTextsUsed ==
    {Broken, <<>>, <<Milestone("a", "ann")>>, <<Milestone("a", "bob"), Milestone("b", "ann")>>,
     <<Milestone("b", "ann"), Milestone("b", "bob")>>}

(* How long the clock runs, bounds for TLC.                                *)
Horizon == [sign_in |-> 2, suggestions |-> 3, costs |-> 4, questions |-> 1, pages |-> 0, microphone |-> 0, files |-> 0]

MCInit ==
    /\ clock = 0 /\ focus \in DOMAIN Horizon
    /\ SignInInit /\ SuggestInit /\ CostInit /\ AskInit /\ ReadInit /\ MicInit /\ FilesInit
    /\ file.rows = <<Account("p1", "operator", "id")>>
    /\ focus # "pages" => store.fresh
    /\ focus # "files" => plans.says = <<>>

Served ==
    \/ /\ focus = "sign_in" /\ SignInNext
       /\ UNCHANGED <<suggestVars, costVars, askVars, readVars, micVars, filesVars>>
    \/ /\ focus = "suggestions" /\ SuggestNext
       /\ UNCHANGED <<signVars, costVars, askVars, readVars, micVars, filesVars>>
    \/ /\ focus = "costs" /\ CostNext
       /\ UNCHANGED <<signVars, suggestVars, askVars, readVars, micVars, filesVars>>
    \/ /\ focus = "questions" /\ AskNext
       /\ UNCHANGED <<signVars, suggestVars, costVars, readVars, micVars, filesVars>>
    \/ /\ focus = "pages" /\ ReadNext
       /\ UNCHANGED <<clock, signVars, suggestVars, costVars, askVars, micVars, filesVars>>
    \/ /\ focus = "microphone" /\ MicNext
       /\ UNCHANGED <<clock, signVars, suggestVars, costVars, askVars, readVars, filesVars>>
    \/ /\ focus = "files" /\ FilesNext
       /\ UNCHANGED <<clock, signVars, suggestVars, costVars, askVars, readVars, micVars>>

(* Sign-ins, and posts of one account, differ by their names only, so      *)
(* it is enough that they are begun in the order of their names.           *)
InTurn ==
    /\ \A r, q \in Requests : r < q /\ request[q].at # "new" => request[r].at # "new"
    /\ \A p, q \in Posts : p < q /\ By[p] = By[q] /\ post[q] # "new" => post[p] # "new"

MCNext == Served /\ clock' <= Horizon[focus] /\ InTurn' /\ UNCHANGED focus

(* Only a question is promised to end, and needs its threads to go on.     *)
AllVars == <<focus, clock, signVars, suggestVars, costVars, askVars, readVars, micVars, filesVars>>
MCSpec == MCInit /\ [][MCNext]_AllVars /\ AskFairness
=============================================================================
