----------------------------- MODULE FeedFiles -----------------------------
(***************************************************************************)
(* The files beside the store that the feed reads and writes: plans.yaml,  *)
(* copied into plan_milestones (backend/projector/plan_mirror.py), and     *)
(* project-summaries.json, which the Linear door reads                     *)
(* (backend/projector/summary.py), each in a loop of its own while the     *)
(* store changes, with stops of the feed anywhere.                         *)
(***************************************************************************)
EXTENDS Integers, Sequences, FiniteSets

CONSTANTS
    PlanTexts,     \* sequences of milestones [id, of] that plans.yaml may hold; Broken among them
    MaxChanges     \* bound on the owner's edits and on the store's changes, each, for TLC

(* A text is a list of lines.                                              *)
Lines == UNION {{says[i] : i \in DOMAIN says} : says \in PlanTexts}
ASSUME PlansAssumption == PlanTexts \subseteq Seq(Lines)

VARIABLES
    feed,        \* down, boot or up
    plans,       \* plans.yaml: [stamp, says]; each edit gives it a stamp of its own
    milestones,  \* the rows of plan_milestones
    copy,        \* the plan mirror: [at, stamp, todo, seen, last]; last is last_mtime
    moment,      \* how often the store has changed
    writer,      \* the summary's loop: [at, snap, saw, temp]
    temps,       \* temporary files beside the summary
    summary      \* the summary file: the moments of the store that its figures are of

filesVars == <<feed, plans, milestones, copy, moment, writer, temps, summary>>

Broken == <<[id |-> "not YAML"]>>
NotRead == -1
AtRest == [at |-> "idle", stamp |-> NotRead, todo |-> <<>>, seen |-> {}, last |-> NotRead]
NotWriting == [at |-> "idle", snap |-> 0, saw |-> {}, temp |-> 0]

EditPlans ==
    /\ plans.stamp < MaxChanges                                        \* bound
    /\ \E says \in PlanTexts : plans' = [stamp |-> plans.stamp + 1, says |-> says]
    /\ UNCHANGED <<feed, milestones, copy, moment, writer, temps, summary>>
StoreChanges ==
    /\ moment < MaxChanges /\ moment' = moment + 1                     \* bound
    /\ UNCHANGED <<feed, plans, milestones, copy, writer, temps, summary>>

(* The feed starts with a pass over plans.yaml, and clears what an earlier *)
(* stop left behind.                                                       *)
Boot ==
    /\ feed = "down" /\ feed' = "boot" /\ copy' = [AtRest EXCEPT !.at = "stat"]
    /\ UNCHANGED <<plans, milestones, moment, writer, temps, summary>>
Down == feed' = "down" /\ copy' = AtRest /\ writer' = NotWriting
Stop == feed # "down" /\ Down /\ UNCHANGED <<plans, milestones, moment, temps, summary>>

----------------------------------------------------------------------------
(* The plan mirror.                                                        *)

StatPlans ==
    /\ feed = "up" /\ copy.at = "idle" /\ plans.stamp # copy.last
    /\ copy' = [copy EXCEPT !.at = "stat", !.stamp = plans.stamp]
    /\ UNCHANGED <<feed, plans, milestones, moment, writer, temps, summary>>

(* load_plans: a text that is not YAML is not caught: the feed ends.       *)
LoadPlans ==
    /\ copy.at = "stat"
    /\ \/ plans.says = Broken /\ Down
       \/ /\ plans.says # Broken
          /\ copy' = [copy EXCEPT !.at = "rows", !.todo = plans.says, !.seen = {}] /\ UNCHANGED <<feed, writer>>
    /\ UNCHANGED <<plans, milestones, moment, temps, summary>>

(* Each row is committed on its own (the connection is in autocommit).     *)
Upsert ==
    /\ copy.at = "rows" /\ copy.todo # <<>>
    /\ LET m == Head(copy.todo)
       IN  /\ milestones' = {r \in milestones : r.id # m.id} \cup {m}
           /\ copy' = [copy EXCEPT !.todo = Tail(@), !.seen = @ \cup {m.id}]
    /\ UNCHANGED <<feed, plans, moment, writer, temps, summary>>

(* Mutant: the file's stamp is taken once it is mirrored.                  *)
MirroredNow == plans.stamp
Mirrored == copy.stamp
DeleteTheRest ==
    /\ copy.at = "rows" /\ copy.todo = <<>>
    /\ milestones' = {r \in milestones : r.id \in copy.seen}
    /\ copy' = [AtRest EXCEPT !.last = IF feed = "boot" THEN NotRead ELSE Mirrored]
    /\ feed' = "up" /\ temps' = IF feed = "boot" THEN {} ELSE temps    \* remove_leftovers
    /\ UNCHANGED <<plans, moment, writer, summary>>

(* The file cannot be read or a statement fails: the next look tries       *)
(* again; at the start it ends the feed.                                   *)
PlanFails ==
    /\ copy.at # "idle"
    /\ IF feed = "boot" THEN Down ELSE copy' = [AtRest EXCEPT !.last = copy.last] /\ UNCHANGED <<feed, writer>>
    /\ UNCHANGED <<plans, milestones, moment, temps, summary>>

----------------------------------------------------------------------------
(* The summary: several views on one snapshot, a temporary file of its     *)
(* own, and os.replace.                                                    *)

Snapshot ==
    /\ feed = "up" /\ writer.at = "idle"
    /\ writer' = [NotWriting EXCEPT !.at = "views", !.snap = moment]
    /\ UNCHANGED <<feed, plans, milestones, copy, moment, temps, summary>>
View ==
    /\ writer.at = "views" /\ writer' = [writer EXCEPT !.saw = @ \cup {writer.snap}]
    /\ UNCHANGED <<feed, plans, milestones, copy, moment, temps, summary>>
CreateTemp ==
    /\ writer.at = "views" /\ writer.saw # {}
    /\ LET name == Cardinality(temps) + 1
       IN  temps' = temps \cup {name} /\ writer' = [writer EXCEPT !.at = "file", !.temp = name]
    /\ UNCHANGED <<feed, plans, milestones, copy, moment, summary>>
Finished == temps' = temps \ {writer.temp} /\ writer' = NotWriting
Replace ==
    /\ writer.at = "file" /\ summary' = writer.saw /\ Finished
    /\ UNCHANGED <<feed, plans, milestones, copy, moment>>
(* A view or the writing fails: the temporary file is removed.             *)
WriteFails ==
    /\ writer.at # "idle" /\ Finished
    /\ UNCHANGED <<feed, plans, milestones, copy, moment, summary>>

FilesInit ==
    /\ feed = "down" /\ plans \in {[stamp |-> 0, says |-> says] : says \in PlanTexts} /\ milestones = {}
    /\ copy = AtRest /\ moment = 0 /\ writer = NotWriting /\ temps = {} /\ summary = {}
FilesNext ==
    \/ EditPlans \/ StoreChanges \/ Boot \/ Stop
    \/ StatPlans \/ LoadPlans \/ Upsert \/ DeleteTheRest \/ PlanFails
    \/ Snapshot \/ View \/ CreateTemp \/ Replace \/ WriteFails
FilesSpec == FilesInit /\ [][FilesNext]_filesVars

----------------------------------------------------------------------------

(* However the feed stops, fails and races the owner's edits: once it has  *)
(* marked a text of plans.yaml as read, the plan is that text, whole, the  *)
(* last of two milestones with one id; the summary's figures are all of    *)
(* one moment; and a stop leaves one temporary file at most, however often *)
(* it happens (plan_mirror: "full reconcile"; write_atomic).               *)
LastOfEach(says) == {says[i] : i \in {k \in DOMAIN says : \A j \in DOMAIN says : j > k => says[j].id # says[k].id}}
FilesAreWhole ==
    /\ feed = "up" /\ copy.at = "idle" /\ copy.last = plans.stamp => milestones = LastOfEach(plans.says)
    /\ Cardinality(summary) <= 1
    /\ Cardinality(temps) <= 1
=============================================================================
