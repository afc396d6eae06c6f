----------------------------- MODULE ForgeMirror ----------------------------
(***************************************************************************)
(* The copy of Forge's record, table by table                              *)
(* (backend/projector/forge_mirror.py): mirror_once and the boot pass of   *)
(* backend/projector/__main__.py.                                          *)
(*                                                                         *)
(* Tables that change in place are replaced when their hash changed;       *)
(* tables that are only added to are read from the last id already copied, *)
(* or from the start when Forge's newest id is lower than ours.  A pass is *)
(* not one step: Forge goes on writing, its database can be restored from  *)
(* a backup, and the feed can stop, between the read of our newest ids,    *)
(* the read of Forge, the write, the stamp and the notification.           *)
(***************************************************************************)
EXTENDS Naturals, Sequences, SequencesExt

CONSTANTS
    Contents,     \* what the tables that change in place can hold, taken together
    NoContents,   \* those tables with no row in them
    NoHash,       \* mirror_status.content_hash of a store never written
    Appended,     \* the tables that are only added to
    Rows,         \* what one of their rows can hold; a row's id is its place
    MaxRows,      \* bound on such a table, for TLC
    MaxReads      \* bound on counted passes, for TLC

ASSUME ConstantsAssumption ==
    /\ NoContents \in Contents
    /\ NoHash \notin Contents
    /\ MaxRows \in Nat
    /\ MaxReads \in Nat

VARIABLES
    ledger,       \* Forge's database: [contents, rows]
    copy,         \* the forge_* tables of readmodel.db: [contents, rows]
    hash,         \* mirror_status.content_hash: the contents it was computed from
    pass,         \* where mirror_once is, or "down"
    after,        \* the newest ids this pass read from our own tables
    snap,         \* what this pass read from Forge (_Snapshot)
    changed,      \* what _write returned
    reads, readOk, recent,     \* mirror_status and the heartbeat, as in FeedPasses
    told,         \* history: the copy the pages were last told of, or that a pass cut off
                  \* before its notification left them without
    taken         \* history: the whole ledger at the instant this pass read it, until the write

vars == <<ledger, copy, hash, pass, after, snap, changed, reads, readOk, recent, told, taken>>

Tables == [Appended -> BoundedSeq(Rows, MaxRows)]
Ledgers == [contents : Contents, rows : Tables]
NoRows == [t \in Appended |-> <<>>]
Empty == [contents |-> NoContents, rows |-> NoRows]

(* COALESCE(MAX(id), 0) of each table.                                     *)
MaxIds(rows) == [t \in Appended |-> Len(rows[t])]
Snapshots == [contents : Contents, rows : Tables, maxIds : [Appended -> 0..MaxRows]]
NoSnapshot == [contents |-> NoContents, rows |-> NoRows, maxIds |-> MaxIds(NoRows)]

TypeOK ==
    /\ ledger \in Ledgers
    /\ copy \in Ledgers
    /\ hash \in Contents \cup {NoHash}
    /\ pass \in {"down", "idle", "begun", "read", "written", "stamped"}
    /\ after \in [Appended -> 0..MaxRows]
    /\ snap \in Snapshots
    /\ changed \in BOOLEAN
    /\ reads \in Nat
    /\ readOk \in BOOLEAN
    /\ recent \in BOOLEAN
    /\ told \in Ledgers
    /\ taken \in Ledgers

Init ==
    /\ ledger \in Ledgers
    /\ copy = Empty
    /\ hash = NoHash
    /\ pass = "idle"
    /\ after = MaxIds(NoRows)
    /\ snap = NoSnapshot
    /\ changed = FALSE
    /\ reads = 0
    /\ readOk = TRUE
    /\ recent = FALSE
    /\ told = Empty
    /\ taken = Empty

-----------------------------------------------------------------------------
(* Forge, outside src/.                                                    *)

(* What our table holds, and what the pass under way would put there.      *)
Ours(t) == {copy.rows[t]} \cup (IF pass = "read" THEN {taken.rows[t]} ELSE {})

(* A restored table either still holds what we copied, or is seen to be    *)
(* shorter: it does not grow back over our newest id before a pass has     *)
(* read it.  What the rule on newest ids cannot tell is assumed away here. *)
Tellable(t, rows) == \A ours \in Ours(t) : IsPrefix(ours, rows) \/ Len(rows) < Len(ours)

ForgeAdds(t, row) ==
    /\ Len(ledger.rows[t]) < MaxRows                                  \* bound
    /\ ledger' = [ledger EXCEPT !.rows[t] = Append(@, row)]
    /\ Tellable(t, ledger'.rows[t])
    /\ UNCHANGED <<copy, hash, pass, after, snap, changed, reads, readOk, recent, told, taken>>

ForgeChanges(contents) ==
    /\ ledger' = [ledger EXCEPT !.contents = contents]
    /\ UNCHANGED <<copy, hash, pass, after, snap, changed, reads, readOk, recent, told, taken>>

(* An older backup, or a ledger from before a table existed.               *)
ForgeRestored ==
    /\ ledger' \in Ledgers
    /\ \A t \in Appended : /\ IsPrefix(ledger'.rows[t], ledger.rows[t])
                           /\ Tellable(t, ledger'.rows[t])
    /\ UNCHANGED <<copy, hash, pass, after, snap, changed, reads, readOk, recent, told, taken>>

-----------------------------------------------------------------------------
(* mirror_once.                                                            *)

(* The local variables of mirror_once end with it.                         *)
Returns(to) ==
    /\ pass' = to
    /\ after' = MaxIds(NoRows)
    /\ snap' = NoSnapshot
    /\ changed' = FALSE
    /\ taken' = Empty

(* _local_max_ids, before Forge's database is read.                        *)
Begin ==
    /\ pass = "idle"
    /\ reads < MaxReads                                               \* bound
    /\ pass' = "begun"
    /\ after' = MaxIds(copy.rows)
    /\ UNCHANGED <<ledger, copy, hash, snap, changed, reads, readOk, recent, told, taken>>

(* Mutant: never from the start again.                                     *)
RowsAfterOnly(t, id) == SubSeq(ledger.rows[t], id + 1, Len(ledger.rows[t]))

(* Forge's rows after the id we have, or all of them.                      *)
RowsAfter(t, id) ==
    LET from == IF id =< Len(ledger.rows[t]) THEN id ELSE 0
    IN  SubSeq(ledger.rows[t], from + 1, Len(ledger.rows[t]))

(* _read_forge, in one read transaction.                                   *)
ReadForge ==
    /\ pass = "begun"
    /\ pass' = "read"
    /\ snap' = [contents |-> ledger.contents,
                rows |-> [t \in Appended |-> RowsAfter(t, after[t])],
                maxIds |-> MaxIds(ledger.rows)]
    /\ taken' = ledger
    /\ UNCHANGED <<ledger, copy, hash, after, changed, reads, readOk, recent, told>>

(* Forge's database is not there, or could not be read.                    *)
ReadFails ==
    /\ pass = "begun"
    /\ Returns("idle")
    /\ readOk' = FALSE
    /\ UNCHANGED <<ledger, copy, hash, reads, recent, told>>

(* The rows of a table after _write: thrown away when Forge's newest id is *)
(* lower than ours, then the rows read put in.                             *)
RewoundTooOften(t) == snap.maxIds[t] =< Len(copy.rows[t])       \* mutant
Rewound(t) == snap.maxIds[t] < Len(copy.rows[t])
Applied(t) == (IF Rewound(t) THEN <<>> ELSE copy.rows[t]) \o snap.rows[t]

(* What _write returns.                                                    *)
ChangedByRows == \E t \in Appended : snap.rows[t] # <<>>         \* mutant
Changed == hash # snap.contents \/ \E t \in Appended : Rewound(t) \/ snap.rows[t] # <<>>

(* _write, in one write transaction.                                       *)
Write ==
    /\ pass = "read"
    /\ pass' = "written"
    /\ copy' = [contents |-> IF hash = snap.contents THEN copy.contents ELSE snap.contents,
                rows |-> [t \in Appended |-> Applied(t)]]
    /\ hash' = snap.contents
    /\ changed' = Changed
    /\ after' = MaxIds(NoRows)
    /\ snap' = NoSnapshot
    /\ taken' = Empty
    /\ UNCHANGED <<ledger, reads, readOk, recent, told>>

(* _stamp: the read is good, and counted.                                  *)
Stamp ==
    /\ pass = "written"
    /\ pass' = "stamped"
    /\ reads' = reads + 1
    /\ readOk' = TRUE
    /\ recent' = TRUE
    /\ UNCHANGED <<ledger, copy, hash, after, snap, changed, told, taken>>

(* record_change, a row for each section, if _write said that the copy     *)
(* changed.                                                                *)
Announce ==
    /\ pass = "stamped"
    /\ told' = IF changed THEN copy ELSE told
    /\ Returns("idle")
    /\ UNCHANGED <<ledger, copy, hash, reads, readOk, recent>>

(* A pass cut off after _write tells nothing, or not every section, and    *)
(* the next finds nothing changed: what it wrote stays untold.             *)
CutOff == told' = IF changed THEN copy ELSE told

(* readmodel.db refuses a write, the stamp of a failure among them:        *)
(* mirror_loop suppresses the exception.                                   *)
Abandon ==
    /\ pass \in {"begun", "read", "written", "stamped"}
    /\ CutOff
    /\ Returns("idle")
    /\ UNCHANGED <<ledger, copy, hash, reads, readOk, recent>>

(* The feed's process ends, and starts again with its boot pass.           *)
Stop ==
    /\ pass # "down"
    /\ CutOff
    /\ Returns("down")
    /\ UNCHANGED <<ledger, copy, hash, reads, readOk, recent>>

Start ==
    /\ pass = "down"
    /\ pass' = "idle"
    /\ UNCHANGED <<ledger, copy, hash, after, snap, changed, reads, readOk, recent, told, taken>>

(* readmodel.db is deleted while the feed is stopped, and made afresh.     *)
StoreRebuilt ==
    /\ pass = "down"
    /\ copy' = Empty
    /\ hash' = NoHash
    /\ told' = Empty
    /\ reads' = 0
    /\ readOk' = TRUE
    /\ recent' = FALSE
    /\ UNCHANGED <<ledger, pass, after, snap, changed, taken>>

Ages ==
    /\ recent
    /\ recent' = FALSE
    /\ UNCHANGED <<ledger, copy, hash, pass, after, snap, changed, reads, readOk, told, taken>>

Next ==
    \/ \E t \in Appended, row \in Rows : ForgeAdds(t, row)
    \/ \E contents \in Contents : ForgeChanges(contents)
    \/ ForgeRestored
    \/ Begin \/ ReadForge \/ ReadFails \/ Write \/ Stamp \/ Announce \/ Abandon
    \/ Stop \/ Start \/ StoreRebuilt \/ Ages

Spec == Init /\ [][Next]_vars

-----------------------------------------------------------------------------
(* The copy made of replaced and added rows is the whole record at one     *)
(* instant, in every table at once, across restores of Forge's database    *)
(* and stops of the feed: the pass FeedPasses describes.                   *)
Feed == INSTANCE FeedPasses WITH
    Records <- Ledgers,
    EmptyCopy <- Empty,
    record <- ledger,
    snap <- taken,
    pass <- IF pass = "stamped" THEN "idle" ELSE pass

ImplementsFeedPasses == Feed!Spec

(* The hash that lets a pass leave the replaced tables alone is the hash   *)
(* of what is in them, and what a pass read fits on to what is stored: the *)
(* invariant behind ImplementsFeedPasses.                                  *)
CopyFits ==
    /\ hash # NoHash => copy.contents = hash
    /\ pass \in {"begun", "read"} => after = MaxIds(copy.rows)
    /\ pass = "read" =>
         /\ snap.contents = taken.contents
         /\ \A t \in Appended : Applied(t) = taken.rows[t]

(* The copy is the one the pages were last told of, but while a pass that  *)
(* says so has still to tell them, or was cut off before it did            *)
(* (mirror_once: "Returns True when the copy changed (and records a        *)
(* live-update notification)"): no way a copy can come to differ, in a     *)
(* table replaced, added to, started again or made empty, over any passes  *)
(* and restores of Forge's database, escapes what _write returns.          *)
EveryChangeIsTold == copy # told => changed
=============================================================================
