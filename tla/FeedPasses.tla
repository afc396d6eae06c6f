----------------------------- MODULE FeedPasses -----------------------------
(***************************************************************************)
(* The feed's copy of Forge's record as the board sees it                  *)
(* (backend/projector/forge_mirror.py, backend/projector/__main__.py and   *)
(* the freshness rule of backend/readmodel/dbread.py).                     *)
(*                                                                         *)
(* The record is one opaque value here.  A pass takes one snapshot of it,  *)
(* commits the snapshot in one transaction and only then stamps the read;  *)
(* the process can fail or stop between any two of those steps.            *)
(* ForgeMirror opens the record up into tables and is shown to implement   *)
(* this module; AnswerClaims and RebuildMarks build the board on it.       *)
(***************************************************************************)
EXTENDS Naturals

CONSTANTS
    Records,      \* every value Forge's record can have
    EmptyCopy     \* what the board reads from a store with no row copied yet

VARIABLES
    record,       \* Forge's own record now (external: Forge writes it)
    copy,         \* the tables of readmodel.db copied from Forge
    snap,         \* what the pass under way has read and not written
    pass,         \* where the feed is in a pass, or "down"
    reads,        \* mirror_status.read_count
    readOk,       \* mirror_status.last_error is empty
    recent        \* last_success_at and the heartbeat are within their limits

feedVars == <<copy, snap, pass, reads, readOk, recent>>

Phases == {"down", "idle", "begun", "read", "written"}

FeedTypeOK ==
    /\ record \in Records
    /\ copy \in Records
    /\ snap \in Records
    /\ pass \in Phases
    /\ reads \in Nat
    /\ readOk \in BOOLEAN
    /\ recent \in BOOLEAN

FeedInit ==
    /\ copy = EmptyCopy
    /\ snap = EmptyCopy
    /\ pass = "idle"
    /\ reads = 0
    /\ readOk = TRUE
    /\ recent = FALSE

(* The board's one rule for sending and for confirming an answer:          *)
(* freshness known, last read good, read and heartbeat young enough.       *)
Fresh == recent /\ readOk

PassUnderWay == pass \in {"begun", "read", "written"}

-----------------------------------------------------------------------------
PassBegin ==
    /\ pass = "idle"
    /\ pass' = "begun"
    /\ UNCHANGED <<copy, snap, reads, readOk, recent>>

(* One read transaction over every table.                                  *)
PassRead ==
    /\ pass = "begun"
    /\ snap' = record
    /\ pass' = "read"
    /\ UNCHANGED <<copy, reads, readOk, recent>>

(* Forge's database is missing or cannot be read: the error is recorded    *)
(* and the last good copy stays.                                           *)
PassFail ==
    /\ pass = "begun"
    /\ pass' = "idle"
    /\ readOk' = FALSE
    /\ UNCHANGED <<copy, snap, reads, recent>>

(* The whole snapshot in one write transaction.                            *)
PassWrite ==
    /\ pass = "read"
    /\ copy' = snap
    /\ snap' = EmptyCopy
    /\ pass' = "written"
    /\ UNCHANGED <<reads, readOk, recent>>

(* A second transaction: the read is good, and counted.                    *)
PassStamp ==
    /\ pass = "written"
    /\ pass' = "idle"
    /\ reads' = reads + 1
    /\ readOk' = TRUE
    /\ recent' = TRUE
    /\ UNCHANGED <<copy, snap>>

(* readmodel.db itself refuses a write, the stamp of a failure among them: *)
(* the loop suppresses the exception, nothing is stamped, and the next     *)
(* pass starts afresh.                                                     *)
PassAbandon ==
    /\ PassUnderWay
    /\ pass' = "idle"
    /\ snap' = EmptyCopy
    /\ UNCHANGED <<copy, reads, readOk, recent>>

FeedStop ==
    /\ pass # "down"
    /\ pass' = "down"
    /\ snap' = EmptyCopy
    /\ UNCHANGED <<copy, reads, readOk, recent>>

FeedStart ==
    /\ pass = "down"
    /\ pass' = "idle"
    /\ UNCHANGED <<copy, snap, reads, readOk, recent>>

(* Time passes: the last good read, or the heartbeat, is now too old.      *)
CopyAges ==
    /\ recent
    /\ recent' = FALSE
    /\ UNCHANGED <<copy, snap, pass, reads, readOk>>

(* docs/runbook.md: the store is disposable.  Someone deletes              *)
(* readmodel.db with the feed stopped; the feed then applies an empty      *)
(* schema before its first pass.                                           *)
StoreRebuilt ==
    /\ pass = "down"
    /\ copy' = EmptyCopy
    /\ reads' = 0
    /\ readOk' = TRUE
    /\ recent' = FALSE
    /\ UNCHANGED <<snap, pass>>

(* Every way the feed's state changes except the deletion of the store.    *)
FeedStep ==
    \/ PassBegin \/ PassRead \/ PassFail \/ PassWrite \/ PassStamp
    \/ PassAbandon \/ FeedStop \/ FeedStart \/ CopyAges

RecordChanges ==
    /\ record' \in Records
    /\ UNCHANGED feedVars

Next ==
    \/ (FeedStep \/ StoreRebuilt) /\ UNCHANGED record
    \/ RecordChanges

Spec == record \in Records /\ FeedInit /\ [][Next]_<<record, feedVars>>
=============================================================================
