------------------------------ MODULE DocWrites ------------------------------
(***************************************************************************)
(* Documents and what one commit's writes do to them (waldflam-engine,     *)
(* commit.rs).  A stored document is a row with its create time, its       *)
(* update time (the version every precondition and every read-set check    *)
(* compares) and its content.  Content is the set of requests whose write  *)
(* it still carries: a full set leaves only the writer's mark, a masked    *)
(* update or a transform adds one to what was there, so an update that is  *)
(* lost shows as a mark that is missing.                                   *)
(*                                                                         *)
(* A commit maps each document it targets to ONE write.  The code lets a   *)
(* batch name a document several times, applies those writes in order to   *)
(* the document's in-memory state and persists only the final one, so the  *)
(* batch acts on each document as a single composed write does.            *)
(***************************************************************************)
EXTENDS Integers

CONSTANTS
    Docs,       \* document paths
    Requests,   \* the write requests of a behaviour, each issued once
    NoRow,      \* the value of a document that does not exist
    WriteSets   \* the batches clients may send: functions from targets to writes

\* What MongoDB holds for a document that exists.
Row == [created : Nat, updated : Nat, marks : SUBSET Requests]

RowOrNone == Row \cup {NoRow}

\* Write.current_document: no condition, exists, does not exist, or an exact
\* update time (`at`, read only when kind is "version").
Precondition == [kind : {"none", "exists", "absent", "version"}, at : Nat]

\* "set" replaces the fields, "merge" is a masked update or a transform (both
\* create the document when it is missing), "verify" only checks.
Write == [op : {"set", "merge", "delete", "verify"}, pre : Precondition]

\* A commit may also carry no writes at all.
NoWrites == [d \in {} |-> d]

Batch == WriteSets \cup {NoWrites}

ASSUME NoRowAssumption == NoRow \notin Row

ASSUME WriteSetsAssumption ==
    \A batch \in WriteSets :
        DOMAIN batch \subseteq Docs /\ \A d \in DOMAIN batch : batch[d] \in Write

-----------------------------------------------------------------------------

\* Mutant: the create time taken for the version.
CreatedVersion(row) == IF row = NoRow THEN 0 ELSE row.created

\* The version a read observes: the update time, 0 for a missing document.
Version(row) == IF row = NoRow THEN 0 ELSE row.updated

PreconditionHolds(w, row) ==
    CASE w.pre.kind = "none"    -> TRUE
      [] w.pre.kind = "exists"  -> row # NoRow
      [] w.pre.kind = "absent"  -> row = NoRow
      [] w.pre.kind = "version" -> row # NoRow /\ Version(row) = w.pre.at

\* The row a persisted write leaves.  `set_document` overwrites everything but
\* create_time, which it stamps only on insert; delete leaves nothing.
Written(w, row, now, r) ==
    IF w.op = "delete" THEN NoRow
    ELSE [created |-> IF row = NoRow THEN now ELSE row.created,
          updated |-> now,
          marks   |-> IF w.op = "merge" /\ row # NoRow
                      THEN row.marks \cup {r}
                      ELSE {r}]

\* A batch passes when every precondition holds; nothing of it lands otherwise.
Passes(batch, rows) ==
    \A d \in DOMAIN batch : PreconditionHolds(batch[d], rows[d])

\* The documents the batch persists a final state for: `dirty` in the code.
Changed(batch) == {d \in DOMAIN batch : batch[d].op # "verify"}

\* The changed documents for which MongoDB writes a row.  Deleting a document
\* that is missing matches nothing, so it takes part in no write conflict.
RowOps(batch, rows) ==
    {d \in Changed(batch) : batch[d].op = "delete" => rows[d] # NoRow}
=============================================================================
