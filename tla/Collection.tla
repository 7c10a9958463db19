------------------------------ MODULE Collection ------------------------------
(***************************************************************************)
(* One collection over a sequence of commits: the documents, and the key   *)
(* columns stored beside each of them, which queries go by.  CommitPath    *)
(* has how commits race; here each is one step.                            *)
(***************************************************************************)
EXTENDS Queries

CONSTANTS
    Rows,           \* the collections to begin with: functions to rows
    Batches,        \* the batches of writes that may be committed
    MaxCommits      \* bound on commits

\* A document is there with its fields, or it is not.
IsRow(row) == row = Missing \/ row = [updated |-> row.updated, fields |-> row.fields]

IsTable(some) ==
    /\ some = [d \in DOMAIN some |-> some[d]]
    /\ \A d \in DOMAIN some : IsRow(some[d])

ASSUME RowsAssumption ==
    \A some \in Rows :
        /\ IsTable(some) /\ IsFiniteSet(DOMAIN some)
        /\ \A d \in DOMAIN some : some[d] # Missing => some[d].updated = 1

ASSUME BatchesAssumption ==
    \A writes \in Batches :
        /\ Len(writes) \in Nat /\ DOMAIN writes = 1 .. Len(writes)
        /\ \A some \in Rows, k \in DOMAIN writes : writes[k].doc \in DOMAIN some

VARIABLES rows, columns, clock

vars == <<rows, columns, clock>>

ColumnsOf(row) == IF row = Missing THEN Missing ELSE IndexDocument(row.fields)

\* Mutant: columns of fields that are gone left behind.
ColumnsKept(old, row) ==
    LET new == ColumnsOf(row)
    IN  IF old = Missing \/ new = Missing THEN new
        ELSE [keys |-> [p \in DOMAIN old.keys \cup DOMAIN new.keys |->
                          IF p \in DOMAIN new.keys THEN new.keys[p] ELSE old.keys[p]],
              elements |-> old.elements \cup new.elements]

\* set_document replaces the columns together with the fields.
ColumnsSet(old, row) == ColumnsOf(row)

Init ==
    /\ rows \in Rows
    /\ columns = [d \in DOMAIN rows |-> ColumnsOf(rows[d])]
    /\ clock = 1

Commit(writes) ==
    /\ clock <= MaxCommits
    /\ clock' = clock + 1
    /\ rows' = Stored(rows, writes, clock')
    /\ columns' = [d \in DOMAIN rows |->
                     IF rows'[d] = rows[d] THEN columns[d] ELSE ColumnsSet(columns[d], rows'[d])]

Next == \E writes \in Batches : Commit(writes)

Spec == Init /\ [][Next]_vars
=============================================================================
