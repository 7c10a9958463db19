---------------------------- MODULE CollectionProps ----------------------------
(***************************************************************************)
(* What must be true of queries over a collection, whatever was committed. *)
(***************************************************************************)
EXTENDS Collection, DataProps

CONSTANTS
    Masks,          \* update masks, sequences of paths
    Updates,        \* the fields of documents that come with them
    Watched,        \* the paths looked at after a merge
    Known,          \* the values that documents and queries are made of
    Queried,        \* the queries
    PageSizes       \* the limits they are paged with

IsPath(path) == path \in Seq({path[k] : k \in DOMAIN path}) \ {<< >>}

\* A map is a map from names to values.
IsProper(v) ==
    IsMap(v) =>
        /\ v = MapOf([name \in DOMAIN v.fields |-> v.fields[name]])
        /\ \A name \in DOMAIN v.fields : v.fields[name] # Missing

MapsOnTheWay(fields, path) == \A k \in 0 .. Len(path) : IsProper(Down(fields, path)[k])

ASSUME MasksAssumption ==
    /\ \A path \in Watched : IsPath(path)
    /\ \A mask \in Masks :
           /\ Len(mask) \in Nat /\ DOMAIN mask = 1 .. Len(mask)
           /\ \A k \in DOMAIN mask :
                  IsPath(mask[k]) /\ \A update \in Updates : MapsOnTheWay(update, mask[k])

\* The columns beside a document are those of its fields: nothing that was
\* committed before is left in them.
ColumnsFollow ==
    /\ columns = [d \in DOMAIN rows |-> columns[d]]
    /\ \A d \in DOMAIN rows : columns[d] = ColumnsOf(rows[d])

\* A document has its columns, and was updated by a commit there was.
CollectionTypeOK ==
    /\ ColumnsFollow
    /\ \A d \in DOMAIN rows : rows[d] # Missing => rows[d].updated \in 1 .. clock

-----------------------------------------------------------------------------
(* What is asked, and of which values.                                     *)

\* What index_key.rs promises of keys (ValuesProps has it of the model's), for
\* the values there are: their order is that of the values, and the first byte
\* tells the type.  NaN is the least number.
ASSUME KeysAssumption ==
    LET nan == Number(NaN)
    IN  /\ {Null, nan} \subseteq Known /\ Missing \notin Known
        /\ \A v \in Known :
              /\ KeyOf(v) \in Seq(Nat) \ {<< >>, Missing}
              /\ \A k \in DOMAIN Elements(v) : Elements(v)[k] \in Known
              /\ IsNull(v) <=> Compared(v, Null) = 0
              /\ IsNaNValue(v) <=> Compared(v, nan) = 0
              /\ Rank(v) = Rank(nan) => v.type = "number" /\ Compared(v, nan) >= 0
        /\ \A v, w \in Known :
              /\ Compared(v, w) = CompareBytes(KeyOf(v), KeyOf(w))
              /\ Rank(v) = Rank(w) <=> KeyOf(v)[1] = KeyOf(w)[1]
              /\ v.type = "reference" /\ Compared(v, w) = 0 => v = w

\* No deeper than the columns go.
IsField(path) == path = NamePath \/ (IsPath(path) /\ Len(path) <= MaxDepth)

FilterOps ==
    {"==", "!=", "<", "<=", ">", ">=", "array-contains", "array-contains-any", "in", "not-in",
     "is-null", "is-nan", "is-not-null", "is-not-nan"}

IsFilter(f) == f.op \in FilterOps /\ IsField(f.path) /\ f.operand \in Known

\* The name is always among the fields that a query orders by.
AreOrders(orders) ==
    /\ Len(orders) \in Nat /\ DOMAIN orders = 1 .. Len(orders)
    /\ \A k \in DOMAIN orders : IsField(orders[k].path) /\ orders[k].ascending \in BOOLEAN
    /\ \E k \in DOMAIN orders : orders[k].path = NamePath

IsCursor(c) == c.values \in Seq(Known) /\ c.before \in BOOLEAN

IsQuery(q) ==
    /\ q = [filters |-> q.filters, orderBy |-> q.orderBy, startAt |-> q.startAt,
            endAt |-> q.endAt, offset |-> q.offset, limit |-> q.limit]
    /\ \A k \in DOMAIN q.filters : IsFilter(q.filters[k])
    /\ AreOrders(NormalizeOrders(q))
    /\ \A c \in {q.startAt, q.endAt} \ {Missing} : IsCursor(c)
    /\ q.offset \in Nat /\ (q.limit # Missing => q.limit \in Int)

Unpaged(q) == q.startAt = Missing /\ q.endAt = Missing /\ q.offset = 0 /\ q.limit = Missing

ASSUME QueriesAssumption ==
    (\A q \in Queried : IsQuery(q)) /\ PageSizes \subseteq Nat \ {0, Missing}

\* The documents are made of known values, their names among them.
DocsKnown ==
    \A d \in DOMAIN rows : rows[d] # Missing =>
        NameOf(d) \in Known /\ \A node \in Nodes(rows[d].fields) : node[2] \in Known

-----------------------------------------------------------------------------

\* A commit is what its writes are one after another, and a merge goes by its
\* mask, on whatever documents the commits before have left, and these are in
\* their type.  (The clock runs from 1.)
WritesMean ==
    clock > 0 =>
        /\ CollectionTypeOK
        /\ \A writes \in Batches : BatchIsItsWrites(rows, writes, clock + 1)
        /\ \A d \in DOMAIN rows, mask \in Masks, update \in Updates :
               rows[d] # Missing => MergeFollowsMask(rows[d].fields, mask, update, Watched)

\* "Same results, more I/O" (run_query_scanning): the plan, its window and the
\* stored columns never change what a query finds, nor in which order.
PlansKeepResults ==
    clock > 0 =>
        \A q \in Queried : Evaluate(rows, columns, q, TRUE) = Evaluate(rows, columns, q, FALSE)

\* The cursor a client makes of the last document of a page.
CursorAfter(d, orders) ==
    [values |-> [k \in DOMAIN orders |-> FieldValue(d, rows[d].fields, orders[k].path)],
     before |-> FALSE]

\* What of a query comes after it.
Onward(q, after) == Evaluate(rows, columns, [q EXCEPT !.startAt = after], TRUE)

\* The keyset pagination cursors are for (cursor_bound, query.rs): a page, then
\* what comes after its last document, is the whole of what was asked for, no
\* document twice and none left out.
PagesTile(q, n) ==
    \A page \in {Evaluate(rows, columns, [q EXCEPT !.limit = n], TRUE)} :
        Evaluate(rows, columns, q, TRUE)
          = IF page = << >> THEN << >>
            ELSE page \o Onward(q, CursorAfter(Last(page), NormalizeOrders(q)))

CursorsTile ==
    clock > 0 => \A q \in Queried, n \in PageSizes : Unpaged(q) => PagesTile(q, n)
=============================================================================
