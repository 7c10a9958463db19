------------------------------- MODULE Queries -------------------------------
(***************************************************************************)
(* Structured queries over one collection: the exact semantics (query.rs), *)
(* and the plan that lets MongoDB narrow, order and page the candidates by *)
(* the key columns stored with each document (plan.rs, store.rs).          *)
(*                                                                         *)
(* A query has filters, order-bys, cursors, an offset and a limit; filters *)
(* come flattened, and the order-bys name distinct fields.  A field path   *)
(* is a sequence of names, and the empty one is "__name__".                *)
(***************************************************************************)
EXTENDS WriteBatch

CONSTANT MaxDepth   \* bound on maps within maps

ASSUME DepthAssumption == MaxDepth \in Nat

NamePath == << >>

\* Only the last segment of a document's name is kept.
NameOf(d) == Reference(<<d>>)

FieldValue(d, fields, path) == IF path = NamePath THEN NameOf(d) ELSE GetField(fields, path)

IsNull(v) == v.type = "null"

-----------------------------------------------------------------------------
(* Filters, on a value of the field.                                       *)

QueryEq(v, operand) ==
    /\ ~IsNull(operand) /\ ~IsNaNValue(operand) /\ ~IsNaNValue(v)
    /\ Rank(v) = Rank(operand)
    /\ Compared(v, operand) = 0

\* Only values of one type compare; signs are the outcomes wanted.
Inequality(v, operand, signs) ==
    /\ ~IsNaNValue(v) /\ ~IsNaNValue(operand) /\ ~IsNull(operand)
    /\ Rank(v) = Rank(operand)
    /\ Compared(v, operand) \in signs

AnyEq(v, values) == \E k \in DOMAIN values : QueryEq(v, values[k])

Matches(f, v) ==
    /\ v # Missing
    /\ CASE f.op = "==" -> QueryEq(v, f.operand)
         [] f.op = "!=" -> /\ ~IsNull(v) /\ ~IsNaNValue(v) /\ ~IsNull(f.operand)
                           /\ ~QueryEq(v, f.operand)
         [] f.op = "<" -> Inequality(v, f.operand, {-1})
         [] f.op = "<=" -> Inequality(v, f.operand, {-1, 0})
         [] f.op = ">" -> Inequality(v, f.operand, {1})
         [] f.op = ">=" -> Inequality(v, f.operand, {0, 1})
         [] f.op = "array-contains" ->
              \E k \in DOMAIN Elements(v) : QueryEq(Elements(v)[k], f.operand)
         [] f.op = "array-contains-any" ->
              \E k \in DOMAIN Elements(v) : AnyEq(Elements(v)[k], Elements(f.operand))
         [] f.op = "in" -> AnyEq(v, Elements(f.operand))
         [] f.op = "not-in" ->
              /\ ~IsNull(v) /\ ~IsNaNValue(v) /\ f.operand.type = "array"
              /\ \A k \in DOMAIN f.operand.items :
                     ~IsNull(f.operand.items[k]) /\ ~QueryEq(v, f.operand.items[k])
         [] f.op = "is-null" -> IsNull(v)
         [] f.op = "is-nan" -> IsNaNValue(v)
         [] f.op = "is-not-null" -> ~IsNull(v)
         [] f.op = "is-not-nan" -> ~IsNull(v) /\ ~IsNaNValue(v)

-----------------------------------------------------------------------------
(* Order.                                                                  *)

\* Paths order as the dotted strings they are written as.
Dotted(path) == FlattenSeq([k \in DOMAIN path |-> IF k = 1 THEN path[k] ELSE <<46>> \o path[k]])

PathBefore(p, q) == CompareBytes(Dotted(p), Dotted(q)) < 0

Unequal(query) ==
    {query.filters[k].path : k \in
        {n \in DOMAIN query.filters :
           query.filters[n].op \in {"<", "<=", ">", ">=", "!=", "not-in"}}}

Implied(query, named) ==
    SetToSortSeq(Unequal(query) \ (named \cup {NamePath}), PathBefore)
      \o (IF NamePath \in named THEN << >> ELSE <<NamePath>>)

Along(paths, ascending) ==
    [k \in DOMAIN paths |-> [path |-> paths[k], ascending |-> ascending]]

\* The explicit order-bys, then the fields of inequalities, then the name.
NormalizeOrders(query) ==
    query.orderBy
      \o Along(Implied(query, {query.orderBy[k].path : k \in DOMAIN query.orderBy}),
               query.orderBy = << >> \/ Last(query.orderBy).ascending)

Directed(order, c) == IF order.ascending THEN c ELSE -c

CompareDocs(rows, orders, d, e) ==
    FirstNonZero([k \in DOMAIN orders |->
        Directed(orders[k], Compared(FieldValue(d, rows[d].fields, orders[k].path),
                                          FieldValue(e, rows[e].fields, orders[k].path)))])

\* Mutant: the direction forgotten.
CompareAscending(rows, orders, d, values) ==
    FirstNonZero([k \in 1 .. Shorter(Len(values), Len(orders)) |->
        Compared(FieldValue(d, rows[d].fields, orders[k].path), values[k])])

\* A cursor gives values for the first of the order-bys.
CompareToCursor(rows, orders, d, values) ==
    FirstNonZero([k \in 1 .. Shorter(Len(values), Len(orders)) |->
        Directed(orders[k], Compared(FieldValue(d, rows[d].fields, orders[k].path), values[k]))])

-----------------------------------------------------------------------------
(* Stored key columns: MongoDB sees only these.                            *)

\* The values a document mirrors, by path, those of its maps included: a node
\* has a child for each entry of a map.
Children(node) ==
    {<<Append(node[1], name), Inner(node[2])[name]>> : name \in DOMAIN Inner(node[2])}

Nodes(fields) ==
    LET level[n \in 0 .. MaxDepth] ==
          IF n = 0 THEN {<< << >>, MapOf(fields)>>} ELSE UNION {Children(m) : m \in level[n - 1]}
    IN  UNION {level[n] : n \in 1 .. MaxDepth}

IndexOf(nodes) ==
    [keys |-> [p \in {n[1] : n \in nodes} |-> KeyOf((CHOOSE n \in nodes : n[1] = p)[2])],
     elements |-> UNION {{<<n[1], KeyOf(Elements(n[2])[k])>> : k \in DOMAIN Elements(n[2])} :
                         n \in nodes}]

\* index_document.
IndexDocument(fields) == IndexOf(Nodes(fields))

ColumnKey(columns, d, path) ==
    CASE path = NamePath -> KeyOf(NameOf(d))
      [] path # NamePath /\ path \in DOMAIN columns[d].keys -> columns[d].keys[path]
      [] OTHER -> Missing

KeyIs(key, test) ==
    \/ test.is = "in" /\ key \in test.keys
    \/ test.is = "<" /\ CompareBytes(key, test.key) < 0
    \/ test.is = "<=" /\ CompareBytes(key, test.key) <= 0
    \/ test.is = ">" /\ CompareBytes(key, test.key) > 0
    \/ test.is = ">=" /\ CompareBytes(key, test.key) >= 0

\* A condition is a set of comparisons with keys.
KeyPasses(key, condition) == \A test \in condition : KeyIs(key, test)

In(keys) == {[is |-> "in", keys |-> keys]}
Cmp(op, key) == [is |-> op, key |-> key]

OnValue(path, condition) == [on |-> "value", path |-> path, condition |-> condition]
OnElement(path, condition) == [on |-> "element", path |-> path, condition |-> condition]
AnyOf(branches) == [on |-> "or", branches |-> branches]
Exists(path) == OnValue(path, {Cmp(">=", << >>)})

PassesSimple(clause, columns, d) ==
    IF clause.on = "value"
    THEN LET key == ColumnKey(columns, d, clause.path)
         IN  key # Missing /\ KeyPasses(key, clause.condition)
    ELSE \E e \in columns[d].elements :
             e[1] = clause.path /\ KeyPasses(e[2], clause.condition)

Passes(clause, columns, d) ==
    IF clause.on = "or"
    THEN \E branch \in clause.branches : \A c \in branch : PassesSimple(c, columns, d)
    ELSE PassesSimple(clause, columns, d)

-----------------------------------------------------------------------------
(* The plan.                                                               *)

\* A backtick: no column stands for the path without ambiguity.
PlainPath(path) == \A k \in DOMAIN path : \A j \in DOMAIN path[k] : path[k][j] # 96

Matchable(v) == ~IsNull(v) /\ ~IsNaNValue(v)

\* Kept within the tag of the operand's type, and above NaN.
TypedRange(path, op, operand, key) ==
    OnValue(path, {Cmp(op, key),
                   CASE op \in {">", ">="} -> Cmp("<", <<key[1] + 1>>)
                     [] op \in {"<", "<="} /\ operand.type = "number" ->
                          Cmp(">", KeyOf(Number(NaN)))
                     [] OTHER -> Cmp(">=", <<key[1]>>)})

KeySet(operand) == {KeyOf(v) : v \in {w \in ToSet(Elements(operand)) : Matchable(w)}}

\* Untranslated filters have no clause.
NoClause(f) ==
    \/ ~PlainPath(f.path)
    \/ f.op \in {"==", "<", "<=", ">", ">=", "array-contains"} /\ ~Matchable(f.operand)
    \/ f.op \in {"in", "array-contains-any"} /\ KeySet(f.operand) = {}

ExactClause(f) == f.op \notin {"!=", "not-in", "is-not-null", "is-not-nan"}

ClauseFor(f) ==
    CASE ~ExactClause(f) -> Exists(f.path)
      [] f.op = "==" -> OnValue(f.path, In({KeyOf(f.operand)}))
      [] f.op \in {"<", "<=", ">", ">="} -> TypedRange(f.path, f.op, f.operand, KeyOf(f.operand))
      [] f.op = "array-contains" -> OnElement(f.path, In({KeyOf(f.operand)}))
      [] f.op = "array-contains-any" -> OnElement(f.path, In(KeySet(f.operand)))
      [] f.op = "in" -> OnValue(f.path, In(KeySet(f.operand)))
      [] f.op = "is-null" -> OnValue(f.path, In({KeyOf(Null)}))
      [] f.op = "is-nan" -> OnValue(f.path, In({KeyOf(Number(NaN))}))

Plan(query, orders) ==
    LET filters == ToSet(query.filters)
        sorted == {orders[k].path : k \in DOMAIN orders} \ {NamePath}
    IN  [clauses |-> {ClauseFor(f) : f \in {g \in filters : ~NoClause(g)}}
                       \cup {Exists(p) : p \in {q \in sorted : PlainPath(q)}},
         exact |-> /\ \A f \in filters : ~NoClause(f) /\ ExactClause(f)
                   /\ \A p \in sorted : PlainPath(p)]

\* One branch per value of the cursor: the earlier columns equal, this one
\* further on.  No bound for an empty cursor, nor for one too long.
CursorBound(orders, cursor, inclusive, after) ==
    LET further(k) == IF after = orders[k].ascending THEN ">" ELSE "<"
        orEqual(k) == IF after = orders[k].ascending THEN ">=" ELSE "<="
        op(k) == IF k = Len(cursor.values) /\ inclusive THEN orEqual(k) ELSE further(k)
    IN  IF cursor.values = << >> \/ Len(cursor.values) > Len(orders) THEN Missing
        ELSE AnyOf({{OnValue(orders[j].path, In({KeyOf(cursor.values[j])})) : j \in 1 .. k - 1}
                      \cup {OnValue(orders[k].path, {Cmp(op(k), KeyOf(cursor.values[k]))})} :
                    k \in DOMAIN cursor.values})

Expressible(bounds, orders) ==
    /\ \A k \in DOMAIN orders : PlainPath(orders[k].path)
    /\ Missing \notin bounds

CheckedBounds(bounds, orders) ==
    IF bounds = {} \/ Expressible(bounds, orders) THEN bounds ELSE Missing

\* Missing when a cursor is there and cannot be expressed.
CursorClauses(query, orders) ==
    CheckedBounds(
        {CursorBound(orders, c, c.before, TRUE) : c \in {query.startAt} \ {Missing}}
          \cup {CursorBound(orders, c, ~c.before, FALSE) : c \in {query.endAt} \ {Missing}},
        orders)

\* pushdown_window: offset and limit may go to MongoDB.
PushesWindow(query, exact) ==
    /\ exact
    /\ query.limit # Missing => query.limit > 0
    /\ query.limit # Missing \/ query.offset > 0

-----------------------------------------------------------------------------

\* The members of a set, each after those that are before it.
Sorted(S, before) ==
    [n \in 1 .. Cardinality(S) |->
        CHOOSE d \in S : Cardinality({e \in S : <<e, d>> \in before}) = n - 1]

Skip(seq, n) == SubSeq(seq, n + 1, Len(seq))
Paged(seq, query) ==
    LET rest == IF query.offset > 0 THEN Skip(seq, query.offset) ELSE seq
    IN  IF query.limit = Missing THEN rest
        ELSE SubSeq(rest, 1, Shorter(IF query.limit < 0 THEN 0 ELSE query.limit, Len(rest)))

\* What MongoDB is asked: the clauses of the plan and the cursors, and, when
\* they say it all, the window of the page.
Request(query, plan, cursors) ==
    [clauses |-> plan.clauses \cup (IF cursors = Missing THEN {} ELSE cursors),
     window |-> cursors # Missing /\ PushesWindow(query, plan.exact)]
Everything == [clauses |-> {}, window |-> FALSE]

Selected(columns, docs, request) ==
    {d \in docs : \A c \in request.clauses : Passes(c, columns, d)}

CompareColumns(columns, orders, d, e) ==
    FirstNonZero([k \in DOMAIN orders |->
        Directed(orders[k], CompareBytes(ColumnKey(columns, d, orders[k].path),
                                         ColumnKey(columns, e, orders[k].path)))])

InColumnOrder(columns, orders, docs) ==
    Sorted(docs, {p \in docs \X docs : CompareColumns(columns, orders, p[1], p[2]) < 0})

\* What MongoDB returns: documents whose columns pass, in their columns' order
\* and paged when there is a window.  (When there is none the order does not
\* matter.)
Fetched(columns, orders, selected, query, window) ==
    IF window
    THEN ToSet(Paged(InColumnOrder(columns, orders, selected), query))
    ELSE selected

\* What the exact semantics keep: filters, the fields ordered by, cursors.
Kept(rows, query, orders, d) ==
    /\ \A k \in DOMAIN query.filters :
          Matches(query.filters[k], FieldValue(d, rows[d].fields, query.filters[k].path))
    /\ \A k \in DOMAIN orders : FieldValue(d, rows[d].fields, orders[k].path) # Missing
    /\ \A c \in {query.startAt} \ {Missing} :
          CompareToCursor(rows, orders, d, c.values) \in {1} \cup (IF c.before THEN {0} ELSE {})
    /\ \A c \in {query.endAt} \ {Missing} :
          CompareToCursor(rows, orders, d, c.values) \in {-1} \cup (IF c.before THEN {} ELSE {0})

InOrder(rows, orders, docs) ==
    Sorted(docs, {p \in docs \X docs : CompareDocs(rows, orders, p[1], p[2]) < 0})

TooLong(query, orders) ==
    \E c \in {query.startAt, query.endAt} \ {Missing} : Len(c.values) > Len(orders)

\* A page MongoDB has cut is not cut again.
PagedOnce(found, query, window) == IF window THEN found ELSE Paged(found, query)

Answer(rows, columns, query, orders, request) ==
    IF TooLong(query, orders) THEN Missing
    ELSE PagedOnce(
           InOrder(rows, orders,
                   {d \in Fetched(columns, orders,
                                  Selected(columns, {d \in DOMAIN rows : rows[d] # Missing}, request),
                                  query, request.window) :
                      Kept(rows, query, orders, d)}),
           query, request.window)

Requested(query, orders, planned) ==
    IF planned THEN Request(query, Plan(query, orders), CursorClauses(query, orders))
    ELSE Everything

Ordered(rows, columns, query, orders, planned) ==
    Answer(rows, columns, query, orders, Requested(query, orders, planned))

\* evaluate, with the planner or without: the names of the documents found, in
\* order, or Missing when the query is refused.
Evaluate(rows, columns, query, planned) ==
    Ordered(rows, columns, query, NormalizeOrders(query), planned)
=============================================================================
