------------------------------ MODULE WriteBatch ------------------------------
(***************************************************************************)
(* The writes of one commit, applied in order to an in-memory view of the  *)
(* documents they name (commit.rs), and the field paths they go through    *)
(* (fields.rs).  CommitPath has the transaction around this.               *)
(*                                                                         *)
(* A document is its fields, a function from names to values, with the     *)
(* times it was created and last updated.                                  *)
(***************************************************************************)
EXTENDS ValueTypes

CONSTANTS
    Missing,            \* in place of a value or a document that is not there
    Compared(_, _),     \* the order of values
    KeyOf(_)            \* the index key of a value

NoFields == [name \in {} |-> Null]

With(fields, name, v) ==
    [n \in DOMAIN fields \cup {name} |-> IF n = name THEN v ELSE fields[n]]

Without(fields, name) == [n \in DOMAIN fields \ {name} |-> fields[n]]

IsMap(v) == v # Missing /\ v.type = "map"

Inner(v) == IF IsMap(v) THEN v.fields ELSE NoFields

-----------------------------------------------------------------------------
(* Field paths: non-empty sequences of names.                              *)

Below(v, name) == IF IsMap(v) /\ name \in DOMAIN v.fields THEN v.fields[name] ELSE Missing

\* What is at each of the first names of the path.
Down(fields, path) ==
    LET at[k \in 0 .. Len(path)] == IF k = 0 THEN MapOf(fields) ELSE Below(at[k - 1], path[k])
    IN  at

GetField(fields, path) == Down(fields, path)[Len(path)]

\* The way back up: v at the last n names, and whatever else was there.
Put(fields, path, k, v) == MapOf(With(Inner(Down(fields, path)[k - 1]), path[k], v))

Up(fields, path, v) ==
    LET up[n \in 0 .. Len(path)] ==
          IF n = 0 THEN v ELSE Put(fields, path, Len(path) - n + 1, up[n - 1])
    IN  up

\* What is in the way and no map is replaced by one.
SetField(fields, path, v) == Up(fields, path, v)[Len(path)].fields

DeleteField(fields, path) ==
    LET parent == Down(fields, path)[Len(path) - 1]
    IN  CASE ~IsMap(parent) -> fields
          [] IsMap(parent) /\ Len(path) = 1 -> Without(fields, path[1])
          [] OTHER -> SetField(fields, Front(path), MapOf(Without(parent.fields, Last(path))))

-----------------------------------------------------------------------------
(* Field transforms.                                                       *)

IsNumber(v) == v # Missing /\ v.type = "number"
IsNaNValue(v) == IsNumber(v) /\ IsNaN(v.num)

\* The rounded sum of two numbers, one a double, is left as what it is of.
FloatSum(m, n) == [kind |-> "double", sumOf |-> <<m, n>>]

\* checked_add, pinned to the end it overflows.
SaturatingSum(m, n) ==
    IF m + n \in MinInt .. MaxInt THEN m + n ELSE IF n >= 0 THEN MaxInt ELSE MinInt

Increment(current, operand) ==
    CASE ~IsNumber(operand) -> Missing
      [] ~IsNumber(current) -> operand
      [] current.num.kind = "int" /\ operand.num.kind = "int" ->
           Number(Integer(SaturatingSum(current.num.i, operand.num.i)))
      [] OTHER -> Number(FloatSum(current.num, operand.num))

\* want is 1 for maximum, -1 for minimum.
MaxMin(current, operand, want) ==
    CASE ~IsNumber(operand) -> Missing
      [] ~IsNumber(current) \/ IsNaNValue(operand) -> operand
      [] IsNaNValue(current) -> current
      [] OTHER -> IF want * Compared(current, operand) >= 0 THEN current ELSE operand

Elements(v) == IF v # Missing /\ v.type = "array" THEN v.items ELSE << >>

IndexEqual(a, b) == KeyOf(a) = KeyOf(b)

Includes(values, v) == \E k \in DOMAIN values : IndexEqual(values[k], v)

AppendMissing(current, operands) ==
    FoldLeft(LAMBDA found, v : IF Includes(found, v) THEN found ELSE Append(found, v),
             Elements(current), operands)

RemoveAll(current, operands) ==
    SelectSeq(Elements(current), LAMBDA v : ~Includes(operands, v))

\* What a transform makes of the field: Missing when it is refused.
Transformed(current, transform, now) ==
    CASE transform.kind = "serverTime" -> Time(now, 0)
      [] transform.kind = "increment" -> Increment(current, transform.operand)
      [] transform.kind = "maximum" -> MaxMin(current, transform.operand, 1)
      [] transform.kind = "minimum" -> MaxMin(current, transform.operand, -1)
      [] transform.kind = "append" -> Array(AppendMissing(current, transform.operand))
      [] transform.kind = "remove" -> Array(RemoveAll(current, transform.operand))

-----------------------------------------------------------------------------
(* Writes.                                                                 *)

\* A write: its document, its operation ("update", "delete", "verify",
\* "transform"), its precondition, the document it brings, its mask (Missing or
\* a sequence of paths) and its transforms, each with a path.
NoPrecondition == [kind |-> "none"]

Refusal(write, state) ==
    LET pre == write.precondition
    IN  CASE pre.kind = "exists" /\ state = Missing -> "NotFound"
          [] pre.kind = "absent" /\ state # Missing -> "AlreadyExists"
          [] pre.kind = "updated" /\ state = Missing -> "NotFound"
          [] pre.kind = "updated" /\ state # Missing ->
               IF state.updated = pre.at THEN "none" ELSE "FailedPrecondition"
          [] OTHER -> "none"

\* A path of the mask is taken from the update, or away if it is not there.
Merge1(fields, path, update) ==
    LET v == GetField(update, path)
    IN  IF v = Missing THEN DeleteField(fields, path) ELSE SetField(fields, path, v)

Merged(fields, mask, update) ==
    LET merged[k \in 0 .. Len(mask)] ==
          IF k = 0 THEN fields ELSE Merge1(merged[k - 1], mask[k], update)
    IN  merged[Len(mask)]

\* Missing once a transform is refused.
Placed(fields, path, v) == IF v = Missing THEN Missing ELSE SetField(fields, path, v)

TransformOne(fields, t, now) ==
    Placed(fields, t.path, Transformed(GetField(fields, t.path), t, now))

TransformAll(fields, transforms, now) ==
    LET done[k \in 0 .. Len(transforms)] ==
          CASE k = 0 -> fields
            [] k > 0 /\ done[k - 1] = Missing -> Missing
            [] OTHER -> TransformOne(done[k - 1], transforms[k], now)
    IN  done[Len(transforms)]

\* A refused write leaves the state as it is.
Outcome(write, state, error, fields, now) ==
    [error |-> error,
     state |-> CASE error # "none" -> state
                 [] write.op = "delete" -> Missing
                 [] write.op = "verify" ->
                      IF state = Missing THEN Missing ELSE [state EXCEPT !.updated = now]
                 [] OTHER -> [updated |-> now, fields |-> fields]]

Refused(write, refusal, fields) ==
    IF refusal # "none" THEN refusal
    ELSE IF write.op \in {"update", "transform"} /\ fields = Missing
    THEN "InvalidArgument" ELSE "none"

Applied(write, state, fields, now) ==
    Outcome(write, state, Refused(write, Refusal(write, state), fields), fields, now)

Brought(write, old) ==
    IF write.op # "update" THEN old
    ELSE IF write.mask = Missing THEN write.fields ELSE Merged(old, write.mask, write.fields)

\* apply_write, on the state of its document: an error, or the next state.
ApplyWrite(write, state, now) ==
    Applied(write, state,
            TransformAll(Brought(write, IF state = Missing THEN NoFields ELSE state.fields),
                         write.transforms, now), now)

\* The view of the batch after one of its writes; an error ends it.
Advanced(view, write, step) ==
    [error |-> step.error,
     rows |-> [view.rows EXCEPT ![write.doc] = step.state],
     dirty |-> IF write.op = "verify" THEN view.dirty ELSE view.dirty \cup {write.doc}]

Untouched(rows) == [error |-> "none", rows |-> rows, dirty |-> {}]

\* Mutant: every write judged on the documents as the commit found them.
JudgedUnseen(rows, view, write, now) ==
    IF view.error # "none" THEN view
    ELSE Advanced(view, write, ApplyWrite(write, rows[write.doc], now))

\* Each write is judged against what those before it left.
Judged(rows, view, write, now) ==
    IF view.error # "none" THEN view
    ELSE Advanced(view, write, ApplyWrite(write, view.rows[write.doc], now))

\* The view after each of the writes, in order.
Views(rows, writes, now) ==
    LET view[k \in 0 .. Len(writes)] ==
          IF k = 0 THEN Untouched(rows) ELSE Judged(rows, view[k - 1], writes[k], now)
    IN  view

ApplyWrites(rows, writes, now) == Views(rows, writes, now)[Len(writes)]

Persisted(rows, done) ==
    IF done.error # "none" THEN rows
    ELSE [d \in DOMAIN rows |-> IF d \in done.dirty THEN done.rows[d] ELSE rows[d]]

\* What is stored: all of it or nothing, and of it what a write other than a
\* verify has touched.
Stored(rows, writes, now) == Persisted(rows, ApplyWrites(rows, writes, now))
=============================================================================
