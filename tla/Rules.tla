-------------------------------- MODULE Rules --------------------------------
(***************************************************************************)
(* Security rules: expressions (eval.rs), and the walk through the match   *)
(* blocks of a ruleset to the allow statements that apply (matcher.rs).    *)
(*                                                                         *)
(* Numbers are integers; strings are compared and never taken apart; map   *)
(* literals, slices, floats, times and the standard library are left out.  *)
(* An error is the value Undefined; a budget ends an evaluation for good.  *)
(***************************************************************************)
EXTENDS Integers, SequencesExt

CONSTANTS
    MaxSteps,       \* MAX_STEPS (10 000)
    MaxCallDepth,   \* MAX_CALL_DEPTH (20)
    MaxLookups,     \* backend lookups of one evaluation (20)
    Largest         \* the largest integer

Undefined == [type |-> "undefined"]
Null == [type |-> "null"]
Bool(b) == [type |-> "bool", bool |-> b]
Int64(i) == [type |-> "int", int |-> i]
Str(s) == [type |-> "string", str |-> s]
ListOf(items) == [type |-> "list", items |-> items]
MapOf(fields) == [type |-> "map", fields |-> fields]
PathOf(segments) == [type |-> "path", segments |-> segments]

IsBool(v) == v.type = "bool"
IsTrue(v) == v = Bool(TRUE)

\* The unspecified document of a list request.
WILDCARD == "*"

-----------------------------------------------------------------------------
(* Scopes are sequences of <<name, value>>; the latest binding counts.     *)

LookupVar(scope, name) ==
    LET bound == {k \in DOMAIN scope : scope[k][1] = name}
    IN  IF bound = {} THEN Undefined
        ELSE scope[CHOOSE k \in bound : \A j \in bound : j <= k][2]

Quotient(a, b) ==
    LET size(n) == IF n < 0 THEN -n ELSE n
    IN  (IF (a < 0) = (b < 0) THEN 1 ELSE -1) * (size(a) \div size(b))

\* Checked, and rounded towards zero.  The remainder overflows where the
\* quotient does.
Arithmetic(op, a, b) ==
    LET n == CASE op = "+" -> a + b
               [] op = "-" -> a - b
               [] op = "*" -> a * b
               [] op \in {"/", "%"} -> Quotient(a, b)
    IN  CASE op \in {"/", "%"} /\ b = 0 -> Undefined
          [] n \notin -Largest - 1 .. Largest -> Undefined
          [] op = "%" -> Int64(a - b * n)
          [] OTHER -> Int64(n)

Compared(op, a, b) ==
    CASE op = "<" -> a < b
      [] op = "<=" -> a <= b
      [] op = ">" -> a > b
      [] op = ">=" -> a >= b

Operators == {"==", "!=", "<", "<=", ">", ">=", "in", "+", "-", "*", "/", "%"}

\* binary() and arithmetic(), on defined operands.
Binary(op, l, r) ==
    LET ints == l.type = "int" /\ r.type = "int"
    IN  CASE op = "==" -> Bool(l = r)
          [] op = "!=" -> Bool(l # r)
          [] op = "in" /\ r.type = "list" -> Bool(\E k \in DOMAIN r.items : r.items[k] = l)
          [] op = "in" /\ r.type = "map" /\ l.type = "string" -> Bool(l.str \in DOMAIN r.fields)
          [] op = "+" /\ l.type = "list" /\ r.type = "list" -> ListOf(l.items \o r.items)
          [] op \in {"<", "<=", ">", ">="} /\ ints -> Bool(Compared(op, l.int, r.int))
          [] op \in {"+", "-", "*", "/", "%"} /\ ints -> Arithmetic(op, l.int, r.int)
          [] OTHER -> Undefined

\* `is`: the type's name, or that of all numbers.
IsOf(v, type) == v.type = type \/ (type = "number" /\ v.type = "int")

IndexValue(base, index) ==
    CASE base.type = "list" /\ index.type = "int" /\ index.int + 1 \in DOMAIN base.items ->
           base.items[index.int + 1]
      [] base.type = "map" /\ index.type = "string" /\ index.str \in DOMAIN base.fields ->
           base.fields[index.str]
      [] base.type = "path" /\ index.type = "int" /\ index.int + 1 \in DOMAIN base.segments ->
           Str(base.segments[index.int + 1])
      [] OTHER -> Undefined

MemberOf(base, field) ==
    IF base.type = "map" /\ field \in DOMAIN base.fields THEN base.fields[field] ELSE Undefined

-----------------------------------------------------------------------------
(* Documents: functions from paths, sequences of segments, to fields.      *)

\* StoreHost::lookup: the prefix taken off, then the document or Null; a path
\* that names no document is an error.
Document(docs, segments) ==
    LET path == IF segments # << >> /\ segments[1] = "databases"
                THEN SubSeq(segments, 4, Len(segments)) ELSE segments
    IN  CASE path = << >> \/ Len(path) % 2 = 1 -> Undefined
          [] path \notin DOMAIN docs -> Null
          [] OTHER -> MapOf([data |-> MapOf(docs[path]), id |-> Str(Last(path)),
                             __name__ |-> PathOf(path)])

\* get() and exists(), and the same of the state after the request, which is
\* read as the state before it.
HostCall(name, docs, segments) ==
    LET found == Document(docs, segments)
    IN  CASE found = Undefined -> Undefined
          [] name \in {"exists", "existsAfter"} -> Bool(found # Null)
          [] OTHER -> found

-----------------------------------------------------------------------------
(* Evaluation threads the budget: [steps, lookups, depth, fatal].          *)

FreshBudget == [steps |-> 0, lookups |-> 0, depth |-> 0, fatal |-> FALSE]

Result(v, budget) == [v |-> v, budget |-> budget]

Failed(result) == result.budget.fatal \/ result.v = Undefined

FatalIf(condition, budget) == [budget EXCEPT !.fatal = @ \/ condition]

\* logical(), once the right side is needed: the side that decides absorbs an
\* error of the other; without one the error is the value.
Logic(isOr, l, r) ==
    CASE IsBool(l) -> r
      [] IsBool(r) /\ r.bool = isOr -> r
      [] OTHER -> l

RECURSIVE Eval(_, _, _, _)

\* Expressions in order, until one fails: the last result, with all values.
RECURSIVE EvalAll(_, _, _, _)
EvalAll(exprs, scope, env, budget) ==
    IF exprs = << >> THEN [v |-> Null, budget |-> budget, vs |-> << >>]
    ELSE LET first == Eval(Head(exprs), scope, env, budget)
             rest == EvalAll(Tail(exprs), scope, env, first.budget)
         IN  IF Failed(first) THEN [v |-> first.v, budget |-> first.budget, vs |-> << >>]
             ELSE [rest EXCEPT !.vs = <<first.v>> \o @]

\* What is made of the values, when all are defined.
Mapped(all, Make(_)) ==
    IF Failed(all) THEN Result(all.v, all.budget) ELSE Result(Make(all.vs), all.budget)

\* A splice adds a string, or all of a path.
Spliced(values) ==
    LET piece(v) == IF v.type = "string" THEN <<v.str>> ELSE v.segments
    IN  IF \A k \in DOMAIN values : values[k].type \in {"string", "path"}
        THEN PathOf(FlattenSeq([k \in DOMAIN values |-> piece(values[k])])) ELSE Undefined

\* A declared function: the first of its name.  Its scope is the caller's but
\* for its parameters; a let may bind an error.
RECURSIVE BindLets(_, _, _, _)
BindLets(lets, scope, env, budget) ==
    IF lets = << >> \/ budget.fatal THEN [scope |-> scope, budget |-> budget]
    ELSE LET bound == Eval(Head(lets)[2], scope, env, budget)
         IN  BindLets(Tail(lets), Append(scope, <<Head(lets)[1], bound.v>>), env, bound.budget)

CallFunction(decl, args, scope, env, budget) ==
    LET called == FatalIf(budget.depth >= MaxCallDepth, [budget EXCEPT !.depth = @ + 1])
        visible == SelectSeq(scope, LAMBDA b : b[1] \notin ToSet(decl.params))
        bound == visible \o [k \in DOMAIN args |-> <<decl.params[k], args[k]>>]
        ready == BindLets(decl.lets, bound, env, called)
        done == Eval(decl.body, ready.scope, env, ready.budget)
    IN  CASE Len(decl.params) # Len(args) -> Result(Undefined, budget)
          [] called.fatal -> Result(Undefined, called)
          [] OTHER -> Result(done.v, [done.budget EXCEPT !.depth = @ - 1])

CallGlobal(name, args, env, budget) ==
    LET counted == FatalIf(budget.lookups >= MaxLookups, [budget EXCEPT !.lookups = @ + 1])
    IN  CASE name \notin {"get", "getAfter", "exists", "existsAfter"} -> Result(Undefined, budget)
          [] args = << >> -> Result(Undefined, budget)
          [] args[1].type # "path" -> Result(Undefined, budget)
          [] OTHER -> Result(HostCall(name, env.docs, args[1].segments), counted)

Call(name, args, scope, env, budget) ==
    LET declared == {k \in DOMAIN env.functions : env.functions[k].name = name}
    IN  IF declared = {} THEN CallGlobal(name, args, env, budget)
        ELSE CallFunction(env.functions[CHOOSE k \in declared : \A j \in declared : k <= j],
                          args, scope, env, budget)

\* env has the functions in scope and the documents.
Eval(e, scope, env, before) ==
    LET budget == FatalIf(before.steps >= MaxSteps, [before EXCEPT !.steps = @ + 1])
        all == EvalAll(e.of, scope, env, budget)
        first == Eval(e.of[1], scope, env, budget)
        then(k) == Eval(e.of[k], scope, env, first.budget)
        called == Call(e.name, all.vs, scope, env, all.budget)
        isOr == e.op = "||"
    IN  IF budget.fatal THEN Result(Undefined, budget)
        ELSE CASE e.op = "value" -> Result(e.value, budget)
               [] e.op = "var" -> Result(LookupVar(scope, e.name), budget)
               [] e.op = "list" -> Mapped(all, ListOf)
               [] e.op = "path" -> Mapped(all, Spliced)
               [] e.op = "." -> Mapped(all, LAMBDA vs : MemberOf(vs[1], e.name))
               [] e.op = "[]" -> Mapped(all, LAMBDA vs : IndexValue(vs[1], vs[2]))
               [] e.op = "!" -> Mapped(all, LAMBDA vs : IF IsBool(vs[1]) THEN Bool(~vs[1].bool)
                                                        ELSE Undefined)
               [] e.op = "is" -> Mapped(all, LAMBDA vs : Bool(IsOf(vs[1], e.name)))
               [] e.op \in Operators ->
                    Mapped(all, LAMBDA vs : Binary(e.op, vs[1], vs[2]))
               [] e.op \in {"&&", "||"} ->
                    IF first.budget.fatal \/ first.v = Bool(isOr) THEN first
                    ELSE Result(Logic(isOr, first.v, then(2).v), then(2).budget)
               [] e.op = "?:" ->
                    CASE first.budget.fatal -> first
                      [] IsBool(first.v) -> IF first.v.bool THEN then(2) ELSE then(3)
                      [] OTHER -> Result(Undefined, first.budget)
               [] e.op = "call" -> IF Failed(all) THEN Result(all.v, all.budget) ELSE called

-----------------------------------------------------------------------------
(* Match blocks: [path, functions, allows, children].                      *)

NoMatch == [at |-> -1, captures |-> << >>]

\* Mutant: the unspecified document taken for a document.
CapturedAsIs(segment) == Str(segment)

Captured(segment) == IF segment = WILDCARD THEN Undefined ELSE Str(segment)

\* match_segments: where the block's segments end, with what they capture.  A
\* glob takes all but one for each segment after it.
MatchSegments(version, segments, path, consumed, captures) ==
    LET take(at, k) == Len(path) - (Len(segments) - k) - at
        bind(m, value, n) == [at |-> m.at + n, captures |-> Append(m.captures, value)]
        step(m, k) ==
          LET seg == segments[k]
          IN  CASE m = NoMatch -> NoMatch
                [] seg.kind = "glob" ->
                     IF take(m.at, k) < (IF version = 1 THEN 1 ELSE 0) THEN NoMatch
                     ELSE bind(m, <<seg.name, PathOf(SubSeq(path, m.at + 1, m.at + take(m.at, k)))>>,
                               take(m.at, k))
                [] seg.kind # "glob" /\ m.at >= Len(path) -> NoMatch
                [] seg.kind = "capture" -> bind(m, <<seg.name, Captured(path[m.at + 1])>>, 1)
                [] OTHER -> IF path[m.at + 1] = seg.name THEN [m EXCEPT !.at = @ + 1] ELSE NoMatch
    IN  FoldLeft(step, [at |-> consumed, captures |-> captures], [k \in DOMAIN segments |-> k])

\* covered_by: read and write stand for their operations.
CoveredBy(operation, method) ==
    method = operation \/ method = (IF operation \in {"get", "list"} THEN "read" ELSE "write")

\* The statements of a block in order, each with a budget of its own, until
\* one grants or ends the evaluation.
RECURSIVE Granting(_, _, _, _)
Granting(allows, operation, scope, env) ==
    IF allows = << >> THEN "deny"
    ELSE LET allow == Head(allows)
             done == Eval(allow.condition, scope, env, FreshBudget)
             applies == \E m \in allow.methods : CoveredBy(operation, m)
         IN  CASE applies /\ done.budget.fatal -> "fatal"
               [] applies /\ ~done.budget.fatal /\ IsTrue(done.v) -> "allow"
               [] OTHER -> Granting(Tail(allows), operation, scope, env)

RECURSIVE Walk(_, _, _, _, _)

\* The first of the blocks to grant, or to end the evaluation, decides.  What
\* one captures and declares is gone before the next.
RECURSIVE WalkAll(_, _, _, _, _)

\* Mutant: functions of a block left in scope for the next.
WalkLeaking(blocks, request, consumed, captures, functions) ==
    IF blocks = << >> THEN "deny"
    ELSE LET done == Walk(Head(blocks), request, consumed, captures, functions)
         IN  IF done # "deny" THEN done
             ELSE WalkAll(Tail(blocks), request, consumed, captures,
                          functions \o Head(blocks).functions)

WalkAll(blocks, request, consumed, captures, functions) ==
    IF blocks = << >> THEN "deny"
    ELSE LET done == Walk(Head(blocks), request, consumed, captures, functions)
         IN  IF done # "deny" THEN done
             ELSE WalkAll(Tail(blocks), request, consumed, captures, functions)

\* A block that the path goes through: its statements when the path ends
\* there, then its children, with what has been captured and declared above.
Walk(block, request, consumed, captures, functions) ==
    LET matched == MatchSegments(request.version, block.path, request.path, consumed, captures)
        declared == functions \o block.functions
        own == IF matched.at # Len(request.path) THEN "deny"
               ELSE Granting(block.allows, request.operation, request.globals \o matched.captures,
                             [functions |-> declared, docs |-> request.docs])
    IN  CASE matched = NoMatch -> "deny"
          [] own # "deny" -> own
          [] OTHER -> WalkAll(block.children, request, matched.at, matched.captures, declared)

\* evaluate, on the service's blocks and functions.
Decide(ruleset, request) == WalkAll(ruleset.matches, request, 0, << >>, ruleset.functions)
=============================================================================
