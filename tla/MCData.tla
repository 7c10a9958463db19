-------------------------------- MODULE MCData --------------------------------
(***************************************************************************)
(* Values, a collection under commits, and the triggers of commits: they   *)
(* share no state, and a behaviour is about one of them.                   *)
(***************************************************************************)
EXTENDS ValuesProps, CollectionProps, TriggersProps

VARIABLES
    part,
    subject     \* the value that the part of the values is about

-----------------------------------------------------------------------------
(* Values: every type, and the edges of each.                              *)

a == <<97>>
b == <<98>>

Num(i) == Number(Integer(i))
Float(neg, exponent, mantissa) == Number(Double(neg, Bias + exponent, mantissa))
One == Float(FALSE, 0, 0)
Half == Float(FALSE, -1, 0)
NotANumber == Number(NaN)

Wholes == {Num(i) : i \in {0, 1, -1, 2, 3, 16, 17, 4095, MaxInt, MinInt}}

\* Magnitudes about the borders of the four ranges of exponents, on both sides
\* of 1, and around the largest integer; subnormals, zeros, infinities.
Doubles ==
    {Float(neg, e, m) : neg \in BOOLEAN, m \in {0, 128, 255},
                        e \in {-149, -21, -20, -5, -4, -1, 0, 1, 4, 13, 14, 20, 148}}
      \cup {Number(Double(neg, 0, m)) : neg \in BOOLEAN, m \in {0, 1, 128}}
      \cup {NotANumber, Number(Infinity(TRUE)), Number(Infinity(FALSE))}

Names == {<< >>, a, <<0>>, <<0, 0>>, <<97, 0>>, <<97, 47>>, <<255>>}

Scalars ==
    {Null, Bool(TRUE), Bool(FALSE)} \cup Wholes \cup Doubles
      \cup {Time(s, n) : s \in {-1, 0, 1}, n \in {0, 1}}
      \cup {Text(s) : s \in Names} \cup {Blob(s) : s \in Names}
      \cup {Reference(s) : s \in {<<a>>, <<a, b>>, << <<97, 0>> >>, << <<97, 47>> >>}}
      \cup {Point(x, y) : x, y \in {Double(TRUE, 0, 0), Double(FALSE, Bias, 0), NaN}}

Small == {Null, Num(1), Half, Text(<< >>), Text(<<0>>)}

Containers ==
    {Array(s) : s \in {<< >>} \cup {<<v>> : v \in Small} \cup {<<v, w>> : v, w \in Small}}
      \cup {Vector(<< >>)} \cup {Vector(<<v>>) : v \in {Num(1), Half}}
      \cup {Vector(<<v, w>>) : v, w \in {Num(1), Half}}
      \cup {MapOf(f) : f \in {NoFields} \cup {k :> v : k \in {a, <<0>>, << >>}, v \in Small}
                             \cup {a :> v @@ b :> w : v, w \in {Num(1), Text(<<0>>)}}}
      \cup {MapOf(a :> Array(<<Half>>)), Array(<<Array(<< >>), Null>>)}

Subjects == Scalars \cup Containers

-----------------------------------------------------------------------------
(* A collection of three documents, and batches of two writes.             *)

Docs == {<<1>>, <<2>>, <<3>>}

Row(fields) == [updated |-> 1, fields |-> fields]

Contents ==
    {NoFields, a :> Num(1), a :> One, a :> Half, a :> NotANumber, a :> Null, a :> Text(<<0>>),
     a :> Array(<<Num(1), NotANumber>>), a :> MapOf(b :> Num(1)),
     a :> Num(1) @@ b :> Text(a), a :> Num(2) @@ b :> Null}

MCRows ==
    {[d \in Docs |-> CASE d = <<1>> -> Row(f) [] d = <<2>> -> Row(a :> Num(1) @@ b :> Num(2))
                       [] OTHER -> Missing] : f \in Contents}

pa == <<a>>
pb == <<b>>
pab == <<a, b>>

Write(d, op, precondition) ==
    [doc |-> d, op |-> op, precondition |-> precondition, fields |-> NoFields, mask |-> Missing,
     transforms |-> << >>]
Update(d, fields) == [Write(d, "update", NoPrecondition) EXCEPT !.fields = fields]
Merge(d, mask, fields) == [Update(d, fields) EXCEPT !.mask = mask]
Transforms(write, transforms) == [write EXCEPT !.transforms = transforms]
Pre(kind) == [kind |-> kind]

Increase(n) == [kind |-> "increment", path |-> pa, operand |-> Num(n)]
Collect(v) == [kind |-> "append", path |-> pa, operand |-> <<v, v>>]

Edits ==
    {Update(<<1>>, NoFields), Update(<<3>>, a :> Half @@ b :> Num(1)),
     [Update(<<1>>, a :> Num(2)) EXCEPT !.precondition = [kind |-> "updated", at |-> 2]],
     [Update(<<3>>, a :> Num(MaxInt)) EXCEPT !.precondition = Pre("absent")],
     Merge(<<1>>, <<pab>>, NoFields), Merge(<<1>>, <<pab, pb>>, a :> MapOf(b :> Num(2))),
     Write(<<1>>, "delete", NoPrecondition), Write(<<2>>, "delete", Pre("exists")),
     Write(<<1>>, "verify", [kind |-> "updated", at |-> 1]), Write(<<3>>, "verify", Pre("absent")),
     Transforms(Write(<<2>>, "transform", NoPrecondition), <<Increase(MaxInt), Increase(1)>>),
     Transforms(Merge(<<1>>, << >>, NoFields), <<Collect(Num(1))>>),
     Transforms(Update(<<1>>, NoFields), <<[Increase(1) EXCEPT !.operand = Null]>>)}

MCBatches == {<<w>> : w \in Edits} \cup {<<v, w>> : v, w \in Edits}

Paths2 == {pa, pb, pab, <<a, a>>}

MCMasks == {<< >>} \cup {<<p>> : p \in Paths2} \cup {<<pab, pb>>, <<pb, <<a, a>> >>, <<pab, pa>>, <<pa, pab>>}
MCUpdates == {NoFields, a :> MapOf(b :> Num(2)), b :> Null}

-----------------------------------------------------------------------------
(* Queries: every filter, alone and with order-bys, a limit or a cursor.   *)

Operands ==
    {Null, Num(1), Half, NotANumber, Text(<< >>), Array(<<Num(1), Null>>),
     Array(<<One, Text(<<0>>)>>), MapOf(b :> Num(1))}

Filter(op, path, operand) == [op |-> op, path |-> path, operand |-> operand]

Filters ==
    {Filter(op, pa, v) : v \in Operands,
        op \in {"==", "!=", "<", "<=", ">", ">=", "array-contains", "array-contains-any", "in", "not-in"}}
      \cup {Filter(op, pab, Num(1)) : op \in {"==", "!=", "<="}}
      \cup {Filter(op, pa, Null) : op \in {"is-null", "is-nan", "is-not-null", "is-not-nan"}}

Order(path, ascending) == [path |-> path, ascending |-> ascending]

Orders == {<< >>, <<Order(pa, FALSE)>>, <<Order(pb, FALSE), Order(pa, TRUE)>>}

Query(filters, orders) ==
    [filters |-> filters, orderBy |-> orders, startAt |-> Missing, endAt |-> Missing,
     offset |-> 0, limit |-> Missing]

Filtered == {Query(<<f>>, o) : f \in Filters, o \in Orders}

Cursors ==
    {[values |-> v, before |-> before] : before \in BOOLEAN,
        v \in {<< >>, <<Num(1)>>, <<NotANumber>>, <<Num(1), Null>>, <<Num(2), Text(<<0>>)>>}}

Limited == {[q EXCEPT !.limit = 1] : q \in Filtered}

Bounded ==
    UNION {{[Query(<< >>, o) EXCEPT !.limit = 1, !.startAt = c],
            [Query(<< >>, o) EXCEPT !.limit = 1, !.offset = 1, !.endAt = c]} : o \in Orders, c \in Cursors}

MCQueried == Filtered \cup Limited \cup Bounded

\* The values of all these documents, writes and queries.
MCKnown ==
    Operands \cup {Reference(<<d>>) : d \in Docs} \cup {Num(i) : i \in {1, 2, MaxInt}}
      \cup {One, Text(a), Text(<<0>>), Array(<<Num(1), NotANumber>>), Array(<<Num(1)>>), MapOf(NoFields),
             MapOf(b :> Num(2))}

-----------------------------------------------------------------------------
(* Triggers: a path of two names and one of four.                          *)

doc == <<"c", "a">>
deep == <<"c", "b", "s", "a">>
MCPaths == {doc, deep}
MCChanges == {doc :> FALSE, doc :> TRUE @@ deep :> TRUE}
MCRegistries ==
    {{}, {[segments |-> <<Literal("c"), Literal("b"), Glob("x")>>, event |-> "written"],
          [segments |-> <<Literal("c"), Capture("x")>>, event |-> "created"]}}

\* "matches a document path" (match_pattern): the one pass over the segments
\* finds what their meaning asks for, for patterns of up to three segments
\* with at most one glob.
Segments == {Literal("c"), Capture("x"), Glob("y"), Glob("z")}
ASSUME PatternsMean ==
    \A segments \in UNION {[1 .. n -> Segments] : n \in 1 .. 3},
       path \in UNION {[1 .. n -> {"c", "d"}] : n \in 1 .. 4} :
          Cardinality({k \in DOMAIN segments : segments[k].kind = "glob"}) <= 1
            => MatchPattern(segments, path) = PatternMeaning(segments, path)

-----------------------------------------------------------------------------

\* A part that a behaviour is not about: nothing is left to happen in it.
CollectionOff == rows = [d \in Docs |-> Missing] /\ columns = rows /\ clock = 0

TriggersOff ==
    /\ exists = [p \in Paths |-> FALSE] /\ commits = << >>
    /\ unsent = [i \in Processes |-> {}] /\ tailed = [i \in Processes |-> 0]
    /\ hub = [i \in Processes |-> << >>] /\ listening = [i \in Processes |-> TRUE]
    /\ registry = [i \in Processes |-> {}] /\ deliveries = {} /\ owed = {} /\ crashes = 0

MCInit ==
    \/ part = "values" /\ subject \in Subjects /\ CollectionOff /\ TriggersOff
    \/ part = "collection" /\ Init /\ subject = Null /\ TriggersOff
    \/ part = "triggers" /\ TriggersInit /\ subject = Null /\ CollectionOff

MCNext ==
    /\ \/ part = "collection" /\ Next /\ UNCHANGED triggerVars
       \/ part = "triggers" /\ TriggersNext /\ UNCHANGED vars
    /\ UNCHANGED <<part, subject>>

MCSpec == MCInit /\ [][MCNext]_<<part, subject, vars, triggerVars>> /\ TriggersFair

ValuesMean ==
    /\ part = "values" =>
        /\ KeysAgree(subject, Subjects, {Null, MapOf(NoFields)})
        /\ \A operand \in Subjects : TransformsMean(subject, operand)
    /\ part = "collection" => DocsKnown
=============================================================================
