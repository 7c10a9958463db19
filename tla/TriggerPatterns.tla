--------------------------- MODULE TriggerPatterns ---------------------------
(***************************************************************************)
(* The document patterns of triggers (parse_pattern and match_pattern of   *)
(* functions.rs).  A path is a sequence of names; a pattern is a sequence  *)
(* of segments, each a literal name, a capture `{x}` of one name, or a     *)
(* glob `{x=**}` of one or more names.                                     *)
(***************************************************************************)
EXTENDS Integers, Sequences

Literal(name) == [kind |-> "literal", name |-> name]
Capture(name) == [kind |-> "capture", name |-> name]
Glob(name) == [kind |-> "glob", name |-> name]

NoMatch == [matched |-> FALSE, params |-> << >>]

\* How many names segment k takes after the first `from` of them, or -1: a
\* glob takes all but one for each segment behind it.
Takes(segments, path, k, from) ==
    LET segment == segments[k]
        rest == Len(path) - from - (Len(segments) - k)
    IN  CASE segment.kind = "glob" -> IF rest >= 1 THEN rest ELSE -1
          [] segment.kind = "literal" ->
               IF from < Len(path) /\ path[from + 1] = segment.name THEN 1 ELSE -1
          [] OTHER -> IF from < Len(path) THEN 1 ELSE -1

\* After no segment, and after a segment that takes n names from the walk w:
\* how many names are taken, and what is captured, by segment.
NothingTaken == [matched |-> TRUE, i |-> 0, params |-> << >>]
Lost == [matched |-> FALSE, i |-> 0, params |-> << >>]

Taken(segment, path, w, n) ==
    [matched |-> TRUE, i |-> w.i + n,
     params |-> IF segment.kind = "literal" THEN w.params
                ELSE Append(w.params, <<segment.name, SubSeq(path, w.i + 1, w.i + n)>>)]

Walked(segments, path, k, w) ==
    IF ~w.matched \/ Takes(segments, path, k, w.i) < 0 THEN Lost
    ELSE Taken(segments[k], path, w, Takes(segments, path, k, w.i))

\* One pass over the segments.
Walk(segments, path) ==
    LET walk[k \in 0 .. Len(segments)] ==
          IF k = 0 THEN NothingTaken ELSE Walked(segments, path, k, walk[k - 1])
    IN  walk

Ended(path, w) ==
    IF w.matched /\ w.i = Len(path) THEN [matched |-> TRUE, params |-> w.params] ELSE NoMatch

MatchPattern(segments, path) == Ended(path, Walk(segments, path)[Len(segments)])
=============================================================================
