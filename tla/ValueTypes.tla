------------------------------ MODULE ValueTypes ------------------------------
(***************************************************************************)
(* Firestore values, the order of their types (order.rs) and of sequences. *)
(*                                                                         *)
(* A string is the sequence of its bytes, a reference the sequence of its  *)
(* segments, an array a sequence of values, a map a function from keys to  *)
(* values; a vector is the map shape with the "__vector__" marker, here a  *)
(* kind of its own.                                                        *)
(***************************************************************************)
EXTENDS Numbers, SequencesExt

Null == [type |-> "null"]
Bool(b) == [type |-> "boolean", bool |-> b]
Number(n) == [type |-> "number", num |-> n]
Time(seconds, nanos) == [type |-> "timestamp", at |-> <<seconds, nanos>>]
Text(bytes) == [type |-> "string", text |-> bytes]
Blob(bytes) == [type |-> "bytes", bytes |-> bytes]
Reference(segments) == [type |-> "reference", segments |-> segments]
Point(latitude, longitude) == [type |-> "geopoint", point |-> <<latitude, longitude>>]
Array(values) == [type |-> "array", items |-> values]
Vector(values) == [type |-> "vector", elements |-> values]
MapOf(fields) == [type |-> "map", fields |-> fields]

\* TypeRank.
Rank(v) ==
    CASE v.type = "null" -> 0 [] v.type = "boolean" -> 2 [] v.type = "number" -> 3
      [] v.type = "timestamp" -> 4 [] v.type = "string" -> 6 [] v.type = "bytes" -> 7
      [] v.type = "reference" -> 9 [] v.type = "geopoint" -> 11 [] v.type = "array" -> 13
      [] v.type = "vector" -> 14 [] v.type = "map" -> 15

-----------------------------------------------------------------------------

FirstSign(c, rest) == IF c # 0 THEN c ELSE rest

Shorter(m, n) == IF m < n THEN m ELSE n

FirstNonZero(cs) ==
    IF \A k \in DOMAIN cs : cs[k] = 0 THEN 0
    ELSE cs[CHOOSE k \in DOMAIN cs : cs[k] # 0 /\ \A j \in 1 .. k - 1 : cs[j] = 0]

\* Lexicographic: the first of the first differing pair, else the length.
CompareSeqs(Compare(_, _), s, t) ==
    FirstSign(FirstNonZero([k \in 1 .. Shorter(Len(s), Len(t)) |-> Compare(s[k], t[k])]),
              Sign(Len(s) - Len(t)))

CompareInts(m, n) == Sign(m - n)

CompareBytes(s, t) == CompareSeqs(CompareInts, s, t)
=============================================================================
