-------------------------------- MODULE Values --------------------------------
(***************************************************************************)
(* The total order of values (order.rs), and index keys whose byte order   *)
(* is that order (index_key.rs).                                           *)
(***************************************************************************)
EXTENDS ValueTypes

\* A map's entries, sorted by key.
Entries(fields) ==
    LET keys == SetToSortSeq(DOMAIN fields, LAMBDA j, k : CompareBytes(j, k) < 0)
    IN  [n \in DOMAIN keys |-> <<keys[n], fields[keys[n]]>>]

RECURSIVE CompareValues(_, _)

\* Key, then value.
ComparePairs(p, q) == FirstSign(CompareBytes(p[1], q[1]), CompareValues(p[2], q[2]))

CompareValues(a, b) ==
    CASE Rank(a) # Rank(b) -> Sign(Rank(a) - Rank(b))
      [] a.type = "null" -> 0
      [] a.type = "boolean" -> IF a.bool = b.bool THEN 0 ELSE IF b.bool THEN -1 ELSE 1
      [] a.type = "number" -> CompareNumbers(a.num, b.num)
      [] a.type = "timestamp" -> CompareBytes(a.at, b.at)
      [] a.type = "string" -> CompareBytes(a.text, b.text)
      [] a.type = "bytes" -> CompareBytes(a.bytes, b.bytes)
      [] a.type = "reference" -> CompareSeqs(CompareBytes, a.segments, b.segments)
      [] a.type = "geopoint" -> CompareSeqs(CompareDoubles, a.point, b.point)
      [] a.type = "array" -> CompareSeqs(CompareValues, a.items, b.items)
      [] a.type = "vector" ->
           IF Len(a.elements) # Len(b.elements) THEN Sign(Len(a.elements) - Len(b.elements))
           ELSE CompareSeqs(CompareValues, a.elements, b.elements)
      [] a.type = "map" -> CompareSeqs(ComparePairs, Entries(a.fields), Entries(b.fields))

-----------------------------------------------------------------------------
(* write_value.                                                            *)

\* The tag byte of each type, in the order of the ranks.
Tag(v) ==
    CASE v.type = "null" -> 8 [] v.type = "boolean" -> 16 [] v.type = "number" -> 24
      [] v.type = "timestamp" -> 32 [] v.type = "string" -> 40 [] v.type = "bytes" -> 48
      [] v.type = "reference" -> 56 [] v.type = "geopoint" -> 64 [] v.type = "array" -> 72
      [] v.type = "vector" -> 80 [] v.type = "map" -> 88

END_MARK == 0
ITEM_MARK == 1

\* write_escaped: a zero byte is followed by 255, and a zero alone ends.
Escaped(bytes) ==
    FlattenSeq([k \in 1 .. Len(bytes) |->
              IF bytes[k] = 0 THEN <<0, 255>> ELSE <<bytes[k]>>]) \o <<0>>

RECURSIVE EncodeValue(_)
EncodeValue(v) ==
    LET items(Write(_), seq) ==
          Append(FlattenSeq([k \in DOMAIN seq |-> <<ITEM_MARK>> \o Write(seq[k])]), END_MARK)
        pair(p) == Escaped(p[1]) \o EncodeValue(p[2])
        payload ==
          CASE v.type = "null" -> << >>
            [] v.type = "boolean" -> <<IF v.bool THEN 1 ELSE 0>>
            [] v.type = "number" -> EncodeNumber(Parts(v.num))
            \* Offset-binary, fixed width: one byte stands for each number.
            [] v.type = "timestamp" -> <<v.at[1] + 128, v.at[2]>>
            [] v.type = "string" -> Escaped(v.text)
            [] v.type = "bytes" -> Escaped(v.bytes)
            [] v.type = "reference" -> items(Escaped, v.segments)
            [] v.type = "geopoint" ->
                 EncodeNumber(FromDouble(v.point[1])) \o EncodeNumber(FromDouble(v.point[2]))
            [] v.type = "array" -> items(EncodeValue, v.items)
            [] v.type = "vector" -> EncodeNumber(FromInt(Len(v.elements)))
                                      \o FlattenSeq([k \in DOMAIN v.elements |-> EncodeValue(v.elements[k])])
            [] v.type = "map" -> items(pair, Entries(v.fields))
    IN  <<Tag(v)>> \o payload
=============================================================================
