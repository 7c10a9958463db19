----------------------------- MODULE ValuesProps -----------------------------
(***************************************************************************)
(* What must be true of the keys of values.                                *)
(***************************************************************************)
EXTENDS Values

\* "Self-delimiting bytes whose unsigned lexicographic order equals
\* compare_values for every pair of values, so composite index keys are plain
\* concatenations" (index_key.rs): a key of two values orders as the pair does,
\* for all the first and all the second values given.
KeysAgree(x, values, seconds) ==
    LET key == EncodeValue(x)
    IN  \A y \in values : \A u, v \in seconds :
            CompareBytes(key \o EncodeValue(u), EncodeValue(y) \o EncodeValue(v))
              = CompareSeqs(CompareValues, <<x, u>>, <<y, v>>)
=============================================================================
