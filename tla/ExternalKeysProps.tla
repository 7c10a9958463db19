--------------------------- MODULE ExternalKeysProps ---------------------------
(***************************************************************************)
(* What must be true of the external issuer's keys.                        *)
(***************************************************************************)
EXTENDS ExternalKeys

VerifierTypeOK ==
    /\ published \in KeySets /\ cached \subseteq KeyIds
    /\ since \in [KeyIds -> 0 .. LastMinute]
    /\ refreshed \in {None} \cup 0 .. LastMinute
    /\ \A t \in Checks :
          /\ check[t].kid \in KeyIds \cup {None} /\ check[t].body \subseteq KeyIds
          /\ check[t].pc \in {"idle", "unknown", "fetching", "answered", "again",
                              "accepted", "refused", "unavailable"}

Refused(t) == ~At(t, "refused") /\ check'[t].pc = "refused"

Seasoned(kid) == kid \in published /\ minute - since[kid] > Interval + FetchTime

\* "Looks up a signing key, refetching the set once if the kid is unknown and
\* the cache is old enough to be worth refreshing" (key_for): fetches that
\* fail or overtake one another never make a process refuse, for longer than
\* KEY_REFRESH_INTERVAL and a fetch, a key that the issuer publishes.  (The set
\* may arrive between the lookup and the look at its age; see the README.)
NoKeyRefusedForLong ==
    [][\A t \in Checks :
         Refused(t) => ~Seasoned(check[t].kid) \/ check[t].kid \in cached]_keyVerifierVars
=============================================================================
