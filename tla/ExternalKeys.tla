----------------------------- MODULE ExternalKeys -----------------------------
(***************************************************************************)
(* The signing keys of an external issuer as one process keeps them        *)
(* (Verifier::key_for and refresh of auth.rs): fetched when a token names  *)
(* a key that is not there, unless the last fetch is recent.               *)
(***************************************************************************)
EXTENDS Deployment, Integers

CONSTANTS
    Checks,         \* token checks, made again and again
    KeyIds,
    KeySets,        \* the sets of keys the issuer publishes, one at a time
    Interval,       \* KEY_REFRESH_INTERVAL
    FetchTime,      \* bound on how long a fetch takes
    LastMinute      \* bound on the clock

ASSUME ExternalKeysAssumption ==
    /\ KeySets \subseteq (SUBSET KeyIds) \ {{}}
    /\ {Interval, FetchTime, LastMinute} \subseteq Nat
    /\ None \notin Nat

VARIABLES
    published,      \* what the issuer answers, now
    since,          \* when each key of it came
    cached,         \* by_kid
    refreshed,      \* when a fetch last succeeded, or None
    check,          \* what each check is at
    minute

keyVerifierVars == <<published, since, cached, refreshed, check, minute>>

NoCheck == [pc |-> "idle", kid |-> None, body |-> {}, from |-> 0]

At(t, pc) == check[t].pc = pc
Ends(t, how) == check' = [check EXCEPT ![t] = [NoCheck EXCEPT !.pc = how]]

Decided == {"idle", "accepted", "refused", "unavailable"}

VerifierInit ==
    /\ published \in KeySets
    /\ since = [k \in KeyIds |-> 0]
    /\ cached = {} /\ refreshed = None
    /\ check = [t \in Checks |-> NoCheck]
    /\ minute = 0

-----------------------------------------------------------------------------

\* lookup, of a token's key.
Lookup(t, kid) ==
    /\ check[t].pc \in Decided
    /\ IF kid \in cached THEN Ends(t, "accepted")
       ELSE check' = [check EXCEPT ![t] = [NoCheck EXCEPT !.pc = "unknown", !.kid = kid]]
    /\ UNCHANGED <<published, since, cached, refreshed, minute>>

Recent == refreshed # None /\ minute - refreshed < Interval

\* The age of the set is looked at under a lock of its own.
LookAtAge(t) ==
    /\ At(t, "unknown")
    /\ IF Recent THEN Ends(t, "refused")
       ELSE check' = [check EXCEPT ![t] = [@ EXCEPT !.pc = "fetching", !.from = minute]]
    /\ UNCHANGED <<published, since, cached, refreshed, minute>>

\* The issuer answers with the keys of that moment.
Respond(t) ==
    /\ At(t, "fetching")
    /\ check' = [check EXCEPT ![t] = [@ EXCEPT !.pc = "answered", !.body = published]]
    /\ UNCHANGED <<published, since, cached, refreshed, minute>>

\* Mutant: the time kept although nothing was fetched.
FailsAndCounts(t) ==
    /\ check[t].pc \in {"fetching", "answered"}
    /\ Ends(t, "unavailable")
    /\ refreshed' = minute
    /\ UNCHANGED <<published, since, cached, minute>>

\* No answer, or one that cannot be used.
FetchFails(t) ==
    /\ check[t].pc \in {"fetching", "answered"}
    /\ Ends(t, "unavailable")
    /\ UNCHANGED <<published, since, cached, refreshed, minute>>

\* The answer replaces the set, whatever other fetches have put there.
Replace(t) ==
    /\ At(t, "answered")
    /\ cached' = check[t].body
    /\ refreshed' = minute
    /\ check' = [check EXCEPT ![t] = [@ EXCEPT !.pc = "again", !.body = {}, !.from = 0]]
    /\ UNCHANGED <<published, since, minute>>

\* The second lookup decides.
LookupAgain(t) ==
    /\ At(t, "again")
    /\ Ends(t, IF check[t].kid \in cached THEN "accepted" ELSE "refused")
    /\ UNCHANGED <<published, since, cached, refreshed, minute>>

-----------------------------------------------------------------------------

IssuerRotates(keys) ==
    /\ published' = keys
    /\ since' = [k \in KeyIds |-> IF k \in keys \ published THEN minute ELSE since[k]]
    /\ UNCHANGED <<cached, refreshed, check, minute>>

\* Fetches end in time, and what runs without waiting takes none.
TimePasses ==
    /\ minute < LastMinute
    /\ \A t \in Checks :
          /\ check[t].pc \notin {"unknown", "again"}
          /\ check[t].pc \in {"fetching", "answered"} => minute < check[t].from + FetchTime
    /\ minute' = minute + 1
    /\ UNCHANGED <<published, since, cached, refreshed, check>>

VerifierNext ==
    \/ \E t \in Checks :
          \/ \E kid \in KeyIds : Lookup(t, kid)
          \/ LookAtAge(t) \/ Respond(t) \/ FetchFails(t) \/ Replace(t) \/ LookupAgain(t)
    \/ \E keys \in KeySets \ {published} : IssuerRotates(keys)
    \/ TimePasses

VerifierSpec == VerifierInit /\ [][VerifierNext]_keyVerifierVars
=============================================================================
