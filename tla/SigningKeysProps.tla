--------------------------- MODULE SigningKeysProps ---------------------------
(***************************************************************************)
(* What must be true of the signing keys, stated over SigningKeys.         *)
(***************************************************************************)
EXTENDS SigningKeys

\* There is at most one active key, ids are unique, and whoever holds a lock
\* is reloading.
KeysTypeOK ==
    /\ now \in 0 .. LastSecond
    /\ \A k \in keys : k.id \in 1 .. made /\ k.private \in 1 .. made /\ k.sealed \in BOOLEAN
    /\ \A j, k \in keys : j.role = k.role \/ j.id = k.id => j = k
    /\ \A i \in Instances :
         /\ copy[i] # None => copy[i].at \in 0 .. now /\ copy[i].id \in copy[i].verifying
         /\ lock[i] # None => call[lock[i]].pc \in {"loading", "inserting", "loaded"}

\* "The old key keeps verifying until every token it could have signed has
\* expired" (rotate_signing_key), and "instances racing at first boot end up
\* sharing a key" (Signing::load): whatever instance minted a token, with
\* whatever copy, its key is published until the token expires, and is the
\* one the token was signed with.
TokensVerify ==
    \A token \in tokens :
        /\ token.private = token.id
        /\ \E k \in keys : k.id = token.id

\* The interval after which an instance re-reads the keys "governs when we
\* stop signing with a key that has been retired": a token is signed with the
\* active key, or with one retired no longer ago than that, plus the time the
\* rotation and the instance's last reload took.
RetiredStopsSigning ==
    [][\A token \in tokens' \ tokens : \A k \in keys' :
         k.id = token.id /\ k.role # Active
            => now < (k.retireAfter - Grace) + RefreshInterval + 2 * OpTime]_keyVars

\* "A token signed by a key rotated in on another instance verifies here
\* immediately" (resolve): a token that should verify is refused only by an
\* instance that has read the keys for another unknown one a moment before,
\* however old its copy is and whoever is reloading it.
RefusedOnlyWhenThrottled ==
    [][\A t \in Tasks :
         /\ call[t].op = "check" /\ call'[t].pc = "refused" /\ call[t].pc # "refused"
         /\ Verifies(call[t].token)
         => ~call[t].missed /\ Throttled(call[t].inst)]_keyVars
=============================================================================
