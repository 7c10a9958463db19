--------------------------- MODULE CredentialsProps ---------------------------
(***************************************************************************)
(* What must be true of credentials and the caches over them, stated over  *)
(* Credentials.                                                            *)
(***************************************************************************)
EXTENDS Credentials

\* The caches answer from what was read, never from the future, and a call
\* that fills one has a row to fill it with.
TypeOK ==
    /\ clock \in 0 .. MaxClock
    /\ account \in {Absent, Live, Revoked}
    /\ validAfter \in 0 .. MaxClock + 1
    /\ \A s \in Sessions : sessions[s].state \in {"absent", "live", "revoked"}
    /\ spent \subseteq Assertions
    /\ \A i \in Instances, s \in Selectors :
         cache[i][s] # None => cache[i][s].at \in 0 .. clock
    /\ \A i \in Instances : watcher[i].next \in 1 .. Len(notices) + 1
    /\ \A t \in Tasks : task[t].pc = "filling" => task[t].row # None

-----------------------------------------------------------------------------

\* The call's lookup is over with this step.
IsJudged(t) ==
    /\ task[t].pc \in {"new", "filling"}
    /\ task'[t].pc \in {"accepted", "denied", "notOurs", "spending"}
    /\ task'[t].selector # None

\* What the rows of this moment would have said of it.
RightNow(t) ==
    LET c == task'[t]
    IN  c.pc = Judged(c, RowOf(c.selector)).pc

\* "Revoking one reaches every instance within ACCOUNT_CACHE_TTL, and
\* including access tokens already handed out" (credentials.rs), and so does
\* creating one or signing a user out: a decision that the database would not
\* make is made no later than the cache lifetime, plus the time of the lookup
\* that filled the cache, after the row changed.  It needs no watcher.
DecisionsRecent ==
    [][\A t \in Tasks :
         IsJudged(t) /\ (task'[t].op = "identity" => CheckRevoked) =>
            \/ RightNow(t)
            \/ clock < changedAt[task'[t].selector] + AccountTTL + ReadTime]_vars

\* The cache has what the database has not any more: the account before it
\* was revoked, the user before the sign-out.
Stale(i, s) ==
    /\ cache[i][s] # None
    /\ cache[i][s].row # RowOf(s)
    /\ cache[i][s].row # Absent

\* The ways a stale entry may stay until its lifetime ends: a lookup that read
\* before the forget and filled after it, a change stream that started too
\* late for the notice, a revocation that went no further than the database
\* or the notice.
Excused(i, s) ==
    \/ cache[i][s].late
    \/ watcher[i].missed
    \/ \E t \in Tasks : task[t].op \in {"revoke", "signOut"} /\ task[t].pc = "gone"
                        /\ s \in Invalidated(t)

\* "Broadcasting makes the common case immediate" (engine credentials.rs): a
\* stale entry has its invalidation on the way, or is excused.
StaleHasCause ==
    \A i \in Instances, s \in Selectors : Stale(i, s) =>
        \/ Excused(i, s)
        \/ \E k \in watcher[i].next .. Len(notices) :
              notices[k].inst # i /\ s \in notices[k].selectors
        \/ \E t \in Tasks :
              /\ task[t].op \in {"revoke", "signOut"} /\ s \in Invalidated(t)
              /\ \/ task[t].pc = "publishing"
                 \/ task[t].pc = "forgetting" /\ task[t].inst = i

\* "Presenting it twice fails the second time" (spend_assertion): before it
\* expires, an assertion with a jti is redeemed once, on whichever instances
\* and however close together it is presented.
RedeemedOnce ==
    \A t, u \in Tasks :
        /\ t # u
        /\ task[t].assertion = task[u].assertion /\ task[t].assertion \notin Untracked
        /\ task[t].claimed # None /\ task[u].claimed # None
        => ~(task[t].claimed < AssertionEnd /\ task[u].claimed < AssertionEnd)
=============================================================================
