----------------------------- MODULE Credentials -----------------------------
(***************************************************************************)
(* Service accounts, user identities and what several server processes     *)
(* remember of them: credentials.rs of the server crate over               *)
(* credentials.rs of the engine crate.                                     *)
(*                                                                         *)
(* One service account and one user of its project stand for all: nothing  *)
(* in the code relates two of either.  A task is one call; `pc` is the     *)
(* await it is in, and each action is the code up to the next await.       *)
(* A lookup asks the cache, then MongoDB, and only then fills the cache,   *)
(* so a revocation can pass it on either side.  Tokens and assertions are  *)
(* rightly signed: what the signing keys do is in SigningKeys.             *)
(***************************************************************************)
EXTENDS Integers, Sequences, Deployment

CONSTANTS
    Mixes,          \* which of AllOps happen in one behaviour: a set of choices
    Assertions,     \* one-shot assertions, named by issuer and jti
    Routes,         \* how their senders name the account: by keyId or by email
    Untracked,      \* those of them that carry no jti
    RequireJti,     \* with_required_jti
    CheckRevoked,   \* with_revocation_checks
    AccountTTL,     \* account_cache_ttl
    RefreshTTL,     \* REFRESH_TOKEN_TTL
    AssertionEnd,   \* when the assertions expire
    Leeway,         \* CLOCK_LEEWAY_SECONDS
    ReadTime,       \* how long a lookup is in MongoDB, at most
    MaxClock,       \* bound: the last second
    Absent, Live, Revoked,  \* the states of the account's row
    FirstSession    \* the session the user has from the beginning

AllOps == {"access", "assertion", "exchange", "signIn", "identity", "refresh",
           "revoke", "signOut", "create", "crash", "watchFails"}

ASSUME CredentialsAssumption ==
    /\ Mixes \subseteq SUBSET AllOps
    /\ Routes \subseteq {"keyId", "email"}
    /\ Untracked \subseteq Assertions
    /\ RequireJti \in BOOLEAN /\ CheckRevoked \in BOOLEAN
    /\ AccountTTL \in Nat /\ RefreshTTL \in Nat /\ ReadTime \in Nat
    /\ AssertionEnd \in Nat /\ Leeway \in Nat /\ MaxClock \in Nat
    /\ FirstSession \notin Tasks
    /\ Absent # Live /\ Live # Revoked /\ Absent # Revoked
    /\ None \notin Nat \cup {Absent, Live, Revoked}

VARIABLES
    Ops,            \* the calls and faults of this behaviour
    clock,          \* the wall clock, in seconds
    account,        \* the account's row in _service_accounts
    validAfter,     \* the user's valid_after in _identities, 0 without a row
    changedAt,      \* auxiliary: when the row under each selector last changed
    sessions,       \* _refresh_tokens
    spent,          \* _used_assertions
    notices,        \* _credential_events, oldest first
    cache,          \* per process and selector: the two lookup caches
    watcher,        \* per process: its invalidation watcher
    task            \* per call: what it is and where it is

identity == <<account, validAfter, changedAt>>
stored == <<identity, sessions, spent, notices>>
vars == <<Ops, clock, stored, cache, watcher, task>>

-----------------------------------------------------------------------------

\* Cache keys: the account's key id and email, and the user's project:uid.
AccountSelectors == {"keyId", "email"}

Selectors == AccountSelectors \cup {"uid"}

Sessions == Tasks \cup {FirstSession}

\* A call: `row` is what its lookup found, `since` when it went to MongoDB,
\* `authTime` the auth_time of the ID token it presents or mints, `claimed`
\* (auxiliary) when it spent its assertion, `late` (auxiliary) that a forget
\* passed between its read and its fill.
Idle == [pc |-> "new", op |-> None, inst |-> None, selector |-> None,
         assertion |-> None, session |-> None, row |-> None, since |-> 0,
         authTime |-> 0, claimed |-> None, late |-> FALSE]

Ended == {"new", "accepted", "denied", "notOurs", "done", "gone"}

\* A watcher that sees the notices from the next one on, once it is open.
Watcher(next, open) == [next |-> next, token |-> 0, open |-> open, missed |-> FALSE]

Init ==
    /\ Ops \in Mixes
    /\ clock = 0
    /\ account \in {Absent, Live}
    /\ validAfter = 0
    /\ changedAt = [s \in Selectors |-> -MaxClock]
    /\ sessions = [s \in Sessions |->
                     [state |-> IF s = FirstSession THEN "live" ELSE "absent", issued |-> 0]]
    /\ spent = {}
    /\ notices = << >>
    /\ cache = [i \in Instances |-> [s \in Selectors |-> None]]
    /\ watcher = [i \in Instances |-> Watcher(1, TRUE)]
    /\ task = [t \in Tasks |-> Idle]

Goto(t, pc) == task' = [task EXCEPT ![t].pc = pc]

-----------------------------------------------------------------------------
(* Lookups.                                                                *)

RowOf(s) == IF s = "uid" THEN validAfter ELSE account

\* Mutant: a cached lookup used for ever.
HitForever(i, s) == cache[i][s] # None

\* A cached lookup is used while it is younger than the cache lifetime.
Hit(i, s) == cache[i][s] # None /\ clock - cache[i][s].at < AccountTTL

\* The call knows the row it asked for.  An unknown account may be somebody
\* else's issuer to `resolve`; everywhere else it is refused.  What carries an
\* assertion is refused once that has expired.
Judged(c, row) ==
    LET verdict ==
          CASE c.op = "identity" -> IF c.authTime < row THEN "denied" ELSE "accepted"
            [] row = Revoked -> "denied"
            [] row = Absent -> IF c.op = "assertion" THEN "notOurs" ELSE "denied"
            [] c.op = "access" -> "accepted"
            [] clock > AssertionEnd + Leeway -> "denied"
            [] c.op = "assertion" -> "accepted"
            [] OTHER -> "spending"
    IN  [c EXCEPT !.pc = verdict, !.row = None, !.since = 0, !.late = FALSE]

\* The ID tokens there are: that of the first session, and those minted since.
AuthTimes ==
    {0} \cup {task[u].authTime : u \in {v \in Tasks :
                 task[v].op \in {"signIn", "refresh"} /\ task[v].pc = "accepted"}}

\* A call that depends on a row arrives and asks its cache; an ID token is
\* looked up only when revocation is checked.
Ask(t, c) ==
    /\ task[t].pc = "new" /\ c.op \in Ops
    /\ task' = [task EXCEPT ![t] =
         IF c.op = "identity" /\ ~CheckRevoked THEN [c EXCEPT !.pc = "accepted"]
         ELSE IF Hit(c.inst, c.selector)
              THEN Judged(c, cache[c.inst][c.selector].row)
              ELSE [c EXCEPT !.pc = "reading", !.since = clock]]
    /\ UNCHANGED <<Ops, clock, stored, cache, watcher>>

\* MongoDB answers the lookup ...
ReadRow(t) ==
    /\ task[t].pc = "reading"
    /\ task' = [task EXCEPT ![t] = [@ EXCEPT !.pc = "filling", !.row = RowOf(task[t].selector)]]
    /\ UNCHANGED <<Ops, clock, stored, cache, watcher>>

\* ... and the answer goes into the cache, dated now, and is judged.
Fill(t) ==
    LET c == task[t]
    IN  /\ c.pc = "filling"
        /\ cache' = [cache EXCEPT ![c.inst][c.selector] =
                       [at |-> clock, row |-> c.row, late |-> c.late]]
        /\ task' = [task EXCEPT ![t] = Judged(c, c.row)]
        /\ UNCHANGED <<Ops, clock, stored, watcher>>

-----------------------------------------------------------------------------
(* Spending an assertion, and sessions.                                    *)

\* Mutant: the record consulted before it is written.
SpendUnclaimed(t) ==
    LET c == task[t]
    IN  /\ c.pc = "spending"
        /\ spent' = spent \cup {c.assertion}
        /\ task' = [task EXCEPT ![t] =
                       [@ EXCEPT !.pc = IF c.op = "exchange" THEN "accepted" ELSE "issuing",
                                 !.claimed = clock]]
        /\ UNCHANGED <<Ops, clock, identity, sessions, notices, cache, watcher>>

\* The insert under a unique id decides who redeems an assertion.
Spend(t) ==
    LET c == task[t]  tracked == c.assertion \notin Untracked
    IN  /\ c.pc = "spending"
        /\ IF (tracked /\ c.assertion \in spent) \/ (~tracked /\ RequireJti)
           THEN Goto(t, "denied")
           ELSE task' = [task EXCEPT ![t] =
                           [@ EXCEPT !.pc = IF c.op = "exchange" THEN "accepted" ELSE "issuing",
                                     !.claimed = clock]]
        /\ spent' = IF tracked THEN spent \cup {c.assertion} ELSE spent
        /\ UNCHANGED <<Ops, clock, identity, sessions, notices, cache, watcher>>

\* MongoDB reaps the record once the assertion has expired.
ReapSpent(a) ==
    /\ a \in spent /\ clock >= AssertionEnd
    /\ spent' = spent \ {a}
    /\ UNCHANGED <<Ops, clock, identity, sessions, notices, cache, watcher, task>>

\* A refresh arrives, with a session whose token was handed out.
AskRefresh(t, i, s) ==
    /\ task[t].pc = "new" /\ "refresh" \in Ops
    /\ s # FirstSession => task[s].op = "signIn" /\ task[s].pc = "accepted"
    /\ task' = [task EXCEPT ![t] = [Idle EXCEPT !.pc = "loading", !.op = "refresh",
                                      !.inst = i, !.session = s]]
    /\ UNCHANGED <<Ops, clock, stored, cache, watcher>>

LoadSession(t) ==
    /\ task[t].pc = "loading"
    /\ Goto(t, IF sessions[task[t].session].state = "live" THEN "issuing" ELSE "denied")
    /\ UNCHANGED <<Ops, clock, stored, cache, watcher>>

Expired(s) == sessions[s].issued + RefreshTTL < clock

\* issue_identity: the ID token is minted with the time it is now, whatever
\* the session it is minted for.  A custom token's claims may be refused here,
\* after its assertion is spent.
Issue(t) ==
    /\ task[t].pc = "issuing"
    /\ \/ task' = [task EXCEPT ![t] =
                     [@ EXCEPT !.authTime = clock,
                               !.pc = IF task[t].op = "refresh" /\ Expired(task[t].session)
                                      THEN "denied" ELSE "storing"]]
       \/ task[t].op = "signIn" /\ Goto(t, "denied")
    /\ UNCHANGED <<Ops, clock, stored, cache, watcher>>

\* The refresh token it made is recorded; a refresh then revokes it again and
\* gives back the one the client came with.
StoreSession(t) ==
    /\ task[t].pc = "storing"
    /\ sessions' = [sessions EXCEPT ![t] = [state |-> "live", issued |-> task[t].authTime]]
    /\ Goto(t, IF task[t].op = "refresh" THEN "discarding" ELSE "accepted")
    /\ UNCHANGED <<Ops, clock, identity, spent, notices, cache, watcher>>

DiscardSession(t) ==
    /\ task[t].pc = "discarding"
    /\ sessions' = [sessions EXCEPT ![t].state = "revoked"]
    /\ Goto(t, "accepted")
    /\ UNCHANGED <<Ops, clock, identity, spent, notices, cache, watcher>>

-----------------------------------------------------------------------------
(* Administration: each is a series of MongoDB calls, and then the caches. *)

Administer(t, op, i) ==
    /\ task[t].pc = "new" /\ op \in Ops
    /\ task' = [task EXCEPT ![t] =
                  [Idle EXCEPT !.pc = op, !.op = op, !.inst = i, !.authTime = clock + 1]]
    /\ UNCHANGED <<Ops, clock, stored, cache, watcher>>

\* create_service_account: no cache is told.
CreateAccount(t) ==
    /\ task[t].pc = "create"
    /\ IF account = Absent
       THEN /\ account' = Live
            /\ changedAt' = [s \in Selectors |->
                               IF s \in AccountSelectors THEN clock ELSE changedAt[s]]
            /\ Goto(t, "done")
       ELSE Goto(t, "denied") /\ UNCHANGED <<account, changedAt>>
    /\ UNCHANGED <<Ops, clock, validAfter, sessions, spent, notices, cache, watcher>>

RevokeAccount(t) ==
    /\ task[t].pc = "revoke"
    /\ IF account = Absent
       THEN Goto(t, "done") /\ UNCHANGED <<account, changedAt>>
       ELSE /\ account' = Revoked
            /\ changedAt' = [s \in Selectors |->
                               IF s \in AccountSelectors /\ account = Live THEN clock
                               ELSE changedAt[s]]
            /\ Goto(t, "publishing")
    /\ UNCHANGED <<Ops, clock, validAfter, sessions, spent, notices, cache, watcher>>

\* revoke_identity_tokens: the sessions first ...
EndSessions(t) ==
    /\ task[t].pc = "signOut"
    /\ sessions' = [s \in Sessions |->
                      IF sessions[s].state = "live" THEN [sessions[s] EXCEPT !.state = "revoked"]
                      ELSE sessions[s]]
    /\ Goto(t, "dating")
    /\ UNCHANGED <<Ops, clock, identity, spent, notices, cache, watcher>>

\* ... then the second from which tokens count again, as of the call's start.
SetValidAfter(t) ==
    /\ task[t].pc = "dating"
    /\ validAfter' = task[t].authTime
    /\ changedAt' = [changedAt EXCEPT !["uid"] = clock]
    /\ Goto(t, "publishing")
    /\ UNCHANGED <<Ops, clock, account, sessions, spent, notices, cache, watcher>>

Invalidated(t) == IF task[t].op = "revoke" THEN AccountSelectors ELSE {"uid"}

PublishNotice(t) ==
    /\ task[t].pc = "publishing"
    /\ notices' = Append(notices, [inst |-> task[t].inst, selectors |-> Invalidated(t)])
    /\ Goto(t, "forgetting")
    /\ UNCHANGED <<Ops, clock, identity, sessions, spent, cache, watcher>>

Forgotten(i, selectors) ==
    [cache EXCEPT ![i] = [s \in Selectors |-> IF s \in selectors THEN None ELSE @[s]]]

\* Auxiliary: lookups that have read but not filled missed this forget.
Overtaken(i, selectors) ==
    [u \in Tasks |->
       IF task[u].inst = i /\ task[u].pc = "filling" /\ task[u].selector \in selectors
       THEN [task[u] EXCEPT !.late = TRUE] ELSE task[u]]

ForgetOwn(t) ==
    LET i == task[t].inst
    IN  /\ task[t].pc = "forgetting"
        /\ cache' = Forgotten(i, Invalidated(t))
        /\ task' = [Overtaken(i, Invalidated(t)) EXCEPT ![t].pc = "done"]
        /\ UNCHANGED <<Ops, clock, stored, watcher>>

-----------------------------------------------------------------------------
(* The invalidation watcher.                                               *)

\* The change stream is opened some time after the process starts, and again
\* when it fails: after the last event it had, or else from now on.  Between
\* failing and opening it is as if no event came.
WatchOpens(i) ==
    LET w == watcher[i]  fresh == w.token = 0
    IN  /\ ~w.open \/ "watchFails" \in Ops
        /\ watcher' = [watcher EXCEPT ![i] =
             [w EXCEPT !.open = TRUE,
                       !.next = IF fresh THEN Len(notices) + 1 ELSE w.token + 1,
                       !.missed = w.missed \/ (fresh /\ \E k \in w.next .. Len(notices) :
                                                          notices[k].inst # i)]]
        /\ UNCHANGED <<Ops, clock, stored, cache, task>>

\* Mutant: only notices of accounts applied.
TakesAccountNotices(i) ==
    LET w == watcher[i]  notice == notices[w.next]
        mine == notice.inst = i \/ notice.selectors = {"uid"}
    IN  /\ w.open /\ w.next <= Len(notices)
        /\ watcher' = [watcher EXCEPT ![i].token = w.next, ![i].next = w.next + 1]
        /\ cache' = IF mine THEN cache ELSE Forgotten(i, notice.selectors)
        /\ task' = IF mine THEN task ELSE Overtaken(i, notice.selectors)
        /\ UNCHANGED <<Ops, clock, stored>>

\* The next notice: its own are taken to have been applied already.
WatchTakes(i) ==
    LET w == watcher[i]  notice == notices[w.next]  mine == notice.inst = i
    IN  /\ w.open /\ w.next <= Len(notices)
        /\ watcher' = [watcher EXCEPT ![i].token = w.next, ![i].next = w.next + 1]
        /\ cache' = IF mine THEN cache ELSE Forgotten(i, notice.selectors)
        /\ task' = IF mine THEN task ELSE Overtaken(i, notice.selectors)
        /\ UNCHANGED <<Ops, clock, stored>>

-----------------------------------------------------------------------------
(* The environment.                                                        *)

\* A lookup is in MongoDB for ReadTime seconds at most.
Tick ==
    /\ clock < MaxClock
    /\ \A t \in Tasks :
         task[t].pc \in {"reading", "filling"} => clock - task[t].since < ReadTime
    /\ clock' = clock + 1
    /\ UNCHANGED <<Ops, stored, cache, watcher, task>>

\* A process dies and starts again with nothing in memory.
Crash(i) ==
    /\ "crash" \in Ops
    /\ cache' = [cache EXCEPT ![i] = [s \in Selectors |-> None]]
    /\ watcher' = [watcher EXCEPT ![i] = Watcher(Len(notices) + 1, FALSE)]
    /\ task' = [t \in Tasks |->
                  IF task[t].inst = i /\ task[t].pc \notin Ended
                  THEN [task[t] EXCEPT !.pc = "gone"] ELSE task[t]]
    /\ UNCHANGED <<Ops, clock, stored>>

Arrives(t, i) ==
    \/ Ask(t, [Idle EXCEPT !.op = "access", !.inst = i, !.selector = "email"])
    \/ \E s \in Routes :
         \/ Ask(t, [Idle EXCEPT !.op = "assertion", !.inst = i, !.selector = s])
         \/ \E op \in {"exchange", "signIn"}, a \in Assertions :
              Ask(t, [Idle EXCEPT !.op = op, !.inst = i, !.selector = s, !.assertion = a])
    \/ \E at \in AuthTimes :
         Ask(t, [Idle EXCEPT !.op = "identity", !.inst = i, !.selector = "uid",
                             !.authTime = at])
    \/ \E s \in Sessions : AskRefresh(t, i, s)
    \/ \E op \in {"revoke", "signOut", "create"} : Administer(t, op, i)

Step(t) ==
    \/ ReadRow(t) \/ Fill(t)
    \/ Spend(t)
    \/ LoadSession(t) \/ Issue(t) \/ StoreSession(t) \/ DiscardSession(t)
    \/ CreateAccount(t) \/ RevokeAccount(t)
    \/ EndSessions(t) \/ SetValidAfter(t)
    \/ PublishNotice(t) \/ ForgetOwn(t)

Next ==
    \/ \E t \in Tasks :
         \/ \E i \in Instances : Arrives(t, i)
         \/ Step(t)
    \/ \E i \in Instances : WatchTakes(i) \/ WatchOpens(i) \/ Crash(i)
    \/ \E a \in Assertions : ReapSpent(a)
    \/ Tick

Spec == Init /\ [][Next]_vars
=============================================================================
