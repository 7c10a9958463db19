--------------------------- MODULE CredentialsProofs ---------------------------
(***************************************************************************)
(* Theorems about credentials, for any processes, calls and assertions,    *)
(* any lifetimes and any mix of operations and faults.                     *)
(***************************************************************************)
EXTENDS CredentialsProps, TLAPS

Fields == {"pc", "op", "inst", "selector", "assertion", "session", "row", "since",
           "authTime", "claimed", "late"}

\* The states of a call that has not come to spend its assertion.
Before == {"new", "reading", "filling", "spending"}

Claimed(t) == task[t].claimed # None /\ task[t].assertion \notin Untracked

\* A call that has spent its assertion did so by now, is past it for good, and
\* until it expires the record is there.
ClaimsRecorded ==
    \A t \in Tasks : Claimed(t) =>
        /\ task[t].pc \notin Before
        /\ task[t].claimed \in Int /\ task[t].claimed <= clock
        /\ clock < AssertionEnd => task[t].assertion \in spent

ClaimInv ==
    /\ clock \in Int
    /\ task = [t \in Tasks |-> task[t]]
    /\ \A t \in Tasks : DOMAIN task[t] = Fields
    /\ ClaimsRecorded
    /\ RedeemedOnce

-----------------------------------------------------------------------------

\* What happens to a call: it goes on with the claim it has, or is one that
\* has made none.
Quiet(c, d) ==
    \/ d.claimed = None
    \/ /\ d.claimed = c.claimed /\ d.assertion = c.assertion
       /\ c.pc \notin Before => d.pc \notin Before

\* A step in which nobody spends an assertion.
LEMMA QuietStep ==
    ASSUME ClaimInv, task' = [t \in Tasks |-> task'[t]], \A t \in Tasks : DOMAIN task'[t] = Fields,
           clock' \in Int, clock <= clock', clock < AssertionEnd => spent \subseteq spent',
           \A t \in Tasks : Quiet(task[t], task'[t])
    PROVE  ClaimInv'
<1> USE CredentialsAssumption
<1>1. \A t \in Tasks : Claimed(t)' => Claimed(t) /\ task'[t].claimed = task[t].claimed
                                    /\ task'[t].assertion = task[t].assertion
                                    /\ (task[t].pc \notin Before => task'[t].pc \notin Before)
  BY DEF Claimed, Quiet
<1>2. ClaimsRecorded'
  <2> SUFFICES ASSUME NEW t \in Tasks, Claimed(t)'
               PROVE  /\ task'[t].pc \notin Before
                      /\ task'[t].claimed \in Int /\ task'[t].claimed <= clock'
                      /\ clock' < AssertionEnd => task'[t].assertion \in spent'
    BY DEF ClaimsRecorded
  <2>1. /\ task[t].pc \notin Before /\ task[t].claimed \in Int /\ task[t].claimed <= clock
        /\ clock < AssertionEnd => task[t].assertion \in spent
    BY <1>1 DEF ClaimInv, ClaimsRecorded
  <2> QED BY <1>1, <2>1 DEF ClaimInv
<1>3. RedeemedOnce'
  <2> SUFFICES ASSUME NEW t \in Tasks, NEW u \in Tasks, t # u,
                      task'[t].assertion = task'[u].assertion, task'[t].assertion \notin Untracked,
                      task'[t].claimed # None, task'[u].claimed # None
               PROVE  ~(task'[t].claimed < AssertionEnd /\ task'[u].claimed < AssertionEnd)
    BY DEF RedeemedOnce
  <2> QED BY <1>1 DEF Claimed, ClaimInv, RedeemedOnce
<1> QED BY <1>2, <1>3 DEF ClaimInv

\* One call goes on, and nobody spends an assertion.
LEMMA OneMoves ==
    ASSUME ClaimInv, NEW t \in Tasks, NEW c, DOMAIN c = Fields, Quiet(task[t], c),
           task' = [task EXCEPT ![t] = c], UNCHANGED <<clock, spent>>
    PROVE  ClaimInv'
<1>1. task' = [u \in Tasks |-> task'[u]] /\ task'[t] = c /\ \A u \in Tasks \ {t} : task'[u] = task[u]
  BY DEF ClaimInv
<1>2. \A u \in Tasks : DOMAIN task'[u] = Fields
  BY <1>1 DEF ClaimInv
<1>3. \A u \in Tasks : Quiet(task[u], task'[u])
  BY <1>1 DEF Quiet
<1>4. clock' \in Int /\ clock <= clock' /\ spent \subseteq spent'
  BY DEF ClaimInv
<1> QED BY <1>1, <1>2, <1>3, <1>4, QuietStep

\* A call goes to another place of its own.
LEMMA GotoMoves ==
    ASSUME ClaimInv, NEW t \in Tasks, NEW pc, pc \notin Before, Goto(t, pc), UNCHANGED <<clock, spent>>
    PROVE  ClaimInv'
<1>1. DOMAIN task[t] = Fields
  BY DEF ClaimInv
<1>2. task' = [task EXCEPT ![t] = [task[t] EXCEPT !.pc = pc]]
  BY DEF Goto
<1>3. DOMAIN [task[t] EXCEPT !.pc = pc] = Fields /\ Quiet(task[t], [task[t] EXCEPT !.pc = pc])
  BY <1>1 DEF Quiet, Fields
<1> QED BY <1>2, <1>3, OneMoves

\* Judging a call says nothing of its assertion.
LEMMA JudgedKeeps ==
    ASSUME NEW c, DOMAIN c = Fields, NEW row
    PROVE  /\ DOMAIN Judged(c, row) = Fields
           /\ Judged(c, row).claimed = c.claimed /\ Judged(c, row).assertion = c.assertion
BY DEF Judged, Fields

LEMMA IdleCall == DOMAIN Idle = Fields /\ Idle.claimed = None
BY DEF Idle, Fields

\* A call arrives and asks its cache.
LEMMA AskMoves ==
    ASSUME ClaimInv, NEW t \in Tasks, NEW c, DOMAIN c = Fields, c.claimed = None, Ask(t, c)
    PROVE  ClaimInv'
<1> DEFINE to == IF c.op = "identity" /\ ~CheckRevoked THEN [c EXCEPT !.pc = "accepted"]
                 ELSE IF Hit(c.inst, c.selector)
                      THEN Judged(c, cache[c.inst][c.selector].row)
                      ELSE [c EXCEPT !.pc = "reading", !.since = clock]
<1>1. task' = [task EXCEPT ![t] = to] /\ UNCHANGED <<clock, spent>>
  BY DEF Ask, stored
<1>2. DOMAIN Judged(c, cache[c.inst][c.selector].row) = Fields
      /\ Judged(c, cache[c.inst][c.selector].row).claimed = None
  BY JudgedKeeps
<1>3. DOMAIN [c EXCEPT !.pc = "accepted"] = Fields /\ [c EXCEPT !.pc = "accepted"].claimed = None
  BY DEF Fields
<1>4. DOMAIN [c EXCEPT !.pc = "reading", !.since = clock] = Fields
      /\ [c EXCEPT !.pc = "reading", !.since = clock].claimed = None
  BY DEF Fields
<1>5. DOMAIN to = Fields /\ to.claimed = None
  BY <1>2, <1>3, <1>4
<1>6. Quiet(task[t], to)
  BY <1>5 DEF Quiet
<1> HIDE DEF to
<1> QED BY <1>1, <1>5, <1>6, OneMoves

\* What a call does to itself alone: its lookup, its session, its record of
\* what it administers.
LEMMA OwnSteps ==
    ASSUME ClaimInv, NEW t \in Tasks,
           \/ ReadRow(t) \/ Fill(t) \/ LoadSession(t) \/ Issue(t) \/ StoreSession(t)
           \/ DiscardSession(t) \/ CreateAccount(t) \/ RevokeAccount(t) \/ EndSessions(t)
           \/ SetValidAfter(t) \/ PublishNotice(t)
    PROVE  ClaimInv'
<1>0. DOMAIN task[t] = Fields
  BY DEF ClaimInv
<1>1. CASE ReadRow(t)
  <2> DEFINE c == [task[t] EXCEPT !.pc = "filling", !.row = RowOf(task[t].selector)]
  <2>1. DOMAIN c = Fields /\ c.claimed = task[t].claimed /\ c.assertion = task[t].assertion
    BY <1>0 DEF Fields
  <2>2. Quiet(task[t], c)
    BY <1>1, <2>1 DEF Quiet, ReadRow, Before
  <2>3. task' = [task EXCEPT ![t] = c] /\ UNCHANGED <<clock, spent>>
    BY <1>1 DEF ReadRow, stored
  <2> HIDE DEF c
  <2> QED BY <2>1, <2>2, <2>3, OneMoves
<1>2. CASE Fill(t)
  <2> DEFINE c == Judged(task[t], task[t].row)
  <2>1. DOMAIN c = Fields /\ c.claimed = task[t].claimed /\ c.assertion = task[t].assertion
    BY <1>0, JudgedKeeps
  <2>2. task' = [task EXCEPT ![t] = c] /\ UNCHANGED <<clock, spent>> /\ task[t].pc = "filling"
    BY <1>2 DEF Fill, stored
  <2> HIDE DEF c
  <2>3. Quiet(task[t], c)
    BY <2>1, <2>2 DEF Quiet, Before
  <2> QED BY <2>1, <2>2, <2>3, OneMoves
<1>3. CASE Issue(t)
  <2>1. CASE Goto(t, "denied")
    <3> QED BY <1>3, <2>1, GotoMoves DEF Issue, stored, Before
  <2>2. CASE ~Goto(t, "denied")
    <3> DEFINE c == [task[t] EXCEPT !.authTime = clock,
                                    !.pc = IF task[t].op = "refresh" /\ Expired(task[t].session)
                                           THEN "denied" ELSE "storing"]
    <3>1. task' = [task EXCEPT ![t] = c] /\ UNCHANGED <<clock, spent>>
      BY <1>3, <2>2 DEF Issue, stored
    <3>2. DOMAIN c = Fields /\ c.claimed = task[t].claimed /\ c.assertion = task[t].assertion
          /\ c.pc \in {"denied", "storing"}
      BY <1>0 DEF Fields
    <3> HIDE DEF c
    <3>3. Quiet(task[t], c)
      BY <3>2 DEF Quiet, Before
    <3> QED BY <3>1, <3>2, <3>3, OneMoves
  <2> QED BY <2>1, <2>2
<1>4. CASE LoadSession(t) \/ StoreSession(t) \/ DiscardSession(t) \/ CreateAccount(t)
           \/ RevokeAccount(t) \/ EndSessions(t) \/ SetValidAfter(t) \/ PublishNotice(t)
  <2>1. /\ UNCHANGED <<clock, spent>>
        /\ \/ Goto(t, "issuing") \/ Goto(t, "denied") \/ Goto(t, "discarding") \/ Goto(t, "accepted")
           \/ Goto(t, "done") \/ Goto(t, "dating") \/ Goto(t, "publishing") \/ Goto(t, "forgetting")
    BY <1>4 DEF LoadSession, StoreSession, DiscardSession, CreateAccount, RevokeAccount,
                EndSessions, SetValidAfter, PublishNotice, stored, identity
  <2>2. \A pc \in {"issuing", "denied", "discarding", "accepted", "done", "dating",
                   "publishing", "forgetting"} : pc \notin Before
    BY DEF Before
  <2> QED BY <2>1, <2>2, GotoMoves
<1> QED BY <1>1, <1>2, <1>3, <1>4

\* A call arrives.
LEMMA Arrivals ==
    ASSUME ClaimInv, NEW t \in Tasks, NEW i \in Instances, Arrives(t, i)
    PROVE  ClaimInv'
<1>1. ASSUME NEW c, DOMAIN c = Fields, c.claimed = None, task' = [task EXCEPT ![t] = c],
             UNCHANGED <<clock, spent>>
      PROVE  ClaimInv'
  BY <1>1, OneMoves DEF Quiet
<1>2. CASE \E s \in Sessions : AskRefresh(t, i, s)
  <2> PICK s \in Sessions : AskRefresh(t, i, s)
    BY <1>2
  <2> DEFINE c == [Idle EXCEPT !.pc = "loading", !.op = "refresh", !.inst = i, !.session = s]
  <2>1. DOMAIN c = Fields /\ c.claimed = None
    BY IdleCall DEF Fields
  <2>2. task' = [task EXCEPT ![t] = c] /\ UNCHANGED <<clock, spent>>
    BY DEF AskRefresh, stored
  <2> HIDE DEF c
  <2> QED BY <1>1, <2>1, <2>2
<1>3. CASE \E op \in {"revoke", "signOut", "create"} : Administer(t, op, i)
  <2> PICK op \in {"revoke", "signOut", "create"} : Administer(t, op, i)
    BY <1>3
  <2> DEFINE c == [Idle EXCEPT !.pc = op, !.op = op, !.inst = i, !.authTime = clock + 1]
  <2>1. DOMAIN c = Fields /\ c.claimed = None
    BY IdleCall DEF Fields
  <2>2. task' = [task EXCEPT ![t] = c] /\ UNCHANGED <<clock, spent>>
    BY DEF Administer, stored
  <2> HIDE DEF c
  <2> QED BY <1>1, <2>1, <2>2
<1>4. CASE Ask(t, [Idle EXCEPT !.op = "access", !.inst = i, !.selector = "email"])
  <2> DEFINE c == [Idle EXCEPT !.op = "access", !.inst = i, !.selector = "email"]
  <2>1. DOMAIN c = Fields /\ c.claimed = None
    BY IdleCall DEF Fields
  <2> HIDE DEF c
  <2> QED BY <1>4, <2>1, AskMoves DEF c
<1>5. CASE \E s \in Routes : Ask(t, [Idle EXCEPT !.op = "assertion", !.inst = i, !.selector = s])
  <2> PICK s \in Routes : Ask(t, [Idle EXCEPT !.op = "assertion", !.inst = i, !.selector = s])
    BY <1>5
  <2> DEFINE c == [Idle EXCEPT !.op = "assertion", !.inst = i, !.selector = s]
  <2>1. DOMAIN c = Fields /\ c.claimed = None /\ Ask(t, c)
    BY IdleCall DEF Fields
  <2> HIDE DEF c
  <2> QED BY <2>1, AskMoves
<1>6. CASE \E s \in Routes, op \in {"exchange", "signIn"}, a \in Assertions :
              Ask(t, [Idle EXCEPT !.op = op, !.inst = i, !.selector = s, !.assertion = a])
  <2> PICK s \in Routes, op \in {"exchange", "signIn"}, a \in Assertions :
              Ask(t, [Idle EXCEPT !.op = op, !.inst = i, !.selector = s, !.assertion = a])
    BY <1>6
  <2> DEFINE c == [Idle EXCEPT !.op = op, !.inst = i, !.selector = s, !.assertion = a]
  <2>1. DOMAIN c = Fields /\ c.claimed = None /\ Ask(t, c)
    BY IdleCall DEF Fields
  <2> HIDE DEF c
  <2> QED BY <2>1, AskMoves
<1>7. CASE \E at \in AuthTimes :
              Ask(t, [Idle EXCEPT !.op = "identity", !.inst = i, !.selector = "uid", !.authTime = at])
  <2> PICK at \in AuthTimes :
              Ask(t, [Idle EXCEPT !.op = "identity", !.inst = i, !.selector = "uid", !.authTime = at])
    BY <1>7
  <2> DEFINE c == [Idle EXCEPT !.op = "identity", !.inst = i, !.selector = "uid", !.authTime = at]
  <2>1. DOMAIN c = Fields /\ c.claimed = None /\ Ask(t, c)
    BY IdleCall DEF Fields
  <2> HIDE DEF c
  <2> QED BY <2>1, AskMoves
<1> QED BY <1>2, <1>3, <1>4, <1>5, <1>6, <1>7 DEF Arrives

\* A forget marks the lookups it overtakes, and nothing else of any call.
LEMMA OvertakenKeeps ==
    ASSUME ClaimInv, NEW i, NEW selectors, NEW u \in Tasks
    PROVE  /\ DOMAIN Overtaken(i, selectors)[u] = Fields
           /\ Overtaken(i, selectors)[u].pc = task[u].pc
           /\ Quiet(task[u], Overtaken(i, selectors)[u])
<1>1. DOMAIN task[u] = Fields
  BY DEF ClaimInv
<1>2. Overtaken(i, selectors)[u] = task[u]
      \/ Overtaken(i, selectors)[u] = [task[u] EXCEPT !.late = TRUE]
  BY DEF Overtaken
<1> QED BY <1>1, <1>2 DEF Quiet, Fields

\* The caches are told, the watcher moves on, a process dies, time passes, and
\* MongoDB reaps what has expired.
LEMMA OtherSteps ==
    ASSUME ClaimInv,
           \/ \E t \in Tasks : ForgetOwn(t)
           \/ \E i \in Instances : WatchTakes(i) \/ WatchOpens(i) \/ Crash(i)
           \/ \E a \in Assertions : ReapSpent(a)
           \/ Tick
    PROVE  ClaimInv'
<1> USE CredentialsAssumption
<1>1. CASE \E t \in Tasks : ForgetOwn(t)
  <2> PICK t \in Tasks : ForgetOwn(t)
    BY <1>1
  <2> DEFINE over == Overtaken(task[t].inst, Invalidated(t))
  <2>1. task' = [over EXCEPT ![t].pc = "done"] /\ UNCHANGED <<clock, spent>>
    BY DEF ForgetOwn, stored
  <2>2. over = [u \in Tasks |-> over[u]]
    BY DEF Overtaken
  <2>3. \A u \in Tasks : DOMAIN over[u] = Fields /\ Quiet(task[u], over[u])
    BY OvertakenKeeps
  <2> HIDE DEF over
  <2>4. task'[t] = [over[t] EXCEPT !.pc = "done"] /\ \A u \in Tasks \ {t} : task'[u] = over[u]
    BY <2>1, <2>2
  <2>5. \A u \in Tasks : DOMAIN task'[u] = Fields
    BY <2>3, <2>4 DEF Fields
  <2>6. Quiet(task[t], task'[t])
    BY <2>3, <2>4 DEF Quiet, Fields, Before
  <2>7. \A u \in Tasks : Quiet(task[u], task'[u])
    BY <2>3, <2>4, <2>6
  <2>8. task' = [u \in Tasks |-> task'[u]]
    BY <2>1, <2>2
  <2>9. clock' \in Int /\ clock <= clock' /\ spent \subseteq spent'
    BY <2>1 DEF ClaimInv
  <2> QED BY <2>5, <2>7, <2>8, <2>9, QuietStep
<1>2. CASE \E i \in Instances : WatchTakes(i)
  <2> PICK i \in Instances : WatchTakes(i)
    BY <1>2
  <2> DEFINE over == Overtaken(i, notices[watcher[i].next].selectors)
  <2>1. (task' = task \/ task' = over) /\ UNCHANGED <<clock, spent>>
    BY DEF WatchTakes, stored
  <2>2. \A u \in Tasks : DOMAIN over[u] = Fields /\ Quiet(task[u], over[u])
    BY OvertakenKeeps
  <2>3. over = [u \in Tasks |-> over[u]]
    BY DEF Overtaken
  <2> HIDE DEF over
  <2>4. \A u \in Tasks : DOMAIN task'[u] = Fields /\ Quiet(task[u], task'[u])
    BY <2>1, <2>2 DEF Quiet, ClaimInv
  <2>5. task' = [u \in Tasks |-> task'[u]]
    BY <2>1, <2>3 DEF ClaimInv
  <2>6. clock' \in Int /\ clock <= clock' /\ spent \subseteq spent'
    BY <2>1 DEF ClaimInv
  <2> QED BY <2>4, <2>5, <2>6, QuietStep
<1>3. CASE \E i \in Instances : Crash(i)
  <2> PICK i \in Instances : Crash(i)
    BY <1>3
  <2>1. /\ task' = [t \in Tasks |-> IF task[t].inst = i /\ task[t].pc \notin Ended
                                    THEN [task[t] EXCEPT !.pc = "gone"] ELSE task[t]]
        /\ UNCHANGED <<clock, spent>>
    BY DEF Crash, stored
  <2>2. ASSUME NEW u \in Tasks
        PROVE  DOMAIN task'[u] = Fields /\ Quiet(task[u], task'[u])
    <3>1. task'[u] = task[u] \/ task'[u] = [task[u] EXCEPT !.pc = "gone"]
      BY <2>1
    <3>2. DOMAIN task[u] = Fields
      BY DEF ClaimInv
    <3> QED BY <3>1, <3>2 DEF Quiet, Fields, Before
  <2>3. task' = [u \in Tasks |-> task'[u]]
    BY <2>1
  <2>4. clock' \in Int /\ clock <= clock' /\ spent \subseteq spent'
    BY <2>1 DEF ClaimInv
  <2> QED BY <2>2, <2>3, <2>4, QuietStep
<1>4. CASE (\E i \in Instances : WatchOpens(i)) \/ (\E a \in Assertions : ReapSpent(a)) \/ Tick
  <2>1. task' = task /\ clock' \in Int /\ clock <= clock'
        /\ (clock < AssertionEnd => spent \subseteq spent')
    <3>1. CASE \E i \in Instances : WatchOpens(i)
      <4>1. UNCHANGED <<task, clock, spent>>
        BY <3>1, Zenon DEF WatchOpens, stored
      <4> QED BY <4>1 DEF ClaimInv
    <3>2. CASE \E a \in Assertions : ReapSpent(a)
      BY <3>2 DEF ReapSpent, ClaimInv
    <3>3. CASE Tick
      BY <3>3 DEF Tick, stored, ClaimInv
    <3> QED BY <1>4, <3>1, <3>2, <3>3
  <2>2. \A u \in Tasks : DOMAIN task'[u] = Fields /\ Quiet(task[u], task'[u])
    BY <2>1 DEF ClaimInv, Quiet
  <2>3. task' = [u \in Tasks |-> task'[u]]
    BY <2>1 DEF ClaimInv
  <2> QED BY <2>1, <2>2, <2>3, QuietStep
<1> QED BY <1>1, <1>2, <1>3, <1>4

\* A call spends its assertion: the record decides who redeems one, and is
\* there for as long as the assertion lasts.
LEMMA SpendSteps ==
    ASSUME ClaimInv, NEW t \in Tasks, Spend(t)
    PROVE  ClaimInv'
<1> USE CredentialsAssumption
<1> DEFINE a == task[t].assertion
<1>0. DOMAIN task[t] = Fields /\ task[t].pc = "spending" /\ clock' = clock /\ clock \in Int
  BY DEF ClaimInv, Spend
<1>1. spent \subseteq spent'
  BY DEF Spend
<1>2. CASE Goto(t, "denied")
  <2>1. task' = [task EXCEPT ![t] = [task[t] EXCEPT !.pc = "denied"]]
    BY <1>2 DEF Goto
  <2>2. DOMAIN [task[t] EXCEPT !.pc = "denied"] = Fields
        /\ Quiet(task[t], [task[t] EXCEPT !.pc = "denied"])
    BY <1>0 DEF Fields, Quiet, Before
  <2>3. \A u \in Tasks : DOMAIN task'[u] = Fields /\ Quiet(task[u], task'[u])
    BY <2>1, <2>2 DEF ClaimInv, Quiet
  <2>4. task' = [u \in Tasks |-> task'[u]]
    BY <2>1 DEF ClaimInv
  <2> QED BY <1>0, <1>1, <2>3, <2>4, QuietStep
<1>3. CASE ~Goto(t, "denied")
  <2> DEFINE c == [task[t] EXCEPT !.pc = IF task[t].op = "exchange" THEN "accepted" ELSE "issuing",
                                  !.claimed = clock]
  <2>1. task' = [task EXCEPT ![t] = c]
    BY <1>3 DEF Spend
  <2>2. a \notin Untracked => a \notin spent /\ a \in spent'
    BY <1>3 DEF Spend
  <2>3. DOMAIN c = Fields /\ c.pc \notin Before /\ c.claimed = clock /\ c.assertion = a
    BY <1>0 DEF Fields, Before
  <2> HIDE DEF c
  <2>4. task' = [u \in Tasks |-> task'[u]] /\ task'[t] = c /\ \A u \in Tasks \ {t} : task'[u] = task[u]
    BY <2>1 DEF ClaimInv
  <2>5. \A u \in Tasks : DOMAIN task'[u] = Fields
    BY <2>3, <2>4 DEF ClaimInv
  <2>6. ClaimsRecorded'
    <3> SUFFICES ASSUME NEW u \in Tasks, Claimed(u)'
                 PROVE  /\ task'[u].pc \notin Before
                        /\ task'[u].claimed \in Int /\ task'[u].claimed <= clock'
                        /\ clock' < AssertionEnd => task'[u].assertion \in spent'
      BY DEF ClaimsRecorded
    <3>1. CASE u = t
      BY <3>1, <1>0, <2>2, <2>3, <2>4 DEF Claimed
    <3>2. CASE u # t
      <4>1. task'[u] = task[u] /\ Claimed(u)
        BY <3>2, <2>4 DEF Claimed
      <4> QED BY <4>1, <1>0, <1>1 DEF ClaimInv, ClaimsRecorded
    <3> QED BY <3>1, <3>2
  \* Whoever redeemed the same assertion before left a record, unless it has
  \* expired: then this call claims it too late to count.
  <2>7. ASSUME NEW u \in Tasks, u # t, task[u].assertion = a, a \notin Untracked, task[u].claimed # None
        PROVE  ~(clock < AssertionEnd)
    <3>1. Claimed(u)
      BY <2>7 DEF Claimed
    <3> QED BY <2>7, <3>1, <2>2 DEF ClaimInv, ClaimsRecorded
  <2>8. RedeemedOnce'
    <3> SUFFICES ASSUME NEW u \in Tasks, NEW v \in Tasks, u # v,
                        task'[u].assertion = task'[v].assertion, task'[u].assertion \notin Untracked,
                        task'[u].claimed # None, task'[v].claimed # None
                 PROVE  ~(task'[u].claimed < AssertionEnd /\ task'[v].claimed < AssertionEnd)
      BY DEF RedeemedOnce
    <3>1. CASE u = t
      BY <3>1, <2>3, <2>4, <2>7
    <3>2. CASE v = t
      BY <3>2, <2>3, <2>4, <2>7
    <3>3. CASE u # t /\ v # t
      BY <3>3, <2>4 DEF ClaimInv, RedeemedOnce
    <3> QED BY <3>1, <3>2, <3>3
  <2> QED BY <1>0, <2>4, <2>5, <2>6, <2>8 DEF ClaimInv
<1> QED BY <1>2, <1>3

-----------------------------------------------------------------------------

LEMMA ClaimInvInit == Init => ClaimInv
<1> SUFFICES ASSUME Init PROVE ClaimInv
  OBVIOUS
<1>1. task = [t \in Tasks |-> Idle] /\ clock = 0
  BY DEF Init
<1> QED BY <1>1, IdleCall DEF ClaimInv, ClaimsRecorded, RedeemedOnce, Claimed

LEMMA ClaimInvNext == ClaimInv /\ [Next]_vars => ClaimInv'
<1> SUFFICES ASSUME ClaimInv, [Next]_vars PROVE ClaimInv'
  OBVIOUS
<1>1. CASE \E t \in Tasks : \E i \in Instances : Arrives(t, i)
  BY <1>1, Arrivals
<1>2. CASE \E t \in Tasks : Step(t)
  BY <1>2, OwnSteps, SpendSteps, OtherSteps DEF Step
<1>3. CASE \/ \E i \in Instances : WatchTakes(i) \/ WatchOpens(i) \/ Crash(i)
           \/ \E a \in Assertions : ReapSpent(a)
           \/ Tick
  BY <1>3, OtherSteps
<1>4. CASE UNCHANGED vars
  <2>1. task' = task /\ clock' = clock /\ spent' = spent
    BY <1>4 DEF vars, stored
  <2> QED BY <2>1 DEF ClaimInv, ClaimsRecorded, RedeemedOnce, Claimed
<1> QED BY <1>1, <1>2, <1>3, <1>4 DEF Next

\* The record of a spent assertion is kept for as long as it matters.
THEOREM ClaimInvariant == Spec => []ClaimInv
BY ClaimInvInit, ClaimInvNext, PTL DEF Spec

\* No assertion that carries a jti is redeemed twice before it expires, by
\* whichever processes, through whatever crashes (spend_assertion).
THEOREM AssertionsRedeemedOnce == Spec => []RedeemedOnce
<1>1. ClaimInv => RedeemedOnce
  BY DEF ClaimInv
<1> QED BY <1>1, ClaimInvariant, PTL
-----------------------------------------------------------------------------
(* The caches.                                                             *)

Places == Before \cup Ended \cup
          {"issuing", "loading", "storing", "discarding", "create", "revoke", "signOut",
           "dating", "publishing", "forgetting"}

Rows == Nat \cup {Absent, Live, Revoked}

Call == [pc : Places, op : AllOps \cup {None}, inst : Instances \cup {None},
         selector : Selectors \cup {None}, assertion : Assertions \cup {None},
         session : Sessions \cup {None}, row : Rows \cup {None}, since : Nat,
         authTime : Nat, claimed : Nat \cup {None}, late : BOOLEAN]

Entry == [at : Nat, row : Rows, late : BOOLEAN]

Notice == [inst : Instances, selectors : SUBSET Selectors]

\* Where a call is says what it is.
Right(c) ==
    /\ c.pc \notin Ended => c.inst \in Instances
    /\ c.pc \in {"reading", "filling"} => c.selector \in Selectors
    /\ c.pc = "filling" => c.row \in Rows
    /\ c.pc = "revoke" => c.op = "revoke"
    /\ c.pc \in {"signOut", "dating"} => c.op = "signOut"
    /\ c.pc \in {"publishing", "forgetting"} => c.op \in {"revoke", "signOut"}

\* The caches and all they come from have their types, and a watcher that has
\* taken a notice is at the one after it.
CacheShape ==
    /\ clock \in Nat
    /\ account \in {Absent, Live, Revoked} /\ validAfter \in Nat
    /\ changedAt \in [Selectors -> Int]
    /\ notices \in Seq(Notice)
    /\ cache \in [Instances -> [Selectors -> Entry \cup {None}]]
    /\ watcher \in [Instances -> [next : Nat, token : Nat, open : BOOLEAN, missed : BOOLEAN]]
    /\ \A i \in Instances :
         /\ 1 <= watcher[i].next /\ watcher[i].next <= Len(notices) + 1
         /\ watcher[i].token # 0 => watcher[i].next = watcher[i].token + 1
    /\ task \in [Tasks -> Call] /\ \A t \in Tasks : Right(task[t])

\* A lookup is in MongoDB for ReadTime at most, and what it or a cache has that
\* the database has not any more was there when the lookup began.
EntriesRecent ==
    /\ \A s \in Selectors : changedAt[s] <= clock
    /\ \A t \in Tasks : task[t].pc \in {"reading", "filling"} =>
         task[t].since <= clock /\ clock <= task[t].since + ReadTime
    /\ \A t \in Tasks : task[t].pc = "filling" /\ task[t].row # RowOf(task[t].selector) =>
         task[t].since <= changedAt[task[t].selector]
    /\ \A i \in Instances, s \in Selectors : cache[i][s] # None =>
         /\ cache[i][s].at <= clock
         /\ cache[i][s].row # RowOf(s) => cache[i][s].at <= changedAt[s] + ReadTime

\* Process i has a row for s, in its cache or about to be put there, that no
\* forget has passed.
Holds(i, s, row) ==
    \/ cache[i][s] # None /\ ~cache[i][s].late /\ cache[i][s].row = row
    \/ \E t \in Tasks :
         /\ task[t].pc = "filling" /\ task[t].inst = i /\ task[t].selector = s
         /\ ~task[t].late /\ task[t].row = row

\* What is held of an account that does not exist is that it does not.
AbsentKnown ==
    account = Absent =>
        \A i \in Instances, s \in AccountSelectors, row \in Rows : Holds(i, s, row) => row = Absent

\* Why process i need not have forgotten s yet, or never does.
Cause(i, s) ==
    \/ watcher[i].missed
    \/ \E t \in Tasks : task[t].op \in {"revoke", "signOut"} /\ task[t].pc = "gone"
                        /\ s \in Invalidated(t)
    \/ \E k \in watcher[i].next .. Len(notices) :
         notices[k].inst # i /\ s \in notices[k].selectors
    \/ \E t \in Tasks :
         /\ task[t].op \in {"revoke", "signOut"} /\ s \in Invalidated(t)
         /\ \/ task[t].pc = "publishing"
            \/ task[t].pc = "forgetting" /\ task[t].inst = i

\* Whatever is held that the database has not any more has a cause, those that
\* are still to be put into the cache included.
CausesThere ==
    \A i \in Instances, s \in Selectors, row \in Rows :
        Holds(i, s, row) /\ row # RowOf(s) /\ row # Absent => Cause(i, s)

CacheInv == CacheShape /\ EntriesRecent /\ AbsentKnown /\ CausesThere

-----------------------------------------------------------------------------
(* What a step does to one call.                                           *)

CallStep(t) ==
    /\ task'[t] \in Call /\ Right(task'[t])
    /\ \/ task'[t] = task[t]
       \/ task'[t].pc = "reading" /\ task'[t].since = clock /\ clock' = clock
       \/ /\ task[t].pc = "reading" /\ UNCHANGED <<identity, clock>>
          /\ task'[t] = [task[t] EXCEPT !.pc = "filling", !.row = RowOf(task[t].selector)]
       \/ task[t].pc = "filling" /\ task'[t] = [task[t] EXCEPT !.late = TRUE]
       \/ task'[t].pc \notin {"reading", "filling"}

Calls ==
    /\ task' = [t \in Tasks |-> task'[t]]
    /\ \A t \in Tasks : CallStep(t)

LEMMA ShapeCall ==
    ASSUME CacheShape, NEW t \in Tasks
    PROVE  task[t] \in Call /\ Right(task[t]) /\ task = [u \in Tasks |-> task[u]]
BY DEF CacheShape

LEMMA SameCall ==
    ASSUME CacheShape, NEW t \in Tasks, task'[t] = task[t]
    PROVE  CallStep(t)
BY ShapeCall DEF CallStep

\* One call moves.
LEMMA OneCall ==
    ASSUME CacheShape, NEW t \in Tasks, NEW c \in Call, Right(c), task' = [task EXCEPT ![t] = c],
           \/ c.pc \notin {"reading", "filling"}
           \/ c.pc = "reading" /\ c.since = clock /\ clock' = clock
           \/ /\ task[t].pc = "reading" /\ UNCHANGED <<identity, clock>>
              /\ c = [task[t] EXCEPT !.pc = "filling", !.row = RowOf(task[t].selector)]
    PROVE  Calls
<1>1. task' = [u \in Tasks |-> task'[u]] /\ task'[t] = c /\ \A u \in Tasks : u # t => task'[u] = task[u]
  BY DEF CacheShape
<1>2. CallStep(t)
  BY <1>1 DEF CallStep
<1> QED BY <1>1, <1>2, SameCall DEF Calls

\* A call goes to another place, with all it has.
LEMMA GotoCall ==
    ASSUME CacheShape, NEW t \in Tasks, NEW pc \in Places, Goto(t, pc),
           pc \notin {"reading", "filling"}, Right([task[t] EXCEPT !.pc = pc])
    PROVE  Calls
<1> DEFINE c == [task[t] EXCEPT !.pc = pc]
<1>1. c \in Call /\ c.pc = pc
  BY ShapeCall DEF Call
<1>2. task' = [task EXCEPT ![t] = c] /\ Right(c)
  BY DEF Goto
<1> HIDE DEF c
<1> QED BY <1>1, <1>2, OneCall

Verdicts == {"accepted", "denied", "notOurs", "spending"}

\* Judging a call leaves what it is.
LEMMA JudgedCall ==
    ASSUME NEW c \in Call, NEW row
    PROVE  /\ Judged(c, row) \in Call /\ Judged(c, row).pc \in Verdicts
           /\ Judged(c, row).op = c.op /\ Judged(c, row).inst = c.inst
           /\ Judged(c, row).selector = c.selector /\ Judged(c, row).authTime = c.authTime
           /\ c.inst \in Instances => Right(Judged(c, row))
<1> DEFINE verdict ==
             CASE c.op = "identity" -> IF c.authTime < row THEN "denied" ELSE "accepted"
               [] row = Revoked -> "denied"
               [] row = Absent -> IF c.op = "assertion" THEN "notOurs" ELSE "denied"
               [] c.op = "access" -> "accepted"
               [] clock > AssertionEnd + Leeway -> "denied"
               [] c.op = "assertion" -> "accepted"
               [] OTHER -> "spending"
<1>1. verdict \in Verdicts
  BY DEF Verdicts
<1>2. Judged(c, row) = [c EXCEPT !.pc = verdict, !.row = None, !.since = 0, !.late = FALSE]
  BY DEF Judged
<1> HIDE DEF verdict
<1>3. Verdicts \subseteq Places
  BY DEF Verdicts, Places, Before, Ended
<1>4. /\ Judged(c, row) \in Call /\ Judged(c, row).pc = verdict
      /\ Judged(c, row).op = c.op /\ Judged(c, row).inst = c.inst
      /\ Judged(c, row).selector = c.selector /\ Judged(c, row).authTime = c.authTime
  <2>1. verdict \in Places
    BY <1>1, <1>3
  <2>2. 0 \in Nat /\ None \in Rows \cup {None} /\ FALSE \in BOOLEAN
    OBVIOUS
  <2> QED BY <1>2, <2>1, <2>2 DEF Call
<1>5. \A pc \in Verdicts : pc \notin {"reading", "filling", "revoke", "signOut", "dating",
                                      "publishing", "forgetting"}
  BY DEF Verdicts
<1> QED BY <1>1, <1>4, <1>5 DEF Right

\* A call arrives and asks its cache.
LEMMA AskCall ==
    ASSUME CacheShape, NEW t \in Tasks, NEW c \in Call, c.inst \in Instances,
           c.selector \in Selectors, Ask(t, c)
    PROVE  Calls
<1> DEFINE row == cache[c.inst][c.selector].row
<1>0. task' = [task EXCEPT ![t] =
         IF c.op = "identity" /\ ~CheckRevoked THEN [c EXCEPT !.pc = "accepted"]
         ELSE IF Hit(c.inst, c.selector) THEN Judged(c, row)
              ELSE [c EXCEPT !.pc = "reading", !.since = clock]]
      /\ clock' = clock
  BY DEF Ask
<1>1. CASE c.op = "identity" /\ ~CheckRevoked
  <2>1. [c EXCEPT !.pc = "accepted"] \in Call /\ [c EXCEPT !.pc = "accepted"].pc = "accepted"
    BY DEF Call, Places, Ended
  <2>2. Right([c EXCEPT !.pc = "accepted"])
    BY <2>1 DEF Right, Ended
  <2> QED BY <1>0, <1>1, <2>1, <2>2, OneCall
<1>2. CASE ~(c.op = "identity" /\ ~CheckRevoked) /\ Hit(c.inst, c.selector)
  <2>1. Judged(c, row) \in Call /\ Right(Judged(c, row)) /\ Judged(c, row).pc \in Verdicts
    BY JudgedCall
  <2>2. Judged(c, row).pc \notin {"reading", "filling"}
    BY <2>1 DEF Verdicts
  <2> QED BY <1>0, <1>2, <2>1, <2>2, OneCall
<1>3. CASE ~(c.op = "identity" /\ ~CheckRevoked) /\ ~Hit(c.inst, c.selector)
  <2> DEFINE d == [c EXCEPT !.pc = "reading", !.since = clock]
  <2>1. d \in Call /\ d.pc = "reading" /\ d.since = clock /\ d.inst = c.inst /\ d.selector = c.selector
    BY DEF Call, Places, Before, CacheShape
  <2>2. task' = [task EXCEPT ![t] = d]
    BY <1>0, <1>3
  <2> HIDE DEF d
  <2>3. Right(d)
    BY <2>1 DEF Right
  <2> QED BY <1>0, <2>1, <2>2, <2>3, OneCall
<1> QED BY <1>1, <1>2, <1>3

\* A call that is made.
LEMMA IdleIs ==
    /\ Idle \in Call /\ Idle.pc = "new"
BY DEF Idle, Call, Places, Before, Ended

\* The calls that ask a cache.
Asking(c, i) ==
    \/ c = [Idle EXCEPT !.op = "access", !.inst = i, !.selector = "email"]
    \/ \E s \in Routes :
         \/ c = [Idle EXCEPT !.op = "assertion", !.inst = i, !.selector = s]
         \/ \E op \in {"exchange", "signIn"}, a \in Assertions :
              c = [Idle EXCEPT !.op = op, !.inst = i, !.selector = s, !.assertion = a]
    \/ \E at \in AuthTimes :
         c = [Idle EXCEPT !.op = "identity", !.inst = i, !.selector = "uid", !.authTime = at]

LEMMA AskingCalls ==
    ASSUME CacheShape, NEW i \in Instances, NEW c, Asking(c, i)
    PROVE  c \in Call /\ c.inst = i /\ c.selector \in Selectors /\ c.pc = "new"
<1>0. Idle \in Call /\ Idle.pc = "new" /\ Routes \subseteq AccountSelectors
  BY IdleIs, CredentialsAssumption DEF AccountSelectors
<1>1. AuthTimes \subseteq Nat
  BY DEF AuthTimes, CacheShape, Call
<1>2. "email" \in Selectors /\ "uid" \in Selectors /\ AccountSelectors \subseteq Selectors
      /\ {"access", "assertion", "exchange", "signIn", "identity"} \subseteq AllOps
  BY DEF Selectors, AccountSelectors, AllOps
<1>3. CASE c = [Idle EXCEPT !.op = "access", !.inst = i, !.selector = "email"]
  BY <1>0, <1>2, <1>3 DEF Call
<1>4. CASE \E s \in Routes : c = [Idle EXCEPT !.op = "assertion", !.inst = i, !.selector = s]
  <2> PICK s \in Routes : c = [Idle EXCEPT !.op = "assertion", !.inst = i, !.selector = s]
    BY <1>4
  <2> QED BY <1>0, <1>2 DEF Call
<1>5. CASE \E op \in {"exchange", "signIn"}, s \in Routes, a \in Assertions :
              c = [Idle EXCEPT !.op = op, !.inst = i, !.selector = s, !.assertion = a]
  <2> PICK op \in {"exchange", "signIn"}, s \in Routes, a \in Assertions :
        c = [Idle EXCEPT !.op = op, !.inst = i, !.selector = s, !.assertion = a]
    BY <1>5
  <2> QED BY <1>0, <1>2 DEF Call
<1>6. CASE \E at \in AuthTimes :
              c = [Idle EXCEPT !.op = "identity", !.inst = i, !.selector = "uid", !.authTime = at]
  <2> PICK at \in AuthTimes :
        c = [Idle EXCEPT !.op = "identity", !.inst = i, !.selector = "uid", !.authTime = at]
    BY <1>6
  <2> QED BY <1>0, <1>1, <1>2 DEF Call
<1> QED BY <1>3, <1>4, <1>5, <1>6 DEF Asking

\* How a call arrives.
LEMMA ArrivesHow ==
    ASSUME NEW t \in Tasks, NEW i \in Instances, Arrives(t, i)
    PROVE  \/ \E c : Asking(c, i) /\ Ask(t, c)
           \/ \E s \in Sessions : AskRefresh(t, i, s)
           \/ \E op \in {"revoke", "signOut", "create"} : Administer(t, op, i)
BY DEF Arrives, Asking

LEMMA ArrivalCalls ==
    ASSUME CacheShape, NEW t \in Tasks, NEW i \in Instances, Arrives(t, i)
    PROVE  Calls
<1>1. ASSUME NEW c, Asking(c, i), Ask(t, c) PROVE Calls
  BY <1>1, AskingCalls, AskCall
<1>2. ASSUME NEW s \in Sessions, AskRefresh(t, i, s) PROVE Calls
  <2> DEFINE c == [Idle EXCEPT !.pc = "loading", !.op = "refresh", !.inst = i, !.session = s]
  <2>a. "loading" \in Places /\ "refresh" \in AllOps
    BY DEF Places, AllOps
  <2>1. c \in Call /\ c.pc = "loading" /\ c.inst = i
    BY <2>a, IdleIs DEF Call
  <2>2. task' = [task EXCEPT ![t] = c]
    BY <1>2 DEF AskRefresh
  <2> HIDE DEF c
  <2> QED BY <2>1, <2>2, OneCall DEF Right
<1>3. ASSUME NEW op \in {"revoke", "signOut", "create"}, Administer(t, op, i) PROVE Calls
  <2> DEFINE c == [Idle EXCEPT !.pc = op, !.op = op, !.inst = i, !.authTime = clock + 1]
  <2>0. clock + 1 \in Nat
    BY DEF CacheShape
  <2>a. op \in Places /\ op \in AllOps
    BY DEF Places, AllOps
  <2>1. c \in Call /\ c.pc = op /\ c.op = op /\ c.inst = i
    BY <2>0, <2>a, IdleIs DEF Call
  <2>2. task' = [task EXCEPT ![t] = c]
    BY <1>3 DEF Administer
  <2> HIDE DEF c
  <2>3. Right(c)
    BY <2>1 DEF Right
  <2> QED BY <2>1, <2>2, <2>3, OneCall
<1> QED BY <1>1, <1>2, <1>3, ArrivesHow


\* A call under way goes to another place.
LEMMA GotoRight ==
    ASSUME CacheShape, NEW t \in Tasks, NEW pc \in Places, Goto(t, pc), task[t].pc \notin Ended,
           pc \notin {"reading", "filling", "revoke", "signOut"},
           pc = "dating" => task[t].op = "signOut",
           pc \in {"publishing", "forgetting"} => task[t].op \in {"revoke", "signOut"}
    PROVE  Calls
<1>1. task[t].inst \in Instances
  BY ShapeCall DEF Right
<1>2. [task[t] EXCEPT !.pc = pc].pc = pc /\ [task[t] EXCEPT !.pc = pc].op = task[t].op
      /\ [task[t] EXCEPT !.pc = pc].inst = task[t].inst
  BY ShapeCall DEF Call
<1>3. Right([task[t] EXCEPT !.pc = pc])
  BY <1>1, <1>2 DEF Right
<1> QED BY <1>3, GotoCall

RowFound == \A s \in Selectors : RowOf(s) \in Rows

LEMMA RowsTyped ==
    ASSUME CacheShape
    PROVE  RowFound
BY DEF RowFound, RowOf, Rows, CacheShape

\* What a call under way does to itself.
LEMMA OwnCalls ==
    ASSUME CacheShape, NEW t \in Tasks, Step(t), ~ForgetOwn(t)
    PROVE  Calls
<1>0. task[t] \in Call /\ Right(task[t]) /\ task = [u \in Tasks |-> task[u]]
  BY ShapeCall
<1>1. CASE ReadRow(t)
  <2> DEFINE c == [task[t] EXCEPT !.pc = "filling", !.row = RowOf(task[t].selector)]
  <2>1. task[t].pc = "reading" /\ task' = [task EXCEPT ![t] = c] /\ UNCHANGED <<identity, clock>>
    BY <1>1 DEF ReadRow, stored
  <2>2. task[t].inst \in Instances /\ task[t].selector \in Selectors
    BY <1>0, <2>1 DEF Right, Ended
  <2>3. RowOf(task[t].selector) \in Rows
    BY <2>2, RowsTyped DEF RowFound
  <2>4. c \in Call /\ c.pc = "filling" /\ c.inst = task[t].inst /\ c.selector = task[t].selector
        /\ c.row = RowOf(task[t].selector)
    BY <1>0, <2>3 DEF Call, Places, Before
  <2>5. c = [task[t] EXCEPT !.pc = "filling", !.row = RowOf(task[t].selector)]
    OBVIOUS
  <2> HIDE DEF c
  <2>6. Right(c)
    BY <2>2, <2>3, <2>4 DEF Right
  <2> QED BY <2>1, <2>4, <2>5, <2>6, OneCall
<1>2. CASE Fill(t)
  <2> DEFINE c == Judged(task[t], task[t].row)
  <2>1. task[t].pc = "filling" /\ task' = [task EXCEPT ![t] = c]
    BY <1>2 DEF Fill
  <2>2. task[t].inst \in Instances
    BY <1>0, <2>1 DEF Right, Ended
  <2>3. c \in Call /\ Right(c) /\ c.pc \in Verdicts
    BY <1>0, <2>2, JudgedCall
  <2> HIDE DEF c
  <2>4. c.pc \notin {"reading", "filling"}
    BY <2>3 DEF Verdicts
  <2> QED BY <2>1, <2>3, <2>4, OneCall
<1>3. CASE Spend(t)
  <2>1. task[t].pc = "spending" /\ task[t].pc \notin Ended
    BY <1>3 DEF Spend, Ended
  <2>2. CASE Goto(t, "denied")
    BY <2>1, <2>2, GotoRight DEF Places, Ended
  <2>3. CASE ~Goto(t, "denied")
    <3> DEFINE pc == IF task[t].op = "exchange" THEN "accepted" ELSE "issuing"
    <3> DEFINE c == [task[t] EXCEPT !.pc = pc, !.claimed = clock]
    <3>1. task' = [task EXCEPT ![t] = c]
      BY <1>3, <2>3 DEF Spend
    <3>2. clock \in Nat /\ pc \in {"accepted", "issuing"} /\ pc \in Places
      BY DEF CacheShape, Places, Ended
    <3> HIDE DEF pc
    <3>3. c \in Call /\ c.pc \in {"accepted", "issuing"} /\ c.inst = task[t].inst
      BY <1>0, <3>2 DEF Call
    <3>4. task[t].inst \in Instances
      BY <1>0, <2>1 DEF Right
    <3> HIDE DEF c
    <3>5. Right(c)
      BY <3>3, <3>4 DEF Right
    <3> QED BY <3>1, <3>3, <3>5, OneCall
  <2> QED BY <2>2, <2>3
<1>4. CASE Issue(t)
  <2>1. task[t].pc = "issuing" /\ task[t].pc \notin Ended
    BY <1>4 DEF Issue, Ended
  <2>2. CASE Goto(t, "denied")
    BY <2>1, <2>2, GotoRight DEF Places, Ended
  <2>3. CASE ~Goto(t, "denied")
    <3> DEFINE pc == IF task[t].op = "refresh" /\ Expired(task[t].session)
                     THEN "denied" ELSE "storing"
    <3> DEFINE c == [task[t] EXCEPT !.authTime = clock, !.pc = pc]
    <3>1. task' = [task EXCEPT ![t] = c]
      BY <1>4, <2>3 DEF Issue
    <3>2. clock \in Nat /\ pc \in {"denied", "storing"} /\ pc \in Places
      BY DEF CacheShape, Places, Ended
    <3> HIDE DEF pc
    <3>3. c \in Call /\ c.pc \in {"denied", "storing"} /\ c.inst = task[t].inst
      BY <1>0, <3>2 DEF Call
    <3>4. task[t].inst \in Instances
      BY <1>0, <2>1 DEF Right
    <3> HIDE DEF c
    <3>5. Right(c)
      BY <3>3, <3>4 DEF Right
    <3> QED BY <3>1, <3>3, <3>5, OneCall
  <2> QED BY <2>2, <2>3
<1>5. CASE LoadSession(t)
  <2>1. task[t].pc \notin Ended /\ (Goto(t, "issuing") \/ Goto(t, "denied"))
    BY <1>5 DEF LoadSession, Ended
  <2> QED BY <2>1, GotoRight DEF Places, Ended
<1>6. CASE StoreSession(t)
  <2>1. task[t].pc \notin Ended /\ (Goto(t, "discarding") \/ Goto(t, "accepted"))
    BY <1>6 DEF StoreSession, Ended
  <2> QED BY <2>1, GotoRight DEF Places, Ended
<1>7. CASE DiscardSession(t)
  <2>1. task[t].pc \notin Ended /\ Goto(t, "accepted")
    BY <1>7 DEF DiscardSession, Ended
  <2> QED BY <2>1, GotoRight DEF Places, Ended
<1>8. CASE CreateAccount(t)
  <2>1. task[t].pc \notin Ended /\ (Goto(t, "done") \/ Goto(t, "denied"))
    BY <1>8 DEF CreateAccount, Ended
  <2> QED BY <2>1, GotoRight DEF Places, Ended
<1>9. CASE RevokeAccount(t)
  <2>1. task[t].pc \notin Ended /\ (Goto(t, "done") \/ Goto(t, "publishing")) /\ task[t].op = "revoke"
    BY <1>0, <1>9 DEF RevokeAccount, Ended, Right
  <2> QED BY <2>1, GotoRight DEF Places, Ended
<1>10. CASE EndSessions(t)
  <2>1. task[t].pc \notin Ended /\ Goto(t, "dating") /\ task[t].op = "signOut"
    BY <1>0, <1>10 DEF EndSessions, Ended, Right
  <2> QED BY <2>1, GotoRight DEF Places, Ended
<1>11. CASE SetValidAfter(t)
  <2>1. task[t].pc \notin Ended /\ Goto(t, "publishing") /\ task[t].op = "signOut"
    BY <1>0, <1>11 DEF SetValidAfter, Ended, Right
  <2> QED BY <2>1, GotoRight DEF Places, Ended
<1>12. CASE PublishNotice(t)
  <2>1. task[t].pc \notin Ended /\ Goto(t, "forgetting") /\ task[t].op \in {"revoke", "signOut"}
    BY <1>0, <1>12 DEF PublishNotice, Ended, Right
  <2> QED BY <2>1, GotoRight DEF Places, Ended
<1> QED BY <1>1, <1>2, <1>3, <1>4, <1>5, <1>6, <1>7, <1>8, <1>9, <1>10, <1>11, <1>12 DEF Step

\* What a forget does to a call: it may mark a lookup that has its row.
LEMMA OvertakenCall ==
    ASSUME CacheShape, NEW i, NEW selectors, NEW u \in Tasks
    PROVE  /\ Overtaken(i, selectors)[u] \in Call /\ Right(Overtaken(i, selectors)[u])
           /\ \/ Overtaken(i, selectors)[u] = task[u]
              \/ task[u].pc = "filling" /\ Overtaken(i, selectors)[u] = [task[u] EXCEPT !.late = TRUE]
<1>1. \/ Overtaken(i, selectors)[u] = task[u]
      \/ task[u].pc = "filling" /\ Overtaken(i, selectors)[u] = [task[u] EXCEPT !.late = TRUE]
  BY DEF Overtaken
<1>2. [task[u] EXCEPT !.late = TRUE] \in Call
  BY ShapeCall DEF Call
<1>3. Right([task[u] EXCEPT !.late = TRUE])
  BY ShapeCall DEF Right, Call
<1> QED BY <1>1, <1>2, <1>3, ShapeCall

LEMMA OvertakenPlace ==
    ASSUME CacheShape, NEW i, NEW selectors, NEW u \in Tasks
    PROVE  Overtaken(i, selectors)[u].pc = task[u].pc
<1>1. \/ Overtaken(i, selectors)[u] = task[u]
      \/ Overtaken(i, selectors)[u] = [task[u] EXCEPT !.late = TRUE]
  BY OvertakenCall
<1>2. [task[u] EXCEPT !.late = TRUE].pc = task[u].pc
  BY ShapeCall DEF Call
<1> QED BY <1>1, <1>2

\* The caches are told, the watcher moves on, a process dies, time passes.
LEMMA OtherCalls ==
    ASSUME CacheShape,
           \/ \E t \in Tasks : ForgetOwn(t)
           \/ \E i \in Instances : WatchTakes(i) \/ WatchOpens(i) \/ Crash(i)
           \/ \E a \in Assertions : ReapSpent(a)
           \/ Tick
           \/ UNCHANGED vars
    PROVE  Calls
<1>1. ASSUME NEW t \in Tasks, ForgetOwn(t) PROVE Calls
  <2> DEFINE over == Overtaken(task[t].inst, Invalidated(t))
  <2>1. task' = [over EXCEPT ![t].pc = "done"] /\ task[t].pc = "forgetting"
    BY <1>1 DEF ForgetOwn
  <2>2. over = [u \in Tasks |-> over[u]]
    BY DEF Overtaken
  <2>3. \A u \in Tasks : /\ over[u] \in Call /\ Right(over[u])
                         /\ \/ over[u] = task[u]
                            \/ task[u].pc = "filling" /\ over[u] = [task[u] EXCEPT !.late = TRUE]
    BY OvertakenCall
  <2>4. over[t] = task[t]
    BY <2>1, <2>3
  <2> HIDE DEF over
  <2>5. /\ task' = [u \in Tasks |-> task'[u]]
        /\ task'[t] = [task[t] EXCEPT !.pc = "done"]
        /\ \A u \in Tasks \ {t} : task'[u] = over[u]
    BY <2>1, <2>2, <2>4
  <2>6. task'[t] \in Call /\ task'[t].pc = "done"
    BY <2>5, ShapeCall DEF Call, Places, Ended
  <2>7. CallStep(t)
    BY <2>6 DEF CallStep, Right, Ended
  <2>8. ASSUME NEW u \in Tasks \ {t} PROVE CallStep(u)
    BY <2>3, <2>5 DEF CallStep
  <2> QED BY <2>5, <2>7, <2>8 DEF Calls
<1>2. ASSUME NEW i \in Instances, WatchTakes(i) PROVE Calls
  <2> DEFINE over == Overtaken(i, notices[watcher[i].next].selectors)
  <2>1. task' = task \/ task' = over
    BY <1>2 DEF WatchTakes
  <2>2. over = [u \in Tasks |-> over[u]]
    BY DEF Overtaken
  <2>3. \A u \in Tasks : /\ over[u] \in Call /\ Right(over[u])
                         /\ \/ over[u] = task[u]
                            \/ task[u].pc = "filling" /\ over[u] = [task[u] EXCEPT !.late = TRUE]
    BY OvertakenCall
  <2> HIDE DEF over
  <2>4. CASE task' = over
    BY <2>2, <2>3, <2>4 DEF Calls, CallStep
  <2>5. CASE task' = task
    BY <2>5, ShapeCall, SameCall DEF Calls, CacheShape
  <2> QED BY <2>1, <2>4, <2>5
<1>3. ASSUME NEW i \in Instances, Crash(i) PROVE Calls
  <2>1. task' = [t \in Tasks |-> IF task[t].inst = i /\ task[t].pc \notin Ended
                                 THEN [task[t] EXCEPT !.pc = "gone"] ELSE task[t]]
    BY <1>3 DEF Crash
  <2>2. ASSUME NEW u \in Tasks PROVE CallStep(u)
    <3>1. CASE task'[u] = task[u]
      BY <3>1, SameCall
    <3>2. CASE task'[u] = [task[u] EXCEPT !.pc = "gone"]
      <4>1. task'[u] \in Call /\ task'[u].pc = "gone"
        BY <3>2, ShapeCall DEF Call, Places, Ended
      <4> QED BY <4>1 DEF CallStep, Right, Ended
    <3> QED BY <2>1, <3>1, <3>2
  <2>3. task' = [u \in Tasks |-> task'[u]]
    BY <2>1
  <2> QED BY <2>2, <2>3 DEF Calls
<1>4. ASSUME task' = task PROVE Calls
  BY <1>4, ShapeCall, SameCall DEF Calls, CacheShape
<1>5. ASSUME \/ \E i \in Instances : WatchOpens(i)
             \/ \E a \in Assertions : ReapSpent(a)
             \/ Tick
             \/ UNCHANGED vars
      PROVE  task' = task
  BY <1>5, Zenon DEF WatchOpens, ReapSpent, Tick, vars
<1> QED BY <1>1, <1>2, <1>3, <1>4, <1>5

LEMMA StepCalls ==
    ASSUME CacheShape, [Next]_vars
    PROVE  Calls
BY OwnCalls, OtherCalls, ArrivalCalls DEF Next


-----------------------------------------------------------------------------
(* What a step does to all that is stored and remembered.                  *)

\* Nobody who revokes, signs out or died of it gets anywhere.
AdminsStay ==
    \A t \in Tasks : task[t].pc \in {"publishing", "forgetting", "gone"} => task'[t] = task[t]

Quietly == UNCHANGED <<clock, identity, notices, cache, watcher>> /\ AdminsStay

\* Only a call that is none of those moves.
LEMMA OthersStay ==
    ASSUME CacheShape, NEW t \in Tasks, NEW c, task' = [task EXCEPT ![t] = c],
           task[t].pc \notin {"publishing", "forgetting", "gone"}
    PROVE  AdminsStay
BY DEF AdminsStay, CacheShape

LEMMA ArrivesQuietly ==
    ASSUME CacheShape, NEW t \in Tasks, NEW i \in Instances, Arrives(t, i)
    PROVE  Quietly
<1>1. ASSUME NEW c, Ask(t, c) PROVE Quietly
  <2>1. UNCHANGED <<clock, identity, notices, cache, watcher>> /\ task[t].pc = "new"
        /\ \E d : task' = [task EXCEPT ![t] = d]
    BY <1>1 DEF Ask, stored
  <2> QED BY <2>1, OthersStay DEF Quietly
<1>2. ASSUME NEW s \in Sessions, AskRefresh(t, i, s) PROVE Quietly
  <2>1. UNCHANGED <<clock, identity, notices, cache, watcher>> /\ task[t].pc = "new"
        /\ \E d : task' = [task EXCEPT ![t] = d]
    BY <1>2 DEF AskRefresh, stored
  <2> QED BY <2>1, OthersStay DEF Quietly
<1>3. ASSUME NEW op \in {"revoke", "signOut", "create"}, Administer(t, op, i) PROVE Quietly
  <2>1. UNCHANGED <<clock, identity, notices, cache, watcher>> /\ task[t].pc = "new"
        /\ \E d : task' = [task EXCEPT ![t] = d]
    BY <1>3 DEF Administer, stored
  <2> QED BY <2>1, OthersStay DEF Quietly
<1> QED BY <1>1, <1>2, <1>3, ArrivesHow

LEMMA OwnQuietly ==
    ASSUME CacheShape, NEW t \in Tasks,
           \/ ReadRow(t) \/ Spend(t) \/ LoadSession(t) \/ Issue(t) \/ StoreSession(t)
           \/ DiscardSession(t) \/ EndSessions(t)
    PROVE  Quietly
<1>1. UNCHANGED <<clock, identity, notices, cache, watcher>>
  BY DEF ReadRow, Spend, LoadSession, Issue, StoreSession, DiscardSession, EndSessions, stored
<1>2. task[t].pc \notin {"publishing", "forgetting", "gone"}
  BY DEF ReadRow, Spend, LoadSession, Issue, StoreSession, DiscardSession, EndSessions
<1>3. \E c : task' = [task EXCEPT ![t] = c]
  BY DEF ReadRow, Spend, LoadSession, Issue, StoreSession, DiscardSession, EndSessions, Goto
<1> QED BY <1>1, <1>2, <1>3, OthersStay DEF Quietly

\* The steps that touch what is stored of the account and the user, the
\* notices, the caches, the watchers or the clock.
LEMMA StepKinds ==
    ASSUME CacheShape, [Next]_vars
    PROVE  \/ Quietly
           \/ \E t \in Tasks : \/ Fill(t) \/ ForgetOwn(t) \/ PublishNotice(t)
                               \/ CreateAccount(t) \/ RevokeAccount(t) \/ SetValidAfter(t)
           \/ \E i \in Instances : WatchTakes(i) \/ WatchOpens(i) \/ Crash(i)
           \/ Tick
<1>1. ASSUME \/ \E a \in Assertions : ReapSpent(a)
             \/ UNCHANGED vars
      PROVE  Quietly
  BY <1>1 DEF ReapSpent, vars, stored, Quietly, AdminsStay
<1> QED BY <1>1, ArrivesQuietly, OwnQuietly DEF Next, Step

\* Why the row under s is another.
Changed(s) ==
    \/ account = Absent /\ s \in AccountSelectors
    \/ \E t \in Tasks : /\ task'[t].pc = "publishing" /\ task'[t].op \in {"revoke", "signOut"}
                        /\ s \in Invalidated(t)'

RowMoves(s) ==
    \/ RowOf(s)' = RowOf(s) /\ changedAt'[s] \in {changedAt[s], clock}
    \/ changedAt'[s] = clock /\ clock' = clock /\ Changed(s)

LEMMA RowsMove ==
    ASSUME CacheShape, [Next]_vars
    PROVE  /\ account' \in {Absent, Live, Revoked} /\ validAfter' \in Nat
           /\ changedAt' \in [Selectors -> Int]
           /\ account' = Absent => account = Absent
           /\ \A s \in Selectors : RowMoves(s)
<1> USE CredentialsAssumption
<1>0. /\ account \in {Absent, Live, Revoked} /\ validAfter \in Nat /\ clock \in Nat
      /\ changedAt \in [Selectors -> Int]
      /\ task \in [Tasks -> Call] /\ \A t \in Tasks : Right(task[t])
      /\ \A s \in Selectors : s = "uid" \/ s \in AccountSelectors
      /\ "uid" \in Selectors
  BY DEF CacheShape, Selectors
<1>1. ASSUME UNCHANGED identity
      PROVE  /\ account' = account /\ validAfter' = validAfter /\ changedAt' = changedAt
             /\ \A s \in Selectors : RowMoves(s)
  BY <1>1 DEF identity, RowMoves, RowOf
<1>2. ASSUME NEW t \in Tasks, CreateAccount(t)
      PROVE  /\ account' \in {Absent, Live, Revoked} /\ validAfter' \in Nat
             /\ changedAt' \in [Selectors -> Int]
             /\ account' = Absent => account = Absent
             /\ \A s \in Selectors : RowMoves(s)
  <2>1. clock' = clock /\ validAfter' = validAfter
    BY <1>2 DEF CreateAccount
  <2>2. CASE account = Absent
    <3>1. account' = Live
          /\ changedAt' = [s \in Selectors |-> IF s \in AccountSelectors THEN clock ELSE changedAt[s]]
      BY <1>2, <2>2 DEF CreateAccount
    <3>2. ASSUME NEW s \in Selectors PROVE RowMoves(s)
      BY <1>0, <2>1, <2>2, <3>1 DEF RowMoves, Changed, RowOf, AccountSelectors
    <3> QED BY <1>0, <2>1, <3>1, <3>2
  <2>3. CASE account # Absent
    <3>1. UNCHANGED identity
      BY <1>2, <2>1, <2>3 DEF CreateAccount, identity
    <3> QED BY <1>0, <1>1, <3>1
  <2> QED BY <2>2, <2>3
<1>3. ASSUME NEW t \in Tasks, RevokeAccount(t)
      PROVE  /\ account' \in {Absent, Live, Revoked} /\ validAfter' \in Nat
             /\ changedAt' \in [Selectors -> Int]
             /\ account' = Absent => account = Absent
             /\ \A s \in Selectors : RowMoves(s)
  <2>1. clock' = clock /\ validAfter' = validAfter /\ task[t].pc = "revoke"
    BY <1>3 DEF RevokeAccount
  <2>2. CASE account # Absent
    <3>1. /\ account' = Revoked /\ Goto(t, "publishing")
          /\ changedAt' = [s \in Selectors |-> IF s \in AccountSelectors /\ account = Live THEN clock
                                               ELSE changedAt[s]]
      BY <1>3, <2>2 DEF RevokeAccount
    <3>2. task'[t].pc = "publishing" /\ task'[t].op = "revoke"
      BY <1>0, <2>1, <3>1 DEF Goto, Call, Right
    <3>3. Invalidated(t)' = AccountSelectors
      BY <3>2 DEF Invalidated
    <3>4. ASSUME NEW s \in Selectors PROVE RowMoves(s)
      <4>1. CASE s = "uid"
        BY <1>0, <2>1, <3>1, <4>1 DEF RowMoves, RowOf, AccountSelectors
      <4>2. CASE s \in AccountSelectors /\ account = Live
        <5>1. Changed(s)
          BY <3>2, <3>3, <4>2 DEF Changed
        <5> QED BY <2>1, <3>1, <4>2, <5>1 DEF RowMoves
      <4>3. CASE s \in AccountSelectors /\ account # Live
        <5>1. account = Revoked
          BY <1>0, <2>2, <4>3
        <5> QED BY <3>1, <4>3, <5>1, <2>1 DEF RowMoves, RowOf
      <4> QED BY <1>0, <4>1, <4>2, <4>3
    <3> QED BY <1>0, <2>1, <3>1, <3>4
  <2>3. CASE account = Absent
    <3>1. UNCHANGED identity
      BY <1>3, <2>1, <2>3 DEF RevokeAccount, identity
    <3> QED BY <1>0, <1>1, <3>1
  <2> QED BY <2>2, <2>3
<1>4. ASSUME NEW t \in Tasks, SetValidAfter(t)
      PROVE  /\ account' \in {Absent, Live, Revoked} /\ validAfter' \in Nat
             /\ changedAt' \in [Selectors -> Int]
             /\ account' = Absent => account = Absent
             /\ \A s \in Selectors : RowMoves(s)
  <2>1. /\ clock' = clock /\ account' = account /\ task[t].pc = "dating"
        /\ validAfter' = task[t].authTime /\ changedAt' = [changedAt EXCEPT !["uid"] = clock]
        /\ Goto(t, "publishing")
    BY <1>4 DEF SetValidAfter
  <2>2. task'[t].pc = "publishing" /\ task'[t].op = "signOut" /\ task[t].authTime \in Nat
    BY <1>0, <2>1 DEF Goto, Call, Right
  <2>3. Invalidated(t)' = {"uid"}
    BY <2>2 DEF Invalidated
  <2>4. ASSUME NEW s \in Selectors PROVE RowMoves(s)
    <3>1. CASE s = "uid"
      <4>1. Changed(s)
        BY <2>2, <2>3, <3>1 DEF Changed
      <4> QED BY <1>0, <2>1, <3>1, <4>1 DEF RowMoves
    <3>2. CASE s # "uid"
      BY <1>0, <2>1, <3>2 DEF RowMoves, RowOf
    <3> QED BY <3>1, <3>2
  <2> QED BY <1>0, <2>1, <2>2, <2>4
<1>5. ASSUME \/ Quietly
             \/ \E t \in Tasks : Fill(t) \/ ForgetOwn(t) \/ PublishNotice(t)
             \/ \E i \in Instances : WatchTakes(i) \/ WatchOpens(i) \/ Crash(i)
             \/ Tick
      PROVE  UNCHANGED identity
  BY <1>5, Zenon DEF Quietly, Fill, ForgetOwn, PublishNotice, WatchTakes, WatchOpens, Crash, Tick, stored
<1> QED BY <1>0, <1>1, <1>2, <1>3, <1>4, <1>5, StepKinds

\* Time passes only while no lookup is at its limit, and then nothing else
\* happens.
LEMMA TimePasses ==
    ASSUME CacheShape, [Next]_vars
    PROVE  /\ clock' \in Nat
           /\ \/ clock' = clock
              \/ /\ clock' = clock + 1 /\ UNCHANGED <<identity, notices, cache, watcher, task>>
                 /\ \A t \in Tasks : task[t].pc \in {"reading", "filling"} =>
                                       clock - task[t].since < ReadTime
<1>0. clock \in Nat
  BY DEF CacheShape
<1>1. ASSUME Tick
      PROVE  /\ clock' = clock + 1 /\ UNCHANGED <<identity, notices, cache, watcher, task>>
             /\ \A t \in Tasks : task[t].pc \in {"reading", "filling"} =>
                                   clock - task[t].since < ReadTime
  BY <1>1 DEF Tick, stored
<1>2. ASSUME ~Tick PROVE clock' = clock
  <2>1. ASSUME \/ Quietly
               \/ \E t \in Tasks : \/ Fill(t) \/ ForgetOwn(t) \/ PublishNotice(t)
                                   \/ CreateAccount(t) \/ RevokeAccount(t) \/ SetValidAfter(t)
               \/ \E i \in Instances : WatchTakes(i) \/ WatchOpens(i) \/ Crash(i)
        PROVE  clock' = clock
    BY <2>1, Zenon DEF Quietly, Fill, ForgetOwn, PublishNotice, CreateAccount, RevokeAccount,
                       SetValidAfter, WatchTakes, WatchOpens, Crash
  <2> QED BY <1>2, <2>1, StepKinds
<1> QED BY <1>0, <1>1, <1>2


\* An entry stays, goes, or is what a lookup found.
EntryMoves(i, s) ==
    \/ cache'[i][s] = cache[i][s]
    \/ cache'[i][s] = None
    \/ \E t \in Tasks :
         /\ task[t].pc = "filling" /\ task[t].inst = i /\ task[t].selector = s
         /\ cache'[i][s] = [at |-> clock, row |-> task[t].row, late |-> task[t].late]
         /\ UNCHANGED <<clock, identity>>

LEMMA ForgottenEntries ==
    ASSUME CacheShape, NEW j \in Instances, NEW selectors, cache' = Forgotten(j, selectors)
    PROVE  /\ cache' \in [Instances -> [Selectors -> Entry \cup {None}]]
           /\ \A i \in Instances, s \in Selectors : EntryMoves(i, s)
           /\ \A s \in Selectors : s \in selectors => cache'[j][s] = None
<1> DEFINE row == [s \in Selectors |-> IF s \in selectors THEN None ELSE cache[j][s]]
<1>1. cache \in [Instances -> [Selectors -> Entry \cup {None}]]
  BY DEF CacheShape
<1>2. cache' = [cache EXCEPT ![j] = row]
  BY DEF Forgotten
<1>3. row \in [Selectors -> Entry \cup {None}]
  BY <1>1
<1>4. \A s \in Selectors : row[s] = IF s \in selectors THEN None ELSE cache[j][s]
  OBVIOUS
<1> HIDE DEF row
<1>5. cache' \in [Instances -> [Selectors -> Entry \cup {None}]]
  BY <1>1, <1>2, <1>3
<1>6. cache'[j] = row /\ \A i \in Instances : i # j => cache'[i] = cache[i]
  BY <1>1, <1>2
<1>7. ASSUME NEW i \in Instances, NEW s \in Selectors PROVE EntryMoves(i, s)
  BY <1>4, <1>6 DEF EntryMoves
<1> QED BY <1>4, <1>5, <1>6, <1>7

LEMMA EntriesMove ==
    ASSUME CacheShape, [Next]_vars
    PROVE  /\ cache' \in [Instances -> [Selectors -> Entry \cup {None}]]
           /\ \A i \in Instances, s \in Selectors : EntryMoves(i, s)
<1>0. cache \in [Instances -> [Selectors -> Entry \cup {None}]]
  BY DEF CacheShape
<1>1. ASSUME cache' = cache
      PROVE  /\ cache' \in [Instances -> [Selectors -> Entry \cup {None}]]
             /\ \A i \in Instances, s \in Selectors : EntryMoves(i, s)
  BY <1>0, <1>1 DEF EntryMoves
<1>2. ASSUME NEW t \in Tasks, Fill(t)
      PROVE  /\ cache' \in [Instances -> [Selectors -> Entry \cup {None}]]
             /\ \A i \in Instances, s \in Selectors : EntryMoves(i, s)
  <2> DEFINE e == [at |-> clock, row |-> task[t].row, late |-> task[t].late]
  <2>1. /\ task[t].pc = "filling" /\ UNCHANGED <<clock, identity>>
        /\ cache' = [cache EXCEPT ![task[t].inst][task[t].selector] = e]
    BY <1>2 DEF Fill, stored
  <2>2. task[t].inst \in Instances /\ task[t].selector \in Selectors /\ task[t].row \in Rows
        /\ task[t].late \in BOOLEAN
    BY <2>1, ShapeCall DEF Right, Ended, Call
  <2>3. clock \in Nat
    BY DEF CacheShape
  <2>4. e \in Entry
    BY <2>2, <2>3 DEF Entry
  <2>5. e = [at |-> clock, row |-> task[t].row, late |-> task[t].late]
    OBVIOUS
  <2> HIDE DEF e
  <2>6. cache' \in [Instances -> [Selectors -> Entry \cup {None}]]
    BY <1>0, <2>1, <2>2, <2>4
  <2>7. cache'[task[t].inst][task[t].selector] = e
    BY <1>0, <2>1, <2>2
  <2>8. \A i \in Instances, s \in Selectors :
          (i # task[t].inst \/ s # task[t].selector) => cache'[i][s] = cache[i][s]
    BY <1>0, <2>1, <2>2
  <2>9. ASSUME NEW i \in Instances, NEW s \in Selectors PROVE EntryMoves(i, s)
    <3>1. CASE i = task[t].inst /\ s = task[t].selector
      BY <2>1, <2>5, <2>7, <3>1 DEF EntryMoves
    <3>2. CASE i # task[t].inst \/ s # task[t].selector
      BY <2>8, <3>2 DEF EntryMoves
    <3> QED BY <3>1, <3>2
  <2> QED BY <2>6, <2>9
<1>3. ASSUME NEW t \in Tasks, ForgetOwn(t)
      PROVE  /\ cache' \in [Instances -> [Selectors -> Entry \cup {None}]]
             /\ \A i \in Instances, s \in Selectors : EntryMoves(i, s)
  <2>1. task[t].pc = "forgetting" /\ cache' = Forgotten(task[t].inst, Invalidated(t))
    BY <1>3 DEF ForgetOwn
  <2>2. task[t].inst \in Instances
    BY <2>1, ShapeCall DEF Right, Ended
  <2> QED BY <2>1, <2>2, ForgottenEntries
<1>4. ASSUME NEW i \in Instances, WatchTakes(i)
      PROVE  /\ cache' \in [Instances -> [Selectors -> Entry \cup {None}]]
             /\ \A j \in Instances, s \in Selectors : EntryMoves(j, s)
  <2>1. cache' = cache \/ cache' = Forgotten(i, notices[watcher[i].next].selectors)
    BY <1>4 DEF WatchTakes
  <2> QED BY <1>1, <2>1, ForgottenEntries
<1>5. ASSUME NEW i \in Instances, Crash(i)
      PROVE  /\ cache' \in [Instances -> [Selectors -> Entry \cup {None}]]
             /\ \A j \in Instances, s \in Selectors : EntryMoves(j, s)
  <2>1. cache' = [cache EXCEPT ![i] = [s \in Selectors |-> None]]
    BY <1>5 DEF Crash
  <2> QED BY <1>0, <2>1 DEF EntryMoves
<1>6. ASSUME \/ Quietly
             \/ \E t \in Tasks : \/ PublishNotice(t)
                                 \/ CreateAccount(t) \/ RevokeAccount(t) \/ SetValidAfter(t)
             \/ \E i \in Instances : WatchOpens(i)
             \/ Tick
      PROVE  cache' = cache
  BY <1>6, Zenon DEF Quietly, PublishNotice, CreateAccount, RevokeAccount, SetValidAfter, WatchOpens, Tick
<1> QED BY <1>1, <1>2, <1>3, <1>4, <1>5, <1>6, StepKinds

Watchers == [next : Nat, token : Nat, open : BOOLEAN, missed : BOOLEAN]

\* Where process i's watcher is, with so many notices.
WatcherAt(w, length) ==
    /\ w \in Watchers
    /\ 1 <= w.next /\ w.next <= length + 1
    /\ w.token # 0 => w.next = w.token + 1

LEMMA WatcherShape ==
    ASSUME CacheShape, NEW i \in Instances
    PROVE  WatcherAt(watcher[i], Len(notices))
BY DEF CacheShape, WatcherAt, Watchers

\* A watcher takes the next notice ...
LEMMA WatcherTakes ==
    ASSUME CacheShape, NEW i \in Instances, WatchTakes(i)
    PROVE  /\ notices' = notices /\ \A j \in Instances : j # i => watcher'[j] = watcher[j]
           /\ watcher[i].next \in 1 .. Len(notices)
           /\ watcher'[i].next = watcher[i].next + 1 /\ watcher'[i].missed = watcher[i].missed
           /\ WatcherAt(watcher'[i], Len(notices)) /\ watcher' \in [Instances -> Watchers]
<1> DEFINE w == [watcher[i] EXCEPT !.token = watcher[i].next, !.next = watcher[i].next + 1]
<1>0. watcher \in [Instances -> Watchers] /\ watcher[i] \in Watchers /\ Len(notices) \in Nat
  BY DEF CacheShape, Watchers
<1>1. /\ watcher[i].next <= Len(notices) /\ notices' = notices
      /\ watcher' = [watcher EXCEPT ![i].token = watcher[i].next, ![i].next = watcher[i].next + 1]
  BY DEF WatchTakes, stored
<1>2. watcher' = [watcher EXCEPT ![i] = w]
  BY <1>0, <1>1 DEF Watchers
<1>3. watcher[i].next \in Nat /\ watcher[i].next + 1 \in Nat /\ 1 <= watcher[i].next
  BY <1>0, WatcherShape DEF Watchers, WatcherAt
<1>4. w \in Watchers /\ w.token = watcher[i].next /\ w.next = watcher[i].next + 1
      /\ w.missed = watcher[i].missed
  BY <1>0, <1>3 DEF Watchers
<1> HIDE DEF w
<1>5. watcher'[i] = w /\ \A j \in Instances : j # i => watcher'[j] = watcher[j]
  BY <1>0, <1>2
<1>6. watcher' \in [Instances -> Watchers]
  BY <1>0, <1>2, <1>4
<1>7. WatcherAt(w, Len(notices))
  BY <1>0, <1>1, <1>3, <1>4 DEF WatcherAt
<1> QED BY <1>0, <1>1, <1>3, <1>4, <1>5, <1>6, <1>7

\* ... or is opened: what it will not see of other processes it has missed.
LEMMA WatcherOpens ==
    ASSUME CacheShape, NEW i \in Instances, WatchOpens(i)
    PROVE  /\ notices' = notices /\ \A j \in Instances : j # i => watcher'[j] = watcher[j]
           /\ WatcherAt(watcher'[i], Len(notices)) /\ watcher' \in [Instances -> Watchers]
           /\ watcher[i].missed => watcher'[i].missed
           /\ \A k \in watcher[i].next .. Len(notices) :
                notices[k].inst # i => watcher'[i].missed \/ watcher'[i].next <= k
<1> DEFINE fresh == watcher[i].token = 0
<1> DEFINE next == IF fresh THEN Len(notices) + 1 ELSE watcher[i].token + 1
<1> DEFINE missed == watcher[i].missed \/ (fresh /\ \E k \in watcher[i].next .. Len(notices) :
                                                      notices[k].inst # i)
<1> DEFINE w == [watcher[i] EXCEPT !.open = TRUE, !.next = next, !.missed = missed]
<1>0. watcher \in [Instances -> Watchers] /\ watcher[i] \in Watchers /\ Len(notices) \in Nat
  BY DEF CacheShape, Watchers
<1>1. notices' = notices /\ watcher' = [watcher EXCEPT ![i] = w]
  BY DEF WatchOpens, stored
<1>2. watcher[i].next \in Nat /\ watcher[i].token \in Nat /\ watcher[i].missed \in BOOLEAN
      /\ WatcherAt(watcher[i], Len(notices))
  BY <1>0, WatcherShape DEF Watchers
<1>3. /\ next \in Nat /\ 1 <= next /\ next <= Len(notices) + 1
      /\ ~fresh => next = watcher[i].token + 1 /\ next = watcher[i].next
  BY <1>0, <1>2 DEF WatcherAt
<1>4. missed \in BOOLEAN
  BY <1>2, Zenon
<1>5. /\ watcher[i].missed => missed
      /\ fresh => \A k \in watcher[i].next .. Len(notices) : notices[k].inst # i => missed
  BY Zenon
<1>6. fresh \/ next = watcher[i].next
  BY <1>3
<1>7. ~fresh <=> watcher[i].token # 0
  OBVIOUS
<1> HIDE DEF next, missed, fresh
<1>8. w \in Watchers /\ w.next = next /\ w.missed = missed /\ w.token = watcher[i].token
  BY <1>0, <1>3, <1>4 DEF Watchers
<1> HIDE DEF w
<1>9. watcher'[i] = w /\ \A j \in Instances : j # i => watcher'[j] = watcher[j]
  BY <1>0, <1>1
<1>10. watcher' \in [Instances -> Watchers]
  BY <1>0, <1>1, <1>8
<1>11. WatcherAt(w, Len(notices))
  BY <1>3, <1>7, <1>8 DEF WatcherAt
<1>12. ASSUME NEW k \in watcher[i].next .. Len(notices), notices[k].inst # i
       PROVE  watcher'[i].missed \/ watcher'[i].next <= k
  <2>1. CASE fresh
    BY <1>5, <1>8, <1>9, <1>12, <2>1
  <2>2. CASE ~fresh
    BY <1>2, <1>6, <1>8, <1>9, <2>2
  <2> QED BY <2>1, <2>2
<1> QED BY <1>1, <1>5, <1>8, <1>9, <1>10, <1>11, <1>12

\* The notices and the watchers keep their types.
LEMMA NoticesMove ==
    ASSUME CacheShape, [Next]_vars
    PROVE  /\ notices' \in Seq(Notice) /\ watcher' \in [Instances -> Watchers]
           /\ \A i \in Instances : WatcherAt(watcher'[i], Len(notices'))
<1>0. /\ notices \in Seq(Notice) /\ Len(notices) \in Nat /\ watcher \in [Instances -> Watchers]
      /\ \A i \in Instances : WatcherAt(watcher[i], Len(notices))
  BY WatcherShape DEF CacheShape, Watchers
<1>1. ASSUME notices' = notices, watcher' = watcher
      PROVE  /\ notices' \in Seq(Notice) /\ watcher' \in [Instances -> Watchers]
             /\ \A i \in Instances : WatcherAt(watcher'[i], Len(notices'))
  BY <1>0, <1>1
<1>2. ASSUME NEW t \in Tasks, PublishNotice(t)
      PROVE  /\ notices' \in Seq(Notice) /\ watcher' \in [Instances -> Watchers]
             /\ \A i \in Instances : WatcherAt(watcher'[i], Len(notices'))
  <2> DEFINE n == [inst |-> task[t].inst, selectors |-> Invalidated(t)]
  <2>1. task[t].pc = "publishing" /\ notices' = Append(notices, n) /\ watcher' = watcher
    BY <1>2 DEF PublishNotice
  <2>2. task[t].inst \in Instances
    BY <2>1, ShapeCall DEF Right, Ended
  <2>3. n \in Notice
    BY <2>2 DEF Notice, Invalidated, Selectors
  <2> HIDE DEF n
  <2>4. notices' \in Seq(Notice) /\ Len(notices') = Len(notices) + 1
    BY <1>0, <2>1, <2>3
  <2>5. \A i \in Instances : WatcherAt(watcher[i], Len(notices'))
    BY <1>0, <2>4 DEF WatcherAt, Watchers
  <2> QED BY <1>0, <2>1, <2>4, <2>5
<1>3. ASSUME NEW j \in Instances, WatchTakes(j) \/ WatchOpens(j)
      PROVE  /\ notices' \in Seq(Notice) /\ watcher' \in [Instances -> Watchers]
             /\ \A i \in Instances : WatcherAt(watcher'[i], Len(notices'))
  BY <1>0, <1>3, WatcherTakes, WatcherOpens
<1>4. ASSUME NEW j \in Instances, Crash(j)
      PROVE  /\ notices' \in Seq(Notice) /\ watcher' \in [Instances -> Watchers]
             /\ \A i \in Instances : WatcherAt(watcher'[i], Len(notices'))
  <2> DEFINE w == Watcher(Len(notices) + 1, FALSE)
  <2>1. notices' = notices /\ watcher' = [watcher EXCEPT ![j] = w]
    BY <1>4 DEF Crash, stored
  <2>2. w \in Watchers /\ WatcherAt(w, Len(notices))
    BY <1>0 DEF Watcher, Watchers, WatcherAt
  <2> HIDE DEF w
  <2> QED BY <1>0, <2>1, <2>2
<1>5. ASSUME \/ Quietly
             \/ \E t \in Tasks : \/ Fill(t) \/ ForgetOwn(t)
                                 \/ CreateAccount(t) \/ RevokeAccount(t) \/ SetValidAfter(t)
             \/ Tick
      PROVE  notices' = notices /\ watcher' = watcher
  BY <1>5, Zenon DEF Quietly, Fill, ForgetOwn, CreateAccount, RevokeAccount, SetValidAfter, Tick, stored
<1> QED BY <1>1, <1>2, <1>3, <1>4, <1>5, StepKinds

\* The types are kept.
LEMMA ShapeNext ==
    ASSUME CacheShape, [Next]_vars
    PROVE  CacheShape'
<1>1. task' \in [Tasks -> Call] /\ \A t \in Tasks : Right(task'[t])
  BY StepCalls DEF Calls, CallStep
<1>2. \A i \in Instances :
         /\ 1 <= watcher'[i].next /\ watcher'[i].next <= Len(notices') + 1
         /\ watcher'[i].token # 0 => watcher'[i].next = watcher'[i].token + 1
  BY NoticesMove DEF WatcherAt
<1> QED BY <1>1, <1>2, RowsMove, TimePasses, EntriesMove, NoticesMove DEF CacheShape, Watchers


-----------------------------------------------------------------------------
(* What a cache has that the database has not any more.                    *)

\* What is held was held, or was read just now.
LEMMA HoldsMove ==
    ASSUME CacheShape, [Next]_vars, NEW i \in Instances, NEW s \in Selectors, NEW row \in Rows,
           Holds(i, s, row)'
    PROVE  Holds(i, s, row) \/ (row = RowOf(s) /\ UNCHANGED identity)
<1>1. ASSUME cache'[i][s] # None, ~cache'[i][s].late, cache'[i][s].row = row
      PROVE  Holds(i, s, row)
  <2>1. CASE cache'[i][s] = cache[i][s]
    BY <1>1, <2>1 DEF Holds
  <2>2. CASE cache'[i][s] = None
    BY <1>1, <2>2
  <2>3. ASSUME NEW t \in Tasks, task[t].pc = "filling", task[t].inst = i, task[t].selector = s,
               cache'[i][s] = [at |-> clock, row |-> task[t].row, late |-> task[t].late]
        PROVE  Holds(i, s, row)
    BY <1>1, <2>3 DEF Holds
  <2>4. EntryMoves(i, s)
    BY EntriesMove
  <2> QED BY <2>1, <2>2, <2>3, <2>4 DEF EntryMoves
<1>2. ASSUME NEW t \in Tasks, task'[t].pc = "filling", task'[t].inst = i, task'[t].selector = s,
             ~task'[t].late, task'[t].row = row
      PROVE  Holds(i, s, row) \/ (row = RowOf(s) /\ UNCHANGED identity)
  <2>0. task[t] \in Call /\ CallStep(t)
    BY StepCalls, ShapeCall DEF Calls
  <2>1. CASE task'[t] = task[t]
    BY <1>2, <2>1 DEF Holds
  <2>2. CASE UNCHANGED identity /\ task'[t] = [task[t] EXCEPT !.pc = "filling",
                                                              !.row = RowOf(task[t].selector)]
    <3>1. task'[t].selector = task[t].selector /\ task'[t].row = RowOf(task[t].selector)
      BY <2>0, <2>2 DEF Call
    <3> QED BY <1>2, <2>2, <3>1
  <2>3. CASE task'[t] = [task[t] EXCEPT !.late = TRUE]
    <3>1. task'[t].late = TRUE
      BY <2>0, <2>3 DEF Call
    <3> QED BY <1>2, <3>1
  <2> QED BY <1>2, <2>0, <2>1, <2>2, <2>3 DEF CallStep
<1> QED BY <1>1, <1>2 DEF Holds

\* Process i holds nothing of s: what it reads or read is marked.
Settled(i, s) ==
    /\ cache'[i][s] = None
    /\ \A t \in Tasks : task'[t].pc = "filling" /\ task'[t].inst = i /\ task'[t].selector = s
                          => task'[t].late

LEMMA SettledHoldsNothing ==
    ASSUME NEW i, NEW s, NEW row, Settled(i, s)
    PROVE  ~Holds(i, s, row)'
BY DEF Settled, Holds

\* A forget settles what it forgets.
LEMMA ForgetSettles ==
    ASSUME CacheShape, NEW i \in Instances, NEW selectors, NEW s \in Selectors, s \in selectors,
           cache' = Forgotten(i, selectors),
           \A t \in Tasks : \/ task'[t] = Overtaken(i, selectors)[t]
                            \/ task'[t].pc # "filling"
    PROVE  Settled(i, s)
<1>1. cache'[i][s] = None
  BY ForgottenEntries
<1>2. ASSUME NEW t \in Tasks, task'[t].pc = "filling", task'[t].inst = i, task'[t].selector = s
      PROVE  task'[t].late
  <2>1. task'[t] = Overtaken(i, selectors)[t] /\ task[t] \in Call
    BY <1>2, ShapeCall
  <2>2. CASE task[t].inst = i /\ task[t].pc = "filling" /\ task[t].selector \in selectors
    <3>1. task'[t] = [task[t] EXCEPT !.late = TRUE]
      BY <2>1, <2>2 DEF Overtaken
    <3> QED BY <2>1, <3>1 DEF Call
  <2>3. CASE ~(task[t].inst = i /\ task[t].pc = "filling" /\ task[t].selector \in selectors)
    <3>1. task'[t] = task[t]
      BY <2>1, <2>3 DEF Overtaken
    <3> QED BY <1>2, <2>3, <3>1
  <2> QED BY <2>2, <2>3
<1> QED BY <1>1, <1>2 DEF Settled

\* The parts of a cause.
Missed(i) == watcher[i].missed

Died(s) == \E t \in Tasks : task[t].op \in {"revoke", "signOut"} /\ task[t].pc = "gone"
                            /\ s \in Invalidated(t)

OnTheWay(i, s) == \E k \in watcher[i].next .. Len(notices) :
                    notices[k].inst # i /\ s \in notices[k].selectors

Underway(i, s) == \E t \in Tasks :
                    /\ task[t].op \in {"revoke", "signOut"} /\ s \in Invalidated(t)
                    /\ \/ task[t].pc = "publishing"
                       \/ task[t].pc = "forgetting" /\ task[t].inst = i

LEMMA CauseParts ==
    ASSUME NEW i, NEW s
    PROVE  Cause(i, s) <=> Missed(i) \/ Died(s) \/ OnTheWay(i, s) \/ Underway(i, s)
BY DEF Cause, Missed, Died, OnTheWay, Underway

\* A call that revokes or signs out is about what it was.
LEMMA StillAbout ==
    ASSUME NEW t \in Tasks, task'[t].op = task[t].op
    PROVE  Invalidated(t)' = Invalidated(t)
BY DEF Invalidated

\* The causes of one process when no call, notice or watcher of its moves.
LEMMA CauseStays ==
    ASSUME CacheShape, NEW i \in Instances, NEW s \in Selectors, Cause(i, s),
           notices' = notices, watcher'[i] = watcher[i],
           \A t \in Tasks : task[t].pc \in {"publishing", "forgetting", "gone"} =>
              task'[t].pc = task[t].pc /\ task'[t].op = task[t].op /\ task'[t].inst = task[t].inst
    PROVE  Cause(i, s)'
<1>1. Missed(i) => Missed(i)'
  BY DEF Missed
<1>2. Died(s) => Died(s)'
  BY StillAbout DEF Died
<1>3. OnTheWay(i, s) => OnTheWay(i, s)'
  BY DEF OnTheWay
<1>4. Underway(i, s) => Underway(i, s)'
  BY StillAbout DEF Underway
<1>5. Missed(i)' \/ Died(s)' \/ OnTheWay(i, s)' \/ Underway(i, s)'
  BY <1>1, <1>2, <1>3, <1>4, CauseParts
<1> QED BY <1>5 DEF Cause, Missed, Died, OnTheWay, Underway

\* The notice of a call comes after its change, and its own process forgets
\* after that.
LEMMA CausePublish ==
    ASSUME CacheShape, NEW i \in Instances, NEW s \in Selectors, Cause(i, s),
           NEW u \in Tasks, PublishNotice(u)
    PROVE  Cause(i, s)'
<1> DEFINE n == [inst |-> task[u].inst, selectors |-> Invalidated(u)]
<1>0. /\ task \in [Tasks -> Call] /\ notices \in Seq(Notice) /\ Len(notices) \in Nat
      /\ watcher[i].next \in Nat /\ watcher[i].next <= Len(notices) + 1
  BY DEF CacheShape
<1>1. /\ task[u].pc = "publishing" /\ notices' = Append(notices, n) /\ watcher' = watcher
      /\ Goto(u, "forgetting") /\ task[u].op \in {"revoke", "signOut"} /\ task[u].inst \in Instances
  BY ShapeCall DEF PublishNotice, Right, Ended
<1>2. /\ task'[u].pc = "forgetting" /\ task'[u].op = task[u].op /\ task'[u].inst = task[u].inst
      /\ \A t \in Tasks : t # u => task'[t] = task[t]
  BY <1>0, <1>1 DEF Goto, Call
<1>3. n.inst = task[u].inst /\ n.selectors = Invalidated(u)
  OBVIOUS
<1>4. n \in Notice
  BY <1>1 DEF Notice, Invalidated, Selectors
<1> HIDE DEF n
<1>5. /\ Len(notices') = Len(notices) + 1 /\ notices'[Len(notices) + 1] = n
      /\ \A k \in 1 .. Len(notices) : notices'[k] = notices[k]
  BY <1>0, <1>1, <1>4
<1>6. \A t \in Tasks : Invalidated(t)' = Invalidated(t)
  BY <1>2, StillAbout
<1>7. Missed(i) => Missed(i)'
  BY <1>1 DEF Missed
<1>8. Died(s) => Died(s)'
  BY <1>1, <1>2, <1>6 DEF Died
<1>9. OnTheWay(i, s) => OnTheWay(i, s)'
  <2> SUFFICES ASSUME NEW k \in watcher[i].next .. Len(notices), notices[k].inst # i,
                      s \in notices[k].selectors
               PROVE  OnTheWay(i, s)'
    BY DEF OnTheWay
  <2>1. 1 <= watcher[i].next
    BY DEF CacheShape
  <2>2. k \in 1 .. Len(notices) /\ k \in watcher'[i].next .. Len(notices')
    BY <1>0, <1>1, <1>5, <2>1
  <2>3. notices'[k] = notices[k]
    BY <1>5, <2>2
  <2> QED BY <2>2, <2>3 DEF OnTheWay
<1>10. Underway(i, s) => OnTheWay(i, s)' \/ Underway(i, s)'
  <2> SUFFICES ASSUME NEW t \in Tasks, task[t].op \in {"revoke", "signOut"}, s \in Invalidated(t),
                      \/ task[t].pc = "publishing"
                      \/ task[t].pc = "forgetting" /\ task[t].inst = i
               PROVE  OnTheWay(i, s)' \/ Underway(i, s)'
    BY DEF Underway
  <2>1. CASE t # u
    BY <1>2, <1>6, <2>1 DEF Underway
  <2>2. CASE t = u /\ task[u].inst = i
    BY <1>1, <1>2, <1>6, <2>2 DEF Underway
  <2>3. CASE t = u /\ task[u].inst # i
    <3>1. Len(notices) + 1 \in watcher'[i].next .. Len(notices')
      BY <1>0, <1>1, <1>5
    <3>2. notices'[Len(notices) + 1].inst # i /\ s \in notices'[Len(notices) + 1].selectors
      BY <1>3, <1>5, <2>3
    <3> QED BY <3>1, <3>2 DEF OnTheWay
  <2> QED BY <2>1, <2>2, <2>3
<1>11. Missed(i)' \/ Died(s)' \/ OnTheWay(i, s)' \/ Underway(i, s)'
  BY <1>7, <1>8, <1>9, <1>10, CauseParts
<1> QED BY <1>11 DEF Cause, Missed, Died, OnTheWay, Underway

\* The call's own process forgets.
LEMMA CauseForget ==
    ASSUME CacheShape, NEW i \in Instances, NEW s \in Selectors, Cause(i, s),
           NEW u \in Tasks, ForgetOwn(u)
    PROVE  Cause(i, s)' \/ Settled(i, s)
<1> DEFINE over == Overtaken(task[u].inst, Invalidated(u))
<1>1. /\ task[u].pc = "forgetting" /\ notices' = notices /\ watcher' = watcher
      /\ cache' = Forgotten(task[u].inst, Invalidated(u))
      /\ task' = [over EXCEPT ![u].pc = "done"]
  BY DEF ForgetOwn, stored
<1>2. over = [t \in Tasks |-> over[t]]
  BY DEF Overtaken
<1>3. \A t \in Tasks : /\ over[t] \in Call /\ Right(over[t])
                       /\ \/ over[t] = task[t]
                          \/ task[t].pc = "filling" /\ over[t] = [task[t] EXCEPT !.late = TRUE]
  BY OvertakenCall
<1>4. over[u] = task[u]
  BY <1>1, <1>3
<1> HIDE DEF over
<1>5. task'[u] = [task[u] EXCEPT !.pc = "done"] /\ \A t \in Tasks : t # u => task'[t] = over[t]
  BY <1>1, <1>2, <1>4
<1>6. task'[u].pc = "done"
  BY <1>5, ShapeCall DEF Call
<1>7. \A t \in Tasks : t # u /\ task[t].pc # "filling" => task'[t] = task[t]
  BY <1>3, <1>5
<1>8. CASE task[u].inst = i /\ s \in Invalidated(u)
  <2>1. \A t \in Tasks : \/ task'[t] = Overtaken(i, Invalidated(u))[t]
                         \/ task'[t].pc # "filling"
    BY <1>5, <1>6, <1>8 DEF over
  <2> QED BY <1>1, <1>8, <2>1, ForgetSettles
<1>9. CASE ~(task[u].inst = i /\ s \in Invalidated(u))
  <2>1. \A t \in Tasks : t # u /\ task[t].pc # "filling" => Invalidated(t)' = Invalidated(t)
    BY <1>7, StillAbout
  <2>2. Missed(i) => Missed(i)'
    BY <1>1 DEF Missed
  <2>3. Died(s) => Died(s)'
    BY <1>1, <1>7, <2>1 DEF Died
  <2>4. OnTheWay(i, s) => OnTheWay(i, s)'
    BY <1>1 DEF OnTheWay
  <2>5. Underway(i, s) => Underway(i, s)'
    <3> SUFFICES ASSUME NEW t \in Tasks, task[t].op \in {"revoke", "signOut"}, s \in Invalidated(t),
                        \/ task[t].pc = "publishing"
                        \/ task[t].pc = "forgetting" /\ task[t].inst = i
                 PROVE  Underway(i, s)'
      BY DEF Underway
    <3>1. t # u
      BY <1>1, <1>9
    <3> QED BY <1>7, <2>1, <3>1 DEF Underway
  <2>6. Missed(i)' \/ Died(s)' \/ OnTheWay(i, s)' \/ Underway(i, s)'
    BY <2>2, <2>3, <2>4, <2>5, CauseParts
  <2> QED BY <2>6 DEF Cause, Missed, Died, OnTheWay, Underway
<1> QED BY <1>8, <1>9

\* A watcher takes a notice, which settles what it names, or is one of its
\* own process and was none of its causes.
LEMMA CauseTakes ==
    ASSUME CacheShape, NEW i \in Instances, NEW s \in Selectors, Cause(i, s),
           NEW j \in Instances, WatchTakes(j)
    PROVE  Cause(i, s)' \/ Settled(i, s)
<1> DEFINE notice == notices[watcher[j].next]
<1> DEFINE over == Overtaken(j, notice.selectors)
<1>1. \/ notice.inst = j /\ task' = task
      \/ notice.inst # j /\ task' = over /\ cache' = Forgotten(j, notice.selectors)
  BY DEF WatchTakes
<1>2. /\ notices' = notices /\ \A k \in Instances : k # j => watcher'[k] = watcher[k]
      /\ watcher[j].next \in 1 .. Len(notices)
      /\ watcher'[j].next = watcher[j].next + 1 /\ watcher'[j].missed = watcher[j].missed
  BY WatcherTakes
<1>3. \A t \in Tasks : task[t].pc # "filling" => task'[t] = task[t]
  <2>1. \A t \in Tasks : task[t].pc # "filling" => over[t] = task[t]
    BY DEF Overtaken
  <2> QED BY <1>1, <2>1
<1>4. CASE i # j
  BY <1>2, <1>3, <1>4, CauseStays
<1>5. CASE i = j /\ notice.inst # i /\ s \in notice.selectors
  <2>1. cache' = Forgotten(i, notice.selectors) /\ task' = over
    BY <1>1, <1>5
  <2> QED BY <1>5, <2>1, ForgetSettles
<1>6. CASE i = j /\ ~(notice.inst # i /\ s \in notice.selectors)
  <2>0. \A t \in Tasks : task[t].pc # "filling" => Invalidated(t)' = Invalidated(t)
    BY <1>3, StillAbout
  <2>1. Missed(i) => Missed(i)'
    BY <1>2, <1>6 DEF Missed
  <2>2. Died(s) => Died(s)'
    BY <1>3, <2>0 DEF Died
  <2>3. OnTheWay(i, s) => OnTheWay(i, s)'
    <3> SUFFICES ASSUME NEW k \in watcher[i].next .. Len(notices), notices[k].inst # i,
                        s \in notices[k].selectors
                 PROVE  OnTheWay(i, s)'
      BY DEF OnTheWay
    <3>1. k # watcher[i].next
      BY <1>6
    <3>2. watcher[i].next \in Nat /\ Len(notices) \in Nat
      BY DEF CacheShape
    <3>3. k \in watcher'[i].next .. Len(notices')
      BY <1>2, <1>6, <3>1, <3>2
    <3> QED BY <1>2, <3>3 DEF OnTheWay
  <2>4. Underway(i, s) => Underway(i, s)'
    BY <1>3, <2>0 DEF Underway
  <2>5. Missed(i)' \/ Died(s)' \/ OnTheWay(i, s)' \/ Underway(i, s)'
    BY <2>1, <2>2, <2>3, <2>4, CauseParts
  <2> QED BY <2>5 DEF Cause, Missed, Died, OnTheWay, Underway
<1> QED BY <1>4, <1>5, <1>6

\* A watcher is opened: what will not come to it, it has missed.
LEMMA CauseOpens ==
    ASSUME CacheShape, NEW i \in Instances, NEW s \in Selectors, Cause(i, s),
           NEW j \in Instances, WatchOpens(j)
    PROVE  Cause(i, s)'
<1>1. /\ notices' = notices /\ \A k \in Instances : k # j => watcher'[k] = watcher[k]
      /\ watcher[j].missed => watcher'[j].missed
      /\ \A k \in watcher[j].next .. Len(notices) :
           notices[k].inst # j => watcher'[j].missed \/ watcher'[j].next <= k
      /\ WatcherAt(watcher'[j], Len(notices))
  BY WatcherOpens
<1>2. task' = task
  BY DEF WatchOpens
<1>3. CASE i # j
  BY <1>1, <1>2, <1>3, CauseStays
<1>4. CASE i = j
  <2>1. Missed(i) => Missed(i)'
    BY <1>1, <1>4 DEF Missed
  <2>2. Died(s) => Died(s)'
    BY <1>2 DEF Died, Invalidated
  <2>3. OnTheWay(i, s) => Missed(i)' \/ OnTheWay(i, s)'
    <3> SUFFICES ASSUME NEW k \in watcher[i].next .. Len(notices), notices[k].inst # i,
                        s \in notices[k].selectors
                 PROVE  Missed(i)' \/ OnTheWay(i, s)'
      BY DEF OnTheWay
    <3>1. CASE watcher'[i].missed
      BY <3>1 DEF Missed
    <3>2. CASE watcher'[i].next <= k
      <4>1. watcher'[i].next \in Nat /\ Len(notices) \in Nat /\ watcher[i].next \in Nat
        BY <1>1, <1>4 DEF CacheShape, WatcherAt, Watchers
      <4>2. k \in watcher'[i].next .. Len(notices')
        BY <1>1, <3>2, <4>1
      <4> QED BY <1>1, <4>2 DEF OnTheWay
    <3> QED BY <1>1, <1>4, <3>1, <3>2
  <2>4. Underway(i, s) => Underway(i, s)'
    BY <1>2 DEF Underway, Invalidated
  <2>5. Missed(i)' \/ Died(s)' \/ OnTheWay(i, s)' \/ Underway(i, s)'
    BY <2>1, <2>2, <2>3, <2>4, CauseParts
  <2> QED BY <2>5 DEF Cause, Missed, Died, OnTheWay, Underway
<1> QED BY <1>3, <1>4

\* A process dies: it holds nothing any more, and its revocations may never
\* reach the others.
LEMMA CauseCrash ==
    ASSUME CacheShape, NEW i \in Instances, NEW s \in Selectors, Cause(i, s),
           NEW j \in Instances, Crash(j)
    PROVE  Cause(i, s)' \/ Settled(i, s)
<1>1. /\ notices' = notices /\ cache' = [cache EXCEPT ![j] = [r \in Selectors |-> None]]
      /\ watcher' = [watcher EXCEPT ![j] = Watcher(Len(notices) + 1, FALSE)]
      /\ task' = [t \in Tasks |-> IF task[t].inst = j /\ task[t].pc \notin Ended
                                  THEN [task[t] EXCEPT !.pc = "gone"] ELSE task[t]]
  BY DEF Crash, stored
<1>2. \A t \in Tasks : \/ task'[t] = task[t] /\ ~(task[t].inst = j /\ task[t].pc \notin Ended)
                       \/ /\ task[t].inst = j /\ task[t].pc \notin Ended /\ task'[t].pc = "gone"
                          /\ task'[t].op = task[t].op
  <2> TAKE t \in Tasks
  <2>1. task[t] \in Call
    BY ShapeCall
  <2> QED BY <1>1, <2>1 DEF Call
<1>3. CASE i = j
  <2>1. cache'[i][s] = None
    BY <1>1, <1>3 DEF CacheShape
  <2>2. ASSUME NEW t \in Tasks, task'[t].pc = "filling", task'[t].inst = i PROVE FALSE
    BY <1>2, <1>3, <2>2 DEF Ended
  <2> QED BY <2>1, <2>2 DEF Settled
<1>4. CASE i # j
  <2>0. \A t \in Tasks : Invalidated(t)' = Invalidated(t)
    BY <1>2, StillAbout
  <2>1. watcher'[i] = watcher[i]
    BY <1>1, <1>4 DEF CacheShape
  <2>2. Missed(i) => Missed(i)'
    BY <2>1 DEF Missed
  <2>3. Died(s) => Died(s)'
    BY <1>2, <2>0 DEF Died
  <2>4. OnTheWay(i, s) => OnTheWay(i, s)'
    BY <1>1, <2>1 DEF OnTheWay
  <2>5. Underway(i, s) => Died(s)' \/ Underway(i, s)'
    <3> SUFFICES ASSUME NEW t \in Tasks, task[t].op \in {"revoke", "signOut"}, s \in Invalidated(t),
                        \/ task[t].pc = "publishing"
                        \/ task[t].pc = "forgetting" /\ task[t].inst = i
                 PROVE  Died(s)' \/ Underway(i, s)'
      BY DEF Underway
    <3>1. CASE task'[t] = task[t]
      BY <2>0, <3>1 DEF Underway
    <3>2. CASE task'[t].pc = "gone" /\ task'[t].op = task[t].op
      BY <2>0, <3>2 DEF Died
    <3> QED BY <1>2, <3>1, <3>2
  <2>6. Missed(i)' \/ Died(s)' \/ OnTheWay(i, s)' \/ Underway(i, s)'
    BY <2>2, <2>3, <2>4, <2>5, CauseParts
  <2> QED BY <2>6 DEF Cause, Missed, Died, OnTheWay, Underway
<1> QED BY <1>3, <1>4

\* A cause lasts until the process holds nothing that it is the cause of.
LEMMA CauseMoves ==
    ASSUME CacheShape, [Next]_vars, NEW i \in Instances, NEW s \in Selectors, Cause(i, s)
    PROVE  Cause(i, s)' \/ Settled(i, s)
<1>1. ASSUME notices' = notices, watcher' = watcher, AdminsStay
      PROVE  Cause(i, s)'
  BY <1>1, CauseStays DEF AdminsStay
<1>2. ASSUME Quietly \/ Tick
      PROVE  notices' = notices /\ watcher' = watcher /\ AdminsStay
  BY <1>2 DEF Quietly, Tick, stored, AdminsStay
<1>3. ASSUME NEW t \in Tasks,
             Fill(t) \/ CreateAccount(t) \/ RevokeAccount(t) \/ SetValidAfter(t)
      PROVE  notices' = notices /\ watcher' = watcher /\ AdminsStay
  <2>1. notices' = notices /\ watcher' = watcher
    BY <1>3, Zenon DEF Fill, CreateAccount, RevokeAccount, SetValidAfter, stored
  <2>2. task[t].pc \notin {"publishing", "forgetting", "gone"}
    BY <1>3 DEF Fill, CreateAccount, RevokeAccount, SetValidAfter
  <2>3. \E c : task' = [task EXCEPT ![t] = c]
    BY <1>3 DEF Fill, CreateAccount, RevokeAccount, SetValidAfter, Goto
  <2> QED BY <2>1, <2>2, <2>3, OthersStay
<1>4. ASSUME NEW t \in Tasks, PublishNotice(t) PROVE Cause(i, s)'
  BY <1>4, CausePublish
<1>5. ASSUME NEW t \in Tasks, ForgetOwn(t) PROVE Cause(i, s)' \/ Settled(i, s)
  BY <1>5, CauseForget
<1>6. ASSUME NEW j \in Instances, WatchTakes(j) \/ WatchOpens(j) \/ Crash(j)
      PROVE  Cause(i, s)' \/ Settled(i, s)
  BY <1>6, CauseTakes, CauseOpens, CauseCrash
<1> QED BY <1>1, <1>2, <1>3, <1>4, <1>5, <1>6, StepKinds


-----------------------------------------------------------------------------
(* The invariant.                                                          *)

\* The clock does not go back, and the row under a selector changes now or
\* not at all.
LEMMA ChangesNow ==
    ASSUME CacheInv, [Next]_vars, NEW s \in Selectors
    PROVE  /\ clock \in Nat /\ clock' \in Nat /\ clock <= clock'
           /\ changedAt[s] \in Int /\ changedAt'[s] \in Int
           /\ changedAt[s] <= changedAt'[s] /\ changedAt'[s] <= clock
           /\ RowOf(s)' # RowOf(s) => changedAt'[s] = clock
<1>1. /\ clock \in Nat /\ clock' \in Nat /\ clock <= clock'
      /\ changedAt[s] \in Int /\ changedAt'[s] \in Int
  BY TimePasses, RowsMove DEF CacheInv, CacheShape
<1>2. changedAt[s] <= clock
  BY DEF CacheInv, EntriesRecent
<1>3. RowMoves(s)
  BY RowsMove DEF CacheInv
<1> QED BY <1>1, <1>2, <1>3 DEF RowMoves

\* What a lookup has that the database has not changed while it was there.
LEMMA LookupsRecent ==
    ASSUME CacheInv, [Next]_vars, NEW t \in Tasks
    PROVE  /\ task'[t].pc \in {"reading", "filling"} =>
                task'[t].since <= clock' /\ clock' <= task'[t].since + ReadTime
           /\ task'[t].pc = "filling" /\ task'[t].row # RowOf(task[t].selector)' =>
                task'[t].since <= changedAt'[task'[t].selector]
<1> USE CredentialsAssumption
<1>0. /\ task[t] \in Call /\ Right(task[t]) /\ CallStep(t)
      /\ task'[t] \in Call /\ Right(task'[t])
      /\ clock \in Nat /\ clock' \in Nat /\ clock <= clock' /\ ReadTime \in Nat
  <2>1. CacheShape
    BY DEF CacheInv
  <2>2. CallStep(t)
    BY <2>1, StepCalls DEF Calls
  <2>3. clock \in Nat /\ clock' \in Nat /\ clock <= clock'
    BY <2>1, TimePasses DEF CacheShape
  <2> QED BY <2>1, <2>2, <2>3, ShapeCall DEF CallStep
<1>1. /\ task[t].pc \in {"reading", "filling"} =>
           task[t].since <= clock /\ clock <= task[t].since + ReadTime
      /\ task[t].pc = "filling" /\ task[t].row # RowOf(task[t].selector) =>
           task[t].since <= changedAt[task[t].selector]
  BY DEF CacheInv, EntriesRecent
<1>2. task[t].since \in Nat /\ task'[t].since \in Nat
  BY <1>0 DEF Call
<1>3. task[t].pc \in {"reading", "filling"} => clock' <= task[t].since + ReadTime
  BY <1>0, <1>1, <1>2, TimePasses DEF CacheInv
<1>4. ASSUME task'[t].pc = "filling", task[t].pc = "filling",
             task'[t].selector = task[t].selector, task'[t].row = task[t].row,
             task'[t].since = task[t].since, task'[t].row # RowOf(task[t].selector)'
      PROVE  task'[t].since <= changedAt'[task'[t].selector]
  <2>1. PICK s \in Selectors : s = task[t].selector
    BY <1>0, <1>4 DEF Right
  <2>2. /\ changedAt[s] \in Int /\ changedAt'[s] \in Int
        /\ changedAt[s] <= changedAt'[s]
        /\ RowOf(s)' # RowOf(s) => changedAt'[s] = clock
    BY ChangesNow
  <2>3. task[t].since <= clock
    BY <1>1, <1>4
  <2>4. task[t].row # RowOf(s) => task[t].since <= changedAt[s]
    BY <1>1, <1>4, <2>1
  <2>5. task[t].row # RowOf(s)'
    BY <1>4, <2>1 DEF RowOf
  <2>6. task[t].since <= changedAt'[s]
    BY <1>2, <2>2, <2>3, <2>4, <2>5
  <2> QED BY <1>4, <2>1, <2>6
<1>5. CASE task'[t] = task[t]
  <2>1. task[t].since <= clock => task[t].since <= clock'
    BY <1>0, <1>2
  <2> QED BY <1>1, <1>3, <1>4, <1>5, <2>1
<1>6. CASE task'[t].pc = "reading" /\ task'[t].since = clock /\ clock' = clock
  BY <1>0, <1>6
<1>7. CASE /\ task[t].pc = "reading" /\ UNCHANGED <<identity, clock>>
           /\ task'[t] = [task[t] EXCEPT !.pc = "filling", !.row = RowOf(task[t].selector)]
  <2>1. /\ task'[t].since = task[t].since /\ task'[t].row = RowOf(task[t].selector)
        /\ task'[t].selector = task[t].selector
    BY <1>0, <1>7 DEF Call
  <2>3. task'[t].row = RowOf(task[t].selector)'
    BY <1>7, <2>1 DEF RowOf, identity
  <2> QED BY <1>0, <1>1, <1>3, <1>7, <2>1, <2>3
<1>8. CASE task[t].pc = "filling" /\ task'[t] = [task[t] EXCEPT !.late = TRUE]
  <2>1. /\ task'[t].since = task[t].since /\ task'[t].row = task[t].row
        /\ task'[t].selector = task[t].selector /\ task'[t].pc = task[t].pc
    BY <1>0, <1>8 DEF Call
  <2>2. task[t].since <= clock => task[t].since <= clock'
    BY <1>0, <1>2
  <2> QED BY <1>1, <1>3, <1>4, <1>8, <2>1, <2>2
<1> QED BY <1>0, <1>5, <1>6, <1>7, <1>8 DEF CallStep

\* What a cache has that the database has not was put there soon after.
LEMMA CachesRecent ==
    ASSUME CacheInv, [Next]_vars, NEW i \in Instances, NEW s \in Selectors, cache'[i][s] # None
    PROVE  /\ cache'[i][s].at <= clock'
           /\ cache'[i][s].row # RowOf(s)' => cache'[i][s].at <= changedAt'[s] + ReadTime
<1> USE CredentialsAssumption
<1>0. /\ clock \in Nat /\ clock' \in Nat /\ clock <= clock' /\ ReadTime \in Nat
      /\ changedAt[s] \in Int /\ changedAt'[s] \in Int
      /\ changedAt[s] <= changedAt'[s]
      /\ RowOf(s)' # RowOf(s) => changedAt'[s] = clock
  BY ChangesNow
<1>1. CASE cache'[i][s] = cache[i][s]
  <2>1. /\ cache[i][s].at <= clock
        /\ cache[i][s].row # RowOf(s) => cache[i][s].at <= changedAt[s] + ReadTime
    BY <1>1 DEF CacheInv, EntriesRecent
  <2>2. cache[i][s].at \in Nat
    BY <1>1 DEF CacheInv, CacheShape, Entry
  <2>3. cache[i][s].row # RowOf(s)' => cache[i][s].at <= changedAt'[s] + ReadTime
    BY <1>0, <2>1, <2>2
  <2>4. cache[i][s].at <= clock'
    BY <1>0, <2>1, <2>2
  <2> QED BY <1>1, <2>3, <2>4
<1>2. ASSUME NEW t \in Tasks, task[t].pc = "filling", task[t].inst = i, task[t].selector = s,
             cache'[i][s] = [at |-> clock, row |-> task[t].row, late |-> task[t].late],
             UNCHANGED <<clock, identity>>
      PROVE  /\ cache'[i][s].at <= clock'
             /\ cache'[i][s].row # RowOf(s)' => cache'[i][s].at <= changedAt'[s] + ReadTime
  <2>1. /\ task[t].since <= clock /\ clock <= task[t].since + ReadTime
        /\ task[t].row # RowOf(s) => task[t].since <= changedAt[s]
    BY <1>2 DEF CacheInv, EntriesRecent
  <2>2. RowOf(s)' = RowOf(s) /\ changedAt'[s] = changedAt[s]
    BY <1>2 DEF RowOf, identity
  <2>3. task[t].since \in Nat
    BY ShapeCall DEF CacheInv, Call
  <2>4. cache'[i][s].at = clock /\ cache'[i][s].row = task[t].row
    BY <1>2
  <2>5. task[t].row # RowOf(s)' => clock <= changedAt'[s] + ReadTime
    BY <1>0, <2>1, <2>2, <2>3
  <2> QED BY <1>0, <2>4, <2>5
<1>3. EntryMoves(i, s)
  BY EntriesMove DEF CacheInv
<1> QED BY <1>1, <1>2, <1>3 DEF EntryMoves

LEMMA RecentNext ==
    ASSUME CacheInv, [Next]_vars
    PROVE  EntriesRecent'
<1>1. ASSUME NEW s \in Selectors PROVE changedAt'[s] <= clock'
  BY ChangesNow
<1> QED BY <1>1, LookupsRecent, CachesRecent DEF EntriesRecent

LEMMA AbsentNext ==
    ASSUME CacheInv, [Next]_vars
    PROVE  AbsentKnown'
<1> SUFFICES ASSUME account' = Absent, NEW i \in Instances, NEW s \in AccountSelectors,
                    NEW row \in Rows, Holds(i, s, row)'
             PROVE  row = Absent
  BY DEF AbsentKnown, Rows
<1>1. account = Absent /\ s \in Selectors
  BY RowsMove DEF CacheInv, Selectors
<1>2. Holds(i, s, row) \/ row = RowOf(s)
  BY <1>1, HoldsMove DEF CacheInv
<1>3. Holds(i, s, row) => row = Absent
  BY <1>1 DEF CacheInv, AbsentKnown
<1>4. RowOf(s) = Absent
  BY <1>1 DEF RowOf, AccountSelectors
<1> QED BY <1>2, <1>3, <1>4

\* A row that changes has the revocation or sign-out that changed it to cause
\* what is held of it, or was not there at all.
LEMMA CausesNext ==
    ASSUME CacheInv, [Next]_vars
    PROVE  CausesThere'
<1> SUFFICES ASSUME NEW i \in Instances, NEW s \in Selectors, NEW row \in Rows,
                    Holds(i, s, row)', row # RowOf(s)', row # Absent
             PROVE  Cause(i, s)'
  BY DEF CausesThere, Rows
<1>0. CacheShape
  BY DEF CacheInv
<1>1. Holds(i, s, row) \/ (row = RowOf(s) /\ UNCHANGED identity)
  BY <1>0, HoldsMove
<1>2. ~(row = RowOf(s) /\ UNCHANGED identity)
  BY DEF RowOf, identity
<1>3. Holds(i, s, row)
  BY <1>1, <1>2
<1>4. CASE RowOf(s)' = RowOf(s)
  <2>1. Cause(i, s)
    BY <1>3, <1>4 DEF CacheInv, CausesThere
  <2>2. Cause(i, s)' \/ Settled(i, s)
    BY <1>0, <2>1, CauseMoves
  <2>3. ~Settled(i, s)
    BY SettledHoldsNothing
  <2> QED BY <2>2, <2>3
<1>5. CASE RowOf(s)' # RowOf(s)
  <2>1. Changed(s)
    BY <1>0, <1>5, RowsMove DEF RowMoves
  <2>2. CASE account = Absent /\ s \in AccountSelectors
    BY <1>3, <2>2 DEF CacheInv, AbsentKnown
  <2>3. ASSUME NEW t \in Tasks, task'[t].pc = "publishing", task'[t].op \in {"revoke", "signOut"},
               s \in Invalidated(t)'
        PROVE  Cause(i, s)'
    BY <2>3 DEF Cause
  <2> QED BY <2>1, <2>2, <2>3 DEF Changed
<1> QED BY <1>4, <1>5

LEMMA CacheInvNext == CacheInv /\ [Next]_vars => CacheInv'
<1> SUFFICES ASSUME CacheInv, [Next]_vars PROVE CacheInv'
  OBVIOUS
<1>1. CacheShape
  BY DEF CacheInv
<1> QED BY <1>1, ShapeNext, RecentNext, AbsentNext, CausesNext DEF CacheInv

LEMMA CacheInvInit == Init => CacheInv
<1> SUFFICES ASSUME Init PROVE CacheInv
  OBVIOUS
<1> USE CredentialsAssumption
<1>1. /\ clock = 0 /\ account \in {Absent, Live} /\ validAfter = 0 /\ notices = << >>
      /\ changedAt = [s \in Selectors |-> -MaxClock]
      /\ cache = [i \in Instances |-> [s \in Selectors |-> None]]
      /\ watcher = [i \in Instances |-> Watcher(1, TRUE)]
      /\ task = [t \in Tasks |-> Idle]
  BY DEF Init
<1>2. Idle \in Call /\ Right(Idle) /\ Idle.pc = "new"
  BY IdleIs DEF Right, Ended
<1>3. \A t \in Tasks : task[t] = Idle /\ task[t].pc = "new"
  BY <1>1, <1>2
<1>4. \A i \in Instances, s \in Selectors : cache[i][s] = None
  BY <1>1
<1>5. Watcher(1, TRUE) \in Watchers /\ Watcher(1, TRUE).next = 1 /\ Watcher(1, TRUE).token = 0
  BY DEF Watcher, Watchers
<1>6. watcher \in [Instances -> Watchers] /\ \A i \in Instances : watcher[i] = Watcher(1, TRUE)
  BY <1>1, <1>5
<1>7. \A i \in Instances, s \in Selectors, row \in Rows : ~Holds(i, s, row)
  BY <1>3, <1>4 DEF Holds
<1>8. CacheShape
  <2>1. changedAt \in [Selectors -> Int]
    BY <1>1
  <2>2. cache \in [Instances -> [Selectors -> Entry \cup {None}]]
    BY <1>1
  <2>3. \A i \in Instances :
           /\ 1 <= watcher[i].next /\ watcher[i].next <= Len(notices) + 1
           /\ watcher[i].token # 0 => watcher[i].next = watcher[i].token + 1
    <3>1. Len(notices) = 0
      BY <1>1
    <3>2. ASSUME NEW i \in Instances PROVE watcher[i].next = 1 /\ watcher[i].token = 0
      BY <1>5, <1>6
    <3>3. 1 <= 1 /\ 1 <= Len(notices) + 1
      BY <3>1
    <3> QED BY <3>2, <3>3
  <2>4. task \in [Tasks -> Call] /\ \A t \in Tasks : Right(task[t])
    BY <1>1, <1>2
  <2>5. notices \in Seq(Notice)
    BY <1>1
  <2> QED BY <1>1, <1>6, <2>1, <2>2, <2>3, <2>4, <2>5 DEF CacheShape, Watchers
<1>9. EntriesRecent
  BY <1>1, <1>3, <1>4 DEF EntriesRecent
<1>10. AbsentKnown /\ CausesThere
  BY <1>7 DEF AbsentKnown, CausesThere, Selectors
<1> QED BY <1>8, <1>9, <1>10 DEF CacheInv

\* The caches have their types, what they have that the database has not is
\* no older than a lookup, and it has a cause.
THEOREM CacheInvariant == Spec => []CacheInv
BY CacheInvInit, CacheInvNext, PTL DEF Spec

\* What a process remembers of a revoked account or of a user signed out has
\* its invalidation on the way, was put there by a lookup the invalidation
\* overtook, or is excused (publish_credential_event, watch_credential_events).
THEOREM StaleEntriesHaveCauses == Spec => []StaleHasCause
<1>1. CacheInv => StaleHasCause
  <2> SUFFICES ASSUME CacheInv, NEW i \in Instances, NEW s \in Selectors, Stale(i, s),
                      ~cache[i][s].late
               PROVE  Cause(i, s)
    BY DEF StaleHasCause, Excused, Cause
  <2>1. cache[i][s] # None /\ cache[i][s].row # RowOf(s) /\ cache[i][s].row # Absent
    BY DEF Stale
  <2>2. cache[i][s].row \in Rows
    BY <2>1 DEF CacheInv, CacheShape, Entry
  <2>3. Holds(i, s, cache[i][s].row)
    BY <2>1 DEF Holds
  <2> QED BY <2>1, <2>2, <2>3 DEF CacheInv, CausesThere
<1> QED BY <1>1, CacheInvariant, PTL


-----------------------------------------------------------------------------
(* Decisions.                                                              *)

\* A call is judged when it asks and the cache knows, or when its lookup has
\* its answer.
LEMMA JudgedHow ==
    ASSUME CacheShape, [Next]_vars, NEW t \in Tasks, IsJudged(t)
    PROVE  \/ Fill(t)
           \/ \E i \in Instances : \E c : Asking(c, i) /\ Ask(t, c)
<1>0. /\ task \in [Tasks -> Call] /\ Right(task[t]) /\ task[t] \in Call
      /\ task[t].pc \in {"new", "filling"}
      /\ task'[t].pc \in {"accepted", "denied", "notOurs", "spending"}
      /\ task'[t].selector # None /\ task'[t].pc # task[t].pc
  BY DEF IsJudged, CacheShape
<1>1. task'[t] # task[t]
  BY <1>0
<1>2. ASSUME NEW u \in Tasks, NEW i \in Instances, Arrives(u, i)
      PROVE  \E c : Asking(c, i) /\ Ask(t, c)
  <2>1. ASSUME NEW c, Asking(c, i), Ask(u, c) PROVE u = t
    <3>1. \E d : task' = [task EXCEPT ![u] = d]
      BY <2>1 DEF Ask
    <3> QED BY <1>0, <1>1, <3>1
  <2>2. ASSUME NEW s \in Sessions, AskRefresh(u, i, s) PROVE FALSE
    <3> DEFINE c == [Idle EXCEPT !.pc = "loading", !.op = "refresh", !.inst = i, !.session = s]
    <3>1. task' = [task EXCEPT ![u] = c] /\ c.pc = "loading"
      BY <2>2 DEF AskRefresh, Idle
    <3> HIDE DEF c
    <3>2. task'[t] = c
      BY <1>0, <1>1, <3>1
    <3> QED BY <1>0, <3>1, <3>2
  <2>3. ASSUME NEW op \in {"revoke", "signOut", "create"}, Administer(u, op, i) PROVE FALSE
    <3> DEFINE c == [Idle EXCEPT !.pc = op, !.op = op, !.inst = i, !.authTime = clock + 1]
    <3>1. task' = [task EXCEPT ![u] = c] /\ c.pc = op
      BY <2>3 DEF Administer, Idle
    <3> HIDE DEF c
    <3>2. task'[t] = c
      BY <1>0, <1>1, <3>1
    <3> QED BY <1>0, <3>1, <3>2
  <2> QED BY <1>2, <2>1, <2>2, <2>3, ArrivesHow
<1>3. ASSUME NEW u \in Tasks,
             \/ ReadRow(u) \/ Spend(u) \/ LoadSession(u) \/ Issue(u) \/ StoreSession(u)
             \/ DiscardSession(u) \/ CreateAccount(u) \/ RevokeAccount(u)
             \/ EndSessions(u) \/ SetValidAfter(u) \/ PublishNotice(u)
      PROVE  FALSE
  <2>1. \E c : task' = [task EXCEPT ![u] = c]
    BY <1>3 DEF ReadRow, Spend, LoadSession, Issue, StoreSession, DiscardSession, CreateAccount,
                RevokeAccount, EndSessions, SetValidAfter, PublishNotice, Goto
  <2>2. task[u].pc \notin {"new", "filling"}
    BY <1>3 DEF ReadRow, Spend, LoadSession, Issue, StoreSession, DiscardSession, CreateAccount,
                RevokeAccount, EndSessions, SetValidAfter, PublishNotice
  <2> QED BY <1>0, <1>1, <2>1, <2>2
<1>4. ASSUME NEW u \in Tasks, Fill(u) PROVE u = t
  <2>1. \E c : task' = [task EXCEPT ![u] = c]
    BY <1>4 DEF Fill
  <2> QED BY <1>0, <1>1, <2>1
<1>5. ASSUME NEW u \in Tasks, ForgetOwn(u) PROVE FALSE
  <2> DEFINE over == Overtaken(task[u].inst, Invalidated(u))
  <2>1. task' = [over EXCEPT ![u].pc = "done"] /\ task[u].pc = "forgetting"
    BY <1>5 DEF ForgetOwn
  <2>2. over = [v \in Tasks |-> over[v]]
    BY DEF Overtaken
  <2>3. over[t].pc = task[t].pc
    BY OvertakenPlace
  <2> HIDE DEF over
  <2>4. t # u
    BY <1>0, <2>1
  <2>5. task'[t] = over[t]
    BY <2>1, <2>2, <2>4
  <2> QED BY <1>0, <2>3, <2>5
<1>6. ASSUME NEW i \in Instances, WatchTakes(i) \/ WatchOpens(i) \/ Crash(i) PROVE FALSE
  <2>1. CASE WatchTakes(i)
    <3>1. task' = task \/ task' = Overtaken(i, notices[watcher[i].next].selectors)
      BY <2>1 DEF WatchTakes
    <3>2. Overtaken(i, notices[watcher[i].next].selectors)[t].pc = task[t].pc
      BY OvertakenPlace
    <3> QED BY <1>0, <3>1, <3>2
  <2>2. CASE WatchOpens(i)
    <3>1. task' = task
      BY <2>2 DEF WatchOpens
    <3> QED BY <1>1, <3>1
  <2>3. CASE Crash(i)
    <3>1. task'[t] = task[t] \/ task'[t] = [task[t] EXCEPT !.pc = "gone"]
      BY <2>3 DEF Crash
    <3> QED BY <1>0, <1>1, <3>1 DEF Call
  <2> QED BY <1>6, <2>1, <2>2, <2>3
<1>7. ASSUME (\E a \in Assertions : ReapSpent(a)) \/ Tick \/ UNCHANGED vars PROVE FALSE
  <2>1. task' = task
    BY <1>7 DEF ReapSpent, Tick, vars
  <2> QED BY <1>1, <2>1
<1> QED BY <1>2, <1>3, <1>4, <1>5, <1>6, <1>7 DEF Next, Step

\* Judging what was judged by the same row says the same.
LEMMA JudgedAgain ==
    ASSUME NEW c \in Call, NEW row
    PROVE  Judged(Judged(c, row), row).pc = Judged(c, row).pc
<1> DEFINE verdict(d) ==
             CASE d.op = "identity" -> IF d.authTime < row THEN "denied" ELSE "accepted"
               [] row = Revoked -> "denied"
               [] row = Absent -> IF d.op = "assertion" THEN "notOurs" ELSE "denied"
               [] d.op = "access" -> "accepted"
               [] clock > AssertionEnd + Leeway -> "denied"
               [] d.op = "assertion" -> "accepted"
               [] OTHER -> "spending"
<1>1. \A d \in Call : Judged(d, row).pc = verdict(d)
  BY DEF Judged, Call
<1>2. Judged(c, row) \in Call /\ Judged(c, row).op = c.op /\ Judged(c, row).authTime = c.authTime
  BY JudgedCall
<1>3. verdict(Judged(c, row)) = verdict(c)
  BY <1>2
<1> HIDE DEF verdict
<1> QED BY <1>1, <1>2, <1>3

\* The whole of DecisionsRecent, of one step.
LEMMA RecentStep ==
    ASSUME CacheInv, [Next]_vars, AccountTTL > 0, NEW t \in Tasks, IsJudged(t),
           task'[t].op = "identity" => CheckRevoked
    PROVE  \/ RightNow(t)
           \/ clock < changedAt[task'[t].selector] + AccountTTL + ReadTime
<1> USE CredentialsAssumption
<1>0. CacheShape /\ clock \in Nat /\ AccountTTL \in Nat /\ ReadTime \in Nat
  BY DEF CacheInv, CacheShape
<1>1. ASSUME NEW c \in Call, NEW row, task'[t] = Judged(c, row), row = RowOf(c.selector)
      PROVE  RightNow(t)
  BY <1>1, JudgedAgain, JudgedCall DEF RightNow
<1>2. CASE Fill(t)
  <2>1. task[t].pc = "filling" /\ task' = [task EXCEPT ![t] = Judged(task[t], task[t].row)]
    BY <1>2 DEF Fill
  <2>2. task[t] \in Call /\ task[t].selector \in Selectors /\ task[t].since \in Nat
    BY <1>0, <2>1, ShapeCall DEF Right, Call
  <2>3. task'[t] = Judged(task[t], task[t].row) /\ task'[t].selector = task[t].selector
    BY <1>0, <2>1, <2>2, JudgedCall DEF CacheShape
  <2>4. CASE task[t].row = RowOf(task[t].selector)
    BY <1>1, <2>2, <2>3, <2>4
  <2>5. CASE task[t].row # RowOf(task[t].selector)
    <3>1. task[t].since <= changedAt[task[t].selector] /\ clock <= task[t].since + ReadTime
      BY <2>1, <2>5 DEF CacheInv, EntriesRecent
    <3>2. changedAt[task[t].selector] \in Int
      BY <1>0, <2>2 DEF CacheShape
    <3>3. clock < changedAt[task[t].selector] + AccountTTL + ReadTime
      BY <1>0, <2>2, <3>1, <3>2
    <3> QED BY <2>3, <3>3
  <2> QED BY <2>4, <2>5
<1>3. ASSUME NEW i \in Instances, NEW c, Asking(c, i), Ask(t, c)
      PROVE  \/ RightNow(t)
             \/ clock < changedAt[task'[t].selector] + AccountTTL + ReadTime
  <2>1. c \in Call /\ c.inst = i /\ c.selector \in Selectors
    BY <1>0, <1>3, AskingCalls
  <2> DEFINE row == cache[c.inst][c.selector].row
  <2>2. task'[t] =
         IF c.op = "identity" /\ ~CheckRevoked THEN [c EXCEPT !.pc = "accepted"]
         ELSE IF Hit(c.inst, c.selector) THEN Judged(c, row)
              ELSE [c EXCEPT !.pc = "reading", !.since = clock]
    BY <1>0, <1>3 DEF Ask, CacheShape
  <2>3. ~(c.op = "identity" /\ ~CheckRevoked)
    <3> SUFFICES ASSUME c.op = "identity", ~CheckRevoked PROVE FALSE
      OBVIOUS
    <3>1. task'[t].op = "identity"
      BY <2>1, <2>2 DEF Call
    <3> QED BY <3>1
  <2>4. Hit(c.inst, c.selector)
    <3> SUFFICES ASSUME ~Hit(c.inst, c.selector) PROVE FALSE
      OBVIOUS
    <3>1. task'[t].pc = "reading"
      BY <2>1, <2>2, <2>3 DEF Call
    <3> QED BY <3>1 DEF IsJudged
  <2>5. task'[t] = Judged(c, row)
    BY <2>2, <2>3, <2>4
  <2>6. task'[t].selector = c.selector
    BY <2>1, <2>5, JudgedCall
  <2>7. CASE row = RowOf(c.selector)
    BY <1>1, <2>1, <2>5, <2>7
  <2>8. CASE row # RowOf(c.selector)
    <3>1. cache[c.inst][c.selector] # None /\ clock - cache[c.inst][c.selector].at < AccountTTL
      BY <2>4 DEF Hit
    <3>2. /\ cache[c.inst][c.selector].at \in Nat
          /\ changedAt[c.selector] \in Int
      BY <1>0, <2>1, <3>1 DEF CacheShape, Entry
    <3>3. cache[c.inst][c.selector].at <= changedAt[c.selector] + ReadTime
      BY <2>1, <2>8, <3>1 DEF CacheInv, EntriesRecent
    <3>4. clock < changedAt[c.selector] + AccountTTL + ReadTime
      BY <1>0, <3>1, <3>2, <3>3
    <3> QED BY <2>6, <3>4
  <2> QED BY <2>7, <2>8
<1> QED BY <1>0, <1>2, <1>3, JudgedHow

\* A decision the database would not make is made no later than the cache
\* lifetime and the time of a lookup after the row changed, on any instance,
\* whatever becomes of its watcher (ACCOUNT_CACHE_TTL).
THEOREM StaleDecisionsEnd ==
    ASSUME AccountTTL > 0
    PROVE  Spec => DecisionsRecent
<1> DEFINE Recent(t) ==
             IsJudged(t) /\ (task'[t].op = "identity" => CheckRevoked) =>
                \/ RightNow(t)
                \/ clock < changedAt[task'[t].selector] + AccountTTL + ReadTime
<1>1. CacheInv /\ [Next]_vars => [\A t \in Tasks : Recent(t)]_vars
  <2> SUFFICES ASSUME CacheInv, [Next]_vars, NEW t \in Tasks PROVE Recent(t)
    OBVIOUS
  <2> QED BY RecentStep
<1>2. Spec => [][\A t \in Tasks : Recent(t)]_vars
  <2> HIDE DEF Recent
  <2> QED BY <1>1, CacheInvariant, PTL DEF Spec
<1> QED BY <1>2, Zenon DEF DecisionsRecent


-----------------------------------------------------------------------------
(* Type correctness.                                                       *)

Waiting == {"reading", "filling", "spending"}

\* A token is dated by the next second at the latest, and a call that comes to
\* spend an assertion has one.
Modest(c, now) ==
    /\ c.authTime <= now + 1
    /\ c.pc \in {"reading", "filling"} /\ c.op \notin {"identity", "access", "assertion"} =>
         c.assertion \in Assertions
    /\ c.pc = "spending" => c.assertion \in Assertions

SessionsTyped ==
    /\ sessions = [s \in Sessions |-> sessions[s]]
    /\ \A s \in Sessions : /\ DOMAIN sessions[s] = {"state", "issued"}
                           /\ sessions[s].state \in {"absent", "live", "revoked"}

TypeInv ==
    /\ clock <= MaxClock /\ validAfter <= clock + 1
    /\ SessionsTyped
    /\ spent \subseteq Assertions
    /\ \A t \in Tasks : Modest(task[t], clock)

\* What keeps a call modest: to be dated as it was, or now, and to wait for
\* nothing it did not wait for.
Follows(c, d) ==
    /\ d.authTime \in {c.authTime, clock} /\ d.assertion = c.assertion /\ d.op = c.op
    /\ d.pc \in Waiting => d.pc = c.pc \/ (d.pc = "filling" /\ c.pc = "reading")

LEMMA FollowsModest ==
    ASSUME NEW c \in Call, NEW d \in Call, NEW now \in Nat, clock \in Nat, clock <= now,
           Modest(c, clock), Follows(c, d)
    PROVE  Modest(d, now)
<1>1. c.authTime \in Nat
  BY DEF Call
<1>2. d.authTime <= now + 1
  BY <1>1 DEF Modest, Follows
<1> QED BY <1>2 DEF Modest, Follows, Waiting

\* Judging sends none to spend but those that bring something to spend.
LEMMA JudgedModest ==
    ASSUME NEW c \in Call, NEW row, Modest(c, clock),
           c.op \notin {"identity", "access", "assertion"} => c.assertion \in Assertions
    PROVE  Modest(Judged(c, row), clock)
<1> DEFINE d == Judged(c, row)
<1>1. d \in Call /\ d.pc \in Verdicts /\ d.op = c.op /\ d.authTime = c.authTime
  BY JudgedCall
<1>2. d.assertion = c.assertion
  BY DEF Judged, Call
<1>3. d.pc = "spending" => c.op \notin {"identity", "access", "assertion"}
  BY DEF Judged, Call
<1> HIDE DEF d
<1>4. Modest(d, clock)
  BY <1>1, <1>2, <1>3 DEF Modest, Verdicts
<1> QED BY <1>4 DEF d

\* One call moves.
LEMMA OneModest ==
    ASSUME CacheShape, TypeInv, NEW t \in Tasks, NEW c, task' = [task EXCEPT ![t] = c],
           Modest(c, clock), clock' = clock
    PROVE  \A u \in Tasks : Modest(task'[u], clock')
<1>1. \A u \in Tasks : task'[u] = IF u = t THEN c ELSE task[u]
  BY DEF CacheShape
<1> QED BY <1>1 DEF TypeInv

\* A call that goes on as it is.
LEMMA FollowsOne ==
    ASSUME CacheShape, TypeInv, NEW t \in Tasks, NEW c \in Call, task' = [task EXCEPT ![t] = c],
           Follows(task[t], c), clock' = clock
    PROVE  \A u \in Tasks : Modest(task'[u], clock')
<1>1. clock \in Nat /\ clock <= clock /\ task[t] \in Call /\ Modest(task[t], clock)
  BY ShapeCall DEF TypeInv, CacheShape
<1>2. Modest(c, clock)
  BY <1>1, FollowsModest
<1> QED BY <1>2, OneModest

LEMMA GotoModest ==
    ASSUME CacheShape, TypeInv, NEW t \in Tasks, NEW pc \in Places, Goto(t, pc),
           pc \notin Waiting, clock' = clock
    PROVE  \A u \in Tasks : Modest(task'[u], clock')
<1> DEFINE c == [task[t] EXCEPT !.pc = pc]
<1>1. c \in Call /\ c.pc = pc /\ c.authTime = task[t].authTime /\ c.op = task[t].op
      /\ c.assertion = task[t].assertion
  BY ShapeCall DEF Call
<1>2. task' = [task EXCEPT ![t] = c]
  BY DEF Goto
<1> HIDE DEF c
<1>3. Follows(task[t], c)
  BY <1>1 DEF Follows
<1> QED BY <1>1, <1>2, <1>3, FollowsOne

LEMMA AskingModest ==
    ASSUME CacheShape, TypeInv, NEW i \in Instances, NEW c, Asking(c, i)
    PROVE  /\ Modest(c, clock)
           /\ c.op \notin {"identity", "access", "assertion"} => c.assertion \in Assertions
<1>0. Idle \in Call /\ Idle.pc = "new" /\ Idle.authTime = 0 /\ clock \in Nat
  BY IdleIs DEF Idle, CacheShape
<1>1. \A at \in AuthTimes : at \in Nat /\ at <= clock + 1
  <2> TAKE at \in AuthTimes
  <2>1. CASE at = 0
    BY <1>0, <2>1
  <2>2. ASSUME NEW u \in Tasks, at = task[u].authTime PROVE at \in Nat /\ at <= clock + 1
    BY <2>2, ShapeCall DEF TypeInv, Modest, Call
  <2> QED BY <2>1, <2>2 DEF AuthTimes
<1>2. CASE c = [Idle EXCEPT !.op = "access", !.inst = i, !.selector = "email"]
  <2>1. c.op = "access" /\ c.authTime = 0 /\ c.pc = "new"
    BY <1>0, <1>2 DEF Call
  <2> QED BY <1>0, <2>1 DEF Modest
<1>3. ASSUME NEW s \in Routes, c = [Idle EXCEPT !.op = "assertion", !.inst = i, !.selector = s]
      PROVE  /\ Modest(c, clock)
             /\ c.op \notin {"identity", "access", "assertion"} => c.assertion \in Assertions
  <2>1. c.op = "assertion" /\ c.authTime = 0 /\ c.pc = "new"
    BY <1>0, <1>3 DEF Call
  <2> QED BY <1>0, <2>1 DEF Modest
<1>4. ASSUME NEW s \in Routes, NEW op \in {"exchange", "signIn"}, NEW a \in Assertions,
             c = [Idle EXCEPT !.op = op, !.inst = i, !.selector = s, !.assertion = a]
      PROVE  /\ Modest(c, clock)
             /\ c.op \notin {"identity", "access", "assertion"} => c.assertion \in Assertions
  <2>1. c.assertion = a /\ c.authTime = 0 /\ c.pc = "new"
    BY <1>0, <1>4 DEF Call
  <2> QED BY <1>0, <2>1 DEF Modest
<1>5. ASSUME NEW at \in AuthTimes,
             c = [Idle EXCEPT !.op = "identity", !.inst = i, !.selector = "uid", !.authTime = at]
      PROVE  /\ Modest(c, clock)
             /\ c.op \notin {"identity", "access", "assertion"} => c.assertion \in Assertions
  <2>1. c.op = "identity" /\ c.authTime = at /\ c.pc = "new"
    BY <1>0, <1>5 DEF Call
  <2> QED BY <1>1, <2>1 DEF Modest
<1> QED BY <1>2, <1>3, <1>4, <1>5 DEF Asking

LEMMA ArrivesModest ==
    ASSUME CacheShape, TypeInv, NEW t \in Tasks, NEW i \in Instances, Arrives(t, i)
    PROVE  \A u \in Tasks : Modest(task'[u], clock')
<1>0. clock \in Nat /\ clock' = clock
  BY ArrivesQuietly DEF Quietly, CacheShape
<1>1. ASSUME NEW c, Asking(c, i), Ask(t, c)
      PROVE  \A u \in Tasks : Modest(task'[u], clock')
  <2> DEFINE row == cache[c.inst][c.selector].row
  <2>1. c \in Call /\ Modest(c, clock)
        /\ (c.op \notin {"identity", "access", "assertion"} => c.assertion \in Assertions)
    BY <1>1, AskingCalls, AskingModest
  <2>2. Modest(Judged(c, row), clock)
    BY <2>1, JudgedModest
  <2>3. Modest([c EXCEPT !.pc = "accepted"], clock)
    BY <2>1 DEF Modest, Call
  <2>4. Modest([c EXCEPT !.pc = "reading", !.since = clock], clock)
    BY <2>1 DEF Modest, Call
  <2>5. \E d : task' = [task EXCEPT ![t] = d] /\ Modest(d, clock)
    BY <1>1, <2>2, <2>3, <2>4 DEF Ask
  <2> QED BY <1>0, <2>5, OneModest
<1>2. ASSUME NEW s \in Sessions, AskRefresh(t, i, s)
      PROVE  \A u \in Tasks : Modest(task'[u], clock')
  <2> DEFINE c == [Idle EXCEPT !.pc = "loading", !.op = "refresh", !.inst = i, !.session = s]
  <2>1. task' = [task EXCEPT ![t] = c] /\ c.pc = "loading" /\ c.authTime = 0
    BY <1>2 DEF AskRefresh, Idle
  <2> HIDE DEF c
  <2>2. Modest(c, clock)
    BY <1>0, <2>1 DEF Modest
  <2> QED BY <1>0, <2>1, <2>2, OneModest
<1>3. ASSUME NEW op \in {"revoke", "signOut", "create"}, Administer(t, op, i)
      PROVE  \A u \in Tasks : Modest(task'[u], clock')
  <2> DEFINE c == [Idle EXCEPT !.pc = op, !.op = op, !.inst = i, !.authTime = clock + 1]
  <2>1. task' = [task EXCEPT ![t] = c] /\ c.pc = op /\ c.authTime = clock + 1
    BY <1>3 DEF Administer, Idle
  <2> HIDE DEF c
  <2>2. Modest(c, clock)
    BY <1>0, <2>1 DEF Modest
  <2> QED BY <1>0, <2>1, <2>2, OneModest
<1> QED BY <1>1, <1>2, <1>3, ArrivesHow

LEMMA OwnModest ==
    ASSUME CacheShape, TypeInv, NEW t \in Tasks, Step(t), ~ForgetOwn(t)
    PROVE  \A u \in Tasks : Modest(task'[u], clock')
<1>0. task[t] \in Call /\ Right(task[t]) /\ clock \in Nat /\ Modest(task[t], clock)
  BY ShapeCall DEF CacheShape, TypeInv
<1>1. CASE ReadRow(t)
  <2> DEFINE c == [task[t] EXCEPT !.pc = "filling", !.row = RowOf(task[t].selector)]
  <2>1. task[t].pc = "reading" /\ task' = [task EXCEPT ![t] = c] /\ clock' = clock
    BY <1>1 DEF ReadRow
  <2>2. c.pc = "filling" /\ c.authTime = task[t].authTime /\ c.op = task[t].op
        /\ c.assertion = task[t].assertion
    BY <1>0 DEF Call
  <2> HIDE DEF c
  <2>3. Modest(c, clock)
    BY <1>0, <2>1, <2>2 DEF Modest
  <2> QED BY <2>1, <2>3, OneModest
<1>2. CASE Fill(t)
  <2>1. task[t].pc = "filling" /\ task' = [task EXCEPT ![t] = Judged(task[t], task[t].row)]
        /\ clock' = clock
    BY <1>2 DEF Fill
  <2>2. Modest(Judged(task[t], task[t].row), clock)
    BY <1>0, <2>1, JudgedModest DEF Modest
  <2> QED BY <2>1, <2>2, OneModest
<1>3. CASE Spend(t)
  <2>1. CASE Goto(t, "denied")
    BY <1>3, <2>1, GotoModest DEF Spend, Places, Ended, Waiting
  <2>2. CASE ~Goto(t, "denied")
    <3> DEFINE pc == IF task[t].op = "exchange" THEN "accepted" ELSE "issuing"
    <3> DEFINE c == [task[t] EXCEPT !.pc = pc, !.claimed = clock]
    <3>1. task' = [task EXCEPT ![t] = c] /\ clock' = clock
      BY <1>3, <2>2 DEF Spend
    <3>2. pc \in {"accepted", "issuing"}
      OBVIOUS
    <3> HIDE DEF pc
    <3>3. c.pc = pc /\ c.authTime = task[t].authTime
      BY <1>0 DEF Call
    <3> HIDE DEF c
    <3>4. Modest(c, clock)
      BY <1>0, <3>2, <3>3 DEF Modest
    <3> QED BY <3>1, <3>4, OneModest
  <2> QED BY <2>1, <2>2
<1>4. CASE Issue(t)
  <2>1. CASE Goto(t, "denied")
    BY <1>4, <2>1, GotoModest DEF Issue, Places, Ended, Waiting
  <2>2. CASE ~Goto(t, "denied")
    <3> DEFINE pc == IF task[t].op = "refresh" /\ Expired(task[t].session)
                     THEN "denied" ELSE "storing"
    <3> DEFINE c == [task[t] EXCEPT !.authTime = clock, !.pc = pc]
    <3>1. task' = [task EXCEPT ![t] = c] /\ clock' = clock
      BY <1>4, <2>2 DEF Issue
    <3>2. pc \in {"denied", "storing"}
      OBVIOUS
    <3> HIDE DEF pc
    <3>3. c.pc = pc /\ c.authTime = clock
      BY <1>0 DEF Call
    <3> HIDE DEF c
    <3>4. Modest(c, clock)
      BY <1>0, <3>2, <3>3 DEF Modest
    <3> QED BY <3>1, <3>4, OneModest
  <2> QED BY <2>1, <2>2
<1>5. CASE LoadSession(t) \/ StoreSession(t) \/ DiscardSession(t) \/ CreateAccount(t)
           \/ RevokeAccount(t) \/ EndSessions(t) \/ SetValidAfter(t) \/ PublishNotice(t)
  <2>1. /\ clock' = clock
        /\ \/ Goto(t, "issuing") \/ Goto(t, "denied") \/ Goto(t, "discarding") \/ Goto(t, "accepted")
           \/ Goto(t, "done") \/ Goto(t, "dating") \/ Goto(t, "publishing") \/ Goto(t, "forgetting")
    BY <1>5 DEF LoadSession, StoreSession, DiscardSession, CreateAccount, RevokeAccount,
                EndSessions, SetValidAfter, PublishNotice
  <2>2. \A pc \in {"issuing", "denied", "discarding", "accepted", "done", "dating",
                   "publishing", "forgetting"} : pc \in Places /\ pc \notin Waiting
    BY DEF Places, Ended, Waiting
  <2> QED BY <2>1, <2>2, GotoModest
<1> QED BY <1>1, <1>2, <1>3, <1>4, <1>5 DEF Step

LEMMA OtherModest ==
    ASSUME CacheShape, TypeInv, [Next]_vars,
           \/ \E t \in Tasks : ForgetOwn(t)
           \/ \E i \in Instances : WatchTakes(i) \/ WatchOpens(i) \/ Crash(i)
           \/ \E a \in Assertions : ReapSpent(a)
           \/ Tick
           \/ UNCHANGED vars
    PROVE  \A u \in Tasks : Modest(task'[u], clock')
<1> TAKE u \in Tasks
<1>0. /\ task[u] \in Call /\ task'[u] \in Call /\ Modest(task[u], clock)
      /\ clock \in Nat /\ clock' \in Nat /\ clock <= clock'
  <2>1. task[u] \in Call /\ task'[u] \in Call
    BY ShapeCall, StepCalls DEF Calls, CallStep
  <2>2. clock \in Nat /\ clock' \in Nat /\ clock <= clock'
    BY TimePasses DEF CacheShape
  <2> QED BY <2>1, <2>2 DEF TypeInv
<1>1. \/ task'[u] = task[u] \/ task'[u] = [task[u] EXCEPT !.late = TRUE]
      \/ \E pc \in {"done", "gone"} : task'[u] = [task[u] EXCEPT !.pc = pc]
  <2>1. ASSUME NEW t \in Tasks, ForgetOwn(t)
        PROVE  \/ task'[u] = task[u] \/ task'[u] = [task[u] EXCEPT !.late = TRUE]
               \/ task'[u] = [task[u] EXCEPT !.pc = "done"]
    <3> DEFINE over == Overtaken(task[t].inst, Invalidated(t))
    <3>1. task' = [over EXCEPT ![t].pc = "done"] /\ task[t].pc = "forgetting"
      BY <2>1 DEF ForgetOwn
    <3>2. over = [v \in Tasks |-> over[v]]
      BY DEF Overtaken
    <3>3. \A v \in Tasks : \/ over[v] = task[v]
                           \/ task[v].pc = "filling" /\ over[v] = [task[v] EXCEPT !.late = TRUE]
      BY OvertakenCall
    <3> HIDE DEF over
    <3>4. CASE u = t
      <4>1. task'[u] = [task[u] EXCEPT !.pc = "done"]
        BY <3>1, <3>2, <3>3, <3>4
      <4> QED BY <4>1
    <3>5. CASE u # t
      <4>1. task'[u] = over[u]
        BY <3>1, <3>2, <3>5
      <4> QED BY <3>3, <4>1
    <3> QED BY <3>4, <3>5
  <2>2. ASSUME NEW i \in Instances, WatchTakes(i)
        PROVE  task'[u] = task[u] \/ task'[u] = [task[u] EXCEPT !.late = TRUE]
    BY <2>2 DEF WatchTakes, Overtaken
  <2>3. ASSUME NEW i \in Instances, Crash(i)
        PROVE  task'[u] = task[u] \/ task'[u] = [task[u] EXCEPT !.pc = "gone"]
    BY <2>3 DEF Crash
  <2>4. ASSUME \/ \E i \in Instances : WatchOpens(i)
               \/ \E a \in Assertions : ReapSpent(a)
               \/ Tick
               \/ UNCHANGED vars
        PROVE  task'[u] = task[u]
    BY <2>4, Zenon DEF WatchOpens, ReapSpent, Tick, vars
  <2> QED BY <2>1, <2>2, <2>3, <2>4
<1>2. Follows(task[u], task'[u])
  BY <1>0, <1>1 DEF Follows, Waiting, Call
<1> QED BY <1>0, <1>2, FollowsModest

LEMMA ModestNext ==
    ASSUME CacheShape, TypeInv, [Next]_vars
    PROVE  \A u \in Tasks : Modest(task'[u], clock')
BY ArrivesModest, OwnModest, OtherModest DEF Next

LEMMA SessionsNext ==
    ASSUME CacheShape, TypeInv, [Next]_vars
    PROVE  SessionsTyped'
<1>0. SessionsTyped
  BY DEF TypeInv
<1>1. ASSUME sessions' = sessions PROVE SessionsTyped'
  BY <1>0, <1>1 DEF SessionsTyped
<1>2. ASSUME NEW t \in Tasks, StoreSession(t) PROVE SessionsTyped'
  <2> DEFINE r == [state |-> "live", issued |-> task[t].authTime]
  <2>1. sessions' = [sessions EXCEPT ![t] = r]
    BY <1>2 DEF StoreSession
  <2>2. DOMAIN r = {"state", "issued"} /\ r.state = "live"
    OBVIOUS
  <2> HIDE DEF r
  <2> QED BY <1>0, <2>1, <2>2 DEF SessionsTyped
<1>3. ASSUME NEW t \in Tasks, DiscardSession(t) PROVE SessionsTyped'
  <2> DEFINE r == [sessions[t] EXCEPT !.state = "revoked"]
  <2>1. sessions' = [sessions EXCEPT ![t] = r]
    BY <1>3 DEF DiscardSession
  <2>2. DOMAIN r = {"state", "issued"} /\ r.state = "revoked"
    BY <1>0 DEF SessionsTyped, Sessions
  <2> HIDE DEF r
  <2> QED BY <1>0, <2>1, <2>2 DEF SessionsTyped
<1>4. ASSUME NEW t \in Tasks, EndSessions(t) PROVE SessionsTyped'
  <2>1. sessions' = [s \in Sessions |->
                      IF sessions[s].state = "live" THEN [sessions[s] EXCEPT !.state = "revoked"]
                      ELSE sessions[s]]
    BY <1>4 DEF EndSessions
  <2>2. ASSUME NEW s \in Sessions
        PROVE  /\ DOMAIN sessions'[s] = {"state", "issued"}
               /\ sessions'[s].state \in {"absent", "live", "revoked"}
    <3>1. DOMAIN sessions[s] = {"state", "issued"}
          /\ sessions[s].state \in {"absent", "live", "revoked"}
      BY <1>0 DEF SessionsTyped
    <3>2. \/ sessions'[s] = sessions[s]
          \/ sessions'[s] = [sessions[s] EXCEPT !.state = "revoked"]
      BY <2>1
    <3> QED BY <3>1, <3>2
  <2>3. sessions' = [s \in Sessions |-> sessions'[s]]
    BY <2>1
  <2> QED BY <2>2, <2>3 DEF SessionsTyped
<1>5. ASSUME NEW t \in Tasks, NEW i \in Instances, Arrives(t, i) PROVE sessions' = sessions
  BY <1>5, ArrivesHow DEF Ask, AskRefresh, Administer, stored
<1>6. ASSUME NEW t \in Tasks,
             \/ ReadRow(t) \/ Fill(t) \/ Spend(t) \/ LoadSession(t) \/ Issue(t) \/ CreateAccount(t)
             \/ RevokeAccount(t) \/ SetValidAfter(t) \/ PublishNotice(t) \/ ForgetOwn(t)
      PROVE  sessions' = sessions
  BY <1>6, Zenon DEF ReadRow, Fill, Spend, LoadSession, Issue, CreateAccount, RevokeAccount,
                     SetValidAfter, PublishNotice, ForgetOwn, stored
<1>7. ASSUME \/ \E i \in Instances : WatchTakes(i) \/ WatchOpens(i) \/ Crash(i)
             \/ \E a \in Assertions : ReapSpent(a)
             \/ Tick
             \/ UNCHANGED vars
      PROVE  sessions' = sessions
  BY <1>7, Zenon DEF WatchTakes, WatchOpens, Crash, ReapSpent, Tick, vars, stored
<1> QED BY <1>1, <1>2, <1>3, <1>4, <1>5, <1>6, <1>7 DEF Next, Step

LEMMA SpentNext ==
    ASSUME CacheShape, TypeInv, [Next]_vars
    PROVE  spent' \subseteq Assertions
<1>1. ASSUME NEW t \in Tasks, Spend(t) PROVE spent' \subseteq Assertions
  <2>1. task[t].assertion \in Assertions
    BY <1>1 DEF Spend, TypeInv, Modest
  <2>2. spent' \subseteq spent \cup {task[t].assertion}
    BY <1>1 DEF Spend
  <2> QED BY <2>1, <2>2 DEF TypeInv
<1>2. ASSUME NEW a \in Assertions, ReapSpent(a) PROVE spent' \subseteq Assertions
  BY <1>2 DEF ReapSpent, TypeInv
<1>3. ASSUME NEW t \in Tasks, NEW i \in Instances, Arrives(t, i) PROVE spent' = spent
  BY <1>3, ArrivesHow DEF Ask, AskRefresh, Administer, stored
<1>4. ASSUME NEW t \in Tasks,
             \/ ReadRow(t) \/ Fill(t) \/ LoadSession(t) \/ Issue(t) \/ StoreSession(t)
             \/ DiscardSession(t) \/ CreateAccount(t) \/ EndSessions(t)
             \/ RevokeAccount(t) \/ SetValidAfter(t) \/ PublishNotice(t) \/ ForgetOwn(t)
      PROVE  spent' = spent
  BY <1>4, Zenon DEF ReadRow, Fill, LoadSession, Issue, StoreSession, DiscardSession, CreateAccount,
                     EndSessions, RevokeAccount, SetValidAfter, PublishNotice, ForgetOwn, stored
<1>5. ASSUME \/ \E i \in Instances : WatchTakes(i) \/ WatchOpens(i) \/ Crash(i)
             \/ Tick
             \/ UNCHANGED vars
      PROVE  spent' = spent
  BY <1>5, Zenon DEF WatchTakes, WatchOpens, Crash, Tick, vars, stored
<1> QED BY <1>1, <1>2, <1>3, <1>4, <1>5 DEF Next, Step, TypeInv

LEMMA ValidAfterNext ==
    ASSUME CacheShape, TypeInv, [Next]_vars
    PROVE  validAfter' <= clock' + 1 /\ clock' <= MaxClock
<1> USE CredentialsAssumption
<1>0. clock \in Nat /\ clock' \in Nat /\ clock <= clock' /\ validAfter \in Nat
      /\ validAfter <= clock + 1 /\ clock <= MaxClock
  BY TimePasses DEF CacheShape, TypeInv
<1>1. clock' <= MaxClock
  <2>1. CASE Tick
    BY <1>0, <2>1 DEF Tick
  <2>2. CASE ~Tick
    <3>1. ASSUME \/ Quietly
                 \/ \E t \in Tasks : \/ Fill(t) \/ ForgetOwn(t) \/ PublishNotice(t)
                                     \/ CreateAccount(t) \/ RevokeAccount(t) \/ SetValidAfter(t)
                 \/ \E i \in Instances : WatchTakes(i) \/ WatchOpens(i) \/ Crash(i)
          PROVE  clock' = clock
      BY <3>1, Zenon DEF Quietly, Fill, ForgetOwn, PublishNotice, CreateAccount, RevokeAccount,
                         SetValidAfter, WatchTakes, WatchOpens, Crash
    <3> QED BY <1>0, <2>2, <3>1, StepKinds
  <2> QED BY <2>1, <2>2
<1>2. ASSUME NEW t \in Tasks, SetValidAfter(t) PROVE validAfter' <= clock + 1
  <2>1. validAfter' = task[t].authTime /\ Modest(task[t], clock)
    BY <1>2 DEF SetValidAfter, TypeInv
  <2> QED BY <2>1 DEF Modest
<1>3. ASSUME \/ Quietly
             \/ \E t \in Tasks : \/ Fill(t) \/ ForgetOwn(t) \/ PublishNotice(t)
                                 \/ CreateAccount(t) \/ RevokeAccount(t)
             \/ \E i \in Instances : WatchTakes(i) \/ WatchOpens(i) \/ Crash(i)
             \/ Tick
      PROVE  validAfter' = validAfter
  BY <1>3, Zenon DEF Quietly, Fill, ForgetOwn, PublishNotice, CreateAccount, RevokeAccount,
                     WatchTakes, WatchOpens, Crash, Tick, stored, identity
<1>4. validAfter' <= clock + 1
  BY <1>0, <1>2, <1>3, StepKinds
<1>5. validAfter' \in Nat
  BY RowsMove
<1>6. \A a, b, c \in Nat : a <= b + 1 /\ b <= c => a <= c + 1
  OBVIOUS
<1>7. validAfter' <= clock' + 1
  BY <1>0, <1>4, <1>5, <1>6
<1> QED BY <1>1, <1>7

LEMMA TypeInvInit == Init => TypeInv
<1> SUFFICES ASSUME Init PROVE TypeInv
  OBVIOUS
<1> USE CredentialsAssumption
<1>1. /\ clock = 0 /\ validAfter = 0 /\ spent = {} /\ task = [t \in Tasks |-> Idle]
      /\ sessions = [s \in Sessions |->
                       [state |-> IF s = FirstSession THEN "live" ELSE "absent", issued |-> 0]]
  BY DEF Init
<1>2. Modest(Idle, 0)
  BY DEF Modest, Idle
<1>3. SessionsTyped
  BY <1>1 DEF SessionsTyped
<1>4. \A t \in Tasks : Modest(task[t], clock)
  BY <1>1, <1>2
<1> QED BY <1>1, <1>3, <1>4 DEF TypeInv

\* Every variable keeps its type, and the caches answer from what was read by
\* now.
THEOREM CredentialsTypeCorrect == Spec => []TypeOK
<1>1. CacheInv /\ TypeInv /\ [Next]_vars => TypeInv'
  <2> SUFFICES ASSUME CacheInv, TypeInv, [Next]_vars PROVE TypeInv'
    OBVIOUS
  <2> QED BY ModestNext, SessionsNext, SpentNext, ValidAfterNext DEF TypeInv, CacheInv
<1>2. Spec => []TypeInv
  BY <1>1, CacheInvariant, TypeInvInit, PTL DEF Spec
<1>3. CacheInv /\ TypeInv => TypeOK
  <2> SUFFICES ASSUME CacheInv, TypeInv PROVE TypeOK
    OBVIOUS
  <2> USE CredentialsAssumption
  <2>1. CacheShape /\ EntriesRecent
    BY DEF CacheInv
  <2>2. clock \in 0 .. MaxClock /\ validAfter \in 0 .. MaxClock + 1
    BY <2>1 DEF CacheShape, TypeInv
  <2>3. ASSUME NEW i \in Instances, NEW s \in Selectors, cache[i][s] # None
        PROVE  cache[i][s].at \in 0 .. clock
    <3>1. cache[i][s].at \in Nat /\ clock \in Nat /\ cache[i][s].at <= clock
      BY <2>1, <2>3 DEF CacheShape, Entry, EntriesRecent
    <3> QED BY <3>1
  <2>4. ASSUME NEW i \in Instances PROVE watcher[i].next \in 1 .. Len(notices) + 1
    BY <2>1 DEF CacheShape
  <2>5. ASSUME NEW t \in Tasks, task[t].pc = "filling" PROVE task[t].row # None
    <3>1. task[t].row \in Rows
      BY <2>1, <2>5 DEF CacheShape, Right
    <3> QED BY <3>1 DEF Rows
  <2> QED BY <2>1, <2>2, <2>3, <2>4, <2>5 DEF TypeOK, CacheShape, TypeInv, SessionsTyped
<1> QED BY <1>2, <1>3, CacheInvariant, PTL
===============================================================================
