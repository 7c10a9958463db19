---------------------------- MODULE CommitProofs ----------------------------
(***************************************************************************)
(* Theorems about the write path, for every set of documents, requests,    *)
(* processes and transactions, every retry limit and every combination of  *)
(* faults.                                                                 *)
(***************************************************************************)
EXTENDS CommitProps, TLAPS

-----------------------------------------------------------------------------
(* Type correctness.                                                       *)

\* A task that may still retry has attempts and tries left.
RetriesLeft ==
    \A r \in Requests : pc[r] \in {"new"} \cup Live =>
        work[r].attempt < MaxAttempts /\ work[r].tries < MaxTries

TypeInv == TypeOK /\ RetriesLeft

\* A write leaves a row, or none, whatever it found.
LEMMA WrittenType ==
    ASSUME NEW w, NEW row \in RowOrNone, NEW now \in Nat, NEW r \in Requests
    PROVE  Written(w, row, now, r) \in RowOrNone
BY DEF Written, RowOrNone, Row

\* The version of a row is a number.
LEMMA VersionType ==
    ASSUME NEW row \in RowOrNone
    PROVE  Version(row) \in Nat
BY DEF Version, RowOrNone, Row

\* The rows a commit leaves behind have the type of a store.
LEMMA AfterType ==
    ASSUME TypeOK, NEW r \in Requests
    PROVE  Before(r) \in [Docs -> RowOrNone] /\ After(r) \in [Docs -> RowOrNone]
<1>1. work[r].snapshot \in [Docs -> RowOrNone] /\ job[r].now \in Nat
  BY DEF TypeOK, Work, Job
<1>2. ASSUME NEW d \in Docs
      PROVE  Written(job[r].batch[d], work[r].snapshot[d], job[r].now, r) \in RowOrNone
  BY <1>1, WrittenType
<1> QED BY <1>1, <1>2 DEF Before, After

\* Nothing has happened yet: all variables have their types.
LEMMA TypeInit == Init => TypeInv
<1> SUFFICES ASSUME Init PROVE TypeInv
  OBVIOUS
<1>1. (CHOOSE i \in Instances : TRUE) \in Instances
  BY ConstantsAssumption
<1>2. 0 < MaxAttempts /\ 0 < MaxTries /\ MaxAttempts \in Nat /\ MaxTries \in Nat
  BY ConstantsAssumption
<1>3. store \in [Docs -> RowOrNone] /\ history \in Seq(Entry) /\ clock \in Nat
  BY DEF Init, RowOrNone
<1>4. holder \in [Instances -> Requests \cup {NoHolder}]
  BY DEF Init
<1>5. txns \in [Tokens -> Txn] /\ seen \in [Tokens -> SUBSET (Docs \X RowOrNone)]
  BY <1>1 DEF Init, Txn
<1>6. pc \in [Requests -> {"new"} \cup Live \cup Final]
  BY DEF Init
<1>7. job \in [Requests -> Job]
  BY <1>1 DEF Init, Job, Batch
<1>8. work \in [Requests -> Work]
  BY DEF Init, Work, RowOrNone
<1>9. mtx \in [Requests -> {"none", "prepared", "committed"}] /\ hub \in [Instances -> Seq(Requests)]
  BY DEF Init
<1>10. RetriesLeft /\ \A r \in Requests : work[r].attempt <= MaxAttempts /\ work[r].tries <= MaxTries
  BY <1>2 DEF Init, RetriesLeft
<1> QED BY <1>3, <1>4, <1>5, <1>6, <1>7, <1>8, <1>9, <1>10 DEF TypeInv, TypeOK

\* Ending a task touches its control state and the locks it holds.
LEMMA EndType ==
    ASSUME TypeOK, NEW r \in Requests, NEW outcome \in Final, End(r, outcome)
    PROVE  /\ pc' \in [Requests -> {"new"} \cup Live \cup Final]
           /\ holder' \in [Instances -> Requests \cup {NoHolder}]
           /\ \A q \in Requests : pc'[q] = IF q = r THEN outcome ELSE pc[q]
BY DEF TypeOK, End, Released

\* Starting an attempt over keeps the types and, unless the request ends, leaves
\* it attempts and tries.
LEMMA RestartType ==
    ASSUME TypeInv, NEW r \in Requests, Restart(r), pc[r] \in Live
    PROVE  TypeInv'
<1>0. work \in [Requests -> Work] /\ mtx \in [Requests -> {"none", "prepared", "committed"}]
  BY DEF TypeInv, TypeOK
<1>1. work' \in [Requests -> Work]
  <2>1. work[r] \in Work /\ work[r].attempt + 1 \in Nat
    BY <1>0 DEF Work
  <2>2. [work[r] EXCEPT !.attempt = @ + 1, !.tries = 0] \in Work
    BY <2>1 DEF Work
  <2>3. work' = [work EXCEPT ![r] = [work[r] EXCEPT !.attempt = @ + 1, !.tries = 0]]
    BY <1>0, <2>1 DEF Restart, Work
  <2> QED BY <1>0, <2>2, <2>3
<1>2. mtx' \in [Requests -> {"none", "prepared", "committed"}]
  BY DEF Restart, TypeInv, TypeOK
<1>3. \A q \in Requests : q # r => work'[q] = work[q]
  BY DEF Restart, TypeInv, TypeOK
<1>4. work'[r].attempt = work[r].attempt + 1 /\ work'[r].tries = 0
  BY DEF Restart, TypeInv, TypeOK, Work
<1>5. work[r].attempt < MaxAttempts /\ work[r].attempt \in Nat
  BY DEF TypeInv, RetriesLeft, TypeOK, Work
<1>6. /\ pc' \in [Requests -> {"new"} \cup Live \cup Final]
      /\ holder' \in [Instances -> Requests \cup {NoHolder}]
      /\ \A q \in Requests : q # r => pc'[q] = pc[q]
      /\ pc'[r] \in Live => work[r].attempt + 1 # MaxAttempts
      /\ pc'[r] # "new"
  <2>1. CASE work[r].attempt + 1 = MaxAttempts
    <3>1. End(r, "aborted") /\ "aborted" \in Final
      BY <2>1 DEF Restart, Final
    <3>2. "aborted" \notin Live
      BY DEF Live
    <3> QED BY <3>1, <3>2, EndType DEF TypeInv, TypeOK
  <2>2. CASE work[r].attempt + 1 # MaxAttempts
    BY <2>2 DEF Restart, TypeInv, TypeOK, Live
  <2> QED BY <2>1, <2>2
<1>7. ASSUME NEW q \in Requests
      PROVE  work'[q].attempt <= MaxAttempts /\ work'[q].tries <= MaxTries
  <2>1. work[q].attempt <= MaxAttempts /\ work[q].tries <= MaxTries
    BY DEF TypeInv, TypeOK
  <2>2. MaxAttempts \in Nat /\ MaxTries \in Nat
    BY ConstantsAssumption
  <2>3. CASE q = r
    BY <1>4, <1>5, <2>2, <2>3
  <2>4. CASE q # r
    BY <1>3, <2>1, <2>4
  <2> QED BY <2>3, <2>4
<1>8. RetriesLeft'
  BY <1>3, <1>4, <1>5, <1>6, ConstantsAssumption DEF TypeInv, RetriesLeft
<1> QED BY <1>1, <1>2, <1>6, <1>7, <1>8 DEF Restart, TypeInv, TypeOK

\* Every handler step, MongoDB step and fault keeps the types.
LEMMA TypeNext == TypeInv /\ [Next]_vars => TypeInv'
<1> SUFFICES ASSUME TypeInv, [Next]_vars PROVE TypeInv'
  OBVIOUS
<1> USE DEF TypeInv
<1>1. ASSUME NEW t \in Tokens, NEW i \in Instances, NEW readOnly \in BOOLEAN,
             BeginTransaction(t, i, readOnly)
      PROVE  TypeInv'
  BY <1>1 DEF BeginTransaction, TypeOK, Txn, RetriesLeft
<1>2. ASSUME NEW t \in Tokens, NEW d \in Docs, NEW i \in Instances, TransactionRead(t, d, i)
      PROVE  TypeInv'
  <2>1. store[d] \in RowOrNone /\ Version(store[d]) \in Nat
    BY VersionType DEF TypeOK
  <2>2. seen' \in [Tokens -> SUBSET (Docs \X RowOrNone)]
    BY <1>2, <2>1 DEF TransactionRead, TypeOK
  <2>3. txns' \in [Tokens -> Txn]
    <3>1. txns \in [Tokens -> Txn] /\ txns[t] \in Txn
      BY DEF TypeOK
    <3>2. [txns[t] EXCEPT !.reads = @ \cup {<<d, Version(store[d])>>}] \in Txn
      BY <2>1, <3>1 DEF Txn
    <3>3. \/ txns' = [txns EXCEPT ![t] = [txns[t] EXCEPT !.reads = @ \cup {<<d, Version(store[d])>>}]]
          \/ txns' = txns
      BY <1>2 DEF TransactionRead
    <3> QED BY <3>1, <3>2, <3>3
  <2> QED BY <1>2, <2>2, <2>3 DEF TransactionRead, TypeOK, RetriesLeft
<1>3. ASSUME NEW t \in Tokens, RollbackOrExpire(t)
      PROVE  TypeInv'
  BY <1>3 DEF RollbackOrExpire, TypeOK, Txn, RetriesLeft
<1>4. ASSUME NEW r \in Requests, NEW i \in Instances, NEW surface \in Surfaces,
             NEW token \in Tokens \cup {NoToken}, NEW batch \in WriteSets,
             Receive(r, i, surface, token, batch)
      PROVE  TypeInv'
  <2>1. PICK step \in ClockSteps :
            /\ clock' = clock + step
            /\ job' = [job EXCEPT ![r] = [inst |-> i, surface |-> surface,
                          token |-> token, batch |-> batch, now |-> clock + step]]
    BY <1>4 DEF Receive
  <2>2. step \in Nat /\ surface \in {"commit", "single", "stream"} /\ clock + step \in Nat
    BY ConstantsAssumption DEF TypeOK
  <2>3. job' \in [Requests -> Job] /\ clock' \in Nat
    BY <2>1, <2>2 DEF TypeOK, Job, Batch
  <2>4. pc' \in [Requests -> {"new"} \cup Live \cup Final] /\ RetriesLeft'
    BY <1>4 DEF Receive, TypeOK, Live, RetriesLeft
  <2> QED BY <1>4, <2>3, <2>4 DEF Receive, TypeOK
<1>5. ASSUME NEW r \in Requests, Acquire(r)
      PROVE  TypeInv'
  BY <1>5 DEF Acquire, Held, TypeOK, Live, RetriesLeft, Job
<1>6. ASSUME NEW r \in Requests, TakeTransaction(r)
      PROVE  TypeInv'
  <2>1. job[r].token \in Tokens /\ job[r].inst \in Instances
    BY <1>6 DEF TakeTransaction, TypeOK, Job
  <2>2. txns' \in [Tokens -> Txn]
    <3>1. txns \in [Tokens -> Txn] /\ txns[job[r].token] \in Txn
      BY <2>1 DEF TypeOK
    <3>2. [txns[job[r].token] EXCEPT !.state = "gone"] \in Txn
      BY <3>1 DEF Txn
    <3>3. txns' = [txns EXCEPT ![job[r].token] = [txns[job[r].token] EXCEPT !.state = "gone"]]
      BY <1>6 DEF TakeTransaction
    <3> QED BY <3>1, <3>2, <3>3
  <2>3. txns[job[r].token].reads \in SUBSET (Docs \X Nat)
    BY <2>1 DEF TypeOK, Txn
  <2> DEFINE taken == [work[r] EXCEPT !.unchecked = txns[job[r].token].reads]
  <2>4. /\ work' \in [Requests -> Work]
        /\ \A q \in Requests : work'[q].attempt = work[q].attempt /\ work'[q].tries = work[q].tries
    <3>1. work \in [Requests -> Work] /\ work[r] \in Work
      BY DEF TypeOK
    <3>2. taken \in Work /\ taken.attempt = work[r].attempt /\ taken.tries = work[r].tries
      BY <2>3, <3>1 DEF Work
    <3>3. work' = [work EXCEPT ![r] = taken] \/ work' = work
      BY <1>6 DEF TakeTransaction
    <3> QED BY <3>1, <3>2, <3>3
  <2>6. /\ pc' \in [Requests -> {"new"} \cup Live \cup Final]
        /\ holder' \in [Instances -> Requests \cup {NoHolder}]
        /\ \A q \in Requests : pc'[q] \in {"new"} \cup Live => pc[q] \in {"new"} \cup Live
    BY <1>6, <2>1 DEF TakeTransaction, Held, TypeOK, Live, Final
  <2>7. RetriesLeft'
    BY <2>4, <2>6 DEF RetriesLeft
  <2> QED BY <1>6, <2>2, <2>4, <2>6, <2>7 DEF TakeTransaction, TypeOK
<1>7. ASSUME NEW r \in Requests, TakeFails(r)
      PROVE  TypeInv'
  BY <1>7 DEF TakeFails, TypeOK, Live, Final, RetriesLeft
<1>8. ASSUME NEW r \in Requests, NEW read \in work[r].unchecked, ReadUnchanged(r, read)
      PROVE  TypeInv'
  <2>1. work' \in [Requests -> Work]
    BY <1>8, ZenonT(60) DEF ReadUnchanged, TypeOK, Work
  <2>2. \A q \in Requests : work'[q].attempt = work[q].attempt /\ work'[q].tries = work[q].tries
    BY <1>8 DEF ReadUnchanged, TypeOK, Work
  <2> QED BY <1>8, <2>1, <2>2 DEF ReadUnchanged, TypeOK, RetriesLeft
<1>9. ASSUME NEW r \in Requests, NEW outcome \in Final, End(r, outcome),
             UNCHANGED <<store, history, clock, txns, seen, job, work, hub>>,
             mtx' \in [Requests -> {"none", "prepared", "committed"}]
      PROVE  TypeInv'
  <2>1. outcome \notin {"new"} \cup Live
    BY DEF Final, Live
  <2> QED BY <1>9, <2>1, EndType DEF TypeOK, RetriesLeft
<1>10. ASSUME NEW r \in Requests, NEW read \in work[r].unchecked, ReadChanged(r, read)
       PROVE  TypeInv'
  BY <1>9, <1>10 DEF ReadChanged, TypeOK, Final
<1>11. ASSUME NEW r \in Requests, Load(r)
       PROVE  TypeInv'
  <2>1. work' \in [Requests -> Work]
    BY <1>11 DEF Load, TypeOK, Work
  <2>2. \A q \in Requests : work'[q].attempt = work[q].attempt /\ work'[q].tries = work[q].tries
    BY <1>11 DEF Load, TypeOK, Work
  <2>3. pc[r] \in Live
    BY <1>11 DEF Load, Validated, Live
  <2>4. /\ pc' \in [Requests -> {"new"} \cup Live \cup Final]
        /\ holder' \in [Instances -> Requests \cup {NoHolder}]
        /\ \A q \in Requests : pc'[q] \in {"new"} \cup Live => pc[q] \in {"new"} \cup Live
    <3>1. CASE Passes(job[r].batch, store)
      BY <1>11, <2>3, <3>1 DEF Load, TypeOK, Live
    <3>2. CASE ~Passes(job[r].batch, store)
      <4>1. End(r, "rejected") /\ "rejected" \in Final
        BY <1>11, <3>2 DEF Load, Final
      <4> QED BY <4>1, <2>3, EndType
    <3> QED BY <3>1, <3>2
  <2> QED BY <1>11, <2>1, <2>2, <2>4 DEF Load, TypeOK, RetriesLeft
<1>12. ASSUME NEW r \in Requests, Persist(r)
       PROVE  TypeInv'
  BY <1>12 DEF Persist, TypeOK, Live, RetriesLeft
<1>13. ASSUME NEW r \in Requests, WriteConflict(r)
       PROVE  TypeInv'
  <2>1. pc[r] \in Live /\ Restart(r)
    BY <1>13 DEF WriteConflict, Live
  <2> QED BY <2>1, RestartType
<1>14. ASSUME NEW r \in Requests, StorageFails(r)
       PROVE  TypeInv'
  BY <1>9, <1>14 DEF StorageFails, TypeOK, Final
<1>15. ASSUME NEW r \in Requests, ServerCommits(r)
       PROVE  TypeInv'
  <2>1. Before(r) \in [Docs -> RowOrNone] /\ After(r) \in [Docs -> RowOrNone]
    BY AfterType
  <2>2. store' \in [Docs -> RowOrNone]
    BY <1>15, <2>1 DEF ServerCommits, TypeOK
  <2>3. ReadBy(r) \in SUBSET (Docs \X RowOrNone)
    BY DEF ReadBy, TypeOK, Job
  <2>4. job[r].now \in Nat /\ job[r].batch \in Batch
    BY DEF TypeOK, Job
  <2>5. [req |-> r, at |-> job[r].now, reads |-> ReadBy(r), writes |-> job[r].batch,
         before |-> Before(r), after |-> After(r)] \in Entry
    BY <2>1, <2>3, <2>4 DEF Entry
  <2>6. history' \in Seq(Entry)
    BY <1>15, <2>5 DEF ServerCommits, TypeOK
  <2>7. mtx' \in [Requests -> {"none", "prepared", "committed"}]
    BY <1>15 DEF ServerCommits, TypeOK
  <2> QED BY <1>15, <2>2, <2>6, <2>7 DEF ServerCommits, TypeOK, RetriesLeft
<1>16. ASSUME NEW r \in Requests, ServerAborts(r)
       PROVE  TypeInv'
  BY <1>16 DEF ServerAborts, TypeOK, RetriesLeft
<1>17. ASSUME NEW r \in Requests, CommitReply(r)
       PROVE  TypeInv'
  BY <1>17 DEF CommitReply, Released, TypeOK, Live, RetriesLeft
<1>18. ASSUME NEW r \in Requests, Publish(r)
       PROVE  TypeInv'
  <2>1. hub' \in [Instances -> Seq(Requests)]
    <3>1. hub \in [Instances -> Seq(Requests)] /\ job[r].inst \in Instances
      BY DEF TypeOK, Job
    <3>2. Append(hub[job[r].inst], r) \in Seq(Requests)
      BY <3>1
    <3> QED BY <1>18, <3>1, <3>2 DEF Publish
  <2>2. End(r, "ok") /\ "ok" \in Final /\ "ok" \notin {"new"} \cup Live
    BY <1>18 DEF Publish, Final, Live
  <2> QED BY <1>18, <2>1, <2>2, EndType DEF Publish, TypeOK, RetriesLeft
<1>19. ASSUME NEW r \in Requests, Deny(r)
       PROVE  TypeInv'
  BY <1>19 DEF Deny, TypeOK, Live, Final, RetriesLeft
<1>20. ASSUME NEW r \in Requests, CommitUnknown(r)
       PROVE  TypeInv'
  <2>1. work' \in [Requests -> Work]
    <3>1. work \in [Requests -> Work] /\ work[r] \in Work
      BY DEF TypeOK
    <3>2. [work[r] EXCEPT !.tries = @ + 1] \in Work
      BY <3>1 DEF Work
    <3>3. work' = [work EXCEPT ![r] = [work[r] EXCEPT !.tries = @ + 1]]
      BY <1>20 DEF CommitUnknown
    <3> QED BY <3>1, <3>2, <3>3
  <2>2. /\ \A q \in Requests : work'[q].attempt = work[q].attempt
        /\ \A q \in Requests : q # r => work'[q].tries = work[q].tries
        /\ work'[r].tries = work[r].tries + 1
    BY <1>20 DEF CommitUnknown, TypeOK, Work
  <2>3. pc[r] \in Live /\ work[r].tries < MaxTries /\ work[r].tries \in Nat
    BY <1>20 DEF CommitUnknown, Live, RetriesLeft, TypeOK, Work
  <2>4. /\ pc' \in [Requests -> {"new"} \cup Live \cup Final]
        /\ holder' \in [Instances -> Requests \cup {NoHolder}]
        /\ \A q \in Requests : pc'[q] \in {"new"} \cup Live => pc[q] \in {"new"} \cup Live
        /\ pc'[r] \in {"new"} \cup Live => work[r].tries + 1 # MaxTries
    <3>1. CASE work[r].tries + 1 = MaxTries
      <4>1. End(r, "unknown") /\ "unknown" \in Final /\ "unknown" \notin {"new"} \cup Live
        BY <1>20, <3>1 DEF CommitUnknown, Final, Live
      <4> QED BY <4>1, EndType
    <3>2. CASE work[r].tries + 1 # MaxTries
      BY <1>20, <3>2 DEF CommitUnknown, TypeOK
    <3> QED BY <3>1, <3>2
  <2>5. \A q \in Requests : work[q].attempt <= MaxAttempts /\ work[q].tries <= MaxTries
    BY DEF TypeOK
  <2>6. MaxTries \in Nat
    BY ConstantsAssumption
  <2>7. \A q \in Requests : work'[q].attempt <= MaxAttempts /\ work'[q].tries <= MaxTries
    BY <2>2, <2>3, <2>5, <2>6
  <2>8. RetriesLeft'
    BY <2>2, <2>3, <2>4, <2>6 DEF RetriesLeft
  <2> QED BY <1>20, <2>1, <2>4, <2>7, <2>8 DEF CommitUnknown, TypeOK
<1>21. ASSUME NEW r \in Requests, CommitTransient(r)
       PROVE  TypeInv'
  <2>1. pc[r] \in Live /\ Restart(r)
    BY <1>21 DEF CommitTransient, Live
  <2> QED BY <2>1, RestartType
<1>22. ASSUME NEW r \in Requests, CommitFails(r)
       PROVE  TypeInv'
  BY <1>9, <1>22 DEF CommitFails, TypeOK, Final
<1>23. ASSUME NEW r \in Requests, Disconnect(r)
       PROVE  TypeInv'
  BY <1>9, <1>23 DEF Disconnect, TypeOK, Final
<1>24. ASSUME NEW i \in Instances, Crash(i)
       PROVE  TypeInv'
  <2>1. txns' \in [Tokens -> Txn]
    <3>1. txns \in [Tokens -> Txn]
      BY DEF TypeOK
    <3>2. \A t \in Tokens : [txns[t] EXCEPT !.state = "gone"] \in Txn
      BY <3>1 DEF Txn
    <3> QED BY <1>24, <3>1, <3>2 DEF Crash
  <2>2. /\ pc' \in [Requests -> {"new"} \cup Live \cup Final]
        /\ \A q \in Requests : pc'[q] \in {"new"} \cup Live => pc[q] \in {"new"} \cup Live
    BY <1>24 DEF Crash, TypeOK, Live, Final
  <2> QED BY <1>24, <2>1, <2>2 DEF Crash, TypeOK, RetriesLeft
<1>25. ASSUME ClearData
       PROVE  TypeInv'
  BY <1>25 DEF ClearData, TypeOK, RowOrNone, RetriesLeft
<1>26. CASE UNCHANGED vars
  BY <1>26 DEF vars, TypeOK, RetriesLeft
<1> QED
  BY <1>1, <1>2, <1>3, <1>4, <1>5, <1>6, <1>7, <1>8, <1>10, <1>11, <1>12, <1>13,
     <1>14, <1>15, <1>16, <1>17, <1>18, <1>19, <1>20, <1>21, <1>22, <1>23, <1>24,
     <1>25, <1>26 DEF Next, ClientStep, LockStep, TaskStep, FaultStep

\* Every behaviour keeps every variable in its type and the retries bounded.
THEOREM TypeCorrect == Spec => []TypeOK
<1>1. Spec => []TypeInv
  BY TypeInit, TypeNext, PTL DEF Spec
<1>2. TypeInv => TypeOK
  BY DEF TypeInv
<1> QED BY <1>1, <1>2, PTL
-----------------------------------------------------------------------------
(* The commit lock.                                                        *)

\* Whoever is in the critical section holds the lock of its instance.
LockInv == \A r \in Requests : Critical(r) => holder[job[r].inst] = r

\* A task that ends leaves the critical section and nobody else's lock.
LEMMA EndKeepsLocks ==
    ASSUME TypeOK, LockInv, NEW r \in Requests, NEW outcome \in Final, End(r, outcome),
           UNCHANGED job
    PROVE  LockInv'
<1>1. \A q \in Requests : pc'[q] = IF q = r THEN outcome ELSE pc[q]
  BY EndType
<1>2. outcome \notin {"validating", "starting", "persisting", "committing", "publishing"}
  BY DEF Final
<1>3. \A q \in Requests : Critical(q)' => Critical(q) /\ q # r
  BY <1>1, <1>2 DEF Critical
<1>4. \A i \in Instances : holder'[i] = IF holder[i] = r THEN NoHolder ELSE holder[i]
  BY DEF End, Released
<1>5. \A q \in Requests : job[q].inst \in Instances
  BY DEF TypeOK, Job
<1> QED BY <1>3, <1>4, <1>5 DEF LockInv

\* A task that moves without the lock changing hands stays where it was.
LEMMA MoveKeepsLocks ==
    ASSUME TypeOK, LockInv, NEW r \in Requests, NEW to, pc' = [pc EXCEPT ![r] = to],
           UNCHANGED <<holder, job>>,
           \/ to \in {"rejected", "aborted", "waiting"}
           \/ pc[r] \in {"validating", "starting", "persisting", "committing"}
    PROVE  LockInv'
<1>1. \A q \in Requests : Critical(q)' => Critical(q)
  BY DEF Critical, TypeOK
<1> QED BY <1>1 DEF LockInv

\* A task that is granted the free lock is alone.
LEMMA GrantKeepsLocks ==
    ASSUME TypeOK, LockInv, NEW r \in Requests, LockFree(r), holder' = Held(r), NEW to,
           pc' = [pc EXCEPT ![r] = to], UNCHANGED job
    PROVE  LockInv'
<1>1. job[r].inst \in Instances /\ holder'[job[r].inst] = r
  BY DEF TypeOK, Job, Held
<1>2. ASSUME NEW q \in Requests, q # r, Critical(q)'
      PROVE  holder'[job[q].inst] = q
  <2>1. Critical(q)
    BY <1>2 DEF Critical, TypeOK
  <2>2. holder[job[q].inst] = q /\ q # NoHolder
    BY <2>1, ConstantsAssumption DEF LockInv
  <2>3. job[q].inst # job[r].inst
    BY <2>2 DEF LockFree
  <2> QED BY <2>2, <2>3 DEF Held
<1> QED BY <1>1, <1>2 DEF LockInv

\* Starting over keeps the lock where it is, or returns it with the request's end.
LEMMA RestartKeepsLocks ==
    ASSUME TypeOK, LockInv, NEW r \in Requests, Restart(r),
           pc[r] \in {"persisting", "committing"}
    PROVE  LockInv'
<1>1. CASE work[r].attempt + 1 = MaxAttempts
  BY <1>1, EndKeepsLocks DEF Restart, Final
<1>2. CASE work[r].attempt + 1 # MaxAttempts
  <2>1. pc' = [pc EXCEPT ![r] = "starting"] /\ UNCHANGED <<holder, job>>
    BY <1>2 DEF Restart
  <2> QED BY <2>1, MoveKeepsLocks
<1> QED BY <1>1, <1>2

\* Every step keeps lock and holders matched.
LEMMA LockNext == TypeInv /\ LockInv /\ [Next]_vars => LockInv'
<1> SUFFICES ASSUME TypeInv, LockInv, [Next]_vars PROVE LockInv'
  OBVIOUS
<1> USE DEF TypeInv
<1>1. ASSUME UNCHANGED <<pc, holder, job>> PROVE LockInv'
  BY <1>1 DEF LockInv, Critical
<1>2. ASSUME NEW t \in Tokens, NEW i \in Instances, NEW readOnly \in BOOLEAN,
             BeginTransaction(t, i, readOnly)
      PROVE  LockInv'
  BY <1>1, <1>2 DEF BeginTransaction
<1>3. ASSUME NEW t \in Tokens, NEW d \in Docs, NEW i \in Instances, TransactionRead(t, d, i)
      PROVE  LockInv'
  BY <1>1, <1>3 DEF TransactionRead
<1>4. ASSUME NEW t \in Tokens, RollbackOrExpire(t) PROVE LockInv'
  BY <1>1, <1>4 DEF RollbackOrExpire
<1>5. ASSUME NEW r \in Requests, NEW i \in Instances, NEW surface \in Surfaces,
             NEW token \in Tokens \cup {NoToken}, NEW batch \in WriteSets,
             Receive(r, i, surface, token, batch)
      PROVE  LockInv'
  <2>1. /\ \A q \in Requests : q # r => pc'[q] = pc[q] /\ job'[q] = job[q]
        /\ pc'[r] = "waiting" /\ UNCHANGED holder
    BY <1>5 DEF Receive, TypeOK
  <2>2. \A q \in Requests : Critical(q)' => q # r /\ Critical(q)
    BY <2>1 DEF Critical
  <2> QED BY <2>1, <2>2 DEF LockInv
<1>6. ASSUME NEW r \in Requests, Acquire(r) PROVE LockInv'
  BY <1>6, GrantKeepsLocks DEF Acquire
<1>7. ASSUME NEW r \in Requests, TakeTransaction(r) PROVE LockInv'
  BY <1>7, GrantKeepsLocks, MoveKeepsLocks DEF TakeTransaction
<1>8. ASSUME NEW r \in Requests, TakeFails(r) \/ Deny(r) PROVE LockInv'
  BY <1>8, MoveKeepsLocks DEF TakeFails, Deny
<1>9. ASSUME NEW r \in Requests, NEW read \in work[r].unchecked, ReadUnchanged(r, read)
      PROVE  LockInv'
  BY <1>1, <1>9 DEF ReadUnchanged
<1>10. ASSUME NEW r \in Requests, NEW read \in work[r].unchecked, ReadChanged(r, read)
       PROVE  LockInv'
  BY <1>10, EndKeepsLocks DEF ReadChanged, Final
<1>11. ASSUME NEW r \in Requests, Load(r) PROVE LockInv'
  <2>1. pc[r] \in {"validating", "starting"} /\ UNCHANGED job
    BY <1>11 DEF Load, Validated
  <2>2. CASE Passes(job[r].batch, store)
    BY <1>11, <2>1, <2>2, MoveKeepsLocks DEF Load
  <2>3. CASE ~Passes(job[r].batch, store)
    BY <1>11, <2>1, <2>3, EndKeepsLocks DEF Load, Final
  <2> QED BY <2>2, <2>3
<1>12. ASSUME NEW r \in Requests, Persist(r) PROVE LockInv'
  BY <1>12, MoveKeepsLocks DEF Persist
<1>13. ASSUME NEW r \in Requests, WriteConflict(r) \/ CommitTransient(r) PROVE LockInv'
  BY <1>13, RestartKeepsLocks DEF WriteConflict, CommitTransient
<1>14. ASSUME NEW r \in Requests, StorageFails(r) \/ CommitFails(r) \/ Disconnect(r)
       PROVE  LockInv'
  BY <1>14, EndKeepsLocks DEF StorageFails, CommitFails, Disconnect, Final
<1>15. ASSUME NEW r \in Requests, ServerCommits(r) \/ ServerAborts(r) PROVE LockInv'
  BY <1>1, <1>15 DEF ServerCommits, ServerAborts
<1>16. ASSUME NEW r \in Requests, CommitReply(r) PROVE LockInv'
  <2>1. pc' = [pc EXCEPT ![r] = "publishing"] /\ UNCHANGED job
    BY <1>16 DEF CommitReply
  <2>2. CASE job[r].surface = "commit"
    BY <1>16, <2>1, <2>2, MoveKeepsLocks DEF CommitReply
  <2>3. CASE job[r].surface # "commit"
    <3>1. \A q \in Requests : Critical(q)' => Critical(q) /\ q # r
      BY <2>1, <2>3 DEF Critical, TypeOK
    <3>2. \A i \in Instances : holder'[i] = IF holder[i] = r THEN NoHolder ELSE holder[i]
      BY <1>16, <2>3 DEF CommitReply, Released
    <3>3. \A q \in Requests : job[q].inst \in Instances
      BY DEF TypeOK, Job
    <3> QED BY <2>1, <3>1, <3>2, <3>3 DEF LockInv
  <2> QED BY <2>2, <2>3
<1>17. ASSUME NEW r \in Requests, Publish(r) PROVE LockInv'
  BY <1>17, EndKeepsLocks DEF Publish, Final
<1>18. ASSUME NEW r \in Requests, CommitUnknown(r) PROVE LockInv'
  <2>1. CASE work[r].tries + 1 = MaxTries
    BY <1>18, <2>1, EndKeepsLocks DEF CommitUnknown, Final
  <2>2. CASE work[r].tries + 1 # MaxTries
    BY <1>1, <1>18, <2>2 DEF CommitUnknown
  <2> QED BY <2>1, <2>2
<1>19. ASSUME NEW i \in Instances, Crash(i) PROVE LockInv'
  <2>1. \A q \in Requests : Critical(q)' => Critical(q) /\ job[q].inst # i
    BY <1>19 DEF Crash, Critical, Live
  <2> QED BY <1>19, <2>1 DEF Crash, LockInv
<1>20. ASSUME ClearData PROVE LockInv'
  BY <1>1, <1>20 DEF ClearData
<1>21. CASE UNCHANGED vars
  BY <1>1, <1>21 DEF vars
<1> QED
  BY <1>2, <1>3, <1>4, <1>5, <1>6, <1>7, <1>8, <1>9, <1>10, <1>11, <1>12, <1>13, <1>14,
     <1>15, <1>16, <1>17, <1>18, <1>19, <1>20, <1>21
  DEF Next, ClientStep, LockStep, TaskStep, FaultStep

\* No two requests of one instance are ever between validation and outcome at
\* the same time, whatever faults end the requests before them.
THEOREM LockExcludes == Spec => []MutualExclusion
<1>1. Init => LockInv
  BY DEF Init, LockInv, Critical
<1>2. TypeInv /\ LockInv => MutualExclusion
  BY DEF LockInv, MutualExclusion
<1> QED BY <1>1, <1>2, TypeInit, TypeNext, LockNext, PTL DEF Spec
-----------------------------------------------------------------------------
(* The MongoDB transactions.                                               *)

\* Where a task can be while its transaction is prepared, and afterwards.
ControlInv ==
    \A r \in Requests :
        /\ mtx[r] = "prepared" => pc[r] \in {"committing", "unknown", "gone"}
        /\ mtx[r] = "committed" =>
              pc[r] \in {"committing", "publishing", "ok", "unknown", "gone"}
        /\ pc[r] \in {"publishing", "ok"} => mtx[r] = "committed"

\* What a prepared transaction is about to replace is still as it read it,
\* and no two of them write the same row.
SnapshotsCurrent ==
    \A r \in Requests : mtx[r] = "prepared" =>
        \A d \in RowsWritten(r) : store[d] = work[r].snapshot[d]

WritersDisjoint ==
    \A q, r \in Requests : q # r /\ mtx[q] = "prepared" /\ mtx[r] = "prepared" =>
        RowsWritten(q) \cap RowsWritten(r) = {}

\* The history holds each request whose transaction committed, once.
HistoryInv ==
    /\ \A r \in Requests : r \in Committed <=> mtx[r] = "committed"
    /\ \A j, k \in DOMAIN history : history[j].req = history[k].req => j = k

CommitInv == ControlInv /\ SnapshotsCurrent /\ WritersDisjoint /\ HistoryInv

\* Before the first commit the commit invariant says nothing that could fail.
LEMMA CommitInit == Init => CommitInv
BY DEF Init, CommitInv, ControlInv, SnapshotsCurrent, WritersDisjoint, HistoryInv, Committed

\* The rows a transaction writes are those of its batch and its snapshot.
LEMMA SameRows ==
    ASSUME NEW r \in Requests, job'[r].batch = job[r].batch,
           work'[r].snapshot = work[r].snapshot
    PROVE  RowsWritten(r)' = RowsWritten(r)
BY DEF RowsWritten, RowOps, Changed

\* A batch changes documents.
LEMMA ChangedAreDocs ==
    ASSUME NEW batch \in Batch
    PROVE  Changed(batch) \subseteq Docs
<1>1. batch \in WriteSets \/ batch = NoWrites
  BY DEF Batch
<1>2. DOMAIN NoWrites = {}
  BY DEF NoWrites
<1>3. DOMAIN batch \subseteq Docs
  BY <1>1, <1>2, WriteSetsAssumption
<1> QED BY <1>3 DEF Changed

\* The documents MongoDB writes rows for are documents.
LEMMA RowsAreDocs ==
    ASSUME TypeOK, NEW r \in Requests
    PROVE  RowsWritten(r) \subseteq Docs
<1>1. job[r].batch \in Batch
  BY DEF TypeOK, Job
<1> QED BY <1>1, ChangedAreDocs DEF RowsWritten, RowOps

\* A step that leaves MongoDB alone and no prepared transaction's task with
\* another batch or snapshot.
LEMMA QuietStep ==
    ASSUME CommitInv, UNCHANGED <<store, history, mtx>>, ControlInv',
           \A r \in Requests : mtx[r] = "prepared" =>
               job'[r] = job[r] /\ work'[r].snapshot = work[r].snapshot
    PROVE  CommitInv'
<1>1. \A r \in Requests : mtx[r] = "prepared" => RowsWritten(r)' = RowsWritten(r)
  BY SameRows
<1>2. SnapshotsCurrent'
  BY <1>1 DEF CommitInv, SnapshotsCurrent
<1>3. WritersDisjoint'
  BY <1>1 DEF CommitInv, WritersDisjoint
<1>4. HistoryInv'
  BY DEF CommitInv, HistoryInv, Committed
<1> QED BY <1>2, <1>3, <1>4 DEF CommitInv

\* A step that withdraws a transaction which has not committed.
LEMMA WithdrawStep ==
    ASSUME TypeOK, CommitInv, NEW r \in Requests, mtx[r] # "committed",
           mtx' = [mtx EXCEPT ![r] = "none"], UNCHANGED <<store, history, job>>,
           ControlInv', \A q \in Requests : work'[q].snapshot = work[q].snapshot
    PROVE  CommitInv'
<1>1. \A q \in Requests : RowsWritten(q)' = RowsWritten(q)
  BY SameRows
<1>2. \A q \in Requests : /\ mtx'[q] = "prepared" => mtx[q] = "prepared"
                          /\ mtx'[q] = "committed" <=> mtx[q] = "committed"
  BY DEF TypeOK
<1>3. SnapshotsCurrent'
  BY <1>1, <1>2 DEF CommitInv, SnapshotsCurrent
<1>4. WritersDisjoint'
  BY <1>1, <1>2 DEF CommitInv, WritersDisjoint
<1>5. HistoryInv'
  BY <1>2 DEF CommitInv, HistoryInv, Committed
<1> QED BY <1>3, <1>4, <1>5 DEF CommitInv

\* What a restart does to control and to the working state.
LEMMA RestartEffect ==
    ASSUME TypeOK, NEW r \in Requests, Restart(r)
    PROVE  /\ mtx' = [mtx EXCEPT ![r] = "none"]
           /\ UNCHANGED <<store, history, job, txns>>
           /\ \A q \in Requests : q # r => pc'[q] = pc[q]
           /\ pc'[r] \in {"starting", "aborted"}
           /\ \A q \in Requests : work'[q].snapshot = work[q].snapshot
<1>1. \A q \in Requests : work'[q].snapshot = work[q].snapshot
  BY DEF Restart, TypeOK, Work
<1>2. (\A q \in Requests : q # r => pc'[q] = pc[q]) /\ pc'[r] \in {"starting", "aborted"}
  <2>1. CASE work[r].attempt + 1 = MaxAttempts
    BY <2>1, EndType DEF Restart, Final
  <2>2. CASE work[r].attempt + 1 # MaxAttempts
    BY <2>2 DEF Restart, TypeOK
  <2> QED BY <2>1, <2>2
<1> QED BY <1>1, <1>2 DEF Restart

\* Starting over withdraws whatever the attempt had put into MongoDB.
LEMMA RestartWithdraws ==
    ASSUME TypeOK, CommitInv, NEW r \in Requests, Restart(r), mtx[r] # "committed"
    PROVE  CommitInv'
<1>1. ControlInv'
  BY RestartEffect DEF CommitInv, ControlInv, TypeOK
<1> QED BY <1>1, RestartEffect, WithdrawStep

\* A transaction whose writes all went in joins the prepared ones.
LEMMA PersistStep ==
    ASSUME TypeOK, CommitInv, NEW r \in Requests, Persist(r)
    PROVE  CommitInv'
<1>1. /\ UNCHANGED <<store, history, job, work>> /\ pc[r] = "persisting"
      /\ mtx' = [mtx EXCEPT ![r] = "prepared"] /\ pc' = [pc EXCEPT ![r] = "committing"]
      /\ ~Conflict(r)
  BY DEF Persist
<1>2. mtx[r] = "none"
  BY <1>1 DEF CommitInv, ControlInv, TypeOK
<1>3. ControlInv'
  BY <1>1 DEF CommitInv, ControlInv, TypeOK
<1>4. \A q \in Requests : RowsWritten(q)' = RowsWritten(q)
  BY <1>1, SameRows
<1>5. \A d \in RowsWritten(r) : store[d] = work[r].snapshot[d]
  BY <1>1 DEF Conflict
<1>6. \A q \in Requests \ {r} : mtx[q] = "prepared" => RowsWritten(q) \cap RowsWritten(r) = {}
  BY <1>1 DEF Conflict
<1>7. \A q \in Requests : q # r => mtx'[q] = mtx[q]
  BY <1>1 DEF TypeOK
<1>8. SnapshotsCurrent'
  BY <1>1, <1>4, <1>5, <1>7 DEF CommitInv, SnapshotsCurrent
<1>9. WritersDisjoint'
  BY <1>4, <1>6, <1>7 DEF CommitInv, WritersDisjoint
<1>10. HistoryInv'
  BY <1>1, <1>2, <1>7 DEF CommitInv, HistoryInv, Committed, TypeOK
<1> QED BY <1>3, <1>8, <1>9, <1>10 DEF CommitInv

\* MongoDB applies a prepared transaction: it touches only rows the others
\* do not write.
LEMMA ServerCommitsStep ==
    ASSUME TypeOK, CommitInv, NEW r \in Requests, ServerCommits(r)
    PROVE  CommitInv'
<1>1. /\ mtx[r] = "prepared" /\ mtx' = [mtx EXCEPT ![r] = "committed"]
      /\ UNCHANGED <<job, work, pc>>
  BY DEF ServerCommits
<1>2. \A q \in Requests : RowsWritten(q)' = RowsWritten(q)
  BY <1>1, SameRows
<1>3. \A q \in Requests : q # r => mtx'[q] = mtx[q]
  BY <1>1 DEF TypeOK
<1>4. mtx'[r] = "committed"
  BY <1>1 DEF TypeOK
<1>5. ControlInv'
  BY <1>1, <1>3, <1>4 DEF CommitInv, ControlInv
<1>6. SnapshotsCurrent'
  <2> SUFFICES ASSUME NEW q \in Requests, mtx'[q] = "prepared", NEW d \in RowsWritten(q)
               PROVE  store'[d] = work[q].snapshot[d]
    BY <1>1, <1>2 DEF SnapshotsCurrent
  <2>1. q # r /\ mtx[q] = "prepared"
    BY <1>3, <1>4
  <2>2. d \notin RowsWritten(r)
    BY <1>1, <2>1 DEF CommitInv, WritersDisjoint
  <2>3. store[d] = work[q].snapshot[d]
    BY <2>1 DEF CommitInv, SnapshotsCurrent
  <2>4. d \in Docs
    BY RowsAreDocs
  <2> QED BY <2>2, <2>3, <2>4 DEF ServerCommits
<1>7. WritersDisjoint'
  BY <1>2, <1>3, <1>4 DEF CommitInv, WritersDisjoint
<1>8. HistoryInv'
  <2> DEFINE c == [req |-> r, at |-> job[r].now, reads |-> ReadBy(r), writes |-> job[r].batch,
                   before |-> Before(r), after |-> After(r)]
  <2>1. history' = Append(history, c) /\ c.req = r
    BY DEF ServerCommits
  <2> HIDE DEF c
  <2>2. history \in Seq(Entry)
    BY DEF TypeOK
  <2>3. /\ Len(history) \in Nat /\ DOMAIN history = 1 .. Len(history)
        /\ DOMAIN history' = 1 .. Len(history) + 1
        /\ \A k \in DOMAIN history : history'[k] = history[k]
        /\ history'[Len(history) + 1] = c
    BY <2>1, <2>2
  <2>4. \A k \in DOMAIN history : history[k].req # r
    BY <1>1 DEF CommitInv, HistoryInv, Committed
  <2>5. \A q \in Requests : q \in Committed' <=> q \in Committed \/ q = r
    BY <2>1, <2>3 DEF Committed
  <2>6. \A q \in Requests : q \in Committed' <=> mtx'[q] = "committed"
    BY <1>3, <1>4, <2>5 DEF CommitInv, HistoryInv
  <2>7. \A j, k \in DOMAIN history' : history'[j].req = history'[k].req => j = k
    BY <2>1, <2>3, <2>4 DEF CommitInv, HistoryInv
  <2> QED BY <2>6, <2>7 DEF HistoryInv
<1> QED BY <1>5, <1>6, <1>7, <1>8 DEF CommitInv

\* A task ends without touching MongoDB.
LEMMA EndStep ==
    ASSUME TypeOK, CommitInv, NEW r \in Requests, NEW outcome \in Final, End(r, outcome),
           UNCHANGED <<store, history, job, mtx>>,
           \A q \in Requests : mtx[q] = "prepared" => work'[q].snapshot = work[q].snapshot,
           \/ outcome \in {"unknown", "gone"} /\ pc[r] # "publishing"
           \/ outcome \in {"rejected", "aborted"} /\ mtx[r] = "none"
           \/ outcome = "ok" /\ pc[r] = "publishing"
    PROVE  CommitInv'
<1>1. \A q \in Requests : pc'[q] = IF q = r THEN outcome ELSE pc[q]
  BY EndType
<1>2. ControlInv'
  BY <1>1 DEF CommitInv, ControlInv
<1> QED BY <1>2, QuietStep

\* Every step keeps the commit invariant.
LEMMA CommitNext == TypeInv /\ CommitInv /\ [Next]_vars => CommitInv'
<1> SUFFICES ASSUME TypeInv, CommitInv, [Next]_vars PROVE CommitInv'
  OBVIOUS
<1> USE DEF TypeInv
<1>0. ASSUME UNCHANGED <<store, history, mtx, job, pc>>,
             \A r \in Requests : work'[r].snapshot = work[r].snapshot
      PROVE  CommitInv'
  <2>1. ControlInv'
    BY <1>0 DEF CommitInv, ControlInv
  <2> QED BY <1>0, <2>1, QuietStep
<1>1. ASSUME NEW r \in Requests, NEW to \in {"waiting", "starting", "validating",
                "persisting", "rejected", "aborted"},
             mtx[r] = "none", pc' = [pc EXCEPT ![r] = to], UNCHANGED <<store, history, mtx>>,
             \A q \in Requests : q # r => job'[q] = job[q] /\ work'[q] = work[q]
      PROVE  CommitInv'
  <2>1. ControlInv'
    BY <1>1 DEF CommitInv, ControlInv, TypeOK
  <2>2. \A q \in Requests : mtx[q] = "prepared" => q # r
    BY <1>1
  <2> QED BY <1>1, <2>1, <2>2, QuietStep
<1>2. \A r \in Requests : pc[r] \in {"new", "waiting", "validating", "starting", "persisting"}
         => mtx[r] = "none"
  BY DEF CommitInv, ControlInv, TypeOK
<1>3. ASSUME NEW t \in Tokens, NEW i \in Instances, NEW readOnly \in BOOLEAN,
             BeginTransaction(t, i, readOnly)
      PROVE  CommitInv'
  BY <1>0, <1>3 DEF BeginTransaction
<1>4. ASSUME NEW t \in Tokens, NEW d \in Docs, NEW i \in Instances, TransactionRead(t, d, i)
      PROVE  CommitInv'
  BY <1>0, <1>4 DEF TransactionRead
<1>5. ASSUME NEW t \in Tokens, RollbackOrExpire(t) PROVE CommitInv'
  BY <1>0, <1>5 DEF RollbackOrExpire
<1>6. ASSUME NEW r \in Requests, NEW i \in Instances, NEW surface \in Surfaces,
             NEW token \in Tokens \cup {NoToken}, NEW batch \in WriteSets,
             Receive(r, i, surface, token, batch)
      PROVE  CommitInv'
  <2>1. \A q \in Requests : q # r => job'[q] = job[q]
    BY <1>6 DEF Receive, TypeOK
  <2> QED BY <1>1, <1>2, <1>6, <2>1 DEF Receive
<1>7. ASSUME NEW r \in Requests, Acquire(r) \/ TakeFails(r) \/ Deny(r) PROVE CommitInv'
  BY <1>1, <1>2, <1>7 DEF Acquire, TakeFails, Deny
<1>8. ASSUME NEW r \in Requests, TakeTransaction(r) PROVE CommitInv'
  <2>1. \A q \in Requests : q # r => work'[q] = work[q]
    BY <1>8 DEF TakeTransaction, TypeOK
  <2>2. pc' = [pc EXCEPT ![r] = "rejected"] \/ pc' = [pc EXCEPT ![r] = "validating"]
    BY <1>8 DEF TakeTransaction
  <2> QED BY <1>1, <1>2, <1>8, <2>1, <2>2 DEF TakeTransaction
<1>9. ASSUME NEW r \in Requests, NEW read \in work[r].unchecked, ReadUnchanged(r, read)
      PROVE  CommitInv'
  <2>1. \A q \in Requests : work'[q].snapshot = work[q].snapshot
    BY <1>9 DEF ReadUnchanged, TypeOK, Work
  <2> QED BY <1>0, <1>9, <2>1 DEF ReadUnchanged
<1>10. ASSUME NEW r \in Requests, NEW read \in work[r].unchecked, ReadChanged(r, read)
       PROVE  CommitInv'
  BY <1>2, <1>10, EndStep DEF ReadChanged, Final
<1>11. ASSUME NEW r \in Requests, Load(r) PROVE CommitInv'
  <2>1. mtx[r] = "none"
    BY <1>2, <1>11 DEF Load, Validated
  <2>2. \A q \in Requests : q # r => work'[q] = work[q]
    BY <1>11 DEF Load, TypeOK
  <2>3. CASE Passes(job[r].batch, store)
    BY <1>1, <1>11, <2>1, <2>2, <2>3 DEF Load
  <2>4. CASE ~Passes(job[r].batch, store)
    <3>1. \A q \in Requests : mtx[q] = "prepared" => work'[q].snapshot = work[q].snapshot
      BY <2>1, <2>2
    <3> QED BY <1>11, <2>1, <2>4, <3>1, EndStep DEF Load, Final
  <2> QED BY <2>3, <2>4
<1>12. ASSUME NEW r \in Requests, Persist(r) PROVE CommitInv'
  BY <1>12, PersistStep
<1>13. ASSUME NEW r \in Requests, WriteConflict(r) \/ CommitTransient(r) PROVE CommitInv'
  <2>1. mtx[r] # "committed" /\ Restart(r)
    BY <1>2, <1>13 DEF WriteConflict, CommitTransient
  <2> QED BY <2>1, RestartWithdraws
<1>14. ASSUME NEW r \in Requests, StorageFails(r) PROVE CommitInv'
  BY <1>2, <1>14, EndStep DEF StorageFails, Final
<1>15. ASSUME NEW r \in Requests, CommitFails(r) PROVE CommitInv'
  <2>1. \A q \in Requests : pc'[q] = IF q = r THEN "rejected" ELSE pc[q]
    BY <1>15, EndType DEF CommitFails, Final
  <2>2. ControlInv'
    BY <1>15, <2>1 DEF CommitFails, CommitInv, ControlInv, TypeOK
  <2> QED BY <1>15, <2>2, WithdrawStep DEF CommitFails
<1>16. ASSUME NEW r \in Requests, Disconnect(r) PROVE CommitInv'
  BY <1>16, EndStep DEF Disconnect, Final
<1>17. ASSUME NEW r \in Requests, ServerCommits(r) PROVE CommitInv'
  BY <1>17, ServerCommitsStep
<1>18. ASSUME NEW r \in Requests, ServerAborts(r) PROVE CommitInv'
  <2>1. ControlInv'
    BY <1>18 DEF ServerAborts, CommitInv, ControlInv, TypeOK
  <2> QED BY <1>18, <2>1, WithdrawStep DEF ServerAborts
<1>19. ASSUME NEW r \in Requests, CommitReply(r) PROVE CommitInv'
  <2>1. ControlInv'
    BY <1>19 DEF CommitReply, CommitInv, ControlInv, TypeOK
  <2> QED BY <1>19, <2>1, QuietStep DEF CommitReply
<1>20. ASSUME NEW r \in Requests, Publish(r) PROVE CommitInv'
  BY <1>20, EndStep DEF Publish, Final
<1>21. ASSUME NEW r \in Requests, CommitUnknown(r) PROVE CommitInv'
  <2>1. \A q \in Requests : work'[q].snapshot = work[q].snapshot
    BY <1>21 DEF CommitUnknown, TypeOK, Work
  <2>2. CASE work[r].tries + 1 = MaxTries
    BY <1>21, <2>1, <2>2, EndStep DEF CommitUnknown, Final
  <2>3. CASE work[r].tries + 1 # MaxTries
    BY <1>0, <1>21, <2>1, <2>3 DEF CommitUnknown
  <2> QED BY <2>2, <2>3
<1>22. ASSUME NEW i \in Instances, Crash(i) PROVE CommitInv'
  <2>1. \A q \in Requests : pc'[q] = IF job[q].inst = i /\ pc[q] \in Live THEN "gone" ELSE pc[q]
    BY <1>22 DEF Crash
  <2>2. ControlInv'
    BY <1>22, <2>1 DEF Crash, CommitInv, ControlInv, Live
  <2> QED BY <1>22, <2>2, QuietStep DEF Crash
<1>23. ASSUME ClearData PROVE CommitInv'
  <2>1. \A r \in Requests : mtx'[r] # "prepared"
    BY <1>23 DEF ClearData
  <2> QED BY <1>23, <2>1 DEF ClearData, CommitInv, ControlInv, SnapshotsCurrent,
                             WritersDisjoint, HistoryInv, Committed
<1>24. CASE UNCHANGED vars
  BY <1>0, <1>24 DEF vars
<1> QED
  BY <1>3, <1>4, <1>5, <1>6, <1>7, <1>8, <1>9, <1>10, <1>11, <1>12, <1>13, <1>14, <1>15,
     <1>16, <1>17, <1>18, <1>19, <1>20, <1>21, <1>22, <1>23, <1>24
  DEF Next, ClientStep, LockStep, TaskStep, FaultStep
-----------------------------------------------------------------------------
(* What commits replace.                                                   *)

\* Only MongoDB's commit makes history.
LEMMA HistoryStep ==
    ASSUME [Next]_vars
    PROVE  UNCHANGED history \/ \E r \in Requests : ServerCommits(r)
BY DEF Next, ClientStep, LockStep, TaskStep, FaultStep, BeginTransaction, TransactionRead,
       RollbackOrExpire, Receive, Deny, Acquire, TakeTransaction, TakeFails, ReadUnchanged,
       ReadChanged, Load, Persist, WriteConflict, Restart, StorageFails, ServerAborts,
       CommitReply, CommitUnknown, CommitTransient, CommitFails, Publish, Disconnect, Crash,
       ClearData, vars

\* When a commit takes effect, the rows it writes are the rows it loaded.
LEMMA CommitReplacesWhatItRead ==
    ASSUME TypeInv, CommitInv, [Next]_vars, CommitHappens,
           NEW d \in RowOps(NewCommit.writes, NewCommit.before)
    PROVE  NewCommit.before[d] = store[d]
<1>1. history \in Seq(Entry)
  BY DEF TypeInv, TypeOK
<1>2. PICK r \in Requests : ServerCommits(r)
  BY HistoryStep DEF CommitHappens
<1> DEFINE c == [req |-> r, at |-> job[r].now, reads |-> ReadBy(r), writes |-> job[r].batch,
                 before |-> Before(r), after |-> After(r)]
<1>3. history' = Append(history, c)
  BY <1>2 DEF ServerCommits
<1>4. c.writes = job[r].batch /\ c.before = work[r].snapshot
  BY DEF Before
<1> HIDE DEF c
<1>5. NewCommit = c
  BY <1>1, <1>3 DEF NewCommit
<1>6. d \in RowsWritten(r)
  BY <1>4, <1>5 DEF RowsWritten
<1>7. store[d] = work[r].snapshot[d]
  BY <1>2, <1>6 DEF ServerCommits, CommitInv, SnapshotsCurrent
<1> QED BY <1>4, <1>5, <1>7

\* No commit of any instance overwrites or deletes a row other than the one
\* its writes were computed from, whatever was retried, abandoned or dropped.
THEOREM RowDeltasAreExact == Spec => ExactRowDeltas
<1>1. TypeInv /\ CommitInv /\ [Next]_vars =>
        [CommitHappens => \A d \in RowOps(NewCommit.writes, NewCommit.before) :
                             NewCommit.before[d] = store[d]]_vars
  BY CommitReplacesWhatItRead
<1> QED BY <1>1, TypeInit, TypeNext, CommitInit, CommitNext, PTL DEF Spec, ExactRowDeltas

\* What a client is told of its commit is what happened to it.
THEOREM AnswersAreTruthful == Spec => []AnswersTruthful
<1>1. TypeInv /\ CommitInv => AnswersTruthful
  BY DEF TypeInv, TypeOK, CommitInv, ControlInv, HistoryInv, AnswersTruthful
<1> QED BY <1>1, TypeInit, TypeNext, CommitInit, CommitNext, PTL DEF Spec
-----------------------------------------------------------------------------
(* One effect for one request, and for one transaction.                    *)

\* A request has taken its transaction: it is working on it or has handed
\* its writes to MongoDB.
Took(r) ==
    /\ job[r].token # NoToken
    /\ pc[r] \in {"validating", "starting", "persisting", "committing"} \/ mtx[r] # "none"

\* A transaction that was taken is gone, and was taken by one request.
TakenInv ==
    /\ \A r \in Requests : Took(r) => txns[job[r].token].state = "gone"
    /\ \A q, r \in Requests : Took(q) /\ Took(r) /\ job[q].token = job[r].token => q = r

\* A step by which nobody takes a transaction and none comes back.
LEMMA NobodyTakes ==
    ASSUME TypeOK, TakenInv, \A r \in Requests : Took(r)' => Took(r) /\ job'[r] = job[r],
           \A t \in Tokens : txns[t].state = "gone" => txns'[t].state = "gone"
    PROVE  TakenInv'
<1>1. \A r \in Requests : Took(r) => job[r].token \in Tokens
  BY DEF Took, TypeOK, Job
<1> QED BY <1>1 DEF TakenInv

\* Every step keeps the rule that only the taker of a transaction gets on with it.
LEMMA TakenNext == TypeInv /\ CommitInv /\ TakenInv /\ [Next]_vars => TakenInv'
<1> SUFFICES ASSUME TypeInv, CommitInv, TakenInv, [Next]_vars PROVE TakenInv'
  OBVIOUS
<1> USE DEF TypeInv
<1>1. ASSUME UNCHANGED <<txns, pc, job, mtx>> PROVE TakenInv'
  BY <1>1, NobodyTakes DEF Took
<1>2. ASSUME NEW r \in Requests, NEW outcome \in Final, End(r, outcome),
             UNCHANGED <<txns, job>>, mtx' = mtx \/ mtx' = [mtx EXCEPT ![r] = "none"]
      PROVE  TakenInv'
  <2>1. \A q \in Requests : pc'[q] = IF q = r THEN outcome ELSE pc[q]
    BY <1>2, EndType
  <2>2. \A q \in Requests : mtx'[q] # "none" => mtx[q] # "none"
    BY <1>2 DEF TypeOK
  <2>3. outcome \notin {"validating", "starting", "persisting", "committing"}
    BY DEF Final
  <2> QED BY <1>2, <2>1, <2>2, <2>3, NobodyTakes DEF Took
<1>3. ASSUME NEW r \in Requests, NEW to, pc' = [pc EXCEPT ![r] = to],
             UNCHANGED <<txns, job, mtx>>,
             \/ to \in {"rejected", "aborted", "publishing"}
             \/ pc[r] \in {"validating", "starting", "persisting", "committing"}
             \/ job[r].token = NoToken
      PROVE  TakenInv'
  <2>1. \A q \in Requests : Took(q)' => Took(q)
    BY <1>3 DEF Took, TypeOK
  <2> QED BY <1>3, <2>1, NobodyTakes
<1>4. ASSUME NEW t \in Tokens, NEW i \in Instances, NEW readOnly \in BOOLEAN,
             BeginTransaction(t, i, readOnly)
      PROVE  TakenInv'
  <2>1. \A u \in Tokens : txns[u].state = "gone" => txns'[u].state = "gone"
    BY <1>4 DEF BeginTransaction, TypeOK
  <2> QED BY <1>4, <2>1, NobodyTakes DEF BeginTransaction, Took
<1>5. ASSUME NEW t \in Tokens, NEW d \in Docs, NEW i \in Instances, TransactionRead(t, d, i)
      PROVE  TakenInv'
  <2>1. \A u \in Tokens : txns[u].state = "gone" => txns'[u].state = "gone"
    BY <1>5 DEF TransactionRead, TypeOK, Txn
  <2> QED BY <1>5, <2>1, NobodyTakes DEF TransactionRead, Took
<1>6. ASSUME NEW t \in Tokens, RollbackOrExpire(t) PROVE TakenInv'
  <2>1. \A u \in Tokens : txns[u].state = "gone" => txns'[u].state = "gone"
    BY <1>6 DEF RollbackOrExpire, TypeOK, Txn
  <2> QED BY <1>6, <2>1, NobodyTakes DEF RollbackOrExpire, Took
<1>7. ASSUME NEW r \in Requests, NEW i \in Instances, NEW surface \in Surfaces,
             NEW token \in Tokens \cup {NoToken}, NEW batch \in WriteSets,
             Receive(r, i, surface, token, batch)
      PROVE  TakenInv'
  <2>1. mtx[r] = "none" /\ pc'[r] = "waiting"
    BY <1>7 DEF Receive, CommitInv, ControlInv, TypeOK
  <2>2. \A q \in Requests : q # r => job'[q] = job[q] /\ pc'[q] = pc[q]
    BY <1>7 DEF Receive, TypeOK
  <2>3. \A q \in Requests : Took(q)' => Took(q) /\ job'[q] = job[q]
    BY <1>7, <2>1, <2>2 DEF Receive, Took
  <2> QED BY <1>7, <2>3, NobodyTakes DEF Receive
<1>8. ASSUME NEW r \in Requests, Acquire(r) \/ TakeFails(r) \/ Deny(r) PROVE TakenInv'
  BY <1>3, <1>8 DEF Acquire, TakeFails, Deny
<1>9. ASSUME NEW r \in Requests, TakeTransaction(r) PROVE TakenInv'
  <2> DEFINE t == job[r].token
  <2>1. t \in Tokens /\ t # NoToken /\ txns[t].state = "active" /\ UNCHANGED <<job, mtx>>
    BY <1>9 DEF TakeTransaction, Known, TypeOK, Job
  <2>2. /\ txns'[t].state = "gone"
        /\ \A u \in Tokens : txns[u].state = "gone" => txns'[u].state = "gone"
    BY <1>9, <2>1 DEF TakeTransaction, TypeOK, Txn
  <2>3. \A q \in Requests : Took(q) => job[q].token # t
    BY <2>1 DEF TakenInv
  <2>4. \A q \in Requests : q # r => pc'[q] = pc[q]
    BY <1>9 DEF TakeTransaction, TypeOK
  <2>5. \A q \in Requests : q # r /\ Took(q)' => Took(q)
    BY <2>1, <2>4 DEF Took
  <2>6. \A q \in Requests : Took(q) => job[q].token \in Tokens
    BY DEF Took, TypeOK, Job
  <2>7. \A q \in Requests : Took(q)' => txns'[job'[q].token].state = "gone"
    BY <2>1, <2>2, <2>5, <2>6 DEF TakenInv
  <2>8. \A p, q \in Requests : Took(p)' /\ Took(q)' /\ job'[p].token = job'[q].token => p = q
    BY <2>1, <2>3, <2>5 DEF TakenInv
  <2> QED BY <2>7, <2>8 DEF TakenInv
<1>10. ASSUME NEW r \in Requests, NEW read \in work[r].unchecked, ReadUnchanged(r, read)
       PROVE  TakenInv'
  BY <1>1, <1>10 DEF ReadUnchanged
<1>11. ASSUME NEW r \in Requests, NEW read \in work[r].unchecked, ReadChanged(r, read)
       PROVE  TakenInv'
  BY <1>2, <1>11 DEF ReadChanged, Final
<1>12. ASSUME NEW r \in Requests, Load(r) PROVE TakenInv'
  <2>1. pc[r] \in {"validating", "starting"}
    BY <1>12 DEF Load, Validated
  <2>2. CASE Passes(job[r].batch, store)
    BY <1>3, <1>12, <2>1, <2>2 DEF Load
  <2>3. CASE ~Passes(job[r].batch, store)
    BY <1>2, <1>12, <2>3 DEF Load, Final
  <2> QED BY <2>2, <2>3
<1>13. ASSUME NEW r \in Requests, Persist(r) PROVE TakenInv'
  <2>1. \A q \in Requests : Took(q)' => Took(q)
    BY <1>13 DEF Persist, Took, TypeOK
  <2> QED BY <1>13, <2>1, NobodyTakes DEF Persist
<1>14. ASSUME NEW r \in Requests, WriteConflict(r) \/ CommitTransient(r) PROVE TakenInv'
  <2>1. Restart(r) /\ pc[r] \in {"persisting", "committing"}
    BY <1>14 DEF WriteConflict, CommitTransient
  <2>2. \A q \in Requests : Took(q)' => Took(q)
    BY <2>1, RestartEffect DEF Took, TypeOK
  <2> QED BY <2>1, <2>2, RestartEffect, NobodyTakes
<1>15. ASSUME NEW r \in Requests, StorageFails(r) \/ CommitFails(r) \/ Disconnect(r)
       PROVE  TakenInv'
  BY <1>2, <1>15 DEF StorageFails, CommitFails, Disconnect, Final
<1>16. ASSUME NEW r \in Requests, ServerCommits(r) \/ ServerAborts(r) PROVE TakenInv'
  <2>1. \A q \in Requests : Took(q)' => Took(q)
    BY <1>16 DEF ServerCommits, ServerAborts, Took, TypeOK
  <2> QED BY <1>16, <2>1, NobodyTakes DEF ServerCommits, ServerAborts
<1>17. ASSUME NEW r \in Requests, CommitReply(r) PROVE TakenInv'
  BY <1>3, <1>17 DEF CommitReply
<1>18. ASSUME NEW r \in Requests, Publish(r) PROVE TakenInv'
  BY <1>2, <1>18 DEF Publish, Final
<1>19. ASSUME NEW r \in Requests, CommitUnknown(r) PROVE TakenInv'
  <2>1. CASE work[r].tries + 1 = MaxTries
    BY <1>2, <1>19, <2>1 DEF CommitUnknown, Final
  <2>2. CASE work[r].tries + 1 # MaxTries
    BY <1>1, <1>19, <2>2 DEF CommitUnknown
  <2> QED BY <2>1, <2>2
<1>20. ASSUME NEW i \in Instances, Crash(i) PROVE TakenInv'
  <2>1. \A q \in Requests : pc'[q] = IF job[q].inst = i /\ pc[q] \in Live THEN "gone" ELSE pc[q]
    BY <1>20 DEF Crash
  <2>2. \A q \in Requests : Took(q)' => Took(q)
    BY <1>20, <2>1 DEF Crash, Took
  <2>3. \A t \in Tokens : txns[t].state = "gone" => txns'[t].state = "gone"
    BY <1>20 DEF Crash
  <2> QED BY <1>20, <2>2, <2>3, NobodyTakes DEF Crash
<1>21. ASSUME ClearData PROVE TakenInv'
  BY <1>1, <1>21 DEF ClearData
<1>22. CASE UNCHANGED vars
  BY <1>1, <1>22 DEF vars
<1> QED
  BY <1>4, <1>5, <1>6, <1>7, <1>8, <1>9, <1>10, <1>11, <1>12, <1>13, <1>14, <1>15, <1>16,
     <1>17, <1>18, <1>19, <1>20, <1>21, <1>22
  DEF Next, ClientStep, LockStep, TaskStep, FaultStep

\* However often a transaction is restarted, a commit resent or a Commit
\* repeated by its client, it takes effect at most once.
THEOREM EffectsHappenOnce == Spec => []CommitsOnce
<1>1. Init => TakenInv
  BY DEF Init, TakenInv, Took
<1>2. TypeInv /\ CommitInv /\ TakenInv => CommitsOnce
  <2> SUFFICES ASSUME TypeInv, CommitInv, TakenInv,
                      NEW j \in DOMAIN history, NEW k \in DOMAIN history, j # k
               PROVE  /\ history[j].req # history[k].req
                      /\ \/ job[history[j].req].token = NoToken
                         \/ job[history[j].req].token # job[history[k].req].token
    BY DEF CommitsOnce
  <2>0. history \in Seq(Entry)
    BY DEF TypeInv, TypeOK
  <2>1. history[j].req \in Requests /\ history[k].req \in Requests
    <3>1. history[j] \in Entry /\ history[k] \in Entry
      BY <2>0
    <3> QED BY <3>1 DEF Entry
  <2>2. history[j].req # history[k].req
    BY DEF CommitInv, HistoryInv
  <2>3. mtx[history[j].req] = "committed" /\ mtx[history[k].req] = "committed"
    BY <2>1 DEF CommitInv, HistoryInv, Committed
  <2> QED BY <2>1, <2>2, <2>3 DEF TakenInv, Took
<1> QED BY <1>1, <1>2, TypeInit, TypeNext, CommitInit, CommitNext, TakenNext, PTL DEF Spec
-----------------------------------------------------------------------------
(* Lost updates.                                                           *)

\* The store changes only when MongoDB commits or the data is cleared.
LEMMA StoreStep ==
    ASSUME [Next]_vars
    PROVE  \/ UNCHANGED <<store, history>>
           \/ \E r \in Requests : ServerCommits(r)
           \/ ClearData
BY ZenonT(60) DEF Next, ClientStep, LockStep, TaskStep, FaultStep, BeginTransaction, TransactionRead,
       RollbackOrExpire, Receive, Deny, Acquire, TakeTransaction, TakeFails, ReadUnchanged,
       ReadChanged, Load, Persist, WriteConflict, Restart, StorageFails, ServerAborts,
       CommitReply, CommitUnknown, CommitTransient, CommitFails, Publish, Disconnect, Crash,
       vars

\* What one commit does to one document: it leaves its own mark, or deletes;
\* a merge leaves every mark that was there.
LEMMA CommitMarks ==
    ASSUME TypeInv, CommitInv, NEW r \in Requests, ServerCommits(r), NEW d \in Changed(job[r].batch)
    PROVE  /\ job[r].batch[d].op # "delete" =>
                store'[d] # NoRow /\ r \in store'[d].marks
           /\ job[r].batch[d].op = "merge" /\ store[d] # NoRow =>
                store[d].marks \subseteq store'[d].marks
<1>1. d \in DOMAIN job[r].batch /\ job[r].batch[d].op # "verify"
  BY DEF Changed
<1>2. job[r].batch \in Batch
  BY DEF TypeInv, TypeOK, Job
<1>3. d \in Docs
  BY <1>2, ChangedAreDocs
<1>4. SUFFICES ASSUME job[r].batch[d].op # "delete"
               PROVE  /\ store'[d] # NoRow /\ r \in store'[d].marks
                      /\ job[r].batch[d].op = "merge" /\ store[d] # NoRow =>
                           store[d].marks \subseteq store'[d].marks
  OBVIOUS
<1>5. d \in RowsWritten(r)
  BY <1>4 DEF RowsWritten, RowOps
<1>6. store[d] = work[r].snapshot[d] /\ store[d] \in RowOrNone
  BY <1>3, <1>5 DEF ServerCommits, CommitInv, SnapshotsCurrent, TypeInv, TypeOK
<1>7. store'[d] = Written(job[r].batch[d], store[d], job[r].now, r)
  BY <1>3, <1>5, <1>6 DEF ServerCommits, After, Before
<1>8. job[r].now \in Nat
  BY DEF TypeInv, TypeOK, Job
<1>9. store'[d] \in Row /\ r \in store'[d].marks
  BY <1>4, <1>6, <1>7, <1>8 DEF Written, Row, RowOrNone
<1>10. job[r].batch[d].op = "merge" /\ store[d] # NoRow => store[d].marks \subseteq store'[d].marks
  BY <1>6, <1>7 DEF Written
<1> QED BY <1>9, <1>10, NoRowAssumption

\* Every step keeps every update in place, as long as nobody clears the store.
LEMMA NoLostUpdateNext ==
    ASSUME "clear" \notin Faults, TypeInv, CommitInv, NoLostUpdate, [Next]_vars
    PROVE  NoLostUpdate'
<1>1. CASE UNCHANGED <<store, history>>
  BY <1>1 DEF NoLostUpdate
<1>2. ASSUME NEW r \in Requests, ServerCommits(r)
      PROVE  NoLostUpdate'
  <2> DEFINE c == [req |-> r, at |-> job[r].now, reads |-> ReadBy(r), writes |-> job[r].batch,
                   before |-> Before(r), after |-> After(r)]
             n == Len(history) + 1
  <2>1. history \in Seq(Entry) /\ history' = Append(history, c)
    BY <1>2 DEF TypeInv, TypeOK, ServerCommits
  <2>2. c.req = r /\ c.writes = job[r].batch
    OBVIOUS
  <2> HIDE DEF c
  <2>3. /\ n \in Nat /\ Len(history') = n
        /\ DOMAIN history = 1 .. n - 1 /\ DOMAIN history' = 1 .. n
        /\ \A k \in 1 .. n - 1 : history'[k] = history[k]
        /\ history'[n] = c
    BY <2>1
  <2> HIDE DEF n
  <2> SUFFICES ASSUME NEW k \in 1 .. n, NEW d \in Changed(history'[k].writes)
               PROVE  \/ store'[d] # NoRow /\ history'[k].req \in store'[d].marks
                      \/ history'[k].writes[d].op = "delete"
                      \/ \E l \in k + 1 .. n :
                           /\ d \in Changed(history'[l].writes)
                           /\ history'[l].writes[d].op # "merge"
    BY <2>3 DEF NoLostUpdate, Changed
  <2>4. CASE k = n
    BY <1>2, <2>2, <2>3, <2>4, CommitMarks
  <2>5. CASE k # n
    <3>1. k \in 1 .. n - 1 /\ history'[k] = history[k] /\ k \in DOMAIN history
      BY <2>3, <2>5
    <3>2. \/ store[d] # NoRow /\ history[k].req \in store[d].marks
          \/ history[k].writes[d].op = "delete"
          \/ \E l \in k + 1 .. n - 1 :
               d \in Changed(history[l].writes) /\ history[l].writes[d].op # "merge"
      BY <2>3, <3>1 DEF NoLostUpdate
    <3>3. CASE history[k].writes[d].op = "delete"
      BY <3>1, <3>3
    <3>4. CASE \E l \in k + 1 .. n - 1 :
                 d \in Changed(history[l].writes) /\ history[l].writes[d].op # "merge"
      <4>1. PICK l \in k + 1 .. n - 1 :
                 d \in Changed(history[l].writes) /\ history[l].writes[d].op # "merge"
        BY <3>4
      <4>2. l \in 1 .. n - 1 /\ l \in k + 1 .. n /\ history'[l] = history[l]
        BY <2>3, <3>1, <4>1
      <4> QED BY <4>1, <4>2
    <3>5. CASE store[d] # NoRow /\ history[k].req \in store[d].marks
      <4>1. CASE d \notin Changed(job[r].batch)
        <5>1. d \notin RowsWritten(r)
          BY <4>1 DEF RowsWritten, RowOps
        <5>2. d \in Docs
          <6>1. history[k] \in Entry
            BY <2>1, <3>1
          <6>2. history[k].writes \in Batch
            BY <6>1 DEF Entry
          <6> QED BY <3>1, <6>2, ChangedAreDocs
        <5> QED BY <1>2, <3>1, <3>5, <5>1, <5>2 DEF ServerCommits
      <4>2. CASE d \in Changed(job[r].batch) /\ job[r].batch[d].op = "merge"
        BY <1>2, <3>1, <3>5, <4>2, CommitMarks
      <4>3. CASE d \in Changed(job[r].batch) /\ job[r].batch[d].op # "merge"
        <5>1. n \in k + 1 .. n
          BY <2>3, <3>1
        <5> QED BY <2>2, <2>3, <4>3, <5>1
      <4> QED BY <4>1, <4>2, <4>3
    <3> QED BY <3>2, <3>3, <3>4, <3>5
  <2> QED BY <2>4, <2>5
<1>3. ~ClearData
  BY DEF ClearData
<1> QED BY <1>1, <1>2, <1>3, StoreStep

\* Unless the data is cleared, every update stays in its document until a
\* later commit replaces or deletes it, on any number of instances.
THEOREM UpdatesAreKept ==
    ASSUME "clear" \notin Faults
    PROVE  Spec => []NoLostUpdate
<1>1. Init => NoLostUpdate
  <2> SUFFICES ASSUME Init PROVE NoLostUpdate
    OBVIOUS
  <2>1. DOMAIN history = {}
    BY DEF Init
  <2> QED BY <2>1 DEF NoLostUpdate
<1>2. TypeInv /\ CommitInv /\ NoLostUpdate /\ [Next]_vars => NoLostUpdate'
  BY NoLostUpdateNext
<1> QED BY <1>1, <1>2, TypeInit, TypeNext, CommitInit, CommitNext, PTL DEF Spec
-----------------------------------------------------------------------------
(* What the hubs publish.                                                  *)

\* What a hub has published are commits of its own instance whose callers had
\* their answer, each once, and whatever was answered has been published.
PublishedInv ==
    /\ \A i \in Instances : \A a \in DOMAIN hub[i] :
         pc[hub[i][a]] = "ok" /\ job[hub[i][a]].inst = i
    /\ \A i \in Instances : \A a, b \in DOMAIN hub[i] : hub[i][a] = hub[i][b] => a = b
    /\ \A r \in Requests : pc[r] = "ok" =>
         \E a \in DOMAIN hub[job[r].inst] : hub[job[r].inst][a] = r

\* A Commit call that has taken effect and will publish.
InLine(r) ==
    /\ pc[r] \in {"committing", "publishing"} /\ mtx[r] = "committed"
    /\ job[r].surface = "commit"

\* It took effect after every Commit call its instance has published: it holds
\* the lock they held until they had.
NextInLine ==
    \A r \in Requests : InLine(r) =>
        \A a \in DOMAIN hub[job[r].inst] :
            job[hub[job[r].inst][a]].surface = "commit"
            => Position(hub[job[r].inst][a]) < Position(r)

HubInv == PublishedInv /\ NextInLine /\ PublishedInOrder

\* A commit has one place in the history.
LEMMA PositionOf ==
    ASSUME HistoryInv, NEW r \in Committed
    PROVE  Position(r) \in DOMAIN history /\ history[Position(r)].req = r
<1>1. \E k \in DOMAIN history : history[k].req = r
  BY DEF Committed
<1> QED BY <1>1 DEF Position

\* Published requests are requests, and commits.
LEMMA PublishedCommitted ==
    ASSUME TypeInv, CommitInv, PublishedInv, NEW i \in Instances, NEW a \in DOMAIN hub[i]
    PROVE  /\ hub[i][a] \in Requests /\ hub[i][a] \in Committed
           /\ pc[hub[i][a]] = "ok" /\ job[hub[i][a]].inst = i
<1>1. hub[i] \in Seq(Requests)
  BY DEF TypeInv, TypeOK
<1>2. hub[i][a] \in Requests
  BY <1>1
<1>3. pc[hub[i][a]] = "ok" /\ job[hub[i][a]].inst = i
  BY DEF PublishedInv
<1> QED BY <1>2, <1>3 DEF CommitInv, ControlInv, HistoryInv

\* A step by which nothing is published or committed and nobody is answered ok.
LEMMA HubQuiet ==
    ASSUME TypeInv, CommitInv, HubInv, UNCHANGED <<hub, history>>,
           \A q \in Requests : pc'[q] = "ok" <=> pc[q] = "ok",
           \A q \in Requests : pc[q] # "new" => job'[q] = job[q],
           \A q \in Requests : InLine(q)' => InLine(q)
    PROVE  HubInv'
<1>1. \A i \in Instances : \A a \in DOMAIN hub[i] :
        /\ hub[i][a] \in Requests /\ pc[hub[i][a]] = "ok" /\ job[hub[i][a]].inst = i
        /\ job'[hub[i][a]] = job[hub[i][a]]
  BY PublishedCommitted DEF HubInv
<1>2. PublishedInv'
  BY <1>1 DEF HubInv, PublishedInv
<1>3. \A q : Position(q)' = Position(q)
  BY DEF Position
<1>4. PublishedInOrder'
  BY <1>1, <1>3 DEF HubInv, PublishedInOrder
<1>5. NextInLine'
  <2> SUFFICES ASSUME NEW r \in Requests, InLine(r)', NEW a \in DOMAIN hub[job'[r].inst],
                      job'[hub[job'[r].inst][a]].surface = "commit"
               PROVE  Position(hub[job'[r].inst][a]) < Position(r)
    BY <1>3 DEF NextInLine
  <2>1. InLine(r) /\ job'[r] = job[r]
    BY DEF InLine
  <2>2. job[r].inst \in Instances
    BY DEF TypeInv, TypeOK, Job
  <2>3. job[hub[job[r].inst][a]].surface = "commit"
    BY <1>1, <2>1, <2>2
  <2> QED BY <2>1, <2>3 DEF HubInv, NextInLine
<1> QED BY <1>2, <1>4, <1>5 DEF HubInv

\* A commit takes effect after all that came before it.
LEMMA HubCommits ==
    ASSUME TypeInv, CommitInv, HubInv, NEW r \in Requests, ServerCommits(r)
    PROVE  HubInv'
<1> DEFINE c == [req |-> r, at |-> job[r].now, reads |-> ReadBy(r), writes |-> job[r].batch,
                 before |-> Before(r), after |-> After(r)]
<1>1. UNCHANGED <<hub, pc, job>> /\ history' = Append(history, c) /\ c.req = r
  BY DEF ServerCommits
<1> HIDE DEF c
<1>2. history \in Seq(Entry)
  BY DEF TypeInv, TypeOK
<1>3. /\ Len(history) \in Nat /\ DOMAIN history = 1 .. Len(history)
      /\ DOMAIN history' = 1 .. Len(history) + 1
      /\ \A k \in DOMAIN history : history'[k] = history[k]
      /\ history'[Len(history) + 1].req = r
  BY <1>1, <1>2
<1>4. HistoryInv /\ HistoryInv'
  BY ServerCommitsStep DEF TypeInv, CommitInv
<1>5. ASSUME NEW q \in Committed
      PROVE  Position(q)' = Position(q) /\ Position(q) < Len(history) + 1
  <2>1. Position(q) \in DOMAIN history /\ history[Position(q)].req = q
    BY <1>4, PositionOf
  <2>2. Position(q) \in DOMAIN history' /\ history'[Position(q)].req = q
    BY <1>3, <2>1
  <2>3. \A k \in DOMAIN history' : history'[k].req = q => k = Position(q)
    BY <1>4, <2>2 DEF HistoryInv
  <2>4. (CHOOSE k \in DOMAIN history' : history'[k].req = q) = Position(q)
    BY <2>2, <2>3
  <2> QED BY <1>3, <2>1, <2>4 DEF Position
<1>6. Position(r)' = Len(history) + 1
  <2>1. Len(history) + 1 \in DOMAIN history'
    BY <1>3
  <2>2. \A k \in DOMAIN history' : history'[k].req = r => k = Len(history) + 1
    BY <1>3, <1>4, <2>1 DEF HistoryInv
  <2>3. (CHOOSE k \in DOMAIN history' : history'[k].req = r) = Len(history) + 1
    BY <1>3, <2>1, <2>2
  <2> QED BY <2>3 DEF Position
<1>7. PublishedInv'
  BY <1>1 DEF HubInv, PublishedInv
<1>8. \A i \in Instances : \A a \in DOMAIN hub[i] : hub[i][a] \in Committed
  BY PublishedCommitted DEF HubInv
<1>9. PublishedInOrder'
  BY <1>1, <1>5, <1>8 DEF HubInv, PublishedInOrder
<1>10. NextInLine'
  <2> SUFFICES ASSUME NEW q \in Requests, InLine(q)', NEW a \in DOMAIN hub[job[q].inst],
                      job[hub[job[q].inst][a]].surface = "commit"
               PROVE  Position(hub[job[q].inst][a])' < Position(q)'
    BY <1>1 DEF NextInLine
  <2>1. job[q].inst \in Instances
    BY DEF TypeInv, TypeOK, Job
  <2>2. hub[job[q].inst][a] \in Committed
    BY <1>8, <2>1
  <2>3. CASE q = r
    BY <1>1, <1>5, <1>6, <2>2, <2>3
  <2>4. CASE q # r
    <3>1. mtx'[q] = mtx[q]
      BY <2>4 DEF ServerCommits, TypeInv, TypeOK
    <3>2. InLine(q)
      BY <1>1, <3>1 DEF InLine
    <3>3. q \in Committed
      BY <3>2 DEF InLine, CommitInv, HistoryInv
    <3>4. Position(hub[job[q].inst][a]) < Position(q)
      BY <3>2 DEF HubInv, NextInLine
    <3> QED BY <1>1, <1>5, <2>2, <3>3, <3>4
  <2> QED BY <2>3, <2>4
<1> QED BY <1>7, <1>9, <1>10 DEF HubInv

\* Publishing: the lock kept every other Commit call of the instance out.
LEMMA HubPublishes ==
    ASSUME TypeInv, CommitInv, LockInv, HubInv, NEW r \in Requests, Publish(r)
    PROVE  HubInv'
<1> DEFINE i == job[r].inst
<1>1. /\ i \in Instances /\ hub \in [Instances -> Seq(Requests)] /\ hub[i] \in Seq(Requests)
      /\ pc[r] = "publishing" /\ UNCHANGED <<job, history, mtx>>
      /\ hub' = [hub EXCEPT ![i] = Append(@, r)]
  BY DEF TypeInv, TypeOK, Job, Publish
<1>2. \A q \in Requests : pc'[q] = IF q = r THEN "ok" ELSE pc[q]
  BY EndType DEF Publish, Final, TypeInv
<1>3. /\ hub'[i] = Append(hub[i], r)
      /\ \A j \in Instances : j # i => hub'[j] = hub[j]
  BY <1>1
<1> DEFINE n == Len(hub[i])
<1>4. /\ n \in Nat /\ DOMAIN hub[i] = 1 .. n /\ DOMAIN hub'[i] = 1 .. n + 1
      /\ \A a \in 1 .. n : hub'[i][a] = hub[i][a]
      /\ hub'[i][n + 1] = r
  BY <1>1, <1>3
<1> HIDE DEF n
<1>5. \A j \in Instances : \A a \in DOMAIN hub[j] :
        /\ hub[j][a] \in Requests /\ pc[hub[j][a]] = "ok" /\ job[hub[j][a]].inst = j
        /\ hub[j][a] # r
  BY <1>1, PublishedCommitted DEF HubInv
<1>6. ASSUME NEW j \in Instances, NEW a \in DOMAIN hub'[j]
      PROVE  \/ a \in DOMAIN hub[j] /\ hub'[j][a] = hub[j][a]
             \/ j = i /\ a = n + 1 /\ hub'[j][a] = r
  <2>1. CASE j = i
    BY <1>4, <2>1
  <2>2. CASE j # i
    BY <1>3, <2>2
  <2> QED BY <2>1, <2>2
<1>7. \A j \in Instances : \A a \in DOMAIN hub[j] : a \in DOMAIN hub'[j] /\ hub'[j][a] = hub[j][a]
  <2> SUFFICES ASSUME NEW j \in Instances, NEW a \in DOMAIN hub[j]
               PROVE  a \in DOMAIN hub'[j] /\ hub'[j][a] = hub[j][a]
    OBVIOUS
  <2>1. CASE j = i
    BY <1>4, <2>1
  <2>2. CASE j # i
    BY <1>3, <2>2
  <2> QED BY <2>1, <2>2
<1>8. \A q : Position(q)' = Position(q)
  BY <1>1 DEF Position
<1>9. PublishedInv'
  <2>1. ASSUME NEW j \in Instances, NEW a \in DOMAIN hub'[j]
        PROVE  pc'[hub'[j][a]] = "ok" /\ job'[hub'[j][a]].inst = j
    <3>1. CASE a \in DOMAIN hub[j] /\ hub'[j][a] = hub[j][a]
      BY <1>1, <1>2, <1>5, <3>1
    <3>2. CASE j = i /\ hub'[j][a] = r
      BY <1>1, <1>2, <3>2
    <3> QED BY <1>6, <3>1, <3>2
  <2>2. ASSUME NEW j \in Instances, NEW a \in DOMAIN hub'[j], NEW b \in DOMAIN hub'[j],
               hub'[j][a] = hub'[j][b]
        PROVE  a = b
    <3>1. CASE a \in DOMAIN hub[j] /\ b \in DOMAIN hub[j]
      BY <1>7, <2>2, <3>1 DEF HubInv, PublishedInv
    <3>2. CASE a \notin DOMAIN hub[j] \/ b \notin DOMAIN hub[j]
      BY <1>5, <1>6, <2>2, <3>2
    <3> QED BY <3>1, <3>2
  <2>3. ASSUME NEW q \in Requests, pc'[q] = "ok"
        PROVE  \E a \in DOMAIN hub'[job'[q].inst] : hub'[job'[q].inst][a] = q
    <3>1. CASE q = r
      <4>1. n + 1 \in DOMAIN hub'[i]
        BY <1>4
      <4> QED BY <1>1, <1>4, <3>1, <4>1
    <3>2. CASE q # r
      <4>1. pc[q] = "ok"
        BY <1>2, <2>3, <3>2
      <4>2. PICK a \in DOMAIN hub[job[q].inst] : hub[job[q].inst][a] = q
        BY <4>1 DEF HubInv, PublishedInv
      <4>3. job[q].inst \in Instances
        BY DEF TypeInv, TypeOK, Job
      <4> QED BY <1>1, <1>7, <4>2, <4>3
    <3> QED BY <3>1, <3>2
  <2> QED BY <2>1, <2>2, <2>3 DEF PublishedInv
<1>10. mtx[r] = "committed"
  BY <1>1 DEF CommitInv, ControlInv
<1>11. ASSUME job[r].surface = "commit", NEW a \in DOMAIN hub[i],
              job[hub[i][a]].surface = "commit"
       PROVE  Position(hub[i][a]) < Position(r)
  BY <1>1, <1>10, <1>11 DEF HubInv, NextInLine, InLine
<1>12. PublishedInOrder'
  <2> SUFFICES ASSUME NEW j \in Instances, NEW a \in DOMAIN hub'[j], NEW b \in DOMAIN hub'[j],
                      a < b, job[hub'[j][a]].surface = "commit",
                      job[hub'[j][b]].surface = "commit"
               PROVE  Position(hub'[j][a]) < Position(hub'[j][b])
    BY <1>1, <1>8, ZenonT(60) DEF PublishedInOrder
  <2>1. CASE a \in DOMAIN hub[j] /\ b \in DOMAIN hub[j]
    BY <1>7, <2>1 DEF HubInv, PublishedInOrder
  <2>2. CASE ~(a \in DOMAIN hub[j] /\ b \in DOMAIN hub[j])
    <3>1. j = i /\ a \in 1 .. n + 1 /\ b \in 1 .. n + 1
      BY <1>4, <1>6, <2>2
    <3>2. a \in 1 .. n /\ b = n + 1
      BY <1>4, <2>2, <3>1
    <3> QED BY <1>4, <1>11, <3>1, <3>2
  <2> QED BY <2>1, <2>2
<1>13. NextInLine'
  <2> SUFFICES ASSUME NEW q \in Requests, InLine(q)', NEW a \in DOMAIN hub'[job[q].inst],
                      job[hub'[job[q].inst][a]].surface = "commit"
               PROVE  Position(hub'[job[q].inst][a]) < Position(q)
    BY <1>1, <1>8 DEF NextInLine
  <2>1. q # r /\ InLine(q)
    BY <1>1, <1>2 DEF InLine
  <2>2. job[q].inst \in Instances
    BY DEF TypeInv, TypeOK, Job
  <2>3. CASE hub'[job[q].inst][a] = r /\ job[q].inst = i
    <3>1. Critical(q) /\ Critical(r)
      BY <1>1, <2>1, <2>3 DEF InLine, Critical
    <3> QED BY <2>1, <2>3, <3>1 DEF LockInv
  <2>4. CASE a \in DOMAIN hub[job[q].inst] /\ hub'[job[q].inst][a] = hub[job[q].inst][a]
    BY <2>1, <2>4 DEF HubInv, NextInLine
  <2> QED BY <1>6, <2>2, <2>3, <2>4
<1> QED BY <1>9, <1>12, <1>13 DEF HubInv

\* Every step keeps what is published in order and complete.
LEMMA HubNext == TypeInv /\ CommitInv /\ LockInv /\ HubInv /\ [Next]_vars => HubInv'
<1> SUFFICES ASSUME TypeInv, CommitInv, LockInv, HubInv, [Next]_vars PROVE HubInv'
  OBVIOUS
<1>0. ASSUME UNCHANGED <<hub, history, pc, job, mtx>> PROVE HubInv'
  BY <1>0, HubQuiet DEF InLine
<1>1. ASSUME NEW r \in Requests, NEW outcome \in Final \ {"ok"}, End(r, outcome),
             pc[r] # "ok", UNCHANGED <<hub, history, job>>,
             mtx' = mtx \/ mtx' = [mtx EXCEPT ![r] = "none"]
      PROVE  HubInv'
  <2>1. \A q \in Requests : pc'[q] = IF q = r THEN outcome ELSE pc[q]
    BY <1>1, EndType DEF TypeInv
  <2>2. \A q \in Requests : mtx'[q] = "committed" => mtx[q] = "committed"
    BY <1>1 DEF TypeInv, TypeOK
  <2>3. outcome \notin {"committing", "publishing"}
    BY DEF Final
  <2> QED BY <1>1, <2>1, <2>2, <2>3, HubQuiet DEF InLine
<1>2. ASSUME NEW r \in Requests, NEW to, to # "ok", pc' = [pc EXCEPT ![r] = to], pc[r] # "ok",
             UNCHANGED <<hub, history>>, \A q \in Requests : pc[q] # "new" => job'[q] = job[q],
             to \in {"committing", "publishing"} => InLine(r) \/ mtx'[r] # "committed",
             mtx' = mtx \/ mtx' = [mtx EXCEPT ![r] = "none"]
                        \/ mtx' = [mtx EXCEPT ![r] = "prepared"]
      PROVE  HubInv'
  <2>1. \A q \in Requests : pc'[q] = IF q = r THEN to ELSE pc[q]
    BY <1>2 DEF TypeInv, TypeOK
  <2>2. \A q \in Requests : mtx'[q] = "committed" => mtx[q] = "committed"
    BY <1>2 DEF TypeInv, TypeOK
  <2>3. \A q \in Requests : InLine(q)' => InLine(q)
    <3> SUFFICES ASSUME NEW q \in Requests, InLine(q)' PROVE InLine(q)
      OBVIOUS
    <3>1. CASE q = r
      BY <1>2, <2>1, <3>1 DEF InLine
    <3>2. CASE q # r
      BY <1>2, <2>1, <2>2, <3>2 DEF InLine
    <3> QED BY <3>1, <3>2
  <2> QED BY <1>2, <2>1, <2>3, HubQuiet
<1>3. ASSUME NEW t \in Tokens, NEW i \in Instances, NEW readOnly \in BOOLEAN,
             BeginTransaction(t, i, readOnly)
      PROVE  HubInv'
  BY <1>0, <1>3 DEF BeginTransaction
<1>4. ASSUME NEW t \in Tokens, NEW d \in Docs, NEW i \in Instances, TransactionRead(t, d, i)
      PROVE  HubInv'
  BY <1>0, <1>4 DEF TransactionRead
<1>5. ASSUME NEW t \in Tokens, RollbackOrExpire(t) PROVE HubInv'
  BY <1>0, <1>5 DEF RollbackOrExpire
<1>6. ASSUME NEW r \in Requests, NEW i \in Instances, NEW surface \in Surfaces,
             NEW token \in Tokens \cup {NoToken}, NEW batch \in WriteSets,
             Receive(r, i, surface, token, batch)
      PROVE  HubInv'
  <2>1. \A q \in Requests : pc[q] # "new" => job'[q] = job[q]
    BY <1>6 DEF Receive, TypeInv, TypeOK
  <2> QED BY <1>2, <1>6, <2>1 DEF Receive
<1>7. ASSUME NEW r \in Requests, Acquire(r) \/ TakeFails(r) \/ Deny(r) PROVE HubInv'
  BY <1>2, <1>7 DEF Acquire, TakeFails, Deny
<1>8. ASSUME NEW r \in Requests, TakeTransaction(r) PROVE HubInv'
  <2>1. pc' = [pc EXCEPT ![r] = "rejected"] \/ pc' = [pc EXCEPT ![r] = "validating"]
    BY <1>8 DEF TakeTransaction
  <2> QED BY <1>2, <1>8, <2>1 DEF TakeTransaction
<1>9. ASSUME NEW r \in Requests, NEW read \in work[r].unchecked, ReadUnchanged(r, read)
      PROVE  HubInv'
  BY <1>0, <1>9 DEF ReadUnchanged
<1>10. ASSUME NEW r \in Requests, NEW read \in work[r].unchecked, ReadChanged(r, read)
       PROVE  HubInv'
  BY <1>1, <1>10 DEF ReadChanged, Final
<1>11. ASSUME NEW r \in Requests, Load(r) PROVE HubInv'
  <2>1. pc[r] \in {"validating", "starting"}
    BY <1>11 DEF Load, Validated
  <2>2. CASE Passes(job[r].batch, store)
    BY <1>2, <1>11, <2>1, <2>2 DEF Load
  <2>3. CASE ~Passes(job[r].batch, store)
    BY <1>1, <1>11, <2>1, <2>3 DEF Load, Final
  <2> QED BY <2>2, <2>3
<1>12. ASSUME NEW r \in Requests, Persist(r) PROVE HubInv'
  <2>1. mtx'[r] # "committed"
    BY <1>12 DEF Persist, TypeInv, TypeOK
  <2> QED BY <1>2, <1>12, <2>1 DEF Persist
<1>13. ASSUME NEW r \in Requests, WriteConflict(r) \/ CommitTransient(r) PROVE HubInv'
  <2>1. Restart(r) /\ pc[r] \in {"persisting", "committing"}
    BY <1>13 DEF WriteConflict, CommitTransient
  <2>2. CASE work[r].attempt + 1 = MaxAttempts
    BY <1>1, <2>1, <2>2 DEF Restart, Final
  <2>3. CASE work[r].attempt + 1 # MaxAttempts
    BY <1>2, <2>1, <2>3 DEF Restart
  <2> QED BY <2>2, <2>3
<1>14. ASSUME NEW r \in Requests, StorageFails(r) \/ CommitFails(r) PROVE HubInv'
  BY <1>1, <1>14 DEF StorageFails, CommitFails, Final
<1>15. ASSUME NEW r \in Requests, Disconnect(r) PROVE HubInv'
  <2>1. pc[r] # "ok"
    BY <1>15 DEF Disconnect, Live
  <2> QED BY <1>1, <1>15, <2>1 DEF Disconnect, Final
<1>16. ASSUME NEW r \in Requests, ServerCommits(r) PROVE HubInv'
  BY <1>16, HubCommits
<1>17. ASSUME NEW r \in Requests, ServerAborts(r) PROVE HubInv'
  <2>1. \A q \in Requests : mtx'[q] = "committed" => mtx[q] = "committed"
    BY <1>17 DEF ServerAborts, TypeInv, TypeOK
  <2> QED BY <1>17, <2>1, HubQuiet DEF ServerAborts, InLine
<1>18. ASSUME NEW r \in Requests, CommitReply(r) PROVE HubInv'
  <2>1. \A q \in Requests : pc'[q] = IF q = r THEN "publishing" ELSE pc[q]
    BY <1>18 DEF CommitReply, TypeInv, TypeOK
  <2>2. \A q \in Requests : InLine(q)' => InLine(q)
    BY <1>18, <2>1 DEF CommitReply, InLine
  <2> QED BY <1>18, <2>1, <2>2, HubQuiet DEF CommitReply
<1>19. ASSUME NEW r \in Requests, Publish(r) PROVE HubInv'
  BY <1>19, HubPublishes
<1>20. ASSUME NEW r \in Requests, CommitUnknown(r) PROVE HubInv'
  <2>1. CASE work[r].tries + 1 = MaxTries
    BY <1>1, <1>20, <2>1 DEF CommitUnknown, Final
  <2>2. CASE work[r].tries + 1 # MaxTries
    BY <1>0, <1>20, <2>2 DEF CommitUnknown
  <2> QED BY <2>1, <2>2
<1>21. ASSUME NEW i \in Instances, Crash(i) PROVE HubInv'
  <2>1. \A q \in Requests : pc'[q] = IF job[q].inst = i /\ pc[q] \in Live THEN "gone" ELSE pc[q]
    BY <1>21 DEF Crash
  <2>2. \A q \in Requests : pc'[q] = "ok" <=> pc[q] = "ok"
    BY <2>1 DEF Live
  <2>3. \A q \in Requests : InLine(q)' => InLine(q)
    BY <1>21, <2>1 DEF Crash, InLine
  <2> QED BY <1>21, <2>2, <2>3, HubQuiet DEF Crash
<1>22. ASSUME ClearData PROVE HubInv'
  BY <1>0, <1>22 DEF ClearData
<1>23. CASE UNCHANGED vars
  BY <1>0, <1>23 DEF vars
<1> QED
  BY <1>3, <1>4, <1>5, <1>6, <1>7, <1>8, <1>9, <1>10, <1>11, <1>12, <1>13, <1>14, <1>15,
     <1>16, <1>17, <1>18, <1>19, <1>20, <1>21, <1>22, <1>23
  DEF Next, ClientStep, LockStep, TaskStep, FaultStep

\* Nothing is published before anything is asked for.
LEMMA HubInit == Init => HubInv
<1> SUFFICES ASSUME Init PROVE HubInv
  OBVIOUS
<1>1. \A i \in Instances : DOMAIN hub[i] = {}
  BY DEF Init
<1>2. \A r \in Requests : pc[r] = "new"
  BY DEF Init
<1> QED BY <1>1, <1>2 DEF HubInv, PublishedInv, NextInLine, InLine, PublishedInOrder

\* The events of an instance's Commit calls come in the order of their commits,
\* through every retry, unknown outcome, disconnect and crash.
THEOREM EventsInCommitOrder == Spec => []PublishedInOrder
<1>1. Init => LockInv
  BY DEF Init, LockInv, Critical
<1>2. HubInv => PublishedInOrder
  BY DEF HubInv
<1> QED BY <1>1, <1>2, TypeInit, TypeNext, CommitInit, CommitNext, LockNext, HubInit, HubNext,
           PTL DEF Spec

\* No task ends without an answer that says what happened to its commit.
AllAnswered == \A r \in Requests : pc[r] \notin {"unknown", "gone"}

\* Only a caller that goes away, a process that dies or an outcome MongoDB does
\* not report ends a task that way.
LEMMA AllAnsweredNext ==
    ASSUME Faults \cap {"unknown", "disconnect", "crash"} = {},
           TypeInv, AllAnswered, [Next]_vars
    PROVE  AllAnswered'
<1>1. ASSUME UNCHANGED pc PROVE AllAnswered'
  BY <1>1 DEF AllAnswered
<1>2. ASSUME NEW r \in Requests, NEW to, pc' = [pc EXCEPT ![r] = to], to \notin {"unknown", "gone"}
      PROVE  AllAnswered'
  BY <1>2 DEF AllAnswered, TypeInv, TypeOK
<1>3. ASSUME NEW r \in Requests, Restart(r) PROVE AllAnswered'
  BY <1>3, RestartEffect DEF AllAnswered, TypeInv
<1>4. ASSUME NEW r \in Requests, LockStep(r) PROVE AllAnswered'
  <2>1. CASE Acquire(r) \/ TakeFails(r)
    BY <1>2, <2>1 DEF Acquire, TakeFails
  <2>2. CASE TakeTransaction(r)
    <3>1. pc' = [pc EXCEPT ![r] = "rejected"] \/ pc' = [pc EXCEPT ![r] = "validating"]
      BY <2>2 DEF TakeTransaction
    <3> QED BY <1>2, <3>1
  <2> QED BY <1>4, <2>1, <2>2 DEF LockStep
<1>5. ASSUME NEW r \in Requests, TaskStep(r) PROVE AllAnswered'
  <2>1. ASSUME NEW read \in work[r].unchecked, ReadUnchanged(r, read) \/ ReadChanged(r, read)
        PROVE  AllAnswered'
    BY <1>1, <1>2, <2>1 DEF ReadUnchanged, ReadChanged, End
  <2>2. CASE Load(r)
    <3>1. pc' = [pc EXCEPT ![r] = "rejected"] \/ pc' = [pc EXCEPT ![r] = "persisting"]
      BY <2>2 DEF Load, End
    <3> QED BY <1>2, <3>1
  <2>3. CASE Persist(r) \/ CommitReply(r) \/ Publish(r)
    <3>1. \/ pc' = [pc EXCEPT ![r] = "committing"] \/ pc' = [pc EXCEPT ![r] = "publishing"]
          \/ pc' = [pc EXCEPT ![r] = "ok"]
      BY <2>3 DEF Persist, CommitReply, Publish, End
    <3> QED BY <1>2, <3>1
  <2>4. CASE WriteConflict(r)
    BY <1>3, <2>4 DEF WriteConflict
  <2>5. CASE ServerCommits(r) \/ ServerAborts(r)
    BY <1>1, <2>5 DEF ServerCommits, ServerAborts
  <2> QED BY <1>5, <2>1, <2>2, <2>3, <2>4, <2>5 DEF TaskStep
<1>6. ASSUME FaultStep PROVE AllAnswered'
  <2>1. ASSUME NEW r \in Requests, Deny(r) \/ StorageFails(r) \/ CommitFails(r)
        PROVE  AllAnswered'
    BY <1>2, <2>1 DEF Deny, StorageFails, CommitFails, End
  <2>2. ASSUME NEW r \in Requests, CommitTransient(r) PROVE AllAnswered'
    BY <1>3, <2>2 DEF CommitTransient
  <2>3. \A r \in Requests : ~CommitUnknown(r) /\ ~Disconnect(r)
    BY DEF CommitUnknown, Disconnect
  <2>4. \A i \in Instances : ~Crash(i)
    BY DEF Crash
  <2>5. CASE ClearData
    BY <1>1, <2>5 DEF ClearData
  <2> QED BY <1>6, <2>1, <2>2, <2>3, <2>4, <2>5 DEF FaultStep
<1>7. ASSUME ClientStep PROVE AllAnswered'
  <2>1. ASSUME NEW r \in Requests, NEW i \in Instances, NEW surface \in Surfaces,
               NEW token \in Tokens \cup {NoToken}, NEW batch \in WriteSets,
               Receive(r, i, surface, token, batch)
        PROVE  AllAnswered'
    <3>1. pc' = [pc EXCEPT ![r] = "waiting"]
      BY <2>1 DEF Receive
    <3> QED BY <1>2, <3>1
  <2>2. ASSUME NEW t \in Tokens,
               \/ \E i \in Instances, readOnly \in BOOLEAN : BeginTransaction(t, i, readOnly)
               \/ \E d \in Docs, i \in Instances : TransactionRead(t, d, i)
               \/ RollbackOrExpire(t)
        PROVE  AllAnswered'
    BY <1>1, <2>2 DEF BeginTransaction, TransactionRead, RollbackOrExpire
  <2> QED BY <1>7, <2>1, <2>2 DEF ClientStep
<1>8. CASE UNCHANGED vars
  BY <1>1, <1>8 DEF vars
<1> QED BY <1>4, <1>5, <1>6, <1>7, <1>8 DEF Next

\* A commit whose task ends was published, on any number of instances and
\* whatever else fails, unless the task never learnt of the commit or was cut
\* off before it could publish.
THEOREM CommitsArePublished ==
    ASSUME Faults \cap {"unknown", "disconnect", "crash"} = {}
    PROVE  Spec => []EveryCommitPublished
<1>1. Init => LockInv
  BY DEF Init, LockInv, Critical
<1>2. Init => AllAnswered
  BY DEF Init, AllAnswered
<1>3. TypeInv /\ AllAnswered /\ [Next]_vars => AllAnswered'
  BY AllAnsweredNext
<1>4. TypeInv /\ CommitInv /\ HubInv /\ AllAnswered => EveryCommitPublished
  <2> SUFFICES ASSUME TypeInv, CommitInv, HubInv, AllAnswered, NEW r \in Committed, pc[r] \in Final
               PROVE  \E k \in DOMAIN hub[job[r].inst] : hub[job[r].inst][k] = r
    BY DEF EveryCommitPublished
  <2>1. r \in Requests
    <3>1. history \in Seq(Entry)
      BY DEF TypeInv, TypeOK
    <3>2. PICK k \in DOMAIN history : history[k].req = r
      BY DEF Committed
    <3>3. history[k] \in Entry
      BY <3>1, <3>2
    <3> QED BY <3>2, <3>3 DEF Entry
  <2>2. mtx[r] = "committed"
    BY <2>1 DEF CommitInv, HistoryInv
  <2>3. pc[r] = "ok"
    BY <2>1, <2>2 DEF CommitInv, ControlInv, AllAnswered, Final
  <2> QED BY <2>1, <2>3 DEF HubInv, PublishedInv
<1> QED BY <1>1, <1>2, <1>3, <1>4, TypeInit, TypeNext, CommitInit, CommitNext, LockNext,
           HubInit, HubNext, PTL DEF Spec

-----------------------------------------------------------------------------
(***************************************************************************)
(* What one server process promises: its commits are those of the abstract *)
(* store, for every set of documents, requests and transactions and every  *)
(* retry limit.                                                            *)
(*                                                                         *)
(* The argument: the commit lock is held from the first read a request     *)
(* validates to the outcome of its commit, so between the two nothing      *)
(* writes.  Then the reads it found unchanged stay so, what it loaded is   *)
(* the store, and its commit is one step of DocStore.  It fails, and the   *)
(* runs that expect a violation show it failing, when a second process     *)
(* writes, or when a commit whose outcome nobody waits for takes effect    *)
(* later.                                                                  *)
(***************************************************************************)

\* One server process.
OneProcess == \A i, j \in Instances : i = j

\* The request has loaded its documents and may yet commit.
Loaded(r) == pc[r] = "persisting" \/ mtx[r] = "prepared"

\* What it has loaded is the whole store as it is, and its batch passes on it.
SnapshotWhole ==
    \A r \in Requests : Loaded(r) =>
        work[r].snapshot = store /\ Passes(job[r].batch, store)

\* Requests read the clock at different times, after it was started.
TimesDiffer ==
    /\ \A r \in Requests : pc[r] # "new" => job[r].now \in 1 .. clock
    /\ \A q, r \in Requests :
         pc[q] # "new" /\ pc[r] # "new" /\ job[q].now = job[r].now => q = r

\* A row carries the time of a request that committed.
Dated(row) ==
    row # NoRow => \E r \in Requests : mtx[r] = "committed" /\ row.updated = job[r].now

RowsDated ==
    /\ \A d \in Docs : Dated(store[d])
    /\ \A t \in Tokens : \A read \in seen[t] : Dated(read[2])

\* No two rows a document has had share a version.
VersionsTell ==
    \A t \in Tokens : \A read \in seen[t] :
        Version(read[2]) = Version(store[read[1]]) => read[2] = store[read[1]]

\* What a client has read in an open transaction is recorded there.
ReadsRecorded ==
    \A t \in Tokens :
        /\ txns[t].state = "fresh" => seen[t] = {}
        /\ txns[t].state = "active" =>
             /\ \A read \in seen[t] : <<read[1], Version(read[2])>> \in txns[t].reads
             /\ \A record \in txns[t].reads : \E read \in seen[t] : read[1] = record[1]

\* What the transaction of a request that validates has read is still there or
\* has yet to be looked up; after validation it is all still there.
ReadsHold ==
    \A r \in Requests :
        /\ pc[r] = "validating" => \A read \in ReadBy(r) :
             \/ <<read[1], Version(read[2])>> \in work[r].unchecked
             \/ store[read[1]] = read[2]
        /\ pc[r] = "starting" \/ Loaded(r) => \A read \in ReadBy(r) : store[read[1]] = read[2]

-----------------------------------------------------------------------------
(* What a step does to one request and to one transaction.                 *)

RequestStep(r) ==
    /\ Loaded(r)' =>
         \/ Loaded(r) /\ work'[r].snapshot = work[r].snapshot /\ job'[r] = job[r]
         \/ Load(r) /\ Passes(job[r].batch, store)
    /\ pc'[r] = "starting" =>
         job'[r] = job[r] /\ (job[r].token = NoToken \/ pc[r] = "starting" \/ Loaded(r))
    /\ pc'[r] = "validating" =>
         /\ job'[r] = job[r]
         /\ \/ TakeTransaction(r)
            \/ pc[r] = "validating" /\ work'[r].unchecked = work[r].unchecked
            \/ \E read \in work[r].unchecked : ReadUnchanged(r, read)
    /\ pc[r] # "new" => pc'[r] # "new" /\ job'[r] = job[r]
    /\ mtx'[r] = "committed" => mtx[r] = "committed" \/ ServerCommits(r)
    /\ mtx[r] = "committed" => mtx'[r] = "committed"

\* A request a step leaves alone.
SameFor(r) == pc'[r] = pc[r] /\ job'[r] = job[r] /\ work'[r] = work[r] /\ mtx'[r] = mtx[r]

LEMMA SameIsStep ==
    ASSUME NEW r \in Requests, SameFor(r)
    PROVE  RequestStep(r)
BY DEF RequestStep, SameFor, Loaded

\* A task that ends, having committed or not: it has nothing loaded any more.
LEMMA EndIsStep ==
    ASSUME TypeInv, CommitInv, NEW r \in Requests, NEW outcome \in Final, End(r, outcome),
           pc[r] # "new", UNCHANGED <<job, work, store>>, mtx'[r] = mtx[r]
    PROVE  RequestStep(r)
<1>1. pc'[r] = outcome
  BY EndType DEF TypeInv
<1>2. outcome \notin {"new", "starting", "validating", "persisting"}
  BY DEF Final
<1> QED BY <1>1, <1>2 DEF RequestStep, Loaded

\* Starting over.
LEMMA RestartIsStep ==
    ASSUME TypeInv, CommitInv, NEW r \in Requests, Restart(r), Loaded(r)
    PROVE  RequestStep(r)
<1>1. mtx'[r] = "none" /\ mtx[r] # "committed"
  BY DEF Restart, TypeInv, TypeOK, Loaded, CommitInv, ControlInv
<1>2. pc'[r] \in {"starting", "aborted"} /\ job'[r] = job[r] /\ pc'[r] # "new"
  BY RestartEffect DEF TypeInv
<1> QED BY <1>1, <1>2 DEF RequestStep, Loaded

\* Every step of the write path, seen from one request.
LEMMA EveryStep ==
    ASSUME TypeInv, CommitInv, [Next]_vars, NEW q \in Requests
    PROVE  RequestStep(q)
<1>1. ASSUME UNCHANGED <<pc, job, work, mtx>> PROVE RequestStep(q)
  BY <1>1, SameIsStep DEF SameFor
<1>2. ASSUME NEW r \in Requests, LockStep(r) PROVE RequestStep(q)
  <2>1. CASE q # r
    <3>1. SameFor(q)
      BY <1>2, <2>1 DEF LockStep, Acquire, TakeTransaction, TakeFails, SameFor, TypeInv, TypeOK
    <3> QED BY <3>1, SameIsStep
  <2>2. CASE q = r
    <3>0. mtx[r] = "none" /\ mtx'[r] = mtx[r] /\ job'[r] = job[r] /\ pc[r] = "waiting"
      BY <1>2 DEF LockStep, Acquire, TakeTransaction, TakeFails, CommitInv, ControlInv,
                  TypeInv, TypeOK
    <3>1. CASE Acquire(r)
      <4>1. pc'[r] = "starting" /\ job[r].token = NoToken
        BY <3>1 DEF Acquire, TypeInv, TypeOK
      <4> QED BY <2>2, <3>0, <4>1 DEF RequestStep, Loaded
    <3>2. CASE TakeTransaction(r)
      <4>1. pc'[r] \in {"rejected", "validating"}
        BY <3>2 DEF TakeTransaction, TypeInv, TypeOK
      <4> QED BY <2>2, <3>0, <3>2, <4>1 DEF RequestStep, Loaded
    <3>3. CASE TakeFails(r)
      <4>1. pc'[r] = "aborted"
        BY <3>3 DEF TakeFails, TypeInv, TypeOK
      <4> QED BY <2>2, <3>0, <4>1 DEF RequestStep, Loaded
    <3> QED BY <1>2, <3>1, <3>2, <3>3 DEF LockStep
  <2> QED BY <2>1, <2>2
<1>3. ASSUME NEW r \in Requests, NEW read \in work[r].unchecked,
             ReadUnchanged(r, read) \/ ReadChanged(r, read)
      PROVE  RequestStep(q)
  <2>1. CASE q # r
    <3>1. pc'[q] = pc[q]
      BY <1>3, <2>1 DEF ReadUnchanged, ReadChanged, End, TypeInv, TypeOK
    <3>2. work'[q] = work[q] /\ UNCHANGED <<job, mtx>>
      BY <1>3, <2>1 DEF ReadUnchanged, ReadChanged, TypeInv, TypeOK
    <3> QED BY <3>1, <3>2, SameIsStep DEF SameFor
  <2>2. CASE q = r /\ ReadChanged(r, read)
    BY <2>2, EndIsStep DEF ReadChanged, Final
  <2>3. CASE q = r /\ ReadUnchanged(r, read)
    <3>1. UNCHANGED <<pc, job, mtx>> /\ pc[r] = "validating" /\ mtx[r] = "none"
      BY <2>3 DEF ReadUnchanged, CommitInv, ControlInv, TypeInv, TypeOK
    <3> QED BY <2>3, <3>1 DEF RequestStep, Loaded
  <2> QED BY <1>3, <2>1, <2>2, <2>3
<1>4. ASSUME NEW r \in Requests, Load(r) PROVE RequestStep(q)
  <2>1. pc[r] \in {"validating", "starting"} /\ UNCHANGED <<job, mtx>> /\ mtx[r] = "none"
    BY <1>4 DEF Load, Validated, CommitInv, ControlInv, TypeInv, TypeOK
  <2>2. \/ pc' = [pc EXCEPT ![r] = "persisting"] /\ Passes(job[r].batch, store)
        \/ pc' = [pc EXCEPT ![r] = "rejected"]
    BY <1>4 DEF Load, End
  <2>3. CASE q # r
    <3>1. pc'[q] = pc[q] /\ work'[q] = work[q]
      BY <1>4, <2>2, <2>3 DEF Load, TypeInv, TypeOK
    <3> QED BY <2>1, <3>1, SameIsStep DEF SameFor
  <2>4. CASE q = r
    <3>1. (pc'[r] = "persisting" /\ Passes(job[r].batch, store)) \/ pc'[r] = "rejected"
      BY <2>2 DEF TypeInv, TypeOK
    <3> QED BY <1>4, <2>1, <2>4, <3>1 DEF RequestStep, Loaded
  <2> QED BY <2>3, <2>4
<1>5. ASSUME NEW r \in Requests, Persist(r) PROVE RequestStep(q)
  <2>1. /\ UNCHANGED <<job, work>> /\ pc[r] = "persisting"
        /\ pc' = [pc EXCEPT ![r] = "committing"] /\ mtx' = [mtx EXCEPT ![r] = "prepared"]
    BY <1>5 DEF Persist
  <2>2. mtx[r] # "committed"
    BY <2>1 DEF CommitInv, ControlInv
  <2>3. CASE q # r
    BY <2>1, <2>3, SameIsStep DEF SameFor, TypeInv, TypeOK
  <2>4. CASE q = r
    <3>1. pc'[r] = "committing" /\ mtx'[r] = "prepared"
      BY <2>1 DEF TypeInv, TypeOK
    <3> QED BY <2>1, <2>2, <2>4, <3>1 DEF RequestStep, Loaded
  <2> QED BY <2>3, <2>4
<1>6. ASSUME NEW r \in Requests, WriteConflict(r) \/ CommitTransient(r) PROVE RequestStep(q)
  <2>1. Restart(r) /\ Loaded(r)
    BY <1>6 DEF WriteConflict, CommitTransient, Loaded
  <2>2. CASE q # r
    <3>1. work'[q] = work[q] /\ mtx'[q] = mtx[q] /\ pc'[q] = pc[q] /\ UNCHANGED job
      BY <2>1, <2>2, RestartEffect DEF Restart, TypeInv, TypeOK
    <3> QED BY <3>1, SameIsStep DEF SameFor
  <2> QED BY <2>1, <2>2, RestartIsStep
<1>7. ASSUME NEW r \in Requests, ServerCommits(r) \/ ServerAborts(r) PROVE RequestStep(q)
  <2>1. UNCHANGED <<pc, job, work>> /\ mtx[r] = "prepared"
    BY <1>7 DEF ServerCommits, ServerAborts
  <2>2. CASE q # r
    <3>1. mtx'[q] = mtx[q]
      BY <1>7, <2>2 DEF ServerCommits, ServerAborts, TypeInv, TypeOK
    <3> QED BY <2>1, <3>1, SameIsStep DEF SameFor
  <2>3. CASE q = r /\ ServerCommits(r)
    <3>1. mtx'[r] = "committed" /\ pc[r] # "persisting"
      BY <2>1, <2>3 DEF ServerCommits, CommitInv, ControlInv, TypeInv, TypeOK
    <3> QED BY <2>1, <2>3, <3>1 DEF RequestStep, Loaded
  <2>4. CASE q = r /\ ServerAborts(r)
    <3>1. mtx'[r] = "none" /\ pc[r] # "persisting"
      BY <2>4 DEF ServerAborts, TypeInv, TypeOK
    <3> QED BY <2>1, <2>4, <3>1 DEF RequestStep, Loaded
  <2> QED BY <1>7, <2>2, <2>3, <2>4
<1>8. ASSUME NEW r \in Requests, CommitReply(r) PROVE RequestStep(q)
  <2>1. /\ UNCHANGED <<job, work, mtx>> /\ mtx[r] = "committed"
        /\ pc' = [pc EXCEPT ![r] = "publishing"]
    BY <1>8 DEF CommitReply
  <2>2. CASE q # r
    BY <2>1, <2>2, SameIsStep DEF SameFor, TypeInv, TypeOK
  <2>3. CASE q = r
    <3>1. pc'[r] = "publishing"
      BY <2>1 DEF TypeInv, TypeOK
    <3> QED BY <2>1, <2>3, <3>1 DEF RequestStep, Loaded
  <2> QED BY <2>2, <2>3
<1>9. ASSUME NEW r \in Requests, NEW outcome \in Final, End(r, outcome), pc[r] # "new",
             UNCHANGED <<job, work, store, mtx>>
      PROVE  RequestStep(q)
  <2>1. CASE q # r
    <3>1. pc'[q] = pc[q]
      BY <1>9, <2>1, EndType DEF TypeInv
    <3> QED BY <1>9, <3>1, SameIsStep DEF SameFor
  <2> QED BY <1>9, <2>1, EndIsStep
<1>10. ASSUME NEW r \in Requests, Publish(r) PROVE RequestStep(q)
  BY <1>9, <1>10 DEF Publish, Final
<1>11. ASSUME NEW r \in Requests, StorageFails(r) PROVE RequestStep(q)
  BY <1>9, <1>11 DEF StorageFails, Final
<1>12. ASSUME NEW r \in Requests, Disconnect(r) PROVE RequestStep(q)
  <2>1. pc[r] # "new"
    BY <1>12 DEF Disconnect, Live
  <2> QED BY <1>9, <1>12, <2>1 DEF Disconnect, Final
<1>13. ASSUME NEW r \in Requests, CommitUnknown(r) PROVE RequestStep(q)
  <2>1. /\ UNCHANGED <<store, job, mtx>> /\ pc[r] = "committing"
        /\ \A p \in Requests : /\ work'[p].snapshot = work[p].snapshot
                               /\ work'[p].unchecked = work[p].unchecked
                               /\ p # r => work'[p] = work[p]
    BY <1>13 DEF CommitUnknown, TypeInv, TypeOK, Work
  <2>2. pc'[r] \in {"committing", "unknown"} /\ \A p \in Requests : p # r => pc'[p] = pc[p]
    BY <1>13 DEF CommitUnknown, End, TypeInv, TypeOK
  <2>3. CASE q # r
    BY <2>1, <2>2, <2>3, SameIsStep DEF SameFor
  <2>4. CASE q = r
    BY <2>1, <2>2, <2>4 DEF RequestStep, Loaded
  <2> QED BY <2>3, <2>4
<1>14. ASSUME NEW r \in Requests, CommitFails(r) PROVE RequestStep(q)
  <2>1. /\ UNCHANGED <<store, job, work>> /\ mtx[r] = "prepared" /\ pc[r] = "committing"
        /\ mtx' = [mtx EXCEPT ![r] = "none"]
    BY <1>14 DEF CommitFails
  <2>2. \A p \in Requests : pc'[p] = IF p = r THEN "rejected" ELSE pc[p]
    BY <1>14, EndType DEF CommitFails, Final, TypeInv
  <2>3. CASE q # r
    BY <2>1, <2>2, <2>3, SameIsStep DEF SameFor, TypeInv, TypeOK
  <2>4. CASE q = r
    <3>1. mtx'[r] = "none"
      BY <2>1 DEF TypeInv, TypeOK
    <3> QED BY <2>1, <2>2, <2>4, <3>1 DEF RequestStep, Loaded
  <2> QED BY <2>3, <2>4
<1>15. ASSUME NEW r \in Requests, Deny(r) PROVE RequestStep(q)
  <2>1. /\ UNCHANGED <<job, work, mtx>> /\ pc[r] = "waiting"
        /\ pc' = [pc EXCEPT ![r] = "rejected"]
    BY <1>15 DEF Deny
  <2>2. mtx[r] = "none"
    BY <2>1 DEF CommitInv, ControlInv, TypeInv, TypeOK
  <2>3. CASE q # r
    BY <2>1, <2>3, SameIsStep DEF SameFor, TypeInv, TypeOK
  <2>4. CASE q = r
    <3>1. pc'[r] = "rejected"
      BY <2>1 DEF TypeInv, TypeOK
    <3> QED BY <2>1, <2>2, <2>4, <3>1 DEF RequestStep, Loaded
  <2> QED BY <2>3, <2>4
<1>16. ASSUME NEW i \in Instances, Crash(i) PROVE RequestStep(q)
  <2>1. /\ UNCHANGED <<job, work, mtx>>
        /\ pc'[q] = IF job[q].inst = i /\ pc[q] \in Live THEN "gone" ELSE pc[q]
    BY <1>16 DEF Crash
  <2>2. CASE pc'[q] = pc[q]
    BY <2>1, <2>2, SameIsStep DEF SameFor
  <2>3. CASE pc'[q] = "gone"
    <3>1. pc[q] # "new" \/ pc'[q] = pc[q]
      BY <2>1 DEF Live
    <3> QED BY <2>1, <2>2, <2>3, <3>1 DEF RequestStep, Loaded
  <2> QED BY <2>1, <2>2, <2>3
<1>17. ASSUME NEW r \in Requests, NEW i \in Instances, NEW surface \in Surfaces,
              NEW token \in Tokens \cup {NoToken}, NEW batch \in WriteSets,
              Receive(r, i, surface, token, batch)
       PROVE  RequestStep(q)
  <2>1. /\ UNCHANGED <<work, mtx>> /\ pc[r] = "new"
        /\ pc' = [pc EXCEPT ![r] = "waiting"]
        /\ \A p \in Requests : p # r => job'[p] = job[p]
    BY <1>17 DEF Receive, TypeInv, TypeOK
  <2>2. mtx[r] = "none"
    BY <2>1 DEF CommitInv, ControlInv, TypeInv, TypeOK
  <2>3. CASE q # r
    BY <2>1, <2>3, SameIsStep DEF SameFor, TypeInv, TypeOK
  <2>4. CASE q = r
    <3>1. pc'[r] = "waiting"
      BY <2>1 DEF TypeInv, TypeOK
    <3> QED BY <2>1, <2>2, <2>4, <3>1 DEF RequestStep, Loaded
  <2> QED BY <2>3, <2>4
<1>18. ASSUME ClearData PROVE RequestStep(q)
  BY <1>1, <1>18 DEF ClearData
<1>19. ASSUME NEW t \in Tokens,
              \/ \E i \in Instances, readOnly \in BOOLEAN : BeginTransaction(t, i, readOnly)
              \/ \E d \in Docs, i \in Instances : TransactionRead(t, d, i)
              \/ RollbackOrExpire(t)
       PROVE  RequestStep(q)
  BY <1>1, <1>19 DEF BeginTransaction, TransactionRead, RollbackOrExpire
<1>20. CASE UNCHANGED vars
  BY <1>1, <1>20 DEF vars
<1> QED
  BY <1>2, <1>3, <1>4, <1>5, <1>6, <1>7, <1>8, <1>10, <1>11, <1>12, <1>13, <1>14, <1>15,
     <1>16, <1>17, <1>18, <1>19, <1>20
  DEF Next, ClientStep, TaskStep, FaultStep

-----------------------------------------------------------------------------
(* Nothing writes while a request is between its first look and its        *)
(* commit.                                                                 *)

ProcessInv == TypeInv /\ CommitInv /\ LockInv /\ AllAnswered

\* On one process, a request that is about to commit is alone.
LEMMA WriterAlone ==
    ASSUME OneProcess, ProcessInv, NEW q \in Requests, NEW r \in Requests,
           mtx[q] = "prepared", Critical(r)
    PROVE  q = r
<1>1. pc[q] = "committing"
  BY DEF ProcessInv, CommitInv, ControlInv, AllAnswered
<1>2. Critical(q)
  BY <1>1 DEF Critical
<1>3. job[q].inst = job[r].inst
  BY DEF OneProcess, ProcessInv, TypeInv, TypeOK, Job
<1> QED BY <1>2, <1>3 DEF ProcessInv, LockInv

\* A request that has loaded its documents holds the lock.
LEMMA LoadedCritical ==
    ASSUME ProcessInv, NEW r \in Requests, Loaded(r)
    PROVE  Critical(r) /\ pc[r] \in {"persisting", "committing"} /\ mtx[r] # "committed"
BY DEF ProcessInv, CommitInv, ControlInv, AllAnswered, Loaded, Critical

\* While it has, the store is what it loaded.
LEMMA SnapshotNext ==
    ASSUME OneProcess, ProcessInv, SnapshotWhole, [Next]_vars
    PROVE  SnapshotWhole'
<1> SUFFICES ASSUME NEW r \in Requests, Loaded(r)'
             PROVE  work'[r].snapshot = store' /\ Passes(job'[r].batch, store')
  BY DEF SnapshotWhole, Passes
<1>1. \/ Loaded(r) /\ work'[r].snapshot = work[r].snapshot /\ job'[r] = job[r]
      \/ Load(r) /\ Passes(job[r].batch, store)
  BY EveryStep DEF RequestStep, ProcessInv
<1>2. ASSUME NEW q \in Requests, ServerCommits(q) PROVE FALSE
  <2>1. UNCHANGED <<pc, job, work>> /\ mtx[q] = "prepared" /\ mtx'[q] = "committed"
    BY <1>2 DEF ServerCommits, ProcessInv, TypeInv, TypeOK
  <2>2. Loaded(r)
    <3>1. \A p \in Requests : mtx'[p] = "prepared" => mtx[p] = "prepared"
      BY <1>2 DEF ServerCommits, ProcessInv, TypeInv, TypeOK
    <3> QED BY <2>1, <3>1 DEF Loaded
  <2>3. q = r
    BY <2>1, <2>2, WriterAlone, LoadedCritical
  <2>4. pc'[r] # "persisting" /\ mtx'[r] # "prepared"
    BY <2>1, <2>3 DEF ProcessInv, CommitInv, ControlInv
  <2> QED BY <2>4 DEF Loaded
<1>3. UNCHANGED store
  <2>1. ~ClearData
    <3>1. ASSUME ClearData PROVE FALSE
      <4>1. UNCHANGED <<pc, mtx>> /\ ~Loaded(r)
        BY <3>1 DEF ClearData, Loaded
      <4> QED BY <4>1 DEF Loaded
    <3> QED BY <3>1
  <2> QED BY <1>2, <2>1, StoreStep
<1>4. CASE Loaded(r) /\ work'[r].snapshot = work[r].snapshot /\ job'[r] = job[r]
  BY <1>3, <1>4 DEF SnapshotWhole
<1>5. CASE Load(r) /\ Passes(job[r].batch, store)
  <2>1. work'[r].snapshot = store /\ job'[r] = job[r]
    BY <1>5 DEF Load, ProcessInv, TypeInv, TypeOK, Work
  <2> QED BY <1>3, <1>5, <2>1
<1> QED BY <1>1, <1>4, <1>5

\* The last entry of the history after a commit is the commit.
LEMMA CommitIsNew ==
    ASSUME TypeInv, NEW r \in Requests, ServerCommits(r)
    PROVE  /\ Len(history') = Len(history) + 1 /\ history' = Append(history, NewCommit)
           /\ NewCommit.req = r /\ NewCommit.at = job[r].now /\ NewCommit.reads = ReadBy(r)
           /\ NewCommit.writes = job[r].batch
           /\ NewCommit.before = Before(r) /\ NewCommit.after = After(r)
<1> DEFINE c == [req |-> r, at |-> job[r].now, reads |-> ReadBy(r), writes |-> job[r].batch,
                 before |-> Before(r), after |-> After(r)]
<1>1. history' = Append(history, c)
  BY DEF ServerCommits
<1>2. /\ c.req = r /\ c.at = job[r].now /\ c.reads = ReadBy(r) /\ c.writes = job[r].batch
      /\ c.before = Before(r) /\ c.after = After(r)
  OBVIOUS
<1> HIDE DEF c
<1>3. history \in Seq(Entry)
  BY DEF TypeInv, TypeOK
<1>4. Len(history') = Len(history) + 1 /\ history'[Len(history')] = c
  BY <1>1, <1>3
<1> QED BY <1>1, <1>2, <1>4 DEF NewCommit

\* On one server process, and as long as every task learns what became of its
\* commit, the before-image of every document a commit changes, missing ones
\* it deletes included, is what the store held: whatever the clock does and
\* whether or not the data is cleared in between.
THEOREM DeltasAreExact ==
    ASSUME OneProcess, Faults \cap {"unknown", "disconnect", "crash"} = {}
    PROVE  Spec => ExactDeltas
<1>1. Init => LockInv /\ AllAnswered /\ SnapshotWhole
  BY DEF Init, LockInv, Critical, AllAnswered, SnapshotWhole, Loaded
<1>2. TypeInv /\ AllAnswered /\ [Next]_vars => AllAnswered'
  BY AllAnsweredNext
<1>3. ProcessInv /\ SnapshotWhole /\ [Next]_vars => SnapshotWhole'
  BY SnapshotNext
<1>4. ProcessInv /\ SnapshotWhole /\ [Next]_vars =>
        [CommitHappens => \A d \in Changed(NewCommit.writes) : NewCommit.before[d] = store[d]]_vars
  <2> SUFFICES ASSUME ProcessInv, SnapshotWhole, [Next]_vars, CommitHappens,
                      NEW d \in Changed(NewCommit.writes)
               PROVE  NewCommit.before[d] = store[d]
    OBVIOUS
  <2>1. history \in Seq(Entry)
    BY DEF ProcessInv, TypeInv, TypeOK
  <2>2. PICK r \in Requests : ServerCommits(r)
    BY <2>1, HistoryStep DEF CommitHappens
  <2>3. work[r].snapshot = store
    BY <2>2 DEF ServerCommits, SnapshotWhole, Loaded
  <2> QED BY <2>2, <2>3, CommitIsNew DEF Before, ProcessInv
<1> QED BY <1>1, <1>2, <1>3, <1>4, TypeInit, TypeNext, CommitInit, CommitNext, LockNext, PTL
        DEF Spec, ExactDeltas, ProcessInv
-----------------------------------------------------------------------------
(* Versions.                                                               *)

\* A request reads the clock when it arrives, later than all before it.
LEMMA TimesNext ==
    ASSUME 0 \notin ClockSteps, ProcessInv, TimesDiffer, [Next]_vars
    PROVE  TimesDiffer'
<1>1. ASSUME NEW r \in Requests, NEW i \in Instances, NEW surface \in Surfaces,
             NEW token \in Tokens \cup {NoToken}, NEW batch \in WriteSets,
             Receive(r, i, surface, token, batch)
      PROVE  TimesDiffer'
  <2>1. PICK step \in ClockSteps :
          /\ clock' = clock + step
          /\ job' = [job EXCEPT ![r] = [inst |-> i, surface |-> surface,
                       token |-> token, batch |-> batch, now |-> clock + step]]
    BY <1>1 DEF Receive
  <2>2. step \in Nat \ {0} /\ clock \in Nat
    BY ConstantsAssumption DEF ProcessInv, TypeInv, TypeOK
  <2>3. clock' \in Nat /\ clock' > clock /\ job'[r].now = clock'
    BY <2>1, <2>2 DEF ProcessInv, TypeInv, TypeOK
  <2>4. \A q \in Requests : q # r => job'[q] = job[q] /\ pc'[q] = pc[q]
    BY <1>1, <2>1 DEF Receive, ProcessInv, TypeInv, TypeOK
  <2>5. \A q \in Requests : q # r /\ pc[q] # "new" => job[q].now \in 1 .. clock
    BY DEF TimesDiffer
  <2>6. \A q \in Requests : pc'[q] # "new" => job'[q].now \in 1 .. clock'
    BY <2>2, <2>3, <2>4, <2>5
  <2>7. \A q \in Requests : q # r /\ pc'[q] # "new" => job'[q].now # clock'
    BY <2>2, <2>3, <2>4, <2>5
  <2> QED BY <2>3, <2>4, <2>6, <2>7 DEF TimesDiffer
<1>2. ASSUME UNCHANGED <<clock, job>>, \A r \in Requests : pc'[r] # "new" => pc[r] # "new"
      PROVE  TimesDiffer'
  BY <1>2 DEF TimesDiffer
<1>3. ASSUME NEW r \in Requests, LockStep(r) \/ TaskStep(r) PROVE TimesDiffer'
  <2>1. (UNCHANGED <<clock, job>> /\ pc[r] # "new") \/ UNCHANGED <<clock, job, pc>>
    BY <1>3 DEF LockStep, Acquire, TakeTransaction, TakeFails, TaskStep, ReadUnchanged,
                ReadChanged, Load, Validated, Persist, WriteConflict, Restart, ServerCommits,
                ServerAborts, CommitReply, Publish
  <2>2. \A q \in Requests : q # r => pc'[q] = pc[q]
    BY <1>3, RestartEffect
    DEF LockStep, Acquire, TakeTransaction, TakeFails, TaskStep, ReadUnchanged,
        ReadChanged, Load, Persist, WriteConflict, ServerCommits,
        ServerAborts, CommitReply, Publish, End, ProcessInv, TypeInv, TypeOK
  <2> QED BY <1>2, <2>1, <2>2
<1>4. ASSUME FaultStep PROVE TimesDiffer'
  <2>1. UNCHANGED <<clock, job>>
    BY <1>4 DEF FaultStep, Deny, StorageFails, CommitUnknown, CommitTransient, Restart,
                CommitFails, Disconnect, Crash, ClearData
  <2>2. ASSUME NEW r \in Requests, Deny(r) \/ StorageFails(r) \/ CommitUnknown(r)
                 \/ CommitTransient(r) \/ CommitFails(r) \/ Disconnect(r)
        PROVE  pc[r] # "new" /\ \A q \in Requests : q # r => pc'[q] = pc[q]
    <3>1. pc[r] # "new"
      BY <2>2 DEF Deny, StorageFails, CommitUnknown, CommitTransient, CommitFails, Disconnect,
                  Live, ProcessInv, CommitInv, ControlInv
    <3>2. CASE CommitTransient(r)
      BY <3>1, <3>2, RestartEffect DEF CommitTransient, ProcessInv, TypeInv
    <3>3. CASE ~CommitTransient(r)
      BY <2>2, <3>1, <3>3 DEF Deny, StorageFails, CommitUnknown, CommitFails, Disconnect, End,
                              ProcessInv, TypeInv, TypeOK
    <3> QED BY <3>2, <3>3
  <2>3. ASSUME NEW r \in Requests, Deny(r) \/ StorageFails(r) \/ CommitUnknown(r)
                 \/ CommitTransient(r) \/ CommitFails(r) \/ Disconnect(r)
        PROVE  TimesDiffer'
    BY <1>2, <2>1, <2>2, <2>3
  <2>4. ASSUME NEW i \in Instances, Crash(i) PROVE TimesDiffer'
    <3>1. \A q \in Requests : pc'[q] # "new" => pc[q] # "new"
      BY <2>4 DEF Crash, Live
    <3> QED BY <1>2, <2>1, <3>1
  <2>5. CASE ClearData
    BY <1>2, <2>1, <2>5 DEF ClearData
  <2> QED BY <1>4, <2>3, <2>4, <2>5 DEF FaultStep
<1>5. ASSUME NEW t \in Tokens,
             \/ \E i \in Instances, readOnly \in BOOLEAN : BeginTransaction(t, i, readOnly)
             \/ \E d \in Docs, i \in Instances : TransactionRead(t, d, i)
             \/ RollbackOrExpire(t)
      PROVE  TimesDiffer'
  BY <1>2, <1>5 DEF BeginTransaction, TransactionRead, RollbackOrExpire
<1>6. CASE UNCHANGED vars
  BY <1>2, <1>6 DEF vars
<1> QED BY <1>1, <1>3, <1>4, <1>5, <1>6 DEF Next, ClientStep

\* A commit stays one, and its request what it was.
LEMMA CommittedStays ==
    ASSUME ProcessInv, [Next]_vars, NEW r \in Requests, mtx[r] = "committed"
    PROVE  mtx'[r] = "committed" /\ job'[r] = job[r]
<1>1. pc[r] # "new"
  BY DEF ProcessInv, CommitInv, ControlInv
<1> QED BY <1>1, EveryStep DEF RequestStep, ProcessInv

\* What one commit leaves of one document.
LEMMA CommitWrites ==
    ASSUME ProcessInv, NEW r \in Requests, ServerCommits(r), NEW d \in Docs
    PROVE  \/ store'[d] = store[d]
           \/ store'[d] = NoRow
           \/ store'[d] # NoRow /\ store'[d].updated = job[r].now
<1>1. store'[d] = IF d \in RowsWritten(r) THEN After(r)[d] ELSE store[d]
  BY DEF ServerCommits
<1>2. CASE d \in RowsWritten(r)
  <2>1. d \in Changed(job[r].batch)
    BY <1>2 DEF RowsWritten, RowOps
  <2>2. store'[d] = Written(job[r].batch[d], Before(r)[d], job[r].now, r)
    BY <1>1, <1>2, <2>1 DEF After
  <2>3. store'[d] = NoRow \/ store'[d].updated = job[r].now
    BY <2>2 DEF Written
  <2> QED BY <2>3
<1> QED BY <1>1, <1>2

\* What a step adds to what the client of a transaction has read.
LEMMA SeenStep ==
    ASSUME ProcessInv, [Next]_vars, NEW t \in Tokens, NEW read \in seen'[t]
    PROVE  \/ read \in seen[t]
           \/ \E d \in Docs, i \in Instances :
                TransactionRead(t, d, i) /\ read = <<d, store[d]>>
<1>1. \/ seen' = seen
      \/ \E u \in Tokens, d \in Docs, i \in Instances : TransactionRead(u, d, i)
  BY DEF Next, ClientStep, LockStep, TaskStep, FaultStep, BeginTransaction,
         RollbackOrExpire, Receive, Deny, Acquire, TakeTransaction, TakeFails, ReadUnchanged,
         ReadChanged, Load, Persist, WriteConflict, Restart, StorageFails, ServerCommits,
         ServerAborts, CommitReply, CommitUnknown, CommitTransient, CommitFails, Publish,
         Disconnect, Crash, ClearData, vars
<1>2. ASSUME NEW u \in Tokens, NEW d \in Docs, NEW i \in Instances, TransactionRead(u, d, i),
             read \notin seen[t]
      PROVE  u = t /\ read = <<d, store[d]>>
  BY <1>2 DEF TransactionRead, ProcessInv, TypeInv, TypeOK
<1> QED BY <1>1, <1>2

\* Without a reset endpoint, only commits write.
LEMMA OnlyCommitsWrite ==
    ASSUME "clear" \notin Faults, [Next]_vars
    PROVE  UNCHANGED <<store, history>> \/ \E r \in Requests : ServerCommits(r)
BY StoreStep DEF ClearData

\* Every row carries the time of its writer.
LEMMA DatedNext ==
    ASSUME "clear" \notin Faults, ProcessInv, RowsDated, [Next]_vars
    PROVE  RowsDated'
<1>1. ASSUME NEW row, Dated(row)
      PROVE  row # NoRow => \E r \in Requests : mtx'[r] = "committed" /\ row.updated = job'[r].now
  BY <1>1, CommittedStays DEF Dated
<1>2. ASSUME NEW d \in Docs
      PROVE  store'[d] # NoRow =>
               \E r \in Requests : mtx'[r] = "committed" /\ store'[d].updated = job'[r].now
  <2>1. Dated(store[d])
    BY DEF RowsDated
  <2>2. CASE store' = store
    BY <1>1, <2>1, <2>2
  <2>3. ASSUME NEW r \in Requests, ServerCommits(r)
        PROVE  store'[d] # NoRow =>
                 \E q \in Requests : mtx'[q] = "committed" /\ store'[d].updated = job'[q].now
    <3>1. mtx'[r] = "committed" /\ job'[r] = job[r]
      BY <2>3 DEF ServerCommits, ProcessInv, TypeInv, TypeOK
    <3>2. CASE store'[d] = store[d]
      BY <1>1, <2>1, <3>2
    <3> QED BY <2>3, <3>1, <3>2, CommitWrites
  <2> QED BY <2>2, <2>3, OnlyCommitsWrite
<1>3. ASSUME NEW t \in Tokens, NEW read \in seen'[t]
      PROVE  read[2] # NoRow =>
               \E r \in Requests : mtx'[r] = "committed" /\ read[2].updated = job'[r].now
  <2>1. CASE read \in seen[t]
    <3>1. Dated(read[2])
      BY <2>1 DEF RowsDated
    <3> QED BY <1>1, <3>1
  <2>2. ASSUME NEW d \in Docs, read = <<d, store[d]>>
        PROVE  read[2] # NoRow =>
                 \E r \in Requests : mtx'[r] = "committed" /\ read[2].updated = job'[r].now
    <3>1. Dated(store[d]) /\ read[2] = store[d]
      BY <2>2 DEF RowsDated
    <3> QED BY <1>1, <3>1
  <2> QED BY <2>1, <2>2, SeenStep
<1> QED BY <1>2, <1>3 DEF RowsDated, Dated

\* A commit leaves a version nobody has read.
LEMMA TellNext ==
    ASSUME "clear" \notin Faults, ProcessInv, TimesDiffer, RowsDated, VersionsTell, [Next]_vars
    PROVE  VersionsTell'
<1> SUFFICES ASSUME NEW t \in Tokens, NEW read \in seen'[t],
                    Version(read[2]) = Version(store'[read[1]])
             PROVE  read[2] = store'[read[1]]
  BY DEF VersionsTell, Version
<1>1. CASE read \in seen[t] /\ store' = store
  BY <1>1 DEF VersionsTell
<1>2. ASSUME NEW d \in Docs, NEW i \in Instances, TransactionRead(t, d, i),
             read = <<d, store[d]>>
      PROVE  read[2] = store'[read[1]]
  BY <1>2 DEF TransactionRead
<1>3. ASSUME read \in seen[t], NEW r \in Requests, ServerCommits(r)
      PROVE  read[2] = store'[read[1]]
  <2> DEFINE d == read[1]
  <2>1. d \in Docs /\ read[2] \in RowOrNone
    BY <1>3 DEF ProcessInv, TypeInv, TypeOK
  <2>2. mtx[r] = "prepared" /\ pc[r] # "new"
    BY <1>3 DEF ServerCommits, ProcessInv, CommitInv, ControlInv
  <2>3. \A q \in Requests : mtx[q] = "committed" => pc[q] # "new" /\ job[q].now # job[r].now
    BY <2>2 DEF TimesDiffer, ProcessInv, CommitInv, ControlInv
  <2>4. \A q \in Requests : mtx[q] = "committed" => job[q].now \in Nat \ {0}
    <3>1. \A q \in Requests : mtx[q] = "committed" => job[q].now \in 1 .. clock
      BY <2>3 DEF TimesDiffer
    <3> QED BY <3>1 DEF ProcessInv, TypeInv, TypeOK
  <2>5. job[r].now \in 1 .. clock
    BY <2>2 DEF TimesDiffer
  <2>6. read[2] # NoRow => read[2].updated # job[r].now /\ read[2].updated # 0
    BY <1>3, <2>3, <2>4 DEF RowsDated, Dated
  <2>7. Version(read[2]) # job[r].now
    BY <2>5, <2>6 DEF Version, ProcessInv, TypeInv, TypeOK
  <2>8. CASE store'[d] = store[d]
    BY <1>3, <2>8 DEF VersionsTell
  <2>9. CASE store'[d] = NoRow
    BY <2>6, <2>9 DEF Version
  <2>10. CASE store'[d] # NoRow /\ store'[d].updated = job[r].now
    BY <2>7, <2>10 DEF Version
  <2> QED BY <1>3, <2>1, <2>8, <2>9, <2>10, CommitWrites
<1>4. ASSUME read \in seen[t] PROVE read[2] = store'[read[1]]
  BY <1>1, <1>3, <1>4, OnlyCommitsWrite
<1> QED BY <1>2, <1>4, SeenStep
-----------------------------------------------------------------------------
(* Reads.                                                                  *)

\* What a step does to one transaction.
LEMMA TransactionStep ==
    ASSUME ProcessInv, [Next]_vars, NEW t \in Tokens
    PROVE  \/ txns'[t] = txns[t] /\ seen'[t] = seen[t]
           \/ txns'[t].state = "gone" /\ seen'[t] = seen[t]
           \/ txns[t].state = "fresh" /\ txns'[t].reads = {} /\ seen'[t] = seen[t]
                /\ txns'[t].state = "active"
           \/ \E d \in Docs, i \in Instances : TransactionRead(t, d, i)
<1>1. CASE UNCHANGED <<txns, seen>>
  BY <1>1
<1>2. ASSUME NEW u \in Tokens, NEW i \in Instances, NEW readOnly \in BOOLEAN,
             BeginTransaction(u, i, readOnly)
      PROVE  \/ txns'[t] = txns[t] /\ seen'[t] = seen[t]
             \/ txns[t].state = "fresh" /\ txns'[t].reads = {} /\ seen'[t] = seen[t]
                  /\ txns'[t].state = "active"
  BY <1>2 DEF BeginTransaction, ProcessInv, TypeInv, TypeOK
<1>3. ASSUME NEW u \in Tokens, NEW d \in Docs, NEW i \in Instances, TransactionRead(u, d, i),
             u # t
      PROVE  txns'[t] = txns[t] /\ seen'[t] = seen[t]
  BY <1>3 DEF TransactionRead, ProcessInv, TypeInv, TypeOK
<1>4. ASSUME NEW u \in Tokens, RollbackOrExpire(u)
      PROVE  seen'[t] = seen[t] /\ (txns'[t] = txns[t] \/ txns'[t].state = "gone")
  BY <1>4 DEF RollbackOrExpire, ProcessInv, TypeInv, TypeOK, Txn
<1>5. ASSUME NEW r \in Requests, TakeTransaction(r)
      PROVE  seen'[t] = seen[t] /\ (txns'[t] = txns[t] \/ txns'[t].state = "gone")
  BY <1>5 DEF TakeTransaction, ProcessInv, TypeInv, TypeOK, Txn
<1>6. ASSUME NEW i \in Instances, Crash(i)
      PROVE  seen'[t] = seen[t] /\ (txns'[t] = txns[t] \/ txns'[t].state = "gone")
  BY <1>6 DEF Crash, ProcessInv, TypeInv, TypeOK, Txn
<1>7. \/ UNCHANGED <<txns, seen>>
      \/ \E u \in Tokens, i \in Instances, readOnly \in BOOLEAN : BeginTransaction(u, i, readOnly)
      \/ \E u \in Tokens, d \in Docs, i \in Instances : TransactionRead(u, d, i)
      \/ \E u \in Tokens : RollbackOrExpire(u)
      \/ \E r \in Requests : TakeTransaction(r)
      \/ \E i \in Instances : Crash(i)
  BY DEF Next, ClientStep, LockStep, TaskStep, FaultStep,
         Receive, Deny, Acquire, TakeFails, ReadUnchanged,
         ReadChanged, Load, Persist, WriteConflict, Restart, StorageFails, ServerCommits,
         ServerAborts, CommitReply, CommitUnknown, CommitTransient, CommitFails, Publish,
         Disconnect, ClearData, vars
<1> QED BY <1>1, <1>2, <1>3, <1>4, <1>5, <1>6, <1>7

\* A client that reads each document once has all of its reads recorded.
LEMMA RecordedNext ==
    ASSUME OneProcess, "reread" \notin Faults, ProcessInv, ReadsRecorded, [Next]_vars
    PROVE  ReadsRecorded'
<1> SUFFICES ASSUME NEW t \in Tokens
             PROVE  /\ txns'[t].state = "fresh" => seen'[t] = {}
                    /\ txns'[t].state = "active" =>
                         /\ \A read \in seen'[t] : <<read[1], Version(read[2])>> \in txns'[t].reads
                         /\ \A record \in txns'[t].reads : \E read \in seen'[t] : read[1] = record[1]
  BY DEF ReadsRecorded, Version
<1>1. CASE txns'[t] = txns[t] /\ seen'[t] = seen[t]
  BY <1>1 DEF ReadsRecorded
<1>2. CASE txns'[t].state = "gone" /\ seen'[t] = seen[t]
  BY <1>2
<1>3. CASE txns[t].state = "fresh" /\ txns'[t].reads = {} /\ seen'[t] = seen[t]
             /\ txns'[t].state = "active"
  BY <1>3 DEF ReadsRecorded
<1>4. ASSUME NEW d \in Docs, NEW i \in Instances, TransactionRead(t, d, i)
      PROVE  /\ txns'[t].state = "active"
             /\ \A read \in seen'[t] : <<read[1], Version(read[2])>> \in txns'[t].reads
             /\ \A record \in txns'[t].reads : \E read \in seen'[t] : read[1] = record[1]
  <2>1. txns[t] \in Txn /\ txns[t].state = "active" /\ txns[t].home = i
    BY <1>4 DEF OneProcess, TransactionRead, ProcessInv, TypeInv, TypeOK, Txn
  <2>2. \A read \in seen[t] : read[1] # d
    BY <1>4 DEF TransactionRead
  <2>3. \A record \in txns[t].reads : record[1] # d
    BY <2>1, <2>2 DEF ReadsRecorded
  <2>4. txns' = [txns EXCEPT ![t].reads = @ \cup {<<d, Version(store[d])>>}]
    BY <1>4, <2>1, <2>3 DEF TransactionRead
  <2>5. /\ txns'[t].state = "active"
        /\ txns'[t].reads = txns[t].reads \cup {<<d, Version(store[d])>>}
    BY <2>1, <2>4 DEF ProcessInv, TypeInv, TypeOK, Txn
  <2>6. seen'[t] = seen[t] \cup {<<d, store[d]>>}
    BY <1>4 DEF TransactionRead, ProcessInv, TypeInv, TypeOK
  <2>7. ASSUME NEW read \in seen'[t]
        PROVE  <<read[1], Version(read[2])>> \in txns'[t].reads
    <3>1. CASE read \in seen[t]
      BY <2>1, <2>5, <3>1 DEF ReadsRecorded
    <3>2. CASE read = <<d, store[d]>>
      <4>1. read[1] = d /\ read[2] = store[d]
        BY <3>2
      <4> QED BY <2>5, <4>1
    <3> QED BY <2>6, <3>1, <3>2
  <2>8. ASSUME NEW record \in txns'[t].reads
        PROVE  \E read \in seen'[t] : read[1] = record[1]
    <3>1. CASE record \in txns[t].reads
      BY <2>1, <2>6, <3>1 DEF ReadsRecorded
    <3>2. CASE record = <<d, Version(store[d])>>
      <4>1. record[1] = d /\ <<d, store[d]>> \in seen'[t] /\ <<d, store[d]>>[1] = d
        BY <2>6, <3>2
      <4> QED BY <4>1
    <3> QED BY <2>5, <3>1, <3>2
  <2> QED BY <2>5, <2>7, <2>8
<1> QED BY <1>1, <1>2, <1>3, <1>4, TransactionStep

\* Nobody reads in a transaction whose Commit has arrived.
LEMMA ReadsFixed ==
    ASSUME ProcessInv, [Next]_vars, NEW r \in Requests, pc[r] # "new"
    PROVE  pc'[r] # "new" /\ job'[r] = job[r] /\ ReadBy(r)' = ReadBy(r)
<1>1. pc'[r] # "new" /\ job'[r] = job[r]
  BY EveryStep DEF RequestStep, ProcessInv
<1>2. job[r].token # NoToken => job[r].token \in Tokens
  BY DEF ProcessInv, TypeInv, TypeOK, Job
<1>3. job[r].token # NoToken => seen'[job[r].token] = seen[job[r].token]
  <2> SUFFICES ASSUME job[r].token # NoToken PROVE seen'[job[r].token] = seen[job[r].token]
    OBVIOUS
  <2>1. \A d \in Docs, i \in Instances : ~TransactionRead(job[r].token, d, i)
    BY DEF TransactionRead
  <2> QED BY <1>2, <2>1, TransactionStep
<1> QED BY <1>1, <1>3 DEF ReadBy

\* A request that no commit can pass: what it has found unchanged stays so.
LEMMA HoldNext ==
    ASSUME OneProcess, "clear" \notin Faults, ProcessInv, VersionsTell, ReadsRecorded,
           ReadsHold, [Next]_vars
    PROVE  ReadsHold'
<1> SUFFICES ASSUME NEW r \in Requests
             PROVE  /\ pc'[r] = "validating" => \A read \in ReadBy(r)' :
                         \/ <<read[1], Version(read[2])>> \in work'[r].unchecked
                         \/ store'[read[1]] = read[2]
                    /\ pc'[r] = "starting" \/ Loaded(r)' =>
                         \A read \in ReadBy(r)' : store'[read[1]] = read[2]
  BY DEF ReadsHold, Version
<1>1. RequestStep(r)
  BY EveryStep DEF ProcessInv
<1>2. ASSUME Critical(r), ~ServerCommits(r) PROVE UNCHANGED store
  <2>1. ASSUME NEW q \in Requests, ServerCommits(q) PROVE FALSE
    <3>1. q = r
      BY <1>2, <2>1, WriterAlone DEF ServerCommits
    <3> QED BY <1>2, <2>1, <3>1
  <2> QED BY <2>1, OnlyCommitsWrite
<1>3. ASSUME pc'[r] = "starting" \/ Loaded(r)' \/ pc'[r] = "validating"
      PROVE  ~ServerCommits(r)
  <2> SUFFICES ASSUME ServerCommits(r) PROVE FALSE
    OBVIOUS
  <2>1. mtx'[r] = "committed" /\ pc'[r] = "committing"
    BY DEF ServerCommits, ProcessInv, TypeInv, TypeOK, CommitInv, ControlInv, AllAnswered
  <2> QED BY <1>3, <2>1 DEF Loaded
<1>4. ASSUME pc'[r] = "validating", NEW read \in ReadBy(r)'
      PROVE  \/ <<read[1], Version(read[2])>> \in work'[r].unchecked
             \/ store'[read[1]] = read[2]
  <2>1. CASE TakeTransaction(r)
    <3> DEFINE t == job[r].token
    <3>1. t \in Tokens /\ t # NoToken /\ txns[t].state = "active"
      BY <2>1 DEF TakeTransaction, Known, ProcessInv, TypeInv, TypeOK, Job
    <3>2. UNCHANGED <<job, seen>> /\ work'[r].unchecked = txns[t].reads
      BY <1>4, <2>1 DEF TakeTransaction, ProcessInv, TypeInv, TypeOK, Work
    <3>3. read \in seen[t]
      BY <1>4, <3>1, <3>2 DEF ReadBy
    <3> QED BY <3>1, <3>2, <3>3 DEF ReadsRecorded
  <2>2. CASE pc[r] = "validating" /\ work'[r].unchecked = work[r].unchecked
    <3>1. ReadBy(r)' = ReadBy(r)
      BY <2>2, ReadsFixed
    <3>2. UNCHANGED store
      BY <1>2, <1>3, <1>4, <2>2 DEF Critical
    <3> QED BY <1>4, <2>2, <3>1, <3>2 DEF ReadsHold
  <2>3. ASSUME NEW record \in work[r].unchecked, ReadUnchanged(r, record)
        PROVE  \/ <<read[1], Version(read[2])>> \in work'[r].unchecked
               \/ store'[read[1]] = read[2]
    <3>1. ReadBy(r)' = ReadBy(r) /\ UNCHANGED store /\ pc[r] = "validating"
      BY <2>3 DEF ReadUnchanged, ReadBy
    <3>2. work'[r].unchecked = work[r].unchecked \ {record}
      BY <2>3 DEF ReadUnchanged, ProcessInv, TypeInv, TypeOK, Work
    <3>3. \/ <<read[1], Version(read[2])>> \in work[r].unchecked
          \/ store[read[1]] = read[2]
      BY <1>4, <3>1 DEF ReadsHold
    <3>4. CASE <<read[1], Version(read[2])>> = record
      <4>1. Version(store[read[1]]) = Version(read[2])
        <5>1. record[1] = read[1] /\ record[2] = Version(read[2])
          BY <3>4
        <5> QED BY <2>3, <5>1 DEF ReadUnchanged
      <4>2. \E t \in Tokens : read \in seen[t]
        BY <1>4, <3>1 DEF ReadBy, ProcessInv, TypeInv, TypeOK, Job
      <4> QED BY <3>1, <4>1, <4>2 DEF VersionsTell
    <3> QED BY <3>1, <3>2, <3>3, <3>4
  <2> QED BY <1>1, <1>4, <2>1, <2>2, <2>3 DEF RequestStep
<1>5. ASSUME pc'[r] = "starting" \/ Loaded(r)', NEW read \in ReadBy(r)'
      PROVE  store'[read[1]] = read[2]
  <2>1. CASE pc[r] = "starting" \/ Loaded(r)
    <3>1. Critical(r) /\ pc[r] # "new"
      BY <2>1, LoadedCritical DEF Critical
    <3>2. ReadBy(r)' = ReadBy(r) /\ UNCHANGED store
      BY <1>2, <1>3, <1>5, <3>1, ReadsFixed
    <3> QED BY <1>5, <2>1, <3>2 DEF ReadsHold
  <2>2. CASE Load(r) /\ pc[r] # "starting"
    <3>1. pc[r] = "validating" /\ work[r].unchecked = {} /\ UNCHANGED store
      BY <2>2 DEF Load, Validated
    <3>2. ReadBy(r)' = ReadBy(r)
      BY <3>1, ReadsFixed
    <3> QED BY <1>5, <3>1, <3>2 DEF ReadsHold
  <2>3. CASE pc'[r] = "starting" /\ job'[r] = job[r] /\ job[r].token = NoToken
    BY <1>5, <2>3 DEF ReadBy
  <2> QED BY <1>1, <1>5, <2>1, <2>2, <2>3 DEF RequestStep
<1> QED BY <1>4, <1>5

-----------------------------------------------------------------------------
(* The refinement.                                                         *)

SerialInv ==
    /\ SnapshotWhole /\ TimesDiffer /\ RowsDated
    /\ VersionsTell /\ ReadsRecorded /\ ReadsHold

\* Nothing has been read, loaded or written.
LEMMA SerialInit == Init => SerialInv
<1> SUFFICES ASSUME Init PROVE SerialInv
  OBVIOUS
<1>1. SnapshotWhole /\ TimesDiffer /\ ReadsHold
  BY DEF Init, SnapshotWhole, TimesDiffer, ReadsHold, Loaded
<1>2. RowsDated /\ VersionsTell
  BY DEF Init, RowsDated, Dated, VersionsTell
<1>3. ReadsRecorded
  BY DEF Init, ReadsRecorded
<1> QED BY <1>1, <1>2, <1>3 DEF SerialInv

\* MongoDB's commit of a request is the abstract store's commit of it.
LEMMA CommitRefines ==
    ASSUME ProcessInv, SerialInv, NEW r \in Requests, ServerCommits(r)
    PROVE  Abstract!Commit(NewCommit)
<1>1. /\ history' = Append(history, NewCommit)
      /\ NewCommit.req = r /\ NewCommit.at = job[r].now /\ NewCommit.reads = ReadBy(r)
      /\ NewCommit.writes = job[r].batch /\ NewCommit.after = After(r)
  BY CommitIsNew DEF ProcessInv
<1>2. mtx[r] = "prepared" /\ Loaded(r)
  BY DEF ServerCommits, Loaded
<1>3. work[r].snapshot = store /\ Passes(job[r].batch, store)
  BY <1>2 DEF SerialInv, SnapshotWhole
<1>4. \A k \in DOMAIN history : history[k].req # NewCommit.req
  BY <1>1, <1>2 DEF ProcessInv, CommitInv, HistoryInv, Committed
<1>5. \A read \in NewCommit.reads : store[read[1]] = read[2]
  BY <1>1, <1>2 DEF SerialInv, ReadsHold
<1>6. Changed(job[r].batch) \subseteq Docs
  BY ChangedAreDocs DEF ProcessInv, TypeInv, TypeOK, Job
<1>7. \A d \in Changed(job[r].batch) :
        After(r)[d] = Written(job[r].batch[d], store[d], job[r].now, r)
  BY <1>3, <1>6 DEF After, Before
<1>8. store' = [d \in Docs |-> IF d \in Changed(job[r].batch) THEN After(r)[d] ELSE store[d]]
  <2>1. store' = [d \in Docs |-> IF d \in RowsWritten(r) THEN After(r)[d] ELSE store[d]]
    BY DEF ServerCommits
  <2>2. ASSUME NEW d \in Docs
        PROVE  (IF d \in RowsWritten(r) THEN After(r)[d] ELSE store[d])
                 = IF d \in Changed(job[r].batch) THEN After(r)[d] ELSE store[d]
    <3>1. CASE d \in RowsWritten(r)
      BY <3>1 DEF RowsWritten, RowOps
    <3>2. CASE d \in Changed(job[r].batch) /\ d \notin RowsWritten(r)
      <4>1. job[r].batch[d].op = "delete" /\ store[d] = NoRow
        BY <1>3, <3>2 DEF RowsWritten, RowOps
      <4>2. After(r)[d] = NoRow
        BY <1>7, <3>2, <4>1 DEF Written
      <4> QED BY <3>2, <4>1, <4>2
    <3> QED BY <3>1, <3>2
  <2> QED BY <2>1, <2>2
<1>9. Abstract!Passes(NewCommit.writes, store)
  BY <1>1, <1>3 DEF Passes, PreconditionHolds, Version,
                    Abstract!Passes, Abstract!PreconditionHolds, Abstract!Version
<1>10. \A d \in Abstract!Changed(NewCommit.writes) :
         NewCommit.after[d] = Abstract!Written(NewCommit.writes[d], store[d], NewCommit.at,
                                               NewCommit.req)
  BY <1>1, <1>7, ZenonT(60) DEF Changed, Written, Abstract!Changed, Abstract!Written
<1>11. store' = [d \in Docs |-> IF d \in Abstract!Changed(NewCommit.writes)
                               THEN NewCommit.after[d] ELSE store[d]]
  BY <1>1, <1>8 DEF Changed, Abstract!Changed
<1> QED BY <1>1, <1>4, <1>5, <1>9, <1>10, <1>11 DEF Abstract!Commit

\* On one server process the write path implements the abstract store: every
\* commit is one indivisible step, on which the reads of its transaction and
\* its preconditions hold and all of its writes land.  The process keeps
\* running, its callers stay, MongoDB reports its outcomes and nobody resets
\* the data; the clock moves on between two commits; and a client that wants
\* the guarantee reads a document once in a transaction.
THEOREM OneProcessSerializes ==
    ASSUME OneProcess, 0 \notin ClockSteps,
           Faults \cap {"unknown", "disconnect", "crash", "clear", "reread"} = {}
    PROVE  Spec => Serializable
<1>1. Init => LockInv /\ AllAnswered
  BY DEF Init, LockInv, Critical, AllAnswered
<1>2. TypeInv /\ AllAnswered /\ [Next]_vars => AllAnswered'
  BY AllAnsweredNext
<1>3. ProcessInv /\ SerialInv /\ [Next]_vars => SerialInv'
  BY SnapshotNext, TimesNext, DatedNext, TellNext, RecordedNext, HoldNext DEF SerialInv
<1>4. Init => Abstract!Init
  BY DEF Init, Abstract!Init
<1>5. ProcessInv /\ SerialInv /\ [Next]_vars => [Abstract!Next]_(Abstract!vars)
  <2> SUFFICES ASSUME ProcessInv, SerialInv, [Next]_vars
               PROVE  [Abstract!Next]_(Abstract!vars)
    OBVIOUS
  <2>1. CASE UNCHANGED <<store, history>>
    BY <2>1 DEF Abstract!vars
  <2>2. ASSUME NEW r \in Requests, ServerCommits(r) PROVE Abstract!Next
    <3>1. Len(history') = Len(history) + 1 /\ Abstract!Commit(history'[Len(history')])
      BY <2>2, CommitRefines, CommitIsNew DEF NewCommit, ProcessInv
    <3> QED BY <3>1 DEF Abstract!Next
  <2> QED BY <2>1, <2>2, OnlyCommitsWrite
<1>6. Spec => [](ProcessInv /\ SerialInv)
  BY <1>1, <1>2, <1>3, TypeInit, TypeNext, CommitInit, CommitNext, LockNext, SerialInit, PTL
  DEF Spec, ProcessInv
<1> QED BY <1>4, <1>5, <1>6, PTL DEF Spec, Serializable, Abstract!Spec
===============================================================================
