------------------------------ MODULE CommitPath ------------------------------
(***************************************************************************)
(* The write path of waldflam: the transaction manager (txn.rs), the       *)
(* handlers that commit (service.rs commit and apply_single_write,         *)
(* write_stream.rs), the commit engine (commit.rs), and the in-process     *)
(* watch hub each of them publishes to, on any number of server processes  *)
(* sharing one MongoDB.                                                    *)
(*                                                                         *)
(* A request runs as one task.  Its control state pc[r] goes               *)
(*                                                                         *)
(*   new -> waiting -> [validating ->] starting -> persisting              *)
(*       -> committing -> publishing -> ok                                 *)
(*                                                                         *)
(* and leaves that line for "rejected" or "aborted" (an error that says    *)
(* the commit did not happen), "unknown" (the error for a commit whose     *)
(* outcome MongoDB never reported) or "gone" (no answer at all).  Between  *)
(* two awaits of the code nothing another task does can be noticed, so     *)
(* each action is the code from one await to the next.                     *)
(*                                                                         *)
(* MongoDB is external and modelled from what commit.rs relies on: a       *)
(* transaction reads one snapshot, taken at its first read; a write of a   *)
(* row that changed since, or that another open transaction has written,   *)
(* fails with a transient error; a transaction whose writes all went in    *)
(* ("prepared" in mtx) takes effect atomically at a moment the server      *)
(* chooses once the commit was sent, which may be after the process that   *)
(* sent it stopped waiting.                                                *)
(***************************************************************************)
EXTENDS DocWrites, Sequences

CONSTANTS
    Instances,      \* server processes
    Tokens,         \* transactions clients begin
    NoToken,        \* the token of a request outside any transaction
    NoHolder,       \* the holder of a free commit lock
    Surfaces,       \* which handlers run: subset of {"commit","single","stream"}
    MaxAttempts,    \* MAX_TRANSACTION_ATTEMPTS
    MaxTries,       \* MAX_COMMIT_ATTEMPTS
    ClockSteps,     \* how far the clock may move between two readings of it
    Faults          \* which of AllFaults the environment may produce

AllFaults == {"transient", "storage", "unknown", "disconnect", "crash",
              "clear", "roaming", "reread", "deny"}

ASSUME ConstantsAssumption ==
    /\ Surfaces \subseteq {"commit", "single", "stream"}
    /\ MaxAttempts \in Nat \ {0}
    /\ MaxTries \in Nat \ {0}
    /\ ClockSteps \subseteq Nat
    /\ Faults \subseteq AllFaults
    /\ NoToken \notin Tokens
    /\ NoHolder \notin Requests
    /\ Instances # {}

VARIABLES
    store,      \* the documents in MongoDB
    history,    \* auxiliary: the commits in the order MongoDB applied them
    clock,      \* the wall clock, in microseconds
    holder,     \* per instance: the request that holds commit_lock
    txns,       \* per token: its entry in TransactionManager.active
    seen,       \* auxiliary: what the client of each transaction has read
    pc,         \* per request: where its task is
    job,        \* per request: what it asks for, fixed on arrival
    work,       \* per request: the working state of its task
    mtx,        \* per request: its MongoDB transaction
    hub         \* per instance: the requests whose commit its hub published

vars == <<store, history, clock, holder, txns, seen, pc, job, work, mtx, hub>>

-----------------------------------------------------------------------------

Live == {"waiting", "validating", "starting", "persisting", "committing",
         "publishing"}

Final == {"ok", "rejected", "aborted", "unknown", "gone"}

\* TransactionManager.active, with the clients' own ends: "fresh" before the
\* transaction begins, "gone" once its entry is removed or past its expiry.
Txn == [state : {"fresh", "active", "gone"}, home : Instances,
        readOnly : BOOLEAN, reads : SUBSET (Docs \X Nat)]

Job == [inst : Instances, surface : {"commit", "single", "stream"},
        token : Tokens \cup {NoToken}, batch : Batch, now : Nat]

Work == [unchecked : SUBSET (Docs \X Nat), snapshot : [Docs -> RowOrNone],
         attempt : Nat, tries : Nat]

\* One commit as MongoDB applied it.  Its DocumentDeltas are what before and
\* after hold of the documents its writes change.
Entry == [req : Requests, at : Nat, reads : SUBSET (Docs \X RowOrNone),
          writes : Batch, before : [Docs -> RowOrNone], after : [Docs -> RowOrNone]]

Init ==
    /\ store = [d \in Docs |-> NoRow]
    /\ history = << >>
    /\ clock = 0
    /\ holder = [i \in Instances |-> NoHolder]
    /\ txns = [t \in Tokens |->
                 [state |-> "fresh", home |-> CHOOSE i \in Instances : TRUE,
                  readOnly |-> FALSE, reads |-> {}]]
    /\ seen = [t \in Tokens |-> {}]
    /\ pc = [r \in Requests |-> "new"]
    /\ job = [r \in Requests |->
                [inst |-> CHOOSE i \in Instances : TRUE, surface |-> "commit",
                 token |-> NoToken, batch |-> NoWrites, now |-> 0]]
    /\ work = [r \in Requests |->
                 [unchecked |-> {}, snapshot |-> [d \in Docs |-> NoRow],
                  attempt |-> 0, tries |-> 0]]
    /\ mtx = [r \in Requests |-> "none"]
    /\ hub = [i \in Instances |-> << >>]

-----------------------------------------------------------------------------
(* The transaction manager: begin, record_read, rollback, expiry.          *)

\* BeginTransaction, or a read that asks for a new transaction.
BeginTransaction(t, i, readOnly) ==
    /\ txns[t].state = "fresh"
    /\ txns' = [txns EXCEPT ![t] = [state |-> "active", home |-> i,
                                     readOnly |-> readOnly, reads |-> {}]]
    /\ UNCHANGED <<store, history, clock, holder, seen, pc, job, work, mtx, hub>>

\* A read with a transaction selector answers the latest state and records
\* the version, the first one seen of each document winning.  An instance
\* that does not know the token records nothing and says nothing: a client
\* reaches one only when its calls are not routed to one instance ("roaming").
\* Clients wait for their reads before they commit; one may read a document
\* again and get something else ("reread": TODO(snapshot-reads) of txn.rs).
TransactionRead(t, d, i) ==
    /\ txns[t].state = "active"
    /\ i = txns[t].home \/ "roaming" \in Faults
    /\ \A r \in Requests : pc[r] # "new" => job[r].token # t
    /\ "reread" \in Faults \/ \A read \in seen[t] : read[1] # d
    /\ seen' = [seen EXCEPT ![t] = @ \cup {<<d, store[d]>>}]
    /\ IF i = txns[t].home /\ \A read \in txns[t].reads : read[1] # d
       THEN txns' = [txns EXCEPT ![t].reads = @ \cup {<<d, Version(store[d])>>}]
       ELSE UNCHANGED txns
    /\ UNCHANGED <<store, history, clock, holder, pc, job, work, mtx, hub>>

\* Rollback removes the entry; so, to every later call, does the passing of
\* TXN_LIFETIME, whether or not a begin has purged the entry since.
RollbackOrExpire(t) ==
    /\ txns[t].state = "active"
    /\ txns' = [txns EXCEPT ![t].state = "gone"]
    /\ UNCHANGED <<store, history, clock, holder, seen, pc, job, work, mtx, hub>>

-----------------------------------------------------------------------------
(* Arrival and the commit lock.                                            *)

\* What each handler accepts.  Only Commit carries a transaction; the document
\* RPCs build exactly one write; a Write stream request without writes is
\* answered with a token and never gets here.
Accepts(surface, token, batch) ==
    CASE surface = "commit" -> TRUE
      [] surface = "single" -> /\ token = NoToken
                               /\ \E d \in Docs : DOMAIN batch = {d}
      [] surface = "stream" -> token = NoToken /\ DOMAIN batch # {}

\* The handler starts and reads the clock; every write of the commit will
\* carry this time.  The lock is not held yet.
Receive(r, i, surface, token, batch) ==
    /\ pc[r] = "new"
    /\ Accepts(surface, token, batch)
    /\ token # NoToken => /\ txns[token].state # "fresh"
                          /\ i = txns[token].home \/ "roaming" \in Faults
    /\ \E step \in ClockSteps :
          /\ clock' = clock + step
          /\ job' = [job EXCEPT ![r] = [inst |-> i, surface |-> surface,
                        token |-> token, batch |-> batch, now |-> clock + step]]
    /\ pc' = [pc EXCEPT ![r] = "waiting"]
    /\ UNCHANGED <<store, history, holder, txns, seen, work, mtx, hub>>

\* Security rules refuse a Commit between the clock reading and the lock.
Deny(r) ==
    /\ "deny" \in Faults
    /\ pc[r] = "waiting" /\ job[r].surface = "commit"
    /\ pc' = [pc EXCEPT ![r] = "rejected"]
    /\ UNCHANGED <<store, history, clock, holder, txns, seen, job, work, mtx, hub>>

LockFree(r) == holder[job[r].inst] = NoHolder

Held(r) == [holder EXCEPT ![job[r].inst] = r]

Released(r) == [i \in Instances |-> IF holder[i] = r THEN NoHolder ELSE holder[i]]

\* Mutant: a guard that is never dropped.
EndKeepsGuard(r, outcome) ==
    /\ pc' = [pc EXCEPT ![r] = outcome]
    /\ UNCHANGED holder

\* The task ends; whatever guard it owns is dropped with it.
End(r, outcome) ==
    /\ pc' = [pc EXCEPT ![r] = outcome]
    /\ holder' = Released(r)

\* Mutant: a commit outside any transaction does without the lock.
AcquireWithoutLock(r) ==
    /\ pc[r] = "waiting"
    /\ job[r].token = NoToken
    /\ pc' = [pc EXCEPT ![r] = "starting"]
    /\ UNCHANGED <<store, history, clock, holder, txns, seen, job, work, mtx, hub>>

\* The lock is granted to a request outside any transaction.
Acquire(r) ==
    /\ pc[r] = "waiting" /\ LockFree(r)
    /\ job[r].token = NoToken
    /\ holder' = Held(r)
    /\ pc' = [pc EXCEPT ![r] = "starting"]
    /\ UNCHANGED <<store, history, clock, txns, seen, job, work, mtx, hub>>

Known(t, i) == txns[t].state = "active" /\ txns[t].home = i

\* The lock is granted and `take` removes the transaction.  A read-only one
\* that carries writes is refused, and is gone all the same.
TakeTransaction(r) ==
    /\ pc[r] = "waiting" /\ LockFree(r)
    /\ job[r].token # NoToken /\ Known(job[r].token, job[r].inst)
    /\ txns' = [txns EXCEPT ![job[r].token].state = "gone"]
    /\ IF txns[job[r].token].readOnly /\ DOMAIN job[r].batch # {}
       THEN /\ pc' = [pc EXCEPT ![r] = "rejected"]
            /\ UNCHANGED <<holder, work>>
       ELSE /\ pc' = [pc EXCEPT ![r] = "validating"]
            /\ holder' = Held(r)
            /\ work' = [work EXCEPT ![r].unchecked = txns[job[r].token].reads]
    /\ UNCHANGED <<store, history, clock, seen, job, mtx, hub>>

\* `take` finds no such transaction: ABORTED, and the guard is dropped.
TakeFails(r) ==
    /\ pc[r] = "waiting" /\ LockFree(r)
    /\ job[r].token # NoToken /\ ~Known(job[r].token, job[r].inst)
    /\ pc' = [pc EXCEPT ![r] = "aborted"]
    /\ UNCHANGED <<store, history, clock, holder, txns, seen, job, work, mtx, hub>>

-----------------------------------------------------------------------------
(* Validation: the recorded reads are looked up again, one await each and  *)
(* outside the MongoDB transaction that will write.                        *)

ReadUnchanged(r, read) ==
    /\ pc[r] = "validating" /\ read \in work[r].unchecked
    /\ Version(store[read[1]]) = read[2]
    /\ work' = [work EXCEPT ![r].unchecked = @ \ {read}]
    /\ UNCHANGED <<store, history, clock, holder, txns, seen, pc, job, mtx, hub>>

ReadChanged(r, read) ==
    /\ pc[r] = "validating" /\ read \in work[r].unchecked
    /\ Version(store[read[1]]) # read[2]
    /\ End(r, "aborted")
    /\ UNCHANGED <<store, history, clock, txns, seen, job, work, mtx, hub>>

-----------------------------------------------------------------------------
(* apply_commit: one attempt is a MongoDB transaction.                     *)

Validated(r) == pc[r] = "validating" /\ work[r].unchecked = {}

\* apply_in_transaction loads every target in one snapshot and runs the
\* writes in memory.  A precondition that fails aborts the transaction and is
\* the request's answer.
Load(r) ==
    /\ pc[r] = "starting" \/ Validated(r)
    /\ work' = [work EXCEPT ![r].snapshot = store]
    /\ IF Passes(job[r].batch, store)
       THEN pc' = [pc EXCEPT ![r] = "persisting"] /\ UNCHANGED holder
       ELSE End(r, "rejected")
    /\ UNCHANGED <<store, history, clock, txns, seen, job, mtx, hub>>

RowsWritten(r) == RowOps(job[r].batch, work[r].snapshot)

\* Mutant: the targets loaded outside the session, so that MongoDB does not
\* know what the writes were computed from.
ConflictUnaware(r) ==
    \E d \in RowsWritten(r), q \in Requests \ {r} :
        mtx[q] = "prepared" /\ d \in RowsWritten(q)

Conflict(r) ==
    \E d \in RowsWritten(r) :
        \/ store[d] # work[r].snapshot[d]
        \/ \E q \in Requests \ {r} : mtx[q] = "prepared" /\ d \in RowsWritten(q)

\* Mutant: writes that skip the transaction's conflict check.
PersistBlindly(r) ==
    /\ pc[r] = "persisting"
    /\ pc' = [pc EXCEPT ![r] = "committing"]
    /\ mtx' = [mtx EXCEPT ![r] = "prepared"]
    /\ UNCHANGED <<store, history, clock, holder, txns, seen, job, work, hub>>

\* The final states and the commit notice go into the transaction.
Persist(r) ==
    /\ pc[r] = "persisting" /\ ~Conflict(r)
    /\ pc' = [pc EXCEPT ![r] = "committing"]
    /\ mtx' = [mtx EXCEPT ![r] = "prepared"]
    /\ UNCHANGED <<store, history, clock, holder, txns, seen, job, work, hub>>

\* Mutants: one attempt too many, and attempts without end.
RestartOnceMore(r) ==
    /\ mtx' = [mtx EXCEPT ![r] = "none"]
    /\ work' = [work EXCEPT ![r].attempt = @ + 1, ![r].tries = 0]
    /\ IF work[r].attempt = MaxAttempts
       THEN End(r, "aborted")
       ELSE pc' = [pc EXCEPT ![r] = "starting"] /\ UNCHANGED holder
    /\ UNCHANGED <<store, history, clock, txns, seen, job, hub>>

RestartForever(r) ==
    /\ mtx' = [mtx EXCEPT ![r] = "none"]
    /\ pc' = [pc EXCEPT ![r] = "starting"]
    /\ UNCHANGED <<store, history, clock, holder, txns, seen, job, work, hub>>

\* The transaction is aborted with a transient error: back off and start it
\* over, or answer ABORTED when the attempts are used up.
Restart(r) ==
    /\ mtx' = [mtx EXCEPT ![r] = "none"]
    /\ work' = [work EXCEPT ![r].attempt = @ + 1, ![r].tries = 0]
    /\ IF work[r].attempt + 1 = MaxAttempts
       THEN End(r, "aborted")
       ELSE pc' = [pc EXCEPT ![r] = "starting"] /\ UNCHANGED holder
    /\ UNCHANGED <<store, history, clock, txns, seen, job, hub>>

WriteConflict(r) ==
    /\ pc[r] = "persisting"
    /\ Conflict(r) \/ "transient" \in Faults
    /\ Restart(r)

\* MongoDB fails without the transient label while validating or applying:
\* the transaction is aborted and the error is the answer.
StorageFails(r) ==
    /\ "storage" \in Faults
    /\ pc[r] \in {"validating", "starting", "persisting"}
    /\ End(r, "rejected")
    /\ UNCHANGED <<store, history, clock, txns, seen, job, work, mtx, hub>>

-----------------------------------------------------------------------------
(* commit_transaction: what the server does, and what it reports.          *)

Before(r) == work[r].snapshot

After(r) ==
    [d \in Docs |-> IF d \in Changed(job[r].batch)
                   THEN Written(job[r].batch[d], Before(r)[d], job[r].now, r)
                   ELSE Before(r)[d]]

ReadBy(r) == IF job[r].token = NoToken THEN {} ELSE seen[job[r].token]

\* MongoDB applies a transaction whose commit was sent.
ServerCommits(r) ==
    /\ mtx[r] = "prepared"
    /\ mtx' = [mtx EXCEPT ![r] = "committed"]
    /\ store' = [d \in Docs |->
                   IF d \in RowsWritten(r) THEN After(r)[d] ELSE store[d]]
    /\ history' = Append(history, [req |-> r, at |-> job[r].now,
                      reads |-> ReadBy(r), writes |-> job[r].batch,
                      before |-> Before(r), after |-> After(r)])
    /\ UNCHANGED <<clock, holder, txns, seen, pc, job, work, hub>>

\* MongoDB drops a transaction nobody is waiting for any more.
ServerAborts(r) ==
    /\ mtx[r] = "prepared" /\ pc[r] \in {"unknown", "gone"}
    /\ mtx' = [mtx EXCEPT ![r] = "none"]
    /\ UNCHANGED <<store, history, clock, holder, txns, seen, pc, job, work, hub>>

\* Mutant: Commit drops its guard before it publishes, as the others do.
ReplyDropsGuard(r) ==
    /\ pc[r] = "committing" /\ mtx[r] = "committed"
    /\ pc' = [pc EXCEPT ![r] = "publishing"]
    /\ holder' = Released(r)
    /\ UNCHANGED <<store, history, clock, txns, seen, job, work, mtx, hub>>

\* The commit is acknowledged.  Single writes and Write streams drop the
\* commit guard here, Commit keeps it until it has published.
CommitReply(r) ==
    /\ pc[r] = "committing" /\ mtx[r] = "committed"
    /\ pc' = [pc EXCEPT ![r] = "publishing"]
    /\ holder' = IF job[r].surface = "commit" THEN holder ELSE Released(r)
    /\ UNCHANGED <<store, history, clock, txns, seen, job, work, mtx, hub>>

\* Mutants: an unknown outcome restarts the whole transaction, or is
\* reported as an abort.
UnknownRestarts(r) ==
    /\ "unknown" \in Faults
    /\ pc[r] = "committing"
    /\ Restart(r)

UnknownAborts(r) ==
    /\ "unknown" \in Faults
    /\ pc[r] = "committing"
    /\ End(r, "aborted")
    /\ UNCHANGED <<store, history, clock, txns, seen, job, work, mtx, hub>>

\* The outcome is unknown: send the commit again, up to MaxTries times.
CommitUnknown(r) ==
    /\ "unknown" \in Faults
    /\ pc[r] = "committing"
    /\ work' = [work EXCEPT ![r].tries = @ + 1]
    /\ IF work[r].tries + 1 = MaxTries
       THEN End(r, "unknown")
       ELSE UNCHANGED <<pc, holder>>
    /\ UNCHANGED <<store, history, clock, txns, seen, job, mtx, hub>>

\* The server reports that the transaction did not commit, with the
\* transient label or without it.
CommitTransient(r) ==
    /\ "transient" \in Faults
    /\ pc[r] = "committing" /\ mtx[r] = "prepared"
    /\ Restart(r)

CommitFails(r) ==
    /\ "storage" \in Faults
    /\ pc[r] = "committing" /\ mtx[r] = "prepared"
    /\ mtx' = [mtx EXCEPT ![r] = "none"]
    /\ End(r, "rejected")
    /\ UNCHANGED <<store, history, clock, txns, seen, job, work, hub>>

\* Mutant: a commit that only deletes is taken for one without changes.
PublishSkipsDeletes(r) ==
    /\ pc[r] = "publishing"
    /\ hub' = IF \A d \in Changed(job[r].batch) : After(r)[d] = NoRow
              THEN hub ELSE [hub EXCEPT ![job[r].inst] = Append(@, r)]
    /\ End(r, "ok")
    /\ UNCHANGED <<store, history, clock, txns, seen, job, work, mtx>>

\* hub.publish, then the answer; a guard still held is dropped on return.
Publish(r) ==
    /\ pc[r] = "publishing"
    /\ hub' = [hub EXCEPT ![job[r].inst] = Append(@, r)]
    /\ End(r, "ok")
    /\ UNCHANGED <<store, history, clock, txns, seen, job, work, mtx>>

-----------------------------------------------------------------------------
(* What cuts a request short.                                              *)

\* The caller of a unary RPC goes away and its handler is dropped at the
\* await it is in; a commit already sent stays with MongoDB.  Publishing is
\* not an await, and a Write stream's task outlives its client.
Disconnect(r) ==
    /\ "disconnect" \in Faults
    /\ pc[r] \in Live \ {"publishing"} /\ job[r].surface # "stream"
    /\ End(r, "gone")
    /\ UNCHANGED <<store, history, clock, txns, seen, job, work, mtx, hub>>

\* The process dies: its tasks, its lock and its transactions are lost.
Crash(i) ==
    /\ "crash" \in Faults
    /\ pc' = [r \in Requests |->
                IF job[r].inst = i /\ pc[r] \in Live THEN "gone" ELSE pc[r]]
    /\ holder' = [holder EXCEPT ![i] = NoHolder]
    /\ txns' = [t \in Tokens |->
                  IF txns[t].home = i /\ txns[t].state = "active"
                  THEN [txns[t] EXCEPT !.state = "gone"] ELSE txns[t]]
    /\ UNCHANGED <<store, history, clock, seen, job, work, mtx, hub>>

\* The reset endpoint drops the collection, taking no lock of this process;
\* MongoDB makes the drop wait for transactions that have touched it.
ClearData ==
    /\ "clear" \in Faults
    /\ \A r \in Requests : pc[r] # "persisting" /\ mtx[r] # "prepared"
    /\ store' = [d \in Docs |-> NoRow]
    /\ UNCHANGED <<history, clock, holder, txns, seen, pc, job, work, mtx, hub>>

-----------------------------------------------------------------------------

ClientStep ==
    \/ \E t \in Tokens :
          \/ \E i \in Instances, readOnly \in BOOLEAN : BeginTransaction(t, i, readOnly)
          \/ \E d \in Docs, i \in Instances : TransactionRead(t, d, i)
          \/ RollbackOrExpire(t)
    \/ \E r \in Requests, i \in Instances, surface \in Surfaces,
          token \in Tokens \cup {NoToken}, batch \in WriteSets :
          Receive(r, i, surface, token, batch)

LockStep(r) == Acquire(r) \/ TakeTransaction(r) \/ TakeFails(r)

\* The task's own progress, and MongoDB's on its behalf.
TaskStep(r) ==
    \/ \E read \in work[r].unchecked : ReadUnchanged(r, read) \/ ReadChanged(r, read)
    \/ Load(r)
    \/ Persist(r)
    \/ WriteConflict(r)
    \/ ServerCommits(r)
    \/ ServerAborts(r)
    \/ CommitReply(r)
    \/ Publish(r)

FaultStep ==
    \/ \E r \in Requests :
          \/ Deny(r)
          \/ StorageFails(r)
          \/ CommitUnknown(r)
          \/ CommitTransient(r)
          \/ CommitFails(r)
          \/ Disconnect(r)
    \/ \E i \in Instances : Crash(i)
    \/ ClearData

Next ==
    \/ ClientStep
    \/ \E r \in Requests : LockStep(r) \/ TaskStep(r)
    \/ FaultStep

Spec == Init /\ [][Next]_vars

\* Tasks are scheduled, MongoDB resolves every transaction it was sent, and
\* tokio's mutex serves its waiters in order, so a lock that is freed again
\* and again is one day granted to each of them.  Nothing obliges clients to
\* call or faults to happen.
Fairness ==
    \A r \in Requests : WF_vars(TaskStep(r)) /\ SF_vars(LockStep(r))

FairSpec == Spec /\ Fairness
=============================================================================
