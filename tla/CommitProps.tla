------------------------------ MODULE CommitProps ------------------------------
(***************************************************************************)
(* What must be true of the write path, stated over CommitPath.            *)
(***************************************************************************)
EXTENDS CommitPath

\* Every variable has its type, and the two retry loops of commit.rs stay
\* within MAX_TRANSACTION_ATTEMPTS and MAX_COMMIT_ATTEMPTS.
TypeOK ==
    /\ store \in [Docs -> RowOrNone]
    /\ history \in Seq(Entry)
    /\ clock \in Nat
    /\ holder \in [Instances -> Requests \cup {NoHolder}]
    /\ txns \in [Tokens -> Txn]
    /\ seen \in [Tokens -> SUBSET (Docs \X RowOrNone)]
    /\ pc \in [Requests -> {"new"} \cup Live \cup Final]
    /\ job \in [Requests -> Job]
    /\ work \in [Requests -> Work]
    /\ \A r \in Requests : work[r].attempt <= MaxAttempts /\ work[r].tries <= MaxTries
    /\ mtx \in [Requests -> {"none", "prepared", "committed"}]
    /\ hub \in [Instances -> Seq(Requests)]

-----------------------------------------------------------------------------
(* The abstract store.                                                     *)

Abstract == INSTANCE DocStore WITH store <- store, history <- history

\* On one server process, the write path implements DocStore: commits are
\* serializable, reads of transactions included.  This is the sum of the
\* commit lock, the read-set check and the MongoDB transaction.
Serializable == Abstract!Spec

-----------------------------------------------------------------------------
(* Safety.                                                                 *)

Committed == {history[k].req : k \in DOMAIN history}

CommitHappens == Len(history') > Len(history)

NewCommit == history'[Len(history')]

Critical(r) ==
    \/ pc[r] \in {"validating", "starting", "persisting", "committing"}
    \/ pc[r] = "publishing" /\ job[r].surface = "commit"

\* The commit lock works: from the first read it validates to the outcome of
\* its commit, and with Commit to the publishing, a request is alone on its
\* instance, whatever ended the requests before it.
MutualExclusion ==
    \A q, r \in Requests :
        Critical(q) /\ Critical(r) /\ job[q].inst = job[r].inst => q = r

\* The before-image of each row a commit writes is the row the store holds at
\* the moment the commit takes effect, whatever other instances, retries and
\* abandoned transactions are doing: nothing is ever overwritten unread.
ExactRowDeltas ==
    [][CommitHappens =>
         \A d \in RowOps(NewCommit.writes, NewCommit.before) :
             NewCommit.before[d] = store[d]]_vars

\* "Deltas are exact: `before` and `after` are the states the commit actually
\* moved between" (watch.rs), for every document the commit reports changed.
ExactDeltas ==
    [][CommitHappens =>
         \A d \in Changed(NewCommit.writes) : NewCommit.before[d] = store[d]]_vars

\* What a transaction read is still there, row for row, when its commit takes
\* effect: "a transaction can't be invalidated between its validation and
\* write" (service.rs).
ValidatedReadsHold ==
    [][CommitHappens => \A read \in NewCommit.reads : store[read[1]] = read[2]]_vars

\* An update that was applied on top of a document stays in it until a later
\* commit replaces or deletes the document: increments and masked updates of
\* concurrent commits, on any instances, are all kept.
NoLostUpdate ==
    \A k \in DOMAIN history : \A d \in Changed(history[k].writes) :
        \/ store[d] # NoRow /\ history[k].req \in store[d].marks
        \/ history[k].writes[d].op = "delete"
        \/ \E l \in k + 1 .. Len(history) :
             /\ d \in Changed(history[l].writes)
             /\ history[l].writes[d].op # "merge"

\* A request takes effect at most once however often its transaction is
\* restarted or its commit resent, and so does a client's transaction however
\* often the client sends its Commit.
CommitsOnce ==
    \A j, k \in DOMAIN history : j # k =>
        LET a == history[j].req  b == history[k].req
        IN  a # b /\ (job[a].token = NoToken \/ job[a].token # job[b].token)

\* An answer tells the truth: ok means applied; an error other than the
\* unknown outcome means it was not applied and never will be.
AnswersTruthful ==
    \A r \in Requests :
        /\ pc[r] \in {"publishing", "ok"} => r \in Committed
        /\ pc[r] \in {"rejected", "aborted"} => r \notin Committed /\ mtx[r] # "prepared"

Position(r) == CHOOSE k \in DOMAIN history : history[k].req = r

\* Each instance publishes the commits of its Commit calls in the order they
\* took effect, so the last such event a subscriber gets about a document
\* carries its latest state.
PublishedInOrder ==
    \A i \in Instances : \A a, b \in DOMAIN hub[i] :
        a < b /\ job[hub[i][a]].surface = "commit" /\ job[hub[i][b]].surface = "commit"
        => Position(hub[i][a]) < Position(hub[i][b])

\* "Every applied commit publishes the final state of each changed document"
\* (watch.rs), once the task that applied it has ended.
EveryCommitPublished ==
    \A r \in Committed :
        pc[r] \in Final => \E k \in DOMAIN hub[job[r].inst] : hub[job[r].inst][k] = r

-----------------------------------------------------------------------------
(* Liveness.                                                               *)

\* Every request that arrives is answered or abandoned: contention, retries
\* and the commit lock never hold one up for good.
RequestsEnd ==
    \A r \in Requests : pc[r] \in Live ~> pc[r] \in Final

\* No lock stays with a task that has ended: the lock is always free again.
LockIsReturned ==
    \A i \in Instances : []<>(holder[i] = NoHolder)
=============================================================================
