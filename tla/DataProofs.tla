------------------------------ MODULE DataProofs ------------------------------
(***************************************************************************)
(* Proofs about the writes of a commit and the queries over what they      *)
(* leave.  In this order:                                                  *)
(*   - a batch of writes is its writes one after another;                  *)
(*   - a merge goes by its mask;                                           *)
(*   - the columns beside a document follow it;                            *)
(*   - keys, rows of keys and sets order as they should;                   *)
(*   - the columns hold the keys of the fields, and a clause, or a bound,  *)
(*     tells by the key what its filter, or its cursor, asks of the value; *)
(*   - a query finds the same with its plan and without, and its pages     *)
(*     tile what it finds.                                                 *)
(***************************************************************************)
EXTENDS CollectionProps, SequenceTheorems, FiniteSetTheorems, TLAPS

\* The marker of what is not there is neither a value nor a document.
Marked ==
    /\ \A fields : Missing # MapOf(fields)
    /\ \A updated, fields : Missing # [updated |-> updated, fields |-> fields]
    /\ \A values, before : Missing # [values |-> values, before |-> before]

-----------------------------------------------------------------------------
(* The walks along a batch and along a path.                               *)

ViewBase(e) == Untouched(e[1])
ViewStep(e, k, view) == Judged(e[1], view, e[2][k], e[3])
Batch == INSTANCE Recursion WITH Base <- ViewBase, Step <- ViewStep

CommitBase(e) == [error |-> "none", docs |-> e[1]]
CommitStep(e, k, view) == CommittedNext(view, AsCompared(e[2], k, e[3]), e[3])
Series == INSTANCE Recursion WITH Base <- CommitBase, Step <- CommitStep

\* The views of a batch, one write after another.
LEMMA ViewsStepByStep ==
    ASSUME NEW docs, NEW writes, NEW now, Len(writes) \in Nat
    PROVE  /\ Views(docs, writes, now)[0] = Untouched(docs)
           /\ \A k \in 1 .. Len(writes) :
                  Views(docs, writes, now)[k]
                    = Judged(docs, Views(docs, writes, now)[k - 1], writes[k], now)
<1> DEFINE e == <<docs, writes, now>>
<1>1. Views(docs, writes, now) = Batch!Solution(e, Len(writes))
  BY DEF Batch!Solution, Batch!Solves, Views, ViewBase, ViewStep
<1>2. /\ Batch!Solution(e, Len(writes))[0] = ViewBase(e)
      /\ \A k \in 1 .. Len(writes) :
             Batch!Solution(e, Len(writes))[k] = ViewStep(e, k, Batch!Solution(e, Len(writes))[k - 1])
  <2> HIDE DEF e
  <2> QED BY Batch!StepByStep
<1> QED BY <1>1, <1>2 DEF ViewBase, ViewStep

\* The documents after each of the commits of one write.
LEMMA CommitsStepByStep ==
    ASSUME NEW docs, NEW writes, NEW now, Len(writes) \in Nat
    PROVE  /\ Commits(docs, writes, now)[0] = CommitBase(<<docs, writes, now>>)
           /\ \A k \in 1 .. Len(writes) :
                  Commits(docs, writes, now)[k]
                    = CommittedNext(Commits(docs, writes, now)[k - 1], AsCompared(writes, k, now), now)
<1> DEFINE e == <<docs, writes, now>>
<1>1. Commits(docs, writes, now) = Series!Solution(e, Len(writes))
  BY DEF Series!Solution, Series!Solves, Commits, CommitBase, CommitStep
<1>2. /\ Series!Solution(e, Len(writes))[0] = CommitBase(e)
      /\ \A k \in 1 .. Len(writes) :
             Series!Solution(e, Len(writes))[k] = CommitStep(e, k, Series!Solution(e, Len(writes))[k - 1])
  <2> HIDE DEF e
  <2> QED BY Series!StepByStep
<1> QED BY <1>1, <1>2 DEF CommitStep
-----------------------------------------------------------------------------
(* A batch is its writes.                                                  *)

SameButTime(s, t) ==
    /\ s = Missing <=> t = Missing
    /\ s # Missing => s.fields = t.fields

Likewise(w, v) ==
    /\ w.doc = v.doc /\ w.op = v.op /\ w.fields = v.fields
    /\ w.mask = v.mask /\ w.transforms = v.transforms

\* Beyond its precondition a write asks of its document only whether it is there
\* and what its fields are.
LEMMA SameJudgement ==
    ASSUME Marked, NEW asked, NEW write, NEW s, NEW t, NEW now, IsRow(s), IsRow(t), SameButTime(s, t),
           Likewise(asked, write), Refusal(asked, s) = Refusal(write, t)
    PROVE  LET one == ApplyWrite(asked, s, now)
               all == ApplyWrite(write, t, now)
           IN  /\ one.error = all.error
               /\ one.error = "none" /\ write.op # "verify" =>
                    /\ one.state = all.state
                    /\ one.state = Missing \/ one.state.updated = now
                    /\ IsRow(one.state)
               /\ one.error = "none" /\ write.op = "verify" =>
                    all.state = IF t = Missing THEN Missing ELSE [updated |-> now, fields |-> t.fields]
<1> DEFINE old(state) == IF state = Missing THEN NoFields ELSE state.fields
<1> DEFINE brought == TransformAll(Brought(write, old(s)), write.transforms, now)
<1>1. old(t) = old(s)
  BY DEF SameButTime
<1>2. ApplyWrite(asked, s, now) = Applied(asked, s, brought, now)
  BY DEF ApplyWrite, Brought, Likewise
<1>3. ApplyWrite(write, t, now) = Applied(write, t, brought, now)
  BY <1>1 DEF ApplyWrite
<1> HIDE DEF brought
<1> DEFINE error == Refused(write, Refusal(write, t), brought)
<1>4. Refused(asked, Refusal(asked, s), brought) = error
  BY DEF Refused, Likewise
<1>5. /\ Applied(asked, s, brought, now) = Outcome(asked, s, error, brought, now)
      /\ Applied(write, t, brought, now) = Outcome(write, t, error, brought, now)
  BY <1>4 DEF Applied
<1> HIDE DEF error
<1>6. ASSUME error = "none", write.op # "verify"
      PROVE  /\ Outcome(asked, s, error, brought, now).state = Outcome(write, t, error, brought, now).state
             /\ \/ Outcome(asked, s, error, brought, now).state = Missing
                \/ Outcome(asked, s, error, brought, now).state = [updated |-> now, fields |-> brought]
  BY <1>6 DEF Outcome, Likewise
<1>7. ASSUME error = "none", write.op = "verify"
      PROVE  Outcome(write, t, error, brought, now).state
               = IF t = Missing THEN Missing ELSE [updated |-> now, fields |-> t.fields]
  BY <1>7 DEF Outcome, IsRow
<1>8. Outcome(asked, s, error, brought, now).error = error /\ Outcome(write, t, error, brought, now).error = error
  BY DEF Outcome
<1> QED BY <1>2, <1>3, <1>5, <1>6, <1>7, <1>8 DEF IsRow

\* A commit of one write.
LEMMA OneWrite ==
    ASSUME NEW docs, NEW write, NEW now,
           docs = [d \in DOMAIN docs |-> docs[d]], write.doc \in DOMAIN docs
    PROVE  LET done == ApplyWrites(docs, <<write>>, now)
               step == ApplyWrite(write, docs[write.doc], now)
           IN  /\ done.error = step.error
               /\ step.error = "none" =>
                    Persisted(docs, done) = IF write.op = "verify" THEN docs
                                            ELSE [docs EXCEPT ![write.doc] = step.state]
<1> DEFINE step == ApplyWrite(write, docs[write.doc], now)
<1>1. ApplyWrites(docs, <<write>>, now) = Judged(docs, Untouched(docs), write, now)
  <2>1. Len(<<write>>) = 1 /\ <<write>>[1] = write
    OBVIOUS
  <2> HIDE DEF step
  <2>2. Views(docs, <<write>>, now)[1] = Judged(docs, Views(docs, <<write>>, now)[0], write, now)
    BY <2>1, ViewsStepByStep
  <2>3. Views(docs, <<write>>, now)[0] = Untouched(docs)
    BY <2>1, ViewsStepByStep
  <2> QED BY <2>1, <2>2, <2>3 DEF ApplyWrites
<1>2. Judged(docs, Untouched(docs), write, now) = Advanced(Untouched(docs), write, step)
  BY DEF Judged, Untouched
<1> HIDE DEF step
<1>3. /\ Advanced(Untouched(docs), write, step).error = step.error
      /\ Advanced(Untouched(docs), write, step).rows = [docs EXCEPT ![write.doc] = step.state]
      /\ Advanced(Untouched(docs), write, step).dirty = IF write.op = "verify" THEN {} ELSE {write.doc}
  BY DEF Advanced, Untouched
<1> DEFINE done == Advanced(Untouched(docs), write, step)
<1> HIDE DEF done
<1>4. ASSUME step.error = "none"
      PROVE  Persisted(docs, done) = IF write.op = "verify" THEN docs
                                     ELSE [docs EXCEPT ![write.doc] = step.state]
  <2>1. Persisted(docs, done) = [d \in DOMAIN docs |-> IF d \in done.dirty THEN done.rows[d] ELSE docs[d]]
    BY <1>3, <1>4 DEF Persisted, done
  <2>2. CASE write.op = "verify"
    BY <2>1, <2>2, <1>3 DEF done
  <2>3. CASE write.op # "verify"
    BY <2>1, <2>3, <1>3 DEF done
  <2> QED BY <2>2, <2>3
<1> QED BY <1>1, <1>2, <1>3, <1>4 DEF done, step

\* The documents as the writes leave them one after another, and as the batch
\* sees them: they differ in the times of documents only verified.
Alike(docs, writes, k, now, one, all) ==
    /\ all.error = one.error
    /\ one.error = "none" =>
         /\ one.docs = [d \in DOMAIN docs |-> one.docs[d]]
         /\ all.rows = [d \in DOMAIN docs |-> all.rows[d]]
         /\ \A d \in DOMAIN docs :
              /\ IsRow(one.docs[d]) /\ IsRow(all.rows[d])
              /\ SameButTime(one.docs[d], all.rows[d])
              /\ d \in all.dirty \/ (\A j \in 1 .. k : writes[j].doc # d) => one.docs[d] = all.rows[d]
              /\ d \in all.dirty => one.docs[d] = Missing \/ one.docs[d].updated = now
              /\ d \notin all.dirty => one.docs[d] = docs[d]
              /\ d \in all.dirty <=> \E j \in 1 .. k : writes[j].doc = d /\ writes[j].op # "verify"
              /\ (\E j \in 1 .. k : writes[j].doc = d) /\ all.rows[d] # Missing => all.rows[d].updated = now

\* What the batch asks of the document it sees, and the write of the stored one.
LEMMA SameRefusal ==
    ASSUME NEW docs, NEW writes, NEW now, NEW one, NEW all, NEW k \in Nat, k # 0,
           Alike(docs, writes, k - 1, now, one, all), one.error = "none", writes[k].doc \in DOMAIN docs,
           \A d \in DOMAIN docs : docs[d] # Missing => docs[d].updated # now
    PROVE  /\ Likewise(AsCompared(writes, k, now), writes[k])
           /\ Refusal(AsCompared(writes, k, now), one.docs[writes[k].doc])
                = Refusal(writes[k], all.rows[writes[k].doc])
<1> DEFINE w == writes[k]
           at == w.doc
           s == one.docs[at]
           t == all.rows[at]
           old == w.precondition.kind = "updated" /\ OnlyVerified(writes, k)
<1>1. /\ SameButTime(s, t) /\ at \in DOMAIN docs
      /\ at \in all.dirty \/ (\A j \in 1 .. k - 1 : writes[j].doc # at) => s = t
      /\ at \notin all.dirty => s = docs[at]
      /\ at \in all.dirty <=> \E j \in 1 .. k - 1 : writes[j].doc = at /\ writes[j].op # "verify"
      /\ (\E j \in 1 .. k - 1 : writes[j].doc = at) /\ t # Missing => t.updated = now
  BY DEF Alike
<1>2. OnlyVerified(writes, k) <=> /\ \E j \in 1 .. k - 1 : writes[j].doc = at
                                 /\ at \notin all.dirty
  BY <1>1 DEF OnlyVerified
<1>3. CASE ~old
  <2>1. AsCompared(writes, k, now) = w
    BY <1>3 DEF AsCompared
  <2>2. w.precondition.kind = "updated" => s = t
    BY <1>1, <1>2, <1>3
  <2>3. Refusal(w, s) = Refusal(w, t)
    <3> HIDE DEF w, s, t
    <3> QED BY <1>1, <2>2 DEF Refusal, SameButTime
  <2> QED BY <2>1, <2>3 DEF Likewise
<1>4. CASE old
  <2> DEFINE asked == AsCompared(writes, k, now)
  <2>1. /\ Likewise(asked, w)
        /\ asked.precondition = IF w.precondition.at = now THEN [kind |-> "exists"]
                                ELSE [kind |-> "updated", at |-> now]
    BY <1>4 DEF AsCompared, Likewise
  <2>2. /\ s = Missing <=> t = Missing
        /\ s # Missing => s.updated # now
        /\ t # Missing => t.updated = now
    BY <1>1, <1>2, <1>4 DEF SameButTime
  <2>3. w.precondition.kind = "updated"
    BY <1>4
  <2> HIDE DEF asked, w, s, t
  <2>4. Refusal(asked, s) = IF s = Missing THEN "NotFound"
                            ELSE IF w.precondition.at = now THEN "none" ELSE "FailedPrecondition"
    <3>1. CASE w.precondition.at = now
      <4>1. asked.precondition.kind = "exists"
        BY <2>1, <3>1
      <4> QED BY <3>1, <4>1 DEF Refusal
    <3>2. CASE w.precondition.at # now
      <4>1. asked.precondition.kind = "updated" /\ asked.precondition.at = now
        BY <2>1, <3>2
      <4> QED BY <2>2, <3>2, <4>1 DEF Refusal
    <3> QED BY <3>1, <3>2
  <2>5. Refusal(w, t) = IF t = Missing THEN "NotFound"
                        ELSE IF w.precondition.at = now THEN "none" ELSE "FailedPrecondition"
    BY <2>2, <2>3 DEF Refusal
  <2> QED BY <2>1, <2>2, <2>4, <2>5 DEF asked, w, s, t
<1> QED BY <1>3, <1>4

\* One more write keeps them so.
LEMMA AlikeStep ==
    ASSUME Marked, NEW docs, NEW writes, NEW now, NEW one, NEW all, NEW k \in Nat, k # 0,
           Alike(docs, writes, k - 1, now, one, all), writes[k].doc \in DOMAIN docs,
           \A d \in DOMAIN docs : docs[d] # Missing => docs[d].updated # now
    PROVE  Alike(docs, writes, k, now, CommittedNext(one, AsCompared(writes, k, now), now),
                                       Judged(docs, all, writes[k], now))
<1>1. CASE one.error # "none"
  BY <1>1 DEF Alike, CommittedNext, Judged
<1>2. CASE one.error = "none"
  <2>1. PICK write : write = writes[k]
    OBVIOUS
  <2>asked. PICK asked : asked = AsCompared(writes, k, now)
    OBVIOUS
  <2>2. PICK at : at = write.doc
    OBVIOUS
  <2>3. /\ all.error = "none" /\ at \in DOMAIN docs
        /\ one.docs = [d \in DOMAIN docs |-> one.docs[d]]
        /\ all.rows = [d \in DOMAIN docs |-> all.rows[d]]
    BY <1>2, <2>1, <2>2 DEF Alike
  <2>4. \A d \in DOMAIN docs :
              /\ IsRow(one.docs[d]) /\ IsRow(all.rows[d])
              /\ SameButTime(one.docs[d], all.rows[d])
              /\ d \in all.dirty \/ (\A j \in 1 .. k - 1 : writes[j].doc # d) => one.docs[d] = all.rows[d]
              /\ d \in all.dirty => one.docs[d] = Missing \/ one.docs[d].updated = now
              /\ d \notin all.dirty => one.docs[d] = docs[d]
              /\ d \in all.dirty <=> \E j \in 1 .. k - 1 : writes[j].doc = d /\ writes[j].op # "verify"
              /\ (\E j \in 1 .. k - 1 : writes[j].doc = d) /\ all.rows[d] # Missing => all.rows[d].updated = now
    BY <1>2 DEF Alike
  <2>5. Likewise(asked, write) /\ Refusal(asked, one.docs[at]) = Refusal(write, all.rows[at])
    <3>1. /\ Likewise(AsCompared(writes, k, now), writes[k])
          /\ Refusal(AsCompared(writes, k, now), one.docs[writes[k].doc])
               = Refusal(writes[k], all.rows[writes[k].doc])
      BY <1>2, SameRefusal
    <3> QED BY <3>1, <2>1, <2>asked, <2>2, Zenon
  <2>6. PICK stepOne : stepOne = ApplyWrite(asked, one.docs[at], now)
    OBVIOUS
  <2>7. PICK stepAll : stepAll = ApplyWrite(write, all.rows[at], now)
    OBVIOUS
  <2>8. IsRow(one.docs[at]) /\ IsRow(all.rows[at]) /\ SameButTime(one.docs[at], all.rows[at])
    BY <2>3, <2>4
  <2>9. /\ stepOne.error = stepAll.error
        /\ stepOne.error = "none" /\ write.op # "verify" =>
             /\ stepOne.state = stepAll.state
             /\ stepOne.state = Missing \/ stepOne.state.updated = now
             /\ IsRow(stepOne.state)
        /\ stepOne.error = "none" /\ write.op = "verify" =>
             stepAll.state = IF all.rows[at] = Missing THEN Missing
                             ELSE [updated |-> now, fields |-> all.rows[at].fields]
    BY <2>5, <2>6, <2>7, <2>8, SameJudgement
  <2>10. PICK then : then = CommittedNext(one, asked, now)
    OBVIOUS
  <2>11. /\ then.error = stepOne.error
         /\ stepOne.error = "none" =>
              then.docs = IF write.op = "verify" THEN one.docs ELSE [one.docs EXCEPT ![at] = stepOne.state]
    <3>1. DOMAIN one.docs = DOMAIN docs
      BY <2>3
    <3>2. LET done == ApplyWrites(one.docs, <<asked>>, now)
          IN  /\ done.error = stepOne.error
              /\ stepOne.error = "none" =>
                    Persisted(one.docs, done) = IF asked.op = "verify" THEN one.docs
                                                ELSE [one.docs EXCEPT ![at] = stepOne.state]
      <4>1. asked.doc = at
        BY <2>2, <2>5 DEF Likewise
      <4> QED BY <3>1, <4>1, <2>3, <2>6, OneWrite
    <3>3. then = AfterNext(one, ApplyWrites(one.docs, <<asked>>, now))
      BY <1>2, <2>10 DEF CommittedNext
    <3> QED BY <2>5, <3>2, <3>3 DEF AfterNext, Likewise
  <2>12. PICK seen : seen = Judged(docs, all, write, now)
    OBVIOUS
  <2>13. /\ seen.error = stepAll.error
         /\ seen.rows = [all.rows EXCEPT ![at] = stepAll.state]
         /\ seen.dirty = IF write.op = "verify" THEN all.dirty ELSE all.dirty \cup {at}
    BY <2>2, <2>3, <2>7, <2>12 DEF Judged, Advanced
  <2>14. ASSUME then.error = "none"
         PROVE  /\ then.docs = [d \in DOMAIN docs |-> then.docs[d]]
                /\ seen.rows = [d \in DOMAIN docs |-> seen.rows[d]]
                /\ \A d \in DOMAIN docs :
                     /\ IsRow(then.docs[d]) /\ IsRow(seen.rows[d])
                     /\ SameButTime(then.docs[d], seen.rows[d])
                     /\ d \in seen.dirty \/ (\A j \in 1 .. k : writes[j].doc # d)
                          => then.docs[d] = seen.rows[d]
                     /\ d \in seen.dirty => then.docs[d] = Missing \/ then.docs[d].updated = now
                     /\ d \notin seen.dirty => then.docs[d] = docs[d]
                     /\ d \in seen.dirty <=> \E j \in 1 .. k : writes[j].doc = d /\ writes[j].op # "verify"
                     /\ (\E j \in 1 .. k : writes[j].doc = d) /\ seen.rows[d] # Missing
                          => seen.rows[d].updated = now
    <3>1. then.docs = [d \in DOMAIN docs |-> then.docs[d]]
      BY <2>3, <2>11, <2>14
    <3>2. seen.rows = [d \in DOMAIN docs |-> seen.rows[d]]
      BY <2>3, <2>13
    <3>3. ASSUME NEW d \in DOMAIN docs, d # at
          PROVE  /\ then.docs[d] = one.docs[d] /\ seen.rows[d] = all.rows[d]
                 /\ d \in seen.dirty <=> d \in all.dirty
      <4>1. then.docs[d] = one.docs[d]
        <5>1. \/ then.docs = one.docs
              \/ then.docs = [one.docs EXCEPT ![at] = stepOne.state]
          BY <2>11, <2>14
        <5> QED BY <2>3, <3>3, <5>1
      <4>2. seen.rows[d] = all.rows[d] /\ (d \in seen.dirty <=> d \in all.dirty)
        BY <2>3, <2>13, <3>3
      <4> QED BY <4>1, <4>2
    <3>4. ASSUME NEW d \in DOMAIN docs, \A j \in 1 .. k : writes[j].doc # d
          PROVE  d # at /\ \A j \in 1 .. k - 1 : writes[j].doc # d
      BY <2>1, <2>2, <3>4
    <3>earlier. \A d \in DOMAIN docs :
            /\ d # at => ((\E j \in 1 .. k : writes[j].doc = d) <=> \E j \in 1 .. k - 1 : writes[j].doc = d)
            /\ (\E j \in 1 .. k : writes[j].doc = d /\ writes[j].op # "verify")
                 <=> \/ \E j \in 1 .. k - 1 : writes[j].doc = d /\ writes[j].op # "verify"
                     \/ d = at /\ write.op # "verify"
      <4>1. \A j : j \in 1 .. k <=> j \in 1 .. k - 1 \/ j = k
        OBVIOUS
      <4> QED BY <4>1, <2>1, <2>2
    <3>dirty. \A d \in DOMAIN docs :
            d \in seen.dirty <=> \E j \in 1 .. k : writes[j].doc = d /\ writes[j].op # "verify"
      BY <2>4, <2>13, <3>earlier
    <3>5. CASE write.op # "verify"
      <4>1. then.docs[at] = stepOne.state /\ seen.rows[at] = stepOne.state /\ at \in seen.dirty
        BY <2>3, <2>9, <2>11, <2>13, <2>14, <3>5
      <4>2. /\ IsRow(then.docs[at]) /\ SameButTime(then.docs[at], seen.rows[at])
            /\ then.docs[at] = Missing \/ then.docs[at].updated = now
            /\ seen.rows[at] = Missing \/ seen.rows[at].updated = now
        BY <4>1, <2>9, <2>11, <2>14, <3>5 DEF SameButTime
      <4> QED BY <2>4, <3>1, <3>2, <3>3, <3>4, <3>earlier, <3>dirty, <4>1, <4>2
    <3>6. CASE write.op = "verify"
      <4>1. /\ then.docs[at] = one.docs[at] /\ seen.dirty = all.dirty
            /\ seen.rows[at] = IF all.rows[at] = Missing THEN Missing
                                ELSE [updated |-> now, fields |-> all.rows[at].fields]
        BY <2>3, <2>9, <2>11, <2>13, <2>14, <3>6
      <4>2. IsRow(then.docs[at]) /\ IsRow(seen.rows[at]) /\ SameButTime(then.docs[at], seen.rows[at])
        BY <4>1, <2>8 DEF IsRow, SameButTime, Marked
      <4>4. seen.rows[at] = Missing \/ seen.rows[at].updated = now
        BY <4>1
      <4>3. at \in all.dirty => then.docs[at] = seen.rows[at]
        BY <4>1, <2>3, <2>4, <2>8 DEF IsRow, SameButTime
      <4> QED BY <2>3, <2>4, <3>1, <3>2, <3>3, <3>4, <3>earlier, <3>dirty, <4>1, <4>2, <4>3, <4>4
    <3> QED BY <3>5, <3>6
  <2> QED BY <2>1, <2>asked, <2>9, <2>10, <2>11, <2>12, <2>13, <2>14 DEF Alike
<1> QED BY <1>1, <1>2

\* A batch is refused exactly when its writes would be one after another, with
\* the same error, and leaves what they would: for any documents and any writes to
\* them.  A write that asks for the version of a document that the batch has only
\* verified is taken as the code compares it, with the time of the batch
\* (AsCompared); that time is one that no document has yet.
THEOREM BatchesAreTheirWrites ==
    ASSUME Marked, NEW docs, NEW writes, NEW now,
           IsTable(docs),
           Len(writes) \in Nat, DOMAIN writes = 1 .. Len(writes),
           \A k \in DOMAIN writes : writes[k].doc \in DOMAIN docs
    PROVE  BatchIsItsWrites(docs, writes, now)
<1>1. SUFFICES ASSUME \A d \in DOMAIN docs : docs[d] # Missing => docs[d].updated # now
               PROVE  LET one == OneByOne(docs, writes, now)
                          all == ApplyWrites(docs, writes, now)
                      IN  /\ all.error = one.error
                          /\ Persisted(docs, all) = IF one.error = "none" THEN one.docs ELSE docs
  BY DEF BatchIsItsWrites
<1>2. PICK n \in Nat : n = Len(writes)
  OBVIOUS
<1>3. PICK one : one = Commits(docs, writes, now)
  OBVIOUS
<1>4. PICK all : all = Views(docs, writes, now)
  OBVIOUS
<1> DEFINE S == {k \in 0 .. n : Alike(docs, writes, k, now, one[k], all[k])}
<1>5. 0 \in S
  <2>1. one[0] = [error |-> "none", docs |-> docs] /\ all[0] = Untouched(docs)
    BY <1>3, <1>4, ViewsStepByStep, CommitsStepByStep DEF CommitBase
  <2>2. one[0].error = "none" /\ one[0].docs = docs
    BY <2>1
  <2>3. all[0].error = "none" /\ all[0].rows = docs /\ all[0].dirty = {}
    BY <2>1 DEF Untouched
  <2>4. Alike(docs, writes, 0, now, one[0], all[0])
    BY <2>2, <2>3 DEF Alike, SameButTime, IsTable
  <2> QED BY <2>4
<1>6. ASSUME NEW k \in 1 .. n, k - 1 \in S PROVE k \in S
  <2>1. one[k] = CommittedNext(one[k - 1], AsCompared(writes, k, now), now)
    BY <1>2, <1>3, CommitsStepByStep
  <2>2. all[k] = Judged(docs, all[k - 1], writes[k], now)
    BY <1>2, <1>4, ViewsStepByStep
  <2>4. Alike(docs, writes, k - 1, now, one[k - 1], all[k - 1]) /\ writes[k].doc \in DOMAIN docs
    BY <1>2, <1>6
  <2>5. Alike(docs, writes, k, now, one[k], all[k])
    BY <1>1, <2>1, <2>2, <2>4, AlikeStep
  <2> QED BY <2>5
<1>7. n \in S
  <2>1. \A k \in 0 .. n : k \in S
    <3> HIDE DEF S
    <3> QED BY <1>5, <1>6, Batch!Upward
  <2> QED BY <2>1
<1>8. Alike(docs, writes, n, now, one[n], all[n])
  BY <1>7
<1>9. OneByOne(docs, writes, now) = one[n] /\ ApplyWrites(docs, writes, now) = all[n]
  BY <1>2, <1>3, <1>4 DEF OneByOne, ApplyWrites
<1>10. PICK last : last = all[n]
  OBVIOUS
<1>11. ASSUME one[n].error = "none" PROVE Persisted(docs, last) = one[n].docs
  <2>1. \A d \in DOMAIN docs : one[n].docs[d] = IF d \in last.dirty THEN last.rows[d] ELSE docs[d]
    BY <1>8, <1>10, <1>11 DEF Alike
  <2>2. one[n].docs = [d \in DOMAIN docs |-> one[n].docs[d]] /\ last.error = "none"
    BY <1>8, <1>10, <1>11 DEF Alike
  <2>3. Persisted(docs, last) = [d \in DOMAIN docs |-> IF d \in last.dirty THEN last.rows[d] ELSE docs[d]]
    BY <2>2 DEF Persisted
  <2> QED BY <2>1, <2>2, <2>3
<1>12. ASSUME one[n].error # "none" PROVE Persisted(docs, last) = docs
  BY <1>8, <1>10, <1>12 DEF Alike, Persisted
<1>13. last.error = one[n].error
  BY <1>8, <1>10 DEF Alike
<1> QED BY <1>9, <1>10, <1>11, <1>12, <1>13
-----------------------------------------------------------------------------
(* Paths.                                                                  *)

LEMMA PathNames ==
    ASSUME NEW p, IsPath(p)
    PROVE  /\ Len(p) \in Nat \ {0} /\ DOMAIN p = 1 .. Len(p)
           /\ p \in Seq({p[k] : k \in DOMAIN p})
<1>1. p \in Seq({p[k] : k \in DOMAIN p}) /\ p # << >>
  BY DEF IsPath
<1>2. PICK S : S = {p[k] : k \in DOMAIN p}
  OBVIOUS
<1>3. p \in Seq(S)
  BY <1>1, <1>2
<1>4. Len(p) \in Nat \ {0} /\ DOMAIN p = 1 .. Len(p)
  BY <1>1, <1>3, EmptySeq
<1> QED BY <1>1, <1>4

\* Names the same up to K.
SameNames(p, q, K) == \A i \in 1 .. K : p[i] = q[i]

LEMMA PrefixNames ==
    ASSUME NEW p, NEW q, IsPath(p), IsPath(q)
    PROVE  IsPrefix(p, q) <=> Len(p) <= Len(q) /\ SameNames(p, q, Len(p))
<1>1. PICK S : p \in Seq(S)
  BY PathNames
<1>2. PICK T : q \in Seq(T)
  BY PathNames
<1>3. Len(p) \in Nat \ {0} /\ Len(q) \in Nat \ {0}
  BY PathNames
<1>4. SUFFICES ASSUME Len(p) <= Len(q)
               PROVE  SubSeq(p, 1, Len(p)) = SubSeq(q, 1, Len(p)) <=> SameNames(p, q, Len(p))
  BY DEF IsPrefix
<1> DEFINE s == SubSeq(p, 1, Len(p))
           t == SubSeq(q, 1, Len(p))
<1>5. s \in Seq(S) /\ Len(s) = Len(p) /\ \A i \in 1 .. Len(p) : s[i] = p[i]
  BY <1>1, <1>3, SubSeqProperties
<1>6. t \in Seq(T) /\ Len(t) = Len(p) /\ \A i \in 1 .. Len(p) : t[i] = q[i]
  BY <1>2, <1>3, <1>4, SubSeqProperties
<1> HIDE DEF s, t
<1>7. ASSUME SameNames(p, q, Len(p)) PROVE s = t
  <2>1. s = [i \in 1 .. Len(p) |-> s[i]] /\ t = [i \in 1 .. Len(p) |-> t[i]]
    BY <1>3, <1>5, <1>6
  <2>2. \A i \in 1 .. Len(p) : s[i] = t[i]
    BY <1>5, <1>6, <1>7 DEF SameNames
  <2> QED BY <2>1, <2>2
<1>8. ASSUME s = t PROVE SameNames(p, q, Len(p))
  BY <1>5, <1>6, <1>8 DEF SameNames
<1> QED BY <1>7, <1>8 DEF s, t

LEMMA PathsEqual ==
    ASSUME NEW p, NEW q, IsPath(p), IsPath(q), Len(p) = Len(q), SameNames(p, q, Len(p))
    PROVE  p = q
<1>1. PICK S : p \in Seq(S)
  BY PathNames
<1>2. PICK T : q \in Seq(T)
  BY PathNames
<1>3. p = [i \in 1 .. Len(p) |-> p[i]] /\ q = [i \in 1 .. Len(p) |-> q[i]]
  BY <1>1, <1>2
<1> QED BY <1>3 DEF SameNames

\* Two paths neither of which goes on from the other part somewhere.
LEMMA PathsPart ==
    ASSUME NEW p, NEW q, IsPath(p), IsPath(q), ~Related(p, q)
    PROVE  \E j \in 1 .. Shorter(Len(p), Len(q)) : SameNames(p, q, j - 1) /\ p[j] # q[j]
<1>1. Len(p) \in Nat \ {0} /\ Len(q) \in Nat \ {0}
  BY PathNames
<1>2. PICK n \in Nat : n = Shorter(Len(p), Len(q)) /\ n <= Len(p) /\ n <= Len(q) /\ (n = Len(p) \/ n = Len(q))
  BY <1>1 DEF Shorter
<1>3. ~SameNames(p, q, n)
  <2>1. CASE n = Len(p)
    BY <1>2, <2>1, PrefixNames DEF Related
  <2>2. CASE n = Len(q)
    BY <1>2, <2>2, PrefixNames DEF Related, SameNames
  <2> QED BY <1>2, <2>1, <2>2
<1> DEFINE S == {i \in 1 .. n : p[i] # q[i]}
<1>4. S \subseteq Nat /\ S # {}
  BY <1>3 DEF SameNames
<1>5. PICK j \in S : \A i \in S : j <= i
  <2> HIDE DEF S
  <2> QED BY <1>4, Batch!LeastNatural
<1>6. \A i \in 1 .. j - 1 : p[i] = q[i]
  BY <1>5
<1> QED BY <1>2, <1>5, <1>6 DEF SameNames

-----------------------------------------------------------------------------
(* The walks along a path.                                                 *)

DownBase(e) == MapOf(e[1])
DownStep(e, k, v) == Below(v, e[2][k])
Downs == INSTANCE Recursion WITH Base <- DownBase, Step <- DownStep

UpBase(e) == e[3]
UpStep(e, n, v) == Put(e[1], e[2], Len(e[2]) - n + 1, v)
Ups == INSTANCE Recursion WITH Base <- UpBase, Step <- UpStep

LEMMA DownStepByStep ==
    ASSUME NEW fields, NEW path, Len(path) \in Nat
    PROVE  /\ Down(fields, path)[0] = MapOf(fields)
           /\ \A k \in 1 .. Len(path) :
                  Down(fields, path)[k] = Below(Down(fields, path)[k - 1], path[k])
<1> DEFINE e == <<fields, path>>
<1>1. Down(fields, path) = Downs!Solution(e, Len(path))
  BY DEF Downs!Solution, Downs!Solves, Down, DownBase, DownStep
<1>2. /\ Downs!Solution(e, Len(path))[0] = DownBase(e)
      /\ \A k \in 1 .. Len(path) :
             Downs!Solution(e, Len(path))[k] = DownStep(e, k, Downs!Solution(e, Len(path))[k - 1])
  <2> HIDE DEF e
  <2> QED BY Downs!StepByStep
<1> QED BY <1>1, <1>2 DEF DownBase, DownStep

LEMMA UpStepByStep ==
    ASSUME NEW fields, NEW path, NEW v, Len(path) \in Nat
    PROVE  /\ Up(fields, path, v)[0] = v
           /\ \A n \in 1 .. Len(path) :
                  Up(fields, path, v)[n] = Put(fields, path, Len(path) - n + 1, Up(fields, path, v)[n - 1])
<1> DEFINE e == <<fields, path, v>>
<1>1. Up(fields, path, v) = Ups!Solution(e, Len(path))
  BY DEF Ups!Solution, Ups!Solves, Up, UpBase, UpStep
<1>2. /\ Ups!Solution(e, Len(path))[0] = UpBase(e)
      /\ \A n \in 1 .. Len(path) :
             Ups!Solution(e, Len(path))[n] = UpStep(e, n, Ups!Solution(e, Len(path))[n - 1])
  <2> HIDE DEF e
  <2> QED BY Ups!StepByStep
<1> QED BY <1>1, <1>2 DEF UpBase, UpStep

\* What is further down depends on what is at j, and on the names from there.
LEMMA DownFrom ==
    ASSUME NEW f, NEW g, NEW p, NEW q, Len(p) \in Nat, Len(q) \in Nat,
           NEW K \in Nat, K <= Len(p), K <= Len(q), NEW j \in 0 .. K,
           Down(f, p)[j] = Down(g, q)[j], \A i \in j + 1 .. K : p[i] = q[i]
    PROVE  \A k \in j .. K : Down(f, p)[k] = Down(g, q)[k]
<1> DEFINE S == {k \in 0 .. K : k >= j => Down(f, p)[k] = Down(g, q)[k]}
<1>1. 0 \in S
  <2>1. j = 0 => Down(f, p)[0] = Down(g, q)[0]
    OBVIOUS
  <2> QED BY <2>1
<1>2. ASSUME NEW k \in 1 .. K, k - 1 \in S PROVE k \in S
  <2>1. CASE k <= j
    <3>1. k = j => Down(f, p)[k] = Down(g, q)[k]
      OBVIOUS
    <3> QED BY <2>1, <3>1
  <2>2. CASE k > j
    <3>1. Down(f, p)[k - 1] = Down(g, q)[k - 1] /\ p[k] = q[k]
      BY <1>2, <2>2
    <3>2. k \in 1 .. Len(p) /\ k \in 1 .. Len(q)
      OBVIOUS
    <3>3. Down(f, p)[k] = Below(Down(f, p)[k - 1], p[k]) /\ Down(g, q)[k] = Below(Down(g, q)[k - 1], q[k])
      BY <3>2, DownStepByStep
    <3>4. Down(f, p)[k] = Down(g, q)[k]
      BY <3>1, <3>3
    <3> QED BY <3>4
  <2> QED BY <2>1, <2>2
<1>3. \A k \in 0 .. K : k \in S
  <2> HIDE DEF S
  <2> QED BY <1>1, <1>2, Batch!Upward
<1> QED BY <1>3

LEMMA DownAlong ==
    ASSUME NEW f, NEW p, NEW q, Len(p) \in Nat, Len(q) \in Nat,
           NEW K \in Nat, K <= Len(p), K <= Len(q), SameNames(p, q, K)
    PROVE  \A k \in 0 .. K : Down(f, p)[k] = Down(f, q)[k]
<1>1. Down(f, p)[0] = Down(f, q)[0]
  BY DownStepByStep
<1>2. \A i \in 0 + 1 .. K : p[i] = q[i]
  BY DEF SameNames
<1>3. 0 \in 0 .. K
  OBVIOUS
<1> QED BY <1>1, <1>2, <1>3, DownFrom
-----------------------------------------------------------------------------
(* What SetField and DeleteField leave.                                    *)

LEMMA BelowMap ==
    ASSUME Marked, NEW entries, NEW name
    PROVE  /\ IsMap(MapOf(entries)) /\ Inner(MapOf(entries)) = entries
           /\ Below(MapOf(entries), name) = IF name \in DOMAIN entries THEN entries[name] ELSE Missing
<1>1. MapOf(entries) # Missing
  BY DEF Marked
<1>2. MapOf(entries).type = "map" /\ MapOf(entries).fields = entries
  BY DEF MapOf
<1> QED BY <1>1, <1>2 DEF IsMap, Inner, Below

LEMMA BelowInner ==
    ASSUME NEW v, NEW name
    PROVE  Below(v, name) = IF name \in DOMAIN Inner(v) THEN Inner(v)[name] ELSE Missing
<1>1. CASE IsMap(v)
  BY <1>1 DEF Below, Inner
<1>2. CASE ~IsMap(v)
  <2>1. DOMAIN NoFields = {}
    BY DEF NoFields
  <2> QED BY <1>2, <2>1 DEF Below, Inner
<1> QED BY <1>1, <1>2

\* The way down after a value is set: it is there, and what is above is the map
\* there was with the next one in it.
LEMMA DownAfterSet ==
    ASSUME Marked, NEW f, NEW p, IsPath(p), NEW v,
           NEW was, was = Down(f, p), NEW down, down = Down(SetField(f, p, v), p)
    PROVE  /\ down[Len(p)] = v
           /\ \A k \in 1 .. Len(p) :
                  down[k - 1] = MapOf(With(Inner(was[k - 1]), p[k], down[k]))
<1>1. PICK n \in Nat \ {0} : n = Len(p)
  BY PathNames
<1>2. PICK g : g = SetField(f, p, v)
  OBVIOUS
<1>3. PICK up : up = Up(f, p, v)
  OBVIOUS
<1>4. down = Down(g, p)
  BY <1>2
<1>5. was = Down(f, p)
  OBVIOUS
<1>6. \A k \in 1 .. n : up[n - k + 1] = MapOf(With(Inner(was[k - 1]), p[k], up[n - k]))
  <2>1. SUFFICES ASSUME NEW k \in 1 .. n
                 PROVE  up[n - k + 1] = MapOf(With(Inner(was[k - 1]), p[k], up[n - k]))
    OBVIOUS
  <2>2. n - k + 1 \in 1 .. n /\ n - (n - k + 1) + 1 = k /\ (n - k + 1) - 1 = n - k
    OBVIOUS
  <2>3. up[n - k + 1] = Put(f, p, n - (n - k + 1) + 1, up[(n - k + 1) - 1])
    BY <1>1, <1>3, <2>2, UpStepByStep
  <2>4. up[n - k + 1] = Put(f, p, k, up[n - k])
    BY <2>2, <2>3
  <2> QED BY <2>4, <1>5 DEF Put
<1>7. down[0] = up[n]
  <2>1. 1 \in 1 .. n /\ n - 1 + 1 = n
    OBVIOUS
  <2>2. up[n] = MapOf(With(Inner(was[0]), p[1], up[n - 1]))
    BY <1>6, <2>1
  <2>3. g = up[n].fields
    BY <1>1, <1>2, <1>3 DEF SetField
  <2>4. down[0] = MapOf(g)
    BY <1>1, <1>4, DownStepByStep
  <2> QED BY <2>2, <2>3, <2>4 DEF MapOf
<1> DEFINE S == {k \in 0 .. n : down[k] = up[n - k]}
<1>8. 0 \in S
  BY <1>7
<1>9. ASSUME NEW k \in 1 .. n, k - 1 \in S PROVE k \in S
  <2>1. n - (k - 1) = n - k + 1
    OBVIOUS
  <2>2. down[k - 1] = MapOf(With(Inner(was[k - 1]), p[k], up[n - k]))
    BY <1>6, <1>9, <2>1
  <2>3. down[k] = Below(down[k - 1], p[k])
    BY <1>1, <1>4, DownStepByStep
  <2>4. Below(MapOf(With(Inner(was[k - 1]), p[k], up[n - k])), p[k]) = up[n - k]
    BY BelowMap DEF With
  <2> QED BY <2>2, <2>3, <2>4
<1>10. \A k \in 0 .. n : k \in S
  <2> HIDE DEF S
  <2> QED BY <1>8, <1>9, Batch!Upward
<1>11. \A k \in 0 .. n : down[k] = up[n - k]
  BY <1>10
<1>12. ASSUME NEW k \in 1 .. n
       PROVE  down[k - 1] = MapOf(With(Inner(was[k - 1]), p[k], down[k]))
  <2>1. k - 1 \in 0 .. n /\ n - (k - 1) = n - k + 1
    OBVIOUS
  <2> QED BY <1>6, <1>11, <2>1
<1>13. down[n] = v
  <2>1. n \in 0 .. n /\ n - n = 0
    OBVIOUS
  <2>2. up[0] = v
    BY <1>1, <1>3, UpStepByStep
  <2> QED BY <1>11, <2>1, <2>2
<1> QED BY <1>1, <1>2, <1>3, <1>4, <1>5, <1>12, <1>13

LEMMA GetAfterSet ==
    ASSUME Marked, NEW f, NEW p, IsPath(p), NEW v
    PROVE  Down(SetField(f, p, v), p)[Len(p)] = v
<1>1. PICK was : was = Down(f, p)
  OBVIOUS
<1>2. PICK down : down = Down(SetField(f, p, v), p)
  OBVIOUS
<1> QED BY <1>1, <1>2, DownAfterSet

\* Where another path parts from the one that is set, nothing has changed.
LEMMA ElsewhereAfterSet ==
    ASSUME Marked, NEW f, NEW p, NEW q, IsPath(p), IsPath(q), NEW v,
           NEW j \in 1 .. Len(p), j <= Len(q), SameNames(p, q, j - 1), p[j] # q[j]
    PROVE  GetField(SetField(f, p, v), q) = GetField(f, q)
<1>1. Len(p) \in Nat \ {0} /\ Len(q) \in Nat \ {0}
  BY PathNames
<1>2. PICK g : g = SetField(f, p, v)
  OBVIOUS
<1>3. j \in Nat /\ j - 1 \in 0 .. Len(p) /\ j - 1 \in 0 .. j - 1 /\ j - 1 \in Nat
      /\ j - 1 <= Len(p) /\ j - 1 <= Len(q) /\ j \in 1 .. Len(q)
  BY <1>1
<1>4. Down(g, q)[j - 1] = Down(g, p)[j - 1] /\ Down(f, q)[j - 1] = Down(f, p)[j - 1]
  BY <1>1, <1>3, DownAlong
<1>5. PICK old : old = Down(f, p)[j - 1]
  OBVIOUS
<1>6. PICK new : new = Down(g, p)[j]
  OBVIOUS
<1>7. Down(g, q)[j - 1] = MapOf(With(Inner(old), p[j], new))
  <2>1. PICK was : was = Down(f, p)
    OBVIOUS
  <2>2. PICK down : down = Down(SetField(f, p, v), p)
    OBVIOUS
  <2>3. down[j - 1] = MapOf(With(Inner(was[j - 1]), p[j], down[j]))
    BY <2>1, <2>2, DownAfterSet
  <2> QED BY <1>2, <1>4, <1>5, <1>6, <2>1, <2>2, <2>3
<1>8. Down(g, q)[j] = Below(MapOf(With(Inner(old), p[j], new)), q[j])
  BY <1>1, <1>3, <1>7, DownStepByStep
<1>9. Below(MapOf(With(Inner(old), p[j], new)), q[j]) = Below(old, q[j])
  <2>1. /\ DOMAIN With(Inner(old), p[j], new) = DOMAIN Inner(old) \cup {p[j]}
        /\ q[j] \in DOMAIN Inner(old) => With(Inner(old), p[j], new)[q[j]] = Inner(old)[q[j]]
    BY DEF With
  <2> QED BY <2>1, BelowMap, BelowInner
<1>10. Down(f, q)[j] = Below(old, q[j])
  BY <1>1, <1>3, <1>4, <1>5, DownStepByStep
<1>11. Down(g, q)[j] = Down(f, q)[j]
  BY <1>8, <1>9, <1>10
<1>12. j \in 0 .. Len(q) /\ Len(q) \in j .. Len(q) /\ \A i \in j + 1 .. Len(q) : q[i] = q[i]
  BY <1>1, <1>3
<1>13. \A k \in j .. Len(q) : Down(g, q)[k] = Down(f, q)[k]
  BY <1>1, <1>11, <1>12, DownFrom
<1> QED BY <1>2, <1>12, <1>13 DEF GetField

\* Setting what is there already leaves all of it as it is, from where on the
\* maps on the way are proper ones.
LEMMA SameAfterSet ==
    ASSUME Marked, NEW f, NEW p, IsPath(p), NEW m \in 0 .. Len(p),
           Down(f, p)[Len(p)] # Missing,
           \A k \in m .. Len(p) : IsProper(Down(f, p)[k])
    PROVE  Down(SetField(f, p, Down(f, p)[Len(p)]), p)[m] = Down(f, p)[m]
<1>1. PICK n \in Nat \ {0} : n = Len(p)
  BY PathNames
<1>2. PICK was : was = Down(f, p)
  OBVIOUS
<1>3. PICK down : down = Down(SetField(f, p, was[n]), p)
  OBVIOUS
<1> DEFINE S == {k \in 0 .. n : k >= m => was[k] # Missing /\ down[k] = was[k]}
<1>4. n \in S
  BY <1>1, <1>2, <1>3, GetAfterSet
<1>5. ASSUME NEW k \in 1 .. n, k \in S PROVE k - 1 \in S
  <2>1. SUFFICES ASSUME k - 1 >= m PROVE was[k - 1] # Missing /\ down[k - 1] = was[k - 1]
    BY <1>1
  <2>2. was[k] # Missing /\ down[k] = was[k]
    BY <1>1, <1>5, <2>1
  <2>3. was[k] = Below(was[k - 1], p[k])
    BY <1>1, <1>2, DownStepByStep
  <2>4. IsMap(was[k - 1]) /\ p[k] \in DOMAIN was[k - 1].fields /\ was[k] = was[k - 1].fields[p[k]]
    BY <2>2, <2>3 DEF Below
  <2>5. k - 1 \in m .. n
    BY <1>1, <2>1
  <2>6. was[k - 1] = MapOf([name \in DOMAIN was[k - 1].fields |-> was[k - 1].fields[name]])
    BY <1>1, <1>2, <2>4, <2>5 DEF IsProper
  <2>7. down[k - 1] = MapOf(With(Inner(was[k - 1]), p[k], was[k]))
    <3>2. down[k - 1] = MapOf(With(Inner(was[k - 1]), p[k], down[k]))
      BY <1>1, <1>2, <1>3, DownAfterSet
    <3> QED BY <2>2, <3>2
  <2>8. PICK entries : entries = was[k - 1].fields
    OBVIOUS
  <2>9. With(Inner(was[k - 1]), p[k], was[k]) = [name \in DOMAIN entries |-> entries[name]]
    BY <2>4, <2>8 DEF With, Inner
  <2>10. down[k - 1] = was[k - 1]
    BY <2>6, <2>7, <2>8, <2>9
  <2> QED BY <2>4, <2>10 DEF IsMap
<1>6. \A k \in 0 .. n : k \in S
  <2> HIDE DEF S
  <2> QED BY <1>4, <1>5, Batch!Downward
<1>7. m \in S /\ m >= m
  BY <1>1, <1>6
<1> QED BY <1>1, <1>2, <1>3, <1>7
LEMMA FrontPath ==
    ASSUME NEW p, IsPath(p), Len(p) # 1
    PROVE  /\ IsPath(Front(p)) /\ Len(Front(p)) = Len(p) - 1
           /\ SameNames(Front(p), p, Len(p) - 1)
<1>1. PICK S : p \in Seq(S)
  BY PathNames
<1>2. PICK n \in Nat \ {0, 1} : n = Len(p)
  BY PathNames
<1>3. PICK t : t = SubSeq(p, 1, n - 1)
  OBVIOUS
<1>4. t \in Seq(S) /\ Len(t) = n - 1 /\ \A i \in 1 .. n - 1 : t[i] = p[i]
  <2>1. 1 \in 1 .. n + 1 /\ n - 1 \in 1 - 1 .. n /\ (n - 1) - 1 + 1 = n - 1 /\ 1 <= n - 1
        /\ \A i \in 1 .. n - 1 : 1 + i - 1 = i
    OBVIOUS
  <2>2. t \in Seq(S) /\ Len(t) = (IF 1 <= n - 1 THEN (n - 1) - 1 + 1 ELSE 0)
        /\ \A i \in 1 .. (n - 1) - 1 + 1 : t[i] = p[1 + i - 1]
    BY <1>1, <1>2, <1>3, <2>1, SubSeqProperties
  <2> QED BY <1>2, <2>1, <2>2
<1>5. IsPath(t)
  <2>1. DOMAIN t = 1 .. n - 1 /\ t # << >>
    BY <1>2, <1>4
  <2>2. PICK T : T = {t[k] : k \in DOMAIN t}
    OBVIOUS
  <2>3. t = [i \in 1 .. n - 1 |-> t[i]] /\ \A i \in 1 .. n - 1 : t[i] \in T
    BY <1>4, <2>1, <2>2
  <2>4. t \in Seq(T)
    BY <1>2, <2>3
  <2> QED BY <2>1, <2>2, <2>4 DEF IsPath
<1> QED BY <1>2, <1>3, <1>4, <1>5 DEF Front, SameNames

\* The way down after a field is taken away, if it could be there at all: what
\* it was in, without it.
LEMMA DownAfterDelete ==
    ASSUME Marked, NEW f, NEW p, IsPath(p), IsMap(Down(f, p)[Len(p) - 1])
    PROVE  Down(DeleteField(f, p), p)[Len(p) - 1]
             = MapOf(Without(Down(f, p)[Len(p) - 1].fields, p[Len(p)]))
<1>1. PICK n \in Nat \ {0} : n = Len(p)
  BY PathNames
<1>2. PICK parent : parent = Down(f, p)[n - 1]
  OBVIOUS
<1>3. PICK g : g = DeleteField(f, p)
  OBVIOUS
<1>4. CASE n = 1
  <2>1. g = Without(f, p[1])
    BY <1>1, <1>3, <1>4 DEF DeleteField
  <2>2. Down(g, p)[0] = MapOf(g) /\ parent = MapOf(f)
    BY <1>1, <1>2, <1>4, DownStepByStep
  <2>3. parent.fields = f
    BY <2>2 DEF MapOf
  <2> QED BY <1>1, <1>2, <1>3, <1>4, <2>1, <2>2, <2>3
<1>5. CASE n # 1
  <2>1. PICK t : t = Front(p)
    OBVIOUS
  <2>2. IsPath(t) /\ Len(t) = n - 1 /\ SameNames(t, p, n - 1)
    BY <1>1, <1>5, <2>1, FrontPath
  <2>3. g = SetField(f, t, MapOf(Without(parent.fields, p[n])))
    <3>1. IsMap(parent) /\ Len(p) # 1
      BY <1>1, <1>2, <1>5
    <3>2. DeleteField(f, p) = SetField(f, Front(p), MapOf(Without(parent.fields, Last(p))))
      BY <3>1, <1>1, <1>2 DEF DeleteField
    <3> QED BY <1>1, <1>3, <2>1, <3>2 DEF Last
  <2>4. Down(g, t)[Len(t)] = MapOf(Without(parent.fields, p[n]))
    BY <2>2, <2>3, GetAfterSet
  <2>5. n - 1 \in Nat /\ n - 1 <= n /\ n - 1 \in 0 .. n - 1 /\ Len(t) \in Nat
    BY <2>2
  <2>6. Down(g, t)[n - 1] = Down(g, p)[n - 1]
    BY <1>1, <2>2, <2>5, DownAlong
  <2> QED BY <1>1, <1>2, <1>3, <2>2, <2>4, <2>6
<1> QED BY <1>4, <1>5

LEMMA GetAfterDelete ==
    ASSUME Marked, NEW f, NEW p, IsPath(p)
    PROVE  Down(DeleteField(f, p), p)[Len(p)] = Missing
<1>1. PICK n \in Nat \ {0} : n = Len(p)
  BY PathNames
<1>2. \A h : Down(h, p)[n] = Below(Down(h, p)[n - 1], p[n])
  BY <1>1, DownStepByStep
<1>3. CASE ~IsMap(Down(f, p)[n - 1])
  <2>1. DeleteField(f, p) = f
    BY <1>1, <1>3 DEF DeleteField
  <2> QED BY <1>1, <1>2, <1>3, <2>1 DEF Below
<1>4. CASE IsMap(Down(f, p)[n - 1])
  <2>1. PICK entries : entries = Down(f, p)[n - 1].fields
    OBVIOUS
  <2>2. Down(DeleteField(f, p), p)[n - 1] = MapOf(Without(entries, p[n]))
    BY <1>1, <1>4, <2>1, DownAfterDelete
  <2>3. p[n] \notin DOMAIN Without(entries, p[n])
    BY DEF Without
  <2> QED BY <1>1, <1>2, <2>2, <2>3, BelowMap
<1> QED BY <1>3, <1>4

LEMMA ElsewhereAfterDelete ==
    ASSUME Marked, NEW f, NEW p, NEW q, IsPath(p), IsPath(q),
           NEW j \in 1 .. Len(p), j <= Len(q), SameNames(p, q, j - 1), p[j] # q[j]
    PROVE  GetField(DeleteField(f, p), q) = GetField(f, q)
<1>1. PICK n \in Nat \ {0} : n = Len(p)
  BY PathNames
<1>2. Len(q) \in Nat \ {0} /\ j \in Nat /\ j - 1 \in Nat /\ j - 1 <= n /\ j - 1 <= Len(q)
  BY <1>1, PathNames
<1>3. PICK g : g = DeleteField(f, p)
  OBVIOUS
<1>4. PICK parent : parent = Down(f, p)[n - 1]
  OBVIOUS
<1>5. CASE ~IsMap(parent)
  BY <1>1, <1>4, <1>5 DEF DeleteField
<1>6. CASE IsMap(parent) /\ j < n
  <2>1. n # 1 /\ j \in 1 .. n - 1
    BY <1>1, <1>2, <1>6
  <2>2. PICK t : t = Front(p)
    OBVIOUS
  <2>3. IsPath(t) /\ Len(t) = n - 1 /\ SameNames(t, p, n - 1)
    BY <1>1, <2>1, <2>2, FrontPath
  <2>4. g = SetField(f, t, MapOf(Without(parent.fields, Last(p))))
    BY <1>1, <1>3, <1>4, <1>6, <2>1, <2>2 DEF DeleteField
  <2>5. SameNames(t, q, j - 1) /\ t[j] # q[j]
    BY <1>1, <1>2, <2>1, <2>3 DEF SameNames
  <2> QED BY <1>2, <1>3, <2>1, <2>3, <2>4, <2>5, ElsewhereAfterSet
<1>7. CASE IsMap(parent) /\ j = n
  <2>1. n - 1 \in 0 .. n - 1 /\ n \in 1 .. Len(q)
    BY <1>1, <1>2, <1>7
  <2>2. Down(g, q)[n - 1] = Down(g, p)[n - 1] /\ Down(f, q)[n - 1] = parent
    BY <1>1, <1>2, <1>4, <1>7, <2>1, DownAlong
  <2>3. Down(g, p)[n - 1] = MapOf(Without(parent.fields, p[n]))
    BY <1>1, <1>3, <1>4, <1>7, DownAfterDelete
  <2>4. /\ Down(g, q)[n] = Below(MapOf(Without(parent.fields, p[n])), q[n])
        /\ Down(f, q)[n] = Below(parent, q[n])
    BY <1>2, <2>1, <2>2, <2>3, DownStepByStep
  <2>5. PICK entries : entries = parent.fields
    OBVIOUS
  <2>6. /\ DOMAIN Without(entries, p[n]) = DOMAIN entries \ {p[n]}
        /\ \A name \in DOMAIN entries \ {p[n]} : Without(entries, p[n])[name] = entries[name]
    BY DEF Without
  <2>7. Below(MapOf(Without(entries, p[n])), q[n]) = IF q[n] \in DOMAIN entries THEN entries[q[n]] ELSE Missing
    BY <1>7, <2>6, BelowMap
  <2>8. Below(parent, q[n]) = IF q[n] \in DOMAIN entries THEN entries[q[n]] ELSE Missing
    BY <1>7, <2>5 DEF Below
  <2>9. Down(g, q)[n] = Down(f, q)[n]
    BY <2>4, <2>5, <2>7, <2>8
  <2>10. n \in 0 .. Len(q) /\ Len(q) \in n .. Len(q)
    BY <1>2, <2>1
  <2>11. \A k \in n .. Len(q) : Down(g, q)[k] = Down(f, q)[k]
    BY <1>2, <2>9, <2>10, DownFrom
  <2> QED BY <1>3, <2>10, <2>11 DEF GetField
<1>8. j < n \/ j = n
  BY <1>1, <1>2
<1> QED BY <1>5, <1>6, <1>7, <1>8

\* Taking away what is not there leaves all of it as it is, from where on the
\* maps on the way are proper ones.
LEMMA SameAfterDelete ==
    ASSUME Marked, NEW f, NEW p, IsPath(p), NEW m \in 1 .. Len(p) - 1,
           Down(f, p)[Len(p)] = Missing,
           \A k \in m .. Len(p) : IsProper(Down(f, p)[k])
    PROVE  Down(DeleteField(f, p), p)[m] = Down(f, p)[m]
<1>1. PICK n \in Nat \ {0, 1} : n = Len(p)
  BY PathNames
<1>2. PICK was : was = Down(f, p)
  OBVIOUS
<1>3. CASE ~IsMap(was[n - 1])
  BY <1>1, <1>2, <1>3 DEF DeleteField
<1>4. CASE IsMap(was[n - 1])
  <2>1. PICK entries : entries = was[n - 1].fields
    OBVIOUS
  <2>2. m \in Nat /\ m \in 0 .. n - 1 /\ n - 1 \in m .. n /\ n \in 1 .. n /\ n - 1 \in Nat /\ n - 1 <= n
    BY <1>1
  <2>3. /\ was[n - 1] = MapOf([name \in DOMAIN entries |-> entries[name]])
        /\ \A name \in DOMAIN entries : entries[name] # Missing
    BY <1>1, <1>2, <1>4, <2>1, <2>2 DEF IsProper
  <2>4. was[n] = Below(was[n - 1], p[n])
    BY <1>1, <1>2, <2>2, DownStepByStep
  <2>5. p[n] \notin DOMAIN entries
    BY <1>1, <1>2, <1>4, <2>1, <2>3, <2>4 DEF Below
  <2>6. Without(entries, p[n]) = [name \in DOMAIN entries |-> entries[name]]
    <3>1. DOMAIN entries \ {p[n]} = DOMAIN entries
      BY <2>5
    <3> QED BY <3>1 DEF Without
  <2>7. PICK t : t = Front(p)
    OBVIOUS
  <2>8. IsPath(t) /\ Len(t) = n - 1 /\ SameNames(t, p, n - 1)
    BY <1>1, <2>7, FrontPath
  <2>9. DeleteField(f, p) = SetField(f, t, was[n - 1])
    BY <1>1, <1>2, <1>4, <2>1, <2>3, <2>6, <2>7 DEF DeleteField, Last
  <2>10. \A k \in 0 .. n - 1 : Down(f, t)[k] = was[k]
    BY <1>1, <1>2, <2>2, <2>8, DownAlong
  <2>11. Down(f, t)[Len(t)] = was[n - 1] /\ was[n - 1] # Missing
    BY <1>4, <2>2, <2>8, <2>10 DEF IsMap
  <2>12. \A k \in m .. Len(t) : IsProper(Down(f, t)[k])
    <3>1. \A k \in m .. n - 1 : k \in 0 .. n - 1 /\ k \in m .. n
      BY <2>2
    <3> QED BY <1>1, <1>2, <2>8, <2>10, <3>1
  <2>13. Down(SetField(f, t, was[n - 1]), t)[m] = Down(f, t)[m]
    BY <2>2, <2>8, <2>11, <2>12, SameAfterSet
  <2>14. Down(SetField(f, t, was[n - 1]), t)[m] = Down(SetField(f, t, was[n - 1]), p)[m]
    BY <1>1, <2>2, <2>8, DownAlong
  <2> QED BY <1>1, <1>2, <2>2, <2>9, <2>10, <2>13, <2>14
<1> QED BY <1>3, <1>4
-----------------------------------------------------------------------------
(* A merge follows its mask.                                               *)

\* The path merged is as in the update,
LEMMA MergeAt ==
    ASSUME Marked, NEW f, NEW p, NEW update, IsPath(p)
    PROVE  GetField(Merge1(f, p, update), p) = GetField(update, p)
<1>1. PICK v : v = GetField(update, p)
  OBVIOUS
<1>2. CASE v = Missing
  <2>1. Merge1(f, p, update) = DeleteField(f, p)
    BY <1>1, <1>2 DEF Merge1
  <2> QED BY <1>1, <1>2, <2>1, GetAfterDelete DEF GetField
<1>3. CASE v # Missing
  <2>1. Merge1(f, p, update) = SetField(f, p, v)
    BY <1>1, <1>3 DEF Merge1
  <2> QED BY <1>1, <2>1, GetAfterSet DEF GetField
<1> QED BY <1>2, <1>3

\* and so is every path that goes on from it;
LEMMA MergeBelow ==
    ASSUME Marked, NEW f, NEW p, NEW q, NEW update, IsPath(p), IsPath(q), IsPrefix(p, q)
    PROVE  GetField(Merge1(f, p, update), q) = GetField(update, q)
<1>1. /\ Len(p) \in Nat /\ Len(q) \in Nat /\ Len(p) <= Len(q) /\ SameNames(p, q, Len(p))
      /\ Len(p) <= Len(p) /\ Len(p) \in 0 .. Len(p) /\ Len(p) \in 0 .. Len(q)
      /\ Len(q) \in Len(p) .. Len(q)
  BY PathNames, PrefixNames
<1>2. PICK g : g = Merge1(f, p, update)
  OBVIOUS
<1>3. Down(g, p)[Len(p)] = Down(update, p)[Len(p)]
  BY <1>2, MergeAt DEF GetField
<1>4. \A h : Down(h, p)[Len(p)] = Down(h, q)[Len(p)]
  BY <1>1, DownAlong
<1>5. Down(g, q)[Len(p)] = Down(update, q)[Len(p)]
  BY <1>3, <1>4
<1>6. \A k \in Len(p) .. Len(q) : Down(g, q)[k] = Down(update, q)[k]
  BY <1>1, <1>5, DownFrom
<1> QED BY <1>1, <1>2, <1>6 DEF GetField

\* a path it goes on from, if it was as in the update, still is;
LEMMA MergeAbove ==
    ASSUME Marked, NEW f, NEW p, NEW q, NEW update, IsPath(p), IsPath(q),
           IsPrefix(q, p), Len(q) # Len(p), MapsOnTheWay(update, p),
           GetField(f, q) = GetField(update, q)
    PROVE  GetField(Merge1(f, p, update), q) = GetField(update, q)
<1>1. PICK n \in Nat : n = Len(p)
  BY PathNames
<1>2. PICK m \in Nat \ {0} : m = Len(q)
  BY PathNames
<1>3. /\ m <= n /\ m # n /\ SameNames(q, p, m)
      /\ m \in 0 .. m /\ m \in 0 .. n /\ m \in 1 .. n - 1 /\ n \in m .. n
  BY <1>1, <1>2, PrefixNames
<1>4. \A h : Down(h, q)[m] = Down(h, p)[m]
  BY <1>1, <1>2, <1>3, DownAlong
<1>5. Down(f, p)[m] = Down(update, p)[m]
  BY <1>2, <1>4 DEF GetField
<1>6. \A k \in m .. n : Down(f, p)[k] = Down(update, p)[k]
  BY <1>1, <1>3, <1>5, DownFrom
<1>7. \A k \in m .. n : k \in 0 .. n /\ IsProper(Down(f, p)[k])
  BY <1>1, <1>3, <1>6 DEF MapsOnTheWay
<1>8. PICK v : v = Down(f, p)[n] /\ v = GetField(update, p)
  BY <1>1, <1>3, <1>6 DEF GetField
<1>9. Down(Merge1(f, p, update), p)[m] = Down(f, p)[m]
  <2>1. CASE v = Missing
    <3>1. Merge1(f, p, update) = DeleteField(f, p)
      BY <1>8, <2>1 DEF Merge1
    <3>2. /\ m \in 1 .. Len(p) - 1 /\ Down(f, p)[Len(p)] = Missing
          /\ \A k \in m .. Len(p) : IsProper(Down(f, p)[k])
      BY <1>1, <1>3, <1>7, <1>8, <2>1
    <3> QED BY <3>1, <3>2, SameAfterDelete
  <2>2. CASE v # Missing
    <3>1. Merge1(f, p, update) = SetField(f, p, v)
      BY <1>8, <2>2 DEF Merge1
    <3>2. Down(SetField(f, p, Down(f, p)[Len(p)]), p)[m] = Down(f, p)[m]
      <4>1. m \in 0 .. Len(p) /\ Down(f, p)[Len(p)] # Missing
        BY <1>1, <1>3, <1>8, <2>2
      <4>2. \A k \in m .. Len(p) : IsProper(Down(f, p)[k])
        BY <1>1, <1>7
      <4> QED BY <4>1, <4>2, SameAfterSet
    <3> QED BY <1>1, <1>8, <3>1, <3>2
  <2> QED BY <2>1, <2>2
<1> QED BY <1>2, <1>4, <1>5, <1>9 DEF GetField

\* and nothing else changes.
LEMMA MergeElsewhere ==
    ASSUME Marked, NEW f, NEW p, NEW q, NEW update, IsPath(p), IsPath(q), ~Related(p, q)
    PROVE  GetField(Merge1(f, p, update), q) = GetField(f, q)
<1>1. PICK j \in 1 .. Shorter(Len(p), Len(q)) : SameNames(p, q, j - 1) /\ p[j] # q[j]
  BY PathsPart
<1>2. j \in 1 .. Len(p) /\ j <= Len(q)
  BY <1>1, PathNames DEF Shorter
<1>3. PICK v : v = GetField(update, p)
  OBVIOUS
<1>4. CASE v = Missing
  <2>1. Merge1(f, p, update) = DeleteField(f, p)
    BY <1>3, <1>4 DEF Merge1
  <2> QED BY <1>1, <1>2, <2>1, ElsewhereAfterDelete
<1>5. CASE v # Missing
  <2>1. Merge1(f, p, update) = SetField(f, p, v)
    BY <1>3, <1>5 DEF Merge1
  <2> QED BY <1>1, <1>2, <2>1, ElsewhereAfterSet
<1> QED BY <1>4, <1>5

LEMMA MergeKeeps ==
    ASSUME Marked, NEW f, NEW p, NEW q, NEW update, IsPath(p), IsPath(q),
           MapsOnTheWay(update, p), GetField(f, q) = GetField(update, q)
    PROVE  GetField(Merge1(f, p, update), q) = GetField(update, q)
<1>1. CASE IsPrefix(p, q)
  BY <1>1, MergeBelow
<1>2. CASE IsPrefix(q, p) /\ Len(q) # Len(p)
  BY <1>2, MergeAbove
<1>3. CASE IsPrefix(q, p) /\ Len(q) = Len(p)
  <2>1. IsPrefix(p, q)
    BY <1>3, PathNames, PrefixNames DEF SameNames
  <2> QED BY <2>1, MergeBelow
<1>4. CASE ~Related(p, q)
  BY <1>4, MergeElsewhere
<1> QED BY <1>1, <1>2, <1>3, <1>4 DEF Related

MergeBase(e) == e[1]
MergeStep(e, k, fields) == Merge1(fields, e[2][k], e[3])
Merges == INSTANCE Recursion WITH Base <- MergeBase, Step <- MergeStep

MergedSoFar(f, mask, update) == Merges!Solution(<<f, mask, update>>, Len(mask))

LEMMA MergedStepByStep ==
    ASSUME NEW f, NEW mask, NEW update, Len(mask) \in Nat
    PROVE  /\ MergedSoFar(f, mask, update)[0] = f
           /\ \A k \in 1 .. Len(mask) :
                  MergedSoFar(f, mask, update)[k]
                    = Merge1(MergedSoFar(f, mask, update)[k - 1], mask[k], update)
           /\ Merged(f, mask, update) = MergedSoFar(f, mask, update)[Len(mask)]
<1> DEFINE e == <<f, mask, update>>
<1>1. Merged(f, mask, update) = Merges!Solution(e, Len(mask))[Len(mask)]
  BY DEF Merges!Solution, Merges!Solves, Merged, MergeBase, MergeStep
<1>2. /\ Merges!Solution(e, Len(mask))[0] = MergeBase(e)
      /\ \A k \in 1 .. Len(mask) :
             Merges!Solution(e, Len(mask))[k] = MergeStep(e, k, Merges!Solution(e, Len(mask))[k - 1])
  <2> HIDE DEF e
  <2> QED BY Merges!StepByStep
<1> QED BY <1>1, <1>2 DEF MergeBase, MergeStep, MergedSoFar

\* "Merge: each mask path is set from the update document, or deleted when
\* absent there" (apply_write), whatever the document, and whatever the paths
\* of the mask and their order, one going on from another among them.
THEOREM MergesFollowMasks ==
    ASSUME Marked, NEW fields, NEW mask, NEW update, NEW paths,
           Len(mask) \in Nat, DOMAIN mask = 1 .. Len(mask),
           \A k \in DOMAIN mask : IsPath(mask[k]) /\ MapsOnTheWay(update, mask[k]),
           \A path \in paths : IsPath(path)
    PROVE  MergeFollowsMask(fields, mask, update, paths)
<1>1. PICK n \in Nat : n = Len(mask)
  OBVIOUS
<1>2. PICK after : after = MergedSoFar(fields, mask, update)
  OBVIOUS
<1>3. after[0] = fields /\ \A k \in 1 .. n : after[k] = Merge1(after[k - 1], mask[k], update)
  BY <1>1, <1>2, MergedStepByStep
<1>4. \A k \in 1 .. n : IsPath(mask[k]) /\ MapsOnTheWay(update, mask[k])
  BY <1>1
<1>5. ASSUME NEW path \in paths, \A k \in 1 .. n : ~Related(mask[k], path)
      PROVE  GetField(after[n], path) = GetField(fields, path)
  <2> DEFINE S == {k \in 0 .. n : GetField(after[k], path) = GetField(fields, path)}
  <2>1. 0 \in S
    BY <1>3
  <2>2. ASSUME NEW k \in 1 .. n, k - 1 \in S PROVE k \in S
    <3>1. GetField(Merge1(after[k - 1], mask[k], update), path) = GetField(after[k - 1], path)
      BY <1>4, <1>5, MergeElsewhere
    <3> QED BY <1>3, <2>2, <3>1
  <2>3. \A k \in 0 .. n : k \in S
    <3> HIDE DEF S
    <3> QED BY <2>1, <2>2, Merges!Upward
  <2> QED BY <2>3
<1>6. ASSUME NEW j \in 1 .. n
      PROVE  GetField(after[n], mask[j]) = GetField(update, mask[j])
  <2> DEFINE S == {k \in 0 .. n : k >= j => GetField(after[k], mask[j]) = GetField(update, mask[j])}
  <2>1. 0 \in S
    OBVIOUS
  <2>2. ASSUME NEW k \in 1 .. n, k - 1 \in S PROVE k \in S
    <3>1. CASE k < j
      BY <3>1
    <3>2. CASE k = j
      BY <1>3, <1>4, <3>2, MergeAt
    <3>3. CASE k > j
      <4>1. GetField(after[k - 1], mask[j]) = GetField(update, mask[j])
        BY <2>2, <3>3
      <4>2. GetField(Merge1(after[k - 1], mask[k], update), mask[j]) = GetField(update, mask[j])
        BY <1>4, <4>1, MergeKeeps
      <4> QED BY <1>3, <4>2
    <3> QED BY <3>1, <3>2, <3>3
  <2>3. \A k \in 0 .. n : k \in S
    <3> HIDE DEF S
    <3> QED BY <2>1, <2>2, Merges!Upward
  <2>4. n \in S /\ n >= j
    BY <2>3
  <2> QED BY <2>4
<1>7. Merged(fields, mask, update) = after[n]
  BY <1>1, <1>2, MergedStepByStep
<1> QED BY <1>1, <1>5, <1>6, <1>7 DEF MergeFollowsMask
-----------------------------------------------------------------------------
(* The collection under commits.                                           *)

\* What the view of a batch is of the documents it began with.
IsView(docs, now, view) ==
    view.error = "none" =>
        /\ view.rows = [d \in DOMAIN docs |-> view.rows[d]]
        /\ \A d \in DOMAIN docs :
              /\ IsRow(view.rows[d])
              /\ d \in view.dirty => view.rows[d] = Missing \/ view.rows[d].updated = now

LEMMA ViewStepKept ==
    ASSUME Marked, NEW docs, NEW now, NEW write, NEW view, write.doc \in DOMAIN docs,
           IsView(docs, now, view)
    PROVE  IsView(docs, now, Judged(docs, view, write, now))
<1>1. CASE view.error # "none"
  BY <1>1 DEF IsView, Judged
<1>2. CASE view.error = "none"
  <2>1. PICK at \in DOMAIN docs : at = write.doc
    OBVIOUS
  <2>2. PICK row : row = view.rows[at]
    OBVIOUS
  <2>3. IsRow(row) /\ SameButTime(row, row)
    BY <1>2, <2>2 DEF IsView, SameButTime
  <2>4. PICK step : step = ApplyWrite(write, row, now)
    OBVIOUS
  <2>5. /\ step.error = "none" /\ write.op # "verify" =>
             /\ step.state = Missing \/ step.state.updated = now
             /\ IsRow(step.state)
        /\ step.error = "none" /\ write.op = "verify" =>
             step.state = IF row = Missing THEN Missing ELSE [updated |-> now, fields |-> row.fields]
    <3>1. Likewise(write, write)
      BY DEF Likewise
    <3> QED BY <2>3, <2>4, <3>1, SameJudgement
  <2>6. step.error = "none" =>
            IsRow(step.state) /\ (step.state = Missing \/ step.state.updated = now)
    BY <2>5 DEF IsRow
  <2>7. PICK then : then = Judged(docs, view, write, now)
    OBVIOUS
  <2>8. /\ then.error = step.error /\ then.rows = [view.rows EXCEPT ![at] = step.state]
        /\ then.dirty \subseteq view.dirty \cup {at}
    BY <1>2, <2>1, <2>2, <2>4, <2>7 DEF Judged, Advanced
  <2>9. /\ view.rows = [d \in DOMAIN docs |-> view.rows[d]]
        /\ \A d \in DOMAIN docs :
              /\ IsRow(view.rows[d])
              /\ d \in view.dirty => view.rows[d] = Missing \/ view.rows[d].updated = now
    BY <1>2 DEF IsView
  <2>10. then.rows = [d \in DOMAIN docs |-> then.rows[d]]
    BY <2>8, <2>9
  <2>11. ASSUME NEW d \in DOMAIN docs, step.error = "none"
         PROVE  /\ IsRow(then.rows[d])
                /\ d \in then.dirty => then.rows[d] = Missing \/ then.rows[d].updated = now
    <3>1. CASE d = at
      BY <2>6, <2>8, <2>9, <2>11, <3>1
    <3>2. CASE d # at
      BY <2>8, <2>9, <3>2
    <3> QED BY <3>1, <3>2
  <2> QED BY <2>7, <2>8, <2>10, <2>11 DEF IsView
<1> QED BY <1>1, <1>2

\* A commit keeps the documents documents, and dates those it changes.
LEMMA StoredRows ==
    ASSUME Marked, NEW docs, NEW writes, NEW now, IsTable(docs),
           Len(writes) \in Nat, DOMAIN writes = 1 .. Len(writes),
           \A k \in DOMAIN writes : writes[k].doc \in DOMAIN docs,
           NEW new, new = Stored(docs, writes, now)
    PROVE  /\ IsTable(new) /\ DOMAIN new = DOMAIN docs
           /\ \A d \in DOMAIN docs : new[d] = docs[d] \/ new[d] = Missing \/ new[d].updated = now
<1>1. PICK n \in Nat : n = Len(writes)
  OBVIOUS
<1>2. PICK all : all = Views(docs, writes, now)
  OBVIOUS
<1> DEFINE S == {k \in 0 .. n : IsView(docs, now, all[k])}
<1>3. 0 \in S
  <2>1. all[0] = Untouched(docs)
    BY <1>2, ViewsStepByStep
  <2>2. all[0].rows = docs /\ all[0].dirty = {}
    BY <2>1 DEF Untouched
  <2> QED BY <2>2 DEF IsView, IsTable
<1>4. ASSUME NEW k \in 1 .. n, k - 1 \in S PROVE k \in S
  <2>1. all[k] = Judged(docs, all[k - 1], writes[k], now)
    BY <1>1, <1>2, ViewsStepByStep
  <2>2. writes[k].doc \in DOMAIN docs
    BY <1>1
  <2> QED BY <1>4, <2>1, <2>2, ViewStepKept
<1>5. \A k \in 0 .. n : k \in S
  <2> HIDE DEF S
  <2> QED BY <1>3, <1>4, Batch!Upward
<1>6. IsView(docs, now, all[n])
  BY <1>5
<1>7. PICK done : done = all[n]
  OBVIOUS
<1>8. new = Persisted(docs, done)
  BY <1>1, <1>2, <1>7 DEF Stored, ApplyWrites
<1>9. CASE done.error # "none"
  BY <1>8, <1>9 DEF Persisted
<1>10. CASE done.error = "none"
  <2>1. new = [d \in DOMAIN docs |-> IF d \in done.dirty THEN done.rows[d] ELSE docs[d]]
    BY <1>8, <1>10 DEF Persisted
  <2>2. \A d \in DOMAIN docs :
           /\ IsRow(done.rows[d]) /\ IsRow(docs[d])
           /\ d \in done.dirty => done.rows[d] = Missing \/ done.rows[d].updated = now
    BY <1>6, <1>7, <1>10 DEF IsView, IsTable
  <2>3. DOMAIN new = DOMAIN docs /\ new = [d \in DOMAIN new |-> new[d]]
    BY <2>1
  <2>4. \A d \in DOMAIN docs : IsRow(new[d])
    BY <2>1, <2>2
  <2>5. \A d \in DOMAIN docs : new[d] = docs[d] \/ new[d] = Missing \/ new[d].updated = now
    BY <2>1, <2>2
  <2> QED BY <2>3, <2>4, <2>5 DEF IsTable
<1> QED BY <1>9, <1>10

CollectionInv ==
    /\ clock \in Nat \ {0}
    /\ IsTable(rows) /\ (\E some \in Rows : DOMAIN rows = DOMAIN some)
    /\ ColumnsFollow
    /\ \A d \in DOMAIN rows : rows[d] # Missing => rows[d].updated \in 1 .. clock

LEMMA CollectionInit ==
    ASSUME Init
    PROVE  CollectionInv
<1>1. rows \in Rows /\ clock = 1 /\ columns = [d \in DOMAIN rows |-> ColumnsOf(rows[d])]
  BY DEF Init
<1>2. IsTable(rows) /\ \A d \in DOMAIN rows : rows[d] # Missing => rows[d].updated = 1
  BY <1>1, RowsAssumption
<1>3. 1 \in 1 .. 1
  OBVIOUS
<1> QED BY <1>1, <1>2, <1>3 DEF CollectionInv, ColumnsFollow

LEMMA CollectionCommit ==
    ASSUME Marked, CollectionInv, NEW writes \in Batches, Commit(writes)
    PROVE  CollectionInv'
<1>1. PICK some \in Rows : DOMAIN rows = DOMAIN some
  BY DEF CollectionInv
<1>2. /\ Len(writes) \in Nat /\ DOMAIN writes = 1 .. Len(writes)
      /\ \A k \in DOMAIN writes : writes[k].doc \in DOMAIN rows
  BY <1>1, BatchesAssumption
<1>3. clock' = clock + 1 /\ rows' = Stored(rows, writes, clock')
      /\ columns' = [d \in DOMAIN rows |->
                       IF rows'[d] = rows[d] THEN columns[d] ELSE ColumnsSet(columns[d], rows'[d])]
  BY DEF Commit
<1>4. clock \in Nat \ {0} /\ clock' \in Nat \ {0} /\ clock' \in 1 .. clock'
  BY <1>3 DEF CollectionInv
<1>5. /\ IsTable(rows') /\ DOMAIN rows' = DOMAIN rows
      /\ \A d \in DOMAIN rows : rows'[d] = rows[d] \/ rows'[d] = Missing \/ rows'[d].updated = clock'
  BY <1>2, <1>3, StoredRows DEF CollectionInv
<1>6. ASSUME NEW d \in DOMAIN rows', rows'[d] # Missing PROVE rows'[d].updated \in 1 .. clock'
  <2>1. CASE rows'[d] = rows[d]
    BY <1>3, <1>4, <1>5, <1>6, <2>1 DEF CollectionInv
  <2>2. CASE rows'[d].updated = clock'
    BY <1>4, <2>2
  <2> QED BY <1>5, <1>6, <2>1, <2>2
<1>7. ASSUME NEW d \in DOMAIN rows' PROVE columns'[d] = ColumnsOf(rows'[d])
  BY <1>3, <1>5 DEF CollectionInv, ColumnsFollow, ColumnsSet
<1>8. columns' = [d \in DOMAIN rows' |-> columns'[d]]
  BY <1>3, <1>5
<1>9. ColumnsFollow'
  BY <1>7, <1>8 DEF ColumnsFollow
<1> QED BY <1>1, <1>4, <1>5, <1>6, <1>9 DEF CollectionInv

LEMMA CollectionStep == Marked /\ CollectionInv /\ [Next]_vars => CollectionInv'
<1>1. SUFFICES ASSUME Marked, CollectionInv, [Next]_vars PROVE CollectionInv'
  OBVIOUS
<1>2. CASE Next
  BY <1>1, <1>2, CollectionCommit DEF Next
<1>3. CASE UNCHANGED vars
  BY <1>1, <1>3 DEF vars, CollectionInv, ColumnsFollow
<1> QED BY <1>1, <1>2, <1>3

\* A document has its columns, and the time of a commit there was.
LEMMA CollectionTypes == CollectionInv => CollectionTypeOK
BY DEF CollectionInv, CollectionTypeOK

LEMMA WritesMeanHolds == Marked /\ CollectionInv => WritesMean
<1>1. SUFFICES ASSUME Marked, CollectionInv PROVE WritesMean
  OBVIOUS
<1>2. ASSUME NEW writes \in Batches PROVE BatchIsItsWrites(rows, writes, clock + 1)
  <2>1. PICK some \in Rows : DOMAIN rows = DOMAIN some
    BY <1>1 DEF CollectionInv
  <2>2. /\ Len(writes) \in Nat /\ DOMAIN writes = 1 .. Len(writes)
        /\ \A k \in DOMAIN writes : writes[k].doc \in DOMAIN rows
    BY <2>1, BatchesAssumption
  <2>3. IsTable(rows)
    BY <1>1 DEF CollectionInv
  <2> QED BY <1>1, <2>2, <2>3, BatchesAreTheirWrites
<1>3. ASSUME NEW fields, NEW mask \in Masks, NEW update \in Updates
      PROVE  MergeFollowsMask(fields, mask, update, Watched)
  BY <1>1, MasksAssumption, MergesFollowMasks
<1> QED BY <1>1, <1>2, <1>3, CollectionTypes DEF WritesMean

\* In every state of the collection the columns are those of the documents, a
\* commit is what its writes are one after another, and a merge goes by its mask.
THEOREM WritesMeanAlways ==
    ASSUME Marked
    PROVE  Spec => []WritesMean
<1>1. Init => CollectionInv
  BY CollectionInit
<1>2. CollectionInv /\ [Next]_vars => CollectionInv'
  BY CollectionStep
<1>3. CollectionInv => WritesMean
  BY WritesMeanHolds
<1> QED BY <1>1, <1>2, <1>3, PTL DEF Spec

-----------------------------------------------------------------------------
(* The order of keys.                                                      *)

\* The first index of a set of them.
LEMMA FirstIndex ==
    ASSUME NEW n \in Nat, NEW S, NEW m \in S, m \in 1 .. n
    PROVE  \E k \in 1 .. n : k \in S /\ \A j \in 1 .. k - 1 : j \notin S
<1> DEFINE T == S \cap 1 .. n
<1>1. PICK k \in T : \A j \in T : k <= j
  <2>1. T \subseteq Nat /\ T # {}
    OBVIOUS
  <2> HIDE DEF T
  <2> QED BY <2>1, Downs!LeastNatural
<1> QED BY <1>1

\* The first of some signs that is not 0.
LEMMA FirstNonZeroIs ==
    ASSUME NEW n \in Nat, NEW cs \in [1 .. n -> {-1, 0, 1}]
    PROVE  \/ FirstNonZero(cs) = 0 /\ \A k \in 1 .. n : cs[k] = 0
           \/ \E k \in 1 .. n : /\ cs[k] # 0 /\ FirstNonZero(cs) = cs[k]
                                /\ \A j \in 1 .. k - 1 : cs[j] = 0
<1> DEFINE IsFirst(k) == cs[k] # 0 /\ \A j \in 1 .. k - 1 : cs[j] = 0
<1>1. CASE \A k \in 1 .. n : cs[k] = 0
  BY <1>1 DEF FirstNonZero
<1>2. ASSUME NEW m \in 1 .. n, cs[m] # 0
      PROVE  \E k \in 1 .. n : cs[k] # 0 /\ FirstNonZero(cs) = cs[k] /\ \A j \in 1 .. k - 1 : cs[j] = 0
  <2>1. \E k \in 1 .. n : IsFirst(k)
    <3> DEFINE S == {k \in 1 .. n : cs[k] # 0}
    <3>1. m \in S
      BY <1>2
    <3>2. PICK k \in 1 .. n : k \in S /\ \A j \in 1 .. k - 1 : j \notin S
      <4> HIDE DEF S
      <4> QED BY <3>1, FirstIndex
    <3>3. \A j \in 1 .. k - 1 : j \in 1 .. n
      OBVIOUS
    <3> QED BY <3>2, <3>3
  <2>2. PICK k \in 1 .. n : k = CHOOSE i \in 1 .. n : IsFirst(i)
    BY <2>1
  <2>3. IsFirst(k)
    BY <2>1, <2>2
  <2>4. FirstNonZero(cs) = cs[k]
    <3>1. DOMAIN cs = 1 .. n
      OBVIOUS
    <3> QED BY <1>2, <2>2, <3>1 DEF FirstNonZero
  <2> QED BY <2>3, <2>4
<1> QED BY <1>1, <1>2

\* A key goes on below every byte after its end.
At(s, k) == IF k <= Len(s) THEN s[k] ELSE -1

SameUpTo(s, t, k) == \A j \in 1 .. k - 1 : At(s, j) = At(t, j)

LEMMA BytesDiffer ==
    ASSUME NEW s \in Seq(Nat), NEW t \in Seq(Nat)
    PROVE  \/ s = t /\ CompareBytes(s, t) = 0
           \/ \E k \in Nat \ {0} :
                  /\ SameUpTo(s, t, k) /\ At(s, k) # At(t, k)
                  /\ CompareBytes(s, t) = Sign(At(s, k) - At(t, k))
<1>1. PICK m \in Nat, n \in Nat : m = Len(s) /\ n = Len(t)
  OBVIOUS
<1>2. PICK shared \in Nat : shared = Shorter(m, n)
  BY DEF Shorter
<1>3. shared <= m /\ shared <= n /\ (shared = m \/ shared = n)
  BY <1>2 DEF Shorter
<1>4. \A k \in 1 .. shared : s[k] \in Nat /\ t[k] \in Nat
  BY <1>1, <1>3
<1>5. \A k \in 1 .. shared : CompareInts(s[k], t[k]) = 0 <=> s[k] = t[k]
  BY <1>4 DEF CompareInts, Sign
<1>6. PICK cs : cs = [k \in 1 .. shared |-> CompareInts(s[k], t[k])]
  OBVIOUS
<1> DEFINE IsFirst(k) == /\ k <= shared => CompareInts(s[k], t[k]) # 0
                         /\ \A j \in 1 .. k - 1 : CompareInts(s[j], t[j]) = 0
<1>7. PICK first \in 1 .. shared + 1 :
          IsFirst(first) /\ FirstNonZero(cs) = IF first > shared THEN 0 ELSE CompareInts(s[first], t[first])
  <2>1. cs \in [1 .. shared -> {-1, 0, 1}]
    BY <1>4, <1>6 DEF CompareInts, Sign
  <2>2. \A k \in 1 .. shared : cs[k] = CompareInts(s[k], t[k])
    BY <1>6
  <2> DEFINE Good(f) == IsFirst(f) /\ FirstNonZero(cs) = IF f > shared THEN 0 ELSE CompareInts(s[f], t[f])
  <2>3. CASE FirstNonZero(cs) = 0 /\ \A k \in 1 .. shared : cs[k] = 0
    <3>1. \A j \in 1 .. shared : CompareInts(s[j], t[j]) = 0
      BY <2>2, <2>3
    <3>2. IsFirst(shared + 1)
      BY <3>1
    <3> QED BY <2>3, <3>2
  <2>4. ASSUME NEW k \in 1 .. shared, cs[k] # 0, FirstNonZero(cs) = cs[k],
               \A j \in 1 .. k - 1 : cs[j] = 0
        PROVE  \E f \in 1 .. shared + 1 : Good(f)
    <3>a. CompareInts(s[k], t[k]) # 0
      BY <2>2, <2>4
    <3>b. ASSUME NEW j \in 1 .. k - 1
          PROVE  CompareInts(s[j], t[j]) = 0
      <4>1. j \in 1 .. shared
        OBVIOUS
      <4> QED BY <2>2, <2>4, <4>1
    <3>1. IsFirst(k)
      BY <3>a, <3>b
    <3>2. k \in 1 .. shared + 1 /\ Good(k)
      BY <2>2, <2>4, <3>1
    <3> QED BY <3>2
  <2>5. \/ FirstNonZero(cs) = 0 /\ \A k \in 1 .. shared : cs[k] = 0
        \/ \E k \in 1 .. shared : /\ cs[k] # 0 /\ FirstNonZero(cs) = cs[k]
                                  /\ \A j \in 1 .. k - 1 : cs[j] = 0
    BY <2>1, FirstNonZeroIs
  <2> QED BY <2>3, <2>4, <2>5
<1>8. IsFirst(first)
  BY <1>7
<1>9. CompareBytes(s, t) = IF first > shared THEN Sign(m - n) ELSE CompareInts(s[first], t[first])
  <2>1. CompareBytes(s, t) = FirstSign(FirstNonZero(cs), Sign(m - n))
    BY <1>1, <1>2, <1>6 DEF CompareBytes, CompareSeqs
  <2>2. CASE first > shared
    BY <1>7, <2>1, <2>2 DEF FirstSign
  <2>3. CASE first <= shared
    BY <1>7, <2>1, <2>3 DEF FirstSign
  <2> QED BY <2>2, <2>3
<1> HIDE DEF IsFirst
<1>10. ASSUME NEW j \in 1 .. first - 1
       PROVE  j \in 1 .. shared /\ s[j] = t[j]
  <2>1. j \in 1 .. shared
    BY <1>7
  <2>2. CompareInts(s[j], t[j]) = 0
    BY <1>8 DEF IsFirst
  <2> QED BY <1>5, <2>1, <2>2
<1>11. SameUpTo(s, t, first)
  BY <1>1, <1>3, <1>10 DEF SameUpTo, At
<1>12. CASE first > shared
  <2>1. first = shared + 1
    BY <1>12
  <2>2. CASE m = n
    <3>1. shared = m /\ \A j \in 1 .. m : s[j] = t[j]
      BY <1>3, <1>10, <2>1, <2>2
    <3>2. Len(s) = Len(t) /\ \A j \in 1 .. Len(s) : s[j] = t[j]
      BY <1>1, <2>2, <3>1
    <3>3. s = t
      BY <3>2, SeqEqual
    <3> QED BY <1>9, <1>12, <2>2, <3>3 DEF Sign
  <2>3. CASE m < n
    <3>1. shared = m /\ t[first] \in Nat
      BY <1>1, <1>3, <2>1, <2>3
    <3>2. At(s, first) = -1 /\ At(t, first) = t[first]
      BY <1>1, <2>1, <2>3, <3>1 DEF At
    <3>3. CompareBytes(s, t) = -1
      BY <1>1, <1>9, <1>12, <2>3 DEF Sign
    <3>4. At(s, first) # At(t, first) /\ Sign(At(s, first) - At(t, first)) = -1
      BY <3>1, <3>2 DEF Sign
    <3> QED BY <1>11, <3>3, <3>4
  <2>4. CASE m > n
    <3>1. shared = n /\ s[first] \in Nat
      BY <1>1, <1>3, <2>1, <2>4
    <3>2. At(t, first) = -1 /\ At(s, first) = s[first]
      BY <1>1, <2>1, <2>4, <3>1 DEF At
    <3>3. CompareBytes(s, t) = 1
      BY <1>1, <1>9, <1>12, <2>4 DEF Sign
    <3>4. At(s, first) # At(t, first) /\ Sign(At(s, first) - At(t, first)) = 1
      BY <3>1, <3>2 DEF Sign
    <3> QED BY <1>11, <3>3, <3>4
  <2> QED BY <2>2, <2>3, <2>4
<1>13. CASE first <= shared
  <2>1. CompareInts(s[first], t[first]) = Sign(s[first] - t[first]) /\ s[first] # t[first]
    BY <1>5, <1>8, <1>13 DEF IsFirst, CompareInts
  <2>2. At(s, first) = s[first] /\ At(t, first) = t[first]
    BY <1>1, <1>3, <1>13 DEF At
  <2> QED BY <1>9, <1>11, <1>13, <2>1, <2>2
<1> QED BY <1>12, <1>13

LEMMA AtInt == ASSUME NEW s \in Seq(Nat), NEW k \in Nat \ {0} PROVE At(s, k) \in Int
BY DEF At

\* The order of keys is total, whatever bytes they are.
LEMMA BytesReverse ==
    ASSUME NEW s \in Seq(Nat), NEW t \in Seq(Nat)
    PROVE  /\ CompareBytes(s, t) \in {-1, 0, 1}
           /\ CompareBytes(s, t) = 0 <=> s = t
           /\ CompareBytes(t, s) = -CompareBytes(s, t)
<1>1. CASE s = t
  <2>1. \A k \in Nat \ {0} : At(s, k) = At(t, k)
    BY <1>1
  <2> QED BY <1>1, <2>1, BytesDiffer
<1>2. CASE s # t
  <2>1. PICK k \in Nat \ {0} : /\ SameUpTo(s, t, k) /\ At(s, k) # At(t, k)
                               /\ CompareBytes(s, t) = Sign(At(s, k) - At(t, k))
    BY <1>2, BytesDiffer
  <2>2. PICK l \in Nat \ {0} : /\ SameUpTo(t, s, l) /\ At(t, l) # At(s, l)
                               /\ CompareBytes(t, s) = Sign(At(t, l) - At(s, l))
    BY <1>2, BytesDiffer
  <2>3. k = l
    <3>1. ~(k < l) 
      BY <2>1, <2>2 DEF SameUpTo
    <3>2. ~(l < k)
      BY <2>1, <2>2 DEF SameUpTo
    <3> QED BY <3>1, <3>2
  <2>4. At(s, k) \in Int /\ At(t, k) \in Int
    BY AtInt
  <2> QED BY <1>2, <2>1, <2>2, <2>3, <2>4 DEF Sign
<1> QED BY <1>1, <1>2

LEMMA BytesBefore ==
    ASSUME NEW s \in Seq(Nat), NEW t \in Seq(Nat)
    PROVE  CompareBytes(s, t) = -1 <=> \E k \in Nat \ {0} : SameUpTo(s, t, k) /\ At(s, k) < At(t, k)
<1>1. ASSUME CompareBytes(s, t) = -1
      PROVE  \E k \in Nat \ {0} : SameUpTo(s, t, k) /\ At(s, k) < At(t, k)
  <2>1. PICK k \in Nat \ {0} : /\ SameUpTo(s, t, k) /\ At(s, k) # At(t, k)
                               /\ CompareBytes(s, t) = Sign(At(s, k) - At(t, k))
    BY <1>1, BytesDiffer
  <2>2. At(s, k) \in Int /\ At(t, k) \in Int
    BY AtInt
  <2> QED BY <1>1, <2>1, <2>2 DEF Sign
<1>2. ASSUME NEW k \in Nat \ {0}, SameUpTo(s, t, k), At(s, k) < At(t, k)
      PROVE  CompareBytes(s, t) = -1
  <2>1. s # t
    BY <1>2, AtInt
  <2>2. PICK l \in Nat \ {0} : /\ SameUpTo(s, t, l) /\ At(s, l) # At(t, l)
                               /\ CompareBytes(s, t) = Sign(At(s, l) - At(t, l))
    BY <2>1, BytesDiffer
  <2>3. At(s, k) \in Int /\ At(t, k) \in Int
    BY AtInt
  <2>4. k = l
    <3>1. ~(k < l)
      BY <1>2, <2>2, <2>3 DEF SameUpTo
    <3>2. ~(l < k)
      BY <1>2, <2>2 DEF SameUpTo
    <3> QED BY <3>1, <3>2
  <2> QED BY <1>2, <2>2, <2>3, <2>4 DEF Sign
<1> QED BY <1>1, <1>2

LEMMA BytesTransitive ==
    ASSUME NEW s \in Seq(Nat), NEW t \in Seq(Nat), NEW u \in Seq(Nat),
           CompareBytes(s, t) = -1, CompareBytes(t, u) = -1
    PROVE  CompareBytes(s, u) = -1
<1>1. PICK k \in Nat \ {0} : SameUpTo(s, t, k) /\ At(s, k) < At(t, k)
  BY BytesBefore
<1>2. PICK l \in Nat \ {0} : SameUpTo(t, u, l) /\ At(t, l) < At(u, l)
  BY BytesBefore
<1>3. PICK m \in Nat \ {0} : m <= k /\ m <= l /\ (m = k \/ m = l)
  <2>1. PICK m : m = IF k <= l THEN k ELSE l
    OBVIOUS
  <2>2. m \in Nat \ {0} /\ m <= k /\ m <= l /\ (m = k \/ m = l)
    BY <2>1
  <2> QED BY <2>2
<1>4. SameUpTo(s, u, m)
  BY <1>1, <1>2, <1>3 DEF SameUpTo
<1>5. At(s, m) \in Int /\ At(t, m) \in Int /\ At(u, m) \in Int
  BY AtInt
<1>6. At(s, m) <= At(t, m) /\ At(t, m) <= At(u, m) /\ (At(s, m) < At(t, m) \/ At(t, m) < At(u, m))
  <2>1. m < k => At(s, m) = At(t, m)
    BY <1>1 DEF SameUpTo
  <2>2. m < l => At(t, m) = At(u, m)
    BY <1>2 DEF SameUpTo
  <2> QED BY <1>1, <1>2, <1>3, <1>5, <2>1, <2>2
<1>7. At(s, m) < At(u, m)
  BY <1>5, <1>6
<1> QED BY <1>4, <1>7, BytesBefore

-----------------------------------------------------------------------------
(* The order of rows of keys, each key in its direction.                   *)

Turned(up, c) == IF up THEN c ELSE -c

CompareKeys(up, n, x, y) == FirstNonZero([k \in 1 .. n |-> Turned(up[k], CompareBytes(x[k], y[k]))])

Directions(n, up) == up \in [1 .. n -> BOOLEAN]
Keys(n, x) == x \in [1 .. n -> Seq(Nat)]

LEMMA KeysAt ==
    ASSUME NEW n \in Nat, NEW x, Keys(n, x), NEW k \in 1 .. n
    PROVE  x[k] \in Seq(Nat)
BY DEF Keys

\* y is further at its k-th key, and no different before.
Further(up, n, x, y, k) ==
    /\ Turned(up[k], CompareBytes(x[k], y[k])) = -1
    /\ \A j \in 1 .. k - 1 : x[j] = y[j]

LEMMA KeysTurned ==
    ASSUME NEW up \in BOOLEAN, NEW s \in Seq(Nat), NEW t \in Seq(Nat)
    PROVE  /\ Turned(up, CompareBytes(s, t)) \in {-1, 0, 1}
           /\ Turned(up, CompareBytes(s, t)) = 0 <=> s = t
           /\ Turned(up, CompareBytes(t, s)) = -Turned(up, CompareBytes(s, t))
BY BytesReverse DEF Turned

LEMMA TurnedTransitive ==
    ASSUME NEW up \in BOOLEAN, NEW s \in Seq(Nat), NEW t \in Seq(Nat), NEW u \in Seq(Nat),
           Turned(up, CompareBytes(s, t)) = -1, Turned(up, CompareBytes(t, u)) = -1
    PROVE  Turned(up, CompareBytes(s, u)) = -1
<1>1. CASE up
  BY <1>1, BytesTransitive DEF Turned
<1>2. CASE ~up
  <2>1. /\ CompareBytes(t, s) = -CompareBytes(s, t)
        /\ CompareBytes(u, t) = -CompareBytes(t, u)
    BY BytesReverse
  <2>2. CompareBytes(t, s) = -1 /\ CompareBytes(u, t) = -1
    BY <1>2, <2>1 DEF Turned
  <2>3. CompareBytes(u, s) = -1
    BY <2>2, BytesTransitive
  <2>4. PICK c \in {-1, 0, 1} : c = CompareBytes(s, u)
    BY BytesReverse
  <2>5. -1 = -c
    BY <2>3, <2>4, BytesReverse
  <2>6. Turned(up, CompareBytes(s, u)) = -c
    BY <1>2, <2>4 DEF Turned
  <2> QED BY <2>5, <2>6
<1> QED BY <1>1, <1>2

LEMMA TurnedAt ==
    ASSUME NEW n \in Nat, NEW up, Directions(n, up), NEW x, NEW y, Keys(n, x), Keys(n, y), NEW k \in 1 .. n,
           Turned(up[k], CompareBytes(x[k], y[k])) = -1
    PROVE  x[k] # y[k] /\ Turned(up[k], CompareBytes(y[k], x[k])) = 1
<1>1. up[k] \in BOOLEAN /\ x[k] \in Seq(Nat) /\ y[k] \in Seq(Nat)
  BY DEF Directions, Keys
<1>2. PICK c \in {-1, 0, 1} : c = Turned(up[k], CompareBytes(x[k], y[k]))
  BY <1>1, KeysTurned
<1>3. Turned(up[k], CompareBytes(y[k], x[k])) = -c /\ (c = 0 <=> x[k] = y[k])
  BY <1>1, <1>2, KeysTurned
<1>4. c # 0 /\ c # 1
  BY <1>2
<1>5. -c = 1 /\ c # 0
  BY <1>4
<1> QED BY <1>3, <1>5

LEMMA KeysDiffer ==
    ASSUME NEW n \in Nat, NEW up, Directions(n, up), NEW x, NEW y, Keys(n, x), Keys(n, y)
    PROVE  \/ CompareKeys(up, n, x, y) = 0 /\ x = y
           \/ CompareKeys(up, n, x, y) = -1 /\ \E k \in 1 .. n : Further(up, n, x, y, k)
           \/ CompareKeys(up, n, x, y) = 1 /\ \E k \in 1 .. n : Further(up, n, y, x, k)
<1> DEFINE cs == [k \in 1 .. n |-> Turned(up[k], CompareBytes(x[k], y[k]))]
<1>1. \A k \in 1 .. n : /\ cs[k] \in {-1, 0, 1}
                        /\ cs[k] = 0 <=> x[k] = y[k]
                        /\ Turned(up[k], CompareBytes(y[k], x[k])) = -cs[k]
  <2>1. \A k \in 1 .. n : up[k] \in BOOLEAN
    BY DEF Directions
  <2> QED BY <2>1, KeysTurned, KeysAt
<1>2. CompareKeys(up, n, x, y) = FirstNonZero(cs)
  BY DEF CompareKeys
<1>3. \A k \in 1 .. n : cs[k] = -1 => Turned(up[k], CompareBytes(x[k], y[k])) = -1
  OBVIOUS
<1>4. cs \in [1 .. n -> {-1, 0, 1}]
  BY <1>1
<1> HIDE DEF cs
<1>5. CASE FirstNonZero(cs) = 0 /\ \A k \in 1 .. n : cs[k] = 0
  <2>1. x = y
    BY <1>1, <1>5 DEF Keys
  <2> QED BY <1>2, <1>5, <2>1
<1>6. ASSUME NEW k \in 1 .. n, cs[k] # 0, FirstNonZero(cs) = cs[k], \A j \in 1 .. k - 1 : cs[j] = 0
      PROVE  \/ CompareKeys(up, n, x, y) = -1 /\ Further(up, n, x, y, k)
             \/ CompareKeys(up, n, x, y) = 1 /\ Further(up, n, y, x, k)
  <2>1. \A j \in 1 .. k - 1 : x[j] = y[j]
    BY <1>1, <1>6
  <2>2. CASE cs[k] = -1
    BY <1>2, <1>3, <1>6, <2>1, <2>2 DEF Further
  <2>3. CASE cs[k] = 1
    <3>1. Turned(up[k], CompareBytes(y[k], x[k])) = -1
      BY <1>1, <2>3
    <3> QED BY <1>2, <1>6, <2>1, <2>3, <3>1 DEF Further
  <2> QED BY <1>1, <1>6, <2>2, <2>3
<1> QED BY <1>4, <1>5, <1>6, FirstNonZeroIs

LEMMA NotBoth ==
    ASSUME NEW n \in Nat, NEW up, Directions(n, up), NEW x, NEW y, Keys(n, x), Keys(n, y),
           NEW k \in 1 .. n, Further(up, n, x, y, k), NEW l \in 1 .. n
    PROVE  x # y /\ ~Further(up, n, y, x, l)
<1>1. /\ Turned(up[k], CompareBytes(x[k], y[k])) = -1
      /\ \A j \in 1 .. k - 1 : x[j] = y[j]
  BY DEF Further
<1>2. x[k] # y[k]
  BY <1>1, TurnedAt
<1>3. SUFFICES ASSUME Further(up, n, y, x, l) PROVE FALSE
  BY <1>2
<1>4. /\ Turned(up[l], CompareBytes(y[l], x[l])) = -1
      /\ \A j \in 1 .. l - 1 : y[j] = x[j]
  BY <1>3 DEF Further
<1>5. x[l] # y[l]
  BY <1>4, TurnedAt
<1>6. k = l
  <2>1. ~(k < l) /\ ~(l < k)
    BY <1>1, <1>2, <1>4, <1>5
  <2> QED BY <2>1
<1>7. Turned(up[k], CompareBytes(y[k], x[k])) = 1
  BY <1>1, TurnedAt
<1> QED BY <1>4, <1>6, <1>7

\* The order is total, and strict.
LEMMA KeysBefore ==
    ASSUME NEW n \in Nat, NEW up, Directions(n, up), NEW x, NEW y, Keys(n, x), Keys(n, y)
    PROVE  /\ CompareKeys(up, n, x, y) \in {-1, 0, 1}
           /\ CompareKeys(up, n, x, y) = 0 <=> x = y
           /\ CompareKeys(up, n, x, y) = -1 <=> \E k \in 1 .. n : Further(up, n, x, y, k)
           /\ CompareKeys(up, n, x, y) = 1 <=> \E k \in 1 .. n : Further(up, n, y, x, k)
<1>1. CASE CompareKeys(up, n, x, y) = 0 /\ x = y
  <2>1. \A k \in 1 .. n : ~Further(up, n, x, y, k) /\ ~Further(up, n, y, x, k)
    BY <1>1, NotBoth
  <2> QED BY <1>1, <2>1
<1>2. ASSUME NEW k \in 1 .. n, CompareKeys(up, n, x, y) = -1, Further(up, n, x, y, k)
      PROVE  x # y /\ \A l \in 1 .. n : ~Further(up, n, y, x, l)
  BY <1>2, NotBoth
<1>3. ASSUME NEW k \in 1 .. n, CompareKeys(up, n, x, y) = 1, Further(up, n, y, x, k)
      PROVE  x # y /\ \A l \in 1 .. n : ~Further(up, n, x, y, l)
  BY <1>3, NotBoth
<1> QED BY <1>1, <1>2, <1>3, KeysDiffer

LEMMA KeysReverse ==
    ASSUME NEW n \in Nat, NEW up, Directions(n, up), NEW x, NEW y, Keys(n, x), Keys(n, y)
    PROVE  CompareKeys(up, n, y, x) = -CompareKeys(up, n, x, y)
<1>1. PICK c \in {-1, 0, 1}, d \in {-1, 0, 1} :
          c = CompareKeys(up, n, x, y) /\ d = CompareKeys(up, n, y, x)
  BY KeysBefore
<1>2. /\ c = 0 <=> x = y
      /\ c = -1 <=> \E k \in 1 .. n : Further(up, n, x, y, k)
      /\ c = 1 <=> \E k \in 1 .. n : Further(up, n, y, x, k)
  BY <1>1, KeysBefore
<1>3. /\ d = 0 <=> y = x
      /\ d = -1 <=> \E k \in 1 .. n : Further(up, n, y, x, k)
      /\ d = 1 <=> \E k \in 1 .. n : Further(up, n, x, y, k)
  BY <1>1, KeysBefore
<1>4. d = -c
  BY <1>2, <1>3
<1> QED BY <1>1, <1>4

LEMMA KeysTransitive ==
    ASSUME NEW n \in Nat, NEW up, Directions(n, up), NEW x, NEW y, NEW z, Keys(n, x), Keys(n, y), Keys(n, z),
           CompareKeys(up, n, x, y) = -1, CompareKeys(up, n, y, z) = -1
    PROVE  CompareKeys(up, n, x, z) = -1
<1>1. PICK k \in 1 .. n : Further(up, n, x, y, k)
  BY KeysBefore
<1>2. PICK l \in 1 .. n : Further(up, n, y, z, l)
  BY KeysBefore
<1>3. /\ Turned(up[k], CompareBytes(x[k], y[k])) = -1
      /\ \A j \in 1 .. k - 1 : x[j] = y[j]
  BY <1>1 DEF Further
<1>4. /\ Turned(up[l], CompareBytes(y[l], z[l])) = -1
      /\ \A j \in 1 .. l - 1 : y[j] = z[j]
  BY <1>2 DEF Further
<1>5. CASE k < l
  <2>1. y[k] = z[k] /\ \A j \in 1 .. k - 1 : x[j] = z[j]
    BY <1>3, <1>4, <1>5
  <2>2. Further(up, n, x, z, k)
    BY <1>3, <2>1 DEF Further
  <2> QED BY <2>2, KeysBefore
<1>6. CASE l < k
  <2>1. y[l] = x[l] /\ \A j \in 1 .. l - 1 : x[j] = z[j]
    BY <1>3, <1>4, <1>6
  <2>2. Further(up, n, x, z, l)
    BY <1>4, <2>1 DEF Further
  <2> QED BY <2>2, KeysBefore
<1>7. CASE k = l
  <2>1. Turned(up[k], CompareBytes(x[k], z[k])) = -1
    <3>1. up[k] \in BOOLEAN /\ x[k] \in Seq(Nat) /\ y[k] \in Seq(Nat) /\ z[k] \in Seq(Nat)
      BY DEF Directions, Keys
    <3> QED BY <1>3, <1>4, <1>7, <3>1, TurnedTransitive
  <2>2. \A j \in 1 .. k - 1 : x[j] = z[j]
    BY <1>3, <1>4, <1>7
  <2>3. Further(up, n, x, z, k)
    BY <2>1, <2>2 DEF Further
  <2> QED BY <2>3, KeysBefore
<1> QED BY <1>5, <1>6, <1>7

-----------------------------------------------------------------------------
(* Sets in order.                                                          *)

Preds(S, R, d) == {e \in S : <<e, d>> \in R}

\* A strict total order of S.
Orders(R, S) ==
    \A d, e \in S :
        /\ <<d, e>> \in R => <<e, d>> \notin R
        /\ d # e => <<d, e>> \in R \/ <<e, d>> \in R
        /\ \A f \in S : <<d, e>> \in R /\ <<e, f>> \in R => <<d, f>> \in R

\* t has the members of S in the order R.
Lists(t, S, R) ==
    /\ t \in Seq(S)
    /\ \A d \in S : \E i \in 1 .. Len(t) : t[i] = d
    /\ \A i, j \in 1 .. Len(t) : <<t[i], t[j]>> \in R <=> i < j

LEMMA ListedOnce ==
    ASSUME NEW t, NEW S, NEW R, Lists(t, S, R), NEW i \in 1 .. Len(t), NEW j \in 1 .. Len(t), t[i] = t[j]
    PROVE  i = j
<1>1. /\ <<t[i], t[j]>> \in R <=> i < j
      /\ <<t[j], t[i]>> \in R <=> j < i
  BY DEF Lists
<1> QED BY <1>1

\* As many as there are members.
LEMMA ListedCount ==
    ASSUME NEW t, NEW S, NEW R, Lists(t, S, R), NEW k \in 0 .. Len(t)
    PROVE  /\ IsFiniteSet({t[i] : i \in 1 .. k}) /\ Cardinality({t[i] : i \in 1 .. k}) = k
<1>1. Len(t) \in Nat /\ \A i \in 1 .. Len(t) : t[i] \in S
  BY DEF Lists
<1> DEFINE T == {t[i] : i \in 1 .. k}
           f == [i \in 1 .. k |-> t[i]]
<1>2. f \in Bijection(1 .. k, T)
  <2>1. \A i \in 1 .. k, j \in 1 .. k : t[i] = t[j] => i = j
    BY <1>1, ListedOnce
  <2>2. f \in [1 .. k -> T]
    OBVIOUS
  <2>3. IsInjective(f)
    BY <2>1 DEF IsInjective
  <2>4. \A d \in T : \E i \in 1 .. k : f[i] = d
    OBVIOUS
  <2> HIDE DEF f, T
  <2> QED BY <2>2, <2>3, <2>4 DEF Bijection, Injection, Surjection
<1>3. k \in Nat /\ ExistsBijection(1 .. k, T)
  <2>1. k \in Nat
    BY <1>1
  <2> HIDE DEF f, T
  <2> QED BY <1>2, <2>1 DEF ExistsBijection
<1> HIDE DEF T
<1>4. IsFiniteSet(T)
  BY <1>3, FS_NatBijection
<1> QED BY <1>3, <1>4, FS_CountingElements DEF T

\* There is one way to list a set in an order.
LEMMA SortedIs ==
    ASSUME NEW t, NEW S, NEW R, Lists(t, S, R)
    PROVE  Sorted(S, R) = t
<1>1. PICK n \in Nat : n = Len(t)
  BY DEF Lists
<1>2. t \in Seq(S) /\ \A i \in 1 .. n : t[i] \in S
  BY <1>1 DEF Lists
<1>3. Cardinality(S) = n
  <2>1. S = {t[i] : i \in 1 .. n}
    BY <1>1, <1>2 DEF Lists
  <2>2. n \in 0 .. Len(t)
    BY <1>1
  <2> QED BY <2>1, <2>2, ListedCount
<1>4. ASSUME NEW i \in 1 .. n
      PROVE  Cardinality(Preds(S, R, t[i])) = i - 1
  <2>1. Preds(S, R, t[i]) = {t[j] : j \in 1 .. i - 1}
    BY <1>1, <1>2 DEF Lists, Preds
  <2>2. i - 1 \in 0 .. Len(t)
    BY <1>1
  <2> QED BY <2>1, <2>2, ListedCount
<1>5. ASSUME NEW k \in 1 .. n
      PROVE  (CHOOSE d \in S : Cardinality(Preds(S, R, d)) = k - 1) = t[k]
  <2>1. \A d \in S : Cardinality(Preds(S, R, d)) = k - 1 => d = t[k]
    <3>1. SUFFICES ASSUME NEW d \in S, Cardinality(Preds(S, R, d)) = k - 1 PROVE d = t[k]
      OBVIOUS
    <3>2. PICK i \in 1 .. n : t[i] = d
      BY <1>1 DEF Lists
    <3>3. i - 1 = k - 1
      BY <1>4, <3>1, <3>2
    <3> QED BY <3>2, <3>3
  <2>2. t[k] \in S /\ Cardinality(Preds(S, R, t[k])) = k - 1
    BY <1>2, <1>4
  <2> QED BY <2>1, <2>2
<1>6. Sorted(S, R) = [k \in 1 .. n |-> t[k]]
  BY <1>3, <1>5 DEF Sorted, Preds
<1>7. t = [k \in 1 .. n |-> t[k]]
  BY <1>1, <1>2
<1> QED BY <1>6, <1>7

LEMMA PredsGrow ==
    ASSUME NEW S, IsFiniteSet(S), NEW R, Orders(R, S), NEW d \in S, NEW e \in S, <<d, e>> \in R
    PROVE  Cardinality(Preds(S, R, d)) < Cardinality(Preds(S, R, e))
<1> DEFINE P == Preds(S, R, d)
           Q == Preds(S, R, e)
<1>1. P \in SUBSET S /\ Q \in SUBSET S
  BY DEF Preds
<1>2. d \notin P /\ P \cup {d} \in SUBSET Q
  BY DEF Preds, Orders
<1> HIDE DEF P, Q
<1>3. IsFiniteSet(P) /\ IsFiniteSet(Q)
  BY <1>1, FS_Subset
<1>4. Cardinality(P \cup {d}) = Cardinality(P) + 1
  BY <1>2, <1>3, FS_AddElement
<1>5. Cardinality(P \cup {d}) <= Cardinality(Q)
  BY <1>2, <1>3, FS_Subset
<1>6. Cardinality(P) \in Nat /\ Cardinality(Q) \in Nat
  BY <1>3, FS_CardinalityType
<1>7. Cardinality(P) < Cardinality(Q)
  BY <1>4, <1>5, <1>6
<1> QED BY <1>7 DEF P, Q

LEMMA PredsFew ==
    ASSUME NEW S, IsFiniteSet(S), NEW R, Orders(R, S), NEW d \in S
    PROVE  Cardinality(Preds(S, R, d)) \in 0 .. Cardinality(S) - 1
<1> DEFINE P == Preds(S, R, d)
<1>1. P \in SUBSET (S \ {d})
  BY DEF Preds, Orders
<1> HIDE DEF P
<1>2. IsFiniteSet(S \ {d}) /\ Cardinality(S \ {d}) = Cardinality(S) - 1
  BY FS_RemoveElement
<1>3. Cardinality(P) <= Cardinality(S) - 1 /\ IsFiniteSet(P)
  BY <1>1, <1>2, FS_Subset
<1>4. Cardinality(P) \in Nat /\ Cardinality(S) \in Nat
  BY <1>3, FS_CardinalityType
<1>5. Cardinality(P) \in 0 .. Cardinality(S) - 1
  BY <1>3, <1>4
<1> QED BY <1>5 DEF P

\* Sorting a finite set by a strict total order lists it.
LEMMA SortedLists ==
    ASSUME NEW S, IsFiniteSet(S), NEW R, Orders(R, S)
    PROVE  Lists(Sorted(S, R), S, R)
<1>1. PICK n \in Nat : n = Cardinality(S)
  BY FS_CardinalityType
<1> DEFINE place == [d \in S |-> Cardinality(Preds(S, R, d))]
<1>2. place \in [S -> 0 .. n - 1]
  BY <1>1, PredsFew
<1>3. \A d, e \in S : <<d, e>> \in R => place[d] < place[e]
  BY PredsGrow
<1>4. \A d, e \in S : place[d] < place[e] => <<d, e>> \in R
  <2>1. SUFFICES ASSUME NEW d \in S, NEW e \in S, place[d] < place[e], <<d, e>> \notin R PROVE FALSE
    OBVIOUS
  <2>2. d # e /\ place[d] \in Int /\ place[e] \in Int
    BY <1>2, <2>1
  <2>3. <<e, d>> \in R
    BY <2>1, <2>2 DEF Orders
  <2>4. place[e] < place[d]
    BY <1>3, <2>3
  <2> HIDE DEF place
  <2> QED BY <2>1, <2>2, <2>4
<1>5. \A d, e \in S : place[d] = place[e] => d = e
  <2>1. SUFFICES ASSUME NEW d \in S, NEW e \in S, place[d] = place[e], d # e PROVE FALSE
    OBVIOUS
  <2>2. place[d] \in Int /\ place[e] \in Int
    BY <1>2
  <2>3. place[d] < place[e] \/ place[e] < place[d]
    BY <1>3, <2>1 DEF Orders
  <2> HIDE DEF place
  <2> QED BY <2>1, <2>2, <2>3
<1> HIDE DEF place
<1>6. \A k \in 0 .. n - 1 : \E d \in S : place[d] = k
  <2>1. IsFiniteSet(0 .. n - 1) /\ Cardinality(0 .. n - 1) = n
    <3>1. 0 \in Int /\ n - 1 \in Int
      OBVIOUS
    <3>2. IsFiniteSet(0 .. n - 1) /\ Cardinality(0 .. n - 1) = IF 0 > n - 1 THEN 0 ELSE n - 1 - 0 + 1
      BY <3>1, FS_Interval
    <3> QED BY <3>2
  <2>2. place \in Injection(S, 0 .. n - 1)
    BY <1>2, <1>5 DEF Injection, IsInjective
  <2>3. place \in Surjection(S, 0 .. n - 1)
    BY <1>1, <2>1, <2>2, FS_Injection
  <2> QED BY <2>3 DEF Surjection
<1>7. PICK t : t = Sorted(S, R)
  OBVIOUS
<1> DEFINE chosen(k) == CHOOSE d \in S : Cardinality({e \in S : <<e, d>> \in R}) = k - 1
<1>8. t = [k \in 1 .. n |-> chosen(k)]
  BY <1>1, <1>7 DEF Sorted
<1>9. \A k \in 1 .. n : t[k] \in S /\ place[t[k]] = k - 1
  <2>1. SUFFICES ASSUME NEW k \in 1 .. n PROVE t[k] \in S /\ place[t[k]] = k - 1
    OBVIOUS
  <2>2. k - 1 \in 0 .. n - 1
    OBVIOUS
  <2>3. \E d \in S : Cardinality({e \in S : <<e, d>> \in R}) = k - 1
    BY <1>6, <2>2 DEF place, Preds
  <2>4. t[k] = chosen(k)
    <3> HIDE DEF chosen
    <3> QED BY <1>8
  <2>5. t[k] \in S /\ Cardinality({e \in S : <<e, t[k]>> \in R}) = k - 1
    BY <2>3, <2>4
  <2> QED BY <2>5 DEF place, Preds
<1>10. t \in Seq(S) /\ Len(t) = n
  <2>1. t = [k \in 1 .. n |-> t[k]]
    <3> HIDE DEF chosen
    <3> QED BY <1>8
  <2> QED BY <1>9, <2>1
<1>11. ASSUME NEW d \in S PROVE \E i \in 1 .. n : t[i] = d
  <2>1. PICK i \in 1 .. n : place[d] = i - 1
    <3>1. PICK p \in 0 .. n - 1 : p = place[d]
      BY <1>2
    <3>2. p + 1 \in 1 .. n /\ p = p + 1 - 1
      OBVIOUS
    <3> QED BY <3>1, <3>2
  <2>2. t[i] \in S /\ place[t[i]] = place[d]
    BY <1>9, <2>1
  <2> QED BY <1>5, <2>2
<1>12. ASSUME NEW i \in 1 .. n, NEW j \in 1 .. n PROVE <<t[i], t[j]>> \in R <=> i < j
  <2>1. t[i] \in S /\ t[j] \in S /\ place[t[i]] = i - 1 /\ place[t[j]] = j - 1
    BY <1>9
  <2>2. <<t[i], t[j]>> \in R <=> i - 1 < j - 1
    BY <1>3, <1>4, <2>1
  <2> QED BY <2>2
<1> QED BY <1>7, <1>10, <1>11, <1>12 DEF Lists

\* A slice of a list is the list of what is in it.
LEMMA SliceLists ==
    ASSUME NEW t, NEW S, NEW R, Lists(t, S, R), NEW a \in Nat, NEW b \in Nat, b <= Len(t)
    PROVE  Lists(SubSeq(t, a + 1, b), ToSet(SubSeq(t, a + 1, b)), R)
<1>1. PICK n \in Nat : n = Len(t)
  BY DEF Lists
<1>2. PICK u : u = SubSeq(t, a + 1, b)
  OBVIOUS
<1>3. PICK m \in Nat : (a + 1 <= b /\ m = b - a) \/ (~(a + 1 <= b) /\ m = 0)
  <2>1. a + 1 <= b => b - a \in Nat
    OBVIOUS
  <2> QED BY <2>1
<1>4. t \in Seq(S)
  BY DEF Lists
<1>5. u \in Seq(S) /\ Len(u) = m /\ \A i \in 1 .. m : u[i] = t[a + i] /\ a + i \in 1 .. n
  BY <1>1, <1>2, <1>3, <1>4
<1>6. DOMAIN u = 1 .. m
  BY <1>5
<1>7. ToSet(u) = {u[i] : i \in 1 .. m}
  BY <1>6 DEF ToSet
<1>8. u \in Seq(ToSet(u))
  <2>1. \A i \in 1 .. Len(u) : u[i] \in ToSet(u)
    BY <1>5, <1>7
  <2> QED BY <1>5, <2>1
<1>9. \A i, j \in 1 .. m : <<u[i], u[j]>> \in R <=> i < j
  <2>1. SUFFICES ASSUME NEW i \in 1 .. m, NEW j \in 1 .. m PROVE <<u[i], u[j]>> \in R <=> i < j
    OBVIOUS
  <2>2. u[i] = t[a + i] /\ u[j] = t[a + j] /\ a + i \in 1 .. n /\ a + j \in 1 .. n
    BY <1>5
  <2>3. <<t[a + i], t[a + j]>> \in R <=> a + i < a + j
    BY <1>1, <2>2 DEF Lists
  <2> QED BY <2>2, <2>3
<1>10. Lists(u, ToSet(u), R)
  BY <1>5, <1>7, <1>8, <1>9 DEF Lists
<1> QED BY <1>2, <1>10

-----------------------------------------------------------------------------
(* The columns beside a document.                                          *)

LevelBase(fields) == {<< << >>, MapOf(fields)>>}
LevelStep(fields, n, level) == UNION {Children(m) : m \in level}
Levels == INSTANCE Recursion WITH Base <- LevelBase, Step <- LevelStep

LevelsOf(fields) == Levels!Solution(fields, MaxDepth)

LEMMA NodesByLevel ==
    ASSUME NEW fields
    PROVE  /\ Nodes(fields) = UNION {LevelsOf(fields)[n] : n \in 1 .. MaxDepth}
           /\ LevelsOf(fields)[0] = {<< << >>, MapOf(fields)>>}
           /\ \A n \in 1 .. MaxDepth :
                  LevelsOf(fields)[n] = UNION {Children(m) : m \in LevelsOf(fields)[n - 1]}
<1>1. Nodes(fields) = UNION {LevelsOf(fields)[n] : n \in 1 .. MaxDepth}
  BY DEF Nodes, LevelsOf, Levels!Solution, Levels!Solves, LevelBase, LevelStep
<1>2. /\ LevelsOf(fields)[0] = LevelBase(fields)
      /\ \A n \in 1 .. MaxDepth : LevelsOf(fields)[n] = LevelStep(fields, n, LevelsOf(fields)[n - 1])
  BY DepthAssumption, Levels!StepByStep DEF LevelsOf
<1> QED BY <1>1, <1>2 DEF LevelBase, LevelStep

\* A path that may be empty.
IsRoute(q) == q \in Seq({q[k] : k \in DOMAIN q})

LEMMA RouteNames ==
    ASSUME NEW q, IsRoute(q)
    PROVE  Len(q) \in Nat /\ DOMAIN q = 1 .. Len(q) /\ (Len(q) > 0 => IsPath(q))
<1>1. PICK S : q \in Seq(S)
  BY DEF IsRoute
<1>2. Len(q) > 0 => q # << >>
  BY <1>1
<1> QED BY <1>1, <1>2 DEF IsRoute, IsPath

\* r is q with one more name.
Extended(q, name, r) == r = Append(q, name)

LEMMA LongerRoute ==
    ASSUME NEW q, IsRoute(q), NEW name, NEW r, Extended(q, name, r)
    PROVE  /\ IsRoute(r) /\ Len(r) = Len(q) + 1 /\ SameNames(r, q, Len(q)) /\ r[Len(r)] = name
<1>1. PICK S : q \in Seq(S)
  BY DEF IsRoute
<1>2. q \in Seq(S \cup {name}) /\ r = Append(q, name)
  BY <1>1 DEF Extended
<1>3. r \in Seq(S \cup {name}) /\ Len(r) = Len(q) + 1 /\ Len(q) \in Nat
  BY <1>2
<1>4. (\A i \in 1 .. Len(q) : r[i] = q[i]) /\ r[Len(q) + 1] = name
  BY <1>2
<1>5. r \in Seq({r[k] : k \in DOMAIN r})
  <2>1. DOMAIN r = 1 .. Len(r)
    BY <1>3
  <2>2. PICK T : T = {r[k] : k \in DOMAIN r}
    OBVIOUS
  <2>3. \A i \in 1 .. Len(r) : r[i] \in T
    BY <2>1, <2>2
  <2>4. r \in Seq(T)
    BY <1>3, <2>3
  <2> QED BY <2>2, <2>4
<1> QED BY <1>3, <1>4, <1>5 DEF IsRoute, SameNames

LEMMA ShorterRoute ==
    ASSUME NEW r, IsRoute(r), NEW n \in Nat, Len(r) = n + 1
    PROVE  \E q : /\ IsRoute(q) /\ Len(q) = n /\ SameNames(r, q, n) /\ Extended(q, r[n + 1], r)
<1>1. PICK S : r \in Seq(S)
  BY DEF IsRoute
<1>2. PICK q : q = SubSeq(r, 1, n)
  OBVIOUS
<1>3. q \in Seq(S) /\ Len(q) = n /\ \A i \in 1 .. n : q[i] = r[i]
  BY <1>1, <1>2
<1>4. q \in Seq({q[k] : k \in DOMAIN q})
  <2>1. DOMAIN q = 1 .. n
    BY <1>3
  <2>2. \A i \in 1 .. n : q[i] \in {q[k] : k \in DOMAIN q}
    BY <2>1
  <2> QED BY <1>3, <2>2
<1>5. r = Append(q, r[n + 1])
  <2>1. r[n + 1] \in S
    BY <1>1
  <2>2. PICK t : t = Append(q, r[n + 1])
    OBVIOUS
  <2>3. t \in Seq(S) /\ Len(t) = n + 1 /\ \A i \in 1 .. n + 1 : t[i] = r[i]
    BY <1>3, <2>1, <2>2
  <2>4. t = r
    BY <1>1, <2>3, SeqEqual
  <2> QED BY <2>2, <2>4
<1> QED BY <1>3, <1>4, <1>5 DEF IsRoute, SameNames, Extended

\* The way down along a path is that along the path without its last name, and
\* one step more.
LEMMA NextLevel ==
    ASSUME NEW fields, NEW q, IsRoute(q), NEW n \in Nat, Len(q) = n,
           NEW name, NEW r, Extended(q, name, r),
           NEW down, down = Down(fields, r)
    PROVE  down[n + 1] = Below(Down(fields, q)[n], name)
<1>1. IsRoute(r) /\ Len(r) = n + 1 /\ SameNames(r, q, n) /\ r[n + 1] = name
  BY LongerRoute
<1>2. Len(r) \in Nat /\ Len(q) \in Nat /\ n <= Len(r) /\ n <= Len(q)
  BY <1>1
<1>3. down[n] = Down(fields, q)[n]
  <2>1. \A k \in 0 .. n : Down(fields, r)[k] = Down(fields, q)[k]
    BY <1>1, <1>2, DownAlong
  <2> QED BY <2>1
<1>4. \A k \in 1 .. Len(r) : down[k] = Below(down[k - 1], r[k])
  BY <1>2, DownStepByStep
<1>5. n + 1 \in 1 .. Len(r) /\ n + 1 - 1 = n
  BY <1>1
<1> QED BY <1>1, <1>3, <1>4, <1>5

LEMMA BelowThere ==
    ASSUME NEW v, NEW name
    PROVE  /\ name \in DOMAIN Inner(v) => Below(v, name) = Inner(v)[name]
           /\ Below(v, name) # Missing => name \in DOMAIN Inner(v) /\ v # Missing
<1>1. CASE name \in DOMAIN Inner(v)
  <2>1. IsMap(v)
    <3>1. DOMAIN NoFields = {}
      BY DEF NoFields
    <3> QED BY <1>1, <3>1 DEF Inner
  <2> QED BY <1>1, <2>1, BelowInner DEF IsMap
<1>2. CASE name \notin DOMAIN Inner(v)
  BY <1>2, BelowInner
<1> QED BY <1>1, <1>2

\* The nodes so many names down are what those paths lead to.
LevelRight(fields, level, n) ==
    /\ \A m \in level : \E q : IsRoute(q) /\ Len(q) = n /\ m = <<q, Down(fields, q)[n]>>
    /\ \A q : IsRoute(q) /\ Len(q) = n /\ Down(fields, q)[n] # Missing => <<q, Down(fields, q)[n]>> \in level

LEMMA LevelStepRight ==
    ASSUME NEW fields, NEW n \in Nat, NEW level, LevelRight(fields, level, n),
           NEW next, next = UNION {Children(m) : m \in level}
    PROVE  LevelRight(fields, next, n + 1)
<1>1. ASSUME NEW m \in next
      PROVE  \E r : IsRoute(r) /\ Len(r) = n + 1 /\ m = <<r, Down(fields, r)[n + 1]>>
  <2>1. PICK node \in level : m \in Children(node)
    BY <1>1
  <2>2. PICK q : IsRoute(q) /\ Len(q) = n /\ node = <<q, Down(fields, q)[n]>>
    BY DEF LevelRight
  <2>3. PICK v : v = Down(fields, q)[n]
    OBVIOUS
  <2>4. PICK name \in DOMAIN Inner(v) : m = <<Append(q, name), Inner(v)[name]>>
    BY <2>1, <2>2, <2>3 DEF Children
  <2>5. PICK r : r = Append(q, name) /\ Extended(q, name, r)
    BY DEF Extended
  <2>6. IsRoute(r) /\ Len(r) = n + 1
    BY <2>2, <2>5, LongerRoute
  <2>7. Down(fields, r)[n + 1] = Below(v, name)
    <3>1. PICK down : down = Down(fields, r)
      OBVIOUS
    <3>2. down[n + 1] = Below(Down(fields, q)[n], name)
      BY <2>2, <2>5, <3>1, NextLevel
    <3> QED BY <2>3, <3>1, <3>2
  <2>8. Below(v, name) = Inner(v)[name]
    BY BelowThere
  <2> QED BY <2>4, <2>5, <2>6, <2>7, <2>8
<1>2. ASSUME NEW r, IsRoute(r), Len(r) = n + 1, Down(fields, r)[n + 1] # Missing
      PROVE  <<r, Down(fields, r)[n + 1]>> \in next
  <2>1. PICK q : IsRoute(q) /\ Len(q) = n /\ Extended(q, r[n + 1], r)
    BY <1>2, ShorterRoute
  <2>2. PICK name : name = r[n + 1]
    OBVIOUS
  <2>3. PICK v : v = Down(fields, q)[n]
    OBVIOUS
  <2>4. Down(fields, r)[n + 1] = Below(v, name)
    <3>1. PICK down : down = Down(fields, r)
      OBVIOUS
    <3>2. down[n + 1] = Below(Down(fields, q)[n], name)
      BY <2>1, <2>2, <3>1, NextLevel
    <3> QED BY <2>3, <3>1, <3>2
  <2>5. name \in DOMAIN Inner(v) /\ v # Missing /\ Below(v, name) = Inner(v)[name]
    BY <1>2, <2>4, BelowThere
  <2>6. <<q, v>> \in level
    BY <2>1, <2>3, <2>5 DEF LevelRight
  <2>7. <<r, Down(fields, r)[n + 1]>> \in Children(<<q, v>>)
    BY <2>1, <2>2, <2>4, <2>5 DEF Children, Extended
  <2> QED BY <2>6, <2>7
<1> QED BY <1>1, <1>2 DEF LevelRight

LEMMA LevelsRight ==
    ASSUME Marked, NEW fields
    PROVE  \A n \in 0 .. MaxDepth : LevelRight(fields, LevelsOf(fields)[n], n)
<1>1. PICK level : level = LevelsOf(fields)
  OBVIOUS
<1>2. /\ level[0] = {<< << >>, MapOf(fields)>>}
      /\ \A n \in 1 .. MaxDepth : level[n] = UNION {Children(m) : m \in level[n - 1]}
  BY <1>1, NodesByLevel
<1> DEFINE S == {n \in 0 .. MaxDepth : LevelRight(fields, level[n], n)}
<1>3. 0 \in S
  <2>1. IsRoute(<< >>) /\ Len(<< >>) = 0 /\ Down(fields, << >>)[0] = MapOf(fields)
    <3>1. Len(<< >>) = 0
      OBVIOUS
    <3> QED BY <3>1, DownStepByStep DEF IsRoute
  <2>2. \A q : IsRoute(q) /\ Len(q) = 0 => q = << >>
    <3>1. SUFFICES ASSUME NEW q, IsRoute(q), Len(q) = 0 PROVE q = << >>
      OBVIOUS
    <3>2. PICK T : q \in Seq(T)
      BY <3>1 DEF IsRoute
    <3> QED BY <3>1, <3>2, EmptySeq
  <2>3. LevelRight(fields, level[0], 0)
    BY <1>2, <2>1, <2>2 DEF LevelRight
  <2> QED BY <2>3, DepthAssumption
<1>4. ASSUME NEW n \in 1 .. MaxDepth, n - 1 \in S PROVE n \in S
  <2>1. PICK before \in Nat : before = n - 1
    OBVIOUS
  <2>2. LevelRight(fields, level[before], before) /\ before + 1 = n
    BY <1>4, <2>1
  <2>3. level[n] = UNION {Children(m) : m \in level[before]}
    BY <1>2, <2>1
  <2>4. LevelRight(fields, level[n], before + 1)
    BY <2>2, <2>3, LevelStepRight
  <2> QED BY <2>2, <2>4
<1>5. \A n \in 0 .. MaxDepth : n \in S
  <2> HIDE DEF S
  <2> QED BY <1>3, <1>4, DepthAssumption, Levels!Upward
<1> QED BY <1>1, <1>5

\* The nodes of a document are what its paths lead to, as deep as columns go.
LEMMA NodesAre ==
    ASSUME Marked, NEW fields
    PROVE  /\ \A m \in Nodes(fields) :
                 IsPath(m[1]) /\ Len(m[1]) <= MaxDepth /\ m = <<m[1], GetField(fields, m[1])>>
           /\ \A p : IsPath(p) /\ Len(p) <= MaxDepth /\ GetField(fields, p) # Missing
                        => <<p, GetField(fields, p)>> \in Nodes(fields)
<1>1. PICK level : level = LevelsOf(fields)
  OBVIOUS
<1>2. Nodes(fields) = UNION {level[n] : n \in 1 .. MaxDepth}
  BY <1>1, NodesByLevel
<1>3. \A n \in 1 .. MaxDepth : LevelRight(fields, level[n], n)
  <2>1. \A n \in 1 .. MaxDepth : n \in 0 .. MaxDepth
    OBVIOUS
  <2> QED BY <1>1, <2>1, LevelsRight
<1>4. ASSUME NEW m \in Nodes(fields)
      PROVE  IsPath(m[1]) /\ Len(m[1]) <= MaxDepth /\ m = <<m[1], GetField(fields, m[1])>>
  <2>1. PICK n \in 1 .. MaxDepth : m \in level[n]
    BY <1>2
  <2>2. PICK q : IsRoute(q) /\ Len(q) = n /\ m = <<q, Down(fields, q)[n]>>
    BY <1>3, <2>1 DEF LevelRight
  <2>3. IsPath(q)
    BY <2>2, RouteNames
  <2> QED BY <2>2, <2>3, DepthAssumption DEF GetField
<1>5. ASSUME NEW p, IsPath(p), Len(p) <= MaxDepth, GetField(fields, p) # Missing
      PROVE  <<p, GetField(fields, p)>> \in Nodes(fields)
  <2>1. IsRoute(p)
    BY <1>5 DEF IsPath, IsRoute
  <2>2. PICK n \in 1 .. MaxDepth : n = Len(p)
    <3>1. Len(p) \in Nat \ {0}
      BY <1>5, PathNames
    <3> QED BY <1>5, <3>1, DepthAssumption
  <2>3. <<p, Down(fields, p)[n]>> \in level[n]
    BY <1>3, <1>5, <2>1, <2>2 DEF LevelRight, GetField
  <2> QED BY <1>2, <2>2, <2>3 DEF GetField
<1> QED BY <1>4, <1>5

-----------------------------------------------------------------------------
(* Known values, and the columns of documents made of them.                *)

LEMMA KnownKey ==
    ASSUME NEW v \in Known
    PROVE  /\ KeyOf(v) \in Seq(Nat) /\ KeyOf(v) # << >> /\ KeyOf(v) # Missing /\ v # Missing
           /\ \A k \in DOMAIN Elements(v) : Elements(v)[k] \in Known
BY KeysAssumption

\* Equal keys, equal values, as far as the order goes.
LEMMA KnownOrder ==
    ASSUME NEW v \in Known, NEW w \in Known
    PROVE  /\ Compared(v, w) = CompareBytes(KeyOf(v), KeyOf(w))
           /\ Compared(v, w) \in {-1, 0, 1}
           /\ Compared(v, w) = 0 <=> KeyOf(v) = KeyOf(w)
           /\ Rank(v) = Rank(w) <=> KeyOf(v)[1] = KeyOf(w)[1]
           /\ v.type = "reference" /\ Compared(v, w) = 0 => v = w
<1>1. /\ Compared(v, w) = CompareBytes(KeyOf(v), KeyOf(w))
      /\ Rank(v) = Rank(w) <=> KeyOf(v)[1] = KeyOf(w)[1]
      /\ v.type = "reference" /\ Compared(v, w) = 0 => v = w
  BY KeysAssumption
<1>2. KeyOf(v) \in Seq(Nat) /\ KeyOf(w) \in Seq(Nat)
  BY KnownKey
<1>3. /\ CompareBytes(KeyOf(v), KeyOf(w)) \in {-1, 0, 1}
      /\ CompareBytes(KeyOf(v), KeyOf(w)) = 0 <=> KeyOf(v) = KeyOf(w)
  BY <1>2, BytesReverse
<1> QED BY <1>1, <1>3

LEMMA KnownKinds ==
    ASSUME NEW v \in Known
    PROVE  /\ Null \in Known /\ Number(NaN) \in Known
           /\ IsNull(v) <=> Compared(v, Null) = 0
           /\ IsNaNValue(v) <=> Compared(v, Number(NaN)) = 0
           /\ Rank(v) = Rank(Number(NaN)) => v.type = "number" /\ Compared(v, Number(NaN)) >= 0
BY KeysAssumption

DocKnown(d, fields) ==
    NameOf(d) \in Known /\ \A node \in Nodes(fields) : node[2] \in Known

LEMMA FieldKnown ==
    ASSUME Marked, NEW d, NEW fields, DocKnown(d, fields), NEW p, IsField(p), FieldValue(d, fields, p) # Missing
    PROVE  FieldValue(d, fields, p) \in Known
<1>1. CASE p = NamePath
  BY <1>1 DEF FieldValue, DocKnown
<1>2. CASE p # NamePath
  <2>1. FieldValue(d, fields, p) = GetField(fields, p) /\ IsPath(p) /\ Len(p) <= MaxDepth
    BY <1>2 DEF FieldValue, IsField
  <2>2. <<p, GetField(fields, p)>> \in Nodes(fields)
    BY <2>1, NodesAre
  <2> QED BY <2>1, <2>2 DEF DocKnown
<1> QED BY <1>1, <1>2

\* The column of a field has the key of its value.
LEMMA ColumnIs ==
    ASSUME Marked, NEW d, NEW fields, DocKnown(d, fields), NEW p, IsField(p),
           NEW columns_, columns_[d] = IndexDocument(fields),
           NEW v, v = FieldValue(d, fields, p), NEW key, key = ColumnKey(columns_, d, p)
    PROVE  /\ v = Missing => key = Missing
           /\ v # Missing => key = KeyOf(v)
<1>1. CASE p = NamePath
  BY <1>1, KnownKey DEF FieldValue, ColumnKey, DocKnown
<1>2. CASE p # NamePath
  <2>1. v = GetField(fields, p) /\ IsPath(p) /\ Len(p) <= MaxDepth
    BY <1>2 DEF FieldValue, IsField
  <2>2. PICK nodes : nodes = Nodes(fields)
    OBVIOUS
  <2>3. \A m \in nodes : m[1] = p => m[2] = v /\ v \in Known
    BY <2>1, <2>2, NodesAre DEF DocKnown
  <2>4. v # Missing => <<p, v>> \in nodes
    BY <2>1, <2>2, NodesAre
  <2>5. PICK keys : keys = columns_[d].keys
    OBVIOUS
  <2>6. keys = [q \in {m[1] : m \in nodes} |-> KeyOf((CHOOSE m \in nodes : m[1] = q)[2])]
    BY <2>2, <2>5 DEF IndexDocument, IndexOf
  <2>7. key = IF p \in DOMAIN keys THEN keys[p] ELSE Missing
    BY <1>2, <2>5 DEF ColumnKey
  <2>8. CASE v = Missing
    <3>1. \A m \in nodes : m[1] # p
      BY <2>3, <2>8, KnownKey
    <3>2. p \notin DOMAIN keys
      BY <2>6, <3>1
    <3> QED BY <2>7, <2>8, <3>2
  <2>9. CASE v # Missing
    <3>1. p \in {m[1] : m \in nodes}
      <4>1. <<p, v>> \in nodes /\ <<p, v>>[1] = p
        BY <2>4, <2>9
      <4> QED BY <4>1
    <3>2. PICK m : m = CHOOSE n \in nodes : n[1] = p
      OBVIOUS
    <3>3. m \in nodes /\ m[1] = p
      BY <3>1, <3>2
    <3>4. p \in DOMAIN keys /\ keys[p] = KeyOf(m[2])
      BY <2>6, <3>1, <3>2
    <3> QED BY <2>3, <2>7, <2>9, <3>3, <3>4
  <2> QED BY <2>8, <2>9
<1> QED BY <1>1, <1>2

\* The elements of its array each have theirs.
LEMMA ElementsAre ==
    ASSUME Marked, NEW d, NEW fields, DocKnown(d, fields), NEW p, IsField(p),
           NEW columns_, columns_[d] = IndexDocument(fields),
           NEW v, v = FieldValue(d, fields, p), NEW key
    PROVE  (\E e \in columns_[d].elements : e[1] = p /\ e[2] = key)
             <=> \E k \in DOMAIN Elements(v) : key = KeyOf(Elements(v)[k])
<1>1. PICK nodes : nodes = Nodes(fields)
  OBVIOUS
<1>2. PICK elements : elements = columns_[d].elements
  OBVIOUS
<1>3. elements = UNION {{<<m[1], KeyOf(Elements(m[2])[k])>> : k \in DOMAIN Elements(m[2])} : m \in nodes}
  BY <1>1, <1>2 DEF IndexDocument, IndexOf
<1>4. (\E e \in elements : e[1] = p /\ e[2] = key)
         <=> \E m \in nodes : m[1] = p /\ \E k \in DOMAIN Elements(m[2]) : key = KeyOf(Elements(m[2])[k])
  <2>1. ASSUME NEW e \in elements, e[1] = p, e[2] = key
        PROVE  \E m \in nodes : m[1] = p /\ \E k \in DOMAIN Elements(m[2]) : key = KeyOf(Elements(m[2])[k])
    <3>1. PICK m \in nodes : \E k \in DOMAIN Elements(m[2]) : e = <<m[1], KeyOf(Elements(m[2])[k])>>
      BY <1>3, <2>1
    <3> QED BY <2>1, <3>1
  <2>2. ASSUME NEW m \in nodes, m[1] = p, NEW k \in DOMAIN Elements(m[2]), key = KeyOf(Elements(m[2])[k])
        PROVE  \E e \in elements : e[1] = p /\ e[2] = key
    <3>1. <<p, key>> \in elements
      BY <1>3, <2>2
    <3> QED BY <3>1
  <2> QED BY <2>1, <2>2
<1>5. CASE p = NamePath
  <2>1. Elements(v) = << >>
    BY <1>5 DEF FieldValue, NameOf, Reference, Elements
  <2>2. \A m \in nodes : m[1] # p
    <3>1. ~IsPath(NamePath)
      BY DEF IsPath, NamePath
    <3> QED BY <1>1, <1>5, <3>1, NodesAre
  <2> QED BY <1>2, <1>4, <2>1, <2>2
<1>6. CASE p # NamePath
  <2>1. v = GetField(fields, p) /\ IsPath(p) /\ Len(p) <= MaxDepth
    BY <1>6 DEF FieldValue, IsField
  <2>2. \A m \in nodes : m[1] = p => m[2] = v
    BY <1>1, <2>1, NodesAre
  <2>3. CASE v = Missing
    <3>1. Elements(v) = << >>
      BY <2>3 DEF Elements
    <3>2. \A m \in nodes : m[1] # p
      BY <1>1, <2>2, <2>3, KnownKey DEF DocKnown
    <3> QED BY <1>2, <1>4, <3>1, <3>2
  <2>4. CASE v # Missing
    <3>1. <<p, v>> \in nodes /\ <<p, v>>[1] = p
      BY <1>1, <2>1, <2>4, NodesAre
    <3> QED BY <1>2, <1>4, <2>2, <3>1
  <2> QED BY <2>3, <2>4
<1> QED BY <1>5, <1>6

-----------------------------------------------------------------------------
(* What a clause tells of a value by its key.                              *)

LEMMA FirstByte ==
    ASSUME NEW s \in Seq(Nat), s # << >>, NEW m \in Nat
    PROVE  CompareBytes(s, <<m>>) < 0 <=> s[1] < m
<1>1. <<m>> \in Seq(Nat) /\ Len(<<m>>) = 1 /\ <<m>>[1] = m
  OBVIOUS
<1>2. Len(s) \in Nat /\ Len(s) >= 1 /\ s[1] \in Nat
  OBVIOUS
<1>3. PICK t : t = <<m>>
  OBVIOUS
<1>4. t \in Seq(Nat) /\ Len(t) = 1 /\ t[1] = m
  BY <1>1, <1>3
<1>5. At(s, 1) = s[1] /\ At(t, 1) = m
  BY <1>2, <1>4 DEF At
<1>6. CompareBytes(s, t) \in {-1, 0, 1}
  BY <1>4, BytesReverse
<1>7. ASSUME s[1] < m PROVE CompareBytes(s, t) = -1
  <2>1. SameUpTo(s, t, 1) /\ At(s, 1) < At(t, 1)
    BY <1>5, <1>7 DEF SameUpTo
  <2> QED BY <1>4, <2>1, BytesBefore
<1>8. ASSUME CompareBytes(s, t) = -1 PROVE s[1] < m
  <2>1. PICK k \in Nat \ {0} : SameUpTo(s, t, k) /\ At(s, k) < At(t, k)
    BY <1>4, <1>8, BytesBefore
  <2>2. k = 1
    <3>1. SUFFICES ASSUME k > 1 PROVE FALSE
      OBVIOUS
    <3>2. At(t, k) = -1
      BY <1>4, <3>1 DEF At
    <3>3. At(s, k) >= -1
      BY DEF At
    <3> QED BY <2>1, <3>2, <3>3, AtInt
  <2> QED BY <1>5, <2>1, <2>2
<1>9. CompareBytes(s, t) < 0 <=> CompareBytes(s, t) = -1
  BY <1>6
<1>10. CompareBytes(s, t) < 0 <=> s[1] < m
  BY <1>7, <1>8, <1>9
<1> QED BY <1>3, <1>10

LEMMA FirstBytes ==
    ASSUME NEW s \in Seq(Nat), NEW t \in Seq(Nat), s # << >>, t # << >>, CompareBytes(s, t) = -1
    PROVE  s[1] <= t[1]
<1>1. PICK k \in Nat \ {0} : SameUpTo(s, t, k) /\ At(s, k) < At(t, k)
  BY BytesBefore
<1>2. s[1] \in Nat /\ t[1] \in Nat /\ At(s, 1) = s[1] /\ At(t, 1) = t[1]
  BY DEF At
<1>3. At(s, 1) <= At(t, 1)
  <2>1. CASE k = 1
    BY <1>1, <1>2, <2>1
  <2>2. CASE k > 1
    <3>1. At(s, 1) = At(t, 1)
      BY <1>1, <2>2 DEF SameUpTo
    <3> QED BY <1>2, <3>1
  <2> QED BY <2>1, <2>2
<1> QED BY <1>2, <1>3

LEMMA KnownFirst ==
    ASSUME NEW v \in Known, NEW w \in Known
    PROVE  /\ KeyOf(v)[1] \in Nat /\ KeyOf(w)[1] \in Nat
           /\ Compared(v, w) = -1 => KeyOf(v)[1] <= KeyOf(w)[1]
           /\ Compared(v, w) = 1 => KeyOf(v)[1] >= KeyOf(w)[1]
<1>1. PICK s \in Seq(Nat), t \in Seq(Nat) : s = KeyOf(v) /\ t = KeyOf(w) /\ s # << >> /\ t # << >>
  BY KnownKey
<1>2. s[1] \in Nat /\ t[1] \in Nat
  BY <1>1
<1>3. CompareBytes(s, t) = -1 => s[1] <= t[1]
  BY <1>1, FirstBytes
<1>4. CompareBytes(s, t) = 1 => s[1] >= t[1]
  <2>1. SUFFICES ASSUME CompareBytes(s, t) = 1 PROVE s[1] >= t[1]
    OBVIOUS
  <2>2. CompareBytes(t, s) = -1
    BY <2>1, BytesReverse
  <2> QED BY <1>1, <1>2, <2>2, FirstBytes
<1> QED BY <1>1, <1>2, <1>3, <1>4, KnownOrder

LEMMA KnownReverse ==
    ASSUME NEW v \in Known, NEW w \in Known
    PROVE  Compared(v, w) = 1 <=> Compared(w, v) = -1
<1>1. PICK c \in {-1, 0, 1} : c = Compared(v, w)
  BY KnownOrder
<1>2. Compared(w, v) = -c
  <2>1. /\ Compared(v, w) = CompareBytes(KeyOf(v), KeyOf(w))
        /\ Compared(w, v) = CompareBytes(KeyOf(w), KeyOf(v))
    BY KnownOrder
  <2> QED BY <1>1, <2>1, KnownKey, BytesReverse
<1> QED BY <1>1, <1>2

LEMMA NaNRank ==
    ASSUME NEW v \in Known
    PROVE  /\ IsNaNValue(v) => v.type = "number"
           /\ v.type = "number" <=> Rank(v) = Rank(Number(NaN))
           /\ IsNull(v) => Rank(v) # Rank(Number(NaN))
<1>1. Rank(Number(NaN)) = 3
  BY DEF Rank, Number
<1>2. v.type = "number" => Rank(v) = 3
  BY DEF Rank
<1>3. IsNull(v) => Rank(v) = 0
  BY DEF IsNull, Rank
<1>4. Rank(v) = Rank(Number(NaN)) => v.type = "number"
  BY KnownKinds
<1> QED BY <1>1, <1>2, <1>3, <1>4 DEF IsNaNValue, IsNumber

\* NaN is before every other number.
LEMMA NaNFirst ==
    ASSUME NEW v \in Known, NEW w \in Known, IsNaNValue(v), ~IsNaNValue(w), Rank(v) = Rank(w)
    PROVE  Compared(v, w) = -1
<1>1. PICK nan \in Known : nan = Number(NaN)
  BY KnownKinds
<1>2. Rank(w) = Rank(nan)
  BY <1>1, NaNRank
<1>3. Compared(w, nan) >= 0 /\ Compared(w, nan) # 0
  BY <1>1, <1>2, KnownKinds
<1>4. Compared(w, nan) = 1
  BY <1>3, KnownOrder
<1>5. Compared(nan, w) = -1
  BY <1>4, KnownReverse
<1>6. KeyOf(v) = KeyOf(nan)
  BY <1>1, KnownKinds, KnownOrder
<1> QED BY <1>5, <1>6, KnownOrder

LEMMA EqTells ==
    ASSUME NEW v \in Known, NEW w \in Known, Matchable(w)
    PROVE  QueryEq(v, w) <=> KeyOf(v) = KeyOf(w)
<1>1. ~IsNull(w) /\ ~IsNaNValue(w)
  BY DEF Matchable
<1>2. ASSUME KeyOf(v) = KeyOf(w)
      PROVE  Compared(v, w) = 0 /\ Rank(v) = Rank(w) /\ ~IsNaNValue(v)
  <2>1. Compared(v, w) = 0 /\ Rank(v) = Rank(w)
    BY <1>2, KnownOrder
  <2>2. ~IsNaNValue(v)
    BY <1>1, <2>1, NaNFirst
  <2> QED BY <2>1, <2>2
<1>3. Compared(v, w) = 0 => KeyOf(v) = KeyOf(w)
  BY KnownOrder
<1> QED BY <1>1, <1>2, <1>3 DEF QueryEq

LEMMA AnyTells ==
    ASSUME NEW v \in Known, NEW operand \in Known
    PROVE  AnyEq(v, Elements(operand)) <=> KeyOf(v) \in KeySet(operand)
<1>1. PICK values : values = Elements(operand)
  OBVIOUS
<1>2. \A k \in DOMAIN values : values[k] \in Known
  BY <1>1, KnownKey
<1>3. KeySet(operand) = {KeyOf(w) : w \in {u \in {values[k] : k \in DOMAIN values} : Matchable(u)}}
  BY <1>1 DEF KeySet, ToSet
<1>4. KeyOf(v) \in KeySet(operand)
         <=> \E k \in DOMAIN values : Matchable(values[k]) /\ KeyOf(v) = KeyOf(values[k])
  BY <1>3
<1>5. AnyEq(v, values) <=> \E k \in DOMAIN values : QueryEq(v, values[k])
  BY DEF AnyEq
<1>6. \A k \in DOMAIN values :
          QueryEq(v, values[k]) <=> Matchable(values[k]) /\ KeyOf(v) = KeyOf(values[k])
  <2>1. SUFFICES ASSUME NEW k \in DOMAIN values
                 PROVE  QueryEq(v, values[k]) <=> Matchable(values[k]) /\ KeyOf(v) = KeyOf(values[k])
    OBVIOUS
  <2>2. PICK w \in Known : w = values[k]
    BY <1>2
  <2>3. QueryEq(v, w) => Matchable(w)
    BY DEF QueryEq, Matchable
  <2> QED BY <2>2, <2>3, EqTells
<1> QED BY <1>1, <1>4, <1>5, <1>6

RangeOps == {"<", "<=", ">", ">="}

SignsOf(op) ==
    CASE op = "<" -> {-1} [] op = "<=" -> {-1, 0} [] op = ">" -> {1} [] op = ">=" -> {0, 1}

\* What the one side, and the other side, of a range ask.
Side(op, c) ==
    \/ op = "<" /\ c < 0
    \/ op = "<=" /\ c <= 0
    \/ op = ">" /\ c > 0
    \/ op = ">=" /\ c >= 0

LEMMA CmpTells ==
    ASSUME NEW op \in RangeOps, NEW bound, NEW key
    PROVE  KeyPasses(key, {Cmp(op, bound)}) <=> Side(op, CompareBytes(key, bound))
<1>1. PICK test : test = Cmp(op, bound)
  OBVIOUS
<1>2. test.is = op /\ test.key = bound
  BY <1>1 DEF Cmp
<1>3. KeyIs(key, test) <=> Side(op, CompareBytes(key, bound))
  BY <1>2 DEF KeyIs, Side, RangeOps
<1> QED BY <1>1, <1>3 DEF KeyPasses

LEMMA BothTell ==
    ASSUME NEW first, NEW second, NEW key, NEW both, both = {first, second}
    PROVE  KeyPasses(key, both) <=> KeyPasses(key, {first}) /\ KeyPasses(key, {second})
BY DEF KeyPasses

\* A range within the type of its operand, by keys and by values.
LEMMA RangeTells ==
    ASSUME NEW v \in Known, NEW w \in Known, Matchable(w), NEW op \in RangeOps, NEW path
    PROVE  KeyPasses(KeyOf(v), TypedRange(path, op, w, KeyOf(w)).condition) <=> Inequality(v, w, SignsOf(op))
<1>1. PICK s \in Seq(Nat), t \in Seq(Nat) : s = KeyOf(v) /\ t = KeyOf(w) /\ s # << >> /\ t # << >>
  BY KnownKey
<1>2. PICK c \in {-1, 0, 1} : c = Compared(v, w) /\ c = CompareBytes(s, t) /\ (c = 0 <=> s = t)
  BY <1>1, KnownOrder
<1>3. PICK m \in Nat, n \in Nat : m = s[1] /\ n = t[1]
  BY <1>1
<1>4. (Rank(v) = Rank(w) <=> m = n) /\ (c = -1 => m <= n) /\ (c = 1 => m >= n) /\ (c = 0 => m = n)
  BY <1>1, <1>2, <1>3, KnownOrder, KnownFirst
<1>5. ~IsNull(w) /\ ~IsNaNValue(w)
  BY DEF Matchable
<1>6. PICK nan \in Known : nan = Number(NaN)
  BY KnownKinds
<1>7. Inequality(v, w, SignsOf(op)) <=> ~IsNaNValue(v) /\ m = n /\ Side(op, c)
  <2>1. c \in SignsOf(op) <=> Side(op, c)
    BY <1>2 DEF SignsOf, Side, RangeOps
  <2> QED BY <1>2, <1>4, <1>5, <2>1 DEF Inequality
<1>8. KeyPasses(s, {Cmp(op, t)}) <=> Side(op, c)
  BY <1>2, CmpTells
<1>9. m = n /\ IsNaNValue(v) => c = -1
  BY <1>2, <1>4, <1>5, NaNFirst
<1>10. CASE op \in {">", ">="}
  <2>1. KeyPasses(s, {Cmp("<", <<n + 1>>)}) <=> m < n + 1
    <3>1. KeyPasses(s, {Cmp("<", <<n + 1>>)}) <=> CompareBytes(s, <<n + 1>>) < 0
      BY CmpTells DEF Side, RangeOps
    <3>2. CompareBytes(s, <<n + 1>>) < 0 <=> s[1] < n + 1
      BY <1>1, FirstByte
    <3> QED BY <1>3, <3>1, <3>2
  <2>2. TypedRange(path, op, w, t).condition = {Cmp(op, t), Cmp("<", <<n + 1>>)}
    BY <1>3, <1>10 DEF TypedRange, OnValue
  <2>3. KeyPasses(s, TypedRange(path, op, w, t).condition) <=> Side(op, c) /\ m < n + 1
    <3>1. PICK both, first, second :
              /\ both = {first, second} /\ first = Cmp(op, t) /\ second = Cmp("<", <<n + 1>>)
      OBVIOUS
    <3>2. KeyPasses(s, both) <=> KeyPasses(s, {first}) /\ KeyPasses(s, {second})
      BY <3>1, BothTell
    <3> QED BY <1>8, <2>1, <2>2, <3>1, <3>2
  <2>4. Side(op, c) => c # -1
    BY <1>10 DEF Side
  <2>5. Side(op, c) /\ m < n + 1 <=> ~IsNaNValue(v) /\ m = n /\ Side(op, c)
    BY <1>2, <1>4, <1>9, <2>4
  <2> QED BY <1>1, <1>7, <2>3, <2>5
<1>11. CASE op \in {"<", "<="} /\ w.type = "number"
  <2>1. KeyPasses(s, {Cmp(">", KeyOf(nan))}) <=> Compared(v, nan) > 0
    BY <1>1, KnownOrder, CmpTells DEF Side, RangeOps
  <2>2. TypedRange(path, op, w, t).condition = {Cmp(op, t), Cmp(">", KeyOf(nan))}
    BY <1>6, <1>11 DEF TypedRange, OnValue
  <2>3. KeyPasses(s, TypedRange(path, op, w, t).condition) <=> Side(op, c) /\ Compared(v, nan) > 0
    BY <1>8, <2>1, <2>2, BothTell
  <2>4. Rank(w) = Rank(nan)
    BY <1>6, <1>11, NaNRank
  <2>5. Side(op, c) => c # 1
    BY <1>11 DEF Side
  <2>6. ASSUME Compared(v, nan) > 0, c # 1 PROVE m = n /\ ~IsNaNValue(v)
    <3>1. Compared(v, nan) = 1
      BY <2>6, KnownOrder
    <3>2. KeyOf(v)[1] >= KeyOf(nan)[1]
      BY <3>1, KnownFirst
    <3>3. KeyOf(nan)[1] = n
      BY <1>1, <1>3, <2>4, KnownOrder
    <3>4. m >= n
      BY <1>1, <1>3, <3>2, <3>3
    <3>5. m = n
      BY <1>2, <1>4, <2>6, <3>4
    <3>6. ~IsNaNValue(v)
      BY <1>6, <3>1, KnownKinds
    <3> QED BY <3>5, <3>6
  <2>7. ASSUME m = n, ~IsNaNValue(v) PROVE Compared(v, nan) > 0
    <3>1. Rank(v) = Rank(nan)
      BY <1>4, <2>4, <2>7
    <3>2. Compared(v, nan) >= 0 /\ Compared(v, nan) # 0
      BY <1>6, <2>7, <3>1, KnownKinds
    <3> QED BY <3>2, KnownOrder
  <2>8. Side(op, c) /\ Compared(v, nan) > 0 <=> ~IsNaNValue(v) /\ m = n /\ Side(op, c)
    BY <2>5, <2>6, <2>7
  <2> QED BY <1>1, <1>7, <2>3, <2>8
<1>12. CASE op \in {"<", "<="} /\ w.type # "number"
  <2>1. KeyPasses(s, {Cmp(">=", <<n>>)}) <=> m >= n
    <3>1. KeyPasses(s, {Cmp(">=", <<n>>)}) <=> CompareBytes(s, <<n>>) >= 0
      BY CmpTells DEF Side, RangeOps
    <3>2. CompareBytes(s, <<n>>) < 0 <=> s[1] < n
      BY <1>1, FirstByte
    <3>3. CompareBytes(s, <<n>>) \in {-1, 0, 1}
      <4>1. <<n>> \in Seq(Nat)
        OBVIOUS
      <4> QED BY <4>1, BytesReverse
    <3> QED BY <1>3, <3>1, <3>2, <3>3
  <2>2. TypedRange(path, op, w, t).condition = {Cmp(op, t), Cmp(">=", <<n>>)}
    BY <1>3, <1>12 DEF TypedRange, OnValue
  <2>3. KeyPasses(s, TypedRange(path, op, w, t).condition) <=> Side(op, c) /\ m >= n
    BY <1>8, <2>1, <2>2, BothTell
  <2>4. Side(op, c) => c # 1
    BY <1>12 DEF Side
  <2>5. m = n => ~IsNaNValue(v)
    BY <1>4, <1>12, NaNRank
  <2>6. Side(op, c) /\ m >= n <=> ~IsNaNValue(v) /\ m = n /\ Side(op, c)
    BY <1>2, <1>4, <2>4, <2>5
  <2> QED BY <1>1, <1>7, <2>3, <2>6
<1> QED BY <1>10, <1>11, <1>12 DEF RangeOps

-----------------------------------------------------------------------------
(* Clauses.                                                                *)

\* A document of known values, with its columns beside it.
Mirrored(columns_, d, fields) == DocKnown(d, fields) /\ columns_[d] = IndexDocument(fields)

LEMMA AllAfterNone ==
    ASSUME NEW s \in Seq(Nat)
    PROVE  CompareBytes(s, << >>) >= 0
<1>1. PICK none \in Seq(Nat) : none = << >>
  <2>1. << >> \in Seq(Nat)
    OBVIOUS
  <2> QED BY <2>1
<1>2. CompareBytes(s, none) # -1
  <2>1. SUFFICES ASSUME CompareBytes(s, none) = -1 PROVE FALSE
    OBVIOUS
  <2>2. PICK k \in Nat \ {0} : At(s, k) < At(none, k)
    BY <2>1, BytesBefore
  <2>3. At(none, k) = -1
    BY <1>1 DEF At
  <2>4. At(s, k) >= -1
    BY DEF At
  <2> QED BY <2>2, <2>3, <2>4, AtInt
<1>3. CompareBytes(s, none) \in {-1, 0, 1}
  BY BytesReverse
<1>4. CompareBytes(s, none) >= 0
  BY <1>2, <1>3
<1> QED BY <1>1, <1>4

LEMMA ValueTells ==
    ASSUME Marked, NEW d, NEW fields, NEW columns_, Mirrored(columns_, d, fields),
           NEW p, IsField(p), NEW v, v = FieldValue(d, fields, p), NEW condition
    PROVE  Passes(OnValue(p, condition), columns_, d) <=> v # Missing /\ KeyPasses(KeyOf(v), condition)
<1>1. PICK clause : clause = OnValue(p, condition)
  OBVIOUS
<1>2. clause.on = "value" /\ clause.path = p /\ clause.condition = condition
  BY <1>1 DEF OnValue
<1>3. PICK key : key = ColumnKey(columns_, d, p)
  OBVIOUS
<1>4. Passes(clause, columns_, d) <=> key # Missing /\ KeyPasses(key, condition)
  BY <1>2, <1>3 DEF Passes, PassesSimple
<1>5. DocKnown(d, fields) /\ columns_[d] = IndexDocument(fields)
  BY DEF Mirrored
<1>6. /\ v = Missing => key = Missing
      /\ v # Missing => key = KeyOf(v)
  BY <1>3, <1>5, ColumnIs
<1>7. v # Missing => KeyOf(v) # Missing
  BY <1>5, FieldKnown, KnownKey
<1> QED BY <1>1, <1>4, <1>6, <1>7

LEMMA ExistsTells ==
    ASSUME Marked, NEW d, NEW fields, NEW columns_, Mirrored(columns_, d, fields),
           NEW p, IsField(p), NEW v, v = FieldValue(d, fields, p)
    PROVE  Passes(Exists(p), columns_, d) <=> v # Missing
<1>1. PICK condition : condition = {Cmp(">=", << >>)}
  OBVIOUS
<1>2. Passes(OnValue(p, condition), columns_, d) <=> v # Missing /\ KeyPasses(KeyOf(v), condition)
  BY ValueTells
<1>3. ASSUME v # Missing PROVE KeyPasses(KeyOf(v), condition)
  <2>1. v \in Known
    BY <1>3, FieldKnown DEF Mirrored
  <2>2. CompareBytes(KeyOf(v), << >>) >= 0
    BY <2>1, KnownKey, AllAfterNone
  <2> QED BY <1>1, <2>2, CmpTells DEF Side, RangeOps
<1> QED BY <1>1, <1>2, <1>3 DEF Exists

LEMMA InTells ==
    ASSUME NEW key, NEW keys
    PROVE  KeyPasses(key, In(keys)) <=> key \in keys
<1>1. PICK test : test = [is |-> "in", keys |-> keys]
  OBVIOUS
<1>2. test.is = "in" /\ test.keys = keys
  BY <1>1
<1>3. KeyIs(key, test) <=> key \in keys
  BY <1>2 DEF KeyIs
<1> QED BY <1>1, <1>3 DEF KeyPasses, In

LEMMA ElementTells ==
    ASSUME Marked, NEW d, NEW fields, NEW columns_, Mirrored(columns_, d, fields),
           NEW p, IsField(p), NEW v, v = FieldValue(d, fields, p), NEW keys
    PROVE  Passes(OnElement(p, In(keys)), columns_, d)
             <=> \E k \in DOMAIN Elements(v) : KeyOf(Elements(v)[k]) \in keys
<1>1. PICK condition : condition = In(keys)
  OBVIOUS
<1>2. PICK clause : clause = OnElement(p, condition)
  OBVIOUS
<1>3. clause.on = "element" /\ clause.path = p /\ clause.condition = condition
  BY <1>2 DEF OnElement
<1>4. PICK elements : elements = columns_[d].elements
  OBVIOUS
<1>5. Passes(clause, columns_, d) <=> \E e \in elements : e[1] = p /\ e[2] \in keys
  <2>1. \A key : KeyPasses(key, condition) <=> key \in keys
    BY <1>1, InTells
  <2> QED BY <1>3, <1>4, <2>1 DEF Passes, PassesSimple
<1>6. \A key : (\E e \in elements : e[1] = p /\ e[2] = key)
                  <=> \E k \in DOMAIN Elements(v) : key = KeyOf(Elements(v)[k])
  BY <1>4, ElementsAre DEF Mirrored
<1> QED BY <1>1, <1>2, <1>5, <1>6

\* A filter keeps no document that its clause leaves out, and one with an exact
\* clause keeps those that pass.
FilterTold(f, v, columns_, d) ==
    /\ Matches(f, v) => Passes(ClauseFor(f), columns_, d)
    /\ ExactClause(f) /\ Passes(ClauseFor(f), columns_, d) => Matches(f, v)

LEMMA ClauseTells ==
    ASSUME Marked, NEW d, NEW fields, NEW columns_, Mirrored(columns_, d, fields),
           NEW f, IsFilter(f), ~NoClause(f), NEW v, v = FieldValue(d, fields, f.path)
    PROVE  FilterTold(f, v, columns_, d)
<1>1. PICK p, w, op :
          /\ p = f.path /\ w = f.operand /\ op = f.op
          /\ IsField(p) /\ w \in Known /\ op \in FilterOps
  BY DEF IsFilter
<1>2. v # Missing => v \in Known
  BY <1>1, FieldKnown DEF Mirrored
<1>3. CASE ~ExactClause(f)
  <2>1. ClauseFor(f) = Exists(p)
    BY <1>1, <1>3 DEF ClauseFor, ExactClause
  <2>2. Matches(f, v) => v # Missing
    BY DEF Matches
  <2> QED BY <1>1, <1>3, <2>1, <2>2, ExistsTells DEF FilterTold
<1>4. CASE op = "=="
  <2>1. ClauseFor(f) = OnValue(p, In({KeyOf(w)})) /\ (Matches(f, v) <=> v # Missing /\ QueryEq(v, w))
    BY <1>1, <1>4 DEF ClauseFor, Matches, ExactClause
  <2>2. Passes(OnValue(p, In({KeyOf(w)})), columns_, d) <=> v # Missing /\ KeyPasses(KeyOf(v), In({KeyOf(w)}))
    BY <1>1, ValueTells
  <2>3. KeyPasses(KeyOf(v), In({KeyOf(w)})) <=> KeyOf(v) = KeyOf(w)
    BY InTells
  <2>4. v # Missing => (QueryEq(v, w) <=> KeyOf(v) = KeyOf(w))
    BY <1>1, <1>2, <1>4, EqTells DEF NoClause
  <2> QED BY <2>1, <2>2, <2>3, <2>4 DEF FilterTold
<1>5. CASE op \in RangeOps
  <2>1. PICK condition : condition = TypedRange(p, op, w, KeyOf(w)).condition
    OBVIOUS
  <2>2. TypedRange(p, op, w, KeyOf(w)) = OnValue(p, condition)
    BY <2>1 DEF TypedRange, OnValue
  <2>3. ClauseFor(f) = OnValue(p, condition)
    BY <1>1, <1>5, <2>2 DEF ClauseFor, ExactClause, RangeOps
  <2>4. Matches(f, v) <=> v # Missing /\ Inequality(v, w, SignsOf(op))
    BY <1>1, <1>5 DEF Matches, SignsOf, RangeOps
  <2>5. Passes(OnValue(p, condition), columns_, d) <=> v # Missing /\ KeyPasses(KeyOf(v), condition)
    BY <1>1, ValueTells
  <2>6. v # Missing => (KeyPasses(KeyOf(v), condition) <=> Inequality(v, w, SignsOf(op)))
    <3>1. Matchable(w)
      BY <1>1, <1>5 DEF NoClause, RangeOps
    <3> QED BY <1>1, <1>2, <1>5, <2>1, <3>1, RangeTells
  <2> QED BY <2>3, <2>4, <2>5, <2>6 DEF FilterTold
<1>6. CASE op = "array-contains"
  <2>1. /\ ClauseFor(f) = OnElement(p, In({KeyOf(w)}))
        /\ Matches(f, v) <=> v # Missing /\ \E k \in DOMAIN Elements(v) : QueryEq(Elements(v)[k], w)
    BY <1>1, <1>6 DEF ClauseFor, Matches, ExactClause
  <2>2. Passes(OnElement(p, In({KeyOf(w)})), columns_, d)
          <=> \E k \in DOMAIN Elements(v) : KeyOf(Elements(v)[k]) \in {KeyOf(w)}
    BY <1>1, ElementTells
  <2>3. \A k \in DOMAIN Elements(v) :
            v # Missing => (QueryEq(Elements(v)[k], w) <=> KeyOf(Elements(v)[k]) = KeyOf(w))
    <3>1. SUFFICES ASSUME NEW k \in DOMAIN Elements(v), v # Missing
                   PROVE  QueryEq(Elements(v)[k], w) <=> KeyOf(Elements(v)[k]) = KeyOf(w)
      OBVIOUS
    <3>2. Elements(v)[k] \in Known
      BY <1>2, <3>1, KnownKey
    <3>3. Matchable(w)
      BY <1>1, <1>6 DEF NoClause
    <3> QED BY <1>1, <3>2, <3>3, EqTells
  <2>4. Elements(Missing) = << >>
    BY DEF Elements
  <2> QED BY <2>1, <2>2, <2>3, <2>4 DEF FilterTold
<1>7. CASE op = "array-contains-any"
  <2>1. /\ ClauseFor(f) = OnElement(p, In(KeySet(w)))
        /\ Matches(f, v) <=> v # Missing /\ \E k \in DOMAIN Elements(v) : AnyEq(Elements(v)[k], Elements(w))
    BY <1>1, <1>7 DEF ClauseFor, Matches, ExactClause
  <2>2. Passes(OnElement(p, In(KeySet(w))), columns_, d)
          <=> \E k \in DOMAIN Elements(v) : KeyOf(Elements(v)[k]) \in KeySet(w)
    BY <1>1, ElementTells
  <2>3. \A k \in DOMAIN Elements(v) :
            v # Missing => (AnyEq(Elements(v)[k], Elements(w)) <=> KeyOf(Elements(v)[k]) \in KeySet(w))
    BY <1>1, <1>2, KnownKey, AnyTells
  <2>4. Elements(Missing) = << >>
    BY DEF Elements
  <2> QED BY <2>1, <2>2, <2>3, <2>4 DEF FilterTold
<1>8. CASE op = "in"
  <2>1. ClauseFor(f) = OnValue(p, In(KeySet(w))) /\ (Matches(f, v) <=> v # Missing /\ AnyEq(v, Elements(w)))
    BY <1>1, <1>8 DEF ClauseFor, Matches, ExactClause
  <2>2. Passes(OnValue(p, In(KeySet(w))), columns_, d) <=> v # Missing /\ KeyPasses(KeyOf(v), In(KeySet(w)))
    BY <1>1, ValueTells
  <2>3. KeyPasses(KeyOf(v), In(KeySet(w))) <=> KeyOf(v) \in KeySet(w)
    BY InTells
  <2> QED BY <1>1, <1>2, <2>1, <2>2, <2>3, AnyTells DEF FilterTold
<1>9. CASE op \in {"is-null", "is-nan"}
  <2>1. PICK u \in Known : /\ op = "is-null" => u = Null
                           /\ op = "is-nan" => u = Number(NaN)
    <3>1. Null \in Known /\ Number(NaN) \in Known
      BY <1>1, KnownKinds
    <3> QED BY <1>9, <3>1
  <2>2. ClauseFor(f) = OnValue(p, In({KeyOf(u)}))
    BY <1>1, <1>9, <2>1 DEF ClauseFor, ExactClause
  <2>3. Passes(OnValue(p, In({KeyOf(u)})), columns_, d) <=> v # Missing /\ KeyPasses(KeyOf(v), In({KeyOf(u)}))
    BY <1>1, ValueTells
  <2>4. KeyPasses(KeyOf(v), In({KeyOf(u)})) <=> KeyOf(v) = KeyOf(u)
    BY InTells
  <2>5. v # Missing => (KeyOf(v) = KeyOf(u) <=> Compared(v, u) = 0)
    BY <1>2, KnownOrder
  <2>6. Matches(f, v) <=> v # Missing /\ Compared(v, u) = 0
    <3>1. Matches(f, v) <=> v # Missing /\ (IF op = "is-null" THEN IsNull(v) ELSE IsNaNValue(v))
      BY <1>1, <1>9 DEF Matches
    <3> QED BY <1>2, <1>9, <2>1, <3>1, KnownKinds
  <2> QED BY <2>2, <2>3, <2>4, <2>5, <2>6 DEF FilterTold
<1> QED BY <1>1, <1>3, <1>4, <1>5, <1>6, <1>7, <1>8, <1>9 DEF FilterOps, ExactClause, RangeOps

-----------------------------------------------------------------------------
(* Cursors.                                                                *)

\* What a value of a cursor asks of a comparison.
Bounded(c, sign, orEqual) == c = sign \/ (orEqual /\ c = 0)

Signs(n, cs) == cs \in [1 .. n -> {-1, 0, 1}]

SomeBranch(n, cs, sign, inclusive) ==
    \E k \in 1 .. n :
        /\ \A j \in 1 .. k - 1 : cs[j] = 0
        /\ cs[k] = sign \/ (k = n /\ inclusive /\ cs[k] = 0)

LEMMA OneBranch ==
    ASSUME NEW n \in Nat, n > 0, NEW cs, Signs(n, cs), NEW sign \in {-1, 1}, NEW inclusive \in BOOLEAN
    PROVE  /\ FirstNonZero(cs) \in {-1, 0, 1}
           /\ SomeBranch(n, cs, sign, inclusive) <=> Bounded(FirstNonZero(cs), sign, inclusive)
<1>0. SUFFICES ASSUME cs \in [1 .. n -> {-1, 0, 1}]
               PROVE  /\ FirstNonZero(cs) \in {-1, 0, 1}
                      /\ (\E k \in 1 .. n : /\ \A j \in 1 .. k - 1 : cs[j] = 0
                                            /\ cs[k] = sign \/ (k = n /\ inclusive /\ cs[k] = 0))
                           <=> FirstNonZero(cs) = sign \/ (inclusive /\ FirstNonZero(cs) = 0)
  BY DEF Signs, SomeBranch, Bounded
<1>1. CASE FirstNonZero(cs) = 0 /\ \A k \in 1 .. n : cs[k] = 0
  <2>1. n \in 1 .. n /\ \A j \in 1 .. n - 1 : cs[j] = 0
    BY <1>1
  <2>2. \A k \in 1 .. n : cs[k] # sign
    BY <1>1
  <2> QED BY <1>1, <2>1, <2>2
<1>2. ASSUME NEW m \in 1 .. n, cs[m] # 0, FirstNonZero(cs) = cs[m], \A j \in 1 .. m - 1 : cs[j] = 0
      PROVE  /\ FirstNonZero(cs) \in {-1, 0, 1}
             /\ (\E k \in 1 .. n : /\ \A j \in 1 .. k - 1 : cs[j] = 0
                                   /\ cs[k] = sign \/ (k = n /\ inclusive /\ cs[k] = 0))
                  <=> FirstNonZero(cs) = sign \/ (inclusive /\ FirstNonZero(cs) = 0)
  <2>1. cs[m] \in {-1, 0, 1}
    BY <1>0
  <2>2. ASSUME NEW k \in 1 .. n, \A j \in 1 .. k - 1 : cs[j] = 0,
               cs[k] = sign \/ (k = n /\ inclusive /\ cs[k] = 0)
        PROVE  cs[m] = sign
    <3>1. k <= m
      BY <1>2, <2>2
    <3>2. k < m => cs[k] = 0
      BY <1>2
    <3>3. k = m
      BY <1>2, <2>2, <3>1, <3>2
    <3> QED BY <1>2, <2>2, <3>3
  <2> QED BY <1>2, <2>1, <2>2
<1> QED BY <1>0, <1>1, <1>2, FirstNonZeroIs

LEMMA BoundTells ==
    ASSUME NEW x \in {-1, 0, 1}, NEW up \in BOOLEAN, NEW after \in BOOLEAN, NEW orEqual \in BOOLEAN,
           NEW op, op = IF orEqual THEN (IF after = up THEN ">=" ELSE "<=") ELSE (IF after = up THEN ">" ELSE "<"),
           NEW sign, sign = IF after THEN 1 ELSE -1
    PROVE  Side(op, x) <=> Bounded(Turned(up, x), sign, orEqual)
<1>1. CASE after = up
  <2>1. Side(op, x) <=> x > 0 \/ (orEqual /\ x = 0)
    BY <1>1 DEF Side
  <2>2. CASE up
    BY <1>1, <2>1, <2>2 DEF Turned, Bounded
  <2>3. CASE ~up
    <3>1. Turned(up, x) = -x /\ sign = -1
      BY <1>1, <2>3 DEF Turned
    <3>2. (-x = -1 <=> x > 0) /\ (-x = 0 <=> x = 0)
      OBVIOUS
    <3> QED BY <2>1, <3>1, <3>2 DEF Bounded
  <2> QED BY <2>2, <2>3
<1>2. CASE after # up
  <2>1. Side(op, x) <=> x < 0 \/ (orEqual /\ x = 0)
    BY <1>2 DEF Side
  <2>2. CASE up
    <3>1. Turned(up, x) = x /\ sign = -1
      BY <1>2, <2>2 DEF Turned
    <3>2. x = -1 <=> x < 0
      OBVIOUS
    <3> QED BY <2>1, <3>1, <3>2 DEF Bounded
  <2>3. CASE ~up
    <3>1. Turned(up, x) = -x /\ sign = 1
      BY <1>2, <2>3 DEF Turned
    <3>2. (-x = 1 <=> x < 0) /\ (-x = 0 <=> x = 0)
      OBVIOUS
    <3> QED BY <2>1, <3>1, <3>2 DEF Bounded
  <2> QED BY <2>2, <2>3
<1> QED BY <1>1, <1>2

LEMMA SimplePasses ==
    ASSUME NEW p, NEW condition, NEW columns_, NEW d
    PROVE  Passes(OnValue(p, condition), columns_, d) <=> PassesSimple(OnValue(p, condition), columns_, d)
BY DEF Passes, OnValue

\* The branch of one value of a cursor.
BranchOf(paths, keys, k, op) ==
    {OnValue(paths[j], In({keys[j]})) : j \in 1 .. k - 1} \cup {OnValue(paths[k], {Cmp(op, keys[k])})}

BranchPasses(branch, columns_, d) == \A c \in branch : PassesSimple(c, columns_, d)

\* A document has what its query orders by.
Ordering(d, fields, orders) ==
    /\ AreOrders(orders)
    /\ \A k \in DOMAIN orders : FieldValue(d, fields, orders[k].path) # Missing

LEMMA OrdersAt ==
    ASSUME NEW orders, AreOrders(orders)
    PROVE  /\ Len(orders) \in Nat /\ DOMAIN orders = 1 .. Len(orders)
           /\ \A k \in 1 .. Len(orders) : IsField(orders[k].path) /\ orders[k].ascending \in BOOLEAN
           /\ \E k \in 1 .. Len(orders) : orders[k].path = NamePath
BY DEF AreOrders

LEMMA OrderingAt ==
    ASSUME Marked, NEW d, NEW fields, DocKnown(d, fields), NEW orders, Ordering(d, fields, orders),
           NEW k \in 1 .. Len(orders)
    PROVE  /\ IsField(orders[k].path) /\ orders[k].ascending \in BOOLEAN
           /\ FieldValue(d, fields, orders[k].path) \in Known
           /\ FieldValue(d, fields, orders[k].path) # Missing
<1>1. DOMAIN orders = 1 .. Len(orders) /\ IsField(orders[k].path) /\ orders[k].ascending \in BOOLEAN
  BY OrdersAt DEF Ordering
<1>2. FieldValue(d, fields, orders[k].path) # Missing
  BY <1>1 DEF Ordering
<1> QED BY <1>1, <1>2, FieldKnown

\* The columns give what comes beyond a cursor.
LEMMA CursorTells ==
    ASSUME Marked, NEW d, NEW fields, NEW columns_, Mirrored(columns_, d, fields),
           NEW orders, Ordering(d, fields, orders),
           NEW cursor, IsCursor(cursor), NEW inclusive \in BOOLEAN, NEW after \in BOOLEAN,
           NEW bound, bound = CursorBound(orders, cursor, inclusive, after), bound # Missing,
           NEW rows_, rows_[d].fields = fields,
           NEW c, c = CompareToCursor(rows_, orders, d, cursor.values)
    PROVE  /\ c \in {-1, 0, 1}
           /\ Passes(bound, columns_, d) <=> Bounded(c, IF after THEN 1 ELSE -1, inclusive)
<1> DEFINE OpOf(k) == IF k = Len(cursor.values) /\ inclusive
                      THEN (IF after = orders[k].ascending THEN ">=" ELSE "<=")
                      ELSE (IF after = orders[k].ascending THEN ">" ELSE "<")
           Path(k) == orders[k].path
           Value(k) == FieldValue(d, fields, Path(k))
           Step(k) == Turned(orders[k].ascending, Compared(Value(k), cursor.values[k]))
<1>1. PICK values, n : values = cursor.values /\ n = Len(values) /\ values \in Seq(Known) /\ n \in Nat
  BY DEF IsCursor
<1>2. n > 0 /\ n <= Len(orders) /\ DOMAIN values = 1 .. n /\ Len(orders) \in Nat
  <2>1. ~(cursor.values = << >> \/ Len(cursor.values) > Len(orders))
    BY DEF CursorBound
  <2>2. Len(orders) \in Nat
    BY OrdersAt DEF Ordering
  <2> QED BY <1>1, <2>1, <2>2
<1>3. DocKnown(d, fields)
  BY DEF Mirrored
<1>4. \A k \in 1 .. n : /\ IsField(Path(k)) /\ orders[k].ascending \in BOOLEAN
                        /\ Value(k) \in Known /\ Value(k) # Missing /\ values[k] \in Known
  <2>1. \A k \in 1 .. n : k \in 1 .. Len(orders) /\ values[k] \in Known
    BY <1>1, <1>2
  <2> QED BY <1>3, <2>1, OrderingAt
<1>5. \A k \in 1 .. n : /\ Compared(Value(k), values[k]) \in {-1, 0, 1}
                        /\ Compared(Value(k), values[k]) = 0 <=> KeyOf(Value(k)) = KeyOf(values[k])
                        /\ Compared(Value(k), values[k]) = CompareBytes(KeyOf(Value(k)), KeyOf(values[k]))
  BY <1>4, KnownOrder
<1>6. \A k \in 1 .. n : Step(k) \in {-1, 0, 1} /\ (Step(k) = 0 <=> Compared(Value(k), values[k]) = 0)
  <2>1. SUFFICES ASSUME NEW k \in 1 .. n
                 PROVE  Step(k) \in {-1, 0, 1} /\ (Step(k) = 0 <=> Compared(Value(k), values[k]) = 0)
    OBVIOUS
  <2>2. PICK x \in {-1, 0, 1} : x = Compared(Value(k), values[k])
    BY <1>5
  <2> QED BY <1>1, <2>2 DEF Turned
<1>7. PICK cs \in [1 .. n -> {-1, 0, 1}] : \A k \in 1 .. n : cs[k] = Step(k)
  <2>1. [k \in 1 .. n |-> Step(k)] \in [1 .. n -> {-1, 0, 1}]
    <3> HIDE DEF Step
    <3> QED BY <1>6
  <2> HIDE DEF Step
  <2> QED BY <2>1
<1>8. c = FirstNonZero(cs)
  <2>1. Shorter(Len(values), Len(orders)) = n
    BY <1>1, <1>2 DEF Shorter
  <2>2. c = FirstNonZero([k \in 1 .. n |-> Step(k)])
    BY <1>1, <2>1 DEF CompareToCursor, Directed, Turned
  <2>3. cs = [k \in 1 .. n |-> Step(k)]
    <3> HIDE DEF Step
    <3> QED BY <1>7
  <2> QED BY <2>2, <2>3
<1>9. PICK sign : sign = IF after THEN 1 ELSE -1
  OBVIOUS
<1>10. sign \in {-1, 1}
  BY <1>9
<1> DEFINE paths == [k \in 1 .. n |-> Path(k)]
           keys == [k \in 1 .. n |-> KeyOf(values[k])]
           Branch(k) == BranchOf(paths, keys, k, OpOf(k))
<1>11. Passes(bound, columns_, d) <=> \E k \in 1 .. n : BranchPasses(Branch(k), columns_, d)
  <2>1. bound = AnyOf({Branch(k) : k \in 1 .. n})
    <3>1. \A k \in 1 .. n : Branch(k) =
             {OnValue(orders[j].path, In({KeyOf(cursor.values[j])})) : j \in 1 .. k - 1}
               \cup {OnValue(orders[k].path, {Cmp(OpOf(k), KeyOf(cursor.values[k]))})}
      <4>1. \A k \in 1 .. n : \A j \in 1 .. k - 1 : j \in 1 .. n
        BY <1>1
      <4> QED BY <1>1, <4>1 DEF BranchOf
    <3>2. bound = AnyOf({{OnValue(orders[j].path, In({KeyOf(cursor.values[j])})) : j \in 1 .. k - 1}
                           \cup {OnValue(orders[k].path, {Cmp(OpOf(k), KeyOf(cursor.values[k]))})} :
                         k \in 1 .. n})
      BY <1>1, <1>2 DEF CursorBound
    <3> HIDE DEF Branch, OpOf
    <3> QED BY <3>1, <3>2
  <2>2. PICK branches : branches = {Branch(k) : k \in 1 .. n}
    OBVIOUS
  <2>3. bound.on = "or" /\ bound.branches = branches
    BY <2>1, <2>2 DEF AnyOf
  <2>4. Passes(bound, columns_, d) <=> \E branch \in branches : BranchPasses(branch, columns_, d)
    BY <2>3 DEF Passes, BranchPasses
  <2> HIDE DEF Branch
  <2> QED BY <2>2, <2>4
<1>12. \A k \in 1 .. n : BranchPasses(Branch(k), columns_, d)
                          <=> /\ \A j \in 1 .. k - 1 : cs[j] = 0
                              /\ cs[k] = sign \/ (k = n /\ inclusive /\ cs[k] = 0)
  <2>1. SUFFICES ASSUME NEW k \in 1 .. n
                 PROVE  BranchPasses(Branch(k), columns_, d)
                          <=> /\ \A j \in 1 .. k - 1 : cs[j] = 0
                              /\ cs[k] = sign \/ (k = n /\ inclusive /\ cs[k] = 0)
    OBVIOUS
  <2>0. PICK op : op = OpOf(k)
    OBVIOUS
  <2>2. PICK x \in {-1, 0, 1}, up \in BOOLEAN :
            x = Compared(Value(k), values[k]) /\ up = orders[k].ascending /\ op = OpOf(k)
    BY <1>4, <1>5, <2>0
  <2>3. \A j \in 1 .. n : PassesSimple(OnValue(paths[j], In({keys[j]})), columns_, d) <=> cs[j] = 0
    <3>1. SUFFICES ASSUME NEW j \in 1 .. n
                   PROVE  PassesSimple(OnValue(Path(j), In({KeyOf(values[j])})), columns_, d) <=> cs[j] = 0
      OBVIOUS
    <3>2. PICK p, v : p = Path(j) /\ v = FieldValue(d, fields, p)
      OBVIOUS
    <3>3. Passes(OnValue(p, In({KeyOf(values[j])})), columns_, d) <=> KeyPasses(KeyOf(v), In({KeyOf(values[j])}))
      BY <1>4, <3>2, ValueTells
    <3>4. KeyPasses(KeyOf(v), In({KeyOf(values[j])})) <=> KeyOf(v) = KeyOf(values[j])
      BY InTells
    <3>5. cs[j] = 0 <=> KeyOf(v) = KeyOf(values[j])
      BY <1>5, <1>6, <1>7, <3>2
    <3> QED BY <3>2, <3>3, <3>4, <3>5, SimplePasses
  <2>4. PassesSimple(OnValue(paths[k], {Cmp(op, keys[k])}), columns_, d) <=> Side(op, x)
    <3>1. PICK p, v, key : p = Path(k) /\ v = FieldValue(d, fields, p) /\ key = KeyOf(values[k])
      OBVIOUS
    <3>2. Passes(OnValue(p, {Cmp(op, key)}), columns_, d) <=> KeyPasses(KeyOf(v), {Cmp(op, key)})
      BY <1>4, <3>1, ValueTells
    <3>3. op \in RangeOps
      BY <2>2 DEF RangeOps
    <3>4. KeyPasses(KeyOf(v), {Cmp(op, key)}) <=> Side(op, x)
      BY <1>5, <2>2, <3>1, <3>3, CmpTells
    <3> QED BY <3>1, <3>2, <3>4, SimplePasses
  <2>5. cs[k] = Turned(up, x)
    BY <1>1, <1>7, <2>2
  <2>6. Side(op, x) <=> cs[k] = sign \/ (k = n /\ inclusive /\ cs[k] = 0)
    <3>1. PICK orEqual \in BOOLEAN : orEqual <=> k = n /\ inclusive
      OBVIOUS
    <3>2. op = IF orEqual THEN (IF after = up THEN ">=" ELSE "<=") ELSE (IF after = up THEN ">" ELSE "<")
      BY <1>1, <2>2, <3>1
    <3>3. Side(op, x) <=> Bounded(Turned(up, x), sign, orEqual)
      BY <1>9, <3>2, BoundTells
    <3> QED BY <2>5, <3>1, <3>3 DEF Bounded
  <2>7. BranchPasses(Branch(k), columns_, d)
          <=> /\ \A j \in 1 .. k - 1 : PassesSimple(OnValue(paths[j], In({keys[j]})), columns_, d)
              /\ PassesSimple(OnValue(paths[k], {Cmp(op, keys[k])}), columns_, d)
    <3>1. Branch(k) = BranchOf(paths, keys, k, op)
      BY <2>2
    <3> HIDE DEF Branch, paths, keys
    <3> QED BY <3>1 DEF BranchPasses, BranchOf
  <2>8. \A j \in 1 .. k - 1 : j \in 1 .. n
    BY <1>1
  <2> HIDE DEF Branch, paths, keys
  <2> QED BY <2>3, <2>4, <2>6, <2>7, <2>8
<1>13. c \in {-1, 0, 1} /\ (SomeBranch(n, cs, sign, inclusive) <=> Bounded(c, sign, inclusive))
  <2>1. n \in Nat /\ n > 0 /\ Signs(n, cs)
    BY <1>1, <1>2 DEF Signs
  <2> QED BY <1>8, <1>10, <2>1, OneBranch
<1>14. Passes(bound, columns_, d) <=> SomeBranch(n, cs, sign, inclusive)
  <2> HIDE DEF Branch
  <2> QED BY <1>11, <1>12 DEF SomeBranch
<1> QED BY <1>9, <1>13, <1>14

-----------------------------------------------------------------------------
(* What a plan asks.                                                       *)

FiltersKeep(fields, query, d) ==
    \A k \in DOMAIN query.filters :
        Matches(query.filters[k], FieldValue(d, fields, query.filters[k].path))

FieldsThere(fields, orders, d) == \A k \in DOMAIN orders : FieldValue(d, fields, orders[k].path) # Missing

CursorsKeep(rows_, query, orders, d) ==
    /\ \A c \in {query.startAt} \ {Missing} : Bounded(CompareToCursor(rows_, orders, d, c.values), 1, c.before)
    /\ \A c \in {query.endAt} \ {Missing} : Bounded(CompareToCursor(rows_, orders, d, c.values), -1, ~c.before)

LEMMA RecordAt ==
    ASSUME NEW clauses, NEW window, NEW request, request = [clauses |-> clauses, window |-> window]
    PROVE  request.clauses = clauses /\ request.window = window
OBVIOUS

LEMMA KeptIs ==
    ASSUME NEW query, NEW rows_, NEW d, NEW orders
    PROVE  Kept(rows_, query, orders, d)
             <=> /\ FiltersKeep(rows_[d].fields, query, d)
                 /\ FieldsThere(rows_[d].fields, orders, d)
                 /\ CursorsKeep(rows_, query, orders, d)
<1>1. ASSUME NEW x, NEW before
      PROVE  /\ x \in {1} \cup (IF before THEN {0} ELSE {}) <=> Bounded(x, 1, before)
             /\ x \in {-1} \cup (IF before THEN {} ELSE {0}) <=> Bounded(x, -1, ~before)
  BY DEF Bounded
<1>2. \A c : CompareToCursor(rows_, orders, d, c.values) \in {1} \cup (IF c.before THEN {0} ELSE {})
               <=> Bounded(CompareToCursor(rows_, orders, d, c.values), 1, c.before)
  BY <1>1
<1>3. \A c : CompareToCursor(rows_, orders, d, c.values) \in {-1} \cup (IF c.before THEN {} ELSE {0})
               <=> Bounded(CompareToCursor(rows_, orders, d, c.values), -1, ~c.before)
  BY <1>1
<1> QED BY <1>2, <1>3, Zenon DEF Kept, FiltersKeep, FieldsThere, CursorsKeep

AllPass(clauses, columns_, d) == \A c \in clauses : Passes(c, columns_, d)

LEMMA PlanTells ==
    ASSUME Marked, NEW d, NEW fields, NEW columns_, Mirrored(columns_, d, fields),
           NEW query, IsQuery(query), NEW orders, AreOrders(orders), NEW plan, plan = Plan(query, orders)
    PROVE  /\ FiltersKeep(fields, query, d) /\ FieldsThere(fields, orders, d)
                => AllPass(plan.clauses, columns_, d)
           /\ plan.exact /\ AllPass(plan.clauses, columns_, d)
                => FiltersKeep(fields, query, d) /\ FieldsThere(fields, orders, d)
<1>1. PICK filters, sorted :
          /\ filters = ToSet(query.filters)
          /\ sorted = {orders[k].path : k \in DOMAIN orders} \ {NamePath}
  OBVIOUS
<1>2. /\ plan.clauses = {ClauseFor(f) : f \in {g \in filters : ~NoClause(g)}}
                          \cup {Exists(p) : p \in {r \in sorted : PlainPath(r)}}
      /\ plan.exact <=> /\ \A f \in filters : ~NoClause(f) /\ ExactClause(f)
                        /\ \A p \in sorted : PlainPath(p)
  BY <1>1 DEF Plan
<1>3. filters = {query.filters[k] : k \in DOMAIN query.filters}
  BY <1>1 DEF ToSet
<1>4. \A f \in filters : IsFilter(f)
  BY <1>3 DEF IsQuery
<1>5. FiltersKeep(fields, query, d) <=> \A f \in filters : Matches(f, FieldValue(d, fields, f.path))
  BY <1>3 DEF FiltersKeep
<1>6. \A f \in filters : ~NoClause(f) => FilterTold(f, FieldValue(d, fields, f.path), columns_, d)
  BY <1>4, ClauseTells
<1>7. FieldsThere(fields, orders, d) <=> \A p \in sorted : FieldValue(d, fields, p) # Missing
  <2>1. FieldValue(d, fields, NamePath) # Missing
    BY KnownKey DEF FieldValue, Mirrored, DocKnown
  <2> QED BY <1>1, <2>1 DEF FieldsThere
<1>8. \A p \in sorted : Passes(Exists(p), columns_, d) <=> FieldValue(d, fields, p) # Missing
  <2>1. \A p \in sorted : IsField(p)
    BY <1>1, OrdersAt
  <2> QED BY <2>1, ExistsTells
<1>9. ASSUME FiltersKeep(fields, query, d), FieldsThere(fields, orders, d)
      PROVE  AllPass(plan.clauses, columns_, d)
  <2>1. \A f \in filters : ~NoClause(f) => Passes(ClauseFor(f), columns_, d)
    BY <1>5, <1>6, <1>9 DEF FilterTold
  <2>2. \A p \in sorted : Passes(Exists(p), columns_, d)
    BY <1>7, <1>8, <1>9
  <2> QED BY <1>2, <2>1, <2>2 DEF AllPass
<1>10. ASSUME plan.exact, AllPass(plan.clauses, columns_, d)
       PROVE  FiltersKeep(fields, query, d) /\ FieldsThere(fields, orders, d)
  <2>1. \A f \in filters : Passes(ClauseFor(f), columns_, d) /\ ~NoClause(f) /\ ExactClause(f)
    BY <1>2, <1>10 DEF AllPass
  <2>2. \A p \in sorted : Passes(Exists(p), columns_, d)
    BY <1>2, <1>10 DEF AllPass
  <2>3. \A f \in filters : Matches(f, FieldValue(d, fields, f.path))
    BY <1>6, <2>1 DEF FilterTold
  <2>4. \A p \in sorted : FieldValue(d, fields, p) # Missing
    BY <1>8, <2>2
  <2> QED BY <1>5, <1>7, <2>3, <2>4
<1> QED BY <1>9, <1>10

LEMMA CursorsTell ==
    ASSUME Marked, NEW d, NEW fields, NEW columns_, Mirrored(columns_, d, fields),
           NEW query, IsQuery(query), NEW orders, Ordering(d, fields, orders),
           NEW rows_, rows_[d].fields = fields,
           NEW cursors, cursors = CursorClauses(query, orders), cursors # Missing
    PROVE  AllPass(cursors, columns_, d) <=> CursorsKeep(rows_, query, orders, d)
<1>0. PICK starts, ends : starts = {query.startAt} \ {Missing} /\ ends = {query.endAt} \ {Missing}
  OBVIOUS
<1>1. /\ starts = {query.startAt} \ {Missing} /\ ends = {query.endAt} \ {Missing}
      /\ \A c \in starts \cup ends : IsCursor(c)
  BY <1>0 DEF IsQuery
<1>2. PICK bounds :
          bounds = {CursorBound(orders, c, c.before, TRUE) : c \in starts}
                     \cup {CursorBound(orders, c, ~c.before, FALSE) : c \in ends}
  OBVIOUS
<1>3. cursors = CheckedBounds(bounds, orders)
  BY <1>1, <1>2 DEF CursorClauses
<1>4. cursors = bounds /\ Missing \notin bounds
  BY <1>3 DEF CheckedBounds, Expressible
<1>5. ASSUME NEW c \in starts \cup ends, NEW inclusive \in BOOLEAN, NEW after \in BOOLEAN,
             CursorBound(orders, c, inclusive, after) # Missing
      PROVE  Passes(CursorBound(orders, c, inclusive, after), columns_, d)
               <=> Bounded(CompareToCursor(rows_, orders, d, c.values), IF after THEN 1 ELSE -1, inclusive)
  BY <1>1, <1>5, CursorTells
<1>6. \A c \in starts : Passes(CursorBound(orders, c, c.before, TRUE), columns_, d)
                          <=> Bounded(CompareToCursor(rows_, orders, d, c.values), 1, c.before)
  <2>1. SUFFICES ASSUME NEW c \in starts
                 PROVE  Passes(CursorBound(orders, c, c.before, TRUE), columns_, d)
                          <=> Bounded(CompareToCursor(rows_, orders, d, c.values), 1, c.before)
    OBVIOUS
  <2>2. c.before \in BOOLEAN /\ CursorBound(orders, c, c.before, TRUE) # Missing
    BY <1>1, <1>2, <1>4 DEF IsCursor
  <2> QED BY <1>5, <2>2
<1>7. \A c \in ends : Passes(CursorBound(orders, c, ~c.before, FALSE), columns_, d)
                        <=> Bounded(CompareToCursor(rows_, orders, d, c.values), -1, ~c.before)
  <2>1. SUFFICES ASSUME NEW c \in ends
                 PROVE  Passes(CursorBound(orders, c, ~c.before, FALSE), columns_, d)
                          <=> Bounded(CompareToCursor(rows_, orders, d, c.values), -1, ~c.before)
    OBVIOUS
  <2>2. PICK inclusive \in BOOLEAN : inclusive = ~c.before
    BY <1>1 DEF IsCursor
  <2>3. CursorBound(orders, c, inclusive, FALSE) # Missing
    BY <1>2, <1>4, <2>2
  <2>4. Passes(CursorBound(orders, c, inclusive, FALSE), columns_, d)
          <=> Bounded(CompareToCursor(rows_, orders, d, c.values), -1, inclusive)
    BY <1>5, <2>3
  <2> QED BY <2>2, <2>4
<1>8. AllPass(bounds, columns_, d)
        <=> /\ \A c \in starts : Passes(CursorBound(orders, c, c.before, TRUE), columns_, d)
            /\ \A c \in ends : Passes(CursorBound(orders, c, ~c.before, FALSE), columns_, d)
  BY <1>2 DEF AllPass
<1> QED BY <1>1, <1>4, <1>6, <1>7, <1>8 DEF CursorsKeep

\* A request finds whatever is kept, and nothing else when it takes a page.
LEMMA RequestFinds ==
    ASSUME Marked, NEW d, NEW fields, NEW columns_, Mirrored(columns_, d, fields),
           NEW query, IsQuery(query), NEW orders, AreOrders(orders),
           NEW rows_, rows_[d].fields = fields,
           NEW request, request = Requested(query, orders, TRUE)
    PROVE  /\ Kept(rows_, query, orders, d) => AllPass(request.clauses, columns_, d)
           /\ request.window /\ AllPass(request.clauses, columns_, d) => Kept(rows_, query, orders, d)
<1>1. PICK plan, cursors :
          /\ plan = Plan(query, orders) /\ cursors = CursorClauses(query, orders)
          /\ request = Request(query, plan, cursors)
  BY DEF Requested
<1>2. /\ request.clauses = plan.clauses \cup (IF cursors = Missing THEN {} ELSE cursors)
      /\ request.window <=> cursors # Missing /\ PushesWindow(query, plan.exact)
  <2>1. PICK clauses, window : /\ clauses = plan.clauses \cup (IF cursors = Missing THEN {} ELSE cursors)
                               /\ window = (cursors # Missing /\ PushesWindow(query, plan.exact))
    OBVIOUS
  <2>2. request = [clauses |-> clauses, window |-> window]
    BY <1>1, <2>1 DEF Request
  <2>3. request.clauses = clauses /\ request.window = window
    BY <2>2, RecordAt
  <2> QED BY <2>1, <2>3
<1>3. request.window => plan.exact /\ cursors # Missing
  BY <1>2 DEF PushesWindow
<1>4. Kept(rows_, query, orders, d)
        <=> /\ FiltersKeep(fields, query, d) /\ FieldsThere(fields, orders, d)
            /\ CursorsKeep(rows_, query, orders, d)
  BY KeptIs
<1>5. FieldsThere(fields, orders, d) /\ cursors # Missing
        => (AllPass(cursors, columns_, d) <=> CursorsKeep(rows_, query, orders, d))
  <2>1. FieldsThere(fields, orders, d) => Ordering(d, fields, orders)
    BY DEF FieldsThere, Ordering
  <2> QED BY <1>1, <2>1, CursorsTell
<1>6. AllPass(request.clauses, columns_, d)
        <=> /\ AllPass(plan.clauses, columns_, d)
            /\ cursors # Missing => AllPass(cursors, columns_, d)
  BY <1>2 DEF AllPass
<1>7. /\ FiltersKeep(fields, query, d) /\ FieldsThere(fields, orders, d)
           => AllPass(plan.clauses, columns_, d)
      /\ plan.exact /\ AllPass(plan.clauses, columns_, d)
           => FiltersKeep(fields, query, d) /\ FieldsThere(fields, orders, d)
  BY <1>1, PlanTells
<1> QED BY <1>3, <1>4, <1>5, <1>6, <1>7

-----------------------------------------------------------------------------
(* The order of documents.                                                 *)

LEMMA NamesDiffer ==
    ASSUME NEW d, NEW e, NameOf(d) \in Known, NameOf(e) \in Known, KeyOf(NameOf(d)) = KeyOf(NameOf(e))
    PROVE  d = e
<1>1. NameOf(d).type = "reference" /\ NameOf(d).segments = <<d>> /\ NameOf(e).segments = <<e>>
  BY DEF NameOf, Reference
<1>2. NameOf(d) = NameOf(e)
  BY <1>1, KnownOrder
<1>3. <<d>> = <<e>>
  BY <1>1, <1>2
<1> QED BY <1>3

KeysOf(columns_, orders, d) == [k \in 1 .. Len(orders) |-> ColumnKey(columns_, d, orders[k].path)]
UpOf(orders) == [k \in 1 .. Len(orders) |-> orders[k].ascending]

LEMMA ColumnOrder ==
    ASSUME NEW orders, AreOrders(orders), NEW columns_, NEW d, NEW e
    PROVE  CompareColumns(columns_, orders, d, e)
             = CompareKeys(UpOf(orders), Len(orders), KeysOf(columns_, orders, d), KeysOf(columns_, orders, e))
<1>1. DOMAIN orders = 1 .. Len(orders)
  BY OrdersAt
<1> QED BY <1>1 DEF CompareColumns, CompareKeys, UpOf, KeysOf, Directed, Turned

\* A document to be ordered.
Sortable(rows_, columns_, orders, d) ==
    Mirrored(columns_, d, rows_[d].fields) /\ Ordering(d, rows_[d].fields, orders)

LEMMA SortableAt ==
    ASSUME Marked, NEW rows_, NEW columns_, NEW orders, AreOrders(orders), NEW d,
           Sortable(rows_, columns_, orders, d), NEW k \in 1 .. Len(orders)
    PROVE  /\ FieldValue(d, rows_[d].fields, orders[k].path) \in Known
           /\ ColumnKey(columns_, d, orders[k].path) = KeyOf(FieldValue(d, rows_[d].fields, orders[k].path))
           /\ ColumnKey(columns_, d, orders[k].path) \in Seq(Nat)
<1>1. PICK fields, p, v : fields = rows_[d].fields /\ p = orders[k].path /\ v = FieldValue(d, fields, p)
  OBVIOUS
<1>2. DocKnown(d, fields) /\ columns_[d] = IndexDocument(fields) /\ Ordering(d, fields, orders)
  BY <1>1 DEF Sortable, Mirrored
<1>3. IsField(p) /\ v \in Known /\ v # Missing
  BY <1>1, <1>2, OrderingAt
<1>4. ColumnKey(columns_, d, p) = KeyOf(v)
  BY <1>1, <1>2, <1>3, ColumnIs
<1>5. KeyOf(v) \in Seq(Nat)
  BY <1>3, KnownKey
<1> QED BY <1>1, <1>3, <1>4, <1>5

LEMMA DocOrder ==
    ASSUME Marked, NEW rows_, NEW columns_, NEW orders, AreOrders(orders), NEW d, NEW e,
           Sortable(rows_, columns_, orders, d), Sortable(rows_, columns_, orders, e)
    PROVE  CompareDocs(rows_, orders, d, e) = CompareColumns(columns_, orders, d, e)
<1>1. DOMAIN orders = 1 .. Len(orders)
  BY OrdersAt
<1>2. \A k \in 1 .. Len(orders) :
          Compared(FieldValue(d, rows_[d].fields, orders[k].path),
                   FieldValue(e, rows_[e].fields, orders[k].path))
            = CompareBytes(ColumnKey(columns_, d, orders[k].path), ColumnKey(columns_, e, orders[k].path))
  BY SortableAt, KnownOrder
<1> QED BY <1>1, <1>2 DEF CompareDocs, CompareColumns

LEMMA SortableKeys ==
    ASSUME Marked, NEW rows_, NEW columns_, NEW orders, AreOrders(orders), NEW d,
           Sortable(rows_, columns_, orders, d)
    PROVE  /\ Keys(Len(orders), KeysOf(columns_, orders, d))
           /\ Directions(Len(orders), UpOf(orders)) /\ Len(orders) \in Nat
<1>1. \A k \in 1 .. Len(orders) : ColumnKey(columns_, d, orders[k].path) \in Seq(Nat)
  BY SortableAt
<1>2. \A k \in 1 .. Len(orders) : orders[k].ascending \in BOOLEAN
  BY OrdersAt
<1> QED BY <1>1, <1>2, OrdersAt DEF Keys, KeysOf, Directions, UpOf

LEMMA SortableDiffer ==
    ASSUME Marked, NEW rows_, NEW columns_, NEW orders, AreOrders(orders), NEW d, NEW e,
           Sortable(rows_, columns_, orders, d), Sortable(rows_, columns_, orders, e),
           KeysOf(columns_, orders, d) = KeysOf(columns_, orders, e)
    PROVE  d = e
<1>1. PICK k \in 1 .. Len(orders) : orders[k].path = NamePath
  BY OrdersAt
<1>2. KeysOf(columns_, orders, d)[k] = KeysOf(columns_, orders, e)[k]
  OBVIOUS
<1>3. ColumnKey(columns_, d, NamePath) = ColumnKey(columns_, e, NamePath)
  BY <1>1, <1>2 DEF KeysOf
<1>4. KeyOf(NameOf(d)) = KeyOf(NameOf(e))
  BY <1>3 DEF ColumnKey
<1>5. NameOf(d) \in Known /\ NameOf(e) \in Known
  BY DEF Sortable, Mirrored, DocKnown
<1> QED BY <1>4, <1>5, NamesDiffer

ByDocs(rows_, orders, S) == {p \in S \X S : CompareDocs(rows_, orders, p[1], p[2]) < 0}
ByColumns(columns_, orders, S) == {p \in S \X S : CompareColumns(columns_, orders, p[1], p[2]) < 0}

AllSortable(rows_, columns_, orders, S) == \A d \in S : Sortable(rows_, columns_, orders, d)

LEMMA SameOrder ==
    ASSUME Marked, NEW rows_, NEW columns_, NEW orders, AreOrders(orders), NEW S,
           AllSortable(rows_, columns_, orders, S)
    PROVE  ByDocs(rows_, orders, S) = ByColumns(columns_, orders, S)
<1>1. \A d, e \in S : CompareDocs(rows_, orders, d, e) = CompareColumns(columns_, orders, d, e)
  BY DocOrder DEF AllSortable
<1> QED BY <1>1 DEF ByDocs, ByColumns

LEMMA DocsOrdered ==
    ASSUME Marked, NEW rows_, NEW columns_, NEW orders, AreOrders(orders), NEW S,
           AllSortable(rows_, columns_, orders, S)
    PROVE  Orders(ByColumns(columns_, orders, S), S)
<1>1. PICK n, up, key, before :
          /\ n = Len(orders) /\ up = UpOf(orders)
          /\ key = [d \in S |-> KeysOf(columns_, orders, d)] /\ before = ByColumns(columns_, orders, S)
  OBVIOUS
<1>2. \A d, e \in S : <<d, e>> \in before <=> CompareKeys(up, n, key[d], key[e]) < 0
  BY <1>1, ColumnOrder DEF ByColumns
<1>3. \A d \in S : n \in Nat /\ Directions(n, up) /\ Keys(n, key[d])
  BY <1>1, SortableKeys DEF AllSortable
<1>4. \A d, e \in S : key[d] = key[e] => d = e
  BY <1>1, SortableDiffer DEF AllSortable
<1>5. \A d, e \in S : /\ <<d, e>> \in before <=> CompareKeys(up, n, key[d], key[e]) = -1
                      /\ CompareKeys(up, n, key[d], key[e]) \in {-1, 0, 1}
                      /\ CompareKeys(up, n, key[d], key[e]) = 0 <=> key[d] = key[e]
                      /\ CompareKeys(up, n, key[e], key[d]) = -CompareKeys(up, n, key[d], key[e])
  <2>1. SUFFICES ASSUME NEW d \in S, NEW e \in S
                 PROVE  /\ <<d, e>> \in before <=> CompareKeys(up, n, key[d], key[e]) = -1
                        /\ CompareKeys(up, n, key[d], key[e]) \in {-1, 0, 1}
                        /\ CompareKeys(up, n, key[d], key[e]) = 0 <=> key[d] = key[e]
                        /\ CompareKeys(up, n, key[e], key[d]) = -CompareKeys(up, n, key[d], key[e])
    OBVIOUS
  <2>2. PICK c \in {-1, 0, 1} : c = CompareKeys(up, n, key[d], key[e]) /\ (c = 0 <=> key[d] = key[e])
    BY <1>3, KeysBefore
  <2>3. CompareKeys(up, n, key[e], key[d]) = -CompareKeys(up, n, key[d], key[e])
    BY <1>3, KeysReverse
  <2> QED BY <1>2, <2>2, <2>3
<1>6. \A d, e, f \in S : <<d, e>> \in before /\ <<e, f>> \in before => <<d, f>> \in before
  BY <1>3, <1>5, KeysTransitive
<1>7. \A d, e \in S : /\ <<d, e>> \in before => <<e, d>> \notin before
                      /\ d # e => <<d, e>> \in before \/ <<e, d>> \in before
  <2>1. SUFFICES ASSUME NEW d \in S, NEW e \in S
                 PROVE  /\ <<d, e>> \in before => <<e, d>> \notin before
                        /\ d # e => <<d, e>> \in before \/ <<e, d>> \in before
    OBVIOUS
  <2>2. PICK c \in {-1, 0, 1} : c = CompareKeys(up, n, key[d], key[e])
    BY <1>5
  <2>3. PICK b \in {-1, 0, 1} : b = CompareKeys(up, n, key[e], key[d])
    BY <1>5
  <2>4. b = -c
    BY <1>5, <2>2, <2>3
  <2>5. d # e => c # 0
    <3>1. CompareKeys(up, n, key[d], key[e]) = 0 <=> key[d] = key[e]
      BY <1>5
    <3> QED BY <1>4, <2>2, <3>1
  <2>6. (<<d, e>> \in before <=> c = -1) /\ (<<e, d>> \in before <=> b = -1)
    BY <1>5, <2>2, <2>3
  <2> QED BY <2>4, <2>5, <2>6
<1> QED BY <1>1, <1>6, <1>7 DEF Orders

LEMMA InOrderLists ==
    ASSUME Marked, NEW rows_, NEW columns_, NEW orders, AreOrders(orders), NEW S, IsFiniteSet(S),
           AllSortable(rows_, columns_, orders, S)
    PROVE  /\ InOrder(rows_, orders, S) = InColumnOrder(columns_, orders, S)
           /\ Lists(InOrder(rows_, orders, S), S, ByDocs(rows_, orders, S))
<1>1. ByDocs(rows_, orders, S) = ByColumns(columns_, orders, S)
  BY SameOrder
<1>2. InOrder(rows_, orders, S) = Sorted(S, ByDocs(rows_, orders, S))
  BY DEF InOrder, ByDocs
<1>3. InColumnOrder(columns_, orders, S) = Sorted(S, ByColumns(columns_, orders, S))
  BY DEF InColumnOrder, ByColumns
<1>4. Lists(Sorted(S, ByColumns(columns_, orders, S)), S, ByColumns(columns_, orders, S))
  BY DocsOrdered, SortedLists
<1> QED BY <1>1, <1>2, <1>3, <1>4

\* A slice of the documents in order is what is in it, in order.
LEMMA SliceInOrder ==
    ASSUME NEW rows_, NEW orders, NEW S, NEW t, Lists(t, S, ByDocs(rows_, orders, S)),
           NEW a \in Nat, NEW b \in Nat, b <= Len(t)
    PROVE  InOrder(rows_, orders, ToSet(SubSeq(t, a + 1, b))) = SubSeq(t, a + 1, b)
<1>1. PICK u, T, before : /\ u = SubSeq(t, a + 1, b) /\ T = ToSet(u)
                          /\ before = ByDocs(rows_, orders, S)
  OBVIOUS
<1>2. Lists(u, T, before)
  BY <1>1, SliceLists
<1>3. T \subseteq S
  <2>1. t \in Seq(S)
    BY DEF Lists
  <2>2. u \in Seq(S)
    BY <1>1, <2>1
  <2> QED BY <1>1, <2>2 DEF ToSet
<1>4. \A i, j \in 1 .. Len(u) : u[i] \in T /\ u[j] \in T
  <2>1. u \in Seq(T)
    BY <1>2 DEF Lists
  <2> QED BY <2>1
<1>5. \A d, e \in T : <<d, e>> \in before <=> <<d, e>> \in ByDocs(rows_, orders, T)
  BY <1>1, <1>3 DEF ByDocs
<1>6. Lists(u, T, ByDocs(rows_, orders, T))
  BY <1>2, <1>4, <1>5 DEF Lists
<1>7. Sorted(T, ByDocs(rows_, orders, T)) = u
  BY <1>6, SortedIs
<1> QED BY <1>1, <1>7 DEF InOrder, ByDocs

-----------------------------------------------------------------------------
(* Pages.                                                                  *)

Slice(t, a, b) == SubSeq(t, a + 1, b)

LEMMA SliceWhole ==
    ASSUME NEW S, NEW t \in Seq(S)
    PROVE  Slice(t, 0, Len(t)) = t /\ Slice(t, 0, 0) = << >>
<1>1. SubSeq(t, 1, Len(t)) = t /\ SubSeq(t, 1, 0) = << >>
  BY SubSeqFull
<1> QED BY <1>1 DEF Slice

\* u has the elements of t from the one after a to b.
Sliced(S, t, a, b, u) ==
    /\ u \in Seq(S)
    /\ (a < b /\ Len(u) = b - a) \/ (a >= b /\ Len(u) = 0)
    /\ \A i \in 1 .. Len(u) : u[i] = t[a + i] /\ a + i \in 1 .. Len(t)

LEMMA SliceIs ==
    ASSUME NEW S, NEW t \in Seq(S), NEW a \in Nat, NEW b \in Nat, b <= Len(t)
    PROVE  Sliced(S, t, a, b, Slice(t, a, b))
<1>0. PICK u : u = Slice(t, a, b)
  OBVIOUS
<1>1. PICK m \in Nat : (a + 1 <= b /\ m = b - a) \/ (~(a + 1 <= b) /\ m = 0)
  <2>1. a + 1 <= b => b - a \in Nat
    OBVIOUS
  <2> QED BY <2>1
<1>2. PICK n \in Nat : n = Len(t)
  OBVIOUS
<1>3. u = SubSeq(t, a + 1, b)
  BY <1>0 DEF Slice
<1>4. u \in Seq(S) /\ Len(u) = m /\ \A i \in 1 .. m : u[i] = t[a + i] /\ a + i \in 1 .. n
  BY <1>1, <1>2, <1>3
<1>5. Sliced(S, t, a, b, u)
  BY <1>1, <1>2, <1>4 DEF Sliced
<1> QED BY <1>0, <1>5

\* What begins a slice is a slice.
LEMMA SliceOfSlice ==
    ASSUME NEW S, NEW t \in Seq(S), NEW a \in Nat, NEW m \in Nat, m <= Len(Slice(t, a, Len(t)))
    PROVE  \E b, c \in Nat : c <= Len(t) /\ Slice(Slice(t, a, Len(t)), 0, m) = Slice(t, b, c)
<1>1. PICK n \in Nat : n = Len(t)
  OBVIOUS
<1>2. PICK rest : rest = Slice(t, a, n)
  OBVIOUS
<1>3. /\ rest \in Seq(S) /\ m <= Len(rest)
      /\ (a < n /\ Len(rest) = n - a) \/ (a >= n /\ Len(rest) = 0)
      /\ \A i \in 1 .. Len(rest) : rest[i] = t[a + i] /\ a + i \in 1 .. n
  <2>1. n <= Len(t) /\ rest = Slice(t, a, n)
    BY <1>1, <1>2
  <2>2. /\ rest \in Seq(S)
        /\ (a < n /\ Len(rest) = n - a) \/ (a >= n /\ Len(rest) = 0)
        /\ \A i \in 1 .. Len(rest) : rest[i] = t[a + i] /\ a + i \in 1 .. Len(t)
    <3>1. Sliced(S, t, a, n, rest)
      BY <2>1, SliceIs
    <3> QED BY <3>1 DEF Sliced
  <2> QED BY <1>1, <1>2, <2>2
<1>4. PICK u : u = Slice(rest, 0, m)
  OBVIOUS
<1>5. CASE m = 0
  <2>1. u = << >> /\ Slice(t, 0, 0) = << >>
    BY <1>3, <1>4, <1>5, SliceWhole
  <2> QED BY <1>1, <1>2, <1>4, <2>1
<1>6. CASE m > 0
  <2>1. PICK c \in Nat : c = a + m
    OBVIOUS
  <2>2. a < n /\ c <= n /\ a < c /\ c - a = m
    BY <1>1, <1>3, <1>6, <2>1
  <2>3. PICK v : v = Slice(t, a, c)
    OBVIOUS
  <2>4. v \in Seq(S) /\ Len(v) = m /\ \A i \in 1 .. m : v[i] = t[a + i]
    <3>1. c <= Len(t)
      BY <1>1, <2>2
    <3>2. /\ v \in Seq(S)
          /\ (a < c /\ Len(v) = c - a) \/ (a >= c /\ Len(v) = 0)
          /\ \A i \in 1 .. Len(v) : v[i] = t[a + i]
      <4>1. Sliced(S, t, a, c, v)
        BY <2>3, <3>1, SliceIs
      <4> QED BY <4>1 DEF Sliced
    <3> QED BY <2>2, <3>2
  <2>5. u \in Seq(S) /\ Len(u) = m /\ \A i \in 1 .. m : u[i] = rest[i]
    <3>1. /\ u \in Seq(S)
          /\ (0 < m /\ Len(u) = m - 0) \/ (0 >= m /\ Len(u) = 0)
          /\ \A i \in 1 .. Len(u) : u[i] = rest[0 + i]
      BY <1>3, <1>4, SliceIs DEF Sliced
    <3> QED BY <1>6, <3>1
  <2>6. \A i \in 1 .. m : rest[i] = t[a + i]
    <3>1. \A i \in 1 .. m : i \in 1 .. Len(rest)
      BY <1>3
    <3> QED BY <1>3, <3>1
  <2>7. u = v
    BY <2>4, <2>5, <2>6, SeqEqual
  <2> QED BY <1>1, <1>2, <1>4, <2>2, <2>3, <2>7
<1> QED BY <1>5, <1>6

\* A page is a slice: what is skipped, and then no more than the limit.
LEMMA PagedIsSlice ==
    ASSUME NEW S, NEW t \in Seq(S), NEW query, query.offset \in Nat, query.limit # Missing => query.limit \in Int
    PROVE  \E a, b \in Nat : b <= Len(t) /\ Paged(t, query) = Slice(t, a, b)
<1>1. PICK n \in Nat, o \in Nat : n = Len(t) /\ o = query.offset
  OBVIOUS
<1>2. PICK rest : rest = IF query.offset > 0 THEN Skip(t, query.offset) ELSE t
  OBVIOUS
<1>3. PICK a \in Nat : rest = Slice(t, a, n)
  <2>1. CASE o > 0
    <3>1. Skip(t, o) = Slice(t, o, n)
      BY <1>1 DEF Skip, Slice
    <3> QED BY <1>1, <1>2, <2>1, <3>1
  <2>2. CASE o = 0
    BY <1>1, <1>2, <2>2, SliceWhole
  <2> QED BY <2>1, <2>2
<1>4. rest \in Seq(S) /\ Len(rest) \in Nat
  BY <1>1, <1>3, SliceIs DEF Sliced
<1>5. CASE query.limit = Missing
  BY <1>1, <1>2, <1>3, <1>5 DEF Paged
<1>6. CASE query.limit # Missing
  <2>1. PICK m : m = Shorter(IF query.limit < 0 THEN 0 ELSE query.limit, Len(rest))
    OBVIOUS
  <2>2. m \in Nat /\ m <= Len(rest)
    <3>1. PICK l \in Int : l = query.limit
      BY <1>6
    <3>2. PICK r \in Nat : r = Len(rest)
      BY <1>4
    <3> QED BY <2>1, <3>1, <3>2 DEF Shorter
  <2>3. Paged(t, query) = SubSeq(rest, 1, m)
    BY <1>2, <1>6, <2>1 DEF Paged
  <2>4. SubSeq(rest, 1, m) = Slice(rest, 0, m)
    BY DEF Slice
  <2>5. PICK b \in Nat, c \in Nat : c <= Len(t) /\ Slice(rest, 0, m) = Slice(t, b, c)
    <3>1. rest = Slice(t, a, Len(t)) /\ m \in Nat /\ m <= Len(Slice(t, a, Len(t)))
      BY <1>1, <1>3, <2>2
    <3> QED BY <3>1, SliceOfSlice
  <2> QED BY <2>3, <2>4, <2>5
<1> QED BY <1>5, <1>6

-----------------------------------------------------------------------------
(* A query with its plan and without.                                      *)

\* The documents there are, each of known values and with its columns.
AllMirrored(rows_, columns_) ==
    \A d \in DOMAIN rows_ : rows_[d] # Missing => Mirrored(columns_, d, rows_[d].fields)

Docs(rows_) == {d \in DOMAIN rows_ : rows_[d] # Missing}
KeptOf(rows_, query, orders) == {d \in Docs(rows_) : Kept(rows_, query, orders, d)}

LEMMA KeptSortable ==
    ASSUME NEW rows_, NEW columns_, AllMirrored(rows_, columns_), NEW query, NEW orders, AreOrders(orders)
    PROVE  AllSortable(rows_, columns_, orders, KeptOf(rows_, query, orders))
<1>1. SUFFICES ASSUME NEW d \in KeptOf(rows_, query, orders)
               PROVE  Sortable(rows_, columns_, orders, d)
  BY DEF AllSortable
<1>2. d \in DOMAIN rows_ /\ rows_[d] # Missing /\ Kept(rows_, query, orders, d)
  BY DEF KeptOf, Docs
<1>3. FieldsThere(rows_[d].fields, orders, d)
  BY <1>2, KeptIs
<1> QED BY <1>2, <1>3 DEF Sortable, AllMirrored, Ordering, FieldsThere

LEMMA Scanned ==
    ASSUME NEW rows_, NEW columns_, NEW query, NEW orders, ~TooLong(query, orders)
    PROVE  Ordered(rows_, columns_, query, orders, FALSE)
             = Paged(InOrder(rows_, orders, KeptOf(rows_, query, orders)), query)
<1>1. Requested(query, orders, FALSE) = [clauses |-> {}, window |-> FALSE]
  BY DEF Requested, Everything
<1>2. PICK request : request = [clauses |-> {}, window |-> FALSE]
  OBVIOUS
<1>3. request.clauses = {} /\ request.window = FALSE
  BY <1>2
<1>4. Selected(columns_, Docs(rows_), request) = Docs(rows_)
  BY <1>3 DEF Selected
<1>5. Answer(rows_, columns_, query, orders, request)
        = Paged(InOrder(rows_, orders, KeptOf(rows_, query, orders)), query)
  BY <1>3, <1>4 DEF Answer, Fetched, PagedOnce, KeptOf, Docs
<1> QED BY <1>1, <1>2, <1>5 DEF Ordered

LEMMA Planned ==
    ASSUME Marked, NEW rows_, IsFiniteSet(DOMAIN rows_), NEW columns_, AllMirrored(rows_, columns_),
           NEW query, IsQuery(query), NEW orders, AreOrders(orders), ~TooLong(query, orders)
    PROVE  Ordered(rows_, columns_, query, orders, TRUE)
             = Paged(InOrder(rows_, orders, KeptOf(rows_, query, orders)), query)
<1>1. PICK request, selected, kept :
          /\ request = Requested(query, orders, TRUE)
          /\ selected = Selected(columns_, Docs(rows_), request)
          /\ kept = KeptOf(rows_, query, orders)
  OBVIOUS
<1>2. selected = {d \in Docs(rows_) : AllPass(request.clauses, columns_, d)}
  BY <1>1 DEF Selected, AllPass
<1>3. \A d \in Docs(rows_) :
          /\ Kept(rows_, query, orders, d) => AllPass(request.clauses, columns_, d)
          /\ request.window /\ AllPass(request.clauses, columns_, d) => Kept(rows_, query, orders, d)
  <2>1. SUFFICES ASSUME NEW d \in Docs(rows_)
                 PROVE  /\ Kept(rows_, query, orders, d) => AllPass(request.clauses, columns_, d)
                        /\ request.window /\ AllPass(request.clauses, columns_, d)
                             => Kept(rows_, query, orders, d)
    OBVIOUS
  <2>2. PICK fields : fields = rows_[d].fields /\ Mirrored(columns_, d, fields)
    BY DEF Docs, AllMirrored
  <2> QED BY <1>1, <2>2, RequestFinds
<1>4. {d \in selected : Kept(rows_, query, orders, d)} = kept
  BY <1>1, <1>2, <1>3 DEF KeptOf
<1>5. Ordered(rows_, columns_, query, orders, TRUE)
        = PagedOnce(InOrder(rows_, orders,
                            {d \in Fetched(columns_, orders, selected, query, request.window) :
                               Kept(rows_, query, orders, d)}),
                    query, request.window)
  BY <1>1 DEF Ordered, Answer, Docs
<1>6. CASE ~request.window
  BY <1>1, <1>4, <1>5, <1>6 DEF Fetched, PagedOnce
<1>7. CASE request.window
  <2>1. selected = kept
    BY <1>1, <1>2, <1>3, <1>7 DEF KeptOf
  <2>2. AllSortable(rows_, columns_, orders, kept) /\ IsFiniteSet(kept)
    <3>1. kept \subseteq DOMAIN rows_
      BY <1>1 DEF KeptOf, Docs
    <3> QED BY <1>1, <3>1, KeptSortable, FS_Subset
  <2>3. PICK t : t = InOrder(rows_, orders, kept)
    OBVIOUS
  <2>4. t = InColumnOrder(columns_, orders, kept) /\ Lists(t, kept, ByDocs(rows_, orders, kept))
    BY <2>2, <2>3, InOrderLists
  <2>5. t \in Seq(kept)
    BY <2>4 DEF Lists
  <2>6. query.offset \in Nat /\ (query.limit # Missing => query.limit \in Int)
    BY DEF IsQuery
  <2>7. PICK a \in Nat, b \in Nat : b <= Len(t) /\ Paged(t, query) = Slice(t, a, b)
    BY <2>5, <2>6, PagedIsSlice
  <2>8. PICK page : page = SubSeq(t, a + 1, b) /\ page = Paged(t, query)
    BY <2>7 DEF Slice
  <2>9. InOrder(rows_, orders, ToSet(page)) = page
    BY <2>4, <2>7, <2>8, SliceInOrder
  <2>10. ToSet(page) \subseteq kept
    <3>1. page \in Seq(kept)
      BY <2>5, <2>7, <2>8
    <3> QED BY <3>1 DEF ToSet
  <2>11. Fetched(columns_, orders, selected, query, request.window) = ToSet(page)
    BY <1>7, <2>1, <2>4, <2>7, <2>8 DEF Fetched
  <2>12. {d \in ToSet(page) : Kept(rows_, query, orders, d)} = ToSet(page)
    BY <1>1, <2>10 DEF KeptOf
  <2> QED BY <1>1, <1>5, <1>7, <2>3, <2>7, <2>8, <2>9, <2>11, <2>12 DEF PagedOnce
<1> QED BY <1>6, <1>7

\* The plan changes nothing of what a query finds.
LEMMA PlannedIsScanned ==
    ASSUME Marked, NEW rows_, IsFiniteSet(DOMAIN rows_), NEW columns_, AllMirrored(rows_, columns_),
           NEW query, IsQuery(query)
    PROVE  Evaluate(rows_, columns_, query, TRUE) = Evaluate(rows_, columns_, query, FALSE)
<1>1. PICK orders : orders = NormalizeOrders(query) /\ AreOrders(orders)
  BY DEF IsQuery
<1>2. CASE TooLong(query, orders)
  BY <1>1, <1>2 DEF Evaluate, Ordered, Answer
<1>3. CASE ~TooLong(query, orders)
  <2>1. PICK found : found = Paged(InOrder(rows_, orders, KeptOf(rows_, query, orders)), query)
    OBVIOUS
  <2>2. Ordered(rows_, columns_, query, orders, TRUE) = found
    BY <1>1, <1>3, <2>1, Planned
  <2>3. Ordered(rows_, columns_, query, orders, FALSE) = found
    BY <1>3, <2>1, Scanned
  <2> QED BY <1>1, <2>2, <2>3 DEF Evaluate
<1> QED BY <1>2, <1>3

-----------------------------------------------------------------------------
(* Cursors and pages.                                                      *)

IsPage(query, n, paged) ==
    /\ paged = [filters |-> query.filters, orderBy |-> query.orderBy, startAt |-> query.startAt,
                endAt |-> query.endAt, offset |-> query.offset, limit |-> n]

IsAfter(query, cursor, rest) ==
    /\ rest = [filters |-> query.filters, orderBy |-> query.orderBy, startAt |-> cursor,
               endAt |-> query.endAt, offset |-> query.offset, limit |-> query.limit]

LEMMA RecordOf ==
    ASSUME NEW a, NEW b, NEW c, NEW d, NEW e, NEW f, NEW q,
           q = [filters |-> a, orderBy |-> b, startAt |-> c, endAt |-> d, offset |-> e, limit |-> f]
    PROVE  /\ q.filters = a /\ q.orderBy = b /\ q.startAt = c /\ q.endAt = d /\ q.offset = e /\ q.limit = f
           /\ \A n : [q EXCEPT !.limit = n] =
                 [filters |-> a, orderBy |-> b, startAt |-> c, endAt |-> d, offset |-> e, limit |-> n]
           /\ \A s : [q EXCEPT !.startAt = s] =
                 [filters |-> a, orderBy |-> b, startAt |-> s, endAt |-> d, offset |-> e, limit |-> f]
OBVIOUS

LEMMA QueryVaried ==
    ASSUME NEW query, IsQuery(query), Unpaged(query)
    PROVE  /\ \A n : IsPage(query, n, [query EXCEPT !.limit = n])
           /\ \A s : IsAfter(query, s, [query EXCEPT !.startAt = s])
<1>1. PICK a, b, c, d, e, f :
          /\ a = query.filters /\ b = query.orderBy /\ c = query.startAt /\ d = query.endAt
          /\ e = query.offset /\ f = query.limit
  OBVIOUS
<1>2. query = [filters |-> a, orderBy |-> b, startAt |-> c, endAt |-> d, offset |-> e, limit |-> f]
  BY <1>1 DEF IsQuery
<1> QED BY <1>1, <1>2, RecordOf DEF IsPage, IsAfter

LEMMA OrdersStay ==
    ASSUME NEW query, NEW other, other.filters = query.filters, other.orderBy = query.orderBy
    PROVE  NormalizeOrders(other) = NormalizeOrders(query)
BY DEF NormalizeOrders, Implied, Unequal

\* A page asks for as many.
LEMMA PageIs ==
    ASSUME NEW query, IsQuery(query), Unpaged(query), NEW n \in PageSizes, NEW paged, IsPage(query, n, paged)
    PROVE  /\ IsQuery(paged) /\ NormalizeOrders(paged) = NormalizeOrders(query)
           /\ paged.offset = 0 /\ paged.limit = n /\ n \in Nat /\ n > 0 /\ n # Missing
           /\ \A rows_, orders, d : Kept(rows_, paged, orders, d) <=> Kept(rows_, query, orders, d)
           /\ \A orders : ~TooLong(paged, orders) /\ ~TooLong(query, orders)
<1>1. /\ paged.filters = query.filters /\ paged.orderBy = query.orderBy /\ paged.startAt = query.startAt
      /\ paged.endAt = query.endAt /\ paged.offset = query.offset /\ paged.limit = n
  BY RecordOf DEF IsPage
<1>2. n \in Nat /\ n > 0 /\ n # Missing
  BY QueriesAssumption
<1>3. query.startAt = Missing /\ query.endAt = Missing /\ query.offset = 0
  BY DEF Unpaged
<1>4. NormalizeOrders(paged) = NormalizeOrders(query)
  BY <1>1, OrdersStay
<1>5. paged = [filters |-> paged.filters, orderBy |-> paged.orderBy, startAt |-> paged.startAt,
               endAt |-> paged.endAt, offset |-> paged.offset, limit |-> paged.limit]
  BY <1>1 DEF IsPage
<1>6. /\ \A k \in DOMAIN query.filters : IsFilter(query.filters[k])
      /\ AreOrders(NormalizeOrders(query))
      /\ \A c \in {query.startAt, query.endAt} \ {Missing} : IsCursor(c)
      /\ query.offset \in Nat
  BY DEF IsQuery
<1>7. IsQuery(paged)
  BY <1>1, <1>2, <1>4, <1>5, <1>6 DEF IsQuery
<1>8. \A rows_, orders, d : Kept(rows_, paged, orders, d) <=> Kept(rows_, query, orders, d)
  BY <1>1 DEF Kept
<1>9. \A orders : ~TooLong(paged, orders) /\ ~TooLong(query, orders)
  BY <1>1, <1>3 DEF TooLong
<1> QED BY <1>1, <1>2, <1>3, <1>4, <1>7, <1>8, <1>9

\* What comes after a document.
LEMMA AfterIs ==
    ASSUME Marked, NEW query, IsQuery(query), Unpaged(query),
           NEW orders, orders = NormalizeOrders(query),
           NEW cursor, IsCursor(cursor), cursor # Missing, ~cursor.before, Len(cursor.values) = Len(orders),
           NEW rest, IsAfter(query, cursor, rest)
    PROVE  /\ IsQuery(rest) /\ NormalizeOrders(rest) = orders /\ ~TooLong(rest, orders)
           /\ rest.offset = 0 /\ rest.limit = Missing
           /\ \A rows_, d : Kept(rows_, rest, orders, d)
                              <=> /\ Kept(rows_, query, orders, d)
                                  /\ CompareToCursor(rows_, orders, d, cursor.values) = 1
<1>1. /\ rest.filters = query.filters /\ rest.orderBy = query.orderBy /\ rest.startAt = cursor
      /\ rest.endAt = query.endAt /\ rest.offset = query.offset /\ rest.limit = query.limit
  BY RecordOf DEF IsAfter
<1>2. query.startAt = Missing /\ query.endAt = Missing /\ query.offset = 0 /\ query.limit = Missing
  BY DEF Unpaged
<1>3. NormalizeOrders(rest) = orders
  BY <1>1, OrdersStay
<1>4. rest = [filters |-> rest.filters, orderBy |-> rest.orderBy, startAt |-> rest.startAt,
              endAt |-> rest.endAt, offset |-> rest.offset, limit |-> rest.limit]
  BY <1>1 DEF IsAfter
<1>5. /\ \A k \in DOMAIN query.filters : IsFilter(query.filters[k])
      /\ AreOrders(NormalizeOrders(query))
  BY DEF IsQuery
<1>6. IsQuery(rest)
  BY <1>1, <1>2, <1>3, <1>4, <1>5 DEF IsQuery
<1>7. Len(orders) \in Nat
  BY <1>5, OrdersAt
<1>8. ~TooLong(rest, orders)
  BY <1>1, <1>2, <1>7 DEF TooLong
<1>9. ASSUME NEW rows_, NEW d
      PROVE  Kept(rows_, rest, orders, d)
               <=> Kept(rows_, query, orders, d) /\ CompareToCursor(rows_, orders, d, cursor.values) = 1
  <2>1. Bounded(CompareToCursor(rows_, orders, d, cursor.values), 1, cursor.before)
          <=> CompareToCursor(rows_, orders, d, cursor.values) = 1
    BY DEF Bounded
  <2>2. CursorsKeep(rows_, query, orders, d)
    BY <1>2 DEF CursorsKeep
  <2>3. CursorsKeep(rows_, rest, orders, d) <=> CompareToCursor(rows_, orders, d, cursor.values) = 1
    BY <1>1, <1>2, <2>1 DEF CursorsKeep
  <2>4. FiltersKeep(rows_[d].fields, rest, d) <=> FiltersKeep(rows_[d].fields, query, d)
    BY <1>1 DEF FiltersKeep
  <2> QED BY <2>2, <2>3, <2>4, KeptIs
<1> QED BY <1>1, <1>2, <1>3, <1>6, <1>8, <1>9

\* The cursor of a document compares as the document does.
LEMMA CursorCompares ==
    ASSUME NEW rows_, NEW orders, AreOrders(orders), NEW d, NEW e, NEW values,
           values = [k \in DOMAIN orders |-> FieldValue(e, rows_[e].fields, orders[k].path)]
    PROVE  CompareToCursor(rows_, orders, d, values) = CompareDocs(rows_, orders, d, e)
<1>1. PICK n \in Nat : n = Len(orders) /\ DOMAIN orders = 1 .. n
  BY OrdersAt
<1>2. Len(values) = n
  BY <1>1
<1>3. Shorter(Len(values), Len(orders)) = n
  BY <1>1, <1>2 DEF Shorter
<1> QED BY <1>1, <1>3 DEF CompareToCursor, CompareDocs

LEMMA TailIs ==
    ASSUME NEW t, NEW S, NEW R, Lists(t, S, R), NEW m \in 1 .. Len(t)
    PROVE  {d \in S : <<t[m], d>> \in R} = ToSet(Slice(t, m, Len(t)))
<1>1. PICK n \in Nat : n = Len(t)
  BY DEF Lists
<1>2. t \in Seq(S) /\ m \in Nat /\ m <= n
  BY <1>1 DEF Lists
<1>3. PICK u : u = Slice(t, m, n)
  OBVIOUS
<1>4. Sliced(S, t, m, n, u)
  BY <1>1, <1>2, <1>3, SliceIs
<1>5. /\ u \in Seq(S)
      /\ (m < n /\ Len(u) = n - m) \/ (m >= n /\ Len(u) = 0)
      /\ \A i \in 1 .. Len(u) : u[i] = t[m + i] /\ m + i \in 1 .. n
  BY <1>1, <1>4 DEF Sliced
<1>6. ToSet(u) = {u[i] : i \in 1 .. Len(u)}
  BY <1>5 DEF ToSet
<1>7. ASSUME NEW d \in S, <<t[m], d>> \in R PROVE d \in ToSet(u)
  <2>1. PICK j \in 1 .. n : t[j] = d
    BY <1>1 DEF Lists
  <2>2. m < j
    BY <1>1, <1>7, <2>1 DEF Lists
  <2>3. PICK i \in 1 .. Len(u) : j = m + i
    <3>1. j - m \in 1 .. Len(u) /\ j = m + (j - m)
      BY <1>2, <1>5, <2>1, <2>2
    <3> QED BY <3>1
  <2> QED BY <1>5, <1>6, <2>1, <2>3
<1>8. ASSUME NEW i \in 1 .. Len(u) PROVE u[i] \in S /\ <<t[m], u[i]>> \in R
  <2>1. PICK j \in 1 .. n : j = m + i /\ u[i] = t[j] /\ m < j
    BY <1>2, <1>5
  <2>2. t[j] \in S
    BY <1>1, <1>2
  <2>3. <<t[m], t[j]>> \in R
    BY <1>1, <2>1 DEF Lists
  <2> QED BY <2>1, <2>2, <2>3
<1> QED BY <1>1, <1>3, <1>6, <1>7, <1>8

LEMMA DocsReverse ==
    ASSUME Marked, NEW rows_, NEW columns_, NEW orders, AreOrders(orders), NEW d, NEW e,
           Sortable(rows_, columns_, orders, d), Sortable(rows_, columns_, orders, e)
    PROVE  CompareDocs(rows_, orders, d, e) = 1 <=> CompareDocs(rows_, orders, e, d) < 0
<1>1. PICK n, up, x, y :
          /\ n = Len(orders) /\ up = UpOf(orders)
          /\ x = KeysOf(columns_, orders, d) /\ y = KeysOf(columns_, orders, e)
  OBVIOUS
<1>2. n \in Nat /\ Directions(n, up) /\ Keys(n, x) /\ Keys(n, y)
  BY <1>1, SortableKeys
<1>3. /\ CompareDocs(rows_, orders, d, e) = CompareKeys(up, n, x, y)
      /\ CompareDocs(rows_, orders, e, d) = CompareKeys(up, n, y, x)
  BY <1>1, DocOrder, ColumnOrder
<1>4. PICK c \in {-1, 0, 1} : c = CompareKeys(up, n, x, y)
  BY <1>2, KeysBefore
<1>5. CompareKeys(up, n, y, x) = -c
  BY <1>2, <1>4, KeysReverse
<1> QED BY <1>3, <1>4, <1>5

LEMMA LastOf ==
    ASSUME NEW S, NEW page \in Seq(S), page # << >>
    PROVE  Last(page) = page[Len(page)]
BY DEF Last

\* A page, and what comes after its last document.
LEMMA PagesTileHere ==
    ASSUME Marked, IsFiniteSet(DOMAIN rows), AllMirrored(rows, columns),
           NEW query, IsQuery(query), Unpaged(query), NEW n \in PageSizes
    PROVE  PagesTile(query, n)
<1>1. PICK orders, kept, t, paged :
          /\ orders = NormalizeOrders(query) /\ kept = KeptOf(rows, query, orders)
          /\ t = InOrder(rows, orders, kept) /\ paged = [query EXCEPT !.limit = n]
  OBVIOUS
<1>2. AreOrders(orders)
  BY <1>1 DEF IsQuery
<1>3. IsPage(query, n, paged)
  BY <1>1, QueryVaried
<1>4. /\ IsQuery(paged) /\ NormalizeOrders(paged) = orders
      /\ paged.offset = 0 /\ paged.limit = n /\ n \in Nat /\ n > 0 /\ n # Missing
      /\ \A d : Kept(rows, paged, orders, d) <=> Kept(rows, query, orders, d)
      /\ ~TooLong(paged, orders) /\ ~TooLong(query, orders)
  BY <1>1, <1>3, PageIs
<1>5. query.offset = 0 /\ query.limit = Missing
  BY DEF Unpaged
<1>6. AllSortable(rows, columns, orders, kept) /\ IsFiniteSet(kept)
  <2>1. kept \subseteq DOMAIN rows
    BY <1>1 DEF KeptOf, Docs
  <2> QED BY <1>1, <1>2, <2>1, KeptSortable, FS_Subset
<1>7. PICK before : before = ByDocs(rows, orders, kept) /\ Lists(t, kept, before)
  BY <1>1, <1>2, <1>6, InOrderLists
<1>8. t \in Seq(kept)
  BY <1>7 DEF Lists
<1>9. PICK found : found = Evaluate(rows, columns, query, TRUE)
  OBVIOUS
<1>10. found = t
  <2>1. found = Paged(t, query)
    BY <1>1, <1>2, <1>4, <1>9, Planned DEF Evaluate
  <2> QED BY <1>5, <2>1 DEF Paged
<1>11. PICK page : page = Evaluate(rows, columns, paged, TRUE)
  OBVIOUS
<1>12. PICK length \in Nat, m \in Nat : length = Len(t) /\ m = Shorter(n, length)
  BY <1>4, <1>8 DEF Shorter
<1>13. m <= length /\ m <= n /\ (m = n \/ m = length)
  BY <1>4, <1>12 DEF Shorter
<1>14. page = Slice(t, 0, m)
  <2>1. KeptOf(rows, paged, orders) = kept
    BY <1>1, <1>4 DEF KeptOf
  <2>2. page = Paged(t, paged)
    BY <1>1, <1>2, <1>4, <1>11, <2>1, Planned DEF Evaluate
  <2>3. Paged(t, paged) = SubSeq(t, 1, m)
    BY <1>4, <1>12 DEF Paged
  <2>4. SubSeq(t, 1, m) = Slice(t, 0, m)
    BY DEF Slice
  <2> QED BY <2>2, <2>3, <2>4
<1>15. Sliced(kept, t, 0, m, page)
  BY <1>8, <1>12, <1>13, <1>14, SliceIs
<1>16. page \in Seq(kept) /\ Len(page) = m /\ \A i \in 1 .. m : page[i] = t[i]
  <2>1. /\ page \in Seq(kept)
        /\ (0 < m /\ Len(page) = m - 0) \/ (0 >= m /\ Len(page) = 0)
        /\ \A i \in 1 .. Len(page) : page[i] = t[0 + i]
    BY <1>15 DEF Sliced
  <2> QED BY <1>12, <2>1
<1>17. CASE page = << >>
  <2>1. m = 0 /\ length = 0
    BY <1>4, <1>12, <1>13, <1>16, <1>17
  <2>2. t = << >>
    BY <1>8, <1>12, <2>1, EmptySeq
  <2> QED BY <1>1, <1>9, <1>10, <1>11, <1>17, <2>2 DEF PagesTile
<1>18. CASE page # << >>
  <2>1. m > 0 /\ m \in 1 .. length
    BY <1>12, <1>13, <1>16, <1>18
  <2>2. PICK e : e = t[m] /\ e = Last(page) /\ e \in kept
    <3>1. Last(page) = page[m]
      BY <1>16, <1>18, LastOf
    <3>2. page[m] = t[m] /\ t[m] \in kept
      BY <1>8, <1>12, <1>16, <2>1
    <3> QED BY <3>1, <3>2
  <2>3. PICK cursor, values :
            /\ cursor = CursorAfter(e, orders) /\ cursor = [values |-> values, before |-> FALSE]
            /\ values = [k \in DOMAIN orders |-> FieldValue(e, rows[e].fields, orders[k].path)]
    BY DEF CursorAfter
  <2>4. cursor.values = values /\ cursor.before = FALSE /\ cursor # Missing
    BY <2>3 DEF Marked
  <2>5. values \in Seq(Known) /\ Len(values) = Len(orders)
    <3>1. PICK l \in Nat : l = Len(orders) /\ DOMAIN orders = 1 .. l
      BY <1>2, OrdersAt
    <3>2. \A k \in 1 .. l : FieldValue(e, rows[e].fields, orders[k].path) \in Known
      BY <1>2, <1>6, <2>2, <3>1, SortableAt DEF AllSortable
    <3> QED BY <2>3, <3>1, <3>2
  <2>6. IsCursor(cursor) /\ ~cursor.before /\ Len(cursor.values) = Len(orders)
    BY <2>4, <2>5 DEF IsCursor
  <2>0. PICK next : next = [query EXCEPT !.startAt = cursor]
    OBVIOUS
  <2>7. IsAfter(query, cursor, next)
    BY <2>0, QueryVaried
  <2>8. /\ IsQuery(next) /\ NormalizeOrders(next) = orders /\ ~TooLong(next, orders)
        /\ next.offset = 0 /\ next.limit = Missing
        /\ \A d : Kept(rows, next, orders, d)
                    <=> Kept(rows, query, orders, d) /\ CompareToCursor(rows, orders, d, cursor.values) = 1
    BY <1>1, <2>4, <2>6, <2>7, AfterIs
  <2>9. PICK rest : rest = Slice(t, m, length)
    OBVIOUS
  <2>10. KeptOf(rows, next, orders) = ToSet(rest)
    <3>1. \A d \in kept : CompareToCursor(rows, orders, d, cursor.values) = CompareDocs(rows, orders, d, e)
      BY <1>2, <2>3, <2>4, CursorCompares
    <3>2. \A d \in kept : CompareDocs(rows, orders, d, e) = 1 <=> CompareDocs(rows, orders, e, d) < 0
      BY <1>2, <1>6, <2>2, DocsReverse DEF AllSortable
    <3>3. \A d \in kept : CompareDocs(rows, orders, e, d) < 0 <=> <<e, d>> \in before
      BY <1>7, <2>2 DEF ByDocs
    <3>4. KeptOf(rows, next, orders) = {d \in kept : CompareToCursor(rows, orders, d, cursor.values) = 1}
      BY <1>1, <2>8 DEF KeptOf
    <3>5. KeptOf(rows, next, orders) = {d \in kept : <<e, d>> \in before}
      BY <3>1, <3>2, <3>3, <3>4
    <3>6. {d \in kept : <<t[m], d>> \in before} = ToSet(rest)
      BY <1>7, <1>12, <2>1, <2>9, TailIs
    <3> QED BY <2>2, <3>5, <3>6
  <2>11. Evaluate(rows, columns, next, TRUE) = rest
    <3>1. InOrder(rows, orders, ToSet(rest)) = rest
      <4>1. rest = SubSeq(t, m + 1, length)
        BY <2>9 DEF Slice
      <4>2. Lists(t, kept, ByDocs(rows, orders, kept)) /\ length <= Len(t)
        BY <1>7, <1>12
      <4>3. InOrder(rows, orders, ToSet(SubSeq(t, m + 1, length))) = SubSeq(t, m + 1, length)
        BY <4>2, SliceInOrder
      <4> QED BY <4>1, <4>3
    <3>2. Ordered(rows, columns, next, orders, TRUE) = Paged(rest, next)
      BY <1>2, <2>8, <2>10, <3>1, Planned
    <3>3. Paged(rest, next) = rest
      BY <2>8 DEF Paged
    <3> QED BY <2>8, <3>2, <3>3 DEF Evaluate
  <2>12. t = page \o rest
    <3>1. t = SubSeq(t, 1, m) \o SubSeq(t, m + 1, length)
      <4>1. SubSeq(t, 1, m) \o SubSeq(t, m + 1, length) = SubSeq(t, 1, length)
        <5>1. 1 \in 1 .. Len(t) + 1 /\ m \in 1 - 1 .. Len(t) /\ length \in m .. Len(t)
          BY <1>12, <2>1
        <5> QED BY <1>8, <5>1, ConcatAdjacentSubSeq
      <4>2. SubSeq(t, 1, length) = t
        BY <1>8, <1>12, SubSeqFull
      <4> QED BY <4>1, <4>2
    <3>2. SubSeq(t, 1, m) = page
      BY <1>14 DEF Slice
    <3>3. SubSeq(t, m + 1, length) = rest
      BY <2>9 DEF Slice
    <3> QED BY <3>1, <3>2, <3>3
  <2> QED BY <1>1, <1>9, <1>10, <1>11, <1>18, <2>2, <2>3, <2>0, <2>11, <2>12 DEF PagesTile, Onward
<1> QED BY <1>17, <1>18

LEMMA RowsMirrored ==
    ASSUME CollectionInv, DocsKnown
    PROVE  IsFiniteSet(DOMAIN rows) /\ AllMirrored(rows, columns)
<1>1. IsFiniteSet(DOMAIN rows)
  BY RowsAssumption DEF CollectionInv
<1>2. ASSUME NEW d \in DOMAIN rows, rows[d] # Missing PROVE Mirrored(columns, d, rows[d].fields)
  <2>1. columns[d] = IndexDocument(rows[d].fields)
    BY <1>2 DEF CollectionInv, ColumnsFollow, ColumnsOf
  <2>2. DocKnown(d, rows[d].fields)
    BY <1>2 DEF DocsKnown, DocKnown
  <2> QED BY <2>1, <2>2 DEF Mirrored
<1> QED BY <1>1, <1>2 DEF AllMirrored

LEMMA PlansKeepHere == Marked /\ CollectionInv /\ DocsKnown => PlansKeepResults
<1>1. SUFFICES ASSUME Marked, CollectionInv, DocsKnown PROVE PlansKeepResults
  OBVIOUS
<1>2. IsFiniteSet(DOMAIN rows) /\ AllMirrored(rows, columns)
  BY <1>1, RowsMirrored
<1>3. \A q \in Queried : Evaluate(rows, columns, q, TRUE) = Evaluate(rows, columns, q, FALSE)
  BY <1>1, <1>2, QueriesAssumption, PlannedIsScanned
<1> QED BY <1>3 DEF PlansKeepResults

LEMMA CursorsTileHere == Marked /\ CollectionInv /\ DocsKnown => CursorsTile
<1>1. SUFFICES ASSUME Marked, CollectionInv, DocsKnown PROVE CursorsTile
  OBVIOUS
<1>2. IsFiniteSet(DOMAIN rows) /\ AllMirrored(rows, columns)
  BY <1>1, RowsMirrored
<1>3. \A q \in Queried, n \in PageSizes : Unpaged(q) => PagesTile(q, n)
  BY <1>1, <1>2, QueriesAssumption, PagesTileHere
<1> QED BY <1>3 DEF CursorsTile

\* In every state of the collection, whatever was committed, a query finds the
\* same documents in the same order with the plan and the stored columns as by
\* the exact semantics over all the documents (run_query, plan.rs).
THEOREM PlansKeepResultsAlways ==
    ASSUME Marked
    PROVE  Spec /\ []DocsKnown => []PlansKeepResults
<1>1. Init => CollectionInv
  BY CollectionInit
<1>2. CollectionInv /\ [Next]_vars => CollectionInv'
  BY CollectionStep
<1>3. CollectionInv /\ DocsKnown => PlansKeepResults
  BY PlansKeepHere
<1> QED BY <1>1, <1>2, <1>3, PTL DEF Spec

\* And a page followed by what comes after its last document is all that was
\* asked for (cursor_bound, query.rs).
THEOREM CursorsTileAlways ==
    ASSUME Marked
    PROVE  Spec /\ []DocsKnown => []CursorsTile
<1>1. Init => CollectionInv
  BY CollectionInit
<1>2. CollectionInv /\ [Next]_vars => CollectionInv'
  BY CollectionStep
<1>3. CollectionInv /\ DocsKnown => CursorsTile
  BY CursorsTileHere
<1> QED BY <1>1, <1>2, <1>3, PTL DEF Spec
=============================================================================
