------------------------------ MODULE DataProps ------------------------------
(***************************************************************************)
(* What must be true of the writes of a commit, for each of the inputs     *)
(* given.                                                                  *)
(***************************************************************************)
EXTENDS WriteBatch

Compares(a, b) == Compared(a, b) = 0

AfterNext(view, done) ==
    [error |-> done.error, docs |-> Persisted(view.docs, done)]

CommittedNext(view, write, now) ==
    IF view.error # "none" THEN view ELSE AfterNext(view, ApplyWrites(view.docs, <<write>>, now))

\* Of its document the batch has before write k nothing but verifies.
OnlyVerified(writes, k) ==
    LET earlier == {j \in 1 .. k - 1 : writes[j].doc = writes[k].doc}
    IN  earlier # {} /\ \A j \in earlier : writes[j].op = "verify"

\* What a write asks of the stored document.  A verify moves the update time in
\* memory and stores nothing, so that a version asked for after it is compared
\* with the time of the batch: that time fits, if the document is there, and no
\* other does, that of the stored document neither.
AsCompared(writes, k, now) ==
    LET w == writes[k]
        asked == IF w.precondition.at = now THEN [kind |-> "exists"]
                 ELSE [kind |-> "updated", at |-> now]
    IN  IF ~(w.precondition.kind = "updated" /\ OnlyVerified(writes, k)) THEN w
        ELSE [doc |-> w.doc, op |-> w.op, precondition |-> asked, fields |-> w.fields,
              mask |-> w.mask, transforms |-> w.transforms]

\* One after another, each write a commit of its own.
Commits(docs, writes, now) ==
    LET view[k \in 0 .. Len(writes)] ==
          IF k = 0 THEN [error |-> "none", docs |-> docs]
          ELSE CommittedNext(view[k - 1], AsCompared(writes, k, now), now)
    IN  view

OneByOne(docs, writes, now) == Commits(docs, writes, now)[Len(writes)]

\* "Preconditions are checked against the evolving in-memory state"
\* (apply_commit): a batch is refused exactly when its writes would be, made
\* one after another, with the same error, and leaves the documents they
\* would leave; refused, it leaves them all as they were.  One kind of write is
\* compared otherwise than it would be alone: one that asks for the version of a
\* document that the batch has only verified (AsCompared).  The time of the batch
\* is none that a document has.
BatchIsItsWrites(docs, writes, now) ==
    LET same(one, all) ==
          /\ all.error = one.error
          /\ Persisted(docs, all) = IF one.error = "none" THEN one.docs ELSE docs
    IN  (\A d \in DOMAIN docs : docs[d] # Missing => docs[d].updated # now)
          => same(OneByOne(docs, writes, now), ApplyWrites(docs, writes, now))

Related(p, q) == IsPrefix(p, q) \/ IsPrefix(q, p)

\* "Merge: each mask path is set from the update document, or deleted when
\* absent there" (apply_write): after the merge a path of the mask is as in
\* the update, and every path that has nothing to do with the mask as before.
MergeFollowsMask(fields, mask, update, paths) ==
    \A merged \in {Merged(fields, mask, update)} :
        \A p \in paths :
            IF \E k \in DOMAIN mask : mask[k] = p
            THEN GetField(merged, p) = GetField(update, p)
            ELSE (\A k \in DOMAIN mask : ~Related(mask[k], p))
                    => GetField(merged, p) = GetField(fields, p)

\* "increment saturates on int64 overflow; maximum/minimum are NaN-aware;
\* array union/remove use index-value equality" (commit.rs): on any field and
\* any operand an increment of integers is as near to the sum as an integer
\* is, the greater (or lesser) number wins, and a union or a removal leaves
\* elements that are in order, and repeated it does nothing.
IncrementStays(current, operand) ==
    IsNumber(current) /\ IsNumber(operand)
      /\ current.num.kind = "int" /\ operand.num.kind = "int"
      => \A sum \in {Increment(current, operand).num.i},
            true \in {current.num.i + operand.num.i} :
             /\ sum \in MinInt .. MaxInt
             /\ \A n \in {MinInt, MaxInt, true} \cap (MinInt .. MaxInt) :
                  Magnitude(true - sum) <= Magnitude(true - n)

ExtremeWins(current, operand) ==
    IsNumber(operand) =>
        \A want \in {1, -1} :
            \A v \in {MaxMin(current, operand, want)} :
                /\ v \in {current, operand}
                /\ IsNumber(v)
                /\ IsNaNValue(v) <=> IsNaNValue(current) \/ IsNaNValue(operand)
                /\ IsNumber(current) /\ ~IsNaNValue(v) =>
                     \A other \in {current, operand} : want * Compared(v, other) >= 0

ArraysAsSets(current, operand) ==
    operand # Missing =>
        \A union \in {AppendMissing(current, <<operand, operand>>)},
           rest \in {RemoveAll(current, <<operand, operand>>)} :
            /\ IsPrefix(Elements(current), union)
            /\ \E k \in DOMAIN union : Compares(union[k], operand)
            /\ AppendMissing(Array(union), <<operand, operand>>) = union
            /\ \A k \in DOMAIN rest : ~Compares(rest[k], operand)
            /\ rest = SelectSeq(Elements(current), LAMBDA v : ~Compares(v, operand))

TransformsMean(current, operand) ==
    /\ IncrementStays(current, operand)
    /\ ExtremeWins(current, operand)
    /\ ArraysAsSets(current, operand)
=============================================================================
