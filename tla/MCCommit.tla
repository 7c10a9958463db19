------------------------------- MODULE MCCommit -------------------------------
(***************************************************************************)
(* Batches for model checking the write path on small instances.           *)
(***************************************************************************)
EXTENDS CommitProps, TLC

CONSTANTS d1, d2

Always == [kind |-> "none", at |-> 0]
Exists == [kind |-> "exists", at |-> 0]
Absent == [kind |-> "absent", at |-> 0]
AtVersion(v) == [kind |-> "version", at |-> v]

Set(pre) == [op |-> "set", pre |-> pre]
Merge(pre) == [op |-> "merge", pre |-> pre]
Delete == [op |-> "delete", pre |-> Always]
Verify(pre) == [op |-> "verify", pre |-> pre]

\* A write decided by another document, and what undoes it.
CrossBatches ==
    {d1 :> Delete, (d1 :> Merge(Always)) @@ (d2 :> Set(Absent)),
     (d1 :> Verify(Exists)) @@ (d2 :> Merge(Always))}

\* Writers of one document, one of them deletes it if it is at a version.
OneDocBatches == {d1 :> Merge(Always), d1 :> [Delete EXCEPT !.pre = AtVersion(1)]}

\* One write that lands, one that a missing document refuses.
FewBatches == {d1 :> Merge(Always), d1 :> Set(Exists)}

Symmetry == Permutations(Requests)
=============================================================================
