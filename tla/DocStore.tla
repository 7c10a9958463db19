------------------------------- MODULE DocStore -------------------------------
(***************************************************************************)
(* What a Firestore-compatible store promises its clients: a commit is one *)
(* indivisible step.  At that step everything its transaction read is      *)
(* still what the store holds, every precondition holds of what the store  *)
(* holds, all of its writes land together on what the store holds, and no  *)
(* request lands twice.  How a commit gets there (locks, optimistic        *)
(* validation, MongoDB transactions, retries) does not appear.             *)
(*                                                                         *)
(* `history` lists the commits in the order they took effect, each with    *)
(* the reads it relied on, its batch and the rows it left behind.          *)
(***************************************************************************)
EXTENDS DocWrites, Sequences

VARIABLES store, history

Init ==
    /\ store = [d \in Docs |-> NoRow]
    /\ history = << >>

\* The commit recorded as c takes effect.
Commit(c) ==
    /\ \A k \in DOMAIN history : history[k].req # c.req
    /\ \A read \in c.reads : store[read[1]] = read[2]
    /\ Passes(c.writes, store)
    /\ \A d \in Changed(c.writes) :
          c.after[d] = Written(c.writes[d], store[d], c.at, c.req)
    /\ history' = Append(history, c)
    /\ store' = [d \in Docs |->
                   IF d \in Changed(c.writes) THEN c.after[d] ELSE store[d]]

\* The emulator's reset endpoint drops every document.
Clear ==
    /\ store' = [d \in Docs |-> NoRow]
    /\ UNCHANGED history

Next ==
    \/ /\ Len(history') = Len(history) + 1
       /\ Commit(history'[Len(history')])
    \/ Clear

vars == <<store, history>>

Spec == Init /\ [][Next]_vars
=============================================================================
