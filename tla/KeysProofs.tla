------------------------------ MODULE KeysProofs ------------------------------
(***************************************************************************)
(* Theorems about the signing keys, for every number of processes, calls,  *)
(* rotations and misses, and every length of the intervals involved.       *)
(*                                                                         *)
(* The argument is about time.  A reload and a rotation take OpTime at     *)
(* most, so the rotation that retires a key some process has just read     *)
(* began at most 2 * OpTime before the process took the key for its own.   *)
(* The process signs with it for RefreshInterval at most, what it signs    *)
(* lives for TokenTTL, and Slack makes up for the two operations.          *)
(***************************************************************************)
EXTENDS SigningKeysProps, ExternalKeysProps, TLAPS

Loading == {"loading", "inserting", "loaded"}

Serving == {"asking", "stale", "missing"} \cup Loading

KeyRow == [role : Nat, id : Nat, private : Nat, sealed : BOOLEAN, retireAfter : Nat]

Token == [id : Nat, private : Nat, expires : Nat]

Copy == [at : Nat, id : Nat, private : Nat, verifying : SUBSET Nat]

Call == [pc : Over \cup Serving \cup {"rotating", "swapping", "purging", "clearing", "sealing"},
         op : {None, "mint", "check", "rotate", "seal"}, inst : Instances \cup {None},
         token : Token \cup {None}, expires : Nat, rows : SUBSET KeyRow, began : Nat,
         missed : BOOLEAN]

\* Every variable has its type.
ShapeInv ==
    /\ mix \in KeyMixes /\ withKek \in SUBSET Instances
    /\ now \in Nat /\ now <= LastSecond /\ made \in Nat
    /\ keys \in SUBSET KeyRow
    /\ copy \in [Instances -> Copy \cup {None}]
    /\ lock \in [Instances -> Tasks \cup {None}]
    /\ lastMiss \in [Instances -> Nat \cup {None}]
    /\ tokens \in SUBSET Token
    /\ call \in [Tasks -> Call]

\* Where a call is says what it is, and how long it has been there.
ControlInv ==
    \A t \in Tasks :
        /\ call[t].pc \notin Over => call[t].inst \in Instances
        /\ call[t].pc \in Serving => call[t].op \in {"mint", "check"}
        /\ call[t].pc = "missing" => call[t].op = "check"
        /\ call[t].op = "check" => call[t].pc \in Serving /\ call[t].token \in Token
        /\ call[t].op = "mint" => call[t].expires <= now + TokenTTL
        /\ call[t].missed => call[t].pc \in Loading
        /\ call[t].pc \in {"rotating", "swapping", "purging"} => "rotate" \in mix
        /\ call[t].pc = "sealing" => "seal" \in mix
        /\ call[t].pc \in Loading \cup {"rotating", "swapping", "purging"} => call[t].began <= now
        /\ call[t].pc \in Loading \cup {"rotating", "swapping"} => now <= call[t].began + OpTime

\* A lock is held by a call of its process that is reloading.
LockInv ==
    \A i \in Instances : lock[i] # None =>
        call[lock[i]].pc \in Loading /\ call[lock[i]].inst = i

\* Rows differ in id and in role; a role is that of the active key or the id.
RowsInv ==
    /\ \A k \in keys :
         /\ k.id \in 1 .. made /\ k.private \in 1 .. made /\ k.role \in {Active, k.id}
         /\ k.role = Active => k.retireAfter = 0
    /\ \A j, k \in keys : j.role = k.role \/ j.id = k.id => j = k
    /\ \A t \in Tasks : \A k \in call[t].rows : k.private \in 1 .. made

\* The key is there and will be at second s: it is active, or retired until then.
KeptUntil(id, s) ==
    \E k \in keys : k.id = id /\ (k.role = Active \/ k.retireAfter >= s)

\* A key with which a process may sign was active when the process read it, and
\* whatever rotation has retired it since began after that, or a little before.
CopiesKept ==
    \A i \in Instances : copy[i] # None =>
        /\ copy[i].at <= now /\ copy[i].id \in copy[i].verifying
        /\ Fresh(i) => KeptUntil(copy[i].id, copy[i].at - 2 * OpTime + Grace)

LoadsKept ==
    \A t \in Tasks :
        /\ call[t].pc = "loaded" => ActiveKeys(call[t].rows) # {}
        /\ call[t].pc \in {"inserting", "loaded"} =>
             \A k \in ActiveKeys(call[t].rows) : KeptUntil(k.id, call[t].began - OpTime + Grace)

\* The key of a token is there now, and until the token expires.
TokensKept ==
    \A token \in tokens :
        /\ token.expires <= now + TokenTTL
        /\ KeptUntil(token.id, now) /\ KeptUntil(token.id, token.expires)

\* A token somebody has is known as long as it lives, and its key is among the
\* rows of a call that has read them to verify it.
ChecksFind ==
    \A t \in Tasks : call[t].op = "check" /\ now <= call[t].token.expires =>
        /\ call[t].token \in tokens
        /\ call[t].pc \in {"inserting", "loaded"} => \E k \in call[t].rows : k.id = call[t].token.id

\* Wherever the private half of a key is, it is that key's.
PrivateRight ==
    /\ \A k \in keys : k.private = k.id
    /\ \A t \in Tasks : \A k \in call[t].rows : k.private = k.id
    /\ \A i \in Instances : copy[i] # None => copy[i].private = copy[i].id
    /\ \A token \in tokens : token.private = token.id

\* What a sealing has read is still in the row of its role.
SealsCurrent ==
    \A t \in Tasks : call[t].pc = "sealing" =>
        \A k \in call[t].rows : \E row \in keys : row.role = k.role /\ row.id = k.id

Inv ==
    /\ ShapeInv /\ ControlInv /\ LockInv /\ RowsInv
    /\ CopiesKept /\ LoadsKept /\ TokensKept /\ ChecksFind

-----------------------------------------------------------------------------
(* What a step does to one call.                                           *)

CallStep(t) ==
    \/ call'[t] = call[t]
    \/ \E pc \in Over : call'[t] = [Waiting EXCEPT !.pc = pc]
    \/ \E i \in Instances :
         call'[t] = [Waiting EXCEPT !.pc = "asking", !.op = "mint", !.inst = i,
                                    !.expires = now + TokenTTL]
    \/ \E i \in Instances, token \in tokens :
         /\ call'[t] = [Waiting EXCEPT !.pc = "asking", !.op = "check", !.inst = i,
                                       !.token = token]
         /\ tokens' = tokens
    \/ \E i \in Instances :
         /\ call'[t] = [Waiting EXCEPT !.pc = "rotating", !.op = "rotate", !.inst = i,
                                       !.began = now]
         /\ "rotate" \in mix
    \/ \E i \in Instances :
         /\ call'[t] = [Waiting EXCEPT !.pc = "sealing", !.op = "seal", !.inst = i,
                                       !.rows = {k \in keys : ~k.sealed}]
         /\ "seal" \in mix /\ keys' = keys
    \/ call[t].pc = "asking" /\ call'[t] = [call[t] EXCEPT !.pc = "stale"]
    \/ /\ call[t].op = "check" /\ ~call[t].missed
       /\ call'[t] = [call[t] EXCEPT !.pc = "missing", !.rows = {}, !.began = 0]
    \/ call[t].pc = "stale" /\ call'[t] = [call[t] EXCEPT !.pc = "loading", !.began = now]
    \/ /\ call[t].pc = "missing"
       /\ call'[t] = [call[t] EXCEPT !.pc = "loading", !.began = now, !.missed = TRUE]
    \/ /\ call[t].pc = "loading" /\ keys' = keys /\ tokens' = tokens
       /\ \/ call'[t] = [call[t] EXCEPT !.rows = keys, !.pc = "inserting"] /\ ActiveKeys(keys) = {}
          \/ call'[t] = [call[t] EXCEPT !.rows = keys, !.pc = "loaded"] /\ ActiveKeys(keys) # {}
    \/ /\ call[t].pc = "inserting" /\ tokens' = tokens
       /\ call'[t] = [call[t] EXCEPT !.rows = @ \cup ActiveKeys(keys'), !.pc = "loaded"]
       /\ ActiveKeys(keys') # {}
    \/ /\ call[t].pc = "rotating" /\ keys' = keys
       /\ call'[t] = [call[t] EXCEPT !.rows = ActiveKeys(keys), !.pc = "swapping"]
    \/ call[t].pc = "swapping" /\ call'[t] = [call[t] EXCEPT !.pc = "purging", !.rows = {}]
    \/ call[t].pc \in {"purging", "sealing"} /\ call'[t] = [call[t] EXCEPT !.pc = "clearing"]
    \/ /\ call[t].pc = "sealing"
       /\ \E k \in call[t].rows : call'[t] = [call[t] EXCEPT !.rows = @ \ {k}]

\* Every record CallStep names is a call.
LEMMA CallStepType ==
    ASSUME ShapeInv, NEW t \in Tasks, CallStep(t), keys' \in SUBSET KeyRow
    PROVE  call'[t] \in Call
<1>1. call[t] \in Call /\ Waiting \in Call /\ now \in Nat /\ now + TokenTTL \in Nat
  BY SigningKeysAssumption DEF ShapeInv, Waiting, Call, Over
<1>2. keys \in SUBSET KeyRow /\ tokens \in SUBSET Token
  BY DEF ShapeInv
<1>3. ActiveKeys(keys) \in SUBSET KeyRow /\ ActiveKeys(keys') \in SUBSET KeyRow
      /\ {k \in keys : ~k.sealed} \in SUBSET KeyRow
  BY <1>2 DEF ActiveKeys
<1>4. ASSUME NEW pc \in Over PROVE [Waiting EXCEPT !.pc = pc] \in Call
  BY <1>1, <1>4 DEF Call
<1>5. ASSUME NEW i \in Instances
      PROVE  /\ [Waiting EXCEPT !.pc = "asking", !.op = "mint", !.inst = i,
                                !.expires = now + TokenTTL] \in Call
             /\ [Waiting EXCEPT !.pc = "rotating", !.op = "rotate", !.inst = i,
                                !.began = now] \in Call
             /\ [Waiting EXCEPT !.pc = "sealing", !.op = "seal", !.inst = i,
                                !.rows = {k \in keys : ~k.sealed}] \in Call
  BY <1>1, <1>3, <1>5 DEF Call, Serving
<1>6. ASSUME NEW i \in Instances, NEW token \in tokens
      PROVE  [Waiting EXCEPT !.pc = "asking", !.op = "check", !.inst = i, !.token = token] \in Call
  BY <1>1, <1>2, <1>6 DEF Call, Serving
<1>7. /\ [call[t] EXCEPT !.pc = "stale"] \in Call
      /\ [call[t] EXCEPT !.pc = "missing", !.rows = {}, !.began = 0] \in Call
      /\ [call[t] EXCEPT !.pc = "loading", !.began = now] \in Call
      /\ [call[t] EXCEPT !.pc = "loading", !.began = now, !.missed = TRUE] \in Call
  BY <1>1 DEF Call, Serving, Loading
<1>8. /\ [call[t] EXCEPT !.rows = keys, !.pc = "inserting"] \in Call
      /\ [call[t] EXCEPT !.rows = keys, !.pc = "loaded"] \in Call
      /\ [call[t] EXCEPT !.rows = @ \cup ActiveKeys(keys'), !.pc = "loaded"] \in Call
      /\ [call[t] EXCEPT !.rows = ActiveKeys(keys), !.pc = "swapping"] \in Call
  BY <1>1, <1>2, <1>3 DEF Call, Serving, Loading
<1>9. /\ [call[t] EXCEPT !.pc = "purging", !.rows = {}] \in Call
      /\ [call[t] EXCEPT !.pc = "clearing"] \in Call
      /\ \A k \in call[t].rows : [call[t] EXCEPT !.rows = @ \ {k}] \in Call
  BY <1>1 DEF Call
<1>10. CASE \E i \in Instances :
               \/ call'[t] = [Waiting EXCEPT !.pc = "asking", !.op = "mint", !.inst = i,
                                             !.expires = now + TokenTTL]
               \/ call'[t] = [Waiting EXCEPT !.pc = "rotating", !.op = "rotate", !.inst = i,
                                             !.began = now]
               \/ call'[t] = [Waiting EXCEPT !.pc = "sealing", !.op = "seal", !.inst = i,
                                             !.rows = {k \in keys : ~k.sealed}]
  BY <1>5, <1>10
<1>11. CASE \E i \in Instances, token \in tokens :
               call'[t] = [Waiting EXCEPT !.pc = "asking", !.op = "check", !.inst = i,
                                          !.token = token]
  BY <1>6, <1>11
<1>12. CASE \/ call'[t] = call[t]
            \/ \E pc \in Over : call'[t] = [Waiting EXCEPT !.pc = pc]
  BY <1>1, <1>4, <1>12
<1>13. CASE \/ call'[t] = [call[t] EXCEPT !.pc = "purging", !.rows = {}]
            \/ call'[t] = [call[t] EXCEPT !.pc = "clearing"]
            \/ \E k \in call[t].rows : call'[t] = [call[t] EXCEPT !.rows = @ \ {k}]
  BY <1>9, <1>13
<1>14. CASE \/ call'[t] = [call[t] EXCEPT !.pc = "stale"]
            \/ call'[t] = [call[t] EXCEPT !.pc = "missing", !.rows = {}, !.began = 0]
            \/ call'[t] = [call[t] EXCEPT !.pc = "loading", !.began = now]
            \/ call'[t] = [call[t] EXCEPT !.pc = "loading", !.began = now, !.missed = TRUE]
  BY <1>7, <1>14
<1>15. CASE \/ call'[t] = [call[t] EXCEPT !.rows = keys, !.pc = "inserting"]
            \/ call'[t] = [call[t] EXCEPT !.rows = keys, !.pc = "loaded"]
            \/ call'[t] = [call[t] EXCEPT !.rows = @ \cup ActiveKeys(keys'), !.pc = "loaded"]
            \/ call'[t] = [call[t] EXCEPT !.rows = ActiveKeys(keys), !.pc = "swapping"]
  BY <1>8, <1>15
<1> QED BY <1>10, <1>11, <1>12, <1>13, <1>14, <1>15 DEF CallStep

\* Ending or moving on.
LEMMA MovesEffect ==
    ASSUME ShapeInv, NEW t \in Tasks, NEW pc, Moves(t, pc)
    PROVE  /\ DOMAIN call' = Tasks /\ call' = [u \in Tasks |-> call'[u]]
           /\ \A u \in Tasks : u # t => call'[u] = call[u]
           /\ pc \in Over => call'[t] = [Waiting EXCEPT !.pc = pc]
           /\ pc \notin Over => call'[t] = [call[t] EXCEPT !.pc = pc]
<1>1. call \in [Tasks -> Call]
  BY DEF ShapeInv
<1>2. CASE pc \in Over
  BY <1>1, <1>2 DEF Moves
<1>3. CASE pc \notin Over
  BY <1>1, <1>3 DEF Moves
<1> QED BY <1>2, <1>3

\* Being served: a token, an answer, or a call that wants the keys read again.
LEMMA ServedEffect ==
    ASSUME ShapeInv, ControlInv, NEW t \in Tasks, call[t].pc \in Serving, NEW c, Served(t, c)
    PROVE  /\ call' = [u \in Tasks |-> call'[u]]
           /\ \A u \in Tasks : u # t => call'[u] = call[u]
           /\ \/ /\ call[t].op = "mint" /\ call'[t] = [Waiting EXCEPT !.pc = "done"]
                 /\ tokens' = tokens \cup {[id |-> c.id, private |-> c.private,
                                            expires |-> call[t].expires]}
              \/ /\ call[t].op = "check" /\ tokens' = tokens /\ call[t].token.id \in c.verifying
                 /\ \/ Verifies(call[t].token) /\ call'[t] = [Waiting EXCEPT !.pc = "accepted"]
                    \/ ~Verifies(call[t].token) /\ call'[t] = [Waiting EXCEPT !.pc = "refused"]
              \/ /\ call[t].op = "check" /\ tokens' = tokens /\ call[t].token.id \notin c.verifying
                 /\ \/ call[t].missed /\ call'[t] = [Waiting EXCEPT !.pc = "refused"]
                    \/ /\ ~call[t].missed
                       /\ call'[t] = [call[t] EXCEPT !.pc = "missing", !.rows = {}, !.began = 0]
<1>1. call \in [Tasks -> Call] /\ call[t].op \in {"mint", "check"}
  BY DEF ShapeInv, ControlInv
<1>2. {"done", "accepted", "refused"} \subseteq Over
  BY DEF Over
<1>3. CASE call[t].op = "mint"
  <2>1. Moves(t, "done") /\ tokens' = tokens \cup {[id |-> c.id, private |-> c.private,
                                                    expires |-> call[t].expires]}
    BY <1>3 DEF Served
  <2> QED BY <1>2, <1>3, <2>1, MovesEffect
<1>4. CASE call[t].op = "check" /\ call[t].token.id \in c.verifying
  <2>1. tokens' = tokens /\ Moves(t, IF Verifies(call[t].token) THEN "accepted" ELSE "refused")
    BY <1>4 DEF Served
  <2> QED BY <1>2, <1>4, <2>1, MovesEffect
<1>5. CASE call[t].op = "check" /\ call[t].token.id \notin c.verifying
  <2>1. /\ tokens' = tokens
        /\ IF call[t].missed THEN Moves(t, "refused")
           ELSE call' = [call EXCEPT ![t].pc = "missing", ![t].rows = {}, ![t].began = 0]
    BY <1>5 DEF Served
  <2>2. CASE call[t].missed
    BY <1>2, <1>5, <2>1, <2>2, MovesEffect
  <2>3. CASE ~call[t].missed
    BY <1>1, <1>5, <2>1, <2>3
  <2> QED BY <2>2, <2>3
<1> QED BY <1>1, <1>3, <1>4, <1>5
-----------------------------------------------------------------------------
(* What a step does to the copies and the tokens.                          *)

CopyStep(i) ==
    \/ copy'[i] = copy[i]
    \/ copy'[i] = None
    \/ \E t \in Tasks :
         /\ call[t].pc = "loaded" /\ call[t].inst = i
         /\ \E k \in ActiveKeys(call[t].rows) :
              copy'[i] = [at |-> now, id |-> k.id, private |-> k.private,
                          verifying |-> {r.id : r \in call[t].rows}]

\* What a call may sign with: a fresh copy, or what it has just loaded.
Signing(t, id, private) ==
    \/ \E i \in Instances : Fresh(i) /\ id = copy[i].id /\ private = copy[i].private
    \/ /\ call[t].pc = "loaded"
       /\ \E k \in ActiveKeys(call[t].rows) : id = k.id /\ private = k.private

TokenStep ==
    \/ tokens' = tokens
    \/ tokens' = {token \in tokens : now' <= token.expires}
    \/ \E t \in Tasks : \E id, private \in Nat :
         /\ call[t].op = "mint" /\ keys' = keys /\ now' = now /\ Signing(t, id, private)
         /\ tokens' = tokens \cup {[id |-> id, private |-> private, expires |-> call[t].expires]}

\* All of a step: every call, every copy and the tokens.
Steps ==
    /\ call' = [u \in Tasks |-> call'[u]]
    /\ \A u \in Tasks : CallStep(u)
    /\ copy' = [i \in Instances |-> copy'[i]]
    /\ \A i \in Instances : CopyStep(i)
    /\ TokenStep

\* A step of one call that leaves the copies and the tokens alone.
LEMMA OneCall ==
    ASSUME ShapeInv, NEW t \in Tasks, CallStep(t), UNCHANGED <<copy, tokens>>,
           call' = [u \in Tasks |-> call'[u]], \A u \in Tasks : u # t => call'[u] = call[u]
    PROVE  Steps
<1>1. ASSUME NEW u \in Tasks PROVE CallStep(u)
  <2>1. CASE call'[u] = call[u]
    BY <2>1 DEF CallStep
  <2> QED BY <2>1
<1>2. copy' = [i \in Instances |-> copy'[i]] /\ \A i \in Instances : CopyStep(i)
  BY DEF CopyStep, ShapeInv
<1>3. TokenStep
  BY DEF TokenStep
<1> QED BY <1>1, <1>2, <1>3 DEF Steps

\* Serving a call from a fresh copy, or one that only verifies.
LEMMA ServedStep ==
    ASSUME Inv, NEW t \in Tasks, call[t].pc \in Serving, NEW c \in Copy, Served(t, c),
           UNCHANGED <<keys, now>>, copy' = [i \in Instances |-> copy'[i]],
           \A i \in Instances : CopyStep(i),
           call[t].op = "mint" => Signing(t, c.id, c.private)
    PROVE  Steps
<1>0. c.id \in Nat /\ c.private \in Nat
  BY DEF Copy
<1>1. /\ call' = [u \in Tasks |-> call'[u]]
      /\ \A u \in Tasks : u # t => call'[u] = call[u]
  BY ServedEffect DEF Inv
<1>2. CallStep(t) /\ TokenStep
  <2>1. CASE /\ call[t].op = "mint" /\ call'[t] = [Waiting EXCEPT !.pc = "done"]
             /\ tokens' = tokens \cup {[id |-> c.id, private |-> c.private,
                                        expires |-> call[t].expires]}
    <3>1. "done" \in Over
      BY DEF Over
    <3>2. CallStep(t)
      BY <2>1, <3>1 DEF CallStep
    <3>3. TokenStep
      BY <1>0, <2>1 DEF TokenStep
    <3> QED BY <3>2, <3>3
  <2>2. CASE /\ tokens' = tokens
             /\ \/ call'[t] = [Waiting EXCEPT !.pc = "accepted"]
                \/ call'[t] = [Waiting EXCEPT !.pc = "refused"]
    <3>1. "accepted" \in Over /\ "refused" \in Over
      BY DEF Over
    <3> QED BY <2>2, <3>1 DEF CallStep, TokenStep
  <2>3. CASE /\ tokens' = tokens /\ call[t].op = "check" /\ ~call[t].missed
             /\ call'[t] = [call[t] EXCEPT !.pc = "missing", !.rows = {}, !.began = 0]
    BY <2>3 DEF CallStep, TokenStep
  <2> QED BY <2>1, <2>2, <2>3, ServedEffect DEF Inv
<1>3. ASSUME NEW u \in Tasks PROVE CallStep(u)
  <2>1. CASE call'[u] = call[u]
    BY <2>1 DEF CallStep
  <2> QED BY <1>1, <1>2, <2>1
<1> QED BY <1>1, <1>2, <1>3 DEF Steps

\* Moving on.
LEMMA MovesStep ==
    ASSUME ShapeInv, NEW t \in Tasks, NEW pc, Moves(t, pc), UNCHANGED <<copy, tokens>>,
           \/ pc \in Over
           \/ pc = "stale" /\ call[t].pc = "asking"
           \/ pc = "clearing" /\ call[t].pc \in {"purging", "sealing"}
    PROVE  Steps
<1>1. /\ call' = [u \in Tasks |-> call'[u]] /\ \A u \in Tasks : u # t => call'[u] = call[u]
      /\ pc \in Over => call'[t] = [Waiting EXCEPT !.pc = pc]
      /\ pc \notin Over => call'[t] = [call[t] EXCEPT !.pc = pc]
  BY MovesEffect
<1>2. "stale" \notin Over /\ "clearing" \notin Over
  BY DEF Over
<1>3. CallStep(t)
  BY <1>1, <1>2 DEF CallStep
<1> QED BY <1>1, <1>3, OneCall

\* A call starts.
LEMMA StartSteps ==
    ASSUME ShapeInv, NEW t \in Tasks, NEW i \in Instances,
           Mint(t, i) \/ Rotate(t, i) \/ Seal(t, i) \/ \E token \in tokens : Check(t, i, token)
    PROVE  Steps
<1>0. call \in [Tasks -> Call]
  BY DEF ShapeInv
<1>1. CASE Mint(t, i)
  <2>1. call' = [call EXCEPT ![t] = [Waiting EXCEPT !.pc = "asking", !.op = "mint",
                                       !.inst = i, !.expires = now + TokenTTL]]
        /\ UNCHANGED <<copy, tokens>>
    BY <1>1 DEF Mint
  <2>2. CallStep(t)
    BY <1>0, <2>1 DEF CallStep
  <2> QED BY <1>0, <2>1, <2>2, OneCall
<1>2. CASE Rotate(t, i)
  <2>1. call' = [call EXCEPT ![t] = [Waiting EXCEPT !.pc = "rotating", !.op = "rotate",
                                       !.inst = i, !.began = now]]
        /\ UNCHANGED <<copy, tokens>> /\ "rotate" \in mix
    BY <1>2 DEF Rotate
  <2>2. CallStep(t)
    BY <1>0, <2>1 DEF CallStep
  <2> QED BY <1>0, <2>1, <2>2, OneCall
<1>3. CASE Seal(t, i)
  <2>1. call' = [call EXCEPT ![t] = [Waiting EXCEPT !.pc = "sealing", !.op = "seal",
                                       !.inst = i, !.rows = {k \in keys : ~k.sealed}]]
        /\ UNCHANGED <<copy, tokens, keys>> /\ "seal" \in mix
    BY <1>3 DEF Seal
  <2>2. CallStep(t)
    BY <1>0, <2>1 DEF CallStep
  <2> QED BY <1>0, <2>1, <2>2, OneCall
<1>4. ASSUME NEW token \in tokens, Check(t, i, token) PROVE Steps
  <2>1. call' = [call EXCEPT ![t] = [Waiting EXCEPT !.pc = "asking", !.op = "check",
                                       !.inst = i, !.token = token]]
        /\ UNCHANGED <<copy, tokens>>
    BY <1>4 DEF Check
  <2>2. CallStep(t)
    BY <1>0, <2>1 DEF CallStep
  <2> QED BY <1>0, <2>1, <2>2, OneCall
<1> QED BY <1>1, <1>2, <1>3, <1>4

\* A copy in use is a copy.
LEMMA CopyInUse ==
    ASSUME ShapeInv, NEW i \in Instances, copy[i] # None
    PROVE  copy[i] \in Copy
BY DEF ShapeInv

\* Consulting the copy and reloading it.
LEMMA ServingSteps ==
    ASSUME Inv, NEW t \in Tasks, Consult(t) \/ LockStale(t) \/ LockMissing(t)
    PROVE  Steps
<1> DEFINE i == call[t].inst
<1>0. /\ call \in [Tasks -> Call] /\ call[t].pc \in Serving /\ i \in Instances
      /\ UNCHANGED <<keys, now, copy>>
  BY DEF Consult, LockStale, LockMissing, Inv, ShapeInv, ControlInv, Serving, Over
<1>1. copy' = [j \in Instances |-> copy'[j]] /\ \A j \in Instances : CopyStep(j)
  BY <1>0 DEF CopyStep, Inv, ShapeInv
<1>2. CASE Fresh(i) /\ Served(t, copy[i])
  <2>1. copy[i] \in Copy
    BY <1>0, <1>2, CopyInUse DEF Fresh, Inv
  <2>2. Signing(t, copy[i].id, copy[i].private)
    BY <1>0, <1>2 DEF Signing
  <2> QED BY <1>0, <1>1, <1>2, <2>1, <2>2, ServedStep
<1>3. CASE Consult(t)
  <2>1. CASE ~Fresh(i)
    BY <1>3, <2>1, MovesStep DEF Consult, Inv
  <2>2. CASE Fresh(i)
    BY <1>2, <1>3, <2>2 DEF Consult
  <2> QED BY <2>1, <2>2
<1>4. CASE LockStale(t)
  <2>1. CASE Fresh(i)
    BY <1>2, <1>4, <2>1 DEF LockStale
  <2>2. CASE ~Fresh(i)
    <3>1. call[t].pc = "stale" /\ UNCHANGED <<copy, tokens>>
          /\ call' = [call EXCEPT ![t].pc = "loading", ![t].began = now]
      BY <1>4, <2>2 DEF LockStale, Locks
    <3>2. /\ call' = [u \in Tasks |-> call'[u]] /\ \A u \in Tasks : u # t => call'[u] = call[u]
          /\ call'[t] = [call[t] EXCEPT !.pc = "loading", !.began = now]
      BY <1>0, <3>1
    <3>3. CallStep(t)
      BY <3>1, <3>2 DEF CallStep
    <3> QED BY <3>1, <3>2, <3>3, OneCall DEF Inv
  <2> QED BY <2>1, <2>2
<1>5. CASE LockMissing(t)
  <2> DEFINE known == copy[i] # None /\ call[t].token.id \in copy[i].verifying
  <2>1. CASE known
    <3>1. copy[i] \in Copy /\ Served(t, copy[i]) /\ call[t].op = "check"
      BY <1>0, <1>5, <2>1, CopyInUse DEF LockMissing, Inv, ControlInv
    <3> QED BY <1>0, <1>1, <3>1, ServedStep
  <2>2. CASE ~known /\ Throttled(i) /\ copy[i] # None
    <3>1. Moves(t, "refused") /\ UNCHANGED <<copy, tokens>> /\ "refused" \in Over
      BY <1>5, <2>2 DEF LockMissing, Over
    <3> QED BY <3>1, MovesStep DEF Inv
  <2>3. CASE ~known /\ ~(Throttled(i) /\ copy[i] # None)
    <3>1. call[t].pc = "missing" /\ UNCHANGED <<copy, tokens>>
          /\ call' = [call EXCEPT ![t].pc = "loading", ![t].began = now, ![t].missed = TRUE]
      BY <1>5, <2>3 DEF LockMissing
    <3>2. /\ call' = [u \in Tasks |-> call'[u]] /\ \A u \in Tasks : u # t => call'[u] = call[u]
          /\ call'[t] = [call[t] EXCEPT !.pc = "loading", !.began = now, !.missed = TRUE]
      BY <1>0, <3>1
    <3>3. CallStep(t)
      BY <3>1, <3>2 DEF CallStep
    <3> QED BY <3>1, <3>2, <3>3, OneCall DEF Inv
  <2> QED BY <2>1, <2>2, <2>3
<1> QED BY <1>3, <1>4, <1>5

\* Reading the rows and putting in the first.
LEMMA LoadingSteps ==
    ASSUME Inv, NEW t \in Tasks, LoadRows(t) \/ InsertFirst(t)
    PROVE  Steps
<1>0. call \in [Tasks -> Call] /\ UNCHANGED <<copy, tokens>>
  BY DEF LoadRows, InsertFirst, Inv, ShapeInv
<1>1. CASE LoadRows(t)
  <2>1. /\ call[t].pc = "loading" /\ keys' = keys
        /\ call' = [call EXCEPT ![t].rows = keys,
                      ![t].pc = IF ActiveKeys(keys) = {} THEN "inserting" ELSE "loaded"]
    BY <1>1 DEF LoadRows
  <2>2. /\ call' = [u \in Tasks |-> call'[u]] /\ \A u \in Tasks : u # t => call'[u] = call[u]
        /\ call'[t] = [call[t] EXCEPT !.rows = keys,
                         !.pc = IF ActiveKeys(keys) = {} THEN "inserting" ELSE "loaded"]
    BY <1>0, <2>1
  <2>3. CallStep(t)
    BY <1>0, <2>1, <2>2 DEF CallStep
  <2> QED BY <1>0, <2>2, <2>3, OneCall DEF Inv
<1>2. CASE InsertFirst(t)
  <2> DEFINE first == Key(Active, made + 1, made + 1, call[t].inst \in withKek, 0)
             there == IF ActiveKeys(keys) = {} THEN {first} ELSE ActiveKeys(keys)
  <2>1. /\ call[t].pc = "inserting" /\ keys' = keys \cup there
        /\ call' = [call EXCEPT ![t].rows = @ \cup there, ![t].pc = "loaded"]
    BY <1>2 DEF InsertFirst
  <2>2. ActiveKeys(keys') = there /\ there # {}
    <3>1. first.role = Active
      BY DEF Key
    <3> HIDE DEF first
    <3>2. CASE ActiveKeys(keys) = {}
      BY <2>1, <3>1, <3>2 DEF ActiveKeys
    <3>3. CASE ActiveKeys(keys) # {}
      BY <2>1, <3>3 DEF ActiveKeys
    <3> QED BY <3>2, <3>3
  <2> HIDE DEF there
  <2>3. /\ call' = [u \in Tasks |-> call'[u]] /\ \A u \in Tasks : u # t => call'[u] = call[u]
        /\ call'[t] = [call[t] EXCEPT !.rows = @ \cup there, !.pc = "loaded"]
    BY <1>0, <2>1
  <2>4. CallStep(t)
    BY <1>0, <2>1, <2>2, <2>3 DEF CallStep
  <2> QED BY <1>0, <2>3, <2>4, OneCall DEF Inv
<1> QED BY <1>1, <1>2

\* The rows become the copy.
LEMMA InstallSteps ==
    ASSUME Inv, NEW t \in Tasks, Install(t)
    PROVE  Steps
<1> DEFINE i == call[t].inst
           active == CHOOSE k \in ActiveKeys(call[t].rows) : TRUE
           loaded == [at |-> now, id |-> active.id, private |-> active.private,
                      verifying |-> {k.id : k \in call[t].rows}]
<1>1. call[t].pc = "loaded" /\ call[t].pc \in Serving /\ UNCHANGED <<keys, now>>
  BY DEF Install, Serving, Loading
<1>2. active \in ActiveKeys(call[t].rows)
  BY <1>1 DEF Inv, LoadsKept
<1>3. i \in Instances /\ call[t].rows \in SUBSET KeyRow /\ now \in Nat
  BY <1>1 DEF Inv, ControlInv, ShapeInv, Call, Over
<1>4. CASE active.sealed /\ i \notin withKek
  <2>1. Moves(t, "failed") /\ UNCHANGED <<copy, tokens>> /\ "failed" \in Over
    BY <1>4 DEF Install, Over
  <2> QED BY <2>1, MovesStep DEF Inv
<1>5. CASE ~(active.sealed /\ i \notin withKek)
  <2>1. copy' = [copy EXCEPT ![i] = loaded] /\ Served(t, loaded)
    BY <1>5 DEF Install
  <2>2. active.id \in Nat /\ active.private \in Nat
    BY <1>2, <1>3 DEF ActiveKeys, KeyRow
  <2>3. loaded \in Copy /\ loaded.id = active.id /\ loaded.private = active.private
    <3>1. {k.id : k \in call[t].rows} \in SUBSET Nat
      BY <1>3 DEF KeyRow
    <3> QED BY <1>3, <2>2, <3>1 DEF Copy
  <2>4. Signing(t, loaded.id, loaded.private)
    BY <1>1, <1>2, <2>3 DEF Signing
  <2>5. ASSUME NEW j \in Instances PROVE CopyStep(j)
    <3>1. CASE j = i
      <4>1. copy'[i] = loaded
        BY <1>3, <2>1 DEF Inv, ShapeInv
      <4> QED BY <1>1, <1>2, <3>1, <4>1 DEF CopyStep
    <3>2. CASE j # i
      BY <2>1, <3>2 DEF CopyStep, Inv, ShapeInv
    <3> QED BY <3>1, <3>2
  <2>6. copy' = [j \in Instances |-> copy'[j]]
    BY <2>1 DEF Inv, ShapeInv
  <2> HIDE DEF loaded
  <2> QED BY <1>1, <2>1, <2>3, <2>4, <2>5, <2>6, ServedStep
<1> QED BY <1>4, <1>5

\* Rotating and sealing.
LEMMA OperatorSteps ==
    ASSUME Inv, NEW t \in Tasks,
           \/ RotateReads(t) \/ RotateCommits(t) \/ Purge(t) \/ Clear(t) \/ SealEnds(t)
           \/ \E k \in call[t].rows : SealOne(t, k)
    PROVE  Steps
<1>0. call \in [Tasks -> Call] /\ "failed" \in Over /\ "done" \in Over
  BY DEF Inv, ShapeInv, Over
<1>1. CASE RotateReads(t)
  <2>1. /\ call[t].pc = "rotating" /\ UNCHANGED <<keys, copy, tokens>>
        /\ call' = [call EXCEPT ![t].rows = ActiveKeys(keys), ![t].pc = "swapping"]
    BY <1>1 DEF RotateReads
  <2>2. /\ call' = [u \in Tasks |-> call'[u]] /\ \A u \in Tasks : u # t => call'[u] = call[u]
        /\ call'[t] = [call[t] EXCEPT !.rows = ActiveKeys(keys), !.pc = "swapping"]
    BY <1>0, <2>1
  <2>3. CallStep(t)
    BY <2>1, <2>2 DEF CallStep
  <2> QED BY <2>1, <2>2, <2>3, OneCall DEF Inv
<1>2. CASE RotateCommits(t)
  <2>1. call[t].pc = "swapping" /\ UNCHANGED <<copy, tokens>>
    BY <1>2 DEF RotateCommits
  <2>2. CASE ActiveKeys(keys) # call[t].rows
    BY <1>0, <1>2, <2>1, <2>2, MovesStep DEF RotateCommits, Inv
  <2>3. CASE ActiveKeys(keys) = call[t].rows
    <3>1. call' = [call EXCEPT ![t].pc = "purging", ![t].rows = {}]
      BY <1>2, <2>3 DEF RotateCommits
    <3>2. /\ call' = [u \in Tasks |-> call'[u]] /\ \A u \in Tasks : u # t => call'[u] = call[u]
          /\ call'[t] = [call[t] EXCEPT !.pc = "purging", !.rows = {}]
      BY <1>0, <3>1
    <3>3. CallStep(t)
      BY <2>1, <3>2 DEF CallStep
    <3> QED BY <2>1, <3>2, <3>3, OneCall DEF Inv
  <2> QED BY <2>2, <2>3
<1>3. CASE Purge(t) \/ SealEnds(t)
  <2>1. /\ Moves(t, "clearing") /\ call[t].pc \in {"purging", "sealing"}
        /\ UNCHANGED <<copy, tokens>>
    BY <1>3 DEF Purge, SealEnds
  <2> QED BY <2>1, MovesStep DEF Inv
<1>4. CASE Clear(t)
  <2>1. /\ Moves(t, "done") /\ UNCHANGED tokens
        /\ copy' = [copy EXCEPT ![call[t].inst] = None]
    BY <1>4 DEF Clear
  <2>2. copy' = [i \in Instances |-> copy'[i]] /\ \A i \in Instances : CopyStep(i)
    BY <2>1 DEF CopyStep, Inv, ShapeInv
  <2>3. /\ call' = [u \in Tasks |-> call'[u]] /\ \A u \in Tasks : u # t => call'[u] = call[u]
        /\ call'[t] = [Waiting EXCEPT !.pc = "done"]
    BY <1>0, <2>1, MovesEffect DEF Inv
  <2>4. \A u \in Tasks : CallStep(u)
    BY <1>0, <2>3 DEF CallStep
  <2> QED BY <2>1, <2>2, <2>3, <2>4 DEF Steps, TokenStep
<1>5. ASSUME NEW k \in call[t].rows, SealOne(t, k) PROVE Steps
  <2>1. /\ call[t].pc = "sealing" /\ UNCHANGED <<copy, tokens>>
        /\ call' = [call EXCEPT ![t].rows = @ \ {k}]
    BY <1>5 DEF SealOne
  <2>2. /\ call' = [u \in Tasks |-> call'[u]] /\ \A u \in Tasks : u # t => call'[u] = call[u]
        /\ call'[t] = [call[t] EXCEPT !.rows = @ \ {k}]
    BY <1>0, <2>1
  <2>3. CallStep(t)
    BY <2>1, <2>2 DEF CallStep
  <2> QED BY <2>1, <2>2, <2>3, OneCall DEF Inv
<1> QED BY <1>1, <1>2, <1>3, <1>4, <1>5

\* Every step of the signing keys.
LEMMA EveryStep ==
    ASSUME Inv, [KeysNext]_keyVars
    PROVE  Steps
<1>1. ASSUME UNCHANGED <<call, copy>>, TokenStep PROVE Steps
  BY <1>1 DEF Steps, CallStep, CopyStep, Inv, ShapeInv
<1>2. CASE UNCHANGED keyVars
  BY <1>1, <1>2 DEF keyVars, TokenStep
<1>3. CASE KeysTick
  BY <1>1, <1>3 DEF KeysTick, TokenStep
<1>4. ASSUME NEW t \in Tasks, Abandon(t) PROVE Steps
  <2>1. Moves(t, "failed") /\ UNCHANGED <<copy, tokens>> /\ "failed" \in Over
    BY <1>4 DEF Abandon, Over
  <2> QED BY <2>1, MovesStep DEF Inv
<1> QED
  BY <1>2, <1>3, <1>4, StartSteps, ServingSteps, LoadingSteps, InstallSteps, OperatorSteps
  DEF KeysNext, Inv
-----------------------------------------------------------------------------
(* The rows.                                                               *)

\* The rows change when the first is put in, and by rotation, purge and sealing.
LEMMA KeysChange ==
    ASSUME [KeysNext]_keyVars
    PROVE  \/ UNCHANGED <<keys, made>>
           \/ \E t \in Tasks : InsertFirst(t)
           \/ \E t \in Tasks : RotateCommits(t)
           \/ \E t \in Tasks : Purge(t)
           \/ \E t \in Tasks : \E k \in call[t].rows : SealOne(t, k)
BY DEF KeysNext, Mint, Rotate, Seal, Check, Consult, LockStale, LockMissing, LoadRows, Install,
       RotateReads, Clear, SealEnds, Abandon, KeysTick, keyVars

\* Time passes in one action only.
LEMMA MinutesPass ==
    ASSUME [KeysNext]_keyVars
    PROVE  UNCHANGED <<mix, withKek>> /\ (now' = now \/ KeysTick)
BY DEF KeysNext, Mint, Rotate, Seal, Check, Consult, LockStale, LockMissing, LoadRows,
       InsertFirst, Install, RotateReads, RotateCommits, Purge, Clear, SealOne, SealEnds,
       Abandon, keyVars, KeysTick

\* The constants of time.
LEMMA Times ==
    /\ TokenTTL \in Nat /\ RefreshInterval \in Nat /\ Slack \in Nat /\ OpTime \in Nat
    /\ Throttle \in Nat /\ LastSecond \in Nat /\ Slack >= 2 * OpTime
    /\ Grace \in Nat /\ Grace = TokenTTL + RefreshInterval + Slack
BY SigningKeysAssumption DEF Grace

\* A row that a rotation leaves is one that was not active, an active one
\* retired, or the new one.
LEMMA RotatedRows ==
    ASSUME Inv, NEW t \in Tasks, RotateCommits(t), keys' # keys
    PROVE  /\ call[t].began \in Nat /\ call[t].began <= now /\ now <= call[t].began + OpTime
           /\ \A k \in keys' :
                \/ k \in keys /\ k.role # Active
                \/ \E j \in keys : j.role = Active /\
                     k = Key(j.id, j.id, j.private, j.sealed, call[t].began + Grace)
                \/ k = Key(Active, made + 1, made + 1, call[t].inst \in withKek, 0)
           /\ \A j \in keys : j.role # Active => j \in keys'
           /\ \A j \in keys : j.role = Active =>
                Key(j.id, j.id, j.private, j.sealed, call[t].began + Grace) \in keys'
<1> DEFINE old == {Key(k.id, k.id, k.private, k.sealed, call[t].began + Grace) :
                     k \in call[t].rows}
           new == Key(Active, made + 1, made + 1, call[t].inst \in withKek, 0)
<1>1. call[t].pc = "swapping"
  BY DEF RotateCommits
<1>2. call[t].began \in Nat /\ call[t].began <= now /\ now <= call[t].began + OpTime
  BY <1>1 DEF Inv, ShapeInv, Call, ControlInv
<1>3. keys' = (keys \ call[t].rows) \cup old \cup {new} /\ call[t].rows = ActiveKeys(keys)
  BY DEF RotateCommits
<1>4. \A k \in call[t].rows : k \in keys /\ k.role = Active
  BY <1>3 DEF ActiveKeys
<1>5. \A j \in keys : j.role = Active <=> j \in call[t].rows
  BY <1>3 DEF ActiveKeys
<1> HIDE DEF new
<1>6. \A k \in keys' :
        \/ k \in keys /\ k.role # Active
        \/ \E j \in keys : j.role = Active /\
             k = Key(j.id, j.id, j.private, j.sealed, call[t].began + Grace)
        \/ k = new
  BY <1>3, <1>4, <1>5
<1>7. \A j \in keys : j.role # Active => j \in keys'
  BY <1>3, <1>5
<1>8. \A j \in keys : j.role = Active =>
        Key(j.id, j.id, j.private, j.sealed, call[t].began + Grace) \in keys'
  BY <1>3, <1>5
<1> QED BY <1>2, <1>6, <1>7, <1>8 DEF new

\* A row that a sealing leaves has the role, the id and the end it had.
LEMMA SealedRows ==
    ASSUME Inv, NEW t \in Tasks, NEW s \in call[t].rows, SealOne(t, s)
    PROVE  /\ \A k \in keys' : \E j \in keys :
                k = IF j.role = s.role THEN [j EXCEPT !.sealed = TRUE, !.private = s.private]
                    ELSE j
           /\ \A j \in keys : \E k \in keys' :
                k.role = j.role /\ k.id = j.id /\ k.retireAfter = j.retireAfter
<1>1. keys' = {IF row.role = s.role THEN [row EXCEPT !.sealed = TRUE, !.private = s.private]
               ELSE row : row \in keys}
  BY DEF SealOne
<1>2. ASSUME NEW j \in keys
      PROVE  \E k \in keys' : k.role = j.role /\ k.id = j.id /\ k.retireAfter = j.retireAfter
  <2> DEFINE k == IF j.role = s.role THEN [j EXCEPT !.sealed = TRUE, !.private = s.private] ELSE j
  <2>1. k \in keys'
    BY <1>1
  <2>2. k.role = j.role /\ k.id = j.id /\ k.retireAfter = j.retireAfter
    BY DEF Inv, ShapeInv, KeyRow
  <2> QED BY <2>1, <2>2
<1> QED BY <1>1, <1>2

\* What RowsInv says of the rows alone.
RowsRight(rows, n) ==
    /\ \A k \in rows :
         /\ k.id \in 1 .. n /\ k.private \in 1 .. n /\ k.role \in {Active, k.id}
         /\ k.role = Active => k.retireAfter = 0
    /\ \A j, k \in rows : j.role = k.role \/ j.id = k.id => j = k

LEMMA InsertRight ==
    ASSUME Inv, NEW t \in Tasks, InsertFirst(t)
    PROVE  keys' \in SUBSET KeyRow /\ made' \in Nat /\ made <= made' /\ RowsRight(keys, made)'
<1> DEFINE first == Key(Active, made + 1, made + 1, call[t].inst \in withKek, 0)
           there == IF ActiveKeys(keys) = {} THEN {first} ELSE ActiveKeys(keys)
<1>1. made' = made + 1 /\ keys' = keys \cup there /\ made \in Nat
  BY DEF InsertFirst, Inv, ShapeInv
<1>2. first \in KeyRow /\ first.id = made + 1 /\ first.private = made + 1 /\ first.role = Active
      /\ first.retireAfter = 0
  BY <1>1 DEF Key, KeyRow, Active
<1>3. keys \in SUBSET KeyRow
  BY DEF Inv, ShapeInv
<1>4. \A k \in keys : k.id \in Nat /\ k.private \in Nat /\ k.id \in 1 .. made' /\ k.private \in 1 .. made'
                      /\ k.id # made + 1
  BY <1>1, <1>3 DEF Inv, RowsInv, KeyRow
<1> HIDE DEF first
<1>5. CASE ActiveKeys(keys) = {}
  <2>1. keys' = keys \cup {first} /\ \A k \in keys : k.role # Active
    BY <1>1, <1>5 DEF ActiveKeys
  <2>2. made + 1 \in 1 .. made'
    BY <1>1
  <2>3. \A k \in keys' : /\ k.id \in 1 .. made' /\ k.private \in 1 .. made' /\ k.role \in {Active, k.id}
                         /\ k.role = Active => k.retireAfter = 0
    BY <1>2, <1>4, <2>1, <2>2 DEF Inv, RowsInv
  <2>4. \A j, k \in keys' : j.role = k.role \/ j.id = k.id => j = k
    BY <1>2, <1>4, <2>1 DEF Inv, RowsInv
  <2> QED BY <1>1, <1>2, <1>3, <2>1, <2>3, <2>4 DEF RowsRight
<1>6. CASE ActiveKeys(keys) # {}
  <2>1. keys' = keys
    BY <1>1, <1>6 DEF ActiveKeys
  <2> QED BY <1>1, <1>3, <1>4, <2>1 DEF RowsRight, Inv, RowsInv
<1> QED BY <1>5, <1>6

LEMMA RotateRight ==
    ASSUME Inv, NEW t \in Tasks, RotateCommits(t)
    PROVE  keys' \in SUBSET KeyRow /\ made' \in Nat /\ made <= made' /\ RowsRight(keys, made)'
<1>1. made' = made + 1 /\ made \in Nat /\ keys \in SUBSET KeyRow
  BY DEF RotateCommits, Inv, ShapeInv
<1>2. \A k \in keys : k.id \in Nat /\ k.private \in Nat /\ k.id \in 1 .. made' /\ k.private \in 1 .. made'
                      /\ k.id # made + 1 /\ k.id # Active
  BY <1>1 DEF Inv, RowsInv, KeyRow, Active
<1>3. CASE keys' = keys
  BY <1>1, <1>2, <1>3 DEF RowsRight, Inv, RowsInv
<1>4. CASE keys' # keys
  <2> DEFINE Retired(j) == Key(j.id, j.id, j.private, j.sealed, call[t].began + Grace)
             new == Key(Active, made + 1, made + 1, call[t].inst \in withKek, 0)
  <2>1. /\ call[t].began \in Nat
        /\ \A k \in keys' : \/ k \in keys /\ k.role # Active
                            \/ \E j \in keys : j.role = Active /\ k = Retired(j)
                            \/ k = new
    BY <1>4, RotatedRows
  <2>2. \A j \in keys : /\ Retired(j) \in KeyRow /\ Retired(j).role = j.id
                        /\ Retired(j).id = j.id /\ Retired(j).private = j.private
    BY <1>1, <2>1, Times DEF Key, KeyRow
  <2>3. /\ new \in KeyRow /\ new.role = Active /\ new.id = made + 1 /\ new.private = made + 1
        /\ new.retireAfter = 0
    BY <1>1 DEF Key, KeyRow, Active
  <2>4. made + 1 \in 1 .. made'
    BY <1>1
  <2> HIDE DEF Retired, new
  <2>5. keys' \in SUBSET KeyRow
    BY <1>1, <2>1, <2>2, <2>3
  <2>6. \A k \in keys' : /\ k.id \in 1 .. made' /\ k.private \in 1 .. made' /\ k.role \in {Active, k.id}
                         /\ k.role = Active => k.retireAfter = 0
    BY <1>2, <2>1, <2>2, <2>3, <2>4 DEF Inv, RowsInv
  <2>7. ASSUME NEW j \in keys', NEW k \in keys', j.role = k.role \/ j.id = k.id
        PROVE  j = k
    <3>0. ASSUME NEW r \in keys', r # new
          PROVE  \E p \in keys : p.id = r.id /\ ((r = p /\ p.role # Active) \/ (p.role = Active /\ r = Retired(p)))
      <4>1. CASE r \in keys /\ r.role # Active
        BY <4>1
      <4>2. ASSUME NEW p \in keys, p.role = Active, r = Retired(p)
            PROVE  p.id = r.id
        BY <2>2, <4>2
      <4> QED BY <2>1, <3>0, <4>1, <4>2
    <3>1. \A p \in keys' : p = new \/ (p.role = p.id /\ p.id # made + 1 /\ p.id # Active)
      BY <1>2, <2>1, <2>2 DEF Inv, RowsInv
    <3>2. CASE j = new \/ k = new
      BY <2>3, <2>7, <3>1, <3>2
    <3>3. CASE j # new /\ k # new
      <4>1. j.id = k.id
        BY <2>7, <3>1, <3>3
      <4>2. PICK p \in keys : p.id = j.id /\ ((j = p /\ p.role # Active) \/ (p.role = Active /\ j = Retired(p)))
        BY <3>0, <3>3
      <4>3. PICK q \in keys : q.id = k.id /\ ((k = q /\ q.role # Active) \/ (q.role = Active /\ k = Retired(q)))
        BY <3>0, <3>3
      <4>4. p = q
        BY <4>1, <4>2, <4>3 DEF Inv, RowsInv
      <4> QED BY <4>2, <4>3, <4>4
    <3> QED BY <3>2, <3>3
  <2> QED BY <1>1, <2>5, <2>6, <2>7 DEF RowsRight
<1> QED BY <1>3, <1>4

LEMMA SealRight ==
    ASSUME Inv, NEW t \in Tasks, NEW s \in call[t].rows, SealOne(t, s)
    PROVE  keys' \in SUBSET KeyRow /\ made' \in Nat /\ made <= made' /\ RowsRight(keys, made)'
<1>1. made' = made /\ made \in Nat /\ keys \in SUBSET KeyRow /\ s \in KeyRow
  BY DEF SealOne, Inv, ShapeInv, Call
<1>2. s.private \in 1 .. made /\ s.private \in Nat
  BY <1>1 DEF Inv, RowsInv, KeyRow
<1> DEFINE Sealed(j) == IF j.role = s.role THEN [j EXCEPT !.sealed = TRUE, !.private = s.private]
                        ELSE j
<1>3. ASSUME NEW j \in keys
      PROVE  /\ Sealed(j) \in KeyRow /\ Sealed(j).role = j.role /\ Sealed(j).id = j.id
             /\ Sealed(j).retireAfter = j.retireAfter /\ Sealed(j).private \in 1 .. made
  <2>1. j \in KeyRow /\ j.private \in 1 .. made
    BY <1>1 DEF Inv, RowsInv
  <2>2. [j EXCEPT !.sealed = TRUE, !.private = s.private] \in KeyRow
    BY <1>2, <2>1 DEF KeyRow
  <2>3. Sealed(j) \in KeyRow
    BY <2>1, <2>2
  <2> QED BY <1>2, <2>1, <2>3 DEF KeyRow
<1>4. \A k \in keys' : \E j \in keys : k = Sealed(j)
  BY SealedRows
<1> HIDE DEF Sealed
<1>5. \A k \in keys' : /\ k \in KeyRow
                       /\ k.id \in 1 .. made /\ k.private \in 1 .. made /\ k.role \in {Active, k.id}
                       /\ k.role = Active => k.retireAfter = 0
  BY <1>3, <1>4 DEF Inv, RowsInv
<1>6. ASSUME NEW j \in keys', NEW k \in keys', j.role = k.role \/ j.id = k.id
      PROVE  j = k
  <2>1. PICK p \in keys : j = Sealed(p)
    BY <1>4
  <2>2. PICK q \in keys : k = Sealed(q)
    BY <1>4
  <2>3. p = q
    BY <1>3, <1>6, <2>1, <2>2 DEF Inv, RowsInv
  <2> QED BY <2>1, <2>2, <2>3
<1> QED BY <1>1, <1>5, <1>6 DEF RowsRight

\* Every step keeps the rows right.
LEMMA KeysRight ==
    ASSUME Inv, [KeysNext]_keyVars
    PROVE  keys' \in SUBSET KeyRow /\ made' \in Nat /\ made <= made' /\ RowsRight(keys, made)'
<1>1. made \in Nat /\ keys \in SUBSET KeyRow
  BY DEF Inv, ShapeInv
<1>2. CASE UNCHANGED <<keys, made>>
  BY <1>1, <1>2 DEF RowsRight, Inv, RowsInv
<1>3. ASSUME NEW t \in Tasks, Purge(t)
      PROVE  keys' \in SUBSET KeyRow /\ made' \in Nat /\ made <= made' /\ RowsRight(keys, made)'
  <2>1. keys' \subseteq keys /\ made' = made
    BY <1>3 DEF Purge
  <2> QED BY <1>1, <2>1 DEF RowsRight, Inv, RowsInv
<1> QED BY <1>2, <1>3, InsertRight, RotateRight, SealRight, KeysChange

\* What is kept stays kept: a rotation that retires a key keeps it for Grace
\* from its beginning, OpTime ago at most, and a purge takes what is overdue.
LEMMA KeptStays ==
    ASSUME Inv, [KeysNext]_keyVars, NEW id \in Nat, NEW s \in Int,
           now <= s, s <= now - OpTime + Grace, KeptUntil(id, s)
    PROVE  \E k \in keys' : k.id = id /\ (k.role = Active \/ k.retireAfter >= s)
<1>0. PICK j \in keys : j.id = id /\ (j.role = Active \/ j.retireAfter >= s)
  BY DEF KeptUntil
<1>1. now \in Nat /\ j \in KeyRow /\ (j.role = Active => j.retireAfter = 0)
  BY DEF Inv, ShapeInv, RowsInv
<1>2. CASE UNCHANGED <<keys, made>>
  BY <1>0, <1>2
<1>3. ASSUME NEW t \in Tasks, InsertFirst(t) PROVE j \in keys'
  BY <1>3 DEF InsertFirst
<1>4. ASSUME NEW t \in Tasks, RotateCommits(t)
      PROVE  \E k \in keys' : k.id = id /\ (k.role = Active \/ k.retireAfter >= s)
  <2>1. CASE keys' = keys
    BY <1>0, <2>1
  <2>2. CASE keys' # keys /\ j.role # Active
    BY <1>0, <1>4, <2>2, RotatedRows
  <2>3. CASE keys' # keys /\ j.role = Active
    <3> DEFINE r == Key(j.id, j.id, j.private, j.sealed, call[t].began + Grace)
    <3>1. r \in keys' /\ call[t].began \in Nat /\ now <= call[t].began + OpTime
      BY <1>4, <2>3, RotatedRows
    <3>2. r.id = id /\ r.retireAfter = call[t].began + Grace
      BY <1>0 DEF Key
    <3>3. call[t].began + Grace >= s
      BY <1>1, <3>1, Times
    <3> QED BY <3>1, <3>2, <3>3
  <2> QED BY <2>1, <2>2, <2>3
<1>5. ASSUME NEW t \in Tasks, Purge(t) PROVE j \in keys'
  <2>1. keys' = {k \in keys : k.retireAfter = 0 \/ k.retireAfter >= call[t].began}
        /\ call[t].pc = "purging"
    BY <1>5 DEF Purge
  <2>2. call[t].began \in Nat /\ call[t].began <= now
    BY <2>1 DEF Inv, ControlInv, ShapeInv, Call
  <2>3. j.retireAfter = 0 \/ j.retireAfter >= call[t].began
    BY <1>0, <1>1, <2>2 DEF KeyRow
  <2> QED BY <2>1, <2>3
<1>6. ASSUME NEW t \in Tasks, NEW k \in call[t].rows, SealOne(t, k)
      PROVE  \E r \in keys' : r.id = id /\ (r.role = Active \/ r.retireAfter >= s)
  BY <1>0, <1>6, SealedRows
<1> QED BY <1>0, <1>2, <1>3, <1>4, <1>5, <1>6, KeysChange
-----------------------------------------------------------------------------
(* Every step keeps the invariant.                                         *)

\* A lock is taken by a call that goes on to reload, and given up when the
\* reload ends or its caller goes away; no other step ends a reload.
LEMMA LocksChange ==
    ASSUME Inv, [KeysNext]_keyVars
    PROVE  \/ /\ lock' = lock
              /\ \A u \in Tasks : call[u].pc \in Loading =>
                   call'[u].pc \in Loading /\ call'[u].inst = call[u].inst
           \/ \E t \in Tasks :
                /\ \A u \in Tasks : u # t => call'[u] = call[u]
                /\ \/ /\ call[t].pc \notin Loading /\ call[t].inst \in Instances
                      /\ lock' = [lock EXCEPT ![call[t].inst] = t]
                      /\ call'[t].pc = "loading" /\ call'[t].inst = call[t].inst
                   \/ /\ call[t].pc = "loaded" /\ call[t].inst \in Instances
                      /\ lock' = [lock EXCEPT ![call[t].inst] = None]
                   \/ lock' = [i \in Instances |-> IF lock[i] = t THEN None ELSE lock[i]]
<1> DEFINE Keeps == /\ lock' = lock
                    /\ \A u \in Tasks : call[u].pc \in Loading =>
                         call'[u].pc \in Loading /\ call'[u].inst = call[u].inst
           Takes(t) == /\ call[t].pc \notin Loading /\ call[t].inst \in Instances
                       /\ lock' = [lock EXCEPT ![call[t].inst] = t]
                       /\ call'[t].pc = "loading" /\ call'[t].inst = call[t].inst
           Gives(t) == /\ call[t].pc = "loaded" /\ call[t].inst \in Instances
                       /\ lock' = [lock EXCEPT ![call[t].inst] = None]
           Drops(t) == lock' = [i \in Instances |-> IF lock[i] = t THEN None ELSE lock[i]]
           Others(t) == \A u \in Tasks : u # t => call'[u] = call[u]
<1>0. call \in [Tasks -> Call]
  BY DEF Inv, ShapeInv
<1>1. CASE UNCHANGED <<lock, call>>
  BY <1>1
<1>2. ASSUME NEW t \in Tasks, call[t].pc \notin Loading, lock' = lock, Others(t) PROVE Keeps
  BY <1>2
<1>3. ASSUME NEW t \in Tasks, NEW i \in Instances,
             Mint(t, i) \/ Rotate(t, i) \/ Seal(t, i) \/ \E token \in tokens : Check(t, i, token)
      PROVE  Keeps
  <2>1. call[t].pc \notin Loading /\ lock' = lock
    BY <1>3 DEF Mint, Rotate, Seal, Check, Loading
  <2>2. Others(t)
    BY <1>0, <1>3 DEF Mint, Rotate, Seal, Check
  <2> QED BY <1>2, <2>1, <2>2
<1>4. ASSUME NEW t \in Tasks, NEW c, Served(t, c), call[t].pc \in Serving PROVE Others(t)
  BY <1>4, ServedEffect DEF Inv
<1>5. ASSUME NEW t \in Tasks, NEW pc, Moves(t, pc) PROVE Others(t)
  BY <1>5, MovesEffect DEF Inv
<1>6. ASSUME NEW t \in Tasks, Consult(t) \/ LockStale(t) \/ LockMissing(t)
      PROVE  Keeps \/ (Others(t) /\ Takes(t))
  <2>1. /\ call[t].pc \in Serving /\ call[t].pc \notin Loading
        /\ call[t].inst \in Instances
    BY <1>6 DEF Consult, LockStale, LockMissing, Inv, ControlInv, Serving, Over, Loading
  <2>2. CASE Consult(t)
    <3>1. Others(t)
      BY <1>4, <1>5, <2>1, <2>2 DEF Consult
    <3>2. lock' = lock
      BY <2>2 DEF Consult
    <3> QED BY <1>2, <2>1, <3>1, <3>2
  <2>3. CASE LockStale(t)
    <3>1. CASE Fresh(call[t].inst)
      <4>1. Others(t) /\ lock' = lock
        BY <1>4, <2>1, <2>3, <3>1 DEF LockStale
      <4> QED BY <1>2, <2>1, <4>1
    <3>2. CASE ~Fresh(call[t].inst)
      <4>1. /\ lock' = [lock EXCEPT ![call[t].inst] = t]
            /\ call' = [call EXCEPT ![t].pc = "loading", ![t].began = now]
        BY <2>3, <3>2 DEF LockStale, Locks
      <4>2. Others(t) /\ call'[t] = [call[t] EXCEPT !.pc = "loading", !.began = now]
        BY <1>0, <4>1
      <4>3. call'[t].pc = "loading" /\ call'[t].inst = call[t].inst
        BY <1>0, <4>2 DEF Call
      <4> QED BY <2>1, <4>1, <4>2, <4>3
    <3> QED BY <3>1, <3>2
  <2>4. CASE LockMissing(t)
    <3>1. CASE lock' = lock
      <4>1. Others(t) \/ call' = [call EXCEPT ![t].pc = "loading", ![t].began = now, ![t].missed = TRUE]
        BY <1>4, <1>5, <2>1, <2>4 DEF LockMissing
      <4>2. Others(t)
        BY <1>0, <4>1
      <4> QED BY <1>2, <2>1, <3>1, <4>2
    <3>2. CASE lock' # lock
      <4>1. /\ lock' = [lock EXCEPT ![call[t].inst] = t]
            /\ call' = [call EXCEPT ![t].pc = "loading", ![t].began = now, ![t].missed = TRUE]
        BY <2>4, <3>2 DEF LockMissing
      <4>2. Others(t) /\ call'[t] = [call[t] EXCEPT !.pc = "loading", !.began = now, !.missed = TRUE]
        BY <1>0, <4>1
      <4>3. call'[t].pc = "loading" /\ call'[t].inst = call[t].inst
        BY <1>0, <4>2 DEF Call
      <4> QED BY <2>1, <4>1, <4>2, <4>3
    <3> QED BY <3>1, <3>2
  <2> QED BY <1>6, <2>2, <2>3, <2>4
<1>7. ASSUME NEW t \in Tasks, LoadRows(t) \/ InsertFirst(t) PROVE Keeps
  <2> DEFINE rows == call'[t].rows
  <2>1. lock' = lock /\ Others(t)
    BY <1>0, <1>7 DEF LoadRows, InsertFirst
  <2>2. call'[t].pc \in Loading /\ call'[t].inst = call[t].inst
    <3>1. call[t] \in Call
      BY <1>0
    <3>2. CASE LoadRows(t)
      <4>1. call'[t] = [call[t] EXCEPT !.rows = keys,
                          !.pc = IF ActiveKeys(keys) = {} THEN "inserting" ELSE "loaded"]
        BY <1>0, <3>2 DEF LoadRows
      <4> QED BY <3>1, <4>1 DEF Call, Loading
    <3>3. CASE InsertFirst(t)
      <4>1. PICK there : call' = [call EXCEPT ![t].rows = @ \cup there, ![t].pc = "loaded"]
        BY <3>3 DEF InsertFirst
      <4>2. call'[t] = [call[t] EXCEPT !.rows = @ \cup there, !.pc = "loaded"]
        BY <1>0, <4>1
      <4> QED BY <3>1, <4>2 DEF Call, Loading
    <3> QED BY <1>7, <3>2, <3>3
  <2> QED BY <2>1, <2>2
<1>8. ASSUME NEW t \in Tasks, Install(t) PROVE Others(t) /\ Gives(t)
  <2>1. /\ call[t].pc = "loaded" /\ call[t].pc \in Serving /\ call[t].inst \in Instances
        /\ lock' = [lock EXCEPT ![call[t].inst] = None]
    BY <1>8 DEF Install, Inv, ControlInv, Serving, Loading, Over
  <2>2. Others(t)
    BY <1>4, <1>5, <1>8, <2>1 DEF Install
  <2> QED BY <2>1, <2>2
<1>9. ASSUME NEW t \in Tasks,
             \/ RotateReads(t) \/ RotateCommits(t) \/ Purge(t) \/ Clear(t) \/ SealEnds(t)
             \/ \E k \in call[t].rows : SealOne(t, k)
      PROVE  Keeps
  <2>1. call[t].pc \notin Loading /\ lock' = lock
    BY <1>9 DEF RotateReads, RotateCommits, Purge, Clear, SealEnds, SealOne, Loading
  <2>2. CASE Purge(t) \/ Clear(t) \/ SealEnds(t)
    BY <1>2, <1>5, <2>1, <2>2 DEF Purge, Clear, SealEnds
  <2>3. CASE RotateReads(t) \/ (\E k \in call[t].rows : SealOne(t, k))
    <3>1. Others(t)
      BY <1>0, <2>3 DEF RotateReads, SealOne
    <3> QED BY <1>2, <2>1, <3>1
  <2>4. CASE RotateCommits(t)
    <3>1. \/ Moves(t, "failed")
          \/ call' = [call EXCEPT ![t].pc = "purging", ![t].rows = {}]
      BY <2>4 DEF RotateCommits
    <3>2. Others(t)
      BY <1>0, <1>5, <3>1
    <3> QED BY <1>2, <2>1, <3>2
  <2> QED BY <1>9, <2>2, <2>3, <2>4
<1>10. ASSUME NEW t \in Tasks, Abandon(t) PROVE Others(t) /\ Drops(t)
  BY <1>5, <1>10 DEF Abandon
<1>11. CASE UNCHANGED keyVars \/ KeysTick
  BY <1>1, <1>11 DEF keyVars, KeysTick
<1> QED
  BY <1>3, <1>6, <1>7, <1>8, <1>9, <1>10, <1>11 DEF KeysNext


LEMMA ShapeStays ==
    ASSUME Inv, [KeysNext]_keyVars
    PROVE  ShapeInv'
<1>1. ShapeInv /\ Steps
  BY EveryStep DEF Inv
<1>2. keys' \in SUBSET KeyRow /\ made' \in Nat
  BY KeysRight
<1>3. mix' \in KeyMixes /\ withKek' \in SUBSET Instances /\ now' \in Nat /\ now' <= LastSecond
  <2>1. mix \in KeyMixes /\ withKek \in SUBSET Instances /\ now \in Nat /\ now <= LastSecond
    BY <1>1 DEF ShapeInv
  <2>2. CASE KeysTick
    BY <2>1, <2>2, Times DEF KeysTick
  <2> QED BY <2>1, <2>2, MinutesPass
<1>4. call' \in [Tasks -> Call]
  BY <1>1, <1>2, CallStepType DEF Steps
<1>5. copy' \in [Instances -> Copy \cup {None}]
  <2>1. ASSUME NEW i \in Instances PROVE copy'[i] \in Copy \cup {None}
    <3>1. CASE copy'[i] = copy[i] \/ copy'[i] = None
      BY <1>1, <3>1 DEF ShapeInv
    <3>2. ASSUME NEW t \in Tasks, NEW k \in ActiveKeys(call[t].rows),
                 copy'[i] = [at |-> now, id |-> k.id, private |-> k.private,
                             verifying |-> {r.id : r \in call[t].rows}]
          PROVE  copy'[i] \in Copy
      <4>1. now \in Nat /\ call[t].rows \in SUBSET KeyRow
        BY <1>1 DEF ShapeInv, Call
      <4>2. k \in KeyRow /\ {r.id : r \in call[t].rows} \in SUBSET Nat
        BY <4>1 DEF ActiveKeys, KeyRow
      <4> QED BY <3>2, <4>1, <4>2 DEF Copy, KeyRow
    <3> QED BY <1>1, <3>1, <3>2 DEF Steps, CopyStep
  <2> QED BY <1>1, <2>1 DEF Steps
<1>6. tokens' \in SUBSET Token
  <2>1. ASSUME NEW t \in Tasks, NEW id \in Nat, NEW private \in Nat
        PROVE  [id |-> id, private |-> private, expires |-> call[t].expires] \in Token
    BY <1>1 DEF ShapeInv, Call, Token
  <2> QED BY <1>1, <2>1 DEF Steps, TokenStep, ShapeInv
<1>7. lock' \in [Instances -> Tasks \cup {None}]
  BY <1>1, LocksChange DEF ShapeInv
<1>8. lastMiss' \in [Instances -> Nat \cup {None}]
  <2>1. lastMiss' = lastMiss \/ \E i : lastMiss' = [lastMiss EXCEPT ![i] = now]
    BY DEF KeysNext, Mint, Rotate, Seal, Check, Consult, LockStale, LockMissing, LoadRows,
           InsertFirst, Install, RotateReads, RotateCommits, Purge, Clear, SealOne, SealEnds,
           Abandon, KeysTick, keyVars
  <2> QED BY <1>1, <2>1 DEF ShapeInv
<1> QED BY <1>2, <1>3, <1>4, <1>5, <1>6, <1>7, <1>8 DEF ShapeInv

\* Time in a step: it stands still, or it passes and only tokens expire.
LEMMA Time ==
    ASSUME Inv, [KeysNext]_keyVars
    PROVE  /\ now \in Nat /\ now' \in Nat /\ now <= now'
           /\ now' = now \/ UNCHANGED <<mix, withKek, keys, made, copy, lock, lastMiss, call>>
           /\ now' = now \/ /\ tokens' = {token \in tokens : now' <= token.expires}
                            /\ \A t \in Tasks : call[t].pc \in Loading \cup {"rotating", "swapping"}
                                 => now' <= call[t].began + OpTime
<1>1. now \in Nat
  BY DEF Inv, ShapeInv
<1>2. CASE KeysTick
  <2>1. now' = now + 1 /\ tokens' = {token \in tokens : now' <= token.expires}
        /\ UNCHANGED <<mix, withKek, keys, made, copy, lock, lastMiss, call>>
        /\ \A t \in Tasks : call[t].pc \in Loading \cup {"rotating", "swapping"} =>
             now - call[t].began < OpTime
    BY <1>2 DEF KeysTick, Loading
  <2>2. \A t \in Tasks : call[t].began \in Nat
    BY DEF Inv, ShapeInv, Call
  <2>3. \A t \in Tasks : call[t].pc \in Loading \cup {"rotating", "swapping"}
          => now' <= call[t].began + OpTime
    BY <1>1, <2>1, <2>2, Times
  <2> QED BY <1>1, <2>1, <2>3
<1> QED BY <1>1, <1>2, MinutesPass

LEMMA ControlStays ==
    ASSUME Inv, [KeysNext]_keyVars
    PROVE  ControlInv'
<1>0. Steps /\ mix' = mix
  BY EveryStep, MinutesPass
<1>1. ASSUME NEW u \in Tasks
      PROVE  (/\ call[u].pc \notin Over => call[u].inst \in Instances
              /\ call[u].pc \in Serving => call[u].op \in {"mint", "check"}
              /\ call[u].pc = "missing" => call[u].op = "check"
              /\ call[u].op = "check" => call[u].pc \in Serving /\ call[u].token \in Token
              /\ call[u].op = "mint" => call[u].expires <= now + TokenTTL
              /\ call[u].missed => call[u].pc \in Loading
              /\ call[u].pc \in {"rotating", "swapping", "purging"} => "rotate" \in mix
              /\ call[u].pc = "sealing" => "seal" \in mix
              /\ call[u].pc \in Loading \cup {"rotating", "swapping", "purging"} => call[u].began <= now
              /\ call[u].pc \in Loading \cup {"rotating", "swapping"} => now <= call[u].began + OpTime)'
  <2>1. CASE now' # now
    <3>1. call' = call /\ now' \in Nat /\ now <= now'
          /\ (call[u].pc \in Loading \cup {"rotating", "swapping"} => now' <= call[u].began + OpTime)
      BY <2>1, Time
    <3>2. call[u].expires \in Nat /\ call[u].began \in Nat /\ now \in Nat
      BY DEF Inv, ShapeInv, Call
    <3> QED BY <1>0, <3>1, <3>2, Times DEF Inv, ControlInv
  <2>2. CASE now' = now
    <3>1. call[u] \in Call /\ CallStep(u) /\ now \in Nat /\ tokens \in SUBSET Token
      BY <1>0 DEF Inv, ShapeInv, Steps
    <3>2. CASE call'[u] = call[u]
      BY <1>0, <2>2, <3>2 DEF Inv, ControlInv
    <3>3. ASSUME NEW pc \in Over, call'[u] = [Waiting EXCEPT !.pc = pc]
          PROVE  /\ call'[u].pc \in Over /\ call'[u].op = None /\ ~call'[u].missed
      BY <3>3 DEF Waiting
    <3>4. ASSUME NEW i \in Instances,
                 \/ call'[u] = [Waiting EXCEPT !.pc = "asking", !.op = "mint", !.inst = i,
                                               !.expires = now + TokenTTL]
                 \/ \E token \in tokens :
                      call'[u] = [Waiting EXCEPT !.pc = "asking", !.op = "check", !.inst = i,
                                                 !.token = token]
          PROVE  /\ call'[u].pc = "asking" /\ call'[u].inst \in Instances /\ ~call'[u].missed
                 /\ \/ call'[u].op = "mint" /\ call'[u].expires = now + TokenTTL
                    \/ call'[u].op = "check" /\ call'[u].token \in Token
      BY <3>1, <3>4 DEF Waiting
    <3>5. ASSUME NEW i \in Instances,
                 \/ /\ call'[u] = [Waiting EXCEPT !.pc = "rotating", !.op = "rotate", !.inst = i,
                                                  !.began = now]
                    /\ "rotate" \in mix
                 \/ /\ call'[u] = [Waiting EXCEPT !.pc = "sealing", !.op = "seal", !.inst = i,
                                                  !.rows = {k \in keys : ~k.sealed}]
                    /\ "seal" \in mix
          PROVE  /\ call'[u].inst \in Instances /\ ~call'[u].missed
                 /\ call'[u].op \in {"rotate", "seal"}
                 /\ \/ call'[u].pc = "rotating" /\ call'[u].began = now /\ "rotate" \in mix
                    \/ call'[u].pc = "sealing" /\ "seal" \in mix
      BY <3>5 DEF Waiting
    <3>6. CASE \/ call[u].pc = "asking" /\ call'[u] = [call[u] EXCEPT !.pc = "stale"]
               \/ /\ call[u].op = "check" /\ ~call[u].missed
                  /\ call'[u] = [call[u] EXCEPT !.pc = "missing", !.rows = {}, !.began = 0]
               \/ call[u].pc = "stale" /\ call'[u] = [call[u] EXCEPT !.pc = "loading", !.began = now]
               \/ /\ call[u].pc = "missing"
                  /\ call'[u] = [call[u] EXCEPT !.pc = "loading", !.began = now, !.missed = TRUE]
      <4>1. /\ call'[u].inst = call[u].inst /\ call'[u].op = call[u].op
            /\ call'[u].token = call[u].token /\ call'[u].expires = call[u].expires
            /\ \/ /\ call'[u].pc = "stale" /\ call[u].pc = "asking"
                  /\ call'[u].missed = call[u].missed
               \/ call'[u].pc = "missing" /\ call[u].op = "check" /\ ~call'[u].missed
               \/ /\ call'[u].pc = "loading" /\ call[u].pc \in {"stale", "missing"}
                  /\ call'[u].began = now
        BY <3>1, <3>6 DEF Call
      <4>2. /\ call[u].pc \in Serving \/ call[u].op = "check"
            /\ call'[u].pc \in Serving /\ call'[u].pc \notin Over
            /\ call'[u].pc \in Loading <=> call'[u].pc = "loading"
            /\ call'[u].pc \notin {"rotating", "swapping", "purging", "sealing"}
            /\ call[u].pc \in Serving => call[u].pc \notin Over
        BY <4>1 DEF Serving, Loading, Over
      <4>3. call[u].inst \in Instances /\ call[u].op \in {"mint", "check"}
        BY <4>2 DEF Inv, ControlInv
      <4>4. call'[u].missed => call'[u].pc \in Loading
        BY <4>1, <4>2 DEF Inv, ControlInv, Loading
      <4>5. call[u].op = "check" => call[u].token \in Token
        BY DEF Inv, ControlInv
      <4>6. call[u].op = "mint" => call[u].expires <= now + TokenTTL
        BY DEF Inv, ControlInv
      <4>7. now <= now' /\ now' <= now + OpTime
        BY <2>2, <3>1, Times
      <4>8. call'[u].pc = "missing" => call'[u].op = "check"
        BY <4>1
      <4>9. call'[u].pc \in Loading => call'[u].began <= now' /\ now' <= call'[u].began + OpTime
        BY <4>1, <4>2, <4>7
      <4> QED BY <2>2, <4>1, <4>2, <4>3, <4>4, <4>5, <4>6, <4>8, <4>9
    <3>7. CASE \/ /\ call[u].pc = "loading"
                  /\ \/ call'[u] = [call[u] EXCEPT !.rows = keys, !.pc = "inserting"]
                     \/ call'[u] = [call[u] EXCEPT !.rows = keys, !.pc = "loaded"]
               \/ /\ call[u].pc = "inserting"
                  /\ call'[u] = [call[u] EXCEPT !.rows = @ \cup ActiveKeys(keys'), !.pc = "loaded"]
      BY <1>0, <2>2, <3>1, <3>7 DEF Inv, ControlInv, Over, Serving, Loading, Call
    <3>8. CASE \/ /\ call[u].pc = "rotating"
                  /\ call'[u] = [call[u] EXCEPT !.rows = ActiveKeys(keys), !.pc = "swapping"]
               \/ call[u].pc = "swapping" /\ call'[u] = [call[u] EXCEPT !.pc = "purging", !.rows = {}]
               \/ call[u].pc \in {"purging", "sealing"} /\ call'[u] = [call[u] EXCEPT !.pc = "clearing"]
               \/ /\ call[u].pc = "sealing"
                  /\ \E k \in call[u].rows : call'[u] = [call[u] EXCEPT !.rows = @ \ {k}]
      BY <1>0, <2>2, <3>1, <3>8 DEF Inv, ControlInv, Over, Serving, Loading, Call
    <3>9. None \notin {"mint", "check"}
          BY SigningKeysAssumption DEF KeyOps
    <3>10. CASE \E pc \in Over : call'[u] = [Waiting EXCEPT !.pc = pc]
      BY <3>3, <3>9, <3>10 DEF Over, Serving, Loading
    <3>11. CASE \E i \in Instances :
                  \/ call'[u] = [Waiting EXCEPT !.pc = "asking", !.op = "mint", !.inst = i,
                                                !.expires = now + TokenTTL]
                  \/ \E token \in tokens :
                       call'[u] = [Waiting EXCEPT !.pc = "asking", !.op = "check", !.inst = i,
                                                  !.token = token]
      <4>1. /\ call'[u].pc = "asking" /\ call'[u].inst \in Instances /\ ~call'[u].missed
            /\ \/ call'[u].op = "mint" /\ call'[u].expires = now + TokenTTL
               \/ call'[u].op = "check" /\ call'[u].token \in Token
        BY <3>4, <3>11
      <4>2. now + TokenTTL <= now' + TokenTTL
        BY <2>2, <3>1, Times
      <4> QED BY <4>1, <4>2 DEF Serving, Loading
    <3>12. CASE \E i \in Instances :
                  \/ /\ call'[u] = [Waiting EXCEPT !.pc = "rotating", !.op = "rotate", !.inst = i,
                                                   !.began = now]
                     /\ "rotate" \in mix
                  \/ /\ call'[u] = [Waiting EXCEPT !.pc = "sealing", !.op = "seal", !.inst = i,
                                                   !.rows = {k \in keys : ~k.sealed}]
                     /\ "seal" \in mix
      <4>1. /\ call'[u].inst \in Instances /\ ~call'[u].missed
            /\ call'[u].op \in {"rotate", "seal"}
            /\ \/ call'[u].pc = "rotating" /\ call'[u].began = now /\ "rotate" \in mix
               \/ call'[u].pc = "sealing" /\ "seal" \in mix
        BY <3>5, <3>12
      <4>2. now <= now' /\ now' <= now + OpTime
        BY <2>2, <3>1, Times
      <4> QED BY <1>0, <4>1, <4>2 DEF Serving, Loading
    <3> QED BY <3>1, <3>2, <3>6, <3>7, <3>8, <3>10, <3>11, <3>12 DEF CallStep
  <2> QED BY <2>1, <2>2
<1> QED BY <1>1 DEF ControlInv

LEMMA LockStays ==
    ASSUME Inv, [KeysNext]_keyVars
    PROVE  LockInv'
<1>1. ASSUME NEW i \in Instances, lock'[i] # None
      PROVE  call'[lock'[i]].pc \in Loading /\ call'[lock'[i]].inst = i
  <2>0. /\ lock \in [Instances -> Tasks \cup {None}]
        /\ lock[i] # None => /\ lock[i] \in Tasks
                             /\ call[lock[i]].pc \in Loading /\ call[lock[i]].inst = i
    BY DEF Inv, ShapeInv, LockInv
  <2>1. CASE /\ lock' = lock
             /\ \A u \in Tasks : call[u].pc \in Loading =>
                  call'[u].pc \in Loading /\ call'[u].inst = call[u].inst
    BY <1>1, <2>0, <2>1
  <2>2. ASSUME NEW t \in Tasks, \A u \in Tasks : u # t => call'[u] = call[u],
               \/ /\ call[t].pc \notin Loading /\ call[t].inst \in Instances
                  /\ lock' = [lock EXCEPT ![call[t].inst] = t]
                  /\ call'[t].pc = "loading" /\ call'[t].inst = call[t].inst
               \/ /\ call[t].pc = "loaded" /\ call[t].inst \in Instances
                  /\ lock' = [lock EXCEPT ![call[t].inst] = None]
               \/ lock' = [j \in Instances |-> IF lock[j] = t THEN None ELSE lock[j]]
        PROVE  call'[lock'[i]].pc \in Loading /\ call'[lock'[i]].inst = i
    BY <1>1, <2>0, <2>2 DEF Loading
  <2> QED BY <2>1, <2>2, LocksChange
<1> QED BY <1>1 DEF LockInv

\* What a call has read it read from the rows.
LEMMA RowsRead ==
    ASSUME Inv, NEW u \in Tasks, CallStep(u), NEW k \in call'[u].rows
    PROVE  k \in call[u].rows \/ k \in keys \/ k \in keys'
<1>1. call[u] \in Call
  BY DEF Inv, ShapeInv
<1>2. Waiting.rows = {} /\ ActiveKeys(keys) \subseteq keys /\ ActiveKeys(keys') \subseteq keys'
  BY DEF Waiting, ActiveKeys
<1>3. CASE \/ call'[u] = call[u]
           \/ \E pc \in Over : call'[u] = [Waiting EXCEPT !.pc = pc]
           \/ \E i \in Instances :
                \/ call'[u] = [Waiting EXCEPT !.pc = "asking", !.op = "mint", !.inst = i,
                                              !.expires = now + TokenTTL]
                \/ \E token \in tokens :
                     call'[u] = [Waiting EXCEPT !.pc = "asking", !.op = "check", !.inst = i,
                                                !.token = token]
                \/ call'[u] = [Waiting EXCEPT !.pc = "rotating", !.op = "rotate", !.inst = i,
                                              !.began = now]
                \/ call'[u] = [Waiting EXCEPT !.pc = "sealing", !.op = "seal", !.inst = i,
                                              !.rows = {j \in keys : ~j.sealed}]
  BY <1>2, <1>3 DEF Waiting
<1>4. CASE \/ call'[u] = [call[u] EXCEPT !.pc = "stale"]
           \/ call'[u] = [call[u] EXCEPT !.pc = "missing", !.rows = {}, !.began = 0]
           \/ call'[u] = [call[u] EXCEPT !.pc = "loading", !.began = now]
           \/ call'[u] = [call[u] EXCEPT !.pc = "loading", !.began = now, !.missed = TRUE]
  <2>1. call'[u].rows = call[u].rows \/ call'[u].rows = {}
    BY <1>1, <1>4 DEF Call
  <2> QED BY <2>1
<1>6. CASE \/ call'[u] = [call[u] EXCEPT !.pc = "purging", !.rows = {}]
           \/ call'[u] = [call[u] EXCEPT !.pc = "clearing"]
  <2>1. call'[u].rows = call[u].rows \/ call'[u].rows = {}
    BY <1>1, <1>6 DEF Call
  <2> QED BY <2>1
<1>7. CASE \E j \in call[u].rows : call'[u] = [call[u] EXCEPT !.rows = @ \ {j}]
  <2>1. PICK j \in call[u].rows : call'[u] = [call[u] EXCEPT !.rows = @ \ {j}]
    BY <1>7
  <2>2. call'[u].rows = call[u].rows \ {j}
    BY <1>1, <2>1 DEF Call
  <2> QED BY <2>2
<1>5. CASE \/ call'[u] = [call[u] EXCEPT !.rows = keys, !.pc = "inserting"]
           \/ call'[u] = [call[u] EXCEPT !.rows = keys, !.pc = "loaded"]
           \/ call'[u] = [call[u] EXCEPT !.rows = @ \cup ActiveKeys(keys'), !.pc = "loaded"]
           \/ call'[u] = [call[u] EXCEPT !.rows = ActiveKeys(keys), !.pc = "swapping"]
  BY <1>1, <1>2, <1>5 DEF Call
<1> QED BY <1>3, <1>4, <1>5, <1>6, <1>7 DEF CallStep

LEMMA RowsStay ==
    ASSUME Inv, [KeysNext]_keyVars
    PROVE  RowsInv'
<1>1. RowsRight(keys, made)' /\ made \in Nat /\ made' \in Nat /\ made <= made' /\ Steps
  BY KeysRight, EveryStep DEF Inv, ShapeInv
<1>2. ASSUME NEW u \in Tasks, NEW k \in call'[u].rows
      PROVE  k.private \in 1 .. made'
  <2>1. CASE k \in keys'
    BY <1>1, <2>1 DEF RowsRight
  <2>2. CASE k \in keys \/ k \in call[u].rows
    BY <1>1, <2>2 DEF Inv, RowsInv
  <2> QED BY <1>1, <2>1, <2>2, RowsRead DEF Steps
<1> QED BY <1>1, <1>2 DEF RowsInv, RowsRight


\* A key kept until a second is kept until any second before.
LEMMA KeptBefore ==
    ASSUME ShapeInv, NEW id, NEW s \in Int, NEW r \in Int, r <= s, KeptUntil(id, s)
    PROVE  KeptUntil(id, r)
<1>1. PICK k \in keys : k.id = id /\ (k.role = Active \/ k.retireAfter >= s)
  BY DEF KeptUntil
<1>2. k.retireAfter \in Nat
  BY DEF ShapeInv, KeyRow
<1>3. k.retireAfter >= s => k.retireAfter >= r
  BY <1>2
<1> QED BY <1>1, <1>3 DEF KeptUntil

\* KeptUntil after the step.
KeptNext(id, s) ==
    \E k \in keys' : k.id = id /\ (k.role = Active \/ k.retireAfter >= s)

LEMMA KeptOn ==
    ASSUME Inv, [KeysNext]_keyVars, NEW id \in Nat, NEW s \in Int,
           now <= s, s <= now - OpTime + Grace, KeptUntil(id, s)
    PROVE  KeptNext(id, s)
BY KeptStays DEF KeptNext

LEMMA CopiesStay ==
    ASSUME Inv, [KeysNext]_keyVars
    PROVE  CopiesKept'
<1>0. /\ now \in Nat /\ now' \in Nat /\ now <= now'
      /\ now' = now \/ (copy' = copy /\ keys' = keys)
  BY Time
<1>1. ASSUME NEW i \in Instances, copy'[i] # None
      PROVE  /\ copy'[i].at <= now' /\ copy'[i].id \in copy'[i].verifying
             /\ now' - copy'[i].at < RefreshInterval =>
                  KeptNext(copy'[i].id, copy'[i].at - 2 * OpTime + Grace)
  <2>1. CASE copy'[i] = copy[i]
    <3> DEFINE s == copy[i].at - 2 * OpTime + Grace
    <3>1. copy[i] \in Copy /\ copy[i].at <= now /\ copy[i].id \in copy[i].verifying
      BY <1>1, <2>1 DEF Inv, ShapeInv, CopiesKept
    <3>2. copy[i].at \in Nat /\ copy[i].id \in Nat /\ s \in Int
      BY <3>1, Times DEF Copy
    <3>3. copy[i].at <= now'
      BY <1>0, <3>1, <3>2
    <3>4. ASSUME now' - copy[i].at < RefreshInterval PROVE KeptNext(copy[i].id, s)
      <4>1. now - copy[i].at < RefreshInterval
        BY <1>0, <3>2, <3>4, Times
      <4>2. KeptUntil(copy[i].id, s)
        BY <1>1, <2>1, <4>1 DEF Inv, CopiesKept, Fresh
      <4>3. now <= s /\ s <= now - OpTime + Grace
        BY <1>0, <3>1, <3>2, <4>1, Times
      <4> QED BY <3>2, <4>2, <4>3, KeptOn
    <3> QED BY <2>1, <3>1, <3>3, <3>4
  <2>2. ASSUME NEW t \in Tasks, call[t].pc = "loaded", NEW k \in ActiveKeys(call[t].rows),
               copy'[i] = [at |-> now, id |-> k.id, private |-> k.private,
                           verifying |-> {r.id : r \in call[t].rows}],
               now' = now
        PROVE  /\ copy'[i].at <= now' /\ copy'[i].id \in copy'[i].verifying
               /\ KeptNext(copy'[i].id, copy'[i].at - 2 * OpTime + Grace)
    <3> DEFINE s == now - 2 * OpTime + Grace
    <3>1. copy'[i].at = now /\ copy'[i].id = k.id /\ k.id \in copy'[i].verifying
      BY <2>2 DEF ActiveKeys
    <3>2. k.id \in Nat /\ call[t].began \in Nat /\ now <= call[t].began + OpTime
      BY <2>2 DEF Inv, ShapeInv, ControlInv, Call, ActiveKeys, KeyRow, Loading
    <3>3. KeptUntil(k.id, call[t].began - OpTime + Grace)
      BY <2>2 DEF Inv, LoadsKept
    <3>4. s \in Int /\ call[t].began - OpTime + Grace \in Int /\ s <= call[t].began - OpTime + Grace
      BY <1>0, <3>2, Times
    <3>5. KeptUntil(k.id, s)
      BY <3>3, <3>4, KeptBefore DEF Inv
    <3>6. now <= s /\ s <= now - OpTime + Grace
      BY <1>0, Times
    <3>7. KeptNext(k.id, s)
      BY <3>2, <3>4, <3>5, <3>6, KeptOn
    <3> QED BY <1>0, <2>2, <3>1, <3>7
  <2> QED BY <1>0, <1>1, <2>1, <2>2, EveryStep DEF Steps, CopyStep
<1> QED BY <1>1 DEF CopiesKept, Fresh, KeptUntil, KeptNext

LEMMA LoadsStay ==
    ASSUME Inv, [KeysNext]_keyVars
    PROVE  LoadsKept'
<1>0. now \in Nat /\ now' \in Nat /\ Steps
  BY Time, EveryStep
<1>1. ASSUME NEW u \in Tasks
      PROVE  /\ call'[u].pc = "loaded" => ActiveKeys(call'[u].rows) # {}
             /\ call'[u].pc \in {"inserting", "loaded"} =>
                  \A k \in ActiveKeys(call'[u].rows) : KeptNext(k.id, call'[u].began - OpTime + Grace)
  <2>0. call[u] \in Call /\ CallStep(u)
    BY <1>0 DEF Inv, ShapeInv, Steps
  <2>1. ASSUME call[u].pc \in {"inserting", "loaded"}, NEW k \in ActiveKeys(call[u].rows)
        PROVE  KeptNext(k.id, call[u].began - OpTime + Grace)
    <3> DEFINE s == call[u].began - OpTime + Grace
    <3>1. k.id \in Nat /\ call[u].began \in Nat /\ call[u].began <= now
          /\ now <= call[u].began + OpTime
      BY <2>0, <2>1 DEF Inv, ControlInv, Call, ActiveKeys, KeyRow, Loading
    <3>2. s \in Int /\ now <= s /\ s <= now - OpTime + Grace
      BY <1>0, <3>1, Times
    <3>3. KeptUntil(k.id, s)
      BY <2>1 DEF Inv, LoadsKept
    <3> QED BY <3>1, <3>2, <3>3, KeptOn
  <2>2. ASSUME NEW k \in ActiveKeys(keys'), NEW s PROVE KeptNext(k.id, s)
    BY <2>2 DEF ActiveKeys, KeptNext
  <2>3. CASE call'[u] = call[u]
    BY <2>1, <2>3 DEF Inv, LoadsKept
  <2>4. CASE /\ call[u].pc = "loading" /\ keys' = keys
             /\ \/ call'[u] = [call[u] EXCEPT !.rows = keys, !.pc = "inserting"] /\ ActiveKeys(keys) = {}
                \/ call'[u] = [call[u] EXCEPT !.rows = keys, !.pc = "loaded"] /\ ActiveKeys(keys) # {}
    <3>1. call'[u].rows = keys' /\ call'[u].pc \in {"inserting", "loaded"}
          /\ (call'[u].pc = "loaded" => ActiveKeys(keys') # {})
      BY <2>0, <2>4 DEF Call
    <3> QED BY <2>2, <3>1
  <2>5. CASE /\ call[u].pc = "inserting"
             /\ call'[u] = [call[u] EXCEPT !.rows = @ \cup ActiveKeys(keys'), !.pc = "loaded"]
             /\ ActiveKeys(keys') # {}
    <3>1. /\ call'[u].rows = call[u].rows \cup ActiveKeys(keys')
          /\ call'[u].began = call[u].began
      BY <2>0, <2>5 DEF Call
    <3>2. ActiveKeys(call'[u].rows) = ActiveKeys(call[u].rows) \cup ActiveKeys(keys')
      BY <3>1 DEF ActiveKeys
    <3> QED BY <2>1, <2>2, <2>5, <3>1, <3>2
  <2>6. ASSUME \E pc \in Over : call'[u] = [Waiting EXCEPT !.pc = pc]
        PROVE  call'[u].pc \notin {"inserting", "loaded"}
    BY <2>6 DEF Waiting, Over
  <2>7. ASSUME NEW i \in Instances,
               \/ call'[u] = [Waiting EXCEPT !.pc = "asking", !.op = "mint", !.inst = i,
                                             !.expires = now + TokenTTL]
               \/ \E token \in tokens :
                    call'[u] = [Waiting EXCEPT !.pc = "asking", !.op = "check", !.inst = i,
                                               !.token = token]
               \/ call'[u] = [Waiting EXCEPT !.pc = "rotating", !.op = "rotate", !.inst = i,
                                             !.began = now]
               \/ call'[u] = [Waiting EXCEPT !.pc = "sealing", !.op = "seal", !.inst = i,
                                             !.rows = {k \in keys : ~k.sealed}]
        PROVE  call'[u].pc \notin {"inserting", "loaded"}
    BY <2>7 DEF Waiting
  <2>8. ASSUME call'[u] # call[u], call[u].pc \notin {"loading", "inserting"}
        PROVE  call'[u].pc \notin {"inserting", "loaded"}
    <3>1. ASSUME \/ call'[u] = [call[u] EXCEPT !.pc = "stale"]
                 \/ call'[u] = [call[u] EXCEPT !.pc = "missing", !.rows = {}, !.began = 0]
                 \/ call'[u] = [call[u] EXCEPT !.pc = "loading", !.began = now]
                 \/ call'[u] = [call[u] EXCEPT !.pc = "loading", !.began = now, !.missed = TRUE]
                 \/ call'[u] = [call[u] EXCEPT !.rows = ActiveKeys(keys), !.pc = "swapping"]
                 \/ call'[u] = [call[u] EXCEPT !.pc = "purging", !.rows = {}]
                 \/ call'[u] = [call[u] EXCEPT !.pc = "clearing"]
                 \/ /\ call[u].pc = "sealing"
                    /\ \E k \in call[u].rows : call'[u] = [call[u] EXCEPT !.rows = @ \ {k}]
          PROVE  call'[u].pc \notin {"inserting", "loaded"}
      BY <2>0, <3>1 DEF Call
    <3> QED BY <2>0, <2>8, <2>6, <2>7, <3>1 DEF CallStep
  <2>9. CASE /\ call'[u] # call[u] /\ call[u].pc \in {"loading", "inserting"}
             /\ call'[u].pc \in {"inserting", "loaded"}
    <3>1. call'[u] # [call[u] EXCEPT !.pc = "missing", !.rows = {}, !.began = 0]
      BY <2>0, <2>9 DEF Call
    <3> QED BY <2>0, <2>4, <2>5, <2>9, <2>6, <2>7, <3>1 DEF CallStep
  <2> QED BY <2>3, <2>8, <2>9
<1> QED BY <1>1 DEF LoadsKept, KeptUntil, KeptNext

\* What may be signed with now is kept as long as what it signs.
LEMMA SigningKept ==
    ASSUME Inv, NEW t \in Tasks, NEW id \in Nat, NEW private, Signing(t, id, private)
    PROVE  KeptUntil(id, now + TokenTTL)
<1>0. now \in Nat
  BY DEF Inv, ShapeInv
<1>1. ASSUME NEW i \in Instances, Fresh(i), id = copy[i].id
      PROVE  KeptUntil(id, now + TokenTTL)
  <2>1. copy[i] \in Copy /\ now - copy[i].at < RefreshInterval
        /\ KeptUntil(copy[i].id, copy[i].at - 2 * OpTime + Grace)
    BY <1>1 DEF Fresh, Inv, ShapeInv, CopiesKept
  <2>2. copy[i].at \in Nat
    BY <2>1 DEF Copy
  <2>3. now + TokenTTL <= copy[i].at - 2 * OpTime + Grace
    BY <1>0, <2>1, <2>2, Times
  <2> QED BY <1>0, <1>1, <2>1, <2>2, <2>3, KeptBefore, Times DEF Inv
<1>2. ASSUME call[t].pc = "loaded", NEW k \in ActiveKeys(call[t].rows), id = k.id
      PROVE  KeptUntil(id, now + TokenTTL)
  <2>1. call[t].began \in Nat /\ now <= call[t].began + OpTime
    BY <1>2 DEF Inv, ShapeInv, Call, ControlInv, Loading
  <2>2. KeptUntil(k.id, call[t].began - OpTime + Grace)
    BY <1>2 DEF Inv, LoadsKept
  <2>3. now + TokenTTL <= call[t].began - OpTime + Grace
    BY <1>0, <2>1, Times
  <2> QED BY <1>0, <1>2, <2>1, <2>2, <2>3, KeptBefore, Times DEF Inv
<1> QED BY <1>1, <1>2 DEF Signing

LEMMA TokensStay ==
    ASSUME Inv, [KeysNext]_keyVars
    PROVE  TokensKept'
<1>0. /\ now \in Nat /\ now' \in Nat /\ now <= now' /\ TokenStep
      /\ now' = now \/ (keys' = keys /\ tokens' = {token \in tokens : now' <= token.expires})
      /\ tokens \in SUBSET Token
  BY Time, EveryStep DEF Steps, Inv, ShapeInv
<1>1. ASSUME NEW token \in tokens, token \in tokens'
      PROVE  /\ token.expires <= now' + TokenTTL
             /\ KeptNext(token.id, now') /\ KeptNext(token.id, token.expires)
  <2>1. /\ token.expires \in Nat /\ token.id \in Nat /\ token.expires <= now + TokenTTL
        /\ KeptUntil(token.id, now) /\ KeptUntil(token.id, token.expires)
    BY <1>0 DEF Token, Inv, TokensKept
  <2>2. token.expires <= now' + TokenTTL
    BY <1>0, <2>1, Times
  <2>3. CASE now' # now
    <3>1. keys' = keys /\ now' <= token.expires
      BY <1>0, <1>1, <2>3
    <3>2. KeptUntil(token.id, now')
      BY <1>0, <2>1, <3>1, KeptBefore DEF Inv
    <3> QED BY <2>1, <2>2, <3>1, <3>2 DEF KeptUntil, KeptNext
  <2>4. CASE now' = now
    <3>1. now <= now - OpTime + Grace /\ token.expires <= now - OpTime + Grace
      BY <1>0, <2>1, Times
    <3>2. KeptNext(token.id, now)
      BY <1>0, <2>1, <3>1, KeptOn
    <3>3. KeptNext(token.id, token.expires)
      <4>1. CASE now <= token.expires
        BY <2>1, <3>1, <4>1, KeptOn
      <4>2. CASE token.expires < now
        <5>1. PICK k \in keys' : k.id = token.id /\ (k.role = Active \/ k.retireAfter >= now)
          BY <3>2 DEF KeptNext
        <5>2. k.retireAfter \in Nat
          BY KeysRight DEF KeyRow
        <5>3. k.retireAfter >= now => k.retireAfter >= token.expires
          BY <1>0, <2>1, <4>2, <5>2
        <5> QED BY <5>1, <5>3 DEF KeptNext
      <4> QED BY <1>0, <2>1, <4>1, <4>2
    <3> QED BY <2>2, <2>4, <3>2, <3>3
  <2> QED BY <2>3, <2>4
<1>2. ASSUME NEW t \in Tasks, NEW id \in Nat, NEW private \in Nat,
             call[t].op = "mint", keys' = keys, now' = now, Signing(t, id, private)
      PROVE  /\ call[t].expires <= now' + TokenTTL
             /\ KeptNext(id, now') /\ KeptNext(id, call[t].expires)
  <2>1. call[t].expires \in Nat /\ call[t].expires <= now + TokenTTL
    BY <1>2 DEF Inv, ShapeInv, Call, ControlInv
  <2>2. KeptUntil(id, now + TokenTTL)
    BY <1>2, SigningKept
  <2>3. now + TokenTTL \in Int /\ now <= now + TokenTTL
    BY <1>0, Times
  <2>4. KeptUntil(id, now) /\ KeptUntil(id, call[t].expires)
    BY <1>0, <2>1, <2>2, <2>3, KeptBefore DEF Inv
  <2> QED BY <1>2, <2>1, <2>4 DEF KeptUntil, KeptNext
<1>3. ASSUME NEW token \in tokens'
      PROVE  /\ token.expires <= now' + TokenTTL
             /\ KeptNext(token.id, now') /\ KeptNext(token.id, token.expires)
  <2>1. CASE token \in tokens
    BY <1>1, <1>3, <2>1
  <2>2. CASE token \notin tokens
    <3>1. PICK t \in Tasks, id \in Nat, private \in Nat :
            /\ call[t].op = "mint" /\ keys' = keys /\ now' = now /\ Signing(t, id, private)
            /\ tokens' = tokens \cup {[id |-> id, private |-> private, expires |-> call[t].expires]}
      BY <1>0, <1>3, <2>2 DEF TokenStep
    <3>2. token.id = id /\ token.expires = call[t].expires
      BY <1>3, <2>2, <3>1
    <3> QED BY <1>2, <3>1, <3>2
  <2> QED BY <2>1, <2>2
<1> QED BY <1>3 DEF TokensKept, KeptUntil, KeptNext

\* A call that verifies goes on verifying the same token, or ends.
LEMMA ChecksGoOn ==
    ASSUME Inv, NEW u \in Tasks, CallStep(u), call'[u].op = "check"
    PROVE  \/ call[u].op = "check" /\ call'[u].token = call[u].token
           \/ /\ call'[u].token \in tokens /\ tokens' = tokens
              /\ call'[u].pc = "asking"
<1>1. call[u] \in Call /\ None # "check"
  BY SigningKeysAssumption DEF Inv, ShapeInv, KeyOps
<1>2. ASSUME \/ \E pc \in Over : call'[u] = [Waiting EXCEPT !.pc = pc]
             \/ \E i \in Instances :
                  \/ call'[u] = [Waiting EXCEPT !.pc = "asking", !.op = "mint", !.inst = i,
                                                !.expires = now + TokenTTL]
                  \/ call'[u] = [Waiting EXCEPT !.pc = "rotating", !.op = "rotate", !.inst = i,
                                                !.began = now]
                  \/ call'[u] = [Waiting EXCEPT !.pc = "sealing", !.op = "seal", !.inst = i,
                                                !.rows = {k \in keys : ~k.sealed}]
      PROVE  call'[u].op # "check"
  BY <1>1, <1>2 DEF Waiting
<1>3. ASSUME NEW i \in Instances, NEW token \in tokens, tokens' = tokens,
             call'[u] = [Waiting EXCEPT !.pc = "asking", !.op = "check", !.inst = i,
                                        !.token = token]
      PROVE  call'[u].token \in tokens /\ call'[u].pc = "asking"
  BY <1>3 DEF Waiting
<1>4. ASSUME \/ call'[u] = call[u]
             \/ call'[u] = [call[u] EXCEPT !.pc = "stale"]
             \/ call'[u] = [call[u] EXCEPT !.pc = "missing", !.rows = {}, !.began = 0]
             \/ call'[u] = [call[u] EXCEPT !.pc = "loading", !.began = now]
             \/ call'[u] = [call[u] EXCEPT !.pc = "loading", !.began = now, !.missed = TRUE]
             \/ call'[u] = [call[u] EXCEPT !.pc = "purging", !.rows = {}]
             \/ call'[u] = [call[u] EXCEPT !.pc = "clearing"]
             \/ \E k \in call[u].rows : call'[u] = [call[u] EXCEPT !.rows = @ \ {k}]
             \/ call'[u] = [call[u] EXCEPT !.rows = keys, !.pc = "inserting"]
             \/ call'[u] = [call[u] EXCEPT !.rows = keys, !.pc = "loaded"]
             \/ call'[u] = [call[u] EXCEPT !.rows = @ \cup ActiveKeys(keys'), !.pc = "loaded"]
             \/ call'[u] = [call[u] EXCEPT !.rows = ActiveKeys(keys), !.pc = "swapping"]
      PROVE  call'[u].op = call[u].op /\ call'[u].token = call[u].token
  BY <1>1, <1>4 DEF Call
<1> QED BY <1>2, <1>3, <1>4 DEF CallStep

\* Rows that a call ends up with are the ones it had, or those there were.
LEMMA ReadsAll ==
    ASSUME Inv, NEW u \in Tasks, CallStep(u), call[u].op = "check", call'[u].op = "check",
           call'[u].pc \in {"inserting", "loaded"}
    PROVE  \/ call[u].pc \in {"inserting", "loaded"} /\ call[u].rows \subseteq call'[u].rows
           \/ call'[u].rows = keys
<1>1. call[u] \in Call /\ None # "check" /\ call[u].pc \in Serving
  BY SigningKeysAssumption DEF Inv, ShapeInv, KeyOps, ControlInv
<1>2. ASSUME \/ \E pc \in Over : call'[u] = [Waiting EXCEPT !.pc = pc]
             \/ \E i \in Instances :
                  \/ call'[u] = [Waiting EXCEPT !.pc = "asking", !.op = "mint", !.inst = i,
                                                !.expires = now + TokenTTL]
                  \/ \E token \in tokens :
                       call'[u] = [Waiting EXCEPT !.pc = "asking", !.op = "check", !.inst = i,
                                                  !.token = token]
                  \/ call'[u] = [Waiting EXCEPT !.pc = "rotating", !.op = "rotate", !.inst = i,
                                                !.began = now]
                  \/ call'[u] = [Waiting EXCEPT !.pc = "sealing", !.op = "seal", !.inst = i,
                                                !.rows = {k \in keys : ~k.sealed}]
      PROVE  call'[u].pc \notin {"inserting", "loaded"}
  BY <1>2 DEF Waiting, Over
<1>3. ASSUME \/ call'[u] = [call[u] EXCEPT !.pc = "stale"]
             \/ call'[u] = [call[u] EXCEPT !.pc = "missing", !.rows = {}, !.began = 0]
             \/ call'[u] = [call[u] EXCEPT !.pc = "loading", !.began = now]
             \/ call'[u] = [call[u] EXCEPT !.pc = "loading", !.began = now, !.missed = TRUE]
             \/ call'[u] = [call[u] EXCEPT !.pc = "purging", !.rows = {}]
             \/ call'[u] = [call[u] EXCEPT !.pc = "clearing"]
             \/ call'[u] = [call[u] EXCEPT !.rows = ActiveKeys(keys), !.pc = "swapping"]
      PROVE  call'[u].pc \notin {"inserting", "loaded"}
  BY <1>1, <1>3 DEF Call
<1>4. ASSUME \/ call'[u] = [call[u] EXCEPT !.rows = keys, !.pc = "inserting"]
             \/ call'[u] = [call[u] EXCEPT !.rows = keys, !.pc = "loaded"]
      PROVE  call'[u].rows = keys
  BY <1>1, <1>4 DEF Call
<1>5. CASE /\ call[u].pc = "inserting"
           /\ call'[u] = [call[u] EXCEPT !.rows = @ \cup ActiveKeys(keys'), !.pc = "loaded"]
  BY <1>1, <1>5 DEF Call
<1>6. call[u].pc # "sealing"
  BY <1>1 DEF Serving, Loading
<1> QED BY <1>2, <1>3, <1>4, <1>5, <1>6 DEF CallStep

LEMMA ChecksStay ==
    ASSUME Inv, [KeysNext]_keyVars
    PROVE  ChecksFind'
<1>0. now \in Nat /\ now' \in Nat /\ now <= now' /\ Steps /\ tokens \in SUBSET Token
  BY Time, EveryStep DEF Inv, ShapeInv
<1>1. ASSUME NEW u \in Tasks, call'[u].op = "check", now' <= call'[u].token.expires
      PROVE  /\ call'[u].token \in tokens'
             /\ call'[u].pc \in {"inserting", "loaded"} =>
                  \E k \in call'[u].rows : k.id = call'[u].token.id
  <2>1. \/ call[u].op = "check" /\ call'[u].token = call[u].token
        \/ call'[u].token \in tokens /\ tokens' = tokens /\ call'[u].pc = "asking"
    BY <1>0, <1>1, ChecksGoOn DEF Steps
  <2>2. CASE call[u].op = "check" /\ call'[u].token = call[u].token
    <3>1. call[u].token \in Token
      BY <2>2 DEF Inv, ControlInv
    <3>2. now <= call[u].token.expires
      BY <1>0, <1>1, <2>2, <3>1 DEF Token
    <3>3. call[u].token \in tokens
          /\ (call[u].pc \in {"inserting", "loaded"} =>
                \E k \in call[u].rows : k.id = call[u].token.id)
      BY <2>2, <3>2 DEF Inv, ChecksFind
    <3>4. call[u].token \in tokens'
      BY <1>0, <1>1, <2>2, <3>3 DEF Steps, TokenStep
    <3>5. \E k \in keys : k.id = call[u].token.id
      BY <3>3 DEF Inv, TokensKept, KeptUntil
    <3>6. ASSUME call'[u].pc \in {"inserting", "loaded"}
          PROVE  \E k \in call'[u].rows : k.id = call'[u].token.id
      <4>1. \/ call[u].pc \in {"inserting", "loaded"} /\ call[u].rows \subseteq call'[u].rows
            \/ call'[u].rows = keys
        BY <1>0, <1>1, <2>2, <3>6, ReadsAll DEF Steps
      <4> QED BY <2>2, <3>3, <3>5, <4>1
    <3> QED BY <2>2, <3>4, <3>6
  <2>3. CASE call'[u].token \in tokens /\ tokens' = tokens /\ call'[u].pc = "asking"
    BY <2>3
  <2> QED BY <2>1, <2>2, <2>3
<1> QED BY <1>1 DEF ChecksFind

LEMMA InvStays ==
    ASSUME Inv, [KeysNext]_keyVars
    PROVE  Inv'
BY ShapeStays, ControlStays, LockStays, RowsStay, CopiesStay, LoadsStay, TokensStay, ChecksStay
DEF Inv

LEMMA InvStarts ==
    ASSUME KeysInit
    PROVE  Inv
<1>1. Waiting \in Call /\ Waiting.pc = "new" /\ Waiting.op = None /\ Waiting.rows = {}
      /\ Waiting.missed = FALSE
  BY DEF Waiting, Call, Over
<1>2. now = 0 /\ \A t \in Tasks : call[t] = Waiting
  BY DEF KeysInit
<1> DEFINE first == Key(Active, 1, 1, FALSE, 0)
<1>3. \/ made = 0 /\ keys = {}
      \/ made = 1 /\ keys = {first}
  <2>1. made \in {0, 1} /\ keys = {Key(Active, id, id, FALSE, 0) : id \in 1 .. made}
    BY DEF KeysInit
  <2>2. 1 .. 0 = {} /\ 1 .. 1 = {1}
    OBVIOUS
  <2>3. CASE made = 0
    <3>1. 1 .. made = {}
      BY <2>2, <2>3
    <3>2. \A k \in keys : FALSE
      BY <2>1, <3>1
    <3> QED BY <2>3, <3>2
  <2>4. CASE made = 1
    BY <2>1, <2>2, <2>4
  <2> QED BY <2>1, <2>3, <2>4
<1>4. /\ first \in KeyRow /\ first.id = 1 /\ first.role = Active /\ first.private = 1
      /\ first.retireAfter = 0
  BY DEF Key, KeyRow, Active
<1> DEFINE boot == [at |-> 0, id |-> 1, private |-> 1, verifying |-> {1}]
<1>5. boot \in Copy /\ \A i \in Instances : copy[i] # None => copy[i] = boot /\ made = 1
  BY DEF KeysInit, Copy
<1> HIDE DEF first
<1>6. ShapeInv
  <2>1. mix \in KeyMixes /\ withKek \in SUBSET Instances /\ now \in Nat /\ now <= LastSecond
        /\ made \in Nat
    BY Times DEF KeysInit
  <2>2. keys \in SUBSET KeyRow
    BY <1>3, <1>4
  <2>3. copy \in [Instances -> Copy \cup {None}]
    BY <1>5 DEF KeysInit
  <2>4. lock \in [Instances -> Tasks \cup {None}] /\ lastMiss \in [Instances -> Nat \cup {None}]
    BY DEF KeysInit
  <2>5. tokens \in SUBSET Token /\ call \in [Tasks -> Call]
    BY <1>1 DEF KeysInit
  <2> QED BY <2>1, <2>2, <2>3, <2>4, <2>5 DEF ShapeInv
<1>7. ControlInv
  <2>1. None \notin {"mint", "check"}
    BY SigningKeysAssumption DEF KeyOps
  <2> QED BY <1>1, <1>2, <2>1 DEF ControlInv, Over, Serving, Loading
<1>8. LockInv
  BY DEF KeysInit, LockInv
<1>9. RowsInv
  <2>1. \A k \in keys : k.id \in 1 .. made /\ k.private \in 1 .. made /\ k.role = Active
                        /\ k.retireAfter = 0
    BY <1>3, <1>4
  <2>2. \A j, k \in keys : j = k
    BY <1>3
  <2> QED BY <1>1, <1>2, <2>1, <2>2 DEF RowsInv
<1>10. CopiesKept
  <2>1. ASSUME NEW i \in Instances, copy[i] # None
        PROVE  /\ copy[i].at <= now /\ copy[i].id \in copy[i].verifying
               /\ KeptUntil(copy[i].id, copy[i].at - 2 * OpTime + Grace)
    <3>1. copy[i].at = 0 /\ copy[i].id = 1 /\ copy[i].verifying = {1} /\ made = 1
      BY <1>5, <2>1
    <3>2. first \in keys
      BY <1>3, <3>1
    <3> QED BY <1>2, <1>4, <3>1, <3>2 DEF KeptUntil
  <2> QED BY <2>1 DEF CopiesKept
<1>11. LoadsKept /\ ChecksFind
  <2>1. None # "check"
    BY SigningKeysAssumption DEF KeyOps
  <2> QED BY <1>1, <1>2, <2>1 DEF LoadsKept, ChecksFind
<1>12. TokensKept
  BY DEF KeysInit, TokensKept
<1> QED BY <1>6, <1>7, <1>8, <1>9, <1>10, <1>11, <1>12 DEF Inv

\* The invariant holds in every state.
THEOREM KeysInvariant == KeysSpec => []Inv
<1>1. KeysInit => Inv
  BY InvStarts
<1>2. Inv /\ [KeysNext]_keyVars => Inv'
  BY InvStays
<1> QED BY <1>1, <1>2, PTL DEF KeysSpec
-----------------------------------------------------------------------------
(* What follows.                                                           *)

\* The rows, the copies and the locks are what the code takes them for: one
\* active key, ids that differ, locks held by reloads only.
THEOREM KeysTypeCorrect == KeysSpec => []KeysTypeOK
<1>1. Inv => KeysTypeOK
  <2> SUFFICES ASSUME Inv PROVE KeysTypeOK
    OBVIOUS
  <2>1. now \in 0 .. LastSecond
    BY Times DEF Inv, ShapeInv
  <2>2. \A k \in keys : k.sealed \in BOOLEAN
    BY DEF Inv, ShapeInv, KeyRow
  <2>3. ASSUME NEW i \in Instances
        PROVE  /\ copy[i] # None => copy[i].at \in 0 .. now /\ copy[i].id \in copy[i].verifying
               /\ lock[i] # None => call[lock[i]].pc \in {"loading", "inserting", "loaded"}
    <3>1. copy[i] # None => copy[i].at \in 0 .. now /\ copy[i].id \in copy[i].verifying
      BY CopyInUse DEF Inv, CopiesKept, Copy, ShapeInv
    <3> QED BY <3>1 DEF Inv, LockInv, Loading
  <2> QED BY <2>1, <2>2, <2>3 DEF Inv, RowsInv, KeysTypeOK
<1> QED BY <1>1, KeysInvariant, PTL

\* A step that adds a token signs it with what the call may sign with.
LEMMA Signed ==
    ASSUME Inv, [KeysNext]_keyVars, NEW token \in tokens' \ tokens
    PROVE  \E t \in Tasks : Signing(t, token.id, token.private) /\ keys' = keys
<1>1. PICK t \in Tasks, id \in Nat, private \in Nat :
        /\ Signing(t, id, private) /\ keys' = keys
        /\ tokens' = tokens \cup {[id |-> id, private |-> private, expires |-> call[t].expires]}
  BY EveryStep DEF Steps, TokenStep
<1>2. token.id = id /\ token.private = private
  BY <1>1
<1> QED BY <1>1, <1>2

\* Signing with a retired key ends RefreshInterval after the rotation that
\* retired it, and the time of a reload and of the rotation.
THEOREM RetiredKeysStopSigning ==
    ASSUME RefreshInterval > 0
    PROVE  KeysSpec => RetiredStopsSigning
<1> DEFINE Step == \A token \in tokens' \ tokens : \A k \in keys' :
                     k.id = token.id /\ k.role # Active
                       => now < (k.retireAfter - Grace) + RefreshInterval + 2 * OpTime
<1>1. ASSUME Inv, [KeysNext]_keyVars PROVE Step
  <2> SUFFICES ASSUME NEW token \in tokens' \ tokens, NEW k \in keys',
                      k.id = token.id, k.role # Active
               PROVE  now < (k.retireAfter - Grace) + RefreshInterval + 2 * OpTime
    OBVIOUS
  <2>1. PICK t \in Tasks : Signing(t, token.id, token.private) /\ keys' = keys
    BY <1>1, Signed
  <2>2. k \in keys /\ k.retireAfter \in Nat /\ now \in Nat
    BY <1>1, <2>1 DEF Inv, ShapeInv, KeyRow
  <2>3. ASSUME NEW s, KeptUntil(token.id, s) PROVE k.retireAfter >= s
    BY <1>1, <2>2, <2>3 DEF KeptUntil, Inv, RowsInv
  <2>4. ASSUME NEW i \in Instances, Fresh(i), token.id = copy[i].id
        PROVE  now < (k.retireAfter - Grace) + RefreshInterval + 2 * OpTime
    <3>1. copy[i] \in Copy /\ now - copy[i].at < RefreshInterval
          /\ KeptUntil(copy[i].id, copy[i].at - 2 * OpTime + Grace)
      BY <1>1, <2>4 DEF Inv, ShapeInv, CopiesKept, Fresh
    <3>2. k.retireAfter >= copy[i].at - 2 * OpTime + Grace
      BY <2>3, <2>4, <3>1
    <3>3. copy[i].at \in Nat
      BY <3>1 DEF Copy
    <3> QED BY <2>2, <3>1, <3>2, <3>3, Times
  <2>5. ASSUME call[t].pc = "loaded", NEW j \in ActiveKeys(call[t].rows), token.id = j.id
        PROVE  now < (k.retireAfter - Grace) + RefreshInterval + 2 * OpTime
    <3>1. call[t].began \in Nat /\ now <= call[t].began + OpTime
      BY <1>1, <2>5 DEF Inv, ShapeInv, Call, ControlInv, Loading
    <3>2. KeptUntil(j.id, call[t].began - OpTime + Grace)
      BY <1>1, <2>5 DEF Inv, LoadsKept
    <3>3. k.retireAfter >= call[t].began - OpTime + Grace
      BY <2>3, <2>5, <3>2
    <3> QED BY <2>2, <3>1, <3>3, Times
  <2> QED BY <2>1, <2>4, <2>5 DEF Signing
<1>2. Inv /\ [KeysNext]_keyVars => [Step]_keyVars
  BY <1>1
<1> QED BY <1>2, KeysInvariant, PTL DEF KeysSpec, RetiredStopsSigning

\* How a call comes to be refused.
LEMMA RefusedHow ==
    ASSUME Inv, [KeysNext]_keyVars, NEW t \in Tasks, call[t].op = "check",
           call'[t].pc = "refused", call[t].pc # "refused"
    PROVE  \/ ~call[t].missed /\ Throttled(call[t].inst)
           \/ ~Verifies(call[t].token)
<1> USE DEF Inv
<1>0. /\ call \in [Tasks -> Call] /\ call[t].pc \in Serving
      /\ call[t].pc \notin Loading => ~call[t].missed
  BY DEF ShapeInv, ControlInv
<1>1. ASSUME NEW u \in Tasks, u # t, \A v \in Tasks : v # u => call'[v] = call[v]
      PROVE  FALSE
  BY <1>1
<1>2. ASSUME NEW c, Served(t, c)
      PROVE  \/ ~Verifies(call[t].token)
             \/ call[t].missed /\ call[t].token.id \notin c.verifying
  <2>1. ASSUME call'[t] = [Waiting EXCEPT !.pc = "accepted"] PROVE FALSE
    BY <2>1 DEF Waiting
  <2>2. ASSUME call'[t] = [call[t] EXCEPT !.pc = "missing", !.rows = {}, !.began = 0] PROVE FALSE
    BY <1>0, <2>2 DEF Call
  <2> QED BY <1>0, <1>2, <2>1, <2>2, ServedEffect
<1>3. CASE call' = call
  BY <1>3
<1>4. ASSUME NEW u \in Tasks, Consult(u) \/ LockStale(u) \/ LockMissing(u)
      PROVE  \/ ~call[t].missed /\ Throttled(call[t].inst)
             \/ ~Verifies(call[t].token)
  <2>1. call[u].pc \in Serving /\ call[u].pc \notin Loading
    BY <1>4 DEF Consult, LockStale, LockMissing, Serving, Loading
  <2>2. CASE \E c : Served(u, c)
    <3>1. u = t
      BY <1>1, <2>1, <2>2, ServedEffect
    <3> QED BY <1>0, <1>2, <2>1, <2>2, <3>1
  <2>3. CASE Moves(u, "stale")
    <3>1. u = t
      BY <1>1, <2>3, MovesEffect
    <3>2. call'[t] = [call[t] EXCEPT !.pc = "stale"]
      BY <2>3, <3>1, MovesEffect DEF Over
    <3> QED BY <1>0, <3>2 DEF Call
  <2>4. CASE \/ call' = [call EXCEPT ![u].pc = "loading", ![u].began = now]
             \/ call' = [call EXCEPT ![u].pc = "loading", ![u].began = now, ![u].missed = TRUE]
    BY <1>0, <2>4 DEF Call
  <2>5. CASE LockMissing(u) /\ Throttled(call[u].inst) /\ Moves(u, "refused")
    <3>1. u = t
      BY <1>1, <2>5, MovesEffect
    <3> QED BY <1>0, <2>1, <2>5, <3>1
  <2>6. Consult(u) => (\E c : Served(u, c)) \/ Moves(u, "stale")
    BY DEF Consult
  <2>7. LockStale(u) => \/ \E c : Served(u, c)
                        \/ call' = [call EXCEPT ![u].pc = "loading", ![u].began = now]
    BY DEF LockStale, Locks
  <2>8. LockMissing(u) =>
          \/ \E c : Served(u, c)
          \/ call' = [call EXCEPT ![u].pc = "loading", ![u].began = now, ![u].missed = TRUE]
          \/ Throttled(call[u].inst) /\ Moves(u, "refused")
    BY DEF LockMissing
  <2> QED BY <1>4, <2>2, <2>3, <2>4, <2>5, <2>6, <2>7, <2>8
<1>5. ASSUME NEW u \in Tasks, Install(u) PROVE ~Verifies(call[t].token)
  <2> DEFINE active == CHOOSE k \in ActiveKeys(call[u].rows) : TRUE
             loaded == [at |-> now, id |-> active.id, private |-> active.private,
                        verifying |-> {k.id : k \in call[u].rows}]
  <2>1. call[u].pc = "loaded" /\ call[u].pc \in Serving
    BY <1>5 DEF Install, Serving, Loading
  <2>2. CASE Moves(u, "failed")
    <3>1. u = t
      BY <1>1, <2>2, MovesEffect
    <3>2. call'[t] = [Waiting EXCEPT !.pc = "failed"]
      BY <2>2, <3>1, MovesEffect DEF Over
    <3> QED BY <3>2 DEF Waiting
  <2>3. CASE Served(u, loaded)
    <3>1. u = t
      BY <1>1, <2>1, <2>3, ServedEffect
    <3>2. loaded.verifying = {k.id : k \in call[t].rows}
      BY <3>1
    <3>3. Verifies(call[t].token) => call[t].token.id \in loaded.verifying
      BY <2>1, <3>1, <3>2 DEF Verifies, ChecksFind
    <3> QED BY <1>2, <2>3, <3>1, <3>3
  <2> QED BY <1>5, <2>2, <2>3 DEF Install
<1>6. ASSUME NEW u \in Tasks, NEW pc, Moves(u, pc), pc # "refused" PROVE FALSE
  <2>1. u = t
    BY <1>1, <1>6, MovesEffect
  <2>2. pc \in Over => call'[t] = [Waiting EXCEPT !.pc = pc]
    BY <1>6, <2>1, MovesEffect
  <2>3. pc \notin Over => call'[t] = [call[t] EXCEPT !.pc = pc]
    BY <1>6, <2>1, MovesEffect
  <2> QED BY <1>0, <1>6, <2>2, <2>3 DEF Waiting, Call
<1>7. ASSUME NEW u \in Tasks, NEW i \in Instances,
             Mint(u, i) \/ Rotate(u, i) \/ Seal(u, i) \/ \E token \in tokens : Check(u, i, token)
      PROVE  FALSE
  <2>1. CASE u = t
    BY <1>0, <1>7, <2>1 DEF Mint, Rotate, Seal, Check, Serving, Loading
  <2>2. CASE u # t
    BY <1>0, <1>7, <2>2 DEF Mint, Rotate, Seal, Check
  <2> QED BY <2>1, <2>2
<1>8. ASSUME NEW u \in Tasks,
             \/ LoadRows(u) \/ InsertFirst(u) \/ RotateReads(u)
             \/ \E k \in call[u].rows : SealOne(u, k)
      PROVE  FALSE
  <2>1. \A v \in Tasks : v # u => call'[v] = call[v]
    BY <1>0, <1>8 DEF LoadRows, InsertFirst, RotateReads, SealOne
  <2>2. u = t
    BY <1>1, <2>1
  <2>3. LoadRows(t) \/ InsertFirst(t)
    BY <1>0, <1>8, <2>2 DEF RotateReads, SealOne, Serving, Loading
  <2>4. CASE LoadRows(t)
    <3>1. call'[t] = [call[t] EXCEPT !.rows = keys,
                        !.pc = IF ActiveKeys(keys) = {} THEN "inserting" ELSE "loaded"]
      BY <1>0, <2>4 DEF LoadRows
    <3> QED BY <1>0, <3>1 DEF Call
  <2>5. CASE InsertFirst(t)
    <3>1. PICK there : call' = [call EXCEPT ![t].rows = @ \cup there, ![t].pc = "loaded"]
      BY <2>5 DEF InsertFirst
    <3>2. call'[t] = [call[t] EXCEPT !.rows = @ \cup there, !.pc = "loaded"]
      BY <1>0, <3>1
    <3> QED BY <1>0, <3>2 DEF Call
  <2> QED BY <2>3, <2>4, <2>5
<1>9. ASSUME NEW u \in Tasks,
             RotateCommits(u) \/ Purge(u) \/ Clear(u) \/ SealEnds(u) \/ Abandon(u)
      PROVE  FALSE
  <2>1. \/ Moves(u, "failed") \/ Moves(u, "clearing") \/ Moves(u, "done")
        \/ call' = [call EXCEPT ![u].pc = "purging", ![u].rows = {}]
    BY <1>9 DEF RotateCommits, Purge, Clear, SealEnds, Abandon
  <2>2. CASE call' = [call EXCEPT ![u].pc = "purging", ![u].rows = {}]
    BY <1>0, <2>2 DEF Call
  <2> QED BY <1>6, <2>1, <2>2
<1> QED
  BY <1>3, <1>4, <1>5, <1>7, <1>8, <1>9 DEF KeysNext, KeysTick, keyVars

\* A token that should verify is refused by a throttled process only.
THEOREM OnlyThrottledRefused == KeysSpec => RefusedOnlyWhenThrottled
<1> DEFINE Step == \A t \in Tasks :
                     /\ call[t].op = "check" /\ call'[t].pc = "refused" /\ call[t].pc # "refused"
                     /\ Verifies(call[t].token)
                     => ~call[t].missed /\ Throttled(call[t].inst)
<1>1. Inv /\ [KeysNext]_keyVars => [Step]_keyVars
  BY RefusedHow
<1> QED BY <1>1, KeysInvariant, PTL DEF KeysSpec, RefusedOnlyWhenThrottled

\* Sealing and rotation not at once: what the sealing of a key that a rotation
\* retires meanwhile writes into the new key's row is another key's half.
Apart == \A m \in KeyMixes : ~({"seal", "rotate"} \subseteq m)

LEMMA PrivateStays ==
    ASSUME Apart, Inv, PrivateRight, SealsCurrent, [KeysNext]_keyVars
    PROVE  PrivateRight' /\ SealsCurrent'
<1>1. Steps /\ mix \in KeyMixes
  BY EveryStep DEF Inv, ShapeInv
<1>2. \A u \in Tasks : call[u].pc = "sealing" => "rotate" \notin mix
  BY <1>1 DEF Inv, ControlInv, Apart
<1>3. \A k \in keys' : k.private = k.id
  <2>1. CASE UNCHANGED <<keys, made>>
    BY <2>1 DEF PrivateRight
  <2>2. ASSUME NEW t \in Tasks, InsertFirst(t)
        PROVE  \A k \in keys' : k.private = k.id
    <3> DEFINE first == Key(Active, made + 1, made + 1, call[t].inst \in withKek, 0)
    <3>1. first.private = first.id
      BY DEF Key
    <3> HIDE DEF first
    <3>2. keys' \subseteq keys \cup {first} \cup ActiveKeys(keys)
      <4>1. keys' = keys \cup (IF ActiveKeys(keys) = {} THEN {first} ELSE ActiveKeys(keys))
        BY <2>2 DEF InsertFirst, first
      <4> QED BY <4>1
    <3> QED BY <3>1, <3>2 DEF PrivateRight, ActiveKeys
  <2>3. ASSUME NEW t \in Tasks, RotateCommits(t)
        PROVE  \A k \in keys' : k.private = k.id
    <3>1. CASE keys' = keys
      BY <3>1 DEF PrivateRight
    <3>2. ASSUME keys' # keys, NEW k \in keys' PROVE k.private = k.id
      <4>1. CASE k \in keys
        BY <4>1 DEF PrivateRight
      <4>2. ASSUME NEW j \in keys, k = Key(j.id, j.id, j.private, j.sealed, call[t].began + Grace)
            PROVE  k.private = k.id
        BY <4>2 DEF Key, PrivateRight
      <4>3. CASE k = Key(Active, made + 1, made + 1, call[t].inst \in withKek, 0)
        BY <4>3 DEF Key
      <4> QED BY <2>3, <3>2, <4>1, <4>2, <4>3, RotatedRows
    <3> QED BY <3>1, <3>2
  <2>4. ASSUME NEW t \in Tasks, Purge(t)
        PROVE  \A k \in keys' : k.private = k.id
    BY <2>4 DEF Purge, PrivateRight
  <2>5. ASSUME NEW t \in Tasks, NEW s \in call[t].rows, SealOne(t, s)
        PROVE  \A k \in keys' : k.private = k.id
    <3>1. PICK row \in keys : row.role = s.role /\ row.id = s.id
      BY <2>5 DEF SealOne, SealsCurrent
    <3>2. s.private = s.id
      BY DEF PrivateRight
    <3>3. ASSUME NEW j \in keys, j.role = s.role
          PROVE  [j EXCEPT !.sealed = TRUE, !.private = s.private].private
                   = [j EXCEPT !.sealed = TRUE, !.private = s.private].id
      <4>1. j = row
        BY <3>1, <3>3 DEF Inv, RowsInv
      <4>2. j \in KeyRow /\ j.id = s.id
        BY <3>1, <4>1 DEF Inv, ShapeInv
      <4> QED BY <3>2, <4>2 DEF KeyRow
    <3>4. ASSUME NEW k \in keys' PROVE k.private = k.id
      <4>1. PICK j \in keys :
              k = IF j.role = s.role THEN [j EXCEPT !.sealed = TRUE, !.private = s.private]
                  ELSE j
        BY <2>5, SealedRows
      <4>2. CASE j.role = s.role
        BY <3>3, <4>1, <4>2
      <4>3. CASE j.role # s.role
        BY <4>1, <4>3 DEF PrivateRight
      <4> QED BY <4>2, <4>3
    <3> QED BY <3>4
  <2> QED BY <2>1, <2>2, <2>3, <2>4, <2>5, KeysChange
<1>4. \A u \in Tasks : \A k \in call'[u].rows : k.private = k.id
  <2>1. ASSUME NEW u \in Tasks, NEW k \in call'[u].rows PROVE k.private = k.id
    <3>1. k \in call[u].rows \/ k \in keys \/ k \in keys'
      BY <1>1, RowsRead DEF Steps
    <3> QED BY <1>3, <3>1 DEF PrivateRight
  <2> QED BY <2>1
<1>5. \A i \in Instances : copy'[i] # None => copy'[i].private = copy'[i].id
  <2>1. ASSUME NEW i \in Instances, NEW t \in Tasks, NEW k \in ActiveKeys(call[t].rows),
               copy'[i] = [at |-> now, id |-> k.id, private |-> k.private,
                           verifying |-> {r.id : r \in call[t].rows}]
        PROVE  copy'[i].private = copy'[i].id
    BY <2>1 DEF ActiveKeys, PrivateRight
  <2> QED BY <1>1, <2>1 DEF Steps, CopyStep, PrivateRight
<1>6. \A token \in tokens' : token.private = token.id
  <2>1. ASSUME NEW token \in tokens', token \notin tokens PROVE token.private = token.id
    <3>1. PICK t \in Tasks : Signing(t, token.id, token.private)
      BY <2>1, Signed
    <3> QED BY <3>1 DEF Signing, ActiveKeys, PrivateRight, Fresh
  <2> QED BY <2>1 DEF PrivateRight
<1>7. SealsCurrent'
  <2>1. ASSUME NEW u \in Tasks, call'[u].pc = "sealing", NEW k \in call'[u].rows
        PROVE  \E row \in keys' : row.role = k.role /\ row.id = k.id
    <3>0. call[u] \in Call /\ CallStep(u)
      BY <1>1 DEF Steps, Inv, ShapeInv
    <3>1. \/ call[u].pc = "sealing" /\ k \in call[u].rows
          \/ k \in keys /\ keys' = keys
      <4>1. ASSUME \/ \E pc \in Over : call'[u] = [Waiting EXCEPT !.pc = pc]
                   \/ \E i \in Instances :
                        \/ call'[u] = [Waiting EXCEPT !.pc = "asking", !.op = "mint", !.inst = i,
                                                      !.expires = now + TokenTTL]
                        \/ \E token \in tokens :
                             call'[u] = [Waiting EXCEPT !.pc = "asking", !.op = "check",
                                                        !.inst = i, !.token = token]
                        \/ call'[u] = [Waiting EXCEPT !.pc = "rotating", !.op = "rotate",
                                                      !.inst = i, !.began = now]
            PROVE  FALSE
        BY <2>1, <4>1 DEF Waiting, Over
      <4>2. ASSUME \/ call'[u] = [call[u] EXCEPT !.pc = "stale"]
                   \/ call'[u] = [call[u] EXCEPT !.pc = "missing", !.rows = {}, !.began = 0]
                   \/ call'[u] = [call[u] EXCEPT !.pc = "loading", !.began = now]
                   \/ call'[u] = [call[u] EXCEPT !.pc = "loading", !.began = now, !.missed = TRUE]
                   \/ call'[u] = [call[u] EXCEPT !.rows = keys, !.pc = "inserting"]
                   \/ call'[u] = [call[u] EXCEPT !.rows = keys, !.pc = "loaded"]
                   \/ call'[u] = [call[u] EXCEPT !.rows = @ \cup ActiveKeys(keys'), !.pc = "loaded"]
                   \/ call'[u] = [call[u] EXCEPT !.rows = ActiveKeys(keys), !.pc = "swapping"]
                   \/ call'[u] = [call[u] EXCEPT !.pc = "purging", !.rows = {}]
                   \/ call'[u] = [call[u] EXCEPT !.pc = "clearing"]
            PROVE  FALSE
        BY <2>1, <3>0, <4>2 DEF Call
      <4>3. CASE \E i \in Instances :
                   /\ call'[u] = [Waiting EXCEPT !.pc = "sealing", !.op = "seal", !.inst = i,
                                                 !.rows = {j \in keys : ~j.sealed}]
                   /\ keys' = keys
        BY <2>1, <4>3 DEF Waiting
      <4>4. CASE /\ call[u].pc = "sealing"
                 /\ \E j \in call[u].rows : call'[u] = [call[u] EXCEPT !.rows = @ \ {j}]
        BY <2>1, <3>0, <4>4 DEF Call
      <4> QED BY <2>1, <3>0, <4>1, <4>2, <4>3, <4>4 DEF CallStep
    <3>2. CASE k \in keys /\ keys' = keys
      BY <3>2
    <3>3. CASE call[u].pc = "sealing" /\ k \in call[u].rows
      <4>1. PICK row \in keys : row.role = k.role /\ row.id = k.id
        BY <3>3 DEF SealsCurrent
      <4>2. ASSUME NEW t \in Tasks, RotateCommits(t) \/ Purge(t) PROVE FALSE
        BY <1>2, <3>3, <4>2 DEF RotateCommits, Purge, Inv, ControlInv
      <4>3. ASSUME NEW t \in Tasks, InsertFirst(t) PROVE row \in keys'
        BY <4>3 DEF InsertFirst
      <4>4. ASSUME NEW t \in Tasks, NEW s \in call[t].rows, SealOne(t, s)
            PROVE  \E r \in keys' : r.role = row.role /\ r.id = row.id
        BY <4>4, SealedRows
      <4> QED BY <4>1, <4>2, <4>3, <4>4, KeysChange
    <3> QED BY <3>1, <3>2, <3>3
  <2> QED BY <2>1 DEF SealsCurrent
<1> QED BY <1>3, <1>4, <1>5, <1>6, <1>7 DEF PrivateRight

\* Every token somebody holds verifies with a key that is published, unless
\* sealing runs while keys rotate.
THEOREM TokensAlwaysVerify ==
    ASSUME Apart
    PROVE  KeysSpec => []TokensVerify
<1>1. KeysInit => PrivateRight /\ SealsCurrent
  <2> SUFFICES ASSUME KeysInit PROVE PrivateRight /\ SealsCurrent
    OBVIOUS
  <2>1. /\ \A t \in Tasks : call[t] = Waiting
        /\ tokens = {} /\ Waiting.rows = {} /\ Waiting.pc = "new"
    BY DEF KeysInit, Waiting
  <2>2. \A k \in keys : k.private = k.id
    BY DEF KeysInit, Key
  <2>3. \A i \in Instances : copy[i] # None => copy[i].private = copy[i].id
    BY DEF KeysInit
  <2> QED BY <2>1, <2>2, <2>3 DEF PrivateRight, SealsCurrent
<1>2. Inv /\ PrivateRight /\ SealsCurrent /\ [KeysNext]_keyVars => (PrivateRight /\ SealsCurrent)'
  BY PrivateStays
<1>3. Inv /\ PrivateRight => TokensVerify
  BY DEF Inv, PrivateRight, TokensKept, KeptUntil, TokensVerify
<1> QED BY <1>1, <1>2, <1>3, KeysInvariant, PTL DEF KeysSpec

-----------------------------------------------------------------------------
(***************************************************************************)
(* Theorems about the keys of an external issuer, for any keys, any number *)
(* of token checks and any interval and length of a fetch.                 *)
(***************************************************************************)

Pcs == {"unknown", "fetching", "answered", "again"} \cup Decided

\* A check of a token.
IsCheck == [pc : Pcs, kid : KeyIds \cup {None}, body : SUBSET KeyIds, from : Nat]

VerifierTypes ==
    /\ published \subseteq KeyIds /\ cached \subseteq KeyIds
    /\ since \in [KeyIds -> Nat] /\ minute \in Nat
    /\ refreshed \in {None} \cup Nat
    /\ check \in [Checks -> IsCheck]

Fetching(t) == check[t].pc \in {"fetching", "answered"}

\* A fetch under way began no longer than FetchTime ago, and what it was
\* answered has every key that was published since before it began.
FetchesAreRecent ==
    \A t \in Checks : Fetching(t) =>
        /\ check[t].from <= minute /\ minute <= check[t].from + FetchTime
        /\ At(t, "answered") =>
             \A k \in published : since[k] < check[t].from => k \in check[t].body

\* A set was fetched in this minute by whoever looks a second time.
JustRefreshed == \A t \in Checks : At(t, "again") => refreshed # None /\ refreshed = minute

\* The set in hand is no older than the fetch that brought it: it has every
\* key that was published since before that began.
SetIsRecent ==
    refreshed # None =>
        /\ refreshed <= minute
        /\ \A k \in published : since[k] < refreshed - FetchTime => k \in cached

VerifierInv ==
    /\ VerifierTypes
    /\ \A k \in KeyIds : since[k] <= minute
    /\ FetchesAreRecent
    /\ JustRefreshed
    /\ SetIsRecent

\* Nothing has been fetched yet.
LEMMA VerifierInvInit == VerifierInit => VerifierInv
<1> SUFFICES ASSUME VerifierInit PROVE VerifierInv
  OBVIOUS
<1> USE ExternalKeysAssumption DEF VerifierInit
<1>1. check \in [Checks -> IsCheck]
  BY DEF NoCheck, IsCheck, Pcs, Decided
<1>2. VerifierTypes
  BY <1>1 DEF VerifierTypes
<1>3. FetchesAreRecent /\ JustRefreshed
  BY DEF FetchesAreRecent, JustRefreshed, Fetching, At, NoCheck
<1> QED BY <1>2, <1>3 DEF VerifierInv, SetIsRecent

\* Checks keep their type, whoever takes the step.
LEMMA ChecksKeepType ==
    ASSUME VerifierTypes, [VerifierNext]_keyVerifierVars
    PROVE  check' \in [Checks -> IsCheck]
<1> USE ExternalKeysAssumption DEF VerifierTypes
<1>1. ASSUME NEW how \in Decided PROVE [NoCheck EXCEPT !.pc = how] \in IsCheck
  BY <1>1 DEF NoCheck, IsCheck, Pcs
<1>2. ASSUME NEW t \in Checks, NEW how \in Decided, Ends(t, how) PROVE check' \in [Checks -> IsCheck]
  BY <1>1, <1>2 DEF Ends
<1>3. ASSUME NEW t \in Checks, NEW kid \in KeyIds, Lookup(t, kid) PROVE check' \in [Checks -> IsCheck]
  <2>1. [NoCheck EXCEPT !.pc = "unknown", !.kid = kid] \in IsCheck
    BY DEF NoCheck, IsCheck, Pcs
  <2>2. check' = [check EXCEPT ![t] = [NoCheck EXCEPT !.pc = "unknown", !.kid = kid]] \/ Ends(t, "accepted")
    BY <1>3 DEF Lookup
  <2> QED BY <2>1, <2>2, <1>2 DEF Decided
<1>4. ASSUME NEW t \in Checks, LookAtAge(t) PROVE check' \in [Checks -> IsCheck]
  <2>0. check[t] \in IsCheck /\ minute \in Nat /\ published \in SUBSET KeyIds
    OBVIOUS
  <2>1. [check[t] EXCEPT !.pc = "fetching", !.from = minute] \in IsCheck
    BY <2>0 DEF IsCheck, Pcs
  <2>2. check' = [check EXCEPT ![t] = [@ EXCEPT !.pc = "fetching", !.from = minute]] \/ Ends(t, "refused")
    BY <1>4 DEF LookAtAge
  <2> QED BY <2>1, <2>2, <1>2 DEF Decided
<1>5. ASSUME NEW t \in Checks, Respond(t) PROVE check' \in [Checks -> IsCheck]
  <2>0. check[t] \in IsCheck /\ minute \in Nat /\ published \in SUBSET KeyIds
    OBVIOUS
  <2>1. [check[t] EXCEPT !.pc = "answered", !.body = published] \in IsCheck
    BY <2>0 DEF IsCheck, Pcs
  <2> QED BY <2>1, <1>5 DEF Respond
<1>6. ASSUME NEW t \in Checks, Replace(t) PROVE check' \in [Checks -> IsCheck]
  <2>0. check[t] \in IsCheck /\ minute \in Nat /\ published \in SUBSET KeyIds
    OBVIOUS
  <2>1. [check[t] EXCEPT !.pc = "again", !.body = {}, !.from = 0] \in IsCheck
    BY <2>0 DEF IsCheck, Pcs
  <2> QED BY <2>1, <1>6 DEF Replace
<1>7. ASSUME NEW t \in Checks, FetchFails(t) \/ LookupAgain(t) PROVE check' \in [Checks -> IsCheck]
  BY <1>2, <1>7 DEF FetchFails, LookupAgain, Decided
<1>8. CASE UNCHANGED keyVerifierVars \/ TimePasses \/ \E body \in KeySets : IssuerRotates(body)
  BY <1>8 DEF keyVerifierVars, TimePasses, IssuerRotates
<1> QED BY <1>3, <1>4, <1>5, <1>6, <1>7, <1>8 DEF VerifierNext

\* One step, by whoever takes it.
LEMMA VerifierInvNext == VerifierInv /\ [VerifierNext]_keyVerifierVars => VerifierInv'
<1> SUFFICES ASSUME VerifierInv, [VerifierNext]_keyVerifierVars PROVE VerifierInv'
  OBVIOUS
<1>a. check' \in [Checks -> IsCheck]
  BY ChecksKeepType DEF VerifierInv
<1> USE <1>a, ExternalKeysAssumption
<1> USE DEF VerifierInv, VerifierTypes, FetchesAreRecent, JustRefreshed, SetIsRecent, Fetching, At
<1>0. CASE UNCHANGED keyVerifierVars
  BY <1>0 DEF keyVerifierVars
<1>1. ASSUME NEW t \in Checks, NEW kid \in KeyIds, Lookup(t, kid) PROVE VerifierInv'
  <2>2. check'[t].pc \in {"accepted", "unknown"} /\ \A u \in Checks \ {t} : check'[u] = check[u]
    <3>1. \/ check' = [check EXCEPT ![t] = [NoCheck EXCEPT !.pc = "unknown", !.kid = kid]]
          \/ check' = [check EXCEPT ![t] = [NoCheck EXCEPT !.pc = "accepted"]]
      BY <1>1 DEF Lookup, Ends
    <3> QED BY <3>1 DEF NoCheck
  <2>3. FetchesAreRecent' /\ JustRefreshed'
    BY <1>1, <2>2 DEF Lookup
  <2> QED BY <1>1, <2>3 DEF Lookup
<1>2. ASSUME NEW t \in Checks, LookAtAge(t) PROVE VerifierInv'
  <2>1. CASE Recent
    BY <1>2, <2>1 DEF LookAtAge, Ends, NoCheck
  <2>2. CASE ~Recent
    <3>0. check[t] \in IsCheck /\ check' = [check EXCEPT ![t] = [check[t] EXCEPT !.pc = "fetching", !.from = minute]]
      BY <1>2, <2>2 DEF LookAtAge
    <3>1. /\ check'[t].pc = "fetching" /\ check'[t].from = minute
          /\ \A u \in Checks \ {t} : check'[u] = check[u]
      BY <3>0 DEF IsCheck
    <3> QED BY <1>2, <3>1 DEF LookAtAge
  <2> QED BY <2>1, <2>2
<1>3. ASSUME NEW t \in Checks, Respond(t) PROVE VerifierInv'
  <2>2. /\ check'[t].from = check[t].from /\ check'[t].body = published /\ check'[t].pc = "answered"
        /\ \A u \in Checks \ {t} : check'[u] = check[u]
    BY <1>3 DEF Respond, IsCheck
  <2>3. FetchesAreRecent' /\ JustRefreshed'
    BY <1>3, <2>2 DEF Respond
  <2> QED BY <1>3, <2>3 DEF Respond
<1>4. ASSUME NEW t \in Checks, FetchFails(t) PROVE VerifierInv'
  BY <1>4 DEF FetchFails, Ends, NoCheck, IsCheck, Pcs, Decided
<1>5. ASSUME NEW t \in Checks, Replace(t) PROVE VerifierInv'
  <2>1. cached' \subseteq KeyIds
    BY <1>5 DEF Replace, IsCheck
  <2>2. check'[t].pc = "again" /\ \A u \in Checks \ {t} : check'[u] = check[u]
    BY <1>5 DEF Replace, IsCheck
  <2>3. FetchesAreRecent' /\ JustRefreshed'
    BY <1>5, <2>2 DEF Replace
  <2>4. SetIsRecent'
    <3> SUFFICES ASSUME NEW k \in published, since[k] < minute - FetchTime PROVE k \in check[t].body
      BY <1>5 DEF Replace
    <3>1. minute - FetchTime <= check[t].from /\ check[t].from \in Nat
      BY <1>5 DEF Replace, IsCheck
    <3> QED BY <1>5, <3>1 DEF Replace
  <2> QED BY <1>5, <2>1, <2>3, <2>4 DEF Replace
<1>6. ASSUME NEW t \in Checks, LookupAgain(t) PROVE VerifierInv'
  BY <1>6 DEF LookupAgain, Ends, NoCheck, IsCheck, Pcs, Decided
<1>7. ASSUME NEW body \in KeySets \ {published}, IssuerRotates(body) PROVE VerifierInv'
  BY <1>7 DEF IssuerRotates, IsCheck
<1>8. CASE TimePasses
  BY <1>8 DEF TimePasses, IsCheck
<1> QED BY <1>0, <1>1, <1>2, <1>3, <1>4, <1>5, <1>6, <1>7, <1>8 DEF VerifierNext

\* What is known of every state of the verifier.
THEOREM VerifierInvariant == VerifierSpec => []VerifierInv
<1> QED BY VerifierInvInit, VerifierInvNext, PTL DEF VerifierSpec

\* Nothing is later than now, and the clock keeps its bound.
VerifierBounds ==
    /\ VerifierInv
    /\ published \in KeySets /\ minute <= LastMinute
    /\ refreshed # None => refreshed <= minute

LEMMA VerifierBoundsInit == VerifierInit => VerifierBounds
<1> SUFFICES ASSUME VerifierInit PROVE VerifierBounds
  OBVIOUS
<1> QED BY VerifierInvInit, ExternalKeysAssumption DEF VerifierInit, VerifierBounds

LEMMA VerifierBoundsNext ==
    VerifierBounds /\ [VerifierNext]_keyVerifierVars => VerifierBounds'
<1> SUFFICES ASSUME VerifierBounds, [VerifierNext]_keyVerifierVars PROVE VerifierBounds'
  OBVIOUS
<1>1. VerifierInv'
  BY VerifierInvNext DEF VerifierBounds
<1>2. minute \in Nat /\ LastMinute \in Nat /\ refreshed \in {None} \cup Nat /\ None \notin Nat
  BY ExternalKeysAssumption DEF VerifierBounds, VerifierInv, VerifierTypes
<1> HIDE DEF VerifierInv
<1> USE DEF VerifierBounds
<1>3. CASE UNCHANGED <<published, refreshed, minute>>
  BY <1>1, <1>3
<1>4. ASSUME NEW t \in Checks, Replace(t) PROVE VerifierBounds'
  <2>1. published' = published /\ minute' = minute /\ refreshed' = minute
    BY <1>4 DEF Replace
  <2> QED BY <1>1, <1>2, <2>1
<1>5. ASSUME NEW answer \in KeySets, IssuerRotates(answer) PROVE VerifierBounds'
  <2>1. published' = answer /\ minute' = minute /\ refreshed' = refreshed
    BY <1>5 DEF IssuerRotates
  <2> QED BY <1>1, <1>5, <2>1
<1>6. CASE TimePasses
  <2>1. /\ published' = published /\ minute < LastMinute /\ minute' = minute + 1
        /\ refreshed' = refreshed
    BY <1>6 DEF TimePasses
  <2>2. minute' <= LastMinute /\ minute <= minute'
    BY <1>2, <2>1
  <2>3. refreshed # None => refreshed <= minute'
    BY <1>2, <2>1
  <2> QED BY <1>1, <2>1, <2>2, <2>3
<1>7. ASSUME NEW t \in Checks,
             (\E kid \in KeyIds : Lookup(t, kid)) \/ LookAtAge(t) \/ Respond(t) \/ FetchFails(t)
               \/ LookupAgain(t)
      PROVE  VerifierBounds'
  BY <1>3, <1>7 DEF Lookup, LookAtAge, Respond, FetchFails, LookupAgain
<1>8. CASE UNCHANGED keyVerifierVars
  BY <1>3, <1>8 DEF keyVerifierVars
<1> QED BY <1>4, <1>5, <1>6, <1>7, <1>8 DEF VerifierNext

\* Every variable of the external issuer's keys keeps its type: a check is in
\* one of its places, and what was fetched and when came from the issuer, no
\* later than now (Verifier::key_for).
THEOREM VerifierTypeCorrect == VerifierSpec => []VerifierTypeOK
<1>1. VerifierBounds => VerifierTypeOK
  BY ExternalKeysAssumption
     DEF VerifierBounds, VerifierInv, VerifierTypes, VerifierTypeOK, IsCheck, Pcs, Decided
<1> QED BY <1>1, VerifierBoundsInit, VerifierBoundsNext, PTL DEF VerifierSpec

\* "Looks up a signing key, refetching the set once if the kid is unknown and
\* the cache is old enough to be worth refreshing" (key_for): however fetches
\* fail and overtake one another, whoever is refused a key that the issuer has
\* published for longer than KEY_REFRESH_INTERVAL and a fetch is refused it
\* although it has come since it was looked for.
THEOREM SeasonedKeysAccepted == VerifierSpec => NoKeyRefusedForLong
<1>1. VerifierInv /\ [VerifierNext]_keyVerifierVars
        => [\A t \in Checks : Refused(t) => ~Seasoned(check[t].kid) \/ check[t].kid \in cached]_keyVerifierVars
  <2> SUFFICES ASSUME VerifierInv, VerifierNext, NEW t \in Checks, Refused(t),
                      Seasoned(check[t].kid), check[t].kid \notin cached
               PROVE  FALSE
    OBVIOUS
  <2> USE ExternalKeysAssumption
  <2> USE DEF VerifierInv, VerifierTypes, Refused, Seasoned, At
  <2>1. check[t].kid \in published /\ since[check[t].kid] < minute - Interval - FetchTime
    OBVIOUS
  <2>2. refreshed = None \/ refreshed <= minute - Interval
    BY <2>1 DEF SetIsRecent
  <2>3. ~LookAtAge(t)
    <3> SUFFICES ASSUME LookAtAge(t) PROVE FALSE
      OBVIOUS
    <3>1. CASE Recent
      BY <2>1, <2>2, <3>1 DEF Recent, SetIsRecent
    <3>2. CASE ~Recent
      <4>1. check' = [check EXCEPT ![t] = [check[t] EXCEPT !.pc = "fetching", !.from = minute]]
        BY <3>2 DEF LookAtAge
      <4> QED BY <4>1 DEF IsCheck
    <3> QED BY <3>1, <3>2
  <2>4. ~LookupAgain(t)
    BY <2>1 DEF LookupAgain, SetIsRecent, JustRefreshed
  <2>5. ASSUME NEW u \in Checks,
               \/ \E kid \in KeyIds : Lookup(u, kid)
               \/ Respond(u) \/ FetchFails(u) \/ Replace(u)
               \/ u # t /\ (LookAtAge(u) \/ LookupAgain(u))
        PROVE  check'[t].pc # "refused" \/ check'[t].pc = check[t].pc
    <3>1. CASE u # t
      BY <2>5, <3>1 DEF Lookup, LookAtAge, Respond, FetchFails, Replace, LookupAgain, Ends
    <3>2. ASSUME NEW kid \in KeyIds, Lookup(t, kid) PROVE check'[t].pc # "refused"
      <4>1. \/ check' = [check EXCEPT ![t] = [NoCheck EXCEPT !.pc = "unknown", !.kid = kid]]
            \/ check' = [check EXCEPT ![t] = [NoCheck EXCEPT !.pc = "accepted"]]
        BY <3>2 DEF Lookup, Ends
      <4> QED BY <4>1 DEF NoCheck
    <3>3. ASSUME Respond(t) PROVE check'[t].pc # "refused"
      <4>1. check[t] \in IsCheck /\ check' = [check EXCEPT ![t] = [check[t] EXCEPT !.pc = "answered", !.body = published]]
        BY <3>3 DEF Respond
      <4> QED BY <4>1 DEF IsCheck
    <3>4. ASSUME Replace(t) PROVE check'[t].pc # "refused"
      <4>1. check[t] \in IsCheck /\ check' = [check EXCEPT ![t] = [check[t] EXCEPT !.pc = "again", !.body = {}, !.from = 0]]
        BY <3>4 DEF Replace
      <4> QED BY <4>1 DEF IsCheck
    <3>5. FetchFails(t) => check'[t].pc # "refused"
      BY DEF FetchFails, Ends, NoCheck
    <3> QED BY <2>5, <3>1, <3>2, <3>3, <3>4, <3>5
  <2>6. ~(TimePasses \/ \E body \in KeySets \ {published} : IssuerRotates(body))
    BY DEF TimePasses, IssuerRotates
  <2> QED BY <2>3, <2>4, <2>5, <2>6 DEF VerifierNext
<1> QED BY <1>1, VerifierInvariant, PTL DEF VerifierSpec, NoKeyRefusedForLong
=============================================================================
