----------------------------- MODULE SigningKeys -----------------------------
(***************************************************************************)
(* The deployment's signing keys: rows of _signing_keys in MongoDB, and    *)
(* the copy each server process signs and verifies with (`signing` in      *)
(* credentials.rs of the server crate).  Keys are made at first boot,      *)
(* replaced by rotation, encrypted in place by sealing, purged when        *)
(* everything they signed has expired.                                     *)
(*                                                                         *)
(* A key is a number.  Its public half is right in every row; the private  *)
(* half of a row is the number `private`, since rows are rewritten.  A     *)
(* task is one call, and each action is the code up to its next await.     *)
(***************************************************************************)
EXTENDS Integers, Deployment

CONSTANTS
    KeyMixes,       \* which of KeyOps happen in one behaviour: a set of choices
    TokenTTL,       \* ACCESS_TOKEN_TTL and ID_TOKEN_TTL
    RefreshInterval,\* SIGNING_REFRESH_INTERVAL
    Throttle,       \* SIGNING_RELOAD_THROTTLE
    Slack,          \* what RETIRED_KEY_GRACE adds to the two (300 seconds)
    OpTime,         \* how long a reload, or a rotation, takes at most
    LastSecond      \* bound: the last second

KeyOps == {"mint", "check", "rotate", "seal", "drop"}

ASSUME SigningKeysAssumption ==
    /\ KeyMixes \subseteq SUBSET KeyOps /\ None \notin KeyOps
    /\ {TokenTTL, RefreshInterval, Throttle, Slack, OpTime, LastSecond} \subseteq Nat
    /\ Slack >= 2 * OpTime

VARIABLES
    mix,            \* the calls and faults of this behaviour
    withKek,        \* the processes that have a key-encryption key
    now,            \* the wall clock, in seconds
    keys,           \* the rows of _signing_keys
    made,           \* how many keys have been generated
    copy,           \* per process: its CachedSigning
    lock,           \* per process: who holds `signing` for writing
    lastMiss,       \* per process: last_key_miss
    tokens,         \* the tokens minted that have not expired
    call            \* per task: what it is and where it is

keyVars == <<mix, withKek, now, keys, made, copy, lock, lastMiss, tokens, call>>

-----------------------------------------------------------------------------

Active == 0

\* `retireAfter` is 0 on the active key.  The role of a retired key is its id.
Key(role, id, private, sealed, retireAfter) ==
    [role |-> role, id |-> id, private |-> private, sealed |-> sealed,
     retireAfter |-> retireAfter]

ActiveKeys(rows) == {k \in rows : k.role = Active}

Grace == TokenTTL + RefreshInterval + Slack

\* A call: `token` is what it presents, `expires` what it mints will carry,
\* `rows` what it read, `began` when, `missed` that it asked for a reload.
Waiting == [pc |-> "new", op |-> None, inst |-> None, token |-> None, expires |-> 0,
            rows |-> {}, began |-> 0, missed |-> FALSE]

Over == {"new", "done", "accepted", "refused", "failed"}

\* Nobody has booted yet, or every process just has; it may have been shown a
\* token of an unknown key since.
KeysInit ==
    /\ mix \in KeyMixes
    /\ withKek \in SUBSET Instances
    /\ withKek # {} <=> "seal" \in mix
    /\ now = 0
    /\ made \in {0, 1}
    /\ keys = {Key(Active, id, id, FALSE, 0) : id \in 1 .. made}
    /\ copy = [i \in Instances |->
                 IF made = 0 THEN None
                 ELSE [at |-> 0, id |-> 1, private |-> 1, verifying |-> {1}]]
    /\ lock = [i \in Instances |-> None]
    /\ lastMiss \in {[i \in Instances |-> m] :
                     m \in IF made = 1 /\ "check" \in mix THEN {None, 0} ELSE {None}}
    /\ tokens = {}
    /\ call = [t \in Tasks |-> Waiting]

Moves(t, pc) ==
    call' = [call EXCEPT ![t] = IF pc \in Over THEN [Waiting EXCEPT !.pc = pc]
                                ELSE [@ EXCEPT !.pc = pc]]

-----------------------------------------------------------------------------
(* Using the copy in hand.                                                 *)

\* Mutant: a copy used until it is cleared.
EverFresh(i) == copy[i] # None

Fresh(i) == copy[i] # None /\ now - copy[i].at < RefreshInterval

Throttled(i) == lastMiss[i] # None /\ now - lastMiss[i] < Throttle

Verifies(token) == token.private = token.id /\ now <= token.expires

\* The call has signing material c: it signs, or it verifies, or it finds the
\* key of its token unknown and wants the keys read again, once.
Served(t, c) ==
    LET my == call[t]
    IN  CASE my.op = "mint" ->
               /\ tokens' = tokens \cup {[id |-> c.id, private |-> c.private,
                                          expires |-> my.expires]}
               /\ Moves(t, "done")
          [] my.op = "check" /\ my.token.id \in c.verifying ->
               /\ Moves(t, IF Verifies(my.token) THEN "accepted" ELSE "refused")
               /\ UNCHANGED tokens
          [] OTHER ->
               /\ IF my.missed THEN Moves(t, "refused")
                  ELSE call' = [call EXCEPT ![t].pc = "missing", ![t].rows = {}, ![t].began = 0]
               /\ UNCHANGED tokens

\* The time in the token is taken before the key it will be signed with.
Mint(t, i) ==
    /\ call[t].pc = "new" /\ "mint" \in mix
    /\ call' = [call EXCEPT ![t] = [Waiting EXCEPT !.pc = "asking", !.op = "mint",
                                      !.inst = i, !.expires = now + TokenTTL]]
    /\ UNCHANGED <<mix, withKek, now, keys, made, copy, lock, lastMiss, tokens>>

Check(t, i, token) ==
    /\ call[t].pc = "new" /\ "check" \in mix
    /\ call' = [call EXCEPT ![t] = [Waiting EXCEPT !.pc = "asking", !.op = "check",
                                      !.inst = i, !.token = token]]
    /\ UNCHANGED <<mix, withKek, now, keys, made, copy, lock, lastMiss, tokens>>

\* `signing`: readers wait while somebody reloads.
Consult(t) ==
    LET i == call[t].inst
    IN  /\ call[t].pc = "asking" /\ lock[i] = None
        /\ IF Fresh(i) THEN Served(t, copy[i]) ELSE Moves(t, "stale") /\ UNCHANGED tokens
        /\ UNCHANGED <<mix, withKek, now, keys, made, copy, lock, lastMiss>>

Locks(t) ==
    /\ lock' = [lock EXCEPT ![call[t].inst] = t]
    /\ call' = [call EXCEPT ![t].pc = "loading", ![t].began = now]
    /\ UNCHANGED tokens

\* `reload_signing`: somebody else may have reloaded in the meantime.
LockStale(t) ==
    LET i == call[t].inst
    IN  /\ call[t].pc = "stale" /\ lock[i] = None
        /\ IF Fresh(i) THEN Served(t, copy[i]) /\ UNCHANGED lock ELSE Locks(t)
        /\ UNCHANGED <<mix, withKek, now, keys, made, copy, lastMiss>>

\* Mutant: the clock of misses started without reading the keys again.
MissWithoutReload(t) ==
    LET i == call[t].inst
    IN  /\ call[t].pc = "missing" /\ lock[i] = None
        /\ lastMiss' = [lastMiss EXCEPT ![i] = now]
        /\ IF copy[i] # None /\ (call[t].token.id \in copy[i].verifying \/ ~Fresh(i))
           THEN Served(t, copy[i]) ELSE Moves(t, "refused") /\ UNCHANGED tokens
        /\ UNCHANGED <<mix, withKek, now, keys, made, copy, lock>>

\* `signing_for`: an unknown key makes the keys be read again, unless another
\* unknown key did a moment ago.
LockMissing(t) ==
    LET i == call[t].inst
        known == copy[i] # None /\ call[t].token.id \in copy[i].verifying
    IN  /\ call[t].pc = "missing" /\ lock[i] = None
        /\ IF known
           THEN Served(t, copy[i]) /\ UNCHANGED <<lock, lastMiss>>
           ELSE IF Throttled(i) /\ copy[i] # None
           THEN Moves(t, "refused") /\ UNCHANGED <<lock, lastMiss, tokens>>
           ELSE /\ lastMiss' = [lastMiss EXCEPT ![i] = now]
                /\ lock' = [lock EXCEPT ![i] = t]
                /\ call' = [call EXCEPT ![t].pc = "loading", ![t].began = now,
                                        ![t].missed = TRUE]
                /\ UNCHANGED tokens
        /\ UNCHANGED <<mix, withKek, now, keys, made, copy>>

-----------------------------------------------------------------------------
(* Signing::load, under the lock.                                          *)

LoadRows(t) ==
    /\ call[t].pc = "loading"
    /\ call' = [call EXCEPT ![t].rows = keys,
                  ![t].pc = IF ActiveKeys(keys) = {} THEN "inserting" ELSE "loaded"]
    /\ UNCHANGED <<mix, withKek, now, keys, made, copy, lock, lastMiss, tokens>>

\* Mutant: the first key inserted without a look at what is there.
InsertUnseen(t) ==
    LET first == Key(Active, made + 1, made + 1, call[t].inst \in withKek, 0)
    IN  /\ call[t].pc = "inserting"
        /\ made' = made + 1
        /\ keys' = keys \cup {first}
        /\ call' = [call EXCEPT ![t].rows = @ \cup {first}, ![t].pc = "loaded"]
        /\ UNCHANGED <<mix, withKek, now, copy, lock, lastMiss, tokens>>

\* signing_key_or_insert: the upsert gives back whichever key is there.
InsertFirst(t) ==
    LET first == Key(Active, made + 1, made + 1, call[t].inst \in withKek, 0)
        there == IF ActiveKeys(keys) = {} THEN {first} ELSE ActiveKeys(keys)
    IN  /\ call[t].pc = "inserting"
        /\ made' = made + 1
        /\ keys' = keys \cup there
        /\ call' = [call EXCEPT ![t].rows = @ \cup there, ![t].pc = "loaded"]
        /\ UNCHANGED <<mix, withKek, now, copy, lock, lastMiss, tokens>>

\* The copy is replaced and used, unless the active key is sealed and this
\* process cannot open it.
Install(t) ==
    LET i == call[t].inst
        active == CHOOSE k \in ActiveKeys(call[t].rows) : TRUE
        loaded == [at |-> now, id |-> active.id, private |-> active.private,
                   verifying |-> {k.id : k \in call[t].rows}]
    IN  /\ call[t].pc = "loaded"
        /\ lock' = [lock EXCEPT ![i] = None]
        /\ IF active.sealed /\ i \notin withKek
           THEN Moves(t, "failed") /\ UNCHANGED <<copy, tokens>>
           ELSE copy' = [copy EXCEPT ![i] = loaded] /\ Served(t, loaded)
        /\ UNCHANGED <<mix, withKek, now, keys, made, lastMiss>>

-----------------------------------------------------------------------------
(* Rotation and sealing, by the operator.                                  *)

Rotate(t, i) ==
    /\ call[t].pc = "new" /\ "rotate" \in mix
    /\ call' = [call EXCEPT ![t] = [Waiting EXCEPT !.pc = "rotating", !.op = "rotate",
                                      !.inst = i, !.began = now]]
    /\ UNCHANGED <<mix, withKek, now, keys, made, copy, lock, lastMiss, tokens>>

\* One MongoDB transaction: it reads the active key ...
RotateReads(t) ==
    /\ call[t].pc = "rotating"
    /\ call' = [call EXCEPT ![t].rows = ActiveKeys(keys), ![t].pc = "swapping"]
    /\ UNCHANGED <<mix, withKek, now, keys, made, copy, lock, lastMiss, tokens>>

\* Mutant: a retired key kept no longer than its tokens live.
RotateHastily(t) ==
    LET old == {Key(k.id, k.id, k.private, k.sealed, call[t].began + TokenTTL) :
                  k \in call[t].rows}
    IN  /\ call[t].pc = "swapping"
        /\ made' = made + 1
        /\ IF ActiveKeys(keys) # call[t].rows
           THEN Moves(t, "failed") /\ UNCHANGED keys
           ELSE /\ keys' = (keys \ call[t].rows) \cup old
                             \cup {Key(Active, made + 1, made + 1, call[t].inst \in withKek, 0)}
                /\ call' = [call EXCEPT ![t].pc = "purging", ![t].rows = {}]
        /\ UNCHANGED <<mix, withKek, now, copy, lock, lastMiss, tokens>>

\* ... and puts the new one in its place, unless its row changed meanwhile.
RotateCommits(t) ==
    LET old == {Key(k.id, k.id, k.private, k.sealed, call[t].began + Grace) :
                  k \in call[t].rows}
    IN  /\ call[t].pc = "swapping"
        /\ made' = made + 1
        /\ IF ActiveKeys(keys) # call[t].rows
           THEN Moves(t, "failed") /\ UNCHANGED keys
           ELSE /\ keys' = (keys \ call[t].rows) \cup old
                             \cup {Key(Active, made + 1, made + 1, call[t].inst \in withKek, 0)}
                /\ call' = [call EXCEPT ![t].pc = "purging", ![t].rows = {}]
        /\ UNCHANGED <<mix, withKek, now, copy, lock, lastMiss, tokens>>

\* purge_retired_signing_keys, as of the beginning of the call.
Purge(t) ==
    /\ call[t].pc = "purging"
    /\ keys' = {k \in keys : k.retireAfter = 0 \/ k.retireAfter >= call[t].began}
    /\ Moves(t, "clearing")
    /\ UNCHANGED <<mix, withKek, now, made, copy, lock, lastMiss, tokens>>

\* The operator's process drops its own copy; the others keep theirs.
Clear(t) ==
    /\ call[t].pc = "clearing" /\ lock[call[t].inst] = None
    /\ copy' = [copy EXCEPT ![call[t].inst] = None]
    /\ Moves(t, "done")
    /\ UNCHANGED <<mix, withKek, now, keys, made, lock, lastMiss, tokens>>

\* seal_signing_key reads all keys ...
Seal(t, i) ==
    /\ call[t].pc = "new" /\ "seal" \in mix /\ i \in withKek
    /\ call' = [call EXCEPT ![t] = [Waiting EXCEPT !.pc = "sealing", !.op = "seal",
                                      !.inst = i, !.rows = {k \in keys : ~k.sealed}]]
    /\ UNCHANGED <<mix, withKek, now, keys, made, copy, lock, lastMiss, tokens>>

\* ... and writes the private half it read of each into the row of its role.
SealOne(t, k) ==
    /\ call[t].pc = "sealing" /\ k \in call[t].rows
    /\ keys' = {IF row.role = k.role
                THEN [row EXCEPT !.sealed = TRUE, !.private = k.private] ELSE row : row \in keys}
    /\ call' = [call EXCEPT ![t].rows = @ \ {k}]
    /\ UNCHANGED <<mix, withKek, now, made, copy, lock, lastMiss, tokens>>

SealEnds(t) ==
    /\ call[t].pc = "sealing" /\ call[t].rows = {}
    /\ Moves(t, "clearing")
    /\ UNCHANGED <<mix, withKek, now, keys, made, copy, lock, lastMiss, tokens>>

-----------------------------------------------------------------------------

\* The caller goes away, or MongoDB fails: the guard of the lock is dropped.
Abandon(t) ==
    /\ "drop" \in mix /\ call[t].pc \notin Over
    /\ Moves(t, "failed")
    /\ lock' = [i \in Instances |-> IF lock[i] = t THEN None ELSE lock[i]]
    /\ UNCHANGED <<mix, withKek, now, keys, made, copy, lastMiss, tokens>>

\* Reloads take OpTime at most, and so does a rotation until it has purged.
KeysTick ==
    /\ now < LastSecond
    /\ \A t \in Tasks :
         call[t].pc \in {"loading", "inserting", "loaded", "rotating", "swapping"}
            => now - call[t].began < OpTime
    /\ now' = now + 1
    /\ tokens' = {token \in tokens : now' <= token.expires}
    /\ UNCHANGED <<mix, withKek, keys, made, copy, lock, lastMiss, call>>

KeysNext ==
    \/ \E t \in Tasks :
         \/ \E i \in Instances :
              \/ Mint(t, i) \/ Rotate(t, i) \/ Seal(t, i)
              \/ \E token \in tokens : Check(t, i, token)
         \/ Consult(t) \/ LockStale(t) \/ LockMissing(t)
         \/ LoadRows(t) \/ InsertFirst(t) \/ Install(t)
         \/ RotateReads(t) \/ RotateCommits(t) \/ Purge(t) \/ Clear(t)
         \/ \E k \in call[t].rows : SealOne(t, k)
         \/ SealEnds(t)
         \/ Abandon(t)
    \/ KeysTick

KeysSpec == KeysInit /\ [][KeysNext]_keyVars
=============================================================================
