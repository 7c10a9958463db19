# waldflam in TLA+

waldflam is a Firestore-compatible document server written in Rust over MongoDB.
This directory models the parts of it in which several tasks, processes and
networks meet, and the algorithms that decide what is written, found and
allowed; it checks them with TLC, and proves with TLAPS what the runs check of
the write path, listeners, browser sessions, triggers, credentials, keys,
batches of writes and queries.
Source paths below are relative to `src/`; `engine/`, `server/` and `rules/`
stand for `crates/waldflam-engine/src/`,
`crates/waldflam-server/src/` and `crates/waldflam-rules/src/`.

## 1. The system

```
 clients --gRPC/REST--> handlers (service.rs, rest.rs, write_stream.rs)
                           | rules check      | commit_lock (one per process)
                           v                  v
                        transaction manager   commit engine --> MongoDB
                        (txn.rs)              (commit.rs, store.rs)   |
                                              |                       | commit notices
                              publish         v                       v (change stream)
 listeners <-- listen.rs <-- watch hub (watch.rs) <-- fan-out task (fanout.rs)
     ^                                  \--> trigger dispatcher (functions.rs)
     \-- webchannel.rs (browsers)
```

Any number of server processes ("instances" here) may share one MongoDB; each
has its own transaction manager, commit lock, hub, fan-out task and sessions.

| Component | State it keeps | Operations | Hard behaviour | What makes it correct |
|---|---|---|---|---|
| Transaction manager `engine/txn.rs` | `active` transactions with their read sets and expiry; `commit_lock` | begin, record_read, take, rollback, validate_read_set | in memory and per process; reads validated outside the MongoDB transaction; expiry against commit | a commit relies on reads that hold; a transaction commits once |
| Commit engine `engine/commit.rs` | none between calls; two retry counters within one | load, check preconditions, apply in memory, persist, commit, retry | write conflicts, transient errors, commits of unknown outcome | no lost update, nothing applied twice, true answers, exact deltas |
| Commit handlers `server/service.rs`, `write_stream.rs`, `rest.rs` | the guard of the lock while they run | Commit, Create/Update/DeleteDocument, Write stream, reads with a transaction, reset | dropped at any await when the caller goes away; publish after or under the lock | the lock is always returned; every commit a handler learns of is published |
| Store `engine/store.rs` | documents and commit notices in MongoDB | rows, notices and their change stream, clear | deletes of missing rows take part in no conflict | atomicity with the notice |
| Watch hub `engine/watch.rs` | a broadcast channel of 1024 slots | publish, subscribe | slow receivers lose events | losing is noticed |
| Fan-out `engine/fanout.rs` | the resume token of its change stream | open, take, read back, republish, reopen | failing streams, state read later than the commit | each foreign commit acted on once, in order |
| Listen session `server/listen.rs` | targets, what each client has been sent | add/remove target, event, resync | commits during the initial read; lag | clients converge |
| WebChannel `server/webchannel.rs` | sessions: unacknowledged arrays, ids, RIDs seen | handshake, forward post, back channel, ack, terminate | repeated posts, overlapping GETs, missed wake-ups | messages once, responses in order, once and in the end |
| Trigger dispatcher `server/functions.rs` | a registry of triggers and a queue per process | replace, classify, match, dispatch, deliver with retries | lag, other processes' commits, failing endpoints, process death | one delivery per matching change, or a loss with a named cause |
| Credentials `engine/credentials.rs`, `server/credentials.rs` | accounts, users, sessions, spent assertions and notices in MongoDB; lookup caches per process | resolve, exchange, sign in, refresh, create, revoke, sign out, watch for notices | a cache fill racing an invalidation, crashes between two writes, a failing change stream | what is revoked stops working in time; an assertion is redeemed once |
| Signing keys, in the same files, `sealing.rs`, `signer.rs` | rows of `_signing_keys`; a copy, its lock and a throttle per process | first boot, mint, check, rotate, purge, seal | two first boots, rotations, sealings and reloads at once | a token verifies as long as it lives; a retired key stops signing |
| Authentication `server/auth.rs` | the external issuer's key set and when it was fetched | authorize, look up, fetch | three locks and a request, failures, overlapping fetches | a published key is not refused for long |
| Security rules `rules/*.rs`, `server/rules.rs` | a ruleset per database | parse, match, evaluate, check | scopes, errors as values, budgets, lists without a document | the decision its statements make, each by itself |
| Queries `engine/query.rs`, `plan.rs` | none; key columns beside each document in `store.rs` | evaluate, plan, push a window down, cursors | inexact clauses with limits; stale columns | the plan returns what scanning returns; pages tile |
| Writes `engine/commit.rs:212-430`, `fields.rs` | an in-memory view during one attempt | preconditions, merges, transforms | several writes of one document; saturation, NaN | a batch is its writes, one by one |
| Order and encoding `engine/order.rs`, `index_key.rs`, `encoding.rs` | none | compare, encode | NaN, signed zero, mixed numbers, zero bytes | keys order as values do |
| Names `engine/path.rs`, set-up `server/main.rs`, `lib.rs`, `tls.rs`, generated types `waldflam-proto` | none | parsing, wiring | none | not modelled: no protocol in them |

`PROJECT.json` lists the same parts under "components" with what is modelled
of each, and under "hazards" every place where the code is hard to test, with
the property that watches it or the reason there is none.

## 2. The modules

| Module | What it is |
|---|---|
| `DocWrites` | rows, preconditions, batches and what a commit's writes do to a row: operators only |
| `DocStore` | the abstract store: a commit is one step in which reads, preconditions and writes all hold of the same state |
| `CommitPath` | transaction manager, commit lock, commit engine, handlers and hub order, on several instances |
| `CommitProps` | the properties of `CommitPath`, with the refinement `Abstract == INSTANCE DocStore` |
| `CommitProofs` | theorems about `CommitPath`, for every value of the constants, and that on one instance it implements `DocStore` |
| `Watch`, `WatchProps`, `WatchProofs` | hubs, notices, fan-out tasks and Listen sessions, and what must be true of them |
| `WebChannel`, `WebChannelProps`, `WebChannelProofs` | one browser session, and what must be true of it |
| `Responses` | the abstract in-order channel that `WebChannelProps` shows a session to implement |
| `Deployment` | processes and calls, for every module about several processes |
| `Credentials`, `CredentialsProps`, `CredentialsProofs` | accounts, users, sessions, assertions, and the caches over them |
| `SigningKeys`, `SigningKeysProps` | the rows of the signing keys, and each process's copy |
| `ExternalKeys`, `ExternalKeysProps` | an external issuer's key set in one process |
| `KeysProofs` | theorems about both |
| `Rules` | evaluation of conditions, and the walk through match blocks |
| `Access`, `AccessProps` | one access: whose credential, what `request` and `resource` are, what the rules decide |
| `TriggerPatterns`, `Triggers`, `TriggersProps`, `TriggersProofs` | path patterns; registry, dispatcher and deliveries |
| `Numbers`, `ValueTypes` | numbers, their comparison and their encoding; the types of values and what is said of them without recursion |
| `Values`, `ValuesProps` | comparison and key encoding of all values, and what must be true of the keys |
| `WriteBatch`, `DataProps` | the writes of a batch and their transforms, and what must be true of them |
| `Queries` | the exact semantics of a query, its plan, its cursors and its window |
| `Collection`, `CollectionProps` | a collection and its key columns under commits, and queries over it |
| `DataProofs` | theorems about batches, merges, plans and cursors |
| `Recursion` | induction over the steps of a walk, which `DataProofs` and `TriggersProofs` instantiate for each of theirs |
| `MCCommit`, `MCWatch`, `MCWebChannel`, `MCAccess`, `MCData` | small values for TLC |

Operators called mutants in the comments stand for plausible bugs. Putting one
in the place of the definition below it makes the property named beside it in
`PROJECT.json` ("mutants") fail, which shows that the property depends on that
piece of code.

### The write path (`CommitPath`)

A request is one task; `pc[r]` is the await it is in. Code between two awaits
is one action, because nothing else of its process can run in between and
nothing it does leaves the process.

| `pc` | Code | Action that leaves it |
|---|---|---|
| `new` | the handler is called, reads the clock | `Receive`, then `Deny` if rules refuse |
| `waiting` | `commit_lock.lock().await` | `Acquire`, `TakeTransaction`, `TakeFails` |
| `validating` | `validate_read_set`, one lookup per await | `ReadUnchanged`, `ReadChanged`, `Load` |
| `starting` | a MongoDB transaction starts, targets are loaded | `Load` |
| `persisting` | rows and notice are written in the transaction | `Persist`, `WriteConflict`, `StorageFails` |
| `committing` | `commit_transaction`, resent while its outcome is unknown | `CommitReply`, `CommitUnknown`, `CommitTransient`, `CommitFails` |
| `publishing` | `hub.publish`, the answer | `Publish` |

`job[r]` is what the request asks, `work[r]` the state of its task, `mtx[r]`
its MongoDB transaction, `txns` the `active` map, `holder` the lock of each
instance, `hub` the order in which an instance published. `history`, `seen` are
auxiliary: the commits as MongoDB applied them and what clients read.

MongoDB is external. A transaction reads a snapshot taken at its first read, a
write fails if the row changed since or another open transaction has written
it, and a commit once sent takes effect when the server chooses, whether or not
its sender still waits (`ServerCommits`, `ServerAborts`). Callers that go away
(`Disconnect`), processes that die (`Crash`) and the reset endpoint
(`ClearData`) may come at any await.

A row's content is the set of requests whose write it still carries (`marks`):
a full set leaves one mark, a masked update or a transform adds one. An update
that is lost is a mark that is missing. Batches act on each document through
one composed write, as the code persists only a document's final state.

### Listening (`Watch`)

A commit and its notice are one step, because they are in one MongoDB
transaction; publishing to the local hub is a later one. `Callers` says how the
commits of a run are published: under the commit lock (`lockKept`, a Commit
call), after giving it back (`lockDropped`: the document calls, the Write
stream), so that events of one process may leave in the opposite order, or not
at all (`unaware`: the outcome stayed unknown, or the handler was dropped before
it learnt of it). The fan-out task of
each instance takes notices, drops its own, reads each path back one await at a
time and broadcasts. A session subscribes before it reads any request, and
serves requests and events one at a time; `view` is what its client holds. A
document target forwards the rows an event carries; a query target runs its
query again. Two auxiliary variables hold, for each process, the documents about
which its hub was left behind: `untold`, those a commit of its own changed that
nobody publishes, and `overtaken`, those it heard of last by a commit that a
later one of its own had overtaken. A document leaves both when the hub hears
of it again.

### Browser sessions (`WebChannel`)

Forward posts (`post`), the stream's bounded request channel (`inbox`), the
stream task, the buffer-filler, the array buffer (`arrays`, `nextId`) and the
GETs of the back channel (`back`), of which the client has left all but one.
`wire` is what a GET has written and the client has not read. `arming` is the
place between looking at the buffer and waiting for a notification, where
`notify_waiters` wakes nobody. The client is the browser SDK as webchannel.rs
relies on it: one post and one GET at a time, AID the id of the last array it
got, posts repeated under their RID until they are answered.

### Credentials and keys (`Credentials`, `SigningKeys`, `ExternalKeys`)

A task is one call on one process, and an action is the code up to its next
await, as in `CommitPath`. A lookup is `Ask` (the cache), `ReadRow` (MongoDB)
and `Fill`; revoking is the row, the notice (`PublishNotice`) and `ForgetOwn`;
the watcher of each process is `WatchTakes` and `WatchOpens`. A process that
comes back after a crash opens its change stream some time after it serves
calls, and sees later notices only. One account and one user stand for all. Rows of `_used_assertions` go with `ReapSpent` (the TTL
index) and in `Spend` the unique insert decides. `changedAt`, `late`, `missed`
and `claimed` are auxiliary: when a row changed, that a forget passed between a
read and a fill, that a change stream began after a notice, and when a call
redeemed its assertion.

A signing key is a number, and the private half of a row another, so that a row
rewritten with the wrong one shows. The write lock of `signing` is `lock`;
`Consult`, `LockStale`, `LockMissing`, `LoadRows`, `InsertFirst` and `Install`
are the path from a call to fresh signing material; `RotateReads` and
`RotateCommits` are the MongoDB transaction of a rotation. A reload and a
rotation take at most `OpTime`, which the code does not enforce; its grace of
300 seconds is what it relies on (`Slack >= 2 * OpTime`).

A check of an external token is `Lookup`, `LookAtAge`, a request (`Respond` or
`FetchFails`), `Replace` and `LookupAgain`, each under a lock of its own.

### Rules (`Rules`, `Access`)

`Eval` follows `eval.rs`: an error is the value `Undefined`, `&&` and `||` absorb
one, and a budget of steps, depth and lookups that runs out ends the
evaluation. `Walk` follows `matcher.rs`: segments, captures, functions,
statements, children. The property does not: `GrantedByAStatement` looks for
chains of blocks that split the path, binds captures from the split, and
evaluates each statement on its own. Integers and strings stand for values;
`request.time`, the claims of a token and the standard library are left out.

### Triggers

A commit is one step and its publishing another, in any order among those of a
process (`unsent`); a commit whose handler does not learn of it is never
published. The fan-out republishes commits elsewhere as remote events without a
before-image. The queue of the dispatcher is a broadcast receiver of `Slots`. A
POST succeeds, fails, or is never answered: the delivery then hangs, until its
process dies. `owed` is auxiliary: the events of commits that their handlers
learn of, covered by a registered trigger and not dispatched yet. A lagging
receiver, no receiver, a replaced registry and a death remove them, and nothing
else does; what a commit that nobody learns of would fire is never owed.

### Values, writes and queries

`Numbers` has a double as its bits, with the real exponent and a narrower
mantissa, since the encoding's four ranges depend on the exponent.
`ValueTypes` has the types, `Values` how they compare and what keys are written
for them. Both of these descend into values, so they are recursive, and what is built
on them takes the order and the key as operator constants, `Compared` and
`KeyOf`, which `data.cfg` gives as `CompareValues` and `EncodeValue`: what is
proved above them is proved for any order and any keys with the properties
named. `Missing` is the `None` of the code. `WriteBatch` is `apply_write` and what it calls, over fields that
are functions from names to values; the rounded sum of a double stays
symbolic. `Queries` has two readings of a query: `Evaluate(..., FALSE)` filters
and sorts documents exactly, `Evaluate(..., TRUE)` lets MongoDB select by the
plan over the key columns, pushing the window down where the code does, and
then does the same. What MongoDB's clauses select is external. `MaxDepth` bounds
how deep the columns go into maps (`key_node` recurses as far as the document
does), and a query's paths are no longer than that, so no query meets the bound. `CollectionProps` has
what is asked as constants: masks, updates and the paths looked at (`Masks`,
`Updates`, `Watched`), the queries and page sizes (`Queried`, `PageSizes`), and
the values all of them and the documents are made of (`Known`).

## 3. The runs

| Run | Asks | Bounds |
|---|---|---|
| `commit_single` | Does one instance implement `DocStore`, with exact deltas, all published? | 3 requests, 1 transaction, 2 documents with writes that depend on each other, 2 attempts |
| `commit_faults` | Does the write path stay safe under every fault, on two instances? | 2 requests, 1 transaction, 1 document, 2 attempts, 2 tries, all faults but the reset and repeated reads |
| `commit_liveness` | Does every request end, and the lock come back? | 2 requests, 1 transaction, 1 instance, with resets and repeated reads |
| `watch_query` | Does a query listener converge and catch up but for what its own process never published, with no notice skipped? | 3 commits of 2 instances, published without the lock or never, 1 slot, the change stream fails at will |
| `watch_documents` | With one writing instance, what may a document listener be left stale in? | 2 commits by callers of all three kinds, a listener at the writer and one elsewhere, 1 slot, the change stream fails at will |
| `watch_faults` | Are notices acted on once and in order, and receivers bounded, under all faults? | 2 commits by callers of all three kinds, both kinds of target, oplog truncation and failing reads included |
| `webchannel` | Are messages delivered once, does the session implement `Responses`, and do responses arrive in the end? | handshake and 1 post, 2 responses, 2 posts and 2 GETs at once, 1 broken connection |
| `access` | Do caches, assertions, signing keys and external keys keep their promises across processes and time, and do rules decide as their statements say? | 3 calls on 2 processes, 6 mixes of operations and faults for credentials and 4 for keys, clocks to 2 and 4; 2 checks and 2 keys of an external issuer, a clock to 3; about 930 rulesets by 25 accesses |
| `data` | Do keys order as values, batches mean their writes, plans keep results, pages tile; and are triggers dispatched once, and does every delivery end whose requests are answered? | all pairs of about 190 values, followed by 2 others; 1 commit of up to 2 writes over 3 documents, 10 contents; some 580 queries; 2 processes, 1 writer, 2 commits, 1 slot, 2 attempts, 1 crash |

Why the bounds are enough to be of use. The write path's races involve two
tasks: one that validated or loaded, and one that commits in between. With
three requests there is also a bystander; with two attempts and two tries both
retry loops go round and both run out. Two instances are needed for anything
the lock does not exclude. One slot in a receiver makes every second event a
lag. Two commits give an older and a newer state, which is what one commit overtaking
another takes; `watch_query` has a third, so that something follows the pair. Two posts and two
GETs at once let a repeated request overtake its original and an abandoned GET
overlap its successor. Requests are interchangeable, so the safety runs of the
write path use symmetry; runs with liveness do not. Wherever the environment
may simply stop (clients that call no more), CHECK_DEADLOCK is off.

The parts of `access`, and those of `data`, share no state, so a behaviour is
about one of them and the others stand still; `part` says which. Two processes
and three calls give a lookup, a revocation and a bystander, or a first boot, a
rotation and a check. Lifetimes of 1 make "just before", "at" and "after"
distinct within the clocks' bounds. The operations of one behaviour are those of
one mix, and the mixes put together the pairs the hazards are about; other
combinations (a sign-out during an exchange, or a revocation with a crash) are
not run, and covered by the theorems, which hold for all mixes. The clocks go to
the end of the longest chain: for keys a token minted with a copy as old as
`RefreshInterval` allows, a rotation, its grace and a second rotation that purges
the key. There a reload or a rotation ends in the second in which it began
(`OpTime` 0, and so no `Slack`), which makes the grace as long as it has to be, to
a second; operations that take longer are left to the theorems. Tasks and processes are interchangeable, so `access`
uses symmetry. A width of 15 bits keeps the remainder that 64 leaves when the
encoder takes seven bits at a time, and the doubles lie on both sides of every
border of its exponent ranges. One slot makes every second event a lag, two
attempts make one retry. `PatternsMean`, an assumption TLC evaluates in `data`,
compares trigger patterns of up to three segments with their meaning.

In the runs the constants bound commits (`MaxCommits`), array ids of noops
(`MaxIds`), responses (`MaxArrays`), posts (`Posts`) and broken connections
(`MaxBreaks`); the code has none of these bounds. `MaxAttempts`, `MaxTries` and
`Capacity` are limits of the code (10, 3, and 1024 or 64), made small.

### Fairness

- Write path: weak fairness of each task and of MongoDB on its behalf: tokio
  schedules every ready task, and MongoDB resolves what it was sent. Strong
  fairness of being granted the lock: tokio's mutex is first come, first
  served. No fairness of clients and faults.
- Listening: weak fairness of publishing, of the fan-out task and of sessions.
  A caller that has learnt of its commit publishes with no await in between;
  that every caller learns of its commit is not assumed (`unaware`).
  Strong fairness of taking the next notice: a change stream that keeps failing
  delivers now and then, as MongoDB is not down for good.
- WebChannel: weak fairness of handlers, of the tasks of the session and of
  each GET's task, whose wait ends with `NOOP_INTERVAL` at the latest; and of a
  client that reads and keeps a GET open. None of noticing an abandoned GET.
- Triggers: weak fairness of the dispatcher, of publishing and of deliveries:
  tokio schedules them, and a handler that has learnt of its commit has no await
  left before it publishes. That requests are answered is not assumed, as the
  client sets no timeout: `Attempt` may end in no answer, and `DeliveriesEnd`
  says that such a delivery holds up no other.
  None of replacing registries, of commits or of crashes.

### What the runs show to be different from what is said

Three runs are expected to fail. Each states what a comment or document says,
and shows a behaviour of the code that is otherwise; `PROJECT.json`
("findings") quotes the lines.

- `viol_two_instances`: a commit of another instance comes between validating a
  transaction's reads and writing. Each instance has its own lock, and the
  reads are validated outside the MongoDB transaction, so serializability of
  reads holds on one instance only (`commit_single`).
- `viol_unknown_outcome`: when all tries of a commit end with an unknown
  outcome, a commit that MongoDB did apply is never published by its instance,
  which also skips its own notice.
- `viol_lost_response`: the noop that opens a GET takes an id above responses
  that are buffered but not yet sent; resuming from it acknowledges them.

### Limits met while modelling

Behaviours the models include or name and about which nothing is claimed:

- The commit time is read before the lock (`server/service.rs:437`), so a later
  commit may carry an earlier update time. Versions stay distinct as long as
  the clock advances between two commits; two commits of one document in one
  microsecond are one version to a query listener. The runs of `Watch` that
  claim convergence have the clock advance.
- A transactional read that reaches an instance which did not begin the
  transaction is answered and not recorded (`engine/txn.rs:66`).
- A handler dropped while its commit is with MongoDB frees the lock, and the
  commit may land inside the next request's critical section. The MongoDB
  transaction still protects what that request writes, not what it only read.
- A change stream that fails before its first event has no token and is opened
  again from now; one whose token left the oplog cannot be opened any more.
- A path the fan-out cannot read back is left out of its event.
- A RID is remembered before its messages are delivered, so a handler dropped
  in between loses them, and a repetition is answered before its original is
  through. `MessagesOnce` says at most once.
- Tokens are taken to differ between instances and between lives of one.
- The older of two states may be the last one a document listener is sent. One
  instance suffices when its callers give the commit lock back before they
  publish (`server/service.rs:84`, `server/write_stream.rs:72`): `DocumentsConverge`
  excepts what the hub heard of last by an `overtaken` commit, of the listener's own
  process only. Commit calls publish under the lock, and without other calls there
  is no such exception (`LockedCommitsReachDocuments`). With two writing instances a
  local publish and a fan-out that has already read back are not ordered either, and
  nothing is claimed. Query listeners recover from all of it (`watch_query`).
- A commit whose outcome stays unknown (`engine/commit.rs:191`, the `?` at
  `server/service.rs:456`), or whose handler is dropped while it waits for it, is
  published by nobody in its own process, whose fan-out task skips the notice of it.
  Listeners of that process stay stale in the documents it changed until the
  hub hears of these again (`untold`); those of other processes do not.
- The task that fills a terminated session's buffer holds the sender of the
  stream's request channel (`server/webchannel.rs:149`), so the stream runs on.

Credentials and keys:

- A lookup that has read before a revocation and fills after the forget leaves
  a stale entry; so does a revocation dropped between its notice and its own
  forget, since a process skips its own notices. Both end with the cache
  lifetime plus the time of a lookup, which is what `DecisionsRecent` claims.
  An account looked up before it was created stays absent as long.
- A refresh or a sign-in under way during a sign-out mints a token dated after
  it. Two sign-outs at once may move `valid_after` back.
- The record of a spent assertion is reaped at its `exp`, while checks honour
  `exp` plus the leeway; `RedeemedOnce` is about the time before `exp`.
- A token of a key rotated in elsewhere is refused once when another unknown
  key has made the process reload within the throttle
  (`RefusedOnlyWhenThrottled`).
- Sealing updates a row by its role (`engine/credentials.rs:558`). If a rotation
  replaces the active row between its read and its write, the new row gets the
  old key's private half, and what is signed with it does not verify. Both are
  commands of an operator; no mix of the run has the two together, and
  `TokensAlwaysVerify` names the assumption (`Apart`).
- External keys: an unknown key that arrives between the lookup and the look at
  the set's age is refused although it is now cached. A failed fetch does not
  count, so each unknown key asks again; overlapping fetches may install the
  older set; a withdrawn key counts until an unknown one triggers a fetch.

Triggers: an event of an operation on a document that is not there before or
after is a deletion. Two commits in one microsecond share an event id. What a
lagging dispatcher loses is logged and not made up for; nor is what was
committed before it subscribed, or before a crash that forestalls publishing.
A commit that its handler never learns of (outcome unknown, handler dropped)
fires no trigger at all, with the process alive: the other processes take it for
remote, and its own skips the notice. An endpoint that never answers a request
keeps that delivery for good.

Rules: each statement has a budget of its own; a statement that exhausts it
ends the whole evaluation, which `GrantsAreStatements` excepts. `getAfter` and
`existsAfter` read the state before the request, and `check_writes` judges each
write against the stored state before the batch and before the lock. In a list
request, globs and `request.path` carry the marker of the unknown document,
which a rule can see; captures of it are undefined.

Writes and queries: a verify write moves the in-memory update time, so a later
write of the same batch that asks for the stored one is refused, where alone it
would succeed, and one that asks for the time of the batch succeeds.
`BatchIsItsWrites` says so: `AsCompared` puts what is compared in the place of what such a
write asks for. It takes the time of a batch to be one that no document has yet.
Order-bys that name a field twice, field names that contain a dot
(`engine/store.rs:575` has a note about it) and collection groups are outside
the inputs of the model.

## 4. What is proved

Eight modules hold theorems, for every value of the constants: any documents,
requests, processes, listeners, posts, keys, retry limits, clocks and faults.
They assume the named assumptions on the constants of the modules they extend
(`NoRowAssumption`, `WriteSetsAssumption`, `ConstantsAssumption`,
`WatchAssumption`, `WebChannelAssumption`, `TriggersAssumption`,
`CredentialsAssumption`, `SigningKeysAssumption`, `ExternalKeysAssumption`,
`DepthAssumption`, `RowsAssumption`, `BatchesAssumption`, `MasksAssumption`,
`KeysAssumption`, `QueriesAssumption`), all of which TLC evaluates in the runs,
and what the column "under" names.

| Theorem | Says | Under |
|---|---|---|
| **`CommitProofs`** | | |
| `TypeCorrect` | every variable keeps its type, both retry loops their limits | |
| `LockExcludes` | at most one request per instance is in its critical section | |
| `RowDeltasAreExact` | a commit replaces exactly the rows it loaded | |
| `AnswersAreTruthful` | ok means applied; an error other than the unknown outcome means not applied, ever | |
| `EffectsHappenOnce` | no request and no transaction takes effect twice | |
| `UpdatesAreKept` | an update stays until a later commit replaces or deletes the document | no reset |
| `EventsInCommitOrder` | an instance publishes its Commit calls in the order of their commits | |
| `CommitsArePublished` | a commit whose task has ended has been published | no unknown outcome, no task cut off |
| **`CommitProofs`, against `DocStore`** | | |
| `DeltasAreExact` | the before-image of every document of a commit is what the store held | `OneProcess`, no unknown outcome, no task cut off |
| `OneProcessSerializes` | `CommitPath` implements `DocStore` | as above, a clock that moves, no reset, no repeated reads |
| **`WatchProofs`** | | |
| `TypeCorrect` | types, and no receiver holds more than its channel has slots | |
| `EachNoticeOnce` | a fan-out task acts on each foreign notice at most once, in order, and on none of its own | |
| `ReconnectsSkipNothing` | it passes no notice without acting on it | no failure before the first event |
| `QueriesConverge` | a query listener with nothing on its way to it has what the query returns, but for documents its own process committed last without publishing | the same, no listener before the stream, no failing read-back, a clock that moves |
| `DocumentListenersConverge` | so does a document listener, but also for documents its hub heard of last by an overtaken commit | the same but the clock, `OneWriter` |
| `LockedCommitsReachDocuments` | a document listener has the stored row of every document it watches, with no exception | the same, and all commits Commit calls that learn their outcome (`Callers`) |
| **`WebChannelProofs`** | | |
| `TypeCorrect` | types, and the request channel its capacity | |
| `MessagesReachOnce` | each message of a post reaches the stream at most once | |
| `SessionImplementsResponses` | the session implements `Responses` | |
| **`TriggersProofs`** | | |
| `TriggersTypeCorrect` | queues keep their slots, deliveries their attempts | |
| `EventsDispatchedOnce` | an event is dispatched once to each trigger, where it was committed, and says what the commit did | |
| `OwedEventsTravel` | an event that is owed (of a commit its handler learns of, until the registry is replaced, the dispatcher lags or has not subscribed, or the process dies) is yet to be published or in the dispatcher's queue | |
| `PassesFindTheSplit` | one pass over a pattern's segments matches exactly when the path can be split among them, and captures what the split gives | one glob at the most |
| **`CredentialsProofs`** | | |
| `ClaimInvariant`, `AssertionsRedeemedOnce` | no assertion is redeemed twice before it expires | |
| `CacheInvariant`, `StaleEntriesHaveCauses` | what a cache has of a revoked account or a user signed out has its invalidation on the way, or a named excuse | |
| `StaleDecisionsEnd` | no decision is stale for longer than the cache lifetime and a lookup | `AccountTTL > 0` |
| `CredentialsTypeCorrect` | types; no entry is from the future | |
| **`KeysProofs`, signing keys** | | |
| `KeysInvariant`, `KeysTypeCorrect` | one active key at most, ids differ, only reloads hold the lock | |
| `TokensAlwaysVerify` | every unexpired token verifies with a published key | `Apart` |
| `RetiredKeysStopSigning` | no process signs with a key long after its retirement | `RefreshInterval > 0` |
| `OnlyThrottledRefused` | a token that should verify is refused by a throttled process only | |
| **`KeysProofs`, external keys** | | |
| `VerifierInvariant`, `SeasonedKeysAccepted` | a key the issuer has published for longer than the interval and a fetch is not refused for being unknown | |
| `VerifierTypeCorrect` | types; nothing is later than the clock's bound | |
| **`DataProofs`** | | |
| `BatchesAreTheirWrites` | a batch is refused exactly when its writes, one commit each, would be, with the same error, and leaves what they would; a version asked for of a document it has only verified is compared with the batch's time | `Marked`, a time that no document has |
| `MergesFollowMasks` | after a merge a path of the mask is as in the update, and what has nothing to do with the mask as before | `Marked`, updates whose maps on the way of the mask are maps |
| `WritesMeanAlways` | both, and that the columns are those of the documents, after any commits | `Marked` |
| `PlansKeepResultsAlways` | a query finds the same with its plan, its window and the stored columns as by the exact semantics | `Marked`, `[]DocsKnown` |
| `CursorsTileAlways` | a page, and what comes after its last document, is all that was asked for | `Marked`, `[]DocsKnown` |

What is assumed and why. "No unknown outcome, no task cut off" excludes the
faults `unknown`, `disconnect` and `crash`: after any of them a commit may take
effect that nobody waits for, and `viol_unknown_outcome` shows what that does to
publishing. `OneProcess` is what `viol_two_instances` shows to be needed. A
reset between validation and load takes away what was validated, and a repeated
read may return what `record_read` does not record (its first observation
wins), so `OneProcessSerializes` excludes both; `ClockSteps` without 0, because
versions are commit times and two commits in one microsecond look like one. The
exceptions of `WatchProofs` are limits of section 3: a stream that fails before
its first event has no token, a path that cannot be read back is left out, and
`earlyListen` has a client listen before its process tails anything. `OneWriter`
is a single writing process, however its callers publish. `Apart` keeps
sealing and rotation from running at once. The lifetimes above 0 are constants
of the code (30 and 60 seconds), without which an entry would be stale
the moment it is made. `Marked` says that the marker `Missing` is neither a map,
nor a document, nor a cursor; it is `None` in the code and a model value in the
runs. `KeysAssumption` is what `index_key.rs` promises of the values in `Known`:
keys order as values compare, their first byte tells the type, NaN is the least
number, null and NaN compare equal to themselves only, and two references are
equal when they compare so. `QueriesAssumption` describes the queries the code
receives: operators of the API, values in `Known`, the name among the fields
ordered by (`normalize_orders` puts it there), offsets that are not negative.
`DocsKnown` has the documents made of known values, in every state; commits in
the runs compute new values, and TLC checks there that the documents stay within
`Known` (`ValuesMean`).

### The write path

`TypeInv` adds to the types that a live task has attempts and
tries left, without which the retry bounds are not inductive. `LockInv` says
that whoever is critical holds its instance's lock; two critical requests of an
instance are then one. `CommitInv` is about MongoDB's transactions:
`ControlInv` ties `mtx` to `pc` (a committed transaction never belongs to an
aborted or rejected request), `SnapshotsCurrent` says that what a prepared
transaction will replace is still as it read it, `WritersDisjoint` that no two
prepared transactions write one row, and `HistoryInv` that the history holds
each committed request once. The middle two need each other: a commit leaves
the others' snapshots current because their rows are disjoint, and a
transaction becomes prepared only when no row it writes has changed or is being
written. Exact deltas follow at the step `ServerCommits`; truthful answers from
`ControlInv` and `HistoryInv`. `TakenInv` says that a request which took a
transaction is the only one and the entry is gone for good, which makes a
client's transaction take effect once. Kept updates follow by induction on the
steps: a commit either leaves a document alone, adds its mark to the row it
replaces, or is itself the later commit the property asks for.

None of this uses the commit lock beyond `LockExcludes`: across instances it is
MongoDB's conflict check that keeps updates, which is why they hold on any
number of instances.

Publishing in order does use it. `NextInLine` says that a Commit call which has
taken effect and has not published did so after all that its instance has
published: it holds the lock they held until they had. With `PublishedInv` (a
hub has answered commits only, each once) the order is inductive.

### One process serializes

The lock is held from the first validated read to the outcome, so nothing
writes in between. `SnapshotWhole`: what a request has loaded is the whole store
as it is. `ReadsHold`: the reads of a validating request hold or are unchecked,
and hold after validation. A read is checked by its version, so the invariant
must also say that versions tell rows apart (`TimesDiffer`, `RowsDated`,
`VersionsTell`) and that what a client read is recorded (`ReadsRecorded`). At
`ServerCommits` these are the conditions of `DocStore`'s step; every other step
is a stutter, a read or a request of the abstract store.

### Listening

`TailInv` ties the resume token to the next notice, so that a stream that is
opened again goes on right behind what it has acted on. Convergence is a
property of quiet states; the invariant says what is under way in the others.
For each listener and document, `QueryInv` and `DocumentsInv` have either the
right row at the client, or an event upstream (`OnItsWay`: in the log ahead of
the task, being read back, unpublished, or in the queue), a mark of a lag, or
work the session has before it. A query runs again, so any such event repairs
it, and `RowsAge` suffices: a row with the update time of the stored one is the
stored one. A document target forwards what an event carries, so that its rows
must be the newest, or followed by another event (`EventRight`, `QueueRight`),
and this is where one writer is needed (`WriterRight`). What is published late
is recorded by `overtaken` at the moment it is broadcast: a row that is not the stored
one has a later commit of the process behind it, which is either still to be
published, so that another event follows, or has had its turn. What is never
published is in `untold` from the commit on. With every commit under the lock, at
most one is unpublished and it is the last (`LockRight`), so both stay empty.

### Browser sessions

`MessagesReachOnce` needs that a post's messages are given up to the next one
of the only request that delivers it (`DeliveredUpToNext`, `OneDelivers`); a
repeated post has its RID among those seen and delivers nothing. For
`Responses`: ids ascend along the buffer and the pushed arrays
(`ArraysNumbered`), the client's AID acknowledges all it has received
(`ReceivedAcknowledged`), and what is on the wire and what the GET will still
send comes after it, in order (`Wires`). The buffer being in order is also what
makes `FirstUpTo` and `Drop` the code's `retain`.

### Triggers

`Sources`: a commit of its own process is in at most one place of its way to the
dispatcher, unsent or once in the queue; one nobody learns of is in neither. `Dispatched`: what a delivery is of has
left that way. So it is dispatched once. `OwedFires` says that a registered
trigger covers what is owed, so `Dispatch`, which takes all triggers that
match, leaves nothing owed behind.

Patterns. The pass is a walk along the segments, and the proof goes up it by
induction: as long as it matches, it has taken what the segments before it take
in the one split there can be. There is one because every segment but the glob takes
one name, so the glob takes the rest (`EndsOf`). Where the pass is lost no
split fits, and where it ends its captures are the list read off the split.

### Caches over credentials

`EntriesRecent` is about time: what a lookup or a cache has and the row is not
began before the row changed, and a lookup takes `ReadTime` at most; with the
lifetime, stale decisions end. `CausesThere` is about what is under way. The
property alone is not inductive, as a lookup between its read and its fill will
install what it has read: `Holds` counts these lookups with the entries. A
cause (a notice ahead of the watcher, a revocation that has yet to publish it, a forget of
its own process) lasts until the process is `Settled`, with no entry and with
every lookup marked as overtaken; each step removes a cause only by settling.
`AbsentKnown` is for creation, which publishes nothing: before it, all that is
held of the account is its absence.

Redeemed once. The property alone is not inductive: that the second insert
fails depends on the record of the first still being there. `ClaimsRecorded`
adds that a call which has redeemed an assertion is past the place where it
could redeem again, did so no later than now, and that until the expiry its
record is in the database. What remains is `Spend`, where the insert meets the
record, and `ReapSpent`, which comes at the expiry only.

### Keys

Signing keys. A reload and a rotation take `OpTime` at most, so the rotation
that retires a key which some process has just read began at most twice that
before the process took it for its own (`LoadsKept`, `CopiesKept`). The process
signs with it for `RefreshInterval`, what it signs lives for `TokenTTL`, and the
grace is both and `Slack`, so the row outlives the token (`TokensKept`). That
the row verifies the token is `PrivateRight`: wherever the private half of a key
is, it is that key's. `ChecksFind` says that a check which has reloaded has the
row, so that a refusal was one before a reload, by a throttled process.

External keys. A check refuses after its second lookup, or because the set is
too young to fetch again. `SetIsRecent` says that the set in hand has every key
published since before the fetch that brought it; that needs `FetchesAreRecent`
(no fetch is older than its bound, and its body has the keys published before
it began) and `JustRefreshed` (whoever looks a second time has just replaced
the set). A refused key that was published long enough would have to be missing
from a set that has it.

### Writes and queries

Batches. `ApplyWrites` goes along the writes with a view of the documents they
have touched, while the reference commits each by itself. By induction on the
number of writes done (`Batch`, `Series`) the view laid over the documents is
what the commits have left, errors included (`Alike`); the step needs that a
write sees of its document the same in both, except for the update time of a
document that the batch has named before (`Alike`). In the batch that time is the
batch's; in the series it is too once a write has stored something, and the
stored one as long as there were only verifies. So a precondition decides the same in
both as it stands in the first case, and as `AsCompared` has it in the second
(`SameRefusal`), which uses that no stored document has the batch's time.

Merges. `Down` is what a path meets on its way from the root, `Up` puts a value
back at its end. Setting or deleting at one path leaves the value at any path
that is not related to it, and makes the path itself what it should be
(`Downs`, `Ups`). Along the mask, a path keeps what was made of it: a later
mask path that goes on from it, or that it goes on from, takes its value from
the same update (`Merges`).

Columns. `IndexDocument` collects nodes level by level down to `MaxDepth`;
`Levels` shows that a path of n names has its node at level n, so the key a
column holds is that of the field (and no column, no field). `ColumnsFollow`,
kept by every commit, has this of all stored documents (`RowsMirrored`).

Plans. A clause tells by the key what its filter asks of the value
(`KeysAssumption`; the range of `TypedRange` is exactly the operand's type above
NaN). So all that the exact semantics keep pass the clauses, and when the
plan is exact the clauses select those and no others. An exact cursor bound is
the comparison with the cursor, branch by branch, by the first field that
differs. With no window the exact pass runs over more documents than it keeps
and has the same outcome. With a window the selection is what is kept, and it is
left that both sorts agree: the orders compare keys in one and values in the
other, both are strict total orders on the documents because the name is among
the fields (two documents that compare equal have one name), and a set has one
enumeration in a strict total order (`Sorted`). The same window is then cut from
the same sequence, and the exact pass over a slice of a sorted sequence gives
it back.

Cursors. The documents after the last one of a page are the rest of the
sequence, since comparing a document with a cursor made of another is comparing the
documents (a cursor of all the order-bys), and the rest of a sorted sequence
is what the cursor's bound keeps, sorted.

### How the proofs are laid out

Each invariant is preserved action by action. Where many actions do the same to
one task, a relation says what a step may do to it (`RequestStep`, `CallStep`,
`EntryMoves`), one lemma shows that every action is in the relation, and the
invariants follow from the relation. Recursion over sequences is written with
recursive functions, whose induction `Recursion` gives: it takes the start and
the step of a walk as operator constants, shows that the function so defined
exists and follows its steps, and has induction up and down a range of naturals
as lemmas about sets. The operators that descend into values, keys and conditions
are RECURSIVE, and nothing is proved of what these compute.

### Only model-checked

- Liveness: `RequestsEnd`, `LockIsReturned`, `QueryCatchesUp`,
  `ResponsesArrive`, `DeliveriesEnd`. Fairness and ENABLED are beyond the prover.
- `GrantsAreStatements` and `ListsHoldForEveryId`: `Eval` and `Walk` descend
  into conditions and match blocks, as RECURSIVE operators.
- `ValuesMean`: `CompareValues` and `EncodeValue` descend into values. This is
  the contract of `index_key.rs` that the theorems about queries assume for the values in
  `Known` (`KeysAssumption`); the run checks it on all pairs of its subjects.
- `TypesOK` of the run `access` as one formula; its three parts are the theorems
  `CredentialsTypeCorrect`, `KeysTypeCorrect` and `VerifierTypeCorrect`.
- The three runs that expect a violation.

## 5. The plan

Done: all modules of section 2 and the proofs of section 4. What would come
next, in this order:

1. Proofs under weaker hypotheses: `DeltasAreExact` with crashes of a process
   that has nothing with MongoDB; `DocumentListenersConverge` for documents
   that one process writes, whatever others do.
2. The rules' evaluation and the value encoding by recursive functions over
   finite depth, as `Queries` has the columns, so that `GrantsAreStatements` and
   `KeysAssumption` become theorems.
3. `check_writes` of the rules composed with `WriteBatch`, and aggregations.

## 6. What is not modelled

- Cryptography and the contents of tokens: signatures, claims, audiences, the
  checks of an external token (`server/auth.rs:246-326`), and the remote signer
  (`signer.rs`), which signs with a key that is the deployment's alone.
- TLS, HTTP and gRPC framing, REST transcoding, name parsing and logging:
  sequential, and without state of their own.
- The rules' lexer and parser and the methods of their standard library: pure
  functions of text and values. `check_writes`, which is a free choice (`Deny`)
  in `CommitPath`. Map literals, slices, floats and times in conditions.
- Aggregations, projections and collection groups in queries; the inner paths
  of vectors. The sum of an aggregation turns into a double as soon as a
  partial sum overflows, so it may depend on the order of documents.
- The rounding of double arithmetic in increments, create times in
  `BatchIsItsWrites`, and `decode_number`, which only tests use.
- Resume tokens and read times of Listen responses: the server answers a resume
  token with a reset and the full state.
- Process set-up (`main.rs`, `lib.rs`) and the conformance suites under
  `conformance/`, which are clients; the tests were read for what they say of
  the code.
