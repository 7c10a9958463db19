-------------------------------- MODULE Watch --------------------------------
(***************************************************************************)
(* How a commit reaches the listeners of every server process: the watch   *)
(* hub (watch.rs), the commit notices in MongoDB (store.rs), the fan-out   *)
(* task that tails them (fanout.rs) and the Listen session (listen.rs).    *)
(*                                                                         *)
(*   commit -> PublishLocal -> hub -----------------> sessions here        *)
(*     \-> notice log -> fan-out task -> read back -> hub -> sessions      *)
(*                                                       of other processes *)
(*                                                                         *)
(* Commits are those of CommitPath seen from outside: one step that moves  *)
(* some documents and appends its notice, since both are in one MongoDB    *)
(* transaction; publishing to the local hub is a later step, which some    *)
(* callers take with the commit lock, some without it, and which no one    *)
(* takes for a commit whose caller did not learn that it was applied.      *)
(* Each action is the code between two awaits.  A session has at most one  *)
(* target of each kind: "documents", a set of names, and "query", a query  *)
(* over one collection.  A document target forwards what the event         *)
(* carries; a query target takes it as a hint and runs its query again.    *)
(***************************************************************************)
EXTENDS Integers, Sequences

CONSTANTS
    Docs,           \* document paths
    Missing,        \* the value of a document that does not exist
    Instances,      \* server processes
    Writers,        \* the processes that receive commits
    Listeners,      \* Listen streams
    Home,           \* the process each stream is connected to
    Targets,        \* the kinds of target clients ask for
    Watched,        \* the names of a documents target
    Collection,     \* the documents a query target's collection selector covers
    Capacity,       \* slots of the broadcast channel (1024 in WatchHub)
    Callers,        \* which of AllCallers commit
    NoResume,       \* the resume token of a tail that has had no event
    MaxCommits,     \* bound: commits in a behaviour
    ClockSteps,     \* how far the clock may move between two commits
    Faults          \* which of AllFaults the environment may produce

AllFaults == {"earlyListen", "tailFails", "earlyFailure", "historyLost",
              "readFails", "hangUp", "deny"}

\* A Commit call publishes with the commit lock in its hands; a document call
\* and the Write stream have given it back; and a commit stays unpublished when
\* its outcome is unknown to the last try or its handler is dropped before it
\* learns of it.
AllCallers == {"lockKept", "lockDropped", "unaware"}

ASSUME WatchAssumption ==
    /\ Writers \subseteq Instances
    /\ Home \in [Listeners -> Instances]
    /\ Targets \subseteq {"documents", "query"}
    /\ Watched \subseteq Docs /\ Collection \subseteq Docs
    /\ Capacity \in Nat \ {0}
    /\ Callers \subseteq AllCallers
    /\ MaxCommits \in Nat
    /\ NoResume \notin Nat
    /\ ClockSteps \subseteq Nat
    /\ Faults \subseteq AllFaults

VARIABLES
    store,          \* the documents in MongoDB
    log,            \* the commit notices, oldest first, with the rows they left
    oldest,         \* the first notice the oplog still has
    clock,          \* the wall clock
    unpublished,    \* per process: its commits its hub has not been given yet
    tail,           \* per process: its fan-out task
    announced,      \* auxiliary: the notices each fan-out task has acted on
    queue,          \* per stream: the events its hub receiver holds
    lagged,         \* per stream: its receiver lost events
    untold,         \* auxiliary: per process: the documents its hub has heard nothing
                    \* of since a commit of its own that nobody publishes
    overtaken,      \* auxiliary: per process: the documents its hub heard of last by
                    \* a commit of its own that a later one had overtaken
    session,        \* per stream: what its ListenSession is doing
    view            \* per stream and target: what the client has been sent

world == <<store, log, oldest, clock>>
hubs == <<queue, lagged, untold, overtaken>>
vars == <<store, log, oldest, clock, unpublished, tail, announced, queue,
          lagged, untold, overtaken, session, view>>

-----------------------------------------------------------------------------

\* A row as far as listening tells rows apart: the commit that wrote it, its
\* update time and whether the query's filter accepts it.
Row == [commit : Nat, updated : Nat, matches : BOOLEAN]

RowOrMissing == Row \cup {Missing}

Nothing == [d \in Docs |-> Missing]

Restricted(rows, paths) == [d \in Docs |-> IF d \in paths THEN rows[d] ELSE Missing]

\* run_query over the rows given.
QueryResult(rows) ==
    [d \in Docs |-> IF d \in Collection /\ rows[d] # Missing /\ rows[d].matches
                    THEN rows[d] ELSE Missing]

\* A CommitEvent: the paths it names, and the row it carries for each.
NoEvent == [paths |-> {}, after |-> Nothing]

Event == [paths : SUBSET Docs, after : [Docs -> RowOrMissing]]

Idle == [phase |-> "idle", targets |-> {}, event |-> NoEvent, todo |-> {},
         target |-> "query", left |-> {}, got |-> Nothing]

Init ==
    /\ store = Nothing
    /\ log = << >>
    /\ oldest = 1
    /\ clock = 0
    /\ unpublished = [i \in Instances |-> {}]
    /\ tail = [i \in Instances |->
                 [open |-> FALSE, started |-> FALSE, next |-> 1, token |-> NoResume,
                  busy |-> FALSE, left |-> {}, event |-> NoEvent]]
    /\ announced = [i \in Instances |-> << >>]
    /\ queue = [l \in Listeners |-> << >>]
    /\ lagged = [l \in Listeners |-> FALSE]
    /\ untold = [i \in Instances |-> {}]
    /\ overtaken = [i \in Instances |-> {}]
    /\ session = [l \in Listeners |-> [Idle EXCEPT !.phase = "closed"]]
    /\ view = [l \in Listeners |-> [t \in Targets |-> Nothing]]

-----------------------------------------------------------------------------
(* Commits, and the hub.                                                   *)

\* A commit of process i changes the documents of `paths`: those in `kept`
\* exist afterwards, those in `matching` match the query.  Who will publish
\* holds or has held the commit lock, so no commit that keeps it is unpublished;
\* MongoDB may apply a commit after its caller gave up.
Commit(i, caller, paths, kept, matching) ==
    /\ Len(log) < MaxCommits
    /\ caller # "unaware" => \A k \in unpublished[i] : ~log[k].locked
    /\ \E step \in ClockSteps :
        LET now == clock + step
            row(d) == [commit |-> Len(log) + 1, updated |-> now,
                       matches |-> d \in matching]
        IN  /\ clock' = now
            /\ store' = [d \in Docs |-> IF d \notin paths THEN store[d]
                                        ELSE IF d \in kept THEN row(d) ELSE Missing]
    /\ log' = Append(log, [inst |-> i, locked |-> caller = "lockKept", paths |-> paths,
                           after |-> Restricted(store', paths)])
    /\ IF caller = "unaware"
       THEN untold' = [untold EXCEPT ![i] = @ \cup paths] /\ UNCHANGED unpublished
       ELSE unpublished' = [unpublished EXCEPT ![i] = @ \cup {Len(log) + 1}] /\ UNCHANGED untold
    /\ UNCHANGED <<oldest, tail, announced, queue, lagged, overtaken, session, view>>

\* The hub of i hears of these documents; of those in `late`, by a commit that
\* another has overtaken.
Hears(i, paths, late) ==
    /\ untold' = [untold EXCEPT ![i] = @ \ paths]
    /\ overtaken' = [overtaken EXCEPT ![i] = (@ \ paths) \cup late]

\* Mutant: a receiver without limit.
BroadcastUnbounded(i, event, late) ==
    /\ queue' = [l \in Listeners |->
                   IF Home[l] # i \/ session[l].phase = "closed" THEN queue[l]
                   ELSE Append(queue[l], event)]
    /\ UNCHANGED lagged
    /\ Hears(i, event.paths, late)

\* broadcast::Sender::send: a receiver that holds Capacity events loses its
\* oldest one.
Broadcast(i, event, late) ==
    LET receives(l) == Home[l] = i /\ session[l].phase # "closed"
        full(l) == Len(queue[l]) = Capacity
    IN  /\ queue' = [l \in Listeners |->
                       IF ~receives(l) THEN queue[l]
                       ELSE Append(IF full(l) THEN Tail(queue[l]) ELSE queue[l], event)]
        /\ lagged' = [l \in Listeners |-> lagged[l] \/ (receives(l) /\ full(l))]
        /\ Hears(i, event.paths, late)

\* The documents of commit k that a later commit of the process changed as well
\* whose turn at the hub is over.
Overtaken(i, k) ==
    {d \in log[k].paths : \E m \in k + 1 .. Len(log) :
        log[m].inst = i /\ d \in log[m].paths /\ m \notin unpublished[i]}

PublishLocal(i, k) ==
    /\ k \in unpublished[i]
    /\ unpublished' = [unpublished EXCEPT ![i] = @ \ {k}]
    /\ Broadcast(i, [paths |-> log[k].paths, after |-> log[k].after], Overtaken(i, k))
    /\ UNCHANGED <<world, tail, announced, session, view>>

-----------------------------------------------------------------------------
(* The fan-out task.                                                       *)

\* Mutants: a stream that always starts from now, one that replays the last
\* event, and a task that gives up when its stream fails.
TailOpensAfresh(i) ==
    /\ ~tail[i].open
    /\ tail' = [tail EXCEPT ![i] =
                  [@ EXCEPT !.open = TRUE, !.started = TRUE, !.next = Len(log) + 1]]
    /\ UNCHANGED <<world, unpublished, announced, hubs, session, view>>

TailReplays(i) ==
    /\ ~tail[i].open
    /\ tail' = [tail EXCEPT ![i] =
                  [@ EXCEPT !.open = TRUE, !.started = TRUE,
                     !.next = IF tail[i].token = NoResume THEN Len(log) + 1
                              ELSE tail[i].token]]
    /\ UNCHANGED <<world, unpublished, announced, hubs, session, view>>

TailOpensOnce(i) ==
    /\ ~tail[i].open /\ ~tail[i].started
    /\ tail' = [tail EXCEPT ![i] =
                  [@ EXCEPT !.open = TRUE, !.started = TRUE, !.next = Len(log) + 1]]
    /\ UNCHANGED <<world, unpublished, announced, hubs, session, view>>

\* watch_commit_notices: after the last event it had, or, when there has been
\* none, from now on.  A resume point the oplog no longer has is an error, and
\* the task tries again.
TailOpens(i) ==
    /\ ~tail[i].open
    /\ tail[i].token # NoResume => tail[i].token >= oldest
    /\ tail' = [tail EXCEPT ![i] =
                  [@ EXCEPT !.open = TRUE, !.started = TRUE,
                     !.next = IF tail[i].token = NoResume THEN Len(log) + 1
                              ELSE tail[i].token + 1]]
    /\ UNCHANGED <<world, unpublished, announced, hubs, session, view>>

\* The next notice.  The process's own are dropped: they went out already.
TailTakes(i) ==
    /\ tail[i].open /\ ~tail[i].busy
    /\ tail[i].next <= Len(log)
    /\ LET notice == log[tail[i].next]  foreign == notice.inst # i
       IN  /\ tail' = [tail EXCEPT ![i] =
                         [@ EXCEPT !.token = tail[i].next, !.next = tail[i].next + 1, !.busy = foreign,
                            !.left = IF foreign THEN notice.paths ELSE {}]]
           /\ announced' = IF foreign
                           THEN [announced EXCEPT ![i] = Append(@, tail[i].next)]
                           ELSE announced
    /\ UNCHANGED <<world, unpublished, hubs, session, view>>

\* rebuild: each path's current state, one await each.  A path that cannot be
\* read is left out of the event.
RebuildReads(i, d) ==
    /\ d \in tail[i].left
    /\ tail' = [tail EXCEPT ![i] =
                  [@ EXCEPT !.left = tail[i].left \ {d},
                     !.event = [paths |-> tail[i].event.paths \cup {d},
                                after |-> [tail[i].event.after EXCEPT ![d] = store[d]]]]]
    /\ UNCHANGED <<world, unpublished, announced, hubs, session, view>>

RebuildSkips(i, d) ==
    /\ "readFails" \in Faults
    /\ d \in tail[i].left
    /\ tail' = [tail EXCEPT ![i].left = @ \ {d}]
    /\ UNCHANGED <<world, unpublished, announced, hubs, session, view>>

RebuildEnds(i) ==
    /\ tail[i].busy /\ tail[i].left = {}
    /\ tail' = [tail EXCEPT ![i] = [@ EXCEPT !.busy = FALSE, !.event = NoEvent]]
    /\ IF tail[i].event.paths # {} THEN Broadcast(i, tail[i].event, {}) ELSE UNCHANGED hubs
    /\ UNCHANGED <<world, unpublished, announced, session, view>>

\* The change stream fails; the task notices when it asks for the next event.
TailFails(i) ==
    /\ "earlyFailure" \in Faults \/ ("tailFails" \in Faults /\ tail[i].token # NoResume)
    /\ tail[i].open /\ ~tail[i].busy
    /\ tail' = [tail EXCEPT ![i].open = FALSE]
    /\ UNCHANGED <<world, unpublished, announced, hubs, session, view>>

\* MongoDB's oplog is finite.
OplogTrims ==
    /\ "historyLost" \in Faults
    /\ oldest' = Len(log) + 1 /\ oldest' # oldest
    /\ UNCHANGED <<store, log, clock, unpublished, tail, announced, hubs, session, view>>

-----------------------------------------------------------------------------
(* The Listen session: one task that serves its client's requests and its  *)
(* hub receiver in turn, finishing one before it looks at the next.        *)

\* The stream opens and subscribes to the hub before it reads any request.
\* A client may be there before the fan-out task has its first change stream
\* only when "earlyListen" is allowed.
Connect(l) ==
    /\ session[l].phase = "closed"
    /\ tail[Home[l]].started \/ "earlyListen" \in Faults
    /\ session' = [session EXCEPT ![l] = Idle]
    /\ queue' = [queue EXCEPT ![l] = << >>]
    /\ lagged' = [lagged EXCEPT ![l] = FALSE]
    /\ UNCHANGED <<world, unpublished, tail, announced, view, untold, overtaken>>

\* The session starts to send a target's full state.
Sending(s, t, todo) ==
    [s EXCEPT !.phase = "initial", !.target = t, !.todo = todo,
              !.left = IF t = "documents" THEN Watched ELSE {}, !.got = Nothing]

AddTarget(l, t) ==
    /\ session[l].phase = "idle" /\ t \notin session[l].targets
    /\ session' = [session EXCEPT ![l] =
                     Sending([@ EXCEPT !.targets = session[l].targets \cup {t}], t, {})]
    /\ view' = [view EXCEPT ![l][t] = Nothing]
    /\ UNCHANGED <<world, unpublished, tail, announced, hubs>>

RemoveTarget(l, t) ==
    /\ session[l].phase = "idle" /\ t \in session[l].targets
    /\ session' = [session EXCEPT ![l].targets = @ \ {t}]
    /\ UNCHANGED <<world, unpublished, tail, announced, hubs, view>>

\* send_initial_state looks the documents up one at a time ...
ReadDocument(l, d) ==
    /\ session[l].phase = "initial" /\ d \in session[l].left
    /\ session' = [session EXCEPT ![l] =
                     [@ EXCEPT !.left = session[l].left \ {d},
                        !.got = [session[l].got EXCEPT ![d] = store[d]]]]
    /\ UNCHANGED <<world, unpublished, tail, announced, hubs, view>>

\* The session turns to the next target of a resync, or to its inputs.
Turned(s) ==
    [s EXCEPT !.phase = IF s.todo = {} THEN "idle" ELSE "resync",
              !.target = "query", !.left = {}, !.got = Nothing]

\* Mutant: the hub joined only after the state was sent.
SendThenSubscribe(l) ==
    /\ session[l].phase = "initial" /\ session[l].left = {}
    /\ view' = [view EXCEPT ![l][session[l].target] =
                  IF session[l].target = "documents" THEN session[l].got
                  ELSE QueryResult(store)]
    /\ session' = [session EXCEPT ![l] = Turned(@)]
    /\ queue' = [queue EXCEPT ![l] = << >>]
    /\ UNCHANGED <<world, unpublished, tail, announced, lagged, untold, overtaken>>

\* ... or runs the query, and sends what it found.
SendInitial(l) ==
    /\ session[l].phase = "initial" /\ session[l].left = {}
    /\ view' = [view EXCEPT ![l][session[l].target] =
                  IF session[l].target = "documents" THEN session[l].got
                  ELSE QueryResult(store)]
    /\ session' = [session EXCEPT ![l] = Turned(@)]
    /\ UNCHANGED <<world, unpublished, tail, announced, hubs>>

\* Security rules deny the target: it is removed, the stream stays.
DenyTarget(l) ==
    /\ "deny" \in Faults
    /\ session[l].phase = "initial"
    /\ session' = [session EXCEPT ![l] =
                     Turned([@ EXCEPT !.targets = session[l].targets \ {session[l].target}])]
    /\ UNCHANGED <<world, unpublished, tail, announced, hubs, view>>

\* The receiver reports that it lagged: every target is reset and sent again.
StartResync(l) ==
    /\ session[l].phase = "idle" /\ lagged[l]
    /\ lagged' = [lagged EXCEPT ![l] = FALSE]
    /\ session' = [session EXCEPT ![l] =
                     [@ EXCEPT !.todo = session[l].targets,
                        !.phase = IF session[l].targets = {} THEN "idle" ELSE "resync"]]
    /\ UNCHANGED <<world, unpublished, tail, announced, queue, view, untold, overtaken>>

ResetTarget(l, t) ==
    /\ session[l].phase = "resync" /\ t \in session[l].todo
    /\ view' = [view EXCEPT ![l][t] = Nothing]
    /\ session' = [session EXCEPT ![l] = Sending(@, t, session[l].todo \ {t})]
    /\ UNCHANGED <<world, unpublished, tail, announced, hubs>>

\* The receiver yields an event, to be shown to every target in turn.
TakeEvent(l) ==
    /\ session[l].phase = "idle" /\ ~lagged[l] /\ queue[l] # << >>
    /\ queue' = [queue EXCEPT ![l] = Tail(@)]
    /\ session' = IF session[l].targets = {} THEN session
                  ELSE [session EXCEPT ![l] =
                          [@ EXCEPT !.phase = "event", !.event = Head(queue[l]),
                             !.todo = session[l].targets]]
    /\ UNCHANGED <<world, unpublished, tail, announced, lagged, view, untold, overtaken>>

Shown(s, t) ==
    [s EXCEPT !.todo = @ \ {t},
              !.phase = IF s.todo = {t} THEN "idle" ELSE "event",
              !.event = IF s.todo = {t} THEN NoEvent ELSE @]

\* A documents target forwards the rows of the event.
EventToDocuments(l) ==
    LET seen == session[l].event.paths \cap Watched
    IN  /\ session[l].phase = "event" /\ "documents" \in session[l].todo
        /\ view' = [view EXCEPT ![l]["documents"] =
                      [d \in Docs |-> IF d \in seen THEN session[l].event.after[d] ELSE @[d]]]
        /\ session' = [session EXCEPT ![l] = Shown(@, "documents")]
        /\ UNCHANGED <<world, unpublished, tail, announced, hubs>>

\* Mutant: membership compared without update times.
DiffedByPresence(old, new) ==
    [d \in Docs |-> IF old[d] # Missing /\ new[d] # Missing THEN old[d] ELSE new[d]]

\* What a client has after the query ran again: members whose update time is
\* the one it was sent last are not sent anew.
Diffed(old, new) ==
    [d \in Docs |->
        IF old[d] # Missing /\ new[d] # Missing /\ old[d].updated = new[d].updated
        THEN old[d] ELSE new[d]]

\* A query target runs its query again if the event may concern it.
EventToQuery(l) ==
    LET concerns == session[l].event.paths \cap Collection # {}
    IN  /\ session[l].phase = "event" /\ "query" \in session[l].todo
        /\ view' = IF concerns
                   THEN [view EXCEPT ![l]["query"] = Diffed(@, QueryResult(store))]
                   ELSE view
        /\ session' = [session EXCEPT ![l] = Shown(@, "query")]
        /\ UNCHANGED <<world, unpublished, tail, announced, hubs>>

\* The client goes away, or a read fails and the stream ends with an error.
HangUp(l) ==
    /\ "hangUp" \in Faults
    /\ session[l].phase # "closed"
    /\ session' = [session EXCEPT ![l] = [Idle EXCEPT !.phase = "closed"]]
    /\ queue' = [queue EXCEPT ![l] = << >>]
    /\ lagged' = [lagged EXCEPT ![l] = FALSE]
    /\ view' = [view EXCEPT ![l] = [t \in Targets |-> Nothing]]
    /\ UNCHANGED <<world, unpublished, tail, announced, untold, overtaken>>

-----------------------------------------------------------------------------

\* A process nobody listens on runs the same tasks, but nobody sees them.
Serving == {Home[l] : l \in Listeners}

TailStep(i) ==
    \/ TailOpens(i)
    \/ \E d \in tail[i].left : RebuildReads(i, d) \/ RebuildSkips(i, d)
    \/ RebuildEnds(i)

SessionStep(l) ==
    \/ \E d \in session[l].left : ReadDocument(l, d)
    \/ SendInitial(l)
    \/ DenyTarget(l)
    \/ StartResync(l)
    \/ \E t \in session[l].todo : ResetTarget(l, t)
    \/ TakeEvent(l)
    \/ EventToDocuments(l)
    \/ EventToQuery(l)

ClientStep(l) ==
    \/ Connect(l)
    \/ \E t \in Targets : AddTarget(l, t) \/ RemoveTarget(l, t)
    \/ HangUp(l)

Next ==
    \/ \E i \in Writers, caller \in Callers : \E paths \in (SUBSET Docs) \ {{}} :
          \E kept \in SUBSET paths : \E matching \in SUBSET (kept \cap Collection) :
             Commit(i, caller, paths, kept, matching)
    \/ \E i \in Instances : \E k \in unpublished[i] : PublishLocal(i, k)
    \/ \E i \in Serving :
          \/ TailStep(i)
          \/ TailTakes(i)
          \/ TailFails(i)
    \/ \E l \in Listeners : SessionStep(l) \/ ClientStep(l)
    \/ OplogTrims

Spec == Init /\ [][Next]_vars

\* Every task that can run does.  A caller that has learnt of its commit
\* publishes it with no await in between; a commit that nobody publishes was
\* never `unpublished`.  A change stream that keeps failing still delivers now
\* and then (strong fairness of TailTakes): MongoDB is not down for good.
\* Nothing obliges clients to act, commits or faults to happen.
Fairness ==
    /\ \A i \in Serving :
          /\ WF_vars(\E k \in unpublished[i] : PublishLocal(i, k))
          /\ WF_vars(TailStep(i))
          /\ SF_vars(TailTakes(i))
    /\ \A l \in Listeners : WF_vars(SessionStep(l))

FairSpec == Spec /\ Fairness
=============================================================================
