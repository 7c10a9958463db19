------------------------------- MODULE Triggers -------------------------------
(***************************************************************************)
(* Triggers: the dispatcher that turns commits into CloudEvents, and their *)
(* delivery over HTTP (functions.rs), in several server processes.         *)
(*                                                                         *)
(* Commits are those of CommitPath seen from outside: one step that moves  *)
(* some documents, and a later one that publishes to the hub of the        *)
(* process.  Not every commit is published: the handler may never learn of *)
(* it.  The fan-out task republishes the commits of other processes.       *)
(* A document here exists or not; a registry belongs to a process and is   *)
(* empty when that starts.                                                 *)
(***************************************************************************)
EXTENDS TriggerPatterns

CONSTANTS
    Processes,      \* server processes
    Writers,        \* the processes that receive commits
    Paths,          \* document paths
    Changes,        \* what a commit may do: functions from paths to existence
    Registries,     \* what an operator may register: sets of TriggerSpecs
    Slots,          \* slots of the broadcast channel (1024 in WatchHub)
    MaxAttempts,    \* MAX_ATTEMPTS
    CommitLimit,    \* bound: commits in a behaviour
    CrashLimit      \* bound: crashes in a behaviour

ASSUME TriggersAssumption ==
    /\ Writers \subseteq Processes
    /\ \A b \in Changes : DOMAIN b \subseteq Paths /\ \A p \in DOMAIN b : b[p] \in BOOLEAN
    /\ Slots \in Nat \ {0} /\ MaxAttempts \in Nat \ {0}
    /\ CommitLimit \in Nat /\ CrashLimit \in Nat

VARIABLES
    exists,         \* which documents are there
    commits,        \* the commits applied, oldest first
    unsent,         \* per process: its commits that its handlers have yet to publish
    tailed,         \* per process: how many notices its fan-out task has read
    hub,            \* per process: the events its dispatcher's receiver holds
    listening,      \* per process: its dispatcher has subscribed
    registry,       \* per process: its TriggerRegistry
    deliveries,     \* the deliveries started
    owed,           \* auxiliary: the events that must still be dispatched
    crashes

triggerVars == <<exists, commits, unsent, tailed, hub, listening, registry,
                 deliveries, owed, crashes>>

-----------------------------------------------------------------------------

\* EventKind::actual: what is neither a creation nor an update is a deletion,
\* that of a document that was not there as well.
Actual(before, after) ==
    CASE ~before /\ after -> "created"
      [] before /\ after -> "updated"
      [] OTHER -> "deleted"

Covers(spec, actual) == spec.event = "written" \/ spec.event = actual

Fires(spec, path, before, after) ==
    Covers(spec, Actual(before, after)) /\ MatchPattern(spec.segments, path).matched

TriggersInit ==
    /\ exists = [p \in Paths |-> FALSE]
    /\ commits = << >>
    /\ unsent = [i \in Processes |-> {}]
    /\ tailed = [i \in Processes |-> 0]
    /\ hub = [i \in Processes |-> << >>]
    /\ listening = [i \in Processes |-> FALSE]
    /\ registry = [i \in Processes |-> {}]
    /\ deliveries = {}
    /\ owed = {}
    /\ crashes = 0

\* The dispatcher's task runs for the first time and subscribes.
Subscribe(i) ==
    /\ ~listening[i]
    /\ listening' = [listening EXCEPT ![i] = TRUE]
    /\ UNCHANGED <<exists, commits, unsent, tailed, hub, registry, deliveries, owed, crashes>>

\* TriggerRegistry::replace.
Replace(i, specs) ==
    /\ registry[i] # specs
    /\ registry' = [registry EXCEPT ![i] = specs]
    /\ owed' = {e \in owed : commits[e.commit].inst = i => e.trigger \in specs}
    /\ UNCHANGED <<exists, commits, unsent, tailed, hub, listening, deliveries, crashes>>

\* A commit, applied in MongoDB.  Its handler publishes it when it learns of it
\* (known), and the handlers that drop the commit lock first publish in any
\* order.  One that is told that the outcome stays unknown returns, and one that
\* is dropped while it waits is gone: neither publishes.
Apply(i, known, change) ==
    LET n == Len(commits) + 1
    IN  /\ n <= CommitLimit
        /\ exists' = [p \in Paths |-> IF p \in DOMAIN change THEN change[p] ELSE exists[p]]
        /\ commits' = Append(commits, [inst |-> i,
                        before |-> [p \in DOMAIN change |-> exists[p]], after |-> change])
        /\ unsent' = [unsent EXCEPT ![i] = IF known THEN @ \cup {n} ELSE @]
        /\ owed' = owed \cup
             {[commit |-> n, trigger |-> pair[1], path |-> pair[2]] :
                pair \in {q \in registry[i] \X DOMAIN change :
                            known /\ Fires(q[1], q[2], exists[q[2]], change[q[2]])}}
        /\ UNCHANGED <<tailed, hub, listening, registry, deliveries, crashes>>

\* Mutant: a channel without a bound.
HeardUnbounded(i, event) == IF listening[i] THEN Append(hub[i], event) ELSE << >>

\* The broadcast channel: without a receiver an event is gone, and a full
\* receiver loses its oldest event.
Heard(i, event) ==
    LET queue == Append(hub[i], event)
        kept == SubSeq(queue, Len(queue) - Slots + 1, Len(queue))
    IN  IF ~listening[i] THEN << >> ELSE IF Len(queue) > Slots THEN kept ELSE queue

Unheard(i, event) ==
    LET queue == Append(hub[i], event)
    IN  {queue[k].commit : k \in 1 .. Len(queue)}
          \ {Heard(i, event)[k].commit : k \in 1 .. Len(Heard(i, event))}

Broadcast(i, event) ==
    /\ hub' = [hub EXCEPT ![i] = Heard(i, event)]
    /\ owed' = {e \in owed : commits[e.commit].inst = i => e.commit \notin Unheard(i, event)}

PublishOwn(i, n) ==
    /\ n \in unsent[i]
    /\ Broadcast(i, [commit |-> n, origin |-> "local"])
    /\ unsent' = [unsent EXCEPT ![i] = @ \ {n}]
    /\ UNCHANGED <<exists, commits, tailed, listening, registry, deliveries, crashes>>

\* The fan-out task reads the next notice; its own it skips.
FanOut(i) ==
    LET n == tailed[i] + 1
    IN  /\ n <= Len(commits)
        /\ tailed' = [tailed EXCEPT ![i] = n]
        /\ IF commits[n].inst = i THEN UNCHANGED <<hub, owed>>
           ELSE Broadcast(i, [commit |-> n, origin |-> "remote"])
        /\ UNCHANGED <<exists, commits, unsent, listening, registry, deliveries, crashes>>

\* One delivery for each trigger and each change it covers.  The before-image
\* of a remote event is always missing.
Started(i, event) ==
    LET c == commits[event.commit]
        before(p) == event.origin = "local" /\ c.before[p]
    IN  {[inst |-> i, commit |-> event.commit, trigger |-> pair[1], path |-> pair[2],
          kind |-> Actual(before(pair[2]), c.after[pair[2]]), attempts |-> 0,
          state |-> "sending"] :
            pair \in {q \in registry[i] \X DOMAIN c.after :
                        Fires(q[1], q[2], before(q[2]), c.after[q[2]])}}

\* Mutant: events of other processes dispatched as well.
DispatchAll(i) ==
    LET event == Head(hub[i])
    IN  /\ hub[i] # << >>
        /\ hub' = [hub EXCEPT ![i] = Tail(@)]
        /\ deliveries' = deliveries \cup Started(i, event)
        /\ owed' = {e \in owed : e.commit # event.commit}
        /\ UNCHANGED <<exists, commits, unsent, tailed, listening, registry, crashes>>

\* Mutant: only the first match of an event dispatched.
DispatchFirst(i) ==
    LET event == Head(hub[i])
        mine == event.origin = "local" /\ Started(i, event) # {}
        first == {CHOOSE d \in Started(i, event) : TRUE}
    IN  /\ hub[i] # << >>
        /\ hub' = [hub EXCEPT ![i] = Tail(@)]
        /\ deliveries' = deliveries \cup IF mine THEN first ELSE {}
        /\ owed' = {e \in owed : ~mine \/ e.commit # event.commit
                                   \/ \A d \in first : d.trigger # e.trigger \/ d.path # e.path}
        /\ UNCHANGED <<exists, commits, unsent, tailed, listening, registry, crashes>>

\* The dispatcher takes an event; only the process that applied the commit
\* dispatches for it.
Dispatch(i) ==
    LET event == Head(hub[i])
        started == IF event.origin = "local" THEN Started(i, event) ELSE {}
    IN  /\ hub[i] # << >>
        /\ hub' = [hub EXCEPT ![i] = Tail(@)]
        /\ deliveries' = deliveries \cup started
        /\ owed' = {e \in owed : \A d \in started :
                      d.commit # e.commit \/ d.trigger # e.trigger \/ d.path # e.path}
        /\ UNCHANGED <<exists, commits, unsent, tailed, listening, registry, crashes>>

\* Mutant: after the last attempt the count starts again.
AttemptAgain(d, answer) ==
    LET tried == [d EXCEPT !.attempts = (@ + 1) % MaxAttempts,
                    !.state = CASE answer = "success" -> "acked" [] answer = "none" -> "hanging"
                                [] OTHER -> "sending"]
    IN  /\ d.state = "sending"
        /\ deliveries' = (deliveries \ {d}) \cup {tried}
        /\ UNCHANGED <<exists, commits, unsent, tailed, hub, listening, registry, owed, crashes>>

\* One POST of a delivery, and its answer; a failure that is not the last is
\* followed by a pause and another POST.  The client sets no timeout: a request
\* that is never answered hangs for good.
Attempt(d, answer) ==
    LET tried == [d EXCEPT !.attempts = @ + 1,
                    !.state = CASE answer = "success" -> "acked" [] answer = "none" -> "hanging"
                                [] OTHER -> IF d.attempts + 1 < MaxAttempts THEN "sending" ELSE "givenUp"]
    IN  /\ d.state = "sending"
        /\ deliveries' = (deliveries \ {d}) \cup {tried}
        /\ UNCHANGED <<exists, commits, unsent, tailed, hub, listening, registry, owed, crashes>>

\* A process dies, with what it had not published, dispatched or delivered,
\* and starts again; its fan-out task reads from now on.
Dies(i) ==
    /\ crashes < CrashLimit
    /\ crashes' = crashes + 1
    /\ unsent' = [unsent EXCEPT ![i] = {}]
    /\ tailed' = [tailed EXCEPT ![i] = Len(commits)]
    /\ hub' = [hub EXCEPT ![i] = << >>]
    /\ listening' = [listening EXCEPT ![i] = FALSE]
    /\ registry' = [registry EXCEPT ![i] = {}]
    /\ deliveries' = {IF d.inst = i /\ d.state \in {"sending", "hanging"}
                      THEN [d EXCEPT !.state = "gone"] ELSE d : d \in deliveries}
    /\ owed' = {e \in owed : commits[e.commit].inst # i}
    /\ UNCHANGED <<exists, commits>>

Delivering ==
    \E d \in deliveries, answer \in {"success", "failure", "none"} : Attempt(d, answer)

TriggersNext ==
    \/ \E i \in Processes :
         \/ Subscribe(i) \/ FanOut(i) \/ Dispatch(i) \/ Dies(i)
         \/ \E n \in unsent[i] : PublishOwn(i, n)
         \/ \E specs \in Registries : Replace(i, specs)
         \/ \E known \in BOOLEAN, change \in Changes : i \in Writers /\ Apply(i, known, change)
    \/ Delivering

\* A task that can run does: the dispatcher's, and that of a handler that has
\* learnt of its commit and has no await left before the publish.  Commits that
\* no handler learns of are not in unsent.  A delivery goes on from an answer or
\* an error; that each POST gets one is not assumed.
TriggersFair ==
    /\ \A i \in Processes :
         /\ WF_triggerVars(Subscribe(i)) /\ WF_triggerVars(Dispatch(i))
         /\ WF_triggerVars(\E n \in unsent[i] : PublishOwn(i, n))
    /\ WF_triggerVars(Delivering)

TriggersSpec == TriggersInit /\ [][TriggersNext]_triggerVars /\ TriggersFair
=============================================================================
