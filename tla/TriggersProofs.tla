---------------------------- MODULE TriggersProofs ----------------------------
(***************************************************************************)
(* Theorems about triggers, for any processes, paths, commits, registries  *)
(* and patterns, any number of slots and attempts, and any crashes.        *)
(***************************************************************************)
EXTENDS TriggersProps, SequenceTheorems, TLAPS

\* What a commit found at the documents it writes.
Images == UNION {[DOMAIN change -> BOOLEAN] : change \in Changes}

Commit == [inst : Processes, before : Images, after : Changes]

Event == [commit : Nat, origin : {"local", "remote"}]

Specs == UNION Registries

Delivery == [inst : Processes, commit : Nat, trigger : Specs, path : Paths,
             kind : {"created", "updated", "deleted"}, attempts : 0 .. MaxAttempts,
             state : {"sending", "hanging", "acked", "givenUp", "gone"}]

ShapeInv ==
    /\ exists \in [Paths -> BOOLEAN]
    /\ commits \in Seq(Commit)
    /\ unsent \in [Processes -> SUBSET (1 .. Len(commits))]
    /\ tailed \in [Processes -> Nat]
    /\ registry \in [Processes -> SUBSET Specs]
    /\ hub \in [Processes -> Seq(Event)]
    /\ \A i \in Processes : Len(hub[i]) <= Slots
    /\ \A i \in Processes : \A k \in DOMAIN hub[i] : hub[i][k].commit \in 1 .. Len(commits)
    /\ \A e \in owed : e.commit \in 1 .. Len(commits)
    /\ deliveries \subseteq Delivery
    /\ \A d \in deliveries : d.commit \in 1 .. Len(commits)

\* A delivery that goes on has attempts left, and one given up has none.
AttemptsLeft ==
    \A d \in deliveries : /\ d.state = "sending" => d.attempts < MaxAttempts
                          /\ d.state = "givenUp" => d.attempts = MaxAttempts

\* A process publishes its own commits, and the fan-out those of others; a commit
\* of its own is in one place only of its way to the dispatcher.
Sources ==
    \A i \in Processes :
        /\ \A n \in unsent[i] : commits[n].inst = i
        /\ \A k \in DOMAIN hub[i] :
             /\ hub[i][k].origin = "local" <=> commits[hub[i][k].commit].inst = i
             /\ hub[i][k].origin = "local" => hub[i][k].commit \notin unsent[i]
        /\ \A k, l \in DOMAIN hub[i] :
             hub[i][k].origin = "local" /\ hub[i][k] = hub[i][l] => k = l

\* What a delivery is of has left that way.
Dispatched ==
    \A d \in deliveries :
        /\ d.commit \notin unsent[d.inst]
        /\ \A k \in DOMAIN hub[d.inst] :
             ~(hub[d.inst][k].origin = "local" /\ hub[d.inst][k].commit = d.commit)

\* A registered trigger covers what is owed.
OwedFires ==
    \A e \in owed :
        LET c == commits[e.commit]
        IN  /\ e.trigger \in registry[c.inst] /\ e.path \in DOMAIN c.after
            /\ Fires(e.trigger, e.path, c.before[e.path], c.after[e.path])

TriggersInv ==
    ShapeInv /\ AttemptsLeft /\ Sources /\ DispatchedOnce /\ Dispatched /\ OwedFires /\ OwedOnTheWay

-----------------------------------------------------------------------------

\* A queue with one more event.
LEMMA QueueShape ==
    ASSUME NEW queue \in Seq(Event), NEW event \in Event
    PROVE  /\ Append(queue, event) \in Seq(Event)
           /\ Len(Append(queue, event)) = Len(queue) + 1 /\ Len(queue) \in Nat
           /\ DOMAIN queue = 1 .. Len(queue)
           /\ DOMAIN Append(queue, event) = 1 .. Len(queue) + 1
           /\ Append(queue, event)[Len(queue) + 1] = event
           /\ \A k \in 1 .. Len(queue) : Append(queue, event)[k] = queue[k]
<1>1. /\ Append(queue, event) \in Seq(Event) /\ Len(Append(queue, event)) = Len(queue) + 1
      /\ \A k \in 1 .. Len(queue) : Append(queue, event)[k] = queue[k]
      /\ Append(queue, event)[Len(queue) + 1] = event
  BY AppendProperties
<1> QED BY <1>1, LenProperties

\* A dispatcher that hears an event has the end of its queue with the event in it.
LEMMA HeardShape ==
    ASSUME NEW i \in Processes, hub[i] \in Seq(Event), NEW event \in Event
    PROVE  /\ Heard(i, event) \in Seq(Event) /\ Len(Heard(i, event)) <= Slots
           /\ DOMAIN Heard(i, event) = 1 .. Len(Heard(i, event))
           /\ \E m \in Nat : \A k \in DOMAIN Heard(i, event) :
                /\ k + m \in 1 .. Len(hub[i]) + 1
                /\ Heard(i, event)[k] = Append(hub[i], event)[k + m]
<1> DEFINE queue == Append(hub[i], event)
           heard == Heard(i, event)
<1>0. Slots \in Nat \ {0}
  BY TriggersAssumption
<1>1. queue \in Seq(Event) /\ Len(queue) = Len(hub[i]) + 1 /\ Len(queue) \in Nat /\ DOMAIN queue = 1 .. Len(queue)
  BY QueueShape
<1>2. heard = IF ~listening[i] THEN << >>
              ELSE IF Len(queue) > Slots THEN SubSeq(queue, Len(queue) - Slots + 1, Len(queue)) ELSE queue
  BY DEF Heard
<1> HIDE DEF queue, heard
<1>3. \A k \in 1 .. Len(queue) : queue[k] \in Event
  BY <1>1, ElementOfSeq
<1>4. /\ heard \in Seq(Event) /\ Len(heard) <= Slots
      /\ \E m \in Nat : \A k \in 1 .. Len(heard) : k + m \in 1 .. Len(queue) /\ heard[k] = queue[k + m]
  <2>1. CASE ~listening[i]
    <3>1. heard = << >> /\ Len(heard) = 0
      BY <1>2, <2>1
    <3>2. heard \in Seq(Event) /\ \A k \in 1 .. Len(heard) : FALSE
      BY <3>1, EmptySeq
    <3> QED BY <1>0, <3>1, <3>2
  <2>2. CASE listening[i] /\ Len(queue) > Slots
    <3> DEFINE m == Len(queue) - Slots
    <3>1. m \in Nat /\ m + 1 \in Int /\ m + 1 <= Len(queue)
      BY <1>0, <1>1, <2>2
    <3>2. heard = SubSeq(queue, m + 1, Len(queue))
      BY <1>2, <2>2
    <3>3. \A k \in m + 1 .. Len(queue) : queue[k] \in Event
      BY <1>3, <3>1
    <3> HIDE DEF m
    <3>4. /\ heard \in Seq(Event)
          /\ Len(heard) = IF m + 1 <= Len(queue) THEN Len(queue) - (m + 1) + 1 ELSE 0
          /\ \A k \in 1 .. Len(queue) - (m + 1) + 1 : heard[k] = queue[(m + 1) + k - 1]
      BY <1>1, <3>1, <3>2, <3>3, SubSeqProperties
    <3>5. Len(heard) = Len(queue) - m /\ Len(heard) = Slots
      BY <1>0, <1>1, <3>1, <3>4 DEF m
    <3>6. ASSUME NEW k \in 1 .. Len(heard) PROVE k + m \in 1 .. Len(queue) /\ heard[k] = queue[k + m]
      <4>1. k \in 1 .. Len(queue) - (m + 1) + 1 /\ (m + 1) + k - 1 = k + m /\ k + m \in 1 .. Len(queue)
        BY <1>1, <3>1, <3>5
      <4> QED BY <3>4, <4>1
    <3>7. Len(heard) <= Slots
      BY <1>0, <3>5
    <3> QED BY <3>1, <3>4, <3>6, <3>7
  <2>3. CASE listening[i] /\ ~(Len(queue) > Slots)
    <3>1. heard = queue
      BY <1>2, <2>3
    <3>2. \A k \in 1 .. Len(heard) : k + 0 \in 1 .. Len(queue) /\ heard[k] = queue[k + 0]
      BY <1>1, <3>1
    <3> QED BY <1>0, <1>1, <2>3, <3>1, <3>2
  <2> QED BY <2>1, <2>2, <2>3
<1>5. DOMAIN heard = 1 .. Len(heard)
  BY <1>4, LenProperties
<1> QED BY <1>1, <1>4, <1>5 DEF queue, heard

LEMMA TriggersInitial ==
    ASSUME TriggersInit
    PROVE  TriggersInv
<1>1. ShapeInv
  <2>1. commits = << >> /\ Len(commits) = 0 /\ commits \in Seq(Commit)
    BY DEF TriggersInit
  <2>2. exists \in [Paths -> BOOLEAN]
    BY DEF TriggersInit
  <2>3. hub \in [Processes -> Seq(Event)] /\ \A i \in Processes : hub[i] = << >> /\ Len(hub[i]) = 0 /\ DOMAIN hub[i] = {}
    BY DEF TriggersInit
  <2>4. unsent \in [Processes -> SUBSET (1 .. Len(commits))] /\ tailed \in [Processes -> Nat] /\ registry \in [Processes -> SUBSET Specs]
    BY <2>1 DEF TriggersInit
  <2>5. owed = {} /\ deliveries = {}
    BY DEF TriggersInit
  <2> QED BY <2>1, <2>2, <2>3, <2>4, <2>5, TriggersAssumption DEF ShapeInv
<1>2. Sources
  BY DEF TriggersInit, Sources
<1>3. deliveries = {} /\ owed = {}
  BY DEF TriggersInit
<1> QED BY <1>1, <1>2, <1>3 DEF TriggersInv, AttemptsLeft, DispatchedOnce, Dispatched, OwedFires, OwedOnTheWay

\* No event moves; the registry and what is owed may change together.
LEMMA NothingMoves ==
    ASSUME TriggersInv, UNCHANGED <<exists, commits, unsent, hub, deliveries>>,
           tailed' \in [Processes -> Nat], registry' \in [Processes -> SUBSET Specs], owed' \subseteq owed,
           \A e \in owed' : e.trigger \in registry'[commits[e.commit].inst]
    PROVE  TriggersInv'
<1> USE DEF TriggersInv
<1>1. ShapeInv' /\ AttemptsLeft'
  BY DEF ShapeInv, AttemptsLeft
<1>2. Sources' /\ DispatchedOnce' /\ Dispatched'
  BY DEF Sources, DispatchedOnce, Dispatched
<1>3. OwedFires'
  BY DEF OwedFires
<1>4. OwedOnTheWay'
  BY DEF OwedOnTheWay
<1> QED BY <1>1, <1>2, <1>3, <1>4

\* The commits so far, and one more.
LEMMA CommitsGrow ==
    ASSUME commits \in Seq(Commit), NEW c \in Commit, commits' = Append(commits, c)
    PROVE  /\ commits' \in Seq(Commit) /\ Len(commits') = Len(commits) + 1 /\ Len(commits) \in Nat
           /\ commits'[Len(commits) + 1] = c
           /\ \A n \in 1 .. Len(commits) : commits'[n] = commits[n]
BY AppendProperties, LenProperties

\* A commit is applied; nothing of it has been published, dispatched or lost, and
\* nothing of it is owed when its handler does not learn of it.
LEMMA ApplyKeeps ==
    ASSUME TriggersInv, NEW i \in Processes, NEW known \in BOOLEAN,
           NEW change \in Changes, Apply(i, known, change)
    PROVE  TriggersInv'
<1> DEFINE n == Len(commits) + 1
           c == [inst |-> i, before |-> [p \in DOMAIN change |-> exists[p]], after |-> change]
           new == {[commit |-> n, trigger |-> pair[1], path |-> pair[2]] :
                     pair \in {q \in registry[i] \X DOMAIN change :
                                 known /\ Fires(q[1], q[2], exists[q[2]], change[q[2]])}}
<1>0. ShapeInv
  BY DEF TriggersInv
<1>1. /\ exists' = [p \in Paths |-> IF p \in DOMAIN change THEN change[p] ELSE exists[p]] /\ commits' = Append(commits, c)
      /\ unsent' = [unsent EXCEPT ![i] = IF known THEN @ \cup {n} ELSE @] /\ owed' = owed \cup new
      /\ UNCHANGED <<tailed, hub, listening, registry, deliveries, crashes>>
  BY DEF Apply
<1>2. DOMAIN change \subseteq Paths /\ \A p \in DOMAIN change : change[p] \in BOOLEAN
  BY TriggersAssumption
<1>3. c \in Commit /\ c.inst = i /\ c.after = change
      /\ \A p \in DOMAIN change : c.before[p] = exists[p]
  <2>1. [p \in DOMAIN change |-> exists[p]] \in Images
    <3>1. \A p \in DOMAIN change : exists[p] \in BOOLEAN
      BY <1>0, <1>2, Zenon DEF ShapeInv
    <3>2. [p \in DOMAIN change |-> exists[p]] \in [DOMAIN change -> BOOLEAN]
      BY <3>1, Zenon
    <3> QED BY <3>2, Zenon DEF Images
  <2> QED BY <2>1 DEF Commit
<1>4. exists' \in [Paths -> BOOLEAN]
  <2>1. \A p \in Paths : exists[p] \in BOOLEAN
    BY <1>0, Zenon DEF ShapeInv
  <2>2. \A p \in Paths : (IF p \in DOMAIN change THEN change[p] ELSE exists[p]) \in BOOLEAN
    BY <1>2, <2>1, Zenon
  <2> QED BY <1>1, <2>2, Zenon
<1>5. \A e \in new : /\ known /\ e.commit = n /\ e.trigger \in registry[i] /\ e.path \in DOMAIN change
                     /\ Fires(e.trigger, e.path, exists[e.path], change[e.path])
  OBVIOUS
<1> HIDE DEF c, new
<1>6. /\ commits' \in Seq(Commit) /\ Len(commits') = n /\ Len(commits) \in Nat /\ n \in Nat \ {0} /\ n \notin 1 .. Len(commits)
      /\ commits'[n] = c /\ \A m \in 1 .. Len(commits) : commits'[m] = commits[m]
  BY <1>0, <1>1, <1>3, CommitsGrow DEF ShapeInv
<1>7. /\ unsent' \in [Processes -> SUBSET (1 .. Len(commits'))] /\ (known => n \in unsent'[i])
      /\ \A j \in Processes : /\ unsent[j] \subseteq unsent'[j] /\ unsent[j] \subseteq 1 .. Len(commits)
                               /\ \A m \in unsent'[j] : m \in unsent[j] \/ (m = n /\ j = i)
  <2>1. unsent \in [Processes -> SUBSET (1 .. Len(commits))]
    BY <1>0 DEF ShapeInv
  <2>2. 1 .. Len(commits) \subseteq 1 .. Len(commits') /\ n \in 1 .. Len(commits')
    BY <1>6
  <2>3. /\ unsent'[i] = IF known THEN unsent[i] \cup {n} ELSE unsent[i]
        /\ \A j \in Processes : j # i => unsent'[j] = unsent[j]
        /\ unsent' \in [Processes -> SUBSET (1 .. Len(commits'))]
    BY <1>1, <2>1, <2>2, SMTT(30)
  <2> QED BY <2>1, <2>3
<1>8. \A e \in owed' : (e \in owed /\ e.commit \in 1 .. Len(commits)) \/ (e \in new /\ e.commit = n)
  BY <1>0, <1>1, <1>5 DEF ShapeInv
<1> HIDE DEF n
<1>9. ShapeInv'
  <2>1. \A m \in 1 .. Len(commits) : m \in 1 .. Len(commits')
    BY <1>6 DEF n
  <2>2. n \in 1 .. Len(commits')
    BY <1>6
  <2> QED BY <1>0, <1>1, <1>4, <1>6, <1>7, <1>8, <2>1, <2>2 DEF ShapeInv
<1>10. AttemptsLeft'
  BY <1>1 DEF TriggersInv, AttemptsLeft
<1>11. \A j \in Processes : \A k \in DOMAIN hub[j] :
         hub[j][k].commit \in 1 .. Len(commits) /\ hub[j][k].commit # n
  BY <1>0, <1>6 DEF ShapeInv, n
<1>12. Sources'
  <2>0. hub' = hub
    BY <1>1
  <2> SUFFICES ASSUME NEW j \in Processes
               PROVE  /\ \A m \in unsent'[j] : commits'[m].inst = j
                      /\ \A k \in DOMAIN hub[j] :
                           /\ hub[j][k].origin = "local" <=> commits'[hub[j][k].commit].inst = j
                           /\ hub[j][k].origin = "local" => hub[j][k].commit \notin unsent'[j]
                      /\ \A k, l \in DOMAIN hub[j] :
                           hub[j][k].origin = "local" /\ hub[j][k] = hub[j][l] => k = l
    BY <2>0 DEF Sources
  <2>1. ASSUME NEW m \in unsent'[j] PROVE commits'[m].inst = j
    <3>1. CASE m \in unsent[j]
      BY <1>6, <1>7, <3>1 DEF TriggersInv, Sources
    <3>2. CASE m = n /\ j = i
      BY <1>3, <1>6, <3>2
    <3> QED BY <1>7, <3>1, <3>2
  <2>2. ASSUME NEW k \in DOMAIN hub[j]
        PROVE  commits'[hub[j][k].commit] = commits[hub[j][k].commit]
               /\ (hub[j][k].commit \notin unsent[j] => hub[j][k].commit \notin unsent'[j])
    BY <1>6, <1>7, <1>11
  <2> QED BY <2>1, <2>2 DEF TriggersInv, Sources
<1>13. \A d \in deliveries : d.commit \in 1 .. Len(commits) /\ d.commit # n /\ commits'[d.commit] = commits[d.commit]
                            /\ d.inst \in Processes
  BY <1>0, <1>6 DEF ShapeInv, n, Delivery
<1>14. DispatchedOnce'
  BY <1>1, <1>13 DEF TriggersInv, DispatchedOnce
<1>15. Dispatched'
  <2>1. \A d \in deliveries : d.commit \notin unsent'[d.inst]
    BY <1>7, <1>13 DEF TriggersInv, Dispatched
  <2> QED BY <1>1, <2>1 DEF TriggersInv, Dispatched
<1>16. \A e \in owed : e.commit \in 1 .. Len(commits) /\ commits'[e.commit] = commits[e.commit]
  BY <1>0, <1>6 DEF ShapeInv
<1>17. OwedFires'
  <2> SUFFICES ASSUME NEW e \in owed'
               PROVE  /\ e.trigger \in registry[commits'[e.commit].inst] /\ e.path \in DOMAIN commits'[e.commit].after
                      /\ Fires(e.trigger, e.path, commits'[e.commit].before[e.path], commits'[e.commit].after[e.path])
    BY <1>1 DEF OwedFires
  <2>1. CASE e \in owed
    BY <1>16, <2>1 DEF TriggersInv, OwedFires
  <2>2. CASE e \in new
    BY <1>3, <1>5, <1>6, <2>2 DEF n
  <2> QED BY <1>8, <2>1, <2>2
<1>18. OwedOnTheWay'
  <2> SUFFICES ASSUME NEW e \in owed'
               PROVE  \/ e.commit \in unsent'[commits'[e.commit].inst]
                      \/ \E k \in DOMAIN hub[commits'[e.commit].inst] :
                           hub[commits'[e.commit].inst][k] = [commit |-> e.commit, origin |-> "local"]
    BY <1>1 DEF OwedOnTheWay
  <2>1. CASE e \in owed
    <3>1. e.commit # 0 /\ commits[e.commit].inst \in Processes
      <4>1. commits[e.commit] \in Commit /\ e.commit \in 1 .. Len(commits)
        BY <1>0, <1>16, <2>1, ElementOfSeq DEF ShapeInv
      <4> QED BY <1>6, <4>1 DEF Commit
    <3>2. CASE e.commit \in unsent[commits[e.commit].inst]
      BY <1>1, <1>7, <1>16, <2>1, <3>1, <3>2
    <3>3. CASE e.commit \notin unsent[commits[e.commit].inst]
      BY <1>16, <2>1, <3>3 DEF TriggersInv, OwedOnTheWay
    <3> QED BY <3>2, <3>3
  <2>2. CASE e \in new
    BY <1>3, <1>5, <1>6, <1>7, <2>2 DEF n
  <2> QED BY <1>8, <2>1, <2>2
<1> QED BY <1>9, <1>10, <1>12, <1>14, <1>15, <1>17, <1>18 DEF TriggersInv

\* An event reaches the queue of process i: its own, that it has just published, or
\* one of another process.
LEMMA BroadcastKeeps ==
    ASSUME TriggersInv, NEW i \in Processes, NEW event \in Event,
           event.commit \in 1 .. Len(commits),
           event.origin = "local" <=> commits[event.commit].inst = i,
           event.origin = "local" =>
               event.commit \in unsent[i] /\ unsent' = [unsent EXCEPT ![i] = @ \ {event.commit}],
           event.origin = "remote" => unsent' = unsent,
           Broadcast(i, event), tailed' \in [Processes -> Nat],
           UNCHANGED <<exists, commits, registry, deliveries>>
    PROVE  TriggersInv'
<1> DEFINE queue == Append(hub[i], event)
           heard == Heard(i, event)
<1>0. ShapeInv /\ Sources /\ Dispatched
  BY DEF TriggersInv
<1>1. /\ queue \in Seq(Event) /\ Len(queue) = Len(hub[i]) + 1 /\ Len(hub[i]) \in Nat
      /\ DOMAIN hub[i] = 1 .. Len(hub[i])
      /\ DOMAIN queue = 1 .. Len(hub[i]) + 1
      /\ queue[Len(hub[i]) + 1] = event /\ \A k \in 1 .. Len(hub[i]) : queue[k] = hub[i][k]
  BY <1>0, QueueShape DEF ShapeInv
<1>2. /\ heard \in Seq(Event) /\ Len(heard) <= Slots /\ DOMAIN heard = 1 .. Len(heard)
      /\ \E m \in Nat : \A k \in DOMAIN heard : k + m \in 1 .. Len(hub[i]) + 1 /\ heard[k] = queue[k + m]
  BY <1>0, HeardShape DEF ShapeInv
<1>3. PICK m \in Nat : \A k \in DOMAIN heard : k + m \in 1 .. Len(hub[i]) + 1 /\ heard[k] = queue[k + m]
  BY <1>2
<1>4. /\ hub' = [hub EXCEPT ![i] = heard]
      /\ owed' = {e \in owed : commits[e.commit].inst = i => e.commit \notin Unheard(i, event)}
  BY DEF Broadcast
<1>5. Unheard(i, event) = {queue[k].commit : k \in 1 .. Len(hub[i]) + 1} \ {heard[k].commit : k \in 1 .. Len(heard)}
  BY <1>1 DEF Unheard
<1> HIDE DEF queue, heard
<1>6. /\ hub' \in [Processes -> Seq(Event)] /\ hub'[i] = heard
      /\ \A j \in Processes : j # i => hub'[j] = hub[j]
      /\ unsent' \in [Processes -> SUBSET (1 .. Len(commits))]
      /\ \A j \in Processes : j # i => unsent'[j] = unsent[j]
      /\ unsent'[i] \subseteq unsent[i] /\ owed' \subseteq owed
      /\ \A n \in unsent[i] : n \in unsent'[i] \/ n = event.commit
      /\ event.origin = "local" => event.commit \in unsent[i] /\ event.commit \notin unsent'[i]
  <2>1. hub' \in [Processes -> Seq(Event)] /\ hub'[i] = heard /\ \A j \in Processes : j # i => hub'[j] = hub[j]
    BY <1>0, <1>2, <1>4 DEF ShapeInv
  <2>2. unsent \in [Processes -> SUBSET (1 .. Len(commits))] /\ Len(commits) \in Nat
    BY <1>0, LenProperties DEF ShapeInv
  <2>3. event.origin \in {"local", "remote"}
    BY DEF Event
  <2>4. CASE event.origin = "local"
    <3>1. event.commit \in unsent[i] /\ unsent' = [unsent EXCEPT ![i] = unsent[i] \ {event.commit}]
      BY <2>4
    <3>2. unsent[i] \ {event.commit} \in SUBSET (1 .. Len(commits))
      BY <2>2
    <3>3. /\ unsent' \in [Processes -> SUBSET (1 .. Len(commits))] /\ unsent'[i] = unsent[i] \ {event.commit}
          /\ \A j \in Processes : j # i => unsent'[j] = unsent[j]
      BY <2>2, <3>1, <3>2, Zenon
    <3> QED BY <1>4, <2>1, <3>1, <3>3
  <2>5. CASE event.origin = "remote"
    <3>1. unsent' = unsent
      BY <2>5
    <3> QED BY <1>4, <2>1, <2>2, <2>5, <3>1
  <2> QED BY <2>3, <2>4, <2>5
<1>7. \A k \in 1 .. Len(hub[i]) + 1 :
        /\ queue[k] \in Event /\ queue[k].commit \in 1 .. Len(commits)
        /\ queue[k].origin = "local" <=> commits[queue[k].commit].inst = i
        /\ queue[k].origin = "local" => queue[k].commit \notin unsent'[i]
  <2> SUFFICES ASSUME NEW k \in 1 .. Len(hub[i]) + 1
               PROVE  /\ queue[k] \in Event /\ queue[k].commit \in 1 .. Len(commits)
                      /\ queue[k].origin = "local" <=> commits[queue[k].commit].inst = i
                      /\ queue[k].origin = "local" => queue[k].commit \notin unsent'[i]
    OBVIOUS
  <2>1. CASE k = Len(hub[i]) + 1
    BY <1>1, <1>6, <2>1
  <2>2. CASE k \in 1 .. Len(hub[i])
    <3>1. queue[k] = hub[i][k] /\ hub[i][k] \in Event /\ hub[i][k].commit \in 1 .. Len(commits)
      BY <1>0, <1>1, <2>2, ElementOfSeq DEF ShapeInv
    <3>2. hub[i][k].origin = "local" <=> commits[hub[i][k].commit].inst = i
      BY <1>0, <1>1, <2>2 DEF Sources
    <3>3. hub[i][k].origin = "local" => hub[i][k].commit \notin unsent[i]
      BY <1>0, <1>1, <2>2 DEF Sources
    <3> QED BY <1>6, <3>1, <3>2, <3>3
  <2> QED BY <1>1, <2>1, <2>2
<1>8. \A k, l \in 1 .. Len(hub[i]) + 1 : queue[k].origin = "local" /\ queue[k] = queue[l] => k = l
  <2> SUFFICES ASSUME NEW k \in 1 .. Len(hub[i]) + 1, NEW l \in 1 .. Len(hub[i]) + 1,
                      queue[k].origin = "local", queue[k] = queue[l]
               PROVE  k = l
    OBVIOUS
  <2>2. ASSUME NEW n \in 1 .. Len(hub[i]), queue[n].origin = "local" PROVE queue[n] # event
    <3>1. n \in DOMAIN hub[i] /\ queue[n] = hub[i][n]
      BY <1>1
    <3>2. hub[i][n].commit \notin unsent[i]
      BY <1>0, <2>2, <3>1 DEF Sources
    <3> QED BY <1>6, <2>2, <3>1, <3>2
  <2>3. CASE k \in 1 .. Len(hub[i]) /\ l \in 1 .. Len(hub[i])
    <3>1. k \in DOMAIN hub[i] /\ l \in DOMAIN hub[i] /\ queue[k] = hub[i][k] /\ queue[l] = hub[i][l]
      BY <1>1, <2>3
    <3>2. \A a, b \in DOMAIN hub[i] : hub[i][a].origin = "local" /\ hub[i][a] = hub[i][b] => a = b
      BY <1>0 DEF Sources
    <3> QED BY <3>1, <3>2
  <2>4. CASE k = Len(hub[i]) + 1 /\ l \in 1 .. Len(hub[i])
    <3>1. queue[k] = event /\ queue[l].origin = "local" /\ queue[l] = event
      BY <1>1, <2>4
    <3> QED BY <2>2, <2>4, <3>1
  <2>5. CASE k \in 1 .. Len(hub[i]) /\ l = Len(hub[i]) + 1
    <3>1. queue[l] = event /\ queue[k] = event
      BY <1>1, <2>5
    <3> QED BY <2>2, <2>5, <3>1
  <2>6. k \in 1 .. Len(hub[i]) \/ k = Len(hub[i]) + 1
    BY <1>1
  <2>7. l \in 1 .. Len(hub[i]) \/ l = Len(hub[i]) + 1
    BY <1>1
  <2> QED BY <2>3, <2>4, <2>5, <2>6, <2>7
<1>9. ShapeInv'
  <2>1. \A j \in Processes : Len(hub'[j]) <= Slots /\ \A k \in DOMAIN hub'[j] : hub'[j][k].commit \in 1 .. Len(commits)
    <3> SUFFICES ASSUME NEW j \in Processes
                 PROVE  Len(hub'[j]) <= Slots /\ \A k \in DOMAIN hub'[j] : hub'[j][k].commit \in 1 .. Len(commits)
      OBVIOUS
    <3>1. CASE j = i
      <4>1. \A k \in DOMAIN heard : heard[k].commit \in 1 .. Len(commits)
        BY <1>3, <1>7
      <4> QED BY <1>2, <1>6, <3>1, <4>1
    <3>2. CASE j # i
      BY <1>0, <1>6, <3>2 DEF ShapeInv
    <3> QED BY <3>1, <3>2
  <2> QED BY <1>0, <1>6, <2>1 DEF ShapeInv
<1>10. AttemptsLeft' /\ DispatchedOnce'
  BY DEF TriggersInv, AttemptsLeft, DispatchedOnce
<1>11. Sources'
  <2> SUFFICES ASSUME NEW j \in Processes
               PROVE  /\ \A n \in unsent'[j] : commits[n].inst = j
                      /\ \A k \in DOMAIN hub'[j] :
                           /\ hub'[j][k].origin = "local" <=> commits[hub'[j][k].commit].inst = j
                           /\ hub'[j][k].origin = "local" => hub'[j][k].commit \notin unsent'[j]
                      /\ \A k, l \in DOMAIN hub'[j] :
                           hub'[j][k].origin = "local" /\ hub'[j][k] = hub'[j][l] => k = l
    BY DEF Sources
  <2>1. CASE j # i
    <3>1. hub'[j] = hub[j] /\ unsent'[j] = unsent[j]
      BY <1>6, <2>1
    <3> QED BY <1>0, <3>1 DEF Sources
  <2>2. CASE j = i
    <3>1. \A n \in unsent'[i] : commits[n].inst = i
      BY <1>0, <1>6 DEF Sources
    <3>2. \A k \in DOMAIN heard :
            /\ heard[k].origin = "local" <=> commits[heard[k].commit].inst = i
            /\ heard[k].origin = "local" => heard[k].commit \notin unsent'[i]
      BY <1>3, <1>7
    <3>3. \A k, l \in DOMAIN heard : heard[k].origin = "local" /\ heard[k] = heard[l] => k = l
      <4>1. \A k, l \in DOMAIN heard : heard[k].origin = "local" /\ heard[k] = heard[l] => k + m = l + m
        <5> SUFFICES ASSUME NEW k \in DOMAIN heard, NEW l \in DOMAIN heard,
                            heard[k].origin = "local", heard[k] = heard[l]
                     PROVE  k + m = l + m
          OBVIOUS
        <5>1. /\ k + m \in 1 .. Len(hub[i]) + 1 /\ heard[k] = queue[k + m]
              /\ l + m \in 1 .. Len(hub[i]) + 1 /\ heard[l] = queue[l + m]
          BY <1>3
        <5>2. queue[k + m].origin = "local" /\ queue[k + m] = queue[l + m]
          BY <5>1
        <5> QED BY <1>8, <5>1, <5>2
      <4>2. \A k \in DOMAIN heard : k \in Int
        BY <1>2
      <4> QED BY <1>3, <4>1, <4>2
    <3> QED BY <1>6, <2>2, <3>1, <3>2, <3>3
  <2> QED BY <2>1, <2>2
<1>12. Dispatched'
  <2> SUFFICES ASSUME NEW d \in deliveries
               PROVE  /\ d.commit \notin unsent'[d.inst]
                      /\ \A k \in DOMAIN hub'[d.inst] :
                           ~(hub'[d.inst][k].origin = "local" /\ hub'[d.inst][k].commit = d.commit)
    BY DEF Dispatched
  <2>0. d.inst \in Processes /\ d.commit # 0
    BY <1>0 DEF ShapeInv, Delivery
  <2>1. d.commit \notin unsent[d.inst]
        /\ \A k \in DOMAIN hub[d.inst] : ~(hub[d.inst][k].origin = "local" /\ hub[d.inst][k].commit = d.commit)
    BY <1>0 DEF Dispatched
  <2>3. CASE d.inst # i
    BY <1>6, <2>0, <2>1, <2>3
  <2>4. CASE d.inst = i
    <3>1. ASSUME NEW k \in 1 .. Len(hub[i]) + 1 PROVE ~(queue[k].origin = "local" /\ queue[k].commit = d.commit)
      <4>1. CASE k \in DOMAIN hub[i]
        BY <1>1, <2>1, <2>4, <4>1
      <4>2. CASE k = Len(hub[i]) + 1
        <5>1. event.origin = "local" => event.commit \in unsent[i]
          BY <1>6
        <5>2. queue[k] = event /\ d.commit \notin unsent[i]
          BY <1>1, <2>1, <2>4, <4>2
        <5> QED BY <5>1, <5>2
      <4> QED BY <1>1, <4>1, <4>2
    <3>2. \A k \in DOMAIN heard : ~(heard[k].origin = "local" /\ heard[k].commit = d.commit)
      BY <1>3, <3>1
    <3>3. hub'[d.inst] = heard /\ unsent'[d.inst] = unsent'[i]
      BY <1>6, <2>4
    <3> QED BY <1>6, <2>0, <2>1, <2>4, <3>2, <3>3
  <2> QED BY <2>3, <2>4
<1>13. OwedFires'
  BY <1>6 DEF TriggersInv, OwedFires
<1>14. OwedOnTheWay'
  <2> SUFFICES ASSUME NEW e \in owed'
               PROVE  \/ e.commit \in unsent'[commits[e.commit].inst]
                      \/ \E k \in DOMAIN hub'[commits[e.commit].inst] :
                           hub'[commits[e.commit].inst][k] = [commit |-> e.commit, origin |-> "local"]
    BY DEF OwedOnTheWay
  <2> DEFINE j == commits[e.commit].inst
  <2>0. e \in owed /\ j \in Processes
    <3>1. e \in owed /\ commits \in Seq(Commit) /\ e.commit \in 1 .. Len(commits)
      BY <1>0, <1>6 DEF ShapeInv
    <3>2. commits[e.commit] \in Commit
      BY <3>1, ElementOfSeq
    <3> QED BY <3>1, <3>2 DEF Commit
  <2>1. \/ e.commit \in unsent[j]
        \/ \E k \in DOMAIN hub[j] : hub[j][k] = [commit |-> e.commit, origin |-> "local"]
    BY <2>0 DEF TriggersInv, OwedOnTheWay
  <2>2. CASE j # i
    BY <1>6, <2>0, <2>1, <2>2
  <2>3. CASE j = i
    <3>1. CASE e.commit \in unsent'[i]
      BY <2>3, <3>1
    <3>2. CASE e.commit \notin unsent'[i]
      <4>1. \E k \in 1 .. Len(hub[i]) + 1 : queue[k].commit = e.commit
        <5>1. CASE e.commit \in unsent[i]
          <6>1. event.commit = e.commit
            BY <1>6, <3>2, <5>1
          <6> QED BY <1>1, <6>1
        <5>2. CASE \E k \in DOMAIN hub[i] : hub[i][k] = [commit |-> e.commit, origin |-> "local"]
          <6>1. PICK k \in DOMAIN hub[i] : hub[i][k] = [commit |-> e.commit, origin |-> "local"]
            BY <5>2
          <6>2. k \in 1 .. Len(hub[i]) + 1 /\ queue[k].commit = e.commit
            BY <1>1, <6>1
          <6> QED BY <6>2
        <5> QED BY <2>1, <2>3, <5>1, <5>2
      <4>2. e.commit \notin Unheard(i, event)
        BY <1>4, <2>3
      <4>3. PICK k \in 1 .. Len(heard) : heard[k].commit = e.commit
        BY <1>5, <4>1, <4>2
      <4>4. heard[k] \in Event /\ heard[k].origin = "local"
        <5>1. k \in DOMAIN heard
          BY <1>2
        <5>2. heard[k] = queue[k + m] /\ k + m \in 1 .. Len(hub[i]) + 1
          BY <1>3, <5>1
        <5>3. queue[k + m] \in Event /\ (queue[k + m].origin = "local" <=> commits[queue[k + m].commit].inst = i)
          BY <1>7, <5>2
        <5> QED BY <2>3, <4>3, <5>2, <5>3
      <4>5. heard[k] = [commit |-> e.commit, origin |-> "local"]
        BY <4>3, <4>4 DEF Event
      <4> QED BY <1>2, <1>6, <2>3, <4>3, <4>5
    <3> QED BY <3>1, <3>2
  <2> QED BY <2>2, <2>3
<1> QED BY <1>9, <1>10, <1>11, <1>12, <1>13, <1>14 DEF TriggersInv

\* What a local event starts: one delivery for each pair of a trigger and a path
\* that fires, of the commit and by the process that dispatches.
LEMMA StartedShape ==
    ASSUME ShapeInv, NEW i \in Processes, NEW event \in Event, event.origin = "local",
           event.commit \in 1 .. Len(commits)
    PROVE  /\ Started(i, event) \subseteq Delivery
           /\ \A d \in Started(i, event) :
                /\ d.inst = i /\ d.commit = event.commit /\ d.attempts = 0 /\ d.state = "sending"
                /\ d.kind = Actual(commits[event.commit].before[d.path], commits[event.commit].after[d.path])
           /\ \A d, e \in Started(i, event) : d.trigger = e.trigger /\ d.path = e.path => d = e
           /\ \A t \in registry[i] : \A p \in DOMAIN commits[event.commit].after :
                Fires(t, p, commits[event.commit].before[p], commits[event.commit].after[p])
                    => \E d \in Started(i, event) : d.trigger = t /\ d.path = p
<1> DEFINE c == commits[event.commit]
           B(p) == event.origin = "local" /\ c.before[p]
           D(t, p) == [inst |-> i, commit |-> event.commit, trigger |-> t, path |-> p,
                       kind |-> Actual(B(p), c.after[p]), attempts |-> 0, state |-> "sending"]
           pairs == {q \in registry[i] \X DOMAIN c.after : Fires(q[1], q[2], B(q[2]), c.after[q[2]])}
<1>1. Started(i, event) = {D(q[1], q[2]) : q \in pairs}
  BY DEF Started
<1>2. c \in Commit /\ registry[i] \subseteq Specs /\ event.commit \in Nat
  BY ElementOfSeq, LenProperties DEF ShapeInv
<1> HIDE DEF c
<1>3. DOMAIN c.after \subseteq Paths
  BY <1>2, TriggersAssumption DEF Commit
<1>4. \A p \in DOMAIN c.after : Actual(B(p), c.after[p]) = Actual(c.before[p], c.after[p])
  BY DEF Actual
<1>5. \A t \in registry[i] : \A p \in DOMAIN c.after :
        Fires(t, p, B(p), c.after[p]) <=> Fires(t, p, c.before[p], c.after[p])
  BY <1>4 DEF Fires
<1>6. \A p \in DOMAIN c.after : Actual(B(p), c.after[p]) \in {"created", "updated", "deleted"}
  BY DEF Actual
<1>7. MaxAttempts \in Nat \ {0} /\ 0 \in 0 .. MaxAttempts
  BY TriggersAssumption
<1>8. \A q \in pairs : /\ q[1] \in registry[i] /\ q[2] \in DOMAIN c.after /\ q = <<q[1], q[2]>>
  OBVIOUS
<1>9. \A t \in registry[i] : \A p \in DOMAIN c.after : D(t, p) \in Delivery
  BY <1>2, <1>3, <1>6, <1>7 DEF Delivery
<1>10. Started(i, event) \subseteq Delivery
  BY <1>1, <1>8, <1>9
<1>11. \A t \in registry[i] : \A p \in DOMAIN c.after :
         /\ D(t, p).inst = i /\ D(t, p).commit = event.commit /\ D(t, p).attempts = 0
         /\ D(t, p).state = "sending" /\ D(t, p).trigger = t /\ D(t, p).path = p
         /\ D(t, p).kind = Actual(c.before[p], c.after[p])
  BY <1>4
<1> HIDE DEF D
<1>12. \A d \in Started(i, event) : \E q \in pairs : d = D(q[1], q[2])
  BY <1>1
<1>13. ASSUME NEW d \in Started(i, event)
       PROVE  /\ d.inst = i /\ d.commit = event.commit /\ d.attempts = 0 /\ d.state = "sending"
              /\ d.kind = Actual(c.before[d.path], c.after[d.path])
              /\ d = D(d.trigger, d.path)
  <2>1. PICK q \in pairs : d = D(q[1], q[2])
    BY <1>12
  <2>2. q[1] \in registry[i] /\ q[2] \in DOMAIN c.after
    BY <1>8
  <2>3. d.trigger = q[1] /\ d.path = q[2]
    BY <1>11, <2>1, <2>2
  <2> HIDE DEF pairs
  <2> QED BY <1>11, <2>1, <2>2, <2>3
<1>14. ASSUME NEW t \in registry[i], NEW p \in DOMAIN c.after, Fires(t, p, c.before[p], c.after[p])
       PROVE  \E d \in Started(i, event) : d.trigger = t /\ d.path = p
  <2>1. <<t, p>> \in pairs
    BY <1>5, <1>14
  <2>2. D(t, p) \in Started(i, event)
    BY <1>1, <2>1
  <2> QED BY <1>11, <2>2
<1>15. \A d, e \in Started(i, event) : d.trigger = e.trigger /\ d.path = e.path => d = e
  BY <1>13
<1> QED BY <1>10, <1>13, <1>14, <1>15 DEF c

\* The dispatcher takes the oldest event, and starts what a local one covers.
LEMMA DispatchKeeps ==
    ASSUME TriggersInv, NEW i \in Processes, Dispatch(i)
    PROVE  TriggersInv'
<1> DEFINE event == Head(hub[i])
           started == IF event.origin = "local" THEN Started(i, event) ELSE {}
           c == commits[event.commit]
<1>0. ShapeInv /\ Sources /\ Dispatched
  BY DEF TriggersInv
<1>1. /\ hub[i] # << >> /\ hub' = [hub EXCEPT ![i] = Tail(hub[i])]
      /\ deliveries' = deliveries \cup started
      /\ owed' = {e \in owed : \A d \in started :
                    d.commit # e.commit \/ d.trigger # e.trigger \/ d.path # e.path}
      /\ UNCHANGED <<exists, commits, unsent, tailed, listening, registry, crashes>>
  BY DEF Dispatch
<1>2. /\ hub[i] \in Seq(Event) /\ event \in Event /\ event = hub[i][1] /\ 1 \in DOMAIN hub[i]
      /\ Tail(hub[i]) \in Seq(Event) /\ Len(hub[i]) \in Nat \ {0} /\ Len(Tail(hub[i])) = Len(hub[i]) - 1
      /\ DOMAIN hub[i] = 1 .. Len(hub[i])
      /\ DOMAIN Tail(hub[i]) = 1 .. Len(hub[i]) - 1
      /\ \A k \in 1 .. Len(hub[i]) - 1 : Tail(hub[i])[k] = hub[i][k + 1]
  <2>1. hub[i] \in Seq(Event) /\ hub[i] # << >>
    BY <1>0, <1>1 DEF ShapeInv
  <2>2. /\ Head(hub[i]) = hub[i][1] /\ Tail(hub[i]) \in Seq(Event) /\ Len(Tail(hub[i])) = Len(hub[i]) - 1
        /\ \A k \in 1 .. Len(Tail(hub[i])) : Tail(hub[i])[k] = hub[i][k + 1]
    BY <2>1, HeadTailProperties
  <2>3. Len(hub[i]) \in Nat \ {0}
    BY <2>1, EmptySeq, LenProperties
  <2>4. event \in Event
    BY <2>1, <2>2, <2>3, ElementOfSeq
  <2>5. DOMAIN hub[i] = 1 .. Len(hub[i]) /\ DOMAIN Tail(hub[i]) = 1 .. Len(hub[i]) - 1
    BY <2>1, <2>2, LenProperties
  <2> QED BY <2>1, <2>2, <2>3, <2>4, <2>5
<1> HIDE DEF event
<1>3. event.commit \in 1 .. Len(commits) /\ (event.origin = "local" => c.inst = i)
  BY <1>0, <1>2 DEF ShapeInv, Sources
<1>4. /\ started \subseteq Delivery
      /\ \A d \in started :
           /\ d.inst = i /\ d.commit = event.commit /\ d.attempts = 0 /\ d.state = "sending"
           /\ d.kind = Actual(c.before[d.path], c.after[d.path])
      /\ \A d, e \in started : d.trigger = e.trigger /\ d.path = e.path => d = e
      /\ started # {} => event.origin = "local"
      /\ event.origin = "local" => \A t \in registry[i] : \A p \in DOMAIN c.after :
           Fires(t, p, c.before[p], c.after[p]) => \E d \in started : d.trigger = t /\ d.path = p
  <2>1. CASE event.origin = "local"
    <3>1. started = Started(i, event)
      BY <2>1
    <3>2. c = commits[event.commit]
      OBVIOUS
    <3> HIDE DEF started, c
    <3>3. /\ Started(i, event) \subseteq Delivery
          /\ \A d \in Started(i, event) :
               /\ d.inst = i /\ d.commit = event.commit /\ d.attempts = 0 /\ d.state = "sending"
               /\ d.kind = Actual(c.before[d.path], c.after[d.path])
          /\ \A d, e \in Started(i, event) : d.trigger = e.trigger /\ d.path = e.path => d = e
          /\ \A t \in registry[i] : \A p \in DOMAIN c.after :
               Fires(t, p, c.before[p], c.after[p]) =>
                   \E d \in Started(i, event) : d.trigger = t /\ d.path = p
      BY <1>0, <1>2, <1>3, <2>1, StartedShape DEF c
    <3> QED BY <2>1, <3>1, <3>3
  <2>2. CASE event.origin # "local"
    BY <2>2
  <2> QED BY <2>1, <2>2
<1> HIDE DEF started, c
<1>5. /\ hub' \in [Processes -> Seq(Event)] /\ hub'[i] = Tail(hub[i])
      /\ \A j \in Processes : j # i => hub'[j] = hub[j]
  BY <1>0, <1>1, <1>2 DEF ShapeInv
<1>6. \A k \in DOMAIN hub'[i] : k + 1 \in DOMAIN hub[i] /\ hub'[i][k] = hub[i][k + 1] /\ k \in Nat \ {0}
  BY <1>2, <1>5
<1>7. ShapeInv'
  <2>1. \A j \in Processes : Len(hub'[j]) <= Slots
    <3> SUFFICES ASSUME NEW j \in Processes PROVE Len(hub'[j]) <= Slots
      OBVIOUS
    <3>1. Len(hub[j]) <= Slots /\ Slots \in Nat
      BY <1>0, TriggersAssumption DEF ShapeInv
    <3> QED BY <1>2, <1>5, <3>1
  <2>2. \A j \in Processes : \A k \in DOMAIN hub'[j] : hub'[j][k].commit \in 1 .. Len(commits)
    <3> SUFFICES ASSUME NEW j \in Processes, NEW k \in DOMAIN hub'[j] PROVE hub'[j][k].commit \in 1 .. Len(commits)
      OBVIOUS
    <3>1. CASE j = i
      BY <1>0, <1>6, <3>1 DEF ShapeInv
    <3>2. CASE j # i
      BY <1>0, <1>5, <3>2 DEF ShapeInv
    <3> QED BY <3>1, <3>2
  <2>3. \A d \in deliveries' : d \in Delivery /\ d.commit \in 1 .. Len(commits)
    BY <1>0, <1>1, <1>3, <1>4 DEF ShapeInv
  <2>4. \A e \in owed' : e.commit \in 1 .. Len(commits)
    BY <1>0, <1>1 DEF ShapeInv
  <2> QED BY <1>0, <1>1, <1>5, <2>1, <2>2, <2>3, <2>4 DEF ShapeInv
<1>8. AttemptsLeft'
  <2>1. MaxAttempts \in Nat \ {0}
    BY TriggersAssumption
  <2> SUFFICES ASSUME NEW d \in deliveries'
               PROVE  /\ d.state = "sending" => d.attempts < MaxAttempts
                      /\ d.state = "givenUp" => d.attempts = MaxAttempts
    BY DEF AttemptsLeft
  <2>2. CASE d \in deliveries
    BY <2>2 DEF TriggersInv, AttemptsLeft
  <2>3. CASE d \in started
    BY <1>4, <2>1, <2>3
  <2> QED BY <1>1, <2>2, <2>3
<1>9. Sources'
  <2> SUFFICES ASSUME NEW j \in Processes
               PROVE  /\ \A n \in unsent[j] : commits[n].inst = j
                      /\ \A k \in DOMAIN hub'[j] :
                           /\ hub'[j][k].origin = "local" <=> commits[hub'[j][k].commit].inst = j
                           /\ hub'[j][k].origin = "local" => hub'[j][k].commit \notin unsent[j]
                      /\ \A k, l \in DOMAIN hub'[j] :
                           hub'[j][k].origin = "local" /\ hub'[j][k] = hub'[j][l] => k = l
    BY <1>1 DEF Sources
  <2>0. /\ \A n \in unsent[j] : commits[n].inst = j
        /\ \A k \in DOMAIN hub[j] :
             /\ hub[j][k].origin = "local" <=> commits[hub[j][k].commit].inst = j
             /\ hub[j][k].origin = "local" => hub[j][k].commit \notin unsent[j]
        /\ \A k, l \in DOMAIN hub[j] :
             hub[j][k].origin = "local" /\ hub[j][k] = hub[j][l] => k = l
    BY <1>0 DEF Sources
  <2>1. CASE j # i
    <3>1. hub'[j] = hub[j]
      BY <1>5, <2>1
    <3> QED BY <2>0, <3>1
  <2>2. CASE j = i
    <3>1. \A k \in DOMAIN hub'[i] :
            /\ hub'[i][k].origin = "local" <=> commits[hub'[i][k].commit].inst = i
            /\ hub'[i][k].origin = "local" => hub'[i][k].commit \notin unsent[i]
      BY <1>6, <2>0, <2>2
    <3>2. \A k, l \in DOMAIN hub'[i] : hub'[i][k].origin = "local" /\ hub'[i][k] = hub'[i][l] => k = l
      <4> SUFFICES ASSUME NEW k \in DOMAIN hub'[i], NEW l \in DOMAIN hub'[i],
                          hub'[i][k].origin = "local", hub'[i][k] = hub'[i][l]
                   PROVE  k = l
        OBVIOUS
      <4>1. k + 1 \in DOMAIN hub[i] /\ l + 1 \in DOMAIN hub[i] /\ hub[i][k + 1].origin = "local"
            /\ hub[i][k + 1] = hub[i][l + 1] /\ k \in Nat /\ l \in Nat
        BY <1>6
      <4>2. k + 1 = l + 1
        BY <2>0, <2>2, <4>1
      <4> QED BY <4>1, <4>2
    <3> QED BY <2>0, <2>2, <3>1, <3>2
  <2> QED BY <2>1, <2>2
<1>10. \A d \in deliveries : d.commit = event.commit => event.origin # "local"
  <2> SUFFICES ASSUME NEW d \in deliveries, d.commit = event.commit, event.origin = "local" PROVE FALSE
    OBVIOUS
  <2>1. d.inst = i
    BY <1>3 DEF TriggersInv, DispatchedOnce, c
  <2> QED BY <1>0, <1>2, <2>1 DEF Dispatched
<1>11. DispatchedOnce'
  <2>1. \A d \in deliveries' : d.inst = commits[d.commit].inst
          /\ d.kind = Actual(commits[d.commit].before[d.path], commits[d.commit].after[d.path])
    <3> SUFFICES ASSUME NEW d \in deliveries'
                 PROVE  d.inst = commits[d.commit].inst
                        /\ d.kind = Actual(commits[d.commit].before[d.path], commits[d.commit].after[d.path])
      OBVIOUS
    <3>1. CASE d \in deliveries
      BY <3>1 DEF TriggersInv, DispatchedOnce
    <3>2. CASE d \in started
      BY <1>3, <1>4, <3>2 DEF c
    <3> QED BY <1>1, <3>1, <3>2
  <2>2. \A d \in deliveries' : \A e \in deliveries' \ {d} :
          d.commit # e.commit \/ d.trigger # e.trigger \/ d.path # e.path
    <3> SUFFICES ASSUME NEW d \in deliveries', NEW e \in deliveries', d # e,
                        d.commit = e.commit, d.trigger = e.trigger, d.path = e.path
                 PROVE  FALSE
      OBVIOUS
    <3>1. CASE d \in deliveries /\ e \in deliveries
      BY <3>1 DEF TriggersInv, DispatchedOnce
    <3>2. CASE d \in started /\ e \in started
      BY <1>4, <3>2
    <3>3. CASE d \in deliveries /\ e \in started
      BY <1>4, <1>10, <3>3
    <3>4. CASE d \in started /\ e \in deliveries
      BY <1>4, <1>10, <3>4
    <3> QED BY <1>1, <3>1, <3>2, <3>3, <3>4
  <2> QED BY <1>1, <2>1, <2>2 DEF DispatchedOnce
<1>12. Dispatched'
  <2> SUFFICES ASSUME NEW d \in deliveries'
               PROVE  /\ d.commit \notin unsent[d.inst]
                      /\ \A k \in DOMAIN hub'[d.inst] :
                           ~(hub'[d.inst][k].origin = "local" /\ hub'[d.inst][k].commit = d.commit)
    BY <1>1 DEF Dispatched
  <2>1. CASE d \in deliveries
    <3>1. d.inst \in Processes /\ d.commit \notin unsent[d.inst]
          /\ \A k \in DOMAIN hub[d.inst] : ~(hub[d.inst][k].origin = "local" /\ hub[d.inst][k].commit = d.commit)
      BY <1>0, <2>1 DEF ShapeInv, Delivery, Dispatched
    <3>2. CASE d.inst = i
      BY <1>6, <3>1, <3>2
    <3>3. CASE d.inst # i
      BY <1>5, <3>1, <3>3
    <3> QED BY <3>2, <3>3
  <2>2. CASE d \in started
    <3>1. d.inst = i /\ d.commit = event.commit /\ event.origin = "local"
      BY <1>4, <2>2
    <3>2. event.commit \notin unsent[i]
      BY <1>0, <1>2, <3>1 DEF Sources
    <3>3. ASSUME NEW k \in DOMAIN hub'[i], hub'[i][k].origin = "local", hub'[i][k].commit = event.commit
          PROVE  FALSE
      <4>1. k + 1 \in DOMAIN hub[i] /\ hub[i][k + 1].origin = "local" /\ hub[i][k + 1].commit = event.commit
            /\ k \in Nat \ {0}
        BY <1>6, <3>3
      <4>2. hub[i][k + 1] \in Event
        BY <1>2, <4>1, ElementOfSeq
      <4>3. hub[i][k + 1] = hub[i][1]
        BY <1>2, <3>1, <4>1, <4>2 DEF Event
      <4>4. k + 1 = 1
        BY <1>0, <1>2, <4>1, <4>3 DEF Sources
      <4> QED BY <4>1, <4>4
    <3> QED BY <3>1, <3>2, <3>3
  <2> QED BY <1>1, <2>1, <2>2
<1>13. OwedFires'
  BY <1>1 DEF TriggersInv, OwedFires
<1>14. OwedOnTheWay'
  <2> SUFFICES ASSUME NEW e \in owed'
               PROVE  \/ e.commit \in unsent[commits[e.commit].inst]
                      \/ \E k \in DOMAIN hub'[commits[e.commit].inst] :
                           hub'[commits[e.commit].inst][k] = [commit |-> e.commit, origin |-> "local"]
    BY <1>1 DEF OwedOnTheWay
  <2> DEFINE j == commits[e.commit].inst
  <2>0. e \in owed /\ j \in Processes
    <3>1. e \in owed /\ commits \in Seq(Commit) /\ e.commit \in 1 .. Len(commits)
      BY <1>0, <1>1 DEF ShapeInv
    <3>2. commits[e.commit] \in Commit
      BY <3>1, ElementOfSeq
    <3> QED BY <3>1, <3>2 DEF Commit
  <2>1. \/ e.commit \in unsent[j]
        \/ \E k \in DOMAIN hub[j] : hub[j][k] = [commit |-> e.commit, origin |-> "local"]
    BY <2>0 DEF TriggersInv, OwedOnTheWay
  <2>2. CASE e.commit \in unsent[j]
    BY <2>2
  <2>3. CASE j # i
    BY <1>5, <2>0, <2>1, <2>3
  <2>4. CASE j = i /\ e.commit \notin unsent[j]
    <3>1. PICK k \in DOMAIN hub[i] : hub[i][k] = [commit |-> e.commit, origin |-> "local"]
      BY <2>1, <2>4
    <3>2. CASE k = 1
      <4>1. event.commit = e.commit /\ event.origin = "local" /\ c = commits[e.commit]
        BY <1>2, <3>1, <3>2 DEF c
      <4>2. e.trigger \in registry[i] /\ e.path \in DOMAIN c.after
            /\ Fires(e.trigger, e.path, c.before[e.path], c.after[e.path])
        BY <2>0, <2>4, <4>1 DEF TriggersInv, OwedFires
      <4>3. \E d \in started : d.trigger = e.trigger /\ d.path = e.path /\ d.commit = e.commit
        BY <1>4, <4>1, <4>2
      <4> QED BY <1>1, <4>3
    <3>3. CASE k # 1
      <4>1. k - 1 \in 1 .. Len(hub[i]) - 1 /\ (k - 1) + 1 = k
        BY <1>2, <3>1, <3>3
      <4>2. k - 1 \in DOMAIN hub'[i] /\ hub'[i][k - 1] = hub[i][k]
        BY <1>2, <1>5, <4>1
      <4> QED BY <2>4, <3>1, <4>2
    <3> QED BY <3>2, <3>3
  <2> QED BY <2>2, <2>3, <2>4
<1> QED BY <1>7, <1>8, <1>9, <1>11, <1>12, <1>13, <1>14 DEF TriggersInv

\* An attempt counts one more, and ends the delivery when it is answered or the last.
LEMMA AttemptKeeps ==
    ASSUME TriggersInv, NEW d \in deliveries, NEW answer, Attempt(d, answer)
    PROVE  TriggersInv'
<1> DEFINE tried == [d EXCEPT !.attempts = d.attempts + 1,
                       !.state = CASE answer = "success" -> "acked" [] answer = "none" -> "hanging"
                                   [] OTHER -> IF d.attempts + 1 < MaxAttempts THEN "sending" ELSE "givenUp"]
<1>0. ShapeInv /\ AttemptsLeft
  BY DEF TriggersInv
<1>1. /\ d.state = "sending" /\ deliveries' = (deliveries \ {d}) \cup {tried}
      /\ UNCHANGED <<exists, commits, unsent, tailed, hub, listening, registry, owed, crashes>>
  BY DEF Attempt
<1>2. d \in Delivery /\ d.attempts < MaxAttempts /\ MaxAttempts \in Nat /\ d.attempts \in Nat
  BY <1>0, <1>1, TriggersAssumption DEF ShapeInv, AttemptsLeft, Delivery
<1>3. /\ tried \in Delivery
      /\ tried.inst = d.inst /\ tried.commit = d.commit /\ tried.trigger = d.trigger
      /\ tried.path = d.path /\ tried.kind = d.kind
      /\ tried.state = "sending" => tried.attempts < MaxAttempts
      /\ tried.state = "givenUp" => tried.attempts = MaxAttempts
  <2>1. d.attempts + 1 \in 0 .. MaxAttempts /\ (~(d.attempts + 1 < MaxAttempts) => d.attempts + 1 = MaxAttempts)
    BY <1>2
  <2> QED BY <1>2, <2>1 DEF Delivery
<1> HIDE DEF tried
<1>4. \A e \in deliveries' : e = tried \/ (e \in deliveries /\ e # d)
  BY <1>1
<1>5. ShapeInv'
  BY <1>0, <1>1, <1>3, <1>4 DEF ShapeInv
<1>6. AttemptsLeft'
  BY <1>0, <1>3, <1>4 DEF AttemptsLeft
<1>7. DispatchedOnce'
  <2>1. ASSUME NEW e \in deliveries'
        PROVE  \E f \in deliveries :
                 /\ e.inst = f.inst /\ e.commit = f.commit /\ e.trigger = f.trigger
                 /\ e.path = f.path /\ e.kind = f.kind /\ (f = d <=> e = tried)
    <3>1. CASE e = tried
      BY <1>3, <3>1
    <3>2. CASE e # tried
      BY <1>4, <3>2
    <3> QED BY <3>1, <3>2
  <2>2. ASSUME NEW e \in deliveries', NEW f \in deliveries', e # f
        PROVE  e.commit # f.commit \/ e.trigger # f.trigger \/ e.path # f.path
    <3>1. CASE e = tried
      BY <1>3, <1>4, <2>2, <3>1 DEF TriggersInv, DispatchedOnce
    <3>2. CASE f = tried
      BY <1>3, <1>4, <2>2, <3>2 DEF TriggersInv, DispatchedOnce
    <3>3. CASE e # tried /\ f # tried
      BY <1>4, <2>2, <3>3 DEF TriggersInv, DispatchedOnce
    <3> QED BY <3>1, <3>2, <3>3
  <2>3. ASSUME NEW e \in deliveries'
        PROVE  e.inst = commits[e.commit].inst
               /\ e.kind = Actual(commits[e.commit].before[e.path], commits[e.commit].after[e.path])
    BY <2>1 DEF TriggersInv, DispatchedOnce
  <2> QED BY <1>1, <2>2, <2>3 DEF DispatchedOnce
<1>8. Dispatched'
  BY <1>1, <1>3, <1>4 DEF TriggersInv, Dispatched
<1>9. Sources' /\ OwedFires' /\ OwedOnTheWay'
  BY <1>1 DEF TriggersInv, Sources, OwedFires, OwedOnTheWay
<1> QED BY <1>5, <1>6, <1>7, <1>8, <1>9 DEF TriggersInv

\* A death loses what the process had to publish and to dispatch, and with it what
\* its commits owed.
LEMMA DiesKeeps ==
    ASSUME TriggersInv, NEW i \in Processes, Dies(i)
    PROVE  TriggersInv'
<1> DEFINE G(d) == IF d.inst = i /\ d.state \in {"sending", "hanging"} THEN [d EXCEPT !.state = "gone"] ELSE d
<1>0. ShapeInv /\ Sources /\ Dispatched
  BY DEF TriggersInv
<1>1. /\ unsent' = [unsent EXCEPT ![i] = {}] /\ tailed' = [tailed EXCEPT ![i] = Len(commits)]
      /\ hub' = [hub EXCEPT ![i] = << >>] /\ registry' = [registry EXCEPT ![i] = {}]
      /\ deliveries' = {G(d) : d \in deliveries}
      /\ owed' = {e \in owed : commits[e.commit].inst # i}
      /\ UNCHANGED <<exists, commits>>
  BY DEF Dies
<1>2. \A d \in deliveries :
        /\ G(d) \in Delivery /\ G(d).inst = d.inst /\ G(d).commit = d.commit /\ G(d).trigger = d.trigger
        /\ G(d).path = d.path /\ G(d).kind = d.kind /\ G(d).attempts = d.attempts
        /\ G(d).state = d.state \/ G(d).state = "gone"
  <2> SUFFICES ASSUME NEW d \in deliveries
               PROVE  /\ G(d) \in Delivery /\ G(d).inst = d.inst /\ G(d).commit = d.commit
                      /\ G(d).trigger = d.trigger
                      /\ G(d).path = d.path /\ G(d).kind = d.kind /\ G(d).attempts = d.attempts
                      /\ G(d).state = d.state \/ G(d).state = "gone"
    OBVIOUS
  <2>1. d \in Delivery
    BY <1>0 DEF ShapeInv
  <2> QED BY <2>1 DEF Delivery
<1> HIDE DEF G
<1>3. ASSUME NEW e \in deliveries' PROVE \E d \in deliveries : e = G(d)
  BY <1>1
<1>4. /\ unsent' \in [Processes -> SUBSET (1 .. Len(commits))] /\ unsent'[i] = {}
      /\ tailed' \in [Processes -> Nat]
      /\ hub' \in [Processes -> Seq(Event)] /\ hub'[i] = << >> /\ Len(hub'[i]) = 0 /\ DOMAIN hub'[i] = {}
      /\ registry' \in [Processes -> SUBSET Specs]
      /\ \A j \in Processes : j # i => unsent'[j] = unsent[j] /\ hub'[j] = hub[j] /\ registry'[j] = registry[j]
  <2>1. Len(commits) \in Nat /\ {} \in SUBSET (1 .. Len(commits))
    BY <1>0, LenProperties DEF ShapeInv
  <2>2. << >> \in Seq(Event) /\ Len(<< >>) = 0 /\ DOMAIN << >> = {}
    BY EmptySeq
  <2>3. unsent' \in [Processes -> SUBSET (1 .. Len(commits))] /\ unsent'[i] = {} /\ tailed' \in [Processes -> Nat]
    BY <1>0, <1>1, <2>1 DEF ShapeInv
  <2>4. hub' \in [Processes -> Seq(Event)] /\ hub'[i] = << >>
    BY <1>0, <1>1, <2>2 DEF ShapeInv
  <2>5. registry' \in [Processes -> SUBSET Specs]
    BY <1>0, <1>1 DEF ShapeInv
  <2>6. \A j \in Processes : j # i => unsent'[j] = unsent[j] /\ hub'[j] = hub[j] /\ registry'[j] = registry[j]
    BY <1>0, <1>1 DEF ShapeInv
  <2> QED BY <2>2, <2>3, <2>4, <2>5, <2>6
<1>5. ShapeInv'
  <2>1. \A j \in Processes : Len(hub'[j]) <= Slots /\ \A k \in DOMAIN hub'[j] : hub'[j][k].commit \in 1 .. Len(commits)
    <3> SUFFICES ASSUME NEW j \in Processes
                 PROVE  Len(hub'[j]) <= Slots /\ \A k \in DOMAIN hub'[j] : hub'[j][k].commit \in 1 .. Len(commits)
      OBVIOUS
    <3>1. CASE j = i
      BY <1>4, <3>1, TriggersAssumption
    <3>2. CASE j # i
      BY <1>0, <1>4, <3>2 DEF ShapeInv
    <3> QED BY <3>1, <3>2
  <2>2. \A e \in deliveries' : e \in Delivery /\ e.commit \in 1 .. Len(commits)
    <3> SUFFICES ASSUME NEW e \in deliveries' PROVE e \in Delivery /\ e.commit \in 1 .. Len(commits)
      OBVIOUS
    <3>1. PICK d \in deliveries : e = G(d)
      BY <1>3
    <3>2. d.commit \in 1 .. Len(commits)
      BY <1>0 DEF ShapeInv
    <3> QED BY <1>2, <3>1, <3>2
  <2>3. \A e \in owed' : e.commit \in 1 .. Len(commits)
    BY <1>0, <1>1 DEF ShapeInv
  <2> QED BY <1>0, <1>1, <1>4, <2>1, <2>2, <2>3 DEF ShapeInv
<1>6. AttemptsLeft'
  <2> SUFFICES ASSUME NEW e \in deliveries'
               PROVE  /\ e.state = "sending" => e.attempts < MaxAttempts
                      /\ e.state = "givenUp" => e.attempts = MaxAttempts
    BY DEF AttemptsLeft
  <2>1. PICK d \in deliveries : e = G(d)
    BY <1>3
  <2> QED BY <1>2, <2>1 DEF TriggersInv, AttemptsLeft
<1>7. DispatchedOnce'
  <2>1. ASSUME NEW e \in deliveries', NEW f \in deliveries', e # f
        PROVE  e.commit # f.commit \/ e.trigger # f.trigger \/ e.path # f.path
    <3>1. PICK d \in deliveries : e = G(d)
      BY <1>3
    <3>2. PICK g \in deliveries : f = G(g)
      BY <1>3
    <3>3. d # g
      BY <2>1, <3>1, <3>2
    <3>4. d.commit # g.commit \/ d.trigger # g.trigger \/ d.path # g.path
      BY <3>3 DEF TriggersInv, DispatchedOnce
    <3> QED BY <1>2, <3>1, <3>2, <3>4
  <2>2. ASSUME NEW e \in deliveries'
        PROVE  e.inst = commits[e.commit].inst
               /\ e.kind = Actual(commits[e.commit].before[e.path], commits[e.commit].after[e.path])
    <3>1. PICK d \in deliveries : e = G(d)
      BY <1>3
    <3> QED BY <1>2, <3>1 DEF TriggersInv, DispatchedOnce
  <2> QED BY <1>1, <2>1, <2>2 DEF DispatchedOnce
<1>8. Dispatched'
  <2> SUFFICES ASSUME NEW e \in deliveries'
               PROVE  /\ e.commit \notin unsent'[e.inst]
                      /\ \A k \in DOMAIN hub'[e.inst] :
                           ~(hub'[e.inst][k].origin = "local" /\ hub'[e.inst][k].commit = e.commit)
    BY DEF Dispatched
  <2>1. PICK d \in deliveries : e = G(d)
    BY <1>3
  <2>2. /\ e.inst = d.inst /\ e.commit = d.commit /\ d.inst \in Processes /\ d.commit # 0
        /\ d.commit \notin unsent[d.inst]
        /\ \A k \in DOMAIN hub[d.inst] : ~(hub[d.inst][k].origin = "local" /\ hub[d.inst][k].commit = d.commit)
    BY <1>0, <1>2, <2>1 DEF ShapeInv, Dispatched, Delivery
  <2>3. CASE d.inst = i
    BY <1>4, <2>2, <2>3
  <2>4. CASE d.inst # i
    BY <1>4, <2>2, <2>4, ZenonT(60)
  <2> QED BY <2>3, <2>4
<1>9. Sources'
  <2> SUFFICES ASSUME NEW j \in Processes
               PROVE  /\ \A n \in unsent'[j] : commits[n].inst = j
                      /\ \A k \in DOMAIN hub'[j] :
                           /\ hub'[j][k].origin = "local" <=> commits[hub'[j][k].commit].inst = j
                           /\ hub'[j][k].origin = "local" => hub'[j][k].commit \notin unsent'[j]
                      /\ \A k, l \in DOMAIN hub'[j] :
                           hub'[j][k].origin = "local" /\ hub'[j][k] = hub'[j][l] => k = l
    BY <1>1 DEF Sources
  <2>1. CASE j = i
    BY <1>4, <2>1
  <2>2. CASE j # i
    <3>1. hub'[j] = hub[j] /\ unsent'[j] = unsent[j]
      BY <1>4, <2>2
    <3> QED BY <1>0, <3>1 DEF Sources
  <2> QED BY <2>1, <2>2
<1>10. \A e \in owed' : e \in owed /\ commits[e.commit].inst # i /\ commits[e.commit].inst \in Processes
  <2> SUFFICES ASSUME NEW e \in owed' PROVE commits[e.commit].inst \in Processes
    BY <1>1
  <2>1. commits \in Seq(Commit) /\ e.commit \in 1 .. Len(commits)
    BY <1>0, <1>1 DEF ShapeInv
  <2>2. commits[e.commit] \in Commit
    BY <2>1, ElementOfSeq
  <2> QED BY <2>2 DEF Commit
<1>11. OwedFires'
  BY <1>1, <1>4, <1>10 DEF TriggersInv, OwedFires
<1>12. OwedOnTheWay'
  BY <1>1, <1>4, <1>10 DEF TriggersInv, OwedOnTheWay
<1> QED BY <1>5, <1>6, <1>7, <1>8, <1>9, <1>11, <1>12 DEF TriggersInv

LEMMA TriggersStep ==
    ASSUME TriggersInv, [TriggersNext]_triggerVars
    PROVE  TriggersInv'
<1>0. ShapeInv /\ Sources /\ Len(commits) \in Nat
  BY LenProperties DEF TriggersInv, ShapeInv
<1>1. ASSUME NEW i \in Processes, Subscribe(i) PROVE TriggersInv'
  BY <1>0, <1>1, NothingMoves DEF Subscribe, ShapeInv, TriggersInv, OwedFires
<1>2. ASSUME NEW i \in Processes, NEW n \in unsent[i], PublishOwn(i, n) PROVE TriggersInv'
  <2> DEFINE event == [commit |-> n, origin |-> "local"]
  <2>1. /\ Broadcast(i, event) /\ unsent' = [unsent EXCEPT ![i] = @ \ {n}]
        /\ UNCHANGED <<exists, commits, tailed, listening, registry, deliveries, crashes>>
    BY <1>2 DEF PublishOwn
  <2>2. n \in 1 .. Len(commits) /\ commits[n].inst = i /\ tailed' \in [Processes -> Nat]
    BY <1>0, <2>1 DEF ShapeInv, Sources
  <2>3. event \in Event /\ event.commit = n /\ event.origin = "local"
    BY <1>0, <2>2 DEF Event
  <2> HIDE DEF event
  <2> QED BY <2>1, <2>2, <2>3, BroadcastKeeps
<1>3. ASSUME NEW i \in Processes, FanOut(i) PROVE TriggersInv'
  <2> DEFINE n == tailed[i] + 1
             event == [commit |-> n, origin |-> "remote"]
  <2>1. /\ n <= Len(commits) /\ tailed' = [tailed EXCEPT ![i] = n]
        /\ IF commits[n].inst = i THEN UNCHANGED <<hub, owed>> ELSE Broadcast(i, event)
        /\ UNCHANGED <<exists, commits, unsent, listening, registry, deliveries, crashes>>
    BY <1>3 DEF FanOut
  <2>2. n \in Nat \ {0} /\ n \in 1 .. Len(commits) /\ tailed' \in [Processes -> Nat]
    BY <1>0, <2>1 DEF ShapeInv
  <2>3. event \in Event /\ event.commit = n /\ event.origin = "remote"
    BY <2>2 DEF Event
  <2> HIDE DEF event, n
  <2>4. CASE commits[n].inst = i
    BY <1>0, <2>1, <2>2, <2>4, NothingMoves DEF ShapeInv, TriggersInv, OwedFires
  <2>5. CASE commits[n].inst # i
    BY <2>1, <2>2, <2>3, <2>5, BroadcastKeeps
  <2> QED BY <2>4, <2>5
<1>4. ASSUME NEW i \in Processes, NEW specs \in Registries, Replace(i, specs) PROVE TriggersInv'
  <2>1. /\ registry' = [registry EXCEPT ![i] = specs]
        /\ owed' = {e \in owed : commits[e.commit].inst = i => e.trigger \in specs}
        /\ UNCHANGED <<exists, commits, unsent, tailed, hub, listening, deliveries, crashes>>
    BY <1>4 DEF Replace
  <2>2. registry' \in [Processes -> SUBSET Specs] /\ registry'[i] = specs
        /\ \A j \in Processes : j # i => registry'[j] = registry[j]
    BY <1>0, <2>1 DEF ShapeInv, Specs
  <2>3. ASSUME NEW e \in owed' PROVE e.trigger \in registry'[commits[e.commit].inst]
    <3>1. e \in owed /\ commits \in Seq(Commit) /\ e.commit \in 1 .. Len(commits)
      BY <1>0, <2>1 DEF ShapeInv
    <3>2. commits[e.commit] \in Commit
      BY <3>1, ElementOfSeq
    <3>3. commits[e.commit].inst \in Processes /\ e.trigger \in registry[commits[e.commit].inst]
      BY <3>1, <3>2 DEF TriggersInv, OwedFires, Commit
    <3>4. CASE commits[e.commit].inst = i
      BY <2>1, <2>2, <3>4
    <3>5. CASE commits[e.commit].inst # i
      BY <2>2, <3>3, <3>5
    <3> QED BY <3>4, <3>5
  <2>4. tailed' \in [Processes -> Nat] /\ owed' \subseteq owed
    BY <1>0, <2>1 DEF ShapeInv
  <2> QED BY <2>1, <2>2, <2>3, <2>4, NothingMoves
<1>5. CASE UNCHANGED triggerVars
  BY <1>0, <1>5, NothingMoves DEF triggerVars, ShapeInv, TriggersInv, OwedFires
<1> QED
  BY <1>1, <1>2, <1>3, <1>4, <1>5, ApplyKeeps, DispatchKeeps, AttemptKeeps, DiesKeeps
     DEF TriggersNext, Delivering

\* The inductive invariant, at all times.
LEMMA TriggersInvariant == TriggersSpec => []TriggersInv
<1>1. TriggersInit => TriggersInv
  BY TriggersInitial
<1>2. TriggersInv /\ [TriggersNext]_triggerVars => TriggersInv'
  BY TriggersStep
<1> QED BY <1>1, <1>2, PTL DEF TriggersSpec

-----------------------------------------------------------------------------

\* No queue outgrows its channel, what is owed is of a commit, and no delivery is
\* attempted more often than MAX_ATTEMPTS.
THEOREM TriggersTypeCorrect == TriggersSpec => []TriggersTypeOK
<1>1. TriggersInv => TriggersTypeOK
  <2> SUFFICES ASSUME TriggersInv PROVE TriggersTypeOK
    OBVIOUS
  <2>1. \A i \in Processes : Len(hub[i]) <= Slots /\ unsent[i] \subseteq 1 .. Len(commits)
    BY DEF TriggersInv, ShapeInv
  <2>2. \A d \in deliveries : d.attempts \in 0 .. MaxAttempts /\ (d.state = "givenUp" => d.attempts = MaxAttempts)
    BY DEF TriggersInv, ShapeInv, AttemptsLeft, Delivery
  <2> QED BY <2>1, <2>2 DEF TriggersInv, ShapeInv, TriggersTypeOK
<1> QED BY <1>1, TriggersInvariant, PTL

\* However commits, fan-out, replaced registries and crashes interleave, an event
\* is dispatched at most once, by the process that applied the commit, and says
\* what the commit did.
THEOREM EventsDispatchedOnce == TriggersSpec => []DispatchedOnce
<1>1. TriggersInv => DispatchedOnce
  BY DEF TriggersInv
<1> QED BY <1>1, TriggersInvariant, PTL

\* An event that is owed is with the process that applied the commit: its handler
\* has yet to publish it, or it is in the dispatcher's queue.  Owed is what the
\* commits that their handlers learn of fire, until the registry is replaced, the
\* dispatcher lags or has not subscribed, or the process dies.
THEOREM OwedEventsTravel == TriggersSpec => []OwedOnTheWay
<1>1. TriggersInv => OwedOnTheWay
  BY DEF TriggersInv
<1> QED BY <1>1, TriggersInvariant, PTL

-----------------------------------------------------------------------------
(* Patterns.  With one glob at the most, a path of n names can be split    *)
(* among the segments in one way only; the walk over the segments finds    *)
(* where each of them ends in that way, or is lost at one that does not    *)
(* fit.                                                                    *)

Segment(Names) == [kind : {"literal", "capture", "glob"}, name : Names]

OneGlob(segments) ==
    \A j, k \in DOMAIN segments :
        segments[j].kind = "glob" /\ segments[k].kind = "glob" => j = k

GlobWithin(segments, k) == \E j \in 1 .. k : segments[j].kind = "glob"

\* Where segment k ends: without a glob so far each took one name, and after
\* it each takes one of those that are left.
EndOf(segments, n, k) == IF GlobWithin(segments, k) THEN n - (Len(segments) - k) ELSE k

EndsOf(segments, n) == [k \in 0 .. Len(segments) |-> EndOf(segments, n, k)]

\* The walk over the segments, and the list of what they capture.
WalkBase(e) == NothingTaken
WalkStep(e, k, w) == Walked(e[1], e[2], k, w)

Passes == INSTANCE Recursion WITH Base <- WalkBase, Step <- WalkStep

ListBase(e) == << >>
ListStep(e, k, list) ==
    IF e[1][k].kind = "literal" THEN list
    ELSE Append(list, <<e[1][k].name, SubSeq(e[2], e[3][k - 1] + 1, e[3][k])>>)

Lists == INSTANCE Recursion WITH Base <- ListBase, Step <- ListStep

LEMMA WalkStepByStep ==
    ASSUME NEW segments, NEW path, Len(segments) \in Nat
    PROVE  /\ Walk(segments, path)[0] = NothingTaken
           /\ \A k \in 1 .. Len(segments) :
                Walk(segments, path)[k] = Walked(segments, path, k, Walk(segments, path)[k - 1])
<1> DEFINE e == <<segments, path>>
           W == Passes!Solution(e, Len(segments))
<1>1. Walk(segments, path) = W
  BY DEF Passes!Solution, Passes!Solves, Walk, WalkBase, WalkStep
<1>2. W[0] = WalkBase(e) /\ \A k \in 1 .. Len(segments) : W[k] = WalkStep(e, k, W[k - 1])
  BY Passes!StepByStep
<1> QED BY <1>1, <1>2 DEF WalkBase, WalkStep

LEMMA ListStepByStep ==
    ASSUME NEW segments, NEW path, NEW ends, Len(segments) \in Nat
    PROVE  \E list :
             /\ list[0] = << >>
             /\ \A k \in 1 .. Len(segments) :
                  list[k] = ListStep(<<segments, path, ends>>, k, list[k - 1])
             /\ Caught(segments, path, ends) = list[Len(segments)]
<1> DEFINE e == <<segments, path, ends>>
           C == Lists!Solution(e, Len(segments))
<1>1. Caught(segments, path, ends) = C[Len(segments)]
  BY DEF Lists!Solution, Lists!Solves, Caught, ListBase, ListStep
<1>2. C[0] = ListBase(e) /\ \A k \in 1 .. Len(segments) : C[k] = ListStep(e, k, C[k - 1])
  BY Lists!StepByStep
<1> QED BY <1>1, <1>2 DEF ListBase

\* Each segment takes one name, or as many as its glob leaves it.
LEMMA EndsBySegment ==
    ASSUME NEW Names, NEW segments \in Seq(Segment(Names)), NEW n \in Nat, OneGlob(segments)
    PROVE  /\ EndOf(segments, n, 0) = 0
           /\ \A k \in 1 .. Len(segments) :
                /\ EndOf(segments, n, k) \in Int
                /\ segments[k].kind = "glob" =>
                     /\ EndOf(segments, n, k - 1) = k - 1
                     /\ EndOf(segments, n, k) = n - (Len(segments) - k)
                /\ segments[k].kind # "glob" =>
                     EndOf(segments, n, k) = EndOf(segments, n, k - 1) + 1
<1>1. EndOf(segments, n, 0) = 0
  BY DEF EndOf, GlobWithin
<1>2. ASSUME NEW k \in 1 .. Len(segments)
      PROVE  EndOf(segments, n, k) \in Int
  BY DEF EndOf
<1>3. ASSUME NEW k \in 1 .. Len(segments), segments[k].kind = "glob"
      PROVE  /\ EndOf(segments, n, k - 1) = k - 1
             /\ EndOf(segments, n, k) = n - (Len(segments) - k)
  <2>1. \A j \in 1 .. k - 1 : j \in DOMAIN segments /\ j # k
    OBVIOUS
  <2>2. ~GlobWithin(segments, k - 1)
    BY <2>1, <1>3 DEF GlobWithin, OneGlob
  <2>3. GlobWithin(segments, k)
    BY <1>3 DEF GlobWithin
  <2> QED BY <2>2, <2>3 DEF EndOf
<1>4. ASSUME NEW k \in 1 .. Len(segments), segments[k].kind # "glob"
      PROVE  EndOf(segments, n, k) = EndOf(segments, n, k - 1) + 1
  <2>1. \A j \in 1 .. k : j = k \/ j \in 1 .. k - 1
    OBVIOUS
  <2>2. GlobWithin(segments, k) <=> GlobWithin(segments, k - 1)
    BY <2>1, <1>4 DEF GlobWithin
  <2> QED BY <2>2 DEF EndOf
<1> QED BY <1>1, <1>2, <1>3, <1>4

\* So there is one way to split a path.
LEMMA OneSplit ==
    ASSUME NEW Names, NEW segments \in Seq(Segment(Names)), NEW n \in Nat, OneGlob(segments),
           NEW ends \in Splits(segments, n)
    PROVE  ends = EndsOf(segments, n)
<1> DEFINE L == Len(segments)
           Same == {k \in 0 .. L : GlobWithin(segments, k) \/ ends[k] = k}
           Left == {k \in 0 .. L : GlobWithin(segments, k) => ends[k] = n - (L - k)}
<1>1. /\ ends \in [0 .. L -> 0 .. n] /\ L \in Nat
      /\ ends[0] = 0 /\ ends[L] = n
      /\ \A k \in 1 .. L : segments[k].kind # "glob" => ends[k] = ends[k - 1] + 1
  BY DEF Splits
<1>2. \A k \in 0 .. L : k \in Same
  <2>1. 0 \in Same
    BY <1>1
  <2>2. ASSUME NEW k \in 1 .. L, k - 1 \in Same PROVE k \in Same
    <3>1. k \in 1 .. k /\ \A j \in 1 .. k - 1 : j \in 1 .. k
      OBVIOUS
    <3>2. GlobWithin(segments, k - 1) \/ segments[k].kind = "glob" => GlobWithin(segments, k)
      BY <3>1 DEF GlobWithin
    <3>3. CASE ends[k - 1] = k - 1 /\ segments[k].kind # "glob"
      BY <3>3, <1>1
    <3> QED BY <3>2, <3>3, <2>2
  <2> HIDE DEF Same
  <2> QED BY <2>1, <2>2, <1>1, Passes!Upward
<1>3. \A k \in 0 .. L : k \in Left
  <2>1. L \in Left
    BY <1>1
  <2>2. ASSUME NEW k \in 1 .. L, k \in Left PROVE k - 1 \in Left
    <3>1. SUFFICES ASSUME GlobWithin(segments, k - 1) PROVE ends[k - 1] = n - (L - (k - 1))
      OBVIOUS
    <3>2. PICK j \in 1 .. k - 1 : segments[j].kind = "glob"
      BY <3>1 DEF GlobWithin
    <3>3. j \in DOMAIN segments /\ k \in DOMAIN segments /\ j # k /\ j \in 1 .. k
      OBVIOUS
    <3>4. GlobWithin(segments, k) /\ segments[k].kind # "glob"
      BY <3>2, <3>3 DEF GlobWithin, OneGlob
    <3>5. ends[k] = n - (L - k)
      BY <3>4, <2>2
    <3>6. ends[k] = ends[k - 1] + 1
      BY <3>4, <1>1
    <3>7. k - 1 \in 0 .. L /\ ends[k - 1] \in 0 .. n
      BY <1>1
    <3> QED BY <3>5, <3>6, <3>7, <1>1
  <2> HIDE DEF Left
  <2> QED BY <2>1, <2>2, <1>1, Passes!Downward
<1>4. ASSUME NEW k \in 0 .. L PROVE ends[k] = EndOf(segments, n, k)
  BY <1>2, <1>3 DEF EndOf
<1> QED BY <1>1, <1>4 DEF EndsOf

\* Segment k of a path that is split at the ends given.
FitsAt(segments, path, ends, k) ==
    /\ ends[k] <= Len(path)
    /\ IF segments[k].kind = "glob" THEN ends[k] > ends[k - 1] ELSE ends[k] = ends[k - 1] + 1
    /\ segments[k].kind = "literal" => path[ends[k]] = segments[k].name

\* A step of the walk is to the end of the segment if the segment fits, and
\* is lost if not.
LEMMA WalkedOn ==
    ASSUME NEW Names, NEW segments \in Seq(Segment(Names)), NEW path \in Seq(Names),
           OneGlob(segments), NEW ends, ends = EndsOf(segments, Len(path)),
           NEW k \in 1 .. Len(segments), NEW w, w.matched, w.i = ends[k - 1], w.i \in Nat
    PROVE  Walked(segments, path, k, w) =
             IF FitsAt(segments, path, ends, k)
             THEN Taken(segments[k], path, w, ends[k] - ends[k - 1])
             ELSE Lost
<1> DEFINE n == Takes(segments, path, k, w.i)
<1>1. /\ Len(path) \in Nat /\ ends[k - 1] \in Nat /\ ends[k] \in Int
      /\ segments[k].kind \in {"literal", "capture", "glob"}
      /\ ends[k - 1] = EndOf(segments, Len(path), k - 1) /\ ends[k] = EndOf(segments, Len(path), k)
  <2>1. k - 1 \in 0 .. Len(segments) /\ k \in 0 .. Len(segments)
    OBVIOUS
  <2>2. segments[k] \in Segment(Names)
    OBVIOUS
  <2>3. EndOf(segments, Len(path), k) \in Int
    BY EndsBySegment
  <2> QED BY <2>1, <2>2, <2>3 DEF EndsOf, Segment
<1>2. CASE segments[k].kind = "glob"
  <2>1. ends[k - 1] = k - 1 /\ ends[k] = Len(path) - (Len(segments) - k)
    BY <1>1, <1>2, EndsBySegment
  <2>2. n = IF ends[k] - ends[k - 1] >= 1 THEN ends[k] - ends[k - 1] ELSE -1
    <3>1. w.i = ends[k - 1]
      OBVIOUS
    <3>2. Len(path) - w.i - (Len(segments) - k) = ends[k] - ends[k - 1]
      BY <2>1, <1>1, <3>1
    <3> QED BY <3>2, <1>2 DEF Takes
  <2>3. FitsAt(segments, path, ends, k) <=> ends[k] - ends[k - 1] >= 1
    BY <2>1, <1>1, <1>2 DEF FitsAt
  <2>4. n < 0 <=> ~FitsAt(segments, path, ends, k)
    BY <2>2, <2>3, <1>1
  <2>5. FitsAt(segments, path, ends, k) => n = ends[k] - ends[k - 1]
    BY <2>2, <2>3
  <2> QED BY <2>4, <2>5 DEF Walked
<1>3. CASE segments[k].kind # "glob"
  <2>1. ends[k] = ends[k - 1] + 1
    BY <1>1, <1>3, EndsBySegment
  <2>2. FitsAt(segments, path, ends, k) <=>
          /\ ends[k - 1] < Len(path)
          /\ segments[k].kind = "literal" => path[ends[k - 1] + 1] = segments[k].name
    BY <2>1, <1>1, <1>3 DEF FitsAt
  <2>3. n = IF FitsAt(segments, path, ends, k) THEN 1 ELSE -1
    BY <2>2, <1>1, <1>3 DEF Takes
  <2>4. ends[k] - ends[k - 1] = 1
    BY <2>1, <1>1
  <2> QED BY <2>3, <2>4 DEF Walked
<1> QED BY <1>2, <1>3

\* Where the walk is after segment k: at its end, with what the segments so
\* far have captured, unless one of them does not fit.
LEMMA WalkFollowsEnds ==
    ASSUME NEW Names, NEW segments \in Seq(Segment(Names)), NEW path \in Seq(Names),
           OneGlob(segments), NEW ends, ends = EndsOf(segments, Len(path)),
           NEW list, list[0] = << >>,
           \A k \in 1 .. Len(segments) :
               list[k] = ListStep(<<segments, path, ends>>, k, list[k - 1])
    PROVE  \A k \in 0 .. Len(segments) :
             Walk(segments, path)[k] =
               IF \A j \in 1 .. k : FitsAt(segments, path, ends, j)
               THEN [matched |-> TRUE, i |-> ends[k], params |-> list[k]]
               ELSE Lost
<1> DEFINE L == Len(segments)
           W == Walk(segments, path)
           Fit(k) == \A j \in 1 .. k : FitsAt(segments, path, ends, j)
           There(k) == [matched |-> TRUE, i |-> ends[k], params |-> list[k]]
           S == {k \in 0 .. L : /\ W[k] = IF Fit(k) THEN There(k) ELSE Lost
                                /\ Fit(k) => ends[k] \in Nat}
<1>1. 0 \in S
  <2>1. W[0] = NothingTaken
    BY WalkStepByStep
  <2>2. ends[0] = 0
    <3>1. 0 \in 0 .. L
      OBVIOUS
    <3> QED BY <3>1, EndsBySegment DEF EndsOf
  <2>3. Fit(0)
    OBVIOUS
  <2>4. W[0] = There(0)
    BY <2>1, <2>2 DEF NothingTaken
  <2>5. 0 \in 0 .. L /\ ends[0] \in Nat
    BY <2>2
  <2> HIDE DEF There, W, Fit
  <2> QED BY <2>3, <2>4, <2>5
<1>2. ASSUME NEW k \in 1 .. L, k - 1 \in S PROVE k \in S
  <2>1. W[k] = Walked(segments, path, k, W[k - 1])
    BY WalkStepByStep
  <2>2. \A j \in 1 .. k : j = k \/ j \in 1 .. k - 1
    OBVIOUS
  <2>3. \A j \in 1 .. k - 1 : j \in 1 .. k
    OBVIOUS
  <2>4. Fit(k) <=> Fit(k - 1) /\ FitsAt(segments, path, ends, k)
    BY <2>2, <2>3
  <2>5. CASE ~Fit(k - 1)
    <3>1. W[k - 1] = Lost
      BY <2>5, <1>2
    <3>2. W[k] = Lost
      BY <3>1, <2>1 DEF Walked, Lost
    <3> QED BY <3>2, <2>5, <2>4
  <2>6. CASE Fit(k - 1)
    <3>1. W[k - 1] = There(k - 1) /\ ends[k - 1] \in Nat
      BY <2>6, <1>2
    <3>2. PICK w : w = W[k - 1]
      OBVIOUS
    <3>3. w.matched /\ w.i = ends[k - 1] /\ w.i \in Nat /\ w.params = list[k - 1]
      BY <3>1, <3>2
    <3>4. W[k] = IF FitsAt(segments, path, ends, k)
                 THEN Taken(segments[k], path, w, ends[k] - ends[k - 1])
                 ELSE Lost
      <4> HIDE DEF W
      <4> QED BY <2>1, <3>2, <3>3, WalkedOn
    <3>5. CASE ~FitsAt(segments, path, ends, k)
      BY <3>4, <3>5, <2>4
    <3>6. CASE FitsAt(segments, path, ends, k)
      <4>1. ends[k] \in Int /\ ends[k] > ends[k - 1]
        <5>1. k \in 0 .. L /\ EndOf(segments, Len(path), k) \in Int
          BY EndsBySegment
        <5>2. ends[k] \in Int
          BY <5>1 DEF EndsOf
        <5> QED BY <5>2, <3>6, <3>1 DEF FitsAt
      <4>2. w.i + (ends[k] - ends[k - 1]) = ends[k]
        BY <4>1, <3>1, <3>3
      <4>3. Taken(segments[k], path, w, ends[k] - ends[k - 1]) =
              [matched |-> TRUE, i |-> ends[k],
               params |-> ListStep(<<segments, path, ends>>, k, list[k - 1])]
        BY <4>2, <3>3 DEF Taken, ListStep
      <4>4. list[k] = ListStep(<<segments, path, ends>>, k, list[k - 1])
        OBVIOUS
      <4>5. W[k] = There(k)
        BY <4>3, <4>4, <3>4, <3>6
      <4>6. ends[k] \in Nat
        BY <4>1, <3>1
      <4> QED BY <4>5, <4>6, <2>4, <3>6, <2>6
    <3> QED BY <3>5, <3>6
  <2> QED BY <2>5, <2>6
<1>3. \A k \in 0 .. L : k \in S
  <2>1. L \in Nat
    OBVIOUS
  <2> HIDE DEF S, L
  <2> QED BY <1>1, <1>2, <2>1, Passes!Upward
<1> QED BY <1>3

\* The ends fit as a whole when they fit at each segment and at the end of
\* the path.
LEMMA FitsBySegment ==
    ASSUME NEW Names, NEW segments \in Seq(Segment(Names)), NEW path \in Seq(Names),
           OneGlob(segments), NEW ends, ends = EndsOf(segments, Len(path))
    PROVE  ends \in Fits(segments, path) <=>
             /\ \A k \in 1 .. Len(segments) : FitsAt(segments, path, ends, k)
             /\ ends[Len(segments)] = Len(path)
<1> DEFINE L == Len(segments)
           n == Len(path)
<1>1. L \in Nat /\ n \in Nat /\ ends[0] = 0 /\ \A k \in 0 .. L : ends[k] \in Int
  <2>1. \A k \in 0 .. L : EndOf(segments, n, k) \in Int
    BY DEF EndOf
  <2> QED BY <2>1, EndsBySegment DEF EndsOf
<1>2. ASSUME ends \in Fits(segments, path)
      PROVE  /\ \A k \in 1 .. L : FitsAt(segments, path, ends, k)
             /\ ends[L] = n
  <2>1. /\ ends \in [0 .. L -> 0 .. n] /\ ends[L] = n
        /\ \A k \in 1 .. L : IF segments[k].kind = "glob" THEN ends[k] > ends[k - 1]
                             ELSE ends[k] = ends[k - 1] + 1
        /\ \A k \in 1 .. L : segments[k].kind = "literal" => path[ends[k]] = segments[k].name
    BY <1>2 DEF Fits, Splits, Agree
  <2>2. \A k \in 1 .. L : ends[k] <= n
    BY <2>1, <1>1
  <2> QED BY <2>1, <2>2 DEF FitsAt
<1>3. ASSUME \A k \in 1 .. L : FitsAt(segments, path, ends, k), ends[L] = n
      PROVE  ends \in Fits(segments, path)
  <2> DEFINE S == {k \in 0 .. L : ends[k] \in 0 .. n}
  <2>1. 0 \in S
    BY <1>1
  <2>2. ASSUME NEW k \in 1 .. L, k - 1 \in S PROVE k \in S
    <3>1. FitsAt(segments, path, ends, k) /\ ends[k - 1] \in 0 .. n /\ ends[k] \in Int
      BY <1>3, <2>2, <1>1
    <3> QED BY <3>1, <1>1 DEF FitsAt
  <2>3. \A k \in 0 .. L : k \in S
    <3> HIDE DEF S
    <3> QED BY <2>1, <2>2, <1>1, Passes!Upward
  <2>4. ends \in [0 .. L -> 0 .. n]
    BY <2>3 DEF EndsOf
  <2>5. ends \in Splits(segments, n)
    BY <2>4, <1>1, <1>3 DEF Splits, FitsAt
  <2>6. Agree(segments, path, ends)
    BY <1>3 DEF Agree, FitsAt
  <2> QED BY <2>5, <2>6 DEF Fits
<1> QED BY <1>2, <1>3

\* "matches a document path" (match_pattern, functions.rs): for every pattern
\* with one glob at the most and every path, of any length, the one pass over
\* the segments finds a match exactly when the path can be split among them,
\* and captures what the segments take in that split.
THEOREM PassesFindTheSplit ==
    ASSUME NEW Names, NEW segments \in Seq(Segment(Names)), NEW path \in Seq(Names),
           OneGlob(segments)
    PROVE  MatchPattern(segments, path) = PatternMeaning(segments, path)
<1> DEFINE L == Len(segments)
           ends == EndsOf(segments, Len(path))
           Fit == \A j \in 1 .. L : FitsAt(segments, path, ends, j)
<1>1. PICK list : /\ list[0] = << >>
                  /\ \A k \in 1 .. L : list[k] = ListStep(<<segments, path, ends>>, k, list[k - 1])
                  /\ Caught(segments, path, ends) = list[L]
  <2>1. L \in Nat
    OBVIOUS
  <2> HIDE DEF ends
  <2> QED BY <2>1, ListStepByStep
<1>2. Walk(segments, path)[L] =
        IF Fit THEN [matched |-> TRUE, i |-> ends[L], params |-> list[L]] ELSE Lost
  <2>1. L \in 0 .. L
    OBVIOUS
  <2> QED BY <2>1, <1>1, WalkFollowsEnds
<1>3. Fits(segments, path) \subseteq {ends}
  BY OneSplit DEF Fits
<1>4. ends \in Fits(segments, path) <=> Fit /\ ends[L] = Len(path)
  BY FitsBySegment
<1>5. CASE Fit /\ ends[L] = Len(path)
  <2>1. Fits(segments, path) = {ends}
    BY <1>3, <1>4, <1>5
  <2>2. (CHOOSE e \in Fits(segments, path) : TRUE) = ends
    BY <2>1
  <2>3. PatternMeaning(segments, path) = [matched |-> TRUE, params |-> list[L]]
    BY <2>1, <2>2, <1>1 DEF PatternMeaning
  <2>4. MatchPattern(segments, path) = [matched |-> TRUE, params |-> list[L]]
    <3>1. PICK w : w = Walk(segments, path)[L]
      OBVIOUS
    <3>2. w.matched /\ w.i = Len(path) /\ w.params = list[L]
      BY <3>1, <1>2, <1>5
    <3> QED BY <3>1, <3>2 DEF MatchPattern, Ended
  <2> QED BY <2>3, <2>4
<1>6. CASE ~(Fit /\ ends[L] = Len(path))
  <2>1. PatternMeaning(segments, path) = NoMatch
    BY <1>3, <1>4, <1>6 DEF PatternMeaning
  <2>2. MatchPattern(segments, path) = NoMatch
    <3>1. PICK w : w = Walk(segments, path)[L]
      OBVIOUS
    <3>2. ~(w.matched /\ w.i = Len(path))
      BY <3>1, <1>2, <1>6 DEF Lost
    <3> QED BY <3>1, <3>2 DEF MatchPattern, Ended
  <2> QED BY <2>1, <2>2
<1> QED BY <1>5, <1>6
=============================================================================
