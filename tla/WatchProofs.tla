------------------------------ MODULE WatchProofs ------------------------------
(***************************************************************************)
(* Theorems about the way commits reach listeners, for any documents,      *)
(* processes, streams and writers, any capacity of the hub and any number  *)
(* of commits, and for the faults each theorem allows.                     *)
(***************************************************************************)
EXTENDS WatchProps, SequenceTheorems, TLAPS

-----------------------------------------------------------------------------
(* Types.                                                                  *)

LEMMA RowsTyped ==
    /\ Missing \in RowOrMissing /\ Row \subseteq RowOrMissing
    /\ Nothing \in [Docs -> RowOrMissing] /\ NoEvent \in Event
    /\ Idle \in Session /\ [Idle EXCEPT !.phase = "closed"] \in Session
    /\ \A rows \in [Docs -> RowOrMissing] :
         /\ QueryResult(rows) \in [Docs -> RowOrMissing]
         /\ \A paths : Restricted(rows, paths) \in [Docs -> RowOrMissing]
<1>1. Missing \in RowOrMissing /\ Row \subseteq RowOrMissing
  BY DEF RowOrMissing
<1>2. Nothing \in [Docs -> RowOrMissing]
  BY <1>1 DEF Nothing
<1>3. NoEvent \in Event
  BY <1>2 DEF NoEvent, Event
<1>4. Idle \in Session /\ [Idle EXCEPT !.phase = "closed"] \in Session
  BY <1>2, <1>3 DEF Idle, Session
<1>5. \A rows \in [Docs -> RowOrMissing] : QueryResult(rows) \in [Docs -> RowOrMissing]
  BY <1>1 DEF QueryResult
<1>6. \A rows \in [Docs -> RowOrMissing] : \A paths : Restricted(rows, paths) \in [Docs -> RowOrMissing]
  BY <1>1 DEF Restricted
<1> QED BY <1>1, <1>2, <1>3, <1>4, <1>5, <1>6

LEMMA TypeInitial ==
    ASSUME Init
    PROVE  TypeOK
<1>1. /\ store \in [Docs -> RowOrMissing] /\ oldest \in Nat /\ clock \in Nat
      /\ view \in [Listeners -> [Targets -> [Docs -> RowOrMissing]]]
  BY RowsTyped DEF Init
<1>2. log \in Seq(Notice) /\ Len(log) = 0
  BY DEF Init
<1>3. /\ unpublished \in [Instances -> SUBSET (1 .. Len(log))]
      /\ announced \in [Instances -> Seq(1 .. Len(log))]
  BY DEF Init
<1>4. tail \in [Instances -> TailTask]
  BY RowsTyped DEF Init, TailTask
<1>5. /\ queue \in [Listeners -> Seq(Event)] /\ \A l \in Listeners : Len(queue[l]) <= Capacity
      /\ lagged \in [Listeners -> BOOLEAN]
      /\ untold \in [Instances -> SUBSET Docs] /\ overtaken \in [Instances -> SUBSET Docs]
  <2>1. \A l \in Listeners : queue[l] = << >> /\ Len(queue[l]) = 0
    BY DEF Init
  <2>2. /\ queue \in [Listeners -> Seq(Event)] /\ lagged \in [Listeners -> BOOLEAN]
        /\ untold \in [Instances -> SUBSET Docs] /\ overtaken \in [Instances -> SUBSET Docs]
    BY DEF Init
  <2> QED BY <2>1, <2>2, WatchAssumption
<1>6. session \in [Listeners -> Session]
  BY RowsTyped DEF Init
<1> QED BY <1>1, <1>2, <1>3, <1>4, <1>5, <1>6 DEF TypeOK

\* What the log gains.
LEMMA LogGrows ==
    ASSUME log \in Seq(Notice), NEW notice \in Notice, log' = Append(log, notice)
    PROVE  /\ log' \in Seq(Notice) /\ Len(log) \in Nat /\ Len(log') = Len(log) + 1
           /\ log'[Len(log) + 1] = notice
           /\ \A k \in 1 .. Len(log) : log'[k] = log[k]
           /\ 1 .. Len(log) \subseteq 1 .. Len(log')
<1>1. /\ log' \in Seq(Notice) /\ Len(log') = Len(log) + 1 /\ log'[Len(log) + 1] = notice
      /\ \A k \in 1 .. Len(log) : log'[k] = log[k]
  BY AppendProperties
<1>2. Len(log) \in Nat
  BY LenProperties
<1> QED BY <1>1, <1>2

\* What a commit changes, and by how much.
LEMMA CommitEffect ==
    ASSUME TypeOK, NEW i \in Writers, NEW caller \in Callers, NEW paths \in SUBSET Docs, NEW kept \in SUBSET paths,
           NEW matching, Commit(i, caller, paths, kept, matching)
    PROVE  /\ log' \in Seq(Notice) /\ Len(log') = Len(log) + 1 /\ Len(log) \in Nat
           /\ \A k \in 1 .. Len(log) : log'[k] = log[k]
           /\ log'[Len(log) + 1].inst = i /\ log'[Len(log) + 1].paths = paths
           /\ log'[Len(log) + 1].locked = (caller = "lockKept")
           /\ \A d \in paths : log'[Len(log) + 1].after[d] = store'[d]
           /\ store' \in [Docs -> RowOrMissing]
           /\ clock' \in Nat /\ clock' - clock \in ClockSteps
           /\ \A d \in paths : store'[d] # Missing => store'[d].updated = clock'
           /\ \A d \in Docs \ paths : store'[d] = store[d]
<1>1. PICK step \in ClockSteps :
        /\ clock' = clock + step
        /\ store' = [d \in Docs |-> IF d \notin paths THEN store[d]
                                    ELSE IF d \in kept
                                    THEN [commit |-> Len(log) + 1, updated |-> clock + step,
                                          matches |-> d \in matching]
                                    ELSE Missing]
  BY DEF Commit
<1>2. clock \in Nat /\ step \in Nat /\ Len(log) \in Nat /\ store \in [Docs -> RowOrMissing]
  BY LenProperties, WatchAssumption DEF TypeOK
<1>3. \A d \in Docs : [commit |-> Len(log) + 1, updated |-> clock + step, matches |-> d \in matching] \in RowOrMissing
  <2> SUFFICES ASSUME NEW d \in Docs
               PROVE  [commit |-> Len(log) + 1, updated |-> clock + step, matches |-> d \in matching] \in RowOrMissing
    OBVIOUS
  <2>1. Len(log) + 1 \in Nat /\ clock + step \in Nat
    BY <1>2
  <2>2. (d \in matching) \in BOOLEAN
    OBVIOUS
  <2> QED BY <2>1, <2>2, RowsTyped, Zenon DEF Row
<1>4. store' \in [Docs -> RowOrMissing]
  <2>1. \A d \in Docs : (IF d \notin paths THEN store[d]
                         ELSE IF d \in kept
                         THEN [commit |-> Len(log) + 1, updated |-> clock + step, matches |-> d \in matching]
                         ELSE Missing) \in RowOrMissing
    BY <1>2, <1>3, RowsTyped, Zenon
  <2> QED BY <1>1, <2>1, Zenon
<1>5. clock' \in Nat /\ clock' - clock \in ClockSteps
  BY <1>1, <1>2
<1>6. /\ \A d \in paths : store'[d] # Missing => store'[d].updated = clock'
      /\ \A d \in Docs \ paths : store'[d] = store[d]
  BY <1>1
<1> DEFINE notice == [inst |-> i, locked |-> caller = "lockKept", paths |-> paths,
                      after |-> Restricted(store', paths)]
<1>7. notice \in Notice
  <2>1. (caller = "lockKept") \in BOOLEAN /\ Restricted(store', paths) \in [Docs -> RowOrMissing]
    BY <1>4, RowsTyped
  <2> QED BY <2>1, Zenon DEF Notice
<1>8. log' = Append(log, notice)
  BY DEF Commit
<1>9. /\ notice.inst = i /\ notice.paths = paths /\ notice.locked = (caller = "lockKept")
      /\ \A d \in paths : notice.after[d] = store'[d]
  BY DEF Restricted
<1> HIDE DEF notice
<1>10. /\ log' \in Seq(Notice) /\ Len(log') = Len(log) + 1 /\ log'[Len(log) + 1] = notice
       /\ \A k \in 1 .. Len(log) : log'[k] = log[k]
  BY <1>7, <1>8, LogGrows DEF TypeOK
<1> QED BY <1>2, <1>4, <1>5, <1>6, <1>9, <1>10

LEMMA CommitTypes ==
    ASSUME TypeOK, NEW i \in Writers, NEW caller \in Callers, NEW paths \in SUBSET Docs, NEW kept \in SUBSET paths,
           NEW matching, Commit(i, caller, paths, kept, matching)
    PROVE  TypeOK'
<1>1. /\ store' \in [Docs -> RowOrMissing] /\ clock' \in Nat
      /\ log' \in Seq(Notice) /\ Len(log') = Len(log) + 1 /\ Len(log) \in Nat
  BY CommitEffect
<1>2. 1 .. Len(log) \subseteq 1 .. Len(log')
  BY <1>1
<1>3. /\ unpublished' \in [Instances -> SUBSET (1 .. Len(log'))]
      /\ untold' \in [Instances -> SUBSET Docs]
  <2>1. i \in Instances /\ Len(log) + 1 \in 1 .. Len(log') /\ paths \in SUBSET Docs
    BY <1>1, WatchAssumption
  <2>2. \A j \in Instances : unpublished[j] \subseteq 1 .. Len(log')
    BY <1>2 DEF TypeOK
  <2>3. unpublished \in [Instances -> SUBSET (1 .. Len(log'))] /\ untold \in [Instances -> SUBSET Docs]
    BY <2>2, Zenon DEF TypeOK
  <2>4. CASE caller = "unaware"
    <3>1. untold' = [untold EXCEPT ![i] = untold[i] \cup paths] /\ UNCHANGED unpublished
      BY <2>4 DEF Commit
    <3>2. untold[i] \cup paths \in SUBSET Docs
      BY <2>1, <2>3
    <3> QED BY <2>3, <3>1, <3>2
  <2>5. CASE caller # "unaware"
    <3>1. unpublished' = [unpublished EXCEPT ![i] = unpublished[i] \cup {Len(log) + 1}] /\ UNCHANGED untold
      BY <2>5 DEF Commit
    <3>2. unpublished[i] \cup {Len(log) + 1} \in SUBSET (1 .. Len(log'))
      BY <2>1, <2>2
    <3> QED BY <2>3, <3>1, <3>2
  <2> QED BY <2>4, <2>5
<1>4. announced' \in [Instances -> Seq(1 .. Len(log'))]
  <2>1. \A j \in Instances : announced[j] \in Seq(1 .. Len(log'))
    <3>1. \A j \in Instances : announced[j] \in Seq(1 .. Len(log))
      BY DEF TypeOK
    <3> QED BY <1>2, <3>1, SeqMonotonic
  <2> QED BY <2>1 DEF TypeOK, Commit
<1>5. UNCHANGED <<oldest, tail, queue, lagged, overtaken, session, view>>
  BY DEF Commit, hubs
<1> QED BY <1>1, <1>2, <1>3, <1>4, <1>5 DEF TypeOK

\* An event is broadcast: whoever listens has it last, and lost the oldest one if
\* its receiver was full.
LEMMA BroadcastEffect ==
    ASSUME queue \in [Listeners -> Seq(Event)], lagged \in [Listeners -> BOOLEAN],
           \A l \in Listeners : Len(queue[l]) <= Capacity,
           NEW i \in Instances, NEW event \in Event, NEW late, Broadcast(i, event, late)
    PROVE  /\ queue' \in [Listeners -> Seq(Event)] /\ lagged' \in [Listeners -> BOOLEAN]
           /\ \A l \in Listeners : Len(queue'[l]) <= Capacity
           /\ \A l \in Listeners : Home[l] # i \/ session[l].phase = "closed" =>
                queue'[l] = queue[l] /\ lagged'[l] = lagged[l]
           /\ \A l \in Listeners : Home[l] = i /\ session[l].phase # "closed" =>
                \E m \in {0, 1} :
                  /\ DOMAIN queue[l] = 1 .. Len(queue[l]) /\ Len(queue[l]) \in Nat
                  /\ DOMAIN queue'[l] = 1 .. Len(queue[l]) - m + 1
                  /\ Len(queue[l]) - m \in Nat
                  /\ queue'[l][Len(queue[l]) - m + 1] = event
                  /\ \A n \in 1 .. Len(queue[l]) - m : queue'[l][n] = queue[l][n + m]
                  /\ lagged'[l] = (lagged[l] \/ m = 1)
<1> DEFINE receives(l) == Home[l] = i /\ session[l].phase # "closed"
           full(l) == Len(queue[l]) = Capacity
           base(l) == IF full(l) THEN Tail(queue[l]) ELSE queue[l]
<1>1. /\ queue' = [l \in Listeners |-> IF ~receives(l) THEN queue[l] ELSE Append(base(l), event)]
      /\ lagged' = [l \in Listeners |-> lagged[l] \/ (receives(l) /\ full(l))]
  BY DEF Broadcast
<1>2. ASSUME NEW l \in Listeners
      PROVE  /\ base(l) \in Seq(Event)
             /\ Append(base(l), event) \in Seq(Event) /\ Len(Append(base(l), event)) <= Capacity
             /\ \E m \in {0, 1} :
                  /\ DOMAIN queue[l] = 1 .. Len(queue[l]) /\ Len(queue[l]) \in Nat
                  /\ DOMAIN Append(base(l), event) = 1 .. Len(queue[l]) - m + 1
                  /\ Len(queue[l]) - m \in Nat
                  /\ Append(base(l), event)[Len(queue[l]) - m + 1] = event
                  /\ \A n \in 1 .. Len(queue[l]) - m : Append(base(l), event)[n] = queue[l][n + m]
                  /\ m = 1 <=> full(l)
  <2>0. queue[l] \in Seq(Event) /\ Len(queue[l]) \in Nat /\ Capacity \in Nat \ {0} /\ Len(queue[l]) <= Capacity
        /\ DOMAIN queue[l] = 1 .. Len(queue[l])
    BY LenProperties, WatchAssumption
  <2>1. \E m \in {0, 1} : /\ base(l) \in Seq(Event) /\ Len(base(l)) = Len(queue[l]) - m
                          /\ Len(queue[l]) - m \in Nat /\ Len(queue[l]) - m + 1 <= Capacity
                          /\ \A n \in 1 .. Len(queue[l]) - m : base(l)[n] = queue[l][n + m]
                          /\ m = 1 <=> full(l)
    <3>1. CASE full(l)
      <4>1. queue[l] # << >> /\ base(l) = Tail(queue[l])
        BY <2>0, <3>1, EmptySeq
      <4>2. /\ base(l) \in Seq(Event) /\ Len(base(l)) = Len(queue[l]) - 1
            /\ \A n \in 1 .. Len(base(l)) : base(l)[n] = queue[l][n + 1]
        BY <2>0, <4>1, HeadTailProperties
      <4> HIDE DEF base
      <4> QED BY <2>0, <3>1, <4>2
    <3>2. CASE ~full(l)
      <4>1. base(l) = queue[l]
        BY <3>2
      <4>2. Len(queue[l]) - 0 = Len(queue[l]) /\ \A n \in 1 .. Len(queue[l]) : n + 0 = n
        BY <2>0
      <4>3. Len(queue[l]) + 1 <= Capacity
        <5>1. Len(queue[l]) # Capacity
          BY <3>2
        <5>2. \A n, c \in Nat : n <= c /\ n # c => n + 1 <= c
          OBVIOUS
        <5> QED BY <2>0, <5>1, <5>2
      <4> HIDE DEF base, full
      <4>4. /\ base(l) \in Seq(Event) /\ Len(base(l)) = Len(queue[l]) - 0
            /\ Len(queue[l]) - 0 \in Nat /\ Len(queue[l]) - 0 + 1 <= Capacity
            /\ \A n \in 1 .. Len(queue[l]) - 0 : base(l)[n] = queue[l][n + 0]
        BY <2>0, <4>1, <4>2, <4>3
      <4> QED BY <3>2, <4>4
    <3> QED BY <3>1, <3>2
  <2>2. PICK m \in {0, 1} : /\ base(l) \in Seq(Event) /\ Len(base(l)) = Len(queue[l]) - m
                            /\ Len(queue[l]) - m \in Nat /\ Len(queue[l]) - m + 1 <= Capacity
                            /\ \A n \in 1 .. Len(queue[l]) - m : base(l)[n] = queue[l][n + m]
                            /\ m = 1 <=> full(l)
    BY <2>1
  <2> HIDE DEF base, full
  <2>3. /\ Append(base(l), event) \in Seq(Event) /\ Len(Append(base(l), event)) = Len(base(l)) + 1
        /\ \A n \in 1 .. Len(base(l)) : Append(base(l), event)[n] = base(l)[n]
        /\ Append(base(l), event)[Len(base(l)) + 1] = event
    BY <2>2, AppendProperties
  <2>4. DOMAIN Append(base(l), event) = 1 .. Len(queue[l]) - m + 1
    BY <2>2, <2>3, LenProperties
  <2> QED BY <2>0, <2>2, <2>3, <2>4
<1> HIDE DEF base, full
<1>3. queue' \in [Listeners -> Seq(Event)] /\ \A l \in Listeners : Len(queue'[l]) <= Capacity
  BY <1>1, <1>2
<1>4. lagged' \in [Listeners -> BOOLEAN]
  BY <1>1, Zenon
<1>5. \A l \in Listeners : ~receives(l) => queue'[l] = queue[l] /\ lagged'[l] = lagged[l]
  <2> SUFFICES ASSUME NEW l \in Listeners, ~receives(l) PROVE queue'[l] = queue[l] /\ lagged'[l] = lagged[l]
    OBVIOUS
  <2>1. queue'[l] = queue[l]
    BY <1>1
  <2>2. lagged[l] \in BOOLEAN /\ lagged'[l] = (lagged[l] \/ (receives(l) /\ full(l)))
    BY <1>1, Zenon
  <2> QED BY <2>1, <2>2
<1>6. ASSUME NEW l \in Listeners, receives(l)
      PROVE  \E m \in {0, 1} :
                  /\ DOMAIN queue[l] = 1 .. Len(queue[l]) /\ Len(queue[l]) \in Nat
                  /\ DOMAIN queue'[l] = 1 .. Len(queue[l]) - m + 1
                  /\ Len(queue[l]) - m \in Nat
                  /\ queue'[l][Len(queue[l]) - m + 1] = event
                  /\ \A n \in 1 .. Len(queue[l]) - m : queue'[l][n] = queue[l][n + m]
                  /\ lagged'[l] = (lagged[l] \/ m = 1)
  <2>1. queue'[l] = Append(base(l), event)
    BY <1>1, <1>6
  <2>2. lagged'[l] = (lagged[l] \/ full(l))
    BY <1>1, <1>6
  <2> QED BY <1>2, <2>1, <2>2
<1> QED BY <1>3, <1>4, <1>5, <1>6

\* What the hub of a process has heard of, and of what by an overtaken commit.
LEMMA HearsEffect ==
    ASSUME TypeOK, NEW i \in Instances, NEW event \in Event, NEW late \in SUBSET Docs,
           Broadcast(i, event, late)
    PROVE  /\ untold' \in [Instances -> SUBSET Docs] /\ overtaken' \in [Instances -> SUBSET Docs]
           /\ \A j \in Instances :
                /\ untold'[j] = IF j = i THEN untold[j] \ event.paths ELSE untold[j]
                /\ overtaken'[j] = IF j = i THEN (overtaken[j] \ event.paths) \cup late
                                   ELSE overtaken[j]
<1>1. /\ untold' = [untold EXCEPT ![i] = untold[i] \ event.paths]
      /\ overtaken' = [overtaken EXCEPT ![i] = (overtaken[i] \ event.paths) \cup late]
  BY DEF Broadcast, Hears
<1>2. untold \in [Instances -> SUBSET Docs] /\ overtaken \in [Instances -> SUBSET Docs]
  BY DEF TypeOK
<1>3. untold[i] \ event.paths \in SUBSET Docs /\ (overtaken[i] \ event.paths) \cup late \in SUBSET Docs
  BY <1>2
<1> QED BY <1>1, <1>2, <1>3

LEMMA PublishTypes ==
    ASSUME TypeOK, NEW i \in Instances, NEW k, PublishLocal(i, k)
    PROVE  TypeOK'
<1> DEFINE event == [paths |-> log[k].paths, after |-> log[k].after]
           late == Overtaken(i, k)
<1>1. /\ k \in 1 .. Len(log) /\ unpublished' = [unpublished EXCEPT ![i] = unpublished[i] \ {k}]
      /\ Broadcast(i, event, late) /\ UNCHANGED <<store, log, oldest, clock, tail, announced, session, view>>
  BY DEF PublishLocal, TypeOK, world
<1>2. event \in Event /\ late \in SUBSET Docs
  <2>1. log[k] \in Notice
    BY <1>1, ElementOfSeq DEF TypeOK
  <2> QED BY <2>1 DEF Notice, Event, Overtaken
<1>3. unpublished' \in [Instances -> SUBSET (1 .. Len(log))]
  BY <1>1 DEF TypeOK
<1> HIDE DEF event, late
<1>4. untold' \in [Instances -> SUBSET Docs] /\ overtaken' \in [Instances -> SUBSET Docs]
  BY <1>1, <1>2, HearsEffect
<1> QED BY <1>1, <1>2, <1>3, <1>4, BroadcastEffect DEF TypeOK

\* A fan-out task goes on.
LEMMA TailMoves ==
    ASSUME TypeOK, NEW i \in Instances, NEW c \in TailTask, tail' = [tail EXCEPT ![i] = c]
    PROVE  /\ tail' \in [Instances -> TailTask]
           /\ \A j \in Instances : tail'[j] = IF j = i THEN c ELSE tail[j]
BY DEF TypeOK

\* A change stream opens, behind the last event it had or at the end of the log.
LEMMA OpensEffect ==
    ASSUME TypeOK, NEW i \in Instances, TailOpens(i)
    PROVE  \E c \in TailTask :
                /\ tail' = [tail EXCEPT ![i] = c]
                /\ ~tail[i].open /\ c.open /\ c.started
                /\ c.next = IF tail[i].token = NoResume THEN Len(log) + 1 ELSE tail[i].token + 1
                /\ c.token = tail[i].token /\ c.busy = tail[i].busy /\ c.left = tail[i].left
                /\ c.event = tail[i].event
                /\ UNCHANGED <<world, unpublished, announced, hubs, session, view>>
<1>0. /\ tail[i] \in TailTask /\ tail \in [Instances -> TailTask] /\ Len(log) \in Nat
      /\ store \in [Docs -> RowOrMissing] /\ log \in Seq(Notice) /\ NoResume \notin Nat
  BY LenProperties, WatchAssumption DEF TypeOK
<1> DEFINE c == [tail[i] EXCEPT !.open = TRUE, !.started = TRUE,
                   !.next = IF tail[i].token = NoResume THEN Len(log) + 1 ELSE tail[i].token + 1]
<1>1. (IF tail[i].token = NoResume THEN Len(log) + 1 ELSE tail[i].token + 1) \in Nat \ {0}
  BY <1>0 DEF TailTask
<1>2. /\ c \in TailTask /\ c.open /\ c.started
      /\ c.next = IF tail[i].token = NoResume THEN Len(log) + 1 ELSE tail[i].token + 1
      /\ c.token = tail[i].token /\ c.busy = tail[i].busy /\ c.left = tail[i].left
      /\ c.event = tail[i].event
  BY <1>0, <1>1 DEF TailTask
<1>3. /\ tail' = [tail EXCEPT ![i] = c] /\ ~tail[i].open
      /\ UNCHANGED <<world, unpublished, announced, hubs, session, view>>
  BY DEF TailOpens
<1> HIDE DEF c
<1> QED BY <1>2, <1>3

\* A notice is taken: the paths of another process's are to be read, its own is dropped.
LEMMA TakesEffect ==
    ASSUME TypeOK, NEW i \in Instances, TailTakes(i)
    PROVE  \E c \in TailTask :
                /\ tail' = [tail EXCEPT ![i] = c]
                /\ tail[i].open /\ ~tail[i].busy /\ tail[i].next <= Len(log)
                /\ c.open = tail[i].open /\ c.started = tail[i].started
                /\ c.next = tail[i].next + 1 /\ c.token = tail[i].next
                /\ c.busy = (log[tail[i].next].inst # i)
                /\ c.left = (IF log[tail[i].next].inst # i THEN log[tail[i].next].paths ELSE {})
                /\ c.event = tail[i].event
                /\ announced' = IF log[tail[i].next].inst # i
                                THEN [announced EXCEPT ![i] = Append(announced[i], tail[i].next)]
                                ELSE announced
                /\ UNCHANGED <<world, unpublished, hubs, session, view>>
<1>0. /\ tail[i] \in TailTask /\ tail \in [Instances -> TailTask] /\ Len(log) \in Nat
      /\ store \in [Docs -> RowOrMissing] /\ log \in Seq(Notice) /\ NoResume \notin Nat
  BY LenProperties, WatchAssumption DEF TypeOK
<1> DEFINE notice == log[tail[i].next]
           foreign == notice.inst # i
           c == [tail[i] EXCEPT !.token = tail[i].next, !.next = tail[i].next + 1, !.busy = foreign,
                   !.left = IF foreign THEN notice.paths ELSE {}]
<1>a. /\ tail' = [tail EXCEPT ![i] = c] /\ tail[i].open /\ ~tail[i].busy /\ tail[i].next <= Len(log)
      /\ announced' = IF foreign THEN [announced EXCEPT ![i] = Append(announced[i], tail[i].next)]
                      ELSE announced
      /\ UNCHANGED <<world, unpublished, hubs, session, view>>
  BY DEF TailTakes
<1>1. tail[i].next \in Nat \ {0} /\ tail[i].next + 1 \in Nat \ {0}
  BY <1>0 DEF TailTask
<1>2. (IF foreign THEN notice.paths ELSE {}) \in SUBSET Docs /\ foreign \in BOOLEAN
  <2>1. notice \in Notice
    BY <1>0, <1>a, <1>1, ElementOfSeq
  <2> QED BY <2>1 DEF Notice
<1>3. /\ c \in TailTask /\ c.open = tail[i].open /\ c.started = tail[i].started
      /\ c.next = tail[i].next + 1 /\ c.token = tail[i].next
      /\ c.busy = foreign /\ c.left = (IF foreign THEN notice.paths ELSE {})
      /\ c.event = tail[i].event
  BY <1>0, <1>1, <1>2 DEF TailTask
<1> HIDE DEF c
<1> QED BY <1>a, <1>3

\* A path is read back, and its row joins the event.
LEMMA ReadsEffect ==
    ASSUME TypeOK, NEW i \in Instances, NEW d \in tail[i].left, RebuildReads(i, d)
    PROVE  \E c \in TailTask :
                /\ tail' = [tail EXCEPT ![i] = c]
                /\ c.open = tail[i].open /\ c.started = tail[i].started /\ c.next = tail[i].next
                /\ c.token = tail[i].token /\ c.busy = tail[i].busy /\ c.left = tail[i].left \ {d}
                /\ c.event = [paths |-> tail[i].event.paths \cup {d},
                              after |-> [tail[i].event.after EXCEPT ![d] = store[d]]]
                /\ UNCHANGED <<world, unpublished, announced, hubs, session, view>>
<1>0. /\ tail[i] \in TailTask /\ tail \in [Instances -> TailTask] /\ Len(log) \in Nat
      /\ store \in [Docs -> RowOrMissing] /\ log \in Seq(Notice) /\ NoResume \notin Nat
  BY LenProperties, WatchAssumption DEF TypeOK
<1> DEFINE e == [paths |-> tail[i].event.paths \cup {d},
                 after |-> [tail[i].event.after EXCEPT ![d] = store[d]]]
           c == [tail[i] EXCEPT !.left = tail[i].left \ {d}, !.event = e]
<1>1. d \in Docs /\ tail[i].event \in Event
  BY <1>0 DEF TailTask
<1>2. e \in Event
  BY <1>0, <1>1 DEF Event
<1>3. /\ tail' = [tail EXCEPT ![i] = c]
      /\ UNCHANGED <<world, unpublished, announced, hubs, session, view>>
  BY DEF RebuildReads
<1> HIDE DEF e
<1>4. /\ c \in TailTask /\ c.open = tail[i].open /\ c.started = tail[i].started
      /\ c.next = tail[i].next /\ c.token = tail[i].token /\ c.busy = tail[i].busy
      /\ c.left = tail[i].left \ {d} /\ c.event = e
  BY <1>0, <1>2 DEF TailTask
<1> HIDE DEF c
<1> QED BY <1>3, <1>4 DEF e

\* A path that cannot be read is left out of the event.
LEMMA SkipsEffect ==
    ASSUME TypeOK, NEW i \in Instances, NEW d \in tail[i].left, RebuildSkips(i, d)
    PROVE  \E c \in TailTask :
                /\ tail' = [tail EXCEPT ![i] = c] /\ "readFails" \in Faults
                /\ c.open = tail[i].open /\ c.started = tail[i].started /\ c.next = tail[i].next
                /\ c.token = tail[i].token /\ c.busy = tail[i].busy /\ c.left = tail[i].left \ {d}
                /\ c.event = tail[i].event
                /\ UNCHANGED <<world, unpublished, announced, hubs, session, view>>
<1>0. /\ tail[i] \in TailTask /\ tail \in [Instances -> TailTask] /\ Len(log) \in Nat
      /\ store \in [Docs -> RowOrMissing] /\ log \in Seq(Notice) /\ NoResume \notin Nat
  BY LenProperties, WatchAssumption DEF TypeOK
<1> DEFINE c == [tail[i] EXCEPT !.left = tail[i].left \ {d}]
<1>1. /\ tail' = [tail EXCEPT ![i] = c] /\ "readFails" \in Faults
      /\ UNCHANGED <<world, unpublished, announced, hubs, session, view>>
  BY <1>0 DEF RebuildSkips
<1>2. /\ c \in TailTask /\ c.open = tail[i].open /\ c.started = tail[i].started
      /\ c.next = tail[i].next /\ c.token = tail[i].token /\ c.busy = tail[i].busy
      /\ c.left = tail[i].left \ {d} /\ c.event = tail[i].event
  BY <1>0 DEF TailTask
<1> HIDE DEF c
<1> QED BY <1>1, <1>2

\* The event is complete, and broadcast unless it is empty.
LEMMA EndsEffect ==
    ASSUME TypeOK, NEW i \in Instances, RebuildEnds(i)
    PROVE  \E c \in TailTask :
                /\ tail' = [tail EXCEPT ![i] = c] /\ tail[i].left = {}
                /\ c.open = tail[i].open /\ c.started = tail[i].started /\ c.next = tail[i].next
                /\ c.token = tail[i].token /\ ~c.busy /\ c.left = tail[i].left /\ c.event = NoEvent
                /\ IF tail[i].event.paths # {} THEN Broadcast(i, tail[i].event, {}) ELSE UNCHANGED hubs
                /\ UNCHANGED <<world, unpublished, announced, session, view>>
<1>0. /\ tail[i] \in TailTask /\ tail \in [Instances -> TailTask] /\ Len(log) \in Nat
      /\ store \in [Docs -> RowOrMissing] /\ log \in Seq(Notice) /\ NoResume \notin Nat
  BY LenProperties, WatchAssumption DEF TypeOK
<1> DEFINE c == [tail[i] EXCEPT !.busy = FALSE, !.event = NoEvent]
<1>1. /\ tail' = [tail EXCEPT ![i] = c] /\ tail[i].left = {}
      /\ IF tail[i].event.paths # {} THEN Broadcast(i, tail[i].event, {}) ELSE UNCHANGED hubs
      /\ UNCHANGED <<world, unpublished, announced, session, view>>
  BY DEF RebuildEnds
<1>2. /\ c \in TailTask /\ c.open = tail[i].open /\ c.started = tail[i].started
      /\ c.next = tail[i].next /\ c.token = tail[i].token /\ ~c.busy
      /\ c.left = tail[i].left /\ c.event = NoEvent
  BY <1>0, RowsTyped DEF TailTask
<1> HIDE DEF c
<1> QED BY <1>1, <1>2

\* A change stream fails; where it was stays.
LEMMA FailsEffect ==
    ASSUME TypeOK, NEW i \in Instances, TailFails(i)
    PROVE  \E c \in TailTask :
                /\ tail' = [tail EXCEPT ![i] = c]
                /\ "earlyFailure" \in Faults \/ tail[i].token # NoResume
                /\ tail[i].open /\ ~tail[i].busy
                /\ ~c.open /\ c.started = tail[i].started /\ c.next = tail[i].next
                /\ c.token = tail[i].token /\ c.busy = tail[i].busy /\ c.left = tail[i].left
                /\ c.event = tail[i].event
                /\ UNCHANGED <<world, unpublished, announced, hubs, session, view>>
<1>0. /\ tail[i] \in TailTask /\ tail \in [Instances -> TailTask] /\ Len(log) \in Nat
      /\ store \in [Docs -> RowOrMissing] /\ log \in Seq(Notice) /\ NoResume \notin Nat
  BY LenProperties, WatchAssumption DEF TypeOK
<1> DEFINE c == [tail[i] EXCEPT !.open = FALSE]
<1>1. /\ tail' = [tail EXCEPT ![i] = c]
      /\ "earlyFailure" \in Faults \/ tail[i].token # NoResume
      /\ tail[i].open /\ ~tail[i].busy
      /\ UNCHANGED <<world, unpublished, announced, hubs, session, view>>
  BY <1>0 DEF TailFails
<1>2. /\ c \in TailTask /\ ~c.open /\ c.started = tail[i].started /\ c.next = tail[i].next
      /\ c.token = tail[i].token /\ c.busy = tail[i].busy /\ c.left = tail[i].left
      /\ c.event = tail[i].event
  BY <1>0 DEF TailTask
<1> HIDE DEF c
<1> QED BY <1>1, <1>2

LEMMA TailTypes ==
    ASSUME TypeOK, NEW i \in Instances, TailStep(i) \/ TailTakes(i) \/ TailFails(i)
    PROVE  TypeOK'
<1> DEFINE Typed == /\ tail' \in [Instances -> TailTask]
                    /\ announced' \in [Instances -> Seq(1 .. Len(log))]
                    /\ UNCHANGED <<world, unpublished, session, view>>
                    /\ UNCHANGED hubs \/ Broadcast(i, tail[i].event, {})
<1>0. announced \in [Instances -> Seq(1 .. Len(log))]
  BY DEF TypeOK
<1>1. ASSUME TailOpens(i) PROVE Typed
  BY <1>0, <1>1, OpensEffect, TailMoves
<1>2. ASSUME TailTakes(i) PROVE Typed
  <2>1. /\ tail[i].next <= Len(log) /\ UNCHANGED <<world, unpublished, hubs, session, view>>
        /\ announced' = announced \/ announced' = [announced EXCEPT ![i] = Append(announced[i], tail[i].next)]
    BY <1>2, TakesEffect
  <2>2. tail[i].next \in 1 .. Len(log)
    BY <2>1, LenProperties DEF TypeOK, TailTask
  <2>3. Append(announced[i], tail[i].next) \in Seq(1 .. Len(log))
    BY <1>0, <2>2, AppendProperties
  <2>4. announced' \in [Instances -> Seq(1 .. Len(log))]
    BY <1>0, <2>1, <2>3
  <2>5. tail' \in [Instances -> TailTask]
    BY <1>2, TakesEffect, TailMoves
  <2> QED BY <2>1, <2>4, <2>5
<1>3. ASSUME NEW d \in tail[i].left, RebuildReads(i, d) PROVE Typed
  BY <1>0, <1>3, ReadsEffect, TailMoves
<1>4. ASSUME NEW d \in tail[i].left, RebuildSkips(i, d) PROVE Typed
  BY <1>0, <1>4, SkipsEffect, TailMoves
<1>5. ASSUME RebuildEnds(i) PROVE Typed
  BY <1>0, <1>5, EndsEffect, TailMoves
<1>6. ASSUME TailFails(i) PROVE Typed
  BY <1>0, <1>6, FailsEffect, TailMoves
<1> HIDE DEF Typed
<1>7. Typed
  BY <1>1, <1>2, <1>3, <1>4, <1>5, <1>6 DEF TailStep
<1>8. /\ queue' \in [Listeners -> Seq(Event)] /\ \A l \in Listeners : Len(queue'[l]) <= Capacity
      /\ lagged' \in [Listeners -> BOOLEAN]
      /\ untold' \in [Instances -> SUBSET Docs] /\ overtaken' \in [Instances -> SUBSET Docs]
  <2>1. CASE UNCHANGED hubs
    BY <2>1 DEF hubs, TypeOK
  <2>2. CASE Broadcast(i, tail[i].event, {})
    <3>1. tail[i].event \in Event /\ {} \in SUBSET Docs
      BY DEF TypeOK, TailTask
    <3>2. untold' \in [Instances -> SUBSET Docs] /\ overtaken' \in [Instances -> SUBSET Docs]
      BY <2>2, <3>1, HearsEffect
    <3> QED BY <2>2, <3>1, <3>2, BroadcastEffect DEF TypeOK
  <2> QED BY <1>7, <2>1, <2>2 DEF Typed
<1> QED BY <1>7, <1>8 DEF TypeOK, world, Typed

\* A session goes on, and a client is sent something for a target.
LEMMA SessionMoves ==
    ASSUME TypeOK, NEW l \in Listeners, NEW c \in Session, session' = [session EXCEPT ![l] = c]
    PROVE  /\ session' \in [Listeners -> Session]
           /\ \A m \in Listeners : session'[m] = IF m = l THEN c ELSE session[m]
BY DEF TypeOK

LEMMA ViewMoves ==
    ASSUME TypeOK, NEW l \in Listeners, NEW t, NEW rows \in [Docs -> RowOrMissing],
           view' = [view EXCEPT ![l][t] = rows]
    PROVE  /\ view' \in [Listeners -> [Targets -> [Docs -> RowOrMissing]]]
           /\ \A m \in Listeners : \A u \in Targets :
                view'[m][u] = IF m = l /\ u = t THEN rows ELSE view[m][u]
<1>1. view \in [Listeners -> [Targets -> [Docs -> RowOrMissing]]]
  BY DEF TypeOK
<1> QED BY <1>1

\* What the forms of a session are.
LEMMA SessionForms ==
    ASSUME NEW s \in Session, NEW t \in {"documents", "query"}, NEW todo \in SUBSET Targets
    PROVE  /\ Turned(s) \in Session
           /\ Turned(s).phase = IF s.todo = {} THEN "idle" ELSE "resync"
           /\ Turned(s).targets = s.targets /\ Turned(s).todo = s.todo /\ Turned(s).event = s.event
           /\ Turned(s).target = "query" /\ Turned(s).left = {} /\ Turned(s).got = Nothing
           /\ Sending(s, t, todo) \in Session
           /\ Sending(s, t, todo).phase = "initial" /\ Sending(s, t, todo).target = t
           /\ Sending(s, t, todo).todo = todo /\ Sending(s, t, todo).targets = s.targets
           /\ Sending(s, t, todo).left = (IF t = "documents" THEN Watched ELSE {})
           /\ Sending(s, t, todo).got = Nothing
           /\ Shown(s, t) \in Session
           /\ Shown(s, t).todo = s.todo \ {t} /\ Shown(s, t).targets = s.targets
           /\ Shown(s, t).phase = IF s.todo = {t} THEN "idle" ELSE "event"
           /\ Shown(s, t).event = (IF s.todo = {t} THEN NoEvent ELSE s.event)
           /\ Shown(s, t).left = s.left /\ Shown(s, t).got = s.got
<1>1. Nothing \in [Docs -> RowOrMissing] /\ NoEvent \in Event /\ Watched \subseteq Docs
  BY RowsTyped, WatchAssumption
<1>2. /\ Turned(s) \in Session
      /\ Turned(s).phase = IF s.todo = {} THEN "idle" ELSE "resync"
      /\ Turned(s).targets = s.targets /\ Turned(s).todo = s.todo /\ Turned(s).event = s.event
      /\ Turned(s).target = "query" /\ Turned(s).left = {} /\ Turned(s).got = Nothing
  BY <1>1 DEF Turned, Session
<1>3. /\ Sending(s, t, todo) \in Session
      /\ Sending(s, t, todo).phase = "initial" /\ Sending(s, t, todo).target = t
      /\ Sending(s, t, todo).todo = todo /\ Sending(s, t, todo).targets = s.targets
      /\ Sending(s, t, todo).left = (IF t = "documents" THEN Watched ELSE {})
      /\ Sending(s, t, todo).got = Nothing
  BY <1>1 DEF Sending, Session
<1>4. /\ Shown(s, t) \in Session
      /\ Shown(s, t).todo = s.todo \ {t} /\ Shown(s, t).targets = s.targets
      /\ Shown(s, t).phase = IF s.todo = {t} THEN "idle" ELSE "event"
      /\ Shown(s, t).event = (IF s.todo = {t} THEN NoEvent ELSE s.event)
      /\ Shown(s, t).left = s.left /\ Shown(s, t).got = s.got
  BY <1>1 DEF Shown, Session
<1> QED BY <1>2, <1>3, <1>4

LEMMA SessionTypes ==
    ASSUME TypeOK, NEW l \in Listeners, SessionStep(l) \/ ClientStep(l)
    PROVE  TypeOK'
<1>0. /\ session[l] \in Session /\ session \in [Listeners -> Session]
      /\ queue[l] \in Seq(Event) /\ queue \in [Listeners -> Seq(Event)]
      /\ \A m \in Listeners : Len(queue[m]) <= Capacity
      /\ lagged \in [Listeners -> BOOLEAN]
      /\ store \in [Docs -> RowOrMissing]
      /\ view \in [Listeners -> [Targets -> [Docs -> RowOrMissing]]]
      /\ session[l].target \in {"documents", "query"} /\ session[l].targets \in SUBSET Targets
      /\ session[l].todo \in SUBSET Targets /\ Targets \subseteq {"documents", "query"}
  BY WatchAssumption DEF TypeOK, Session
<1> SUFFICES /\ session' \in [Listeners -> Session]
             /\ queue' \in [Listeners -> Seq(Event)]
             /\ \A m \in Listeners : Len(queue'[m]) <= Capacity
             /\ lagged' \in [Listeners -> BOOLEAN]
             /\ view' \in [Listeners -> [Targets -> [Docs -> RowOrMissing]]]
  <2>1. UNCHANGED <<store, log, oldest, clock, unpublished, tail, announced, untold, overtaken>>
    BY DEF SessionStep, ClientStep, ReadDocument, SendInitial, DenyTarget, StartResync, ResetTarget,
           TakeEvent, EventToDocuments, EventToQuery, Connect, AddTarget, RemoveTarget, HangUp, world, hubs
  <2> QED BY <2>1 DEF TypeOK
<1> DEFINE Typed == /\ session' \in [Listeners -> Session]
                    /\ queue' \in [Listeners -> Seq(Event)]
                    /\ \A m \in Listeners : Len(queue'[m]) <= Capacity
                    /\ lagged' \in [Listeners -> BOOLEAN]
                    /\ view' \in [Listeners -> [Targets -> [Docs -> RowOrMissing]]]
<1>a. ASSUME NEW c \in Session, session' = [session EXCEPT ![l] = c], UNCHANGED hubs,
             view' \in [Listeners -> [Targets -> [Docs -> RowOrMissing]]]
      PROVE  Typed
  BY <1>0, <1>a, SessionMoves DEF hubs
<1>1. ASSUME NEW d \in session[l].left, ReadDocument(l, d) PROVE Typed
  <2> DEFINE c == [session[l] EXCEPT !.left = session[l].left \ {d},
                     !.got = [session[l].got EXCEPT ![d] = store[d]]]
  <2>1. d \in Docs
    BY <1>0 DEF Session
  <2>2. [session[l].got EXCEPT ![d] = store[d]] \in [Docs -> RowOrMissing]
    BY <1>0, <2>1 DEF Session
  <2>3. c \in Session
    BY <1>0, <2>2 DEF Session
  <2>4. session' = [session EXCEPT ![l] = c] /\ UNCHANGED <<hubs, view>>
    BY <1>1 DEF ReadDocument
  <2> HIDE DEF c, Typed
  <2> QED BY <1>0, <1>a, <2>3, <2>4
<1>2. ASSUME SendInitial(l) PROVE Typed
  <2> DEFINE rows == IF session[l].target = "documents" THEN session[l].got ELSE QueryResult(store)
  <2>1. rows \in [Docs -> RowOrMissing]
    BY <1>0, RowsTyped DEF Session
  <2>2. /\ view' = [view EXCEPT ![l][session[l].target] = rows]
        /\ session' = [session EXCEPT ![l] = Turned(session[l])] /\ UNCHANGED hubs
    BY <1>2 DEF SendInitial
  <2>3. Turned(session[l]) \in Session
    BY <1>0, SessionForms
  <2> HIDE DEF rows, Typed
  <2> QED BY <1>a, <2>1, <2>2, <2>3, ViewMoves
<1>3. ASSUME DenyTarget(l) PROVE Typed
  <2> DEFINE s == [session[l] EXCEPT !.targets = session[l].targets \ {session[l].target}]
  <2>1. s \in Session
    BY <1>0 DEF Session
  <2>2. session' = [session EXCEPT ![l] = Turned(s)] /\ UNCHANGED <<hubs, view>>
    BY <1>3 DEF DenyTarget
  <2> HIDE DEF s, Typed
  <2>3. Turned(s) \in Session
    BY <1>0, <2>1, SessionForms
  <2> QED BY <1>0, <1>a, <2>2, <2>3
<1>4. ASSUME StartResync(l) PROVE Typed
  <2> DEFINE c == [session[l] EXCEPT !.todo = session[l].targets,
                     !.phase = IF session[l].targets = {} THEN "idle" ELSE "resync"]
  <2>1. c \in Session
    BY <1>0 DEF Session
  <2>2. session' = [session EXCEPT ![l] = c] /\ lagged' = [lagged EXCEPT ![l] = FALSE] /\ UNCHANGED <<queue, view>>
    BY <1>4 DEF StartResync
  <2>3. lagged' \in [Listeners -> BOOLEAN]
    BY <1>0, <2>2, Zenon
  <2> HIDE DEF c
  <2> QED BY <1>0, <2>1, <2>2, <2>3, SessionMoves
<1>5. ASSUME NEW t \in session[l].todo, ResetTarget(l, t) PROVE Typed
  <2>1. /\ view' = [view EXCEPT ![l][t] = Nothing] /\ UNCHANGED hubs
        /\ session' = [session EXCEPT ![l] = Sending(session[l], t, session[l].todo \ {t})]
    BY <1>5 DEF ResetTarget
  <2>2. t \in {"documents", "query"} /\ session[l].todo \ {t} \in SUBSET Targets
    BY <1>0
  <2>3. Sending(session[l], t, session[l].todo \ {t}) \in Session
    BY <1>0, <2>2, SessionForms
  <2> HIDE DEF Typed
  <2> QED BY <1>a, <2>1, <2>3, RowsTyped, ViewMoves
<1>6. ASSUME TakeEvent(l) PROVE Typed
  <2> DEFINE c == [session[l] EXCEPT !.phase = "event", !.event = Head(queue[l]), !.todo = session[l].targets]
  <2>1. /\ queue[l] # << >> /\ queue' = [queue EXCEPT ![l] = Tail(queue[l])] /\ UNCHANGED <<lagged, view>>
        /\ session' = session \/ session' = [session EXCEPT ![l] = c]
    BY <1>6 DEF TakeEvent
  <2>2. Head(queue[l]) \in Event /\ Tail(queue[l]) \in Seq(Event) /\ Len(Tail(queue[l])) = Len(queue[l]) - 1
    BY <1>0, <2>1, HeadTailProperties
  <2>3. c \in Session
    BY <1>0, <2>2 DEF Session
  <2> HIDE DEF c
  <2>4. session' \in [Listeners -> Session]
    BY <1>0, <2>1, <2>3, SessionMoves
  <2>5. queue' \in [Listeners -> Seq(Event)] /\ \A m \in Listeners : Len(queue'[m]) <= Capacity
    <3>1. queue' \in [Listeners -> Seq(Event)] /\ \A m \in Listeners : queue'[m] = IF m = l THEN Tail(queue[l]) ELSE queue[m]
      BY <1>0, <2>1, <2>2
    <3>2. Len(queue[l]) \in Nat /\ Capacity \in Nat /\ Len(queue[l]) <= Capacity
      BY <1>0, LenProperties, WatchAssumption
    <3>3. Len(Tail(queue[l])) <= Capacity
      BY <2>2, <3>2
    <3> QED BY <1>0, <3>1, <3>3
  <2> QED BY <1>0, <2>1, <2>4, <2>5
<1>7. ASSUME EventToDocuments(l) PROVE Typed
  <2> DEFINE rows == [d \in Docs |-> IF d \in session[l].event.paths \cap Watched
                                     THEN session[l].event.after[d] ELSE view[l]["documents"][d]]
  <2>1. /\ view' = [view EXCEPT ![l]["documents"] = rows] /\ UNCHANGED hubs
        /\ session' = [session EXCEPT ![l] = Shown(session[l], "documents")]
        /\ "documents" \in session[l].todo
    BY <1>7 DEF EventToDocuments
  <2>2. session[l].event.after \in [Docs -> RowOrMissing] /\ view[l]["documents"] \in [Docs -> RowOrMissing]
    BY <1>0, <2>1 DEF Session, Event
  <2>3. rows \in [Docs -> RowOrMissing]
    BY <2>2
  <2>4. Shown(session[l], "documents") \in Session
    BY <1>0, SessionForms
  <2> HIDE DEF rows, Typed
  <2> QED BY <1>a, <2>1, <2>3, <2>4, ViewMoves
<1>8. ASSUME EventToQuery(l) PROVE Typed
  <2> DEFINE rows == Diffed(view[l]["query"], QueryResult(store))
  <2>1. /\ view' = view \/ view' = [view EXCEPT ![l]["query"] = rows]
        /\ UNCHANGED hubs
        /\ session' = [session EXCEPT ![l] = Shown(session[l], "query")]
        /\ "query" \in session[l].todo
    BY <1>8 DEF EventToQuery
  <2>2. QueryResult(store) \in [Docs -> RowOrMissing] /\ view[l]["query"] \in [Docs -> RowOrMissing]
    BY <1>0, <2>1, RowsTyped
  <2>3. rows \in [Docs -> RowOrMissing]
    BY <2>2 DEF Diffed
  <2>4. Shown(session[l], "query") \in Session
    BY <1>0, SessionForms
  <2>5. UNCHANGED hubs
    BY <1>8 DEF EventToQuery
  <2> HIDE DEF rows, Typed
  <2>6. view' \in [Listeners -> [Targets -> [Docs -> RowOrMissing]]]
    BY <1>0, <2>1, <2>3, ViewMoves
  <2> QED BY <1>a, <2>1, <2>4, <2>5, <2>6
<1>9. ASSUME Connect(l) \/ HangUp(l) PROVE Typed
  <2>1. /\ session' = [session EXCEPT ![l] = Idle]
             \/ session' = [session EXCEPT ![l] = [Idle EXCEPT !.phase = "closed"]]
        /\ queue' = [queue EXCEPT ![l] = << >>] /\ lagged' = [lagged EXCEPT ![l] = FALSE]
        /\ view' = view \/ view' = [view EXCEPT ![l] = [t \in Targets |-> Nothing]]
    BY <1>9 DEF Connect, HangUp
  <2>2. session' \in [Listeners -> Session]
    BY <1>0, <2>1, RowsTyped
  <2>3. lagged' \in [Listeners -> BOOLEAN]
    BY <1>0, <2>1, Zenon
  <2>4. view' \in [Listeners -> [Targets -> [Docs -> RowOrMissing]]]
    <3>1. [t \in Targets |-> Nothing] \in [Targets -> [Docs -> RowOrMissing]]
      BY RowsTyped
    <3> QED BY <1>0, <2>1, <3>1
  <2>5. << >> \in Seq(Event) /\ Len(<< >>) = 0
    BY EmptySeq
  <2>6. queue' \in [Listeners -> Seq(Event)] /\ \A m \in Listeners : queue'[m] = IF m = l THEN << >> ELSE queue[m]
    BY <1>0, <2>1, <2>5
  <2>7. \A m \in Listeners : Len(queue'[m]) <= Capacity
    BY <1>0, <2>5, <2>6, WatchAssumption
  <2> QED BY <2>2, <2>3, <2>4, <2>6, <2>7
<1>10. ASSUME NEW t \in Targets, AddTarget(l, t) PROVE Typed
  <2> DEFINE s == [session[l] EXCEPT !.targets = session[l].targets \cup {t}]
  <2>1. s \in Session /\ t \in {"documents", "query"} /\ {} \in SUBSET Targets
    BY <1>0 DEF Session
  <2>2. /\ session' = [session EXCEPT ![l] = Sending(s, t, {})] /\ UNCHANGED hubs
        /\ view' = [view EXCEPT ![l][t] = Nothing]
    BY <1>10 DEF AddTarget
  <2> HIDE DEF s, Typed
  <2>3. Sending(s, t, {}) \in Session
    BY <2>1, SessionForms
  <2> QED BY <1>a, <2>2, <2>3, RowsTyped, ViewMoves
<1>11. ASSUME NEW t \in Targets, RemoveTarget(l, t) PROVE Typed
  <2> DEFINE s == [session[l] EXCEPT !.targets = session[l].targets \ {t}]
  <2>1. s \in Session
    BY <1>0 DEF Session
  <2>2. session' = [session EXCEPT ![l] = s] /\ UNCHANGED <<hubs, view>>
    BY <1>0, <1>11 DEF RemoveTarget
  <2> HIDE DEF s, Typed
  <2> QED BY <1>0, <1>a, <2>1, <2>2
<1> HIDE DEF Typed
<1>12. Typed
  BY <1>1, <1>2, <1>3, <1>4, <1>5, <1>6, <1>7, <1>8, <1>9, <1>10, <1>11 DEF SessionStep, ClientStep
<1> QED BY <1>12 DEF Typed

LEMMA TypeStep ==
    ASSUME TypeOK, [Next]_vars
    PROVE  TypeOK'
<1>1. CASE UNCHANGED vars
  BY <1>1 DEF vars, world, hubs, TypeOK
<1>2. CASE OplogTrims
  <2>1. oldest' = Len(log) + 1 /\ UNCHANGED <<store, log, clock, unpublished, tail, announced, hubs, session, view>>
    BY <1>2 DEF OplogTrims
  <2>2. oldest' \in Nat
    BY <2>1, LenProperties DEF TypeOK
  <2> QED BY <2>1, <2>2 DEF TypeOK, hubs
<1>3. ASSUME NEW i \in Writers, NEW caller \in Callers, NEW paths \in (SUBSET Docs) \ {{}}, NEW kept \in SUBSET paths,
             NEW matching \in SUBSET (kept \cap Collection), Commit(i, caller, paths, kept, matching)
      PROVE  TypeOK'
  BY <1>3, CommitTypes
<1>4. ASSUME NEW i \in Instances, NEW k \in unpublished[i], PublishLocal(i, k)
      PROVE  TypeOK'
  BY <1>4, PublishTypes
<1>5. \A i \in Serving : i \in Instances
  BY WatchAssumption DEF Serving
<1>6. ASSUME NEW i \in Serving, TailStep(i) \/ TailTakes(i) \/ TailFails(i)
      PROVE  TypeOK'
  BY <1>5, <1>6, TailTypes
<1>7. ASSUME NEW l \in Listeners, SessionStep(l) \/ ClientStep(l)
      PROVE  TypeOK'
  BY <1>7, SessionTypes
<1> QED BY <1>1, <1>2, <1>3, <1>4, <1>6, <1>7 DEF Next

\* Whatever fails and is lost, every variable keeps its type, and no receiver holds
\* more events than the channel has slots.
THEOREM TypeCorrect == Spec => []TypeOK
<1>1. Init => TypeOK
  BY TypeInitial
<1>2. TypeOK /\ [Next]_vars => TypeOK'
  BY TypeStep
<1> QED BY <1>1, <1>2, PTL DEF Spec

-----------------------------------------------------------------------------
(* The fan-out tasks.                                                      *)

\* A fan-out task that reads nothing back holds nothing; one with a resume token
\* goes on right behind it, and has acted on nothing beyond it.
TailInv ==
    \A i \in Instances :
        /\ tail[i].next \in 1 .. Len(log) + 1
        /\ ~tail[i].busy => tail[i].left = {} /\ tail[i].event.paths = {}
        /\ tail[i].open => tail[i].started
        /\ tail[i].token # NoResume => tail[i].started /\ tail[i].next = tail[i].token + 1
        /\ \A a \in DOMAIN announced[i] :
             tail[i].token # NoResume /\ announced[i][a] <= tail[i].token

\* Once a change stream has opened it has a resume token or is still open.
SteadyTail ==
    \A i \in Instances : tail[i].started /\ tail[i].token = NoResume => tail[i].open

\* A commit changes no task, and a session, the hub and the oplog neither task nor log.
LEMMA TailsElsewhere ==
    ASSUME Next
    PROVE  \/ UNCHANGED <<log, tail, announced>>
           \/ \E i \in Writers, caller \in Callers, paths \in (SUBSET Docs) \ {{}} : \E kept \in SUBSET paths :
                \E matching \in SUBSET (kept \cap Collection) : Commit(i, caller, paths, kept, matching)
           \/ \E i \in Instances : TailStep(i) \/ TailTakes(i) \/ TailFails(i)
<1>1. ASSUME NEW i \in Instances, NEW k \in unpublished[i], PublishLocal(i, k)
      PROVE  UNCHANGED <<log, tail, announced>>
  BY <1>1 DEF PublishLocal, world
<1>2. CASE OplogTrims
  BY <1>2 DEF OplogTrims
<1>3. ASSUME NEW l \in Listeners, SessionStep(l) \/ ClientStep(l)
      PROVE  UNCHANGED <<log, tail, announced>>
  BY <1>3 DEF SessionStep, ClientStep, ReadDocument, SendInitial, DenyTarget, StartResync, ResetTarget,
              TakeEvent, EventToDocuments, EventToQuery, Connect, AddTarget, RemoveTarget, HangUp, world
<1>4. \A i \in Serving : i \in Instances
  BY WatchAssumption DEF Serving
<1> QED BY <1>1, <1>2, <1>3, <1>4 DEF Next

\* The tasks stay as they are and the log grows by at most one commit.
LEMMA CommitLeavesTails ==
    ASSUME TypeOK, TailInv, NoticesOnceInOrder, NEW i \in Writers, NEW caller \in Callers, NEW paths \in SUBSET Docs,
           NEW kept \in SUBSET paths, NEW matching, Commit(i, caller, paths, kept, matching)
    PROVE  /\ TailInv' /\ NoticesOnceInOrder' /\ UNCHANGED <<tail, announced>>
           /\ Len(log') = Len(log) + 1 /\ Len(log) \in Nat
           /\ \A k \in 1 .. Len(log) : log'[k] = log[k]
           /\ log'[Len(log) + 1].inst = i /\ log'[Len(log) + 1].paths = paths
           /\ \A d \in paths : log'[Len(log) + 1].after[d] = store'[d]
<1>2. /\ Len(log') = Len(log) + 1 /\ Len(log) \in Nat
      /\ \A k \in 1 .. Len(log) : log'[k] = log[k]
      /\ log'[Len(log) + 1].inst = i /\ log'[Len(log) + 1].paths = paths
      /\ \A d \in paths : log'[Len(log) + 1].after[d] = store'[d]
  BY CommitEffect
<1>3. UNCHANGED <<tail, announced>>
  BY DEF Commit
<1>4. TailInv'
  <2>1. \A k \in 1 .. Len(log) + 1 : k \in 1 .. Len(log') + 1
    BY <1>2
  <2> QED BY <1>3, <2>1 DEF TailInv
<1>5. NoticesOnceInOrder'
  <2>1. \A j \in Instances : \A a \in DOMAIN announced[j] : log'[announced[j][a]] = log[announced[j][a]]
    <3> SUFFICES ASSUME NEW j \in Instances, NEW a \in DOMAIN announced[j]
                 PROVE  announced[j][a] \in 1 .. Len(log)
      BY <1>2
    <3>1. announced[j] \in Seq(1 .. Len(log))
      BY DEF TypeOK
    <3> QED BY <3>1, ElementOfSeq, LenProperties
  <2> QED BY <1>3, <2>1 DEF NoticesOnceInOrder
<1> QED BY <1>2, <1>3, <1>4, <1>5

LEMMA TailStepKeeps ==
    ASSUME TypeOK, TailInv, NoticesOnceInOrder, NEW i \in Instances,
           TailStep(i) \/ TailTakes(i) \/ TailFails(i)
    PROVE  TailInv' /\ NoticesOnceInOrder'
<1>0. /\ tail[i] \in TailTask /\ Len(log) \in Nat /\ NoResume \notin Nat
      /\ announced \in [Instances -> Seq(1 .. Len(log))]
      /\ tail[i].next \in Nat \ {0} /\ tail[i].token \in (Nat \ {0}) \cup {NoResume}
  BY LenProperties, WatchAssumption DEF TypeOK, TailTask
<1>a. \A a \in DOMAIN announced[i] : announced[i][a] \in Nat
  <2>1. announced[i] \in Seq(1 .. Len(log))
    BY <1>0
  <2> QED BY <2>1, ElementOfSeq, LenProperties
<1>1. ASSUME NEW c \in TailTask, tail' = [tail EXCEPT ![i] = c], UNCHANGED <<log, announced>>,
             c.next \in 1 .. Len(log) + 1, ~c.busy => c.left = {} /\ c.event.paths = {},
             c.open => c.started, c.token = tail[i].token,
             c.token # NoResume => c.started /\ c.next = c.token + 1
      PROVE  TailInv' /\ NoticesOnceInOrder'
  <2>1. \A j \in Instances : tail'[j] = IF j = i THEN c ELSE tail[j]
    BY <1>1, TailMoves
  <2>2. TailInv'
    BY <1>1, <2>1 DEF TailInv
  <2> QED BY <1>1, <2>2 DEF NoticesOnceInOrder
<1>2. /\ tail[i].next \in 1 .. Len(log) + 1 /\ (tail[i].open => tail[i].started)
      /\ ~tail[i].busy => tail[i].left = {} /\ tail[i].event.paths = {}
      /\ tail[i].token # NoResume => tail[i].started /\ tail[i].next = tail[i].token + 1
      /\ \A a \in DOMAIN announced[i] :
             tail[i].token # NoResume /\ announced[i][a] <= tail[i].token
  BY DEF TailInv
<1>3. ASSUME TailOpens(i) PROVE TailInv' /\ NoticesOnceInOrder'
  <2>1. PICK c \in TailTask :
          /\ tail' = [tail EXCEPT ![i] = c] /\ c.open /\ c.started
          /\ c.next = IF tail[i].token = NoResume THEN Len(log) + 1 ELSE tail[i].token + 1
          /\ c.token = tail[i].token /\ c.busy = tail[i].busy /\ c.left = tail[i].left
          /\ c.event = tail[i].event /\ UNCHANGED <<log, announced>>
    BY <1>3, OpensEffect DEF world
  <2>2. c.next \in 1 .. Len(log) + 1 /\ (c.token # NoResume => c.started /\ c.next = c.token + 1)
    BY <1>0, <1>2, <2>1
  <2> QED BY <1>1, <1>2, <2>1, <2>2
<1>4. ASSUME TailTakes(i) PROVE TailInv' /\ NoticesOnceInOrder'
  <2> DEFINE n == tail[i].next
  <2>1. PICK c \in TailTask :
          /\ tail' = [tail EXCEPT ![i] = c] /\ tail[i].open /\ ~tail[i].busy /\ n <= Len(log)
          /\ c.open = tail[i].open /\ c.started = tail[i].started
          /\ c.next = n + 1 /\ c.token = n /\ c.busy = (log[n].inst # i)
          /\ c.left = (IF log[n].inst # i THEN log[n].paths ELSE {})
          /\ c.event = tail[i].event
          /\ announced' = IF log[n].inst # i THEN [announced EXCEPT ![i] = Append(announced[i], n)]
                          ELSE announced
          /\ UNCHANGED log
    BY <1>4, TakesEffect DEF world
  <2>2. \A j \in Instances : tail'[j] = IF j = i THEN c ELSE tail[j]
    BY <2>1, TailMoves
  <2>3. /\ c.next \in 1 .. Len(log) + 1 /\ (~c.busy => c.left = {} /\ c.event.paths = {})
        /\ c.open /\ c.started /\ c.token # NoResume /\ c.next = c.token + 1
    <3>1. n + 1 \in 1 .. Len(log) + 1 /\ n # NoResume
      BY <1>0, <2>1
    <3>2. ~c.busy => c.left = {} /\ c.event.paths = {}
      BY <1>2, <2>1
    <3> QED BY <1>2, <2>1, <3>1, <3>2
  <2>4. \A a \in DOMAIN announced[i] : announced[i][a] < n
    <3> SUFFICES ASSUME NEW a \in DOMAIN announced[i] PROVE announced[i][a] < n
      OBVIOUS
    <3>1. tail[i].token # NoResume /\ announced[i][a] <= tail[i].token /\ n = tail[i].token + 1
      BY <1>2
    <3> QED BY <1>0, <1>a, <3>1
  <2> HIDE DEF n
  <2>5. CASE log[n].inst = i
    <3>1. announced' = announced
      BY <2>1, <2>5
    <3>2. \A a \in DOMAIN announced[i] : announced[i][a] <= c.token
      BY <1>0, <1>a, <2>1, <2>4 DEF n
    <3>3. TailInv'
      BY <2>1, <2>2, <2>3, <3>1, <3>2 DEF TailInv
    <3> QED BY <2>1, <3>1, <3>3 DEF NoticesOnceInOrder
  <2>6. CASE log[n].inst # i
    <3>1. announced' = [announced EXCEPT ![i] = Append(announced[i], n)]
      BY <2>1, <2>6
    <3>2. n \in 1 .. Len(log) /\ announced[i] \in Seq(1 .. Len(log))
      BY <1>0, <2>1 DEF n
    <3>3. /\ Len(announced[i]) \in Nat /\ DOMAIN announced[i] = 1 .. Len(announced[i])
          /\ DOMAIN Append(announced[i], n) = 1 .. Len(announced[i]) + 1
          /\ Append(announced[i], n)[Len(announced[i]) + 1] = n
          /\ \A a \in 1 .. Len(announced[i]) : Append(announced[i], n)[a] = announced[i][a]
      BY <3>2, AppendProperties, LenProperties
    <3>4. \A j \in Instances : announced'[j] = IF j = i THEN Append(announced[i], n) ELSE announced[j]
      BY <1>0, <3>1
    <3> DEFINE longer == Append(announced[i], n)
    <3> HIDE DEF longer
    <3>5. \A a \in DOMAIN longer : longer[a] <= n /\ (a # Len(announced[i]) + 1 => longer[a] < n)
      <4> SUFFICES ASSUME NEW a \in DOMAIN longer
                   PROVE  longer[a] <= n /\ (a # Len(announced[i]) + 1 => longer[a] < n)
        OBVIOUS
      <4>1. CASE a = Len(announced[i]) + 1
        BY <3>2, <3>3, <4>1 DEF longer
      <4>2. CASE a # Len(announced[i]) + 1
        <5>1. a \in 1 .. Len(announced[i]) /\ longer[a] = announced[i][a]
          BY <3>3, <4>2 DEF longer
        <5>2. announced[i][a] < n /\ announced[i][a] \in Nat
          BY <1>a, <2>4, <3>3, <5>1
        <5> QED BY <3>2, <5>1, <5>2
      <4> QED BY <4>1, <4>2
    <3>6. TailInv'
      <4> SUFFICES ASSUME NEW j \in Instances
                   PROVE  /\ tail'[j].next \in 1 .. Len(log) + 1
                          /\ ~tail'[j].busy => tail'[j].left = {} /\ tail'[j].event.paths = {}
                          /\ tail'[j].open => tail'[j].started
                          /\ tail'[j].token # NoResume => tail'[j].started /\ tail'[j].next = tail'[j].token + 1
                          /\ \A a \in DOMAIN announced'[j] :
                               tail'[j].token # NoResume /\ announced'[j][a] <= tail'[j].token
        BY <2>1 DEF TailInv
      <4>1. CASE j = i
        BY <2>1, <2>2, <2>3, <3>4, <3>5, <4>1 DEF longer
      <4>2. CASE j # i
        BY <2>2, <3>4, <4>2 DEF TailInv
      <4> QED BY <4>1, <4>2
    <3>7. NoticesOnceInOrder'
      <4> SUFFICES ASSUME NEW j \in Instances
                   PROVE  /\ \A a, b \in DOMAIN announced'[j] : a < b => announced'[j][a] < announced'[j][b]
                          /\ \A a \in DOMAIN announced'[j] : log[announced'[j][a]].inst # j
        BY <2>1 DEF NoticesOnceInOrder
      <4>1. CASE j = i
        <5>1. announced'[i] = longer
          BY <3>4 DEF longer
        <5>2. DOMAIN longer = 1 .. Len(announced[i]) + 1 /\ longer[Len(announced[i]) + 1] = n
              /\ \A a \in 1 .. Len(announced[i]) : longer[a] = announced[i][a]
          BY <3>3 DEF longer
        <5>3. ASSUME NEW a \in DOMAIN longer, NEW b \in DOMAIN longer, a < b PROVE longer[a] < longer[b]
          <6>1. a \in 1 .. Len(announced[i]) /\ a # Len(announced[i]) + 1
            BY <3>3, <5>2, <5>3
          <6>2. CASE b = Len(announced[i]) + 1
            BY <3>5, <5>2, <6>1, <6>2
          <6>3. CASE b # Len(announced[i]) + 1
            <7>1. b \in 1 .. Len(announced[i])
              BY <3>3, <5>2, <6>3
            <7>2. a \in DOMAIN announced[i] /\ b \in DOMAIN announced[i]
              BY <3>3, <6>1, <7>1
            <7>3. announced[i][a] < announced[i][b]
              BY <5>3, <7>2 DEF NoticesOnceInOrder
            <7> QED BY <5>2, <6>1, <7>1, <7>3
          <6> QED BY <6>2, <6>3
        <5>4. ASSUME NEW a \in DOMAIN longer PROVE log[longer[a]].inst # i
          <6>1. CASE a = Len(announced[i]) + 1
            BY <2>6, <5>2, <6>1
          <6>2. CASE a # Len(announced[i]) + 1
            <7>1. a \in 1 .. Len(announced[i]) /\ a \in DOMAIN announced[i]
              BY <3>3, <5>2, <6>2
            <7> QED BY <5>2, <7>1 DEF NoticesOnceInOrder
          <6> QED BY <6>1, <6>2
        <5> QED BY <4>1, <5>1, <5>3, <5>4
      <4>2. CASE j # i
        BY <3>4, <4>2 DEF NoticesOnceInOrder
      <4> QED BY <4>1, <4>2
    <3> QED BY <3>6, <3>7
  <2> QED BY <2>5, <2>6
<1>5. ASSUME NEW d \in tail[i].left, RebuildReads(i, d) PROVE TailInv' /\ NoticesOnceInOrder'
  <2>1. tail[i].busy
    BY <1>2
  <2>2. PICK c \in TailTask :
          /\ tail' = [tail EXCEPT ![i] = c]
          /\ c.open = tail[i].open /\ c.started = tail[i].started /\ c.next = tail[i].next
          /\ c.token = tail[i].token /\ c.busy = tail[i].busy
          /\ UNCHANGED <<log, announced>>
    BY <1>5, ReadsEffect DEF world
  <2> QED BY <1>1, <1>2, <2>1, <2>2
<1>6. ASSUME NEW d \in tail[i].left, RebuildSkips(i, d) PROVE TailInv' /\ NoticesOnceInOrder'
  <2>1. tail[i].busy
    BY <1>2
  <2>2. PICK c \in TailTask :
          /\ tail' = [tail EXCEPT ![i] = c]
          /\ c.open = tail[i].open /\ c.started = tail[i].started /\ c.next = tail[i].next
          /\ c.token = tail[i].token /\ c.busy = tail[i].busy
          /\ UNCHANGED <<log, announced>>
    BY <1>6, SkipsEffect DEF world
  <2> QED BY <1>1, <1>2, <2>1, <2>2
<1>7. ASSUME RebuildEnds(i) PROVE TailInv' /\ NoticesOnceInOrder'
  <2>1. PICK c \in TailTask :
          /\ tail' = [tail EXCEPT ![i] = c] /\ tail[i].left = {}
          /\ c.open = tail[i].open /\ c.started = tail[i].started /\ c.next = tail[i].next
          /\ c.token = tail[i].token /\ c.left = tail[i].left /\ c.event = NoEvent
          /\ UNCHANGED <<log, announced>>
    BY <1>7, EndsEffect DEF world
  <2>2. c.left = {} /\ c.event.paths = {}
    BY <2>1 DEF NoEvent
  <2> QED BY <1>1, <1>2, <2>1, <2>2
<1>8. ASSUME TailFails(i) PROVE TailInv' /\ NoticesOnceInOrder'
  <2>1. PICK c \in TailTask :
          /\ tail' = [tail EXCEPT ![i] = c]
          /\ ~c.open /\ c.started = tail[i].started /\ c.next = tail[i].next
          /\ c.token = tail[i].token /\ c.busy = tail[i].busy /\ c.left = tail[i].left
          /\ c.event = tail[i].event
          /\ UNCHANGED <<log, announced>>
    BY <1>8, FailsEffect DEF world
  <2> QED BY <1>1, <1>2, <2>1
<1> QED BY <1>3, <1>4, <1>5, <1>6, <1>7, <1>8 DEF TailStep

NoticesInv == TypeOK /\ TailInv /\ NoticesOnceInOrder

LEMMA NoticesStep ==
    ASSUME NoticesInv, [Next]_vars
    PROVE  NoticesInv'
<1>1. TypeOK'
  BY TypeStep DEF NoticesInv
<1>2. CASE UNCHANGED <<log, tail, announced>>
  BY <1>1, <1>2 DEF NoticesInv, TailInv, NoticesOnceInOrder
<1>3. ASSUME NEW i \in Writers, NEW caller \in Callers, NEW paths \in (SUBSET Docs) \ {{}}, NEW kept \in SUBSET paths,
             NEW matching \in SUBSET (kept \cap Collection), Commit(i, caller, paths, kept, matching)
      PROVE  NoticesInv'
  BY <1>1, <1>3, CommitLeavesTails DEF NoticesInv
<1>4. ASSUME NEW i \in Instances, TailStep(i) \/ TailTakes(i) \/ TailFails(i)
      PROVE  NoticesInv'
  BY <1>1, <1>4, TailStepKeeps DEF NoticesInv
<1>5. UNCHANGED vars => UNCHANGED <<log, tail, announced>>
  BY DEF vars, world
<1> QED BY <1>2, <1>3, <1>4, <1>5, TailsElsewhere

LEMMA NoticesInvariant == Spec => []NoticesInv
<1>1. Init => NoticesInv
  <2> SUFFICES ASSUME Init PROVE NoticesInv
    OBVIOUS
  <2>1. TypeOK /\ Len(log) = 0 /\ \A i \in Instances : announced[i] = << >> /\ DOMAIN announced[i] = {}
    BY TypeInitial DEF Init
  <2>2. TailInv
    BY <2>1 DEF Init, TailInv, NoEvent
  <2> QED BY <2>1, <2>2 DEF NoticesInv, NoticesOnceInOrder
<1>2. NoticesInv /\ [Next]_vars => NoticesInv'
  BY NoticesStep
<1> QED BY <1>1, <1>2, PTL DEF Spec

\* A fan-out task acts on each commit of the other processes at most once and in
\* commit order, and on none of its own, whatever becomes of its change stream.
THEOREM EachNoticeOnce == Spec => []NoticesOnceInOrder
<1>1. NoticesInv => NoticesOnceInOrder
  BY DEF NoticesInv
<1> QED BY <1>1, NoticesInvariant, PTL

LEMMA SteadyStep ==
    ASSUME TypeOK, SteadyTail, "earlyFailure" \notin Faults, [Next]_vars
    PROVE  SteadyTail'
<1>1. CASE UNCHANGED tail
  BY <1>1 DEF SteadyTail
<1>2. ASSUME NEW i \in Instances, NEW c \in TailTask, tail' = [tail EXCEPT ![i] = c],
             c.started /\ c.token = NoResume => c.open
      PROVE  SteadyTail'
  BY <1>2, TailMoves DEF SteadyTail
<1>3. ASSUME NEW i \in Instances, TailStep(i) \/ TailTakes(i) \/ TailFails(i)
      PROVE  SteadyTail'
  <2>0. tail[i].started /\ tail[i].token = NoResume => tail[i].open
    BY DEF SteadyTail
  <2>1. CASE TailOpens(i)
    BY <1>2, <2>1, OpensEffect
  <2>2. CASE TailTakes(i)
    BY <1>2, <2>0, <2>2, TakesEffect
  <2>3. ASSUME NEW d \in tail[i].left, RebuildReads(i, d) PROVE SteadyTail'
    BY <1>2, <2>0, <2>3, ReadsEffect
  <2>4. ASSUME NEW d \in tail[i].left, RebuildSkips(i, d) PROVE SteadyTail'
    BY <1>2, <2>0, <2>4, SkipsEffect
  <2>5. CASE RebuildEnds(i)
    BY <1>2, <2>0, <2>5, EndsEffect
  <2>6. CASE TailFails(i)
    BY <1>2, <2>6, FailsEffect
  <2> QED BY <1>3, <2>1, <2>2, <2>3, <2>4, <2>5, <2>6 DEF TailStep
<1>4. ASSUME NEW i \in Writers, NEW caller \in Callers, NEW paths \in (SUBSET Docs) \ {{}}, NEW kept \in SUBSET paths,
             NEW matching \in SUBSET (kept \cap Collection), Commit(i, caller, paths, kept, matching)
      PROVE  SteadyTail'
  BY <1>1, <1>4 DEF Commit
<1>5. UNCHANGED vars => UNCHANGED tail
  BY DEF vars
<1> QED BY <1>1, <1>3, <1>4, <1>5, TailsElsewhere

LEMMA SteadyInvariant ==
    ASSUME "earlyFailure" \notin Faults
    PROVE  Spec => []SteadyTail
<1>1. Init => SteadyTail
  BY DEF Init, SteadyTail
<1>2. TypeOK /\ SteadyTail /\ [Next]_vars => SteadyTail'
  BY SteadyStep
<1> QED BY <1>1, <1>2, TypeCorrect, PTL DEF Spec

\* What a step passes over, it acts on.
LEMMA NothingPassed ==
    ASSUME TypeOK, TailInv, SteadyTail, [Next]_vars
    PROVE  \A i \in Instances :
             tail[i].started =>
                \A k \in tail[i].next .. tail'[i].next - 1 :
                    log'[k].inst # i => announced'[i] = Append(announced[i], k)
<1> DEFINE Passes(i) == tail[i].started =>
                          \A k \in tail[i].next .. tail'[i].next - 1 :
                              log'[k].inst # i => announced'[i] = Append(announced[i], k)
<1>0. \A i \in Instances : tail[i].next \in Nat \ {0} /\ Len(log) \in Nat
  BY LenProperties DEF TypeOK, TailTask
<1>1. ASSUME NEW i \in Instances, tail'[i].next = tail[i].next PROVE Passes(i)
  BY <1>0, <1>1
<1>2. CASE UNCHANGED tail
  BY <1>1, <1>2
<1>3. ASSUME NEW i \in Instances, NEW j \in Instances, TailStep(i) \/ TailTakes(i) \/ TailFails(i)
      PROVE  Passes(j)
  <2> HIDE DEF Passes
  <2>a. ASSUME NEW c \in TailTask, tail' = [tail EXCEPT ![i] = c], c.next = tail[i].next
        PROVE  Passes(j)
    BY <1>1, <2>a, TailMoves
  <2>1. CASE TailOpens(i)
    <3>1. PICK c \in TailTask :
            /\ tail' = [tail EXCEPT ![i] = c] /\ ~tail[i].open
            /\ c.next = IF tail[i].token = NoResume THEN Len(log) + 1 ELSE tail[i].token + 1
      BY <2>1, OpensEffect
    <3>2. CASE tail[i].token # NoResume
      BY <2>a, <3>1, <3>2 DEF TailInv
    <3>3. CASE tail[i].token = NoResume
      <4>1. ~tail[i].started
        BY <3>1, <3>3 DEF SteadyTail
      <4>2. j # i => tail'[j] = tail[j]
        BY <3>1, TailMoves
      <4> QED BY <1>1, <4>1, <4>2 DEF Passes
    <3> QED BY <3>2, <3>3
  <2>2. CASE TailTakes(i)
    <3>1. PICK c \in TailTask :
            /\ tail' = [tail EXCEPT ![i] = c] /\ c.next = tail[i].next + 1
            /\ tail[i].next <= Len(log)
            /\ announced' = IF log[tail[i].next].inst # i
                            THEN [announced EXCEPT ![i] = Append(announced[i], tail[i].next)]
                            ELSE announced
            /\ UNCHANGED log
      BY <2>2, TakesEffect DEF world
    <3>2. CASE j # i
      <4>1. tail'[j] = tail[j]
        BY <3>1, <3>2, TailMoves
      <4> QED BY <1>1, <4>1
    <3>3. CASE j = i
      <4>1. tail'[i].next = tail[i].next + 1
        BY <3>1, TailMoves
      <4>2. \A k \in tail[i].next .. tail'[i].next - 1 : k = tail[i].next
        BY <1>0, <4>1
      <4>3. log[tail[i].next].inst # i => announced'[i] = Append(announced[i], tail[i].next)
        BY <3>1 DEF TypeOK
      <4> QED BY <3>1, <3>3, <4>2, <4>3 DEF Passes
    <3> QED BY <3>2, <3>3
  <2>3. ASSUME NEW d \in tail[i].left, RebuildReads(i, d) PROVE Passes(j)
    BY <2>a, <2>3, ReadsEffect
  <2>4. ASSUME NEW d \in tail[i].left, RebuildSkips(i, d) PROVE Passes(j)
    BY <2>a, <2>4, SkipsEffect
  <2>5. CASE RebuildEnds(i)
    BY <2>a, <2>5, EndsEffect
  <2>6. CASE TailFails(i)
    BY <2>a, <2>6, FailsEffect
  <2> QED BY <1>3, <2>1, <2>2, <2>3, <2>4, <2>5, <2>6 DEF TailStep
<1>4. ASSUME NEW i \in Writers, NEW caller \in Callers, NEW paths \in (SUBSET Docs) \ {{}}, NEW kept \in SUBSET paths,
             NEW matching \in SUBSET (kept \cap Collection), Commit(i, caller, paths, kept, matching)
      PROVE  UNCHANGED tail
  BY <1>4 DEF Commit
<1>5. UNCHANGED vars => UNCHANGED tail
  BY DEF vars
<1> QED BY <1>2, <1>3, <1>4, <1>5, TailsElsewhere

\* As long as no change stream fails before its first event, a fan-out task acts on
\* whatever it has passed since it first listened: a reconnect skips nothing, also
\* when the oplog is trimmed.
THEOREM ReconnectsSkipNothing ==
    ASSUME "earlyFailure" \notin Faults
    PROVE  Spec => NoNoticeSkipped
<1>1. TypeOK /\ TailInv /\ SteadyTail /\ [Next]_vars =>
        [\A i \in Instances :
           tail[i].started =>
              \A k \in tail[i].next .. tail'[i].next - 1 :
                  log'[k].inst # i => announced'[i] = Append(announced[i], k)]_vars
  BY NothingPassed
<1>2. NoticesInv => TypeOK /\ TailInv
  BY DEF NoticesInv
<1> QED BY <1>1, <1>2, NoticesInvariant, SteadyInvariant, PTL DEF Spec, NoNoticeSkipped

-----------------------------------------------------------------------------
(* Query listeners.                                                        *)

\* Only processes whose change stream has opened have listeners, and a stream that
\* is gone has no targets.
Connected ==
    \A l \in Listeners : /\ session[l].phase # "closed" => tail[Home[l]].started
                         /\ session[l].phase = "closed" => session[l].targets = {}

\* Rows a client has been sent are not newer than the clock, and one with the update
\* time of the stored row is the stored row.
AgedRows(rows) ==
    \A d \in Docs :
        /\ d \notin Collection => rows[d] = Missing
        /\ rows[d] # Missing => rows[d].updated <= clock
        /\ rows[d] # Missing /\ store[d] # Missing /\ rows[d].updated = store[d].updated
             => rows[d] = store[d]

RowsAge ==
    /\ \A d \in Docs : store[d] # Missing => store[d].updated <= clock
    /\ "query" \in Targets => \A l \in Listeners : AgedRows(view[l]["query"])

\* A change of d that the fan-out task of i has yet to read; one that a hub has yet
\* to be given, or that nobody publishes; one that has not reached the session.
Ahead(i, d) ==
    \/ d \in tail[i].left
    \/ \E k \in tail[i].next .. Len(log) : log[k].inst # i /\ d \in log[k].paths

Upstream(i, d) ==
    \/ \E k \in unpublished[i] : d \in log[k].paths
    \/ d \in tail[i].event.paths
    \/ d \in untold[i]

Coming(i, d) == Ahead(i, d) \/ Upstream(i, d)

Queued(l, d) == \E n \in DOMAIN queue[l] : d \in queue[l][n].paths

OnItsWay(l, d) == Coming(Home[l], d) \/ Queued(l, d) \/ lagged[l]

\* The session will send target t in full, or show it an event about d.
WillSend(l, t) ==
    \/ session[l].phase = "initial" /\ session[l].target = t
    \/ session[l].phase \in {"initial", "resync"} /\ t \in session[l].todo

WillShow(l, t, d) ==
    session[l].phase = "event" /\ t \in session[l].todo /\ d \in session[l].event.paths

\* A document of which a query listener has the wrong row will be looked at again.
QueryRight(l, d) ==
    \/ view[l]["query"][d] = QueryResult(store)[d]
    \/ OnItsWay(l, d) \/ WillSend(l, "query") \/ WillShow(l, "query", d)

QueryInv ==
    \A l \in Listeners : "query" \in session[l].targets => \A d \in Collection : QueryRight(l, d)

\* An event that is broadcast is queued, and pushes none out but with a mark.
LEMMA BroadcastCarries ==
    ASSUME TypeOK, NEW i \in Instances, NEW event \in Event, NEW late, Broadcast(i, event, late),
           NEW l \in Listeners, NEW d
    PROVE  /\ Queued(l, d) \/ lagged[l] => Queued(l, d)' \/ lagged'[l]
           /\ Home[l] = i /\ session[l].phase # "closed" /\ d \in event.paths => Queued(l, d)'
<1>1. CASE Home[l] # i \/ session[l].phase = "closed"
  <2>1. queue'[l] = queue[l] /\ lagged'[l] = lagged[l]
    BY <1>1, BroadcastEffect DEF TypeOK
  <2> QED BY <1>1, <2>1 DEF Queued
<1>2. CASE Home[l] = i /\ session[l].phase # "closed"
  <2>1. PICK m \in {0, 1} :
          /\ DOMAIN queue[l] = 1 .. Len(queue[l]) /\ Len(queue[l]) \in Nat
          /\ DOMAIN queue'[l] = 1 .. Len(queue[l]) - m + 1
          /\ Len(queue[l]) - m \in Nat
          /\ queue'[l][Len(queue[l]) - m + 1] = event
          /\ \A n \in 1 .. Len(queue[l]) - m : queue'[l][n] = queue[l][n + m]
          /\ lagged'[l] = (lagged[l] \/ m = 1)
    BY <1>2, BroadcastEffect DEF TypeOK
  <2>2. Len(queue[l]) - m + 1 \in DOMAIN queue'[l]
    BY <2>1
  <2>3. Queued(l, d) => Queued(l, d)' \/ lagged'[l]
    <3>1. CASE m = 1
      BY <2>1, <3>1
    <3>2. CASE m = 0
      <4>1. \A n \in DOMAIN queue[l] : n \in DOMAIN queue'[l] /\ queue'[l][n] = queue[l][n]
        BY <2>1, <3>2
      <4> QED BY <4>1 DEF Queued
    <3> QED BY <3>1, <3>2
  <2>4. lagged[l] => lagged'[l]
    BY <2>1
  <2>5. d \in event.paths => Queued(l, d)'
    BY <2>1, <2>2 DEF Queued
  <2> QED BY <2>3, <2>4, <2>5
<1> QED BY <1>1, <1>2

\* What is coming to a hub stays so until it is broadcast there.
LEMMA TailComing ==
    ASSUME TypeOK, TailInv, SteadyTail, "readFails" \notin Faults,
           NEW i \in Instances, TailStep(i) \/ TailTakes(i) \/ TailFails(i)
    PROVE  \/ /\ UNCHANGED hubs
              /\ \A h \in Instances : \A d : tail[h].started /\ Coming(h, d) => Coming(h, d)'
           \/ /\ RebuildEnds(i) /\ Broadcast(i, tail[i].event, {})
              /\ \A h \in Instances : \A d :
                   /\ Coming(h, d) => Coming(h, d)' \/ (h = i /\ d \in tail[i].event.paths)
                   /\ d \in overtaken[h] => d \in overtaken'[h] \/ (h = i /\ d \in tail[i].event.paths)
<1> DEFINE Stays == /\ UNCHANGED hubs
                    /\ \A h \in Instances : \A d : tail[h].started /\ Coming(h, d) => Coming(h, d)'
<1>1. \A j \in Instances : tail[j].next \in Nat \ {0} /\ Len(log) \in Nat
  BY LenProperties DEF TypeOK, TailTask
<1>2. ASSUME UNCHANGED <<world, unpublished, hubs>>,
             NEW c \in TailTask, tail' = [tail EXCEPT ![i] = c],
             \A d : tail[i].started /\ (Ahead(i, d) \/ d \in tail[i].event.paths) =>
                 \/ d \in c.left \/ d \in c.event.paths
                 \/ \E k \in c.next .. Len(log) : log[k].inst # i /\ d \in log[k].paths
      PROVE  Stays
  <2>1. (\A j \in Instances : tail'[j] = IF j = i THEN c ELSE tail[j]) /\ UNCHANGED <<log, unpublished, untold>>
    BY <1>2, TailMoves DEF world, hubs
  <2> SUFFICES ASSUME NEW h \in Instances, NEW d, tail[h].started, Coming(h, d)
               PROVE  Coming(h, d)'
    BY <1>2
  <2>2. CASE h # i
    BY <2>1, <2>2 DEF Coming, Ahead, Upstream
  <2>3. CASE h = i
    BY <1>2, <2>1, <2>3 DEF Coming, Ahead, Upstream
  <2> QED BY <2>2, <2>3
<1>3. ASSUME NEW c \in TailTask, tail' = [tail EXCEPT ![i] = c], UNCHANGED <<world, unpublished, hubs>>,
             c.next = tail[i].next, c.left = tail[i].left, c.event = tail[i].event
      PROVE  Stays
  <2> HIDE DEF Stays
  <2> QED BY <1>2, <1>3 DEF Ahead
<1> HIDE DEF Stays
<1>4. CASE TailOpens(i)
  <2>1. PICK c \in TailTask :
          /\ tail' = [tail EXCEPT ![i] = c] /\ ~tail[i].open
          /\ c.next = IF tail[i].token = NoResume THEN Len(log) + 1 ELSE tail[i].token + 1
          /\ c.left = tail[i].left /\ c.event = tail[i].event
          /\ UNCHANGED <<world, unpublished, hubs>>
    BY <1>4, OpensEffect
  <2>2. CASE tail[i].started
    <3>1. c.next = tail[i].next
      BY <2>1, <2>2 DEF SteadyTail, TailInv
    <3> QED BY <1>3, <2>1, <3>1 DEF Stays
  <2>3. CASE ~tail[i].started
    BY <1>2, <2>1, <2>3 DEF Stays
  <2> QED BY <2>2, <2>3
<1>5. CASE TailTakes(i)
  <2> DEFINE n == tail[i].next
  <2>1. PICK c \in TailTask :
          /\ tail' = [tail EXCEPT ![i] = c] /\ ~tail[i].busy /\ n <= Len(log)
          /\ c.next = n + 1
          /\ c.left = (IF log[n].inst # i THEN log[n].paths ELSE {})
          /\ c.event = tail[i].event
          /\ UNCHANGED <<world, unpublished, hubs>>
    BY <1>5, TakesEffect
  <2>2. tail[i].left = {}
    BY <2>1 DEF TailInv
  <2>3. \A k \in n .. Len(log) : k = n \/ k \in n + 1 .. Len(log)
    BY <1>1
  <2>4. \A d : Ahead(i, d) => d \in c.left \/ \E k \in c.next .. Len(log) : log[k].inst # i /\ d \in log[k].paths
    BY <2>1, <2>2, <2>3 DEF Ahead
  <2> QED BY <1>2, <2>1, <2>4 DEF Stays
<1>6. ASSUME NEW e \in tail[i].left, RebuildReads(i, e) PROVE Stays
  <2>1. PICK c \in TailTask :
          /\ tail' = [tail EXCEPT ![i] = c] /\ c.next = tail[i].next /\ c.left = tail[i].left \ {e}
          /\ c.event = [paths |-> tail[i].event.paths \cup {e},
                        after |-> [tail[i].event.after EXCEPT ![e] = store[e]]]
          /\ UNCHANGED <<world, unpublished, hubs>>
    BY <1>6, ReadsEffect
  <2>2. c.event.paths = tail[i].event.paths \cup {e}
    BY <2>1
  <2> QED BY <1>2, <2>1, <2>2 DEF Ahead
<1>7. ASSUME NEW e \in tail[i].left, RebuildSkips(i, e) PROVE FALSE
  BY <1>7, SkipsEffect
<1>8. CASE RebuildEnds(i)
  <2>1. PICK c \in TailTask :
          /\ tail' = [tail EXCEPT ![i] = c] /\ tail[i].left = {} /\ c.next = tail[i].next
          /\ c.left = tail[i].left /\ c.event = NoEvent
          /\ IF tail[i].event.paths # {} THEN Broadcast(i, tail[i].event, {}) ELSE UNCHANGED hubs
          /\ UNCHANGED <<world, unpublished, session>>
    BY <1>8, EndsEffect
  <2>2. CASE tail[i].event.paths = {}
    BY <1>2, <2>1, <2>2 DEF Ahead, Stays
  <2>3. CASE tail[i].event.paths # {}
    <3>1. (\A j \in Instances : tail'[j] = IF j = i THEN c ELSE tail[j]) /\ UNCHANGED <<log, unpublished>>
      BY <2>1, TailMoves DEF world
    <3>2. \A h \in Instances : \A d : Ahead(h, d) => Ahead(h, d)'
      BY <2>1, <3>1 DEF Ahead
    <3>a. tail[i].event \in Event /\ {} \in SUBSET Docs /\ Broadcast(i, tail[i].event, {})
      BY <2>1, <2>3 DEF TypeOK, TailTask
    <3>b. \A h \in Instances :
             /\ untold'[h] = IF h = i THEN untold[h] \ tail[i].event.paths ELSE untold[h]
             /\ overtaken'[h] = IF h = i THEN (overtaken[h] \ tail[i].event.paths) \cup {}
                                ELSE overtaken[h]
      BY <3>a, HearsEffect
    <3>3. \A h \in Instances : \A d :
             /\ Upstream(h, d) => Upstream(h, d)' \/ (h = i /\ d \in tail[i].event.paths)
             /\ d \in overtaken[h] => d \in overtaken'[h] \/ (h = i /\ d \in tail[i].event.paths)
      BY <3>1, <3>b DEF Upstream
    <3> QED BY <1>8, <2>1, <2>3, <3>2, <3>3 DEF Coming
  <2> QED BY <2>2, <2>3 DEF Stays
<1>9. CASE TailFails(i)
  <2>1. PICK c \in TailTask :
          /\ tail' = [tail EXCEPT ![i] = c] /\ c.next = tail[i].next
          /\ c.left = tail[i].left /\ c.event = tail[i].event
          /\ UNCHANGED <<world, unpublished, hubs>>
    BY <1>9, FailsEffect
  <2> QED BY <1>3, <2>1 DEF Stays
<1> QED BY <1>4, <1>5, <1>6, <1>7, <1>8, <1>9 DEF TailStep, Stays

\* A step of a fan-out task loses no change on its way to a stream that is open.
LEMMA TailCarries ==
    ASSUME TypeOK, TailInv, SteadyTail, "readFails" \notin Faults,
           NEW i \in Instances, TailStep(i) \/ TailTakes(i) \/ TailFails(i),
           NEW l \in Listeners, session[l].phase # "closed", tail[Home[l]].started,
           NEW d, OnItsWay(l, d)
    PROVE  OnItsWay(l, d)'
<1>0. Home[l] \in Instances /\ tail[i].event \in Event
  BY WatchAssumption DEF TypeOK, TailTask
<1>1. CASE /\ UNCHANGED hubs
           /\ \A h \in Instances : \A e : tail[h].started /\ Coming(h, e) => Coming(h, e)'
  BY <1>0, <1>1 DEF OnItsWay, Queued, hubs
<1>2. CASE /\ Broadcast(i, tail[i].event, {})
           /\ \A h \in Instances : \A e :
                Coming(h, e) => Coming(h, e)' \/ (h = i /\ e \in tail[i].event.paths)
  <2>1. /\ Queued(l, d) \/ lagged[l] => Queued(l, d)' \/ lagged'[l]
        /\ Home[l] = i /\ d \in tail[i].event.paths => Queued(l, d)'
    BY <1>0, <1>2, BroadcastCarries
  <2> QED BY <1>0, <1>2, <2>1 DEF OnItsWay
<1> QED BY <1>1, <1>2, TailComing

\* Publishing a commit loses none either.
LEMMA PublishComing ==
    ASSUME TypeOK, NEW i \in Instances, NEW k \in unpublished[i], PublishLocal(i, k)
    PROVE  /\ k \in 1 .. Len(log) /\ log[k] \in Notice
           /\ [paths |-> log[k].paths, after |-> log[k].after] \in Event
           /\ Broadcast(i, [paths |-> log[k].paths, after |-> log[k].after], Overtaken(i, k))
           /\ UNCHANGED <<world, tail, session, view>>
           /\ \A j \in Instances : unpublished'[j] = IF j = i THEN unpublished[i] \ {k} ELSE unpublished[j]
           /\ \A h \in Instances : \A d :
                /\ Coming(h, d) => Coming(h, d)' \/ (h = i /\ d \in log[k].paths)
                /\ d \in overtaken[h] => d \in overtaken'[h] \/ (h = i /\ d \in log[k].paths)
           /\ Overtaken(i, k) \subseteq overtaken'[i]
<1> DEFINE event == [paths |-> log[k].paths, after |-> log[k].after]
           late == Overtaken(i, k)
<1>1. /\ k \in 1 .. Len(log) /\ unpublished' = [unpublished EXCEPT ![i] = unpublished[i] \ {k}]
      /\ Broadcast(i, event, late)
      /\ UNCHANGED <<world, tail, session, view>>
  BY DEF PublishLocal, TypeOK
<1>2. log[k] \in Notice
  BY <1>1, ElementOfSeq DEF TypeOK
<1>3. event \in Event /\ event.paths = log[k].paths /\ late \in SUBSET Docs
  BY <1>2 DEF Notice, Event, Overtaken
<1>4. \A j \in Instances : unpublished'[j] = IF j = i THEN unpublished[i] \ {k} ELSE unpublished[j]
  BY <1>1 DEF TypeOK
<1>5. \A h \in Instances : \A d : Ahead(h, d) => Ahead(h, d)'
  BY <1>1 DEF Ahead, world
<1> HIDE DEF event, late
<1>a. \A h \in Instances :
         /\ untold'[h] = IF h = i THEN untold[h] \ log[k].paths ELSE untold[h]
         /\ overtaken'[h] = IF h = i THEN (overtaken[h] \ log[k].paths) \cup late
                            ELSE overtaken[h]
  <2>1. \A h \in Instances :
           /\ untold'[h] = IF h = i THEN untold[h] \ event.paths ELSE untold[h]
           /\ overtaken'[h] = IF h = i THEN (overtaken[h] \ event.paths) \cup late
                              ELSE overtaken[h]
    BY <1>1, <1>3, HearsEffect
  <2> QED BY <1>3, <2>1
<1>6. \A h \in Instances : \A d : Upstream(h, d) => Upstream(h, d)' \/ (h = i /\ d \in log[k].paths)
  <2> SUFFICES ASSUME NEW h \in Instances, NEW d, Upstream(h, d), h # i \/ d \notin log[k].paths
               PROVE  Upstream(h, d)'
    OBVIOUS
  <2>1. UNCHANGED <<log, tail>>
    BY <1>1 DEF world
  <2>2. ASSUME NEW n \in unpublished[h], d \in log[n].paths PROVE n \in unpublished'[h]
    BY <1>4, <2>2
  <2>3. d \in untold[h] => d \in untold'[h]
    BY <1>a
  <2> QED BY <2>1, <2>2, <2>3 DEF Upstream
<1>7. \A h \in Instances : \A d :
         /\ Coming(h, d) => Coming(h, d)' \/ (h = i /\ d \in log[k].paths)
         /\ d \in overtaken[h] => d \in overtaken'[h] \/ (h = i /\ d \in log[k].paths)
  BY <1>5, <1>6, <1>a DEF Coming
<1>8. late \subseteq overtaken'[i]
  BY <1>a
<1> QED BY <1>1, <1>2, <1>3, <1>4, <1>7, <1>8 DEF event, late

LEMMA PublishCarries ==
    ASSUME TypeOK, NEW i \in Instances, NEW k \in unpublished[i], PublishLocal(i, k),
           NEW l \in Listeners, session[l].phase # "closed", NEW d, OnItsWay(l, d)
    PROVE  OnItsWay(l, d)'
<1> DEFINE event == [paths |-> log[k].paths, after |-> log[k].after]
           late == Overtaken(i, k)
<1>0. Home[l] \in Instances
  BY WatchAssumption
<1>1. /\ Broadcast(i, event, late) /\ event \in Event /\ event.paths = log[k].paths
      /\ Coming(Home[l], d) => Coming(Home[l], d)' \/ (Home[l] = i /\ d \in log[k].paths)
  BY <1>0, PublishComing
<1> HIDE DEF event, late
<1>2. /\ Queued(l, d) \/ lagged[l] => Queued(l, d)' \/ lagged'[l]
      /\ Home[l] = i /\ d \in log[k].paths => Queued(l, d)'
  BY <1>1, BroadcastCarries
<1> QED BY <1>1, <1>2 DEF OnItsWay

\* A commit is coming to every hub whose fan-out task has started.
LEMMA CommitComing ==
    ASSUME TypeOK, TailInv, NoticesOnceInOrder, NEW i \in Writers, NEW caller \in Callers, NEW paths \in SUBSET Docs,
           NEW kept \in SUBSET paths, NEW matching, Commit(i, caller, paths, kept, matching),
           NEW h \in Instances, NEW d, Coming(h, d) \/ d \in paths
    PROVE  Coming(h, d)'
<1>0. i \in Instances /\ tail[h].next \in 1 .. Len(log) + 1
  BY WatchAssumption DEF TailInv
<1>1. /\ UNCHANGED tail /\ Len(log') = Len(log) + 1 /\ Len(log) \in Nat
      /\ \A k \in 1 .. Len(log) : log'[k] = log[k]
      /\ log'[Len(log) + 1].inst = i /\ log'[Len(log) + 1].paths = paths
  BY CommitLeavesTails
<1>2. /\ caller = "unaware" => /\ untold' = [untold EXCEPT ![i] = untold[i] \cup paths]
                               /\ UNCHANGED unpublished
      /\ caller # "unaware" =>
            /\ unpublished' = [unpublished EXCEPT ![i] = unpublished[i] \cup {Len(log) + 1}]
            /\ UNCHANGED untold
  BY DEF Commit
<1>3. /\ Len(log) + 1 \in unpublished'[i] \/ paths \subseteq untold'[i]
      /\ \A j \in Instances : unpublished[j] \subseteq unpublished'[j] /\ unpublished[j] \subseteq 1 .. Len(log)
      /\ \A j \in Instances : untold[j] \subseteq untold'[j]
  <2>1. /\ unpublished \in [Instances -> SUBSET (1 .. Len(log))]
        /\ untold \in [Instances -> SUBSET Docs]
    BY DEF TypeOK
  <2>2. CASE caller = "unaware"
    BY <1>0, <1>2, <2>1, <2>2
  <2>3. CASE caller # "unaware"
    BY <1>0, <1>2, <2>1, <2>3
  <2> QED BY <2>2, <2>3
<1>4. Len(log) + 1 \in tail'[h].next .. Len(log')
  BY <1>0, <1>1
<1>5. d \in paths => Coming(h, d)'
  <2>1. CASE h = i
    BY <1>1, <1>3, <2>1 DEF Coming, Upstream
  <2>2. CASE h # i
    BY <1>1, <1>4, <2>2 DEF Coming, Ahead
  <2> QED BY <2>1, <2>2
<1>6. Ahead(h, d) => Ahead(h, d)'
  <2>1. \A k \in tail[h].next .. Len(log) : k \in tail'[h].next .. Len(log') /\ log'[k] = log[k]
    BY <1>0, <1>1
  <2> QED BY <1>1, <2>1 DEF Ahead
<1>7. Upstream(h, d) => Upstream(h, d)'
  <2>1. \A k \in unpublished[h] : k \in unpublished'[h] /\ log'[k] = log[k]
    BY <1>0, <1>1, <1>3
  <2> QED BY <1>1, <1>3, <2>1 DEF Upstream
<1> QED BY <1>5, <1>6, <1>7 DEF Coming

LEMMA CommitCarries ==
    ASSUME TypeOK, TailInv, NoticesOnceInOrder, NEW i \in Writers, NEW caller \in Callers, NEW paths \in SUBSET Docs,
           NEW kept \in SUBSET paths, NEW matching, Commit(i, caller, paths, kept, matching),
           NEW l \in Listeners, NEW d, OnItsWay(l, d) \/ d \in paths
    PROVE  OnItsWay(l, d)'
<1>1. Home[l] \in Instances
  BY WatchAssumption
<1>2. Coming(Home[l], d) \/ d \in paths => Coming(Home[l], d)'
  BY <1>1, CommitComing
<1>3. UNCHANGED <<queue, lagged>>
  BY DEF Commit
<1> QED BY <1>2, <1>3 DEF OnItsWay, Queued

\* A session touches its own stream and nothing outside.
LEMMA SessionElsewhere ==
    ASSUME TypeOK, NEW l \in Listeners, SessionStep(l) \/ ClientStep(l)
    PROVE  /\ UNCHANGED <<world, unpublished, tail, announced, untold, overtaken>>
           /\ \A m \in Listeners \ {l} :
                /\ session'[m] = session[m] /\ queue'[m] = queue[m]
                /\ lagged'[m] = lagged[m] /\ view'[m] = view[m]
<1> DEFINE Elsewhere == \A m \in Listeners \ {l} :
                           /\ session'[m] = session[m] /\ queue'[m] = queue[m]
                           /\ lagged'[m] = lagged[m] /\ view'[m] = view[m]
<1>1. UNCHANGED <<world, unpublished, tail, announced, untold, overtaken>>
  BY DEF SessionStep, ClientStep, ReadDocument, SendInitial, DenyTarget, StartResync, ResetTarget,
         TakeEvent, EventToDocuments, EventToQuery, Connect, AddTarget, RemoveTarget, HangUp, hubs
<1>2. ASSUME NEW d, ReadDocument(l, d) PROVE Elsewhere
  BY <1>2 DEF ReadDocument, hubs
<1>3. ASSUME SendInitial(l) PROVE Elsewhere
  BY <1>3 DEF SendInitial, hubs
<1>4. ASSUME DenyTarget(l) PROVE Elsewhere
  BY <1>4 DEF DenyTarget, hubs
<1>5. ASSUME StartResync(l) PROVE Elsewhere
  BY <1>5 DEF StartResync
<1>6. ASSUME NEW t, ResetTarget(l, t) PROVE Elsewhere
  BY <1>6 DEF ResetTarget, hubs
<1>7. ASSUME TakeEvent(l) PROVE Elsewhere
  BY <1>7 DEF TakeEvent
<1>8. ASSUME EventToDocuments(l) PROVE Elsewhere
  BY <1>8 DEF EventToDocuments, hubs
<1>9. ASSUME EventToQuery(l) PROVE Elsewhere
  BY <1>9 DEF EventToQuery, hubs
<1>10. ASSUME Connect(l) PROVE Elsewhere
  BY <1>10 DEF Connect
<1>11. ASSUME HangUp(l) PROVE Elsewhere
  BY <1>11 DEF HangUp
<1>12. ASSUME NEW t, AddTarget(l, t) PROVE Elsewhere
  BY <1>12 DEF AddTarget, hubs
<1>13. ASSUME NEW t, RemoveTarget(l, t) PROVE Elsewhere
  BY <1>13 DEF RemoveTarget, hubs
<1> HIDE DEF Elsewhere
<1>14. Elsewhere
  BY <1>2, <1>3, <1>4, <1>5, <1>6, <1>7, <1>8, <1>9, <1>10, <1>11, <1>12, <1>13 DEF SessionStep, ClientStep
<1> QED BY <1>1, <1>14 DEF Elsewhere

\* What each of its steps does at its own stream.
LEMMA ReadDocumentEffect ==
    ASSUME TypeOK, NEW l \in Listeners, NEW d \in session[l].left, ReadDocument(l, d)
    PROVE  /\ session[l].phase = "initial" /\ session'[l].phase = "initial"
           /\ session'[l].targets = session[l].targets /\ session'[l].todo = session[l].todo
           /\ session'[l].target = session[l].target /\ session'[l].left = session[l].left \ {d}
           /\ \A e \in Docs : session'[l].got[e] = IF e = d THEN store[e] ELSE session[l].got[e]
           /\ UNCHANGED <<hubs, view>>
<1>1. session[l] \in Session /\ session \in [Listeners -> Session] /\ store \in [Docs -> RowOrMissing]
  BY DEF TypeOK
<1> DEFINE got == [session[l].got EXCEPT ![d] = store[d]]
           c == [session[l] EXCEPT !.left = session[l].left \ {d}, !.got = got]
<1>2. /\ session' = [session EXCEPT ![l] = c] /\ session[l].phase = "initial" /\ UNCHANGED <<hubs, view>>
  BY DEF ReadDocument
<1>3. d \in Docs /\ session[l].got \in [Docs -> RowOrMissing]
  BY <1>1 DEF Session
<1>4. \A e \in Docs : got[e] = IF e = d THEN store[e] ELSE session[l].got[e]
  BY <1>3
<1> HIDE DEF got
<1>5. /\ c.phase = session[l].phase /\ c.targets = session[l].targets /\ c.todo = session[l].todo
      /\ c.target = session[l].target /\ c.left = session[l].left \ {d} /\ c.got = got
  BY <1>1 DEF Session
<1> HIDE DEF c
<1>6. session'[l] = c
  BY <1>1, <1>2
<1> QED BY <1>2, <1>4, <1>5, <1>6

LEMMA SendInitialEffect ==
    ASSUME TypeOK, NEW l \in Listeners, SendInitial(l)
    PROVE  /\ session[l].phase = "initial" /\ session[l].left = {}
           /\ session'[l].phase = IF session[l].todo = {} THEN "idle" ELSE "resync"
           /\ session'[l].targets = session[l].targets /\ session'[l].todo = session[l].todo
           /\ session'[l].left = {} /\ session'[l].got = Nothing
           /\ \A u \in Targets :
                view'[l][u] = IF u # session[l].target THEN view[l][u]
                              ELSE IF u = "documents" THEN session[l].got ELSE QueryResult(store)
           /\ UNCHANGED hubs
<1>1. session[l] \in Session /\ session \in [Listeners -> Session] /\ store \in [Docs -> RowOrMissing]
  BY DEF TypeOK
<1> DEFINE rows == IF session[l].target = "documents" THEN session[l].got ELSE QueryResult(store)
<1>2. /\ session' = [session EXCEPT ![l] = Turned(session[l])] /\ session[l].phase = "initial"
      /\ session[l].left = {} /\ view' = [view EXCEPT ![l][session[l].target] = rows] /\ UNCHANGED hubs
  BY DEF SendInitial
<1>3. rows \in [Docs -> RowOrMissing]
  BY <1>1, RowsTyped DEF Session
<1>4. session'[l] = Turned(session[l])
  BY <1>1, <1>2
<1>5. /\ Turned(session[l]).phase = IF session[l].todo = {} THEN "idle" ELSE "resync"
      /\ Turned(session[l]).targets = session[l].targets /\ Turned(session[l]).todo = session[l].todo
      /\ Turned(session[l]).left = {} /\ Turned(session[l]).got = Nothing
  BY <1>1, SessionForms
<1> HIDE DEF rows
<1>6. \A u \in Targets : view'[l][u] = IF u = session[l].target THEN rows ELSE view[l][u]
  BY <1>2, <1>3, ViewMoves
<1> QED BY <1>2, <1>4, <1>5, <1>6 DEF rows

LEMMA DenyTargetEffect ==
    ASSUME TypeOK, NEW l \in Listeners, DenyTarget(l)
    PROVE  /\ session[l].phase = "initial"
           /\ session'[l].phase = IF session[l].todo = {} THEN "idle" ELSE "resync"
           /\ session'[l].targets = session[l].targets \ {session[l].target}
           /\ session'[l].todo = session[l].todo
           /\ session'[l].left = {} /\ session'[l].got = Nothing
           /\ UNCHANGED <<hubs, view>>
<1>1. session[l] \in Session /\ session \in [Listeners -> Session]
  BY DEF TypeOK
<1> DEFINE s == [session[l] EXCEPT !.targets = session[l].targets \ {session[l].target}]
<1>2. session' = [session EXCEPT ![l] = Turned(s)] /\ session[l].phase = "initial" /\ UNCHANGED <<hubs, view>>
  BY DEF DenyTarget
<1>3. s \in Session /\ s.todo = session[l].todo /\ s.targets = session[l].targets \ {session[l].target}
  BY <1>1 DEF Session
<1> HIDE DEF s
<1>4. session'[l] = Turned(s)
  BY <1>1, <1>2
<1>5. /\ Turned(s).phase = IF s.todo = {} THEN "idle" ELSE "resync"
      /\ Turned(s).targets = s.targets /\ Turned(s).todo = s.todo
      /\ Turned(s).left = {} /\ Turned(s).got = Nothing
  BY <1>3, SessionForms
<1> QED BY <1>2, <1>3, <1>4, <1>5

LEMMA StartResyncEffect ==
    ASSUME TypeOK, NEW l \in Listeners, StartResync(l)
    PROVE  /\ session[l].phase = "idle"
           /\ session'[l].phase = IF session[l].targets = {} THEN "idle" ELSE "resync"
           /\ session'[l].targets = session[l].targets /\ session'[l].todo = session[l].targets
           /\ session'[l].left = session[l].left /\ session'[l].got = session[l].got
           /\ UNCHANGED <<queue, view>>
<1>1. session[l] \in Session /\ session \in [Listeners -> Session]
  BY DEF TypeOK
<1> DEFINE c == [session[l] EXCEPT !.todo = session[l].targets,
                   !.phase = IF session[l].targets = {} THEN "idle" ELSE "resync"]
<1>2. session' = [session EXCEPT ![l] = c] /\ session[l].phase = "idle" /\ UNCHANGED <<queue, view>>
  BY DEF StartResync
<1>3. /\ c.phase = IF session[l].targets = {} THEN "idle" ELSE "resync"
      /\ c.targets = session[l].targets /\ c.todo = session[l].targets
      /\ c.left = session[l].left /\ c.got = session[l].got
  BY <1>1 DEF Session
<1> HIDE DEF c
<1>4. session'[l] = c
  BY <1>1, <1>2
<1> QED BY <1>2, <1>3, <1>4

LEMMA ResetTargetEffect ==
    ASSUME TypeOK, NEW l \in Listeners, NEW t \in session[l].todo, ResetTarget(l, t)
    PROVE  /\ session[l].phase = "resync" /\ session'[l].phase = "initial"
           /\ session'[l].target = t /\ session'[l].todo = session[l].todo \ {t}
           /\ session'[l].targets = session[l].targets
           /\ session'[l].left = (IF t = "documents" THEN Watched ELSE {})
           /\ session'[l].got = Nothing
           /\ \A u \in Targets : view'[l][u] = IF u = t THEN Nothing ELSE view[l][u]
           /\ UNCHANGED hubs
<1>1. session[l] \in Session /\ session \in [Listeners -> Session]
  BY DEF TypeOK
<1>2. t \in {"documents", "query"} /\ session[l].todo \ {t} \in SUBSET Targets
  BY <1>1, WatchAssumption DEF Session
<1> DEFINE todo == session[l].todo \ {t}
           c == Sending(session[l], t, todo)
<1>3. /\ session' = [session EXCEPT ![l] = c] /\ session[l].phase = "resync"
      /\ view' = [view EXCEPT ![l][t] = Nothing] /\ UNCHANGED hubs
  BY DEF ResetTarget
<1>4. /\ c.phase = "initial" /\ c.target = t /\ c.todo = todo
      /\ c.targets = session[l].targets /\ c.left = (IF t = "documents" THEN Watched ELSE {})
      /\ c.got = Nothing
  <2> HIDE DEF todo
  <2>1. todo \in SUBSET Targets
    BY <1>2 DEF todo
  <2> QED BY <1>1, <1>2, <2>1 DEF Sending, Session
<1> HIDE DEF c
<1>5. session'[l] = c
  BY <1>1, <1>3
<1>6. \A u \in Targets : view'[l][u] = IF u = t THEN Nothing ELSE view[l][u]
  BY <1>3, RowsTyped, ViewMoves
<1> QED BY <1>3, <1>4, <1>5, <1>6

LEMMA AddTargetEffect ==
    ASSUME TypeOK, NEW l \in Listeners, NEW t \in Targets, AddTarget(l, t)
    PROVE  /\ session[l].phase = "idle" /\ session'[l].phase = "initial"
           /\ session'[l].target = t /\ session'[l].todo = {}
           /\ session'[l].targets = session[l].targets \cup {t}
           /\ session'[l].left = (IF t = "documents" THEN Watched ELSE {})
           /\ session'[l].got = Nothing
           /\ \A u \in Targets : view'[l][u] = IF u = t THEN Nothing ELSE view[l][u]
           /\ UNCHANGED hubs
<1>1. session[l] \in Session /\ session \in [Listeners -> Session]
  BY DEF TypeOK
<1> DEFINE s == [session[l] EXCEPT !.targets = session[l].targets \cup {t}]
<1>2. /\ session' = [session EXCEPT ![l] = Sending(s, t, {})] /\ session[l].phase = "idle"
      /\ view' = [view EXCEPT ![l][t] = Nothing] /\ UNCHANGED hubs
  BY DEF AddTarget
<1>3. s \in Session /\ s.targets = session[l].targets \cup {t} /\ t \in {"documents", "query"}
  BY <1>1, WatchAssumption DEF Session
<1> HIDE DEF s
<1>4. /\ Sending(s, t, {}).phase = "initial" /\ Sending(s, t, {}).target = t
      /\ Sending(s, t, {}).todo = {} /\ Sending(s, t, {}).targets = s.targets
      /\ Sending(s, t, {}).left = (IF t = "documents" THEN Watched ELSE {})
      /\ Sending(s, t, {}).got = Nothing
  BY <1>3 DEF Sending, Session
<1>5. session'[l] = Sending(s, t, {})
  BY <1>1, <1>2
<1>6. \A u \in Targets : view'[l][u] = IF u = t THEN Nothing ELSE view[l][u]
  BY <1>2, RowsTyped, ViewMoves
<1> QED BY <1>2, <1>3, <1>4, <1>5, <1>6

LEMMA RemoveTargetEffect ==
    ASSUME TypeOK, NEW l \in Listeners, NEW t \in Targets, RemoveTarget(l, t)
    PROVE  /\ session[l].phase = "idle" /\ session'[l].phase = "idle"
           /\ session'[l].targets = session[l].targets \ {t}
           /\ session'[l].left = session[l].left /\ session'[l].got = session[l].got
           /\ UNCHANGED <<hubs, view>>
<1>1. session[l] \in Session /\ session \in [Listeners -> Session]
  BY DEF TypeOK
<1> DEFINE c == [session[l] EXCEPT !.targets = session[l].targets \ {t}]
<1>2. session' = [session EXCEPT ![l] = c] /\ session[l].phase = "idle" /\ UNCHANGED <<hubs, view>>
  BY <1>1 DEF RemoveTarget
<1>3. /\ c.phase = session[l].phase /\ c.targets = session[l].targets \ {t}
      /\ c.left = session[l].left /\ c.got = session[l].got
  BY <1>1 DEF Session
<1> HIDE DEF c
<1>4. session'[l] = c
  BY <1>1, <1>2
<1> QED BY <1>2, <1>3, <1>4

LEMMA TakeEventEffect ==
    ASSUME TypeOK, NEW l \in Listeners, TakeEvent(l)
    PROVE  /\ session[l].phase = "idle" /\ ~lagged[l] /\ queue[l] # << >>
           /\ queue'[l] = Tail(queue[l]) /\ UNCHANGED <<lagged, view>>
           /\ session'[l].targets = session[l].targets
           /\ session'[l].left = session[l].left /\ session'[l].got = session[l].got
           /\ session[l].targets # {} =>
                /\ session'[l].phase = "event" /\ session'[l].event = Head(queue[l])
                /\ session'[l].todo = session[l].targets
           /\ session[l].targets = {} => session'[l] = session[l]
<1>1. session[l] \in Session /\ session \in [Listeners -> Session] /\ queue \in [Listeners -> Seq(Event)]
  BY DEF TypeOK
<1> DEFINE c == [session[l] EXCEPT !.phase = "event", !.event = Head(queue[l]), !.todo = session[l].targets]
<1>2. /\ session' = IF session[l].targets = {} THEN session ELSE [session EXCEPT ![l] = c]
      /\ session[l].phase = "idle" /\ ~lagged[l] /\ queue[l] # << >>
      /\ queue' = [queue EXCEPT ![l] = Tail(queue[l])] /\ UNCHANGED <<lagged, view>>
  BY DEF TakeEvent
<1>3. /\ c.phase = "event" /\ c.event = Head(queue[l]) /\ c.todo = session[l].targets
      /\ c.targets = session[l].targets /\ c.left = session[l].left /\ c.got = session[l].got
  BY <1>1 DEF Session
<1> HIDE DEF c
<1>4. session'[l] = IF session[l].targets = {} THEN session[l] ELSE c
  BY <1>1, <1>2
<1>5. queue'[l] = Tail(queue[l])
  BY <1>1, <1>2
<1> QED BY <1>2, <1>3, <1>4, <1>5

LEMMA EventToDocumentsEffect ==
    ASSUME TypeOK, NEW l \in Listeners, EventToDocuments(l)
    PROVE  /\ session[l].phase = "event" /\ "documents" \in session[l].todo
           /\ session'[l].phase = IF session[l].todo = {"documents"} THEN "idle" ELSE "event"
           /\ session'[l].todo = session[l].todo \ {"documents"}
           /\ session'[l].targets = session[l].targets
           /\ session'[l].left = session[l].left /\ session'[l].got = session[l].got
           /\ session[l].todo # {"documents"} => session'[l].event = session[l].event
           /\ \A u \in Targets \ {"documents"} : view'[l][u] = view[l][u]
           /\ \A d \in Docs :
                view'[l]["documents"][d] = IF d \in session[l].event.paths \cap Watched
                                           THEN session[l].event.after[d] ELSE view[l]["documents"][d]
           /\ UNCHANGED hubs
<1>1. session[l] \in Session /\ session \in [Listeners -> Session]
  BY DEF TypeOK
<1> DEFINE rows == [d \in Docs |-> IF d \in session[l].event.paths \cap Watched
                                   THEN session[l].event.after[d] ELSE view[l]["documents"][d]]
           c == Shown(session[l], "documents")
<1>2. /\ session' = [session EXCEPT ![l] = c] /\ session[l].phase = "event"
      /\ "documents" \in session[l].todo /\ UNCHANGED hubs
      /\ view' = [view EXCEPT ![l]["documents"] = rows]
  BY DEF EventToDocuments
<1>3. rows \in [Docs -> RowOrMissing]
  <2>1. /\ session[l].event.after \in [Docs -> RowOrMissing] /\ "documents" \in Targets
        /\ view[l]["documents"] \in [Docs -> RowOrMissing]
    BY <1>1, <1>2 DEF TypeOK, Session, Event
  <2> QED BY <2>1
<1>4. /\ c.phase = IF session[l].todo = {"documents"} THEN "idle" ELSE "event"
      /\ c.todo = session[l].todo \ {"documents"} /\ c.targets = session[l].targets
      /\ c.event = (IF session[l].todo = {"documents"} THEN NoEvent ELSE session[l].event)
      /\ c.left = session[l].left /\ c.got = session[l].got
  BY <1>1, SessionForms
<1>5. \A d \in Docs : rows[d] = IF d \in session[l].event.paths \cap Watched
                                THEN session[l].event.after[d] ELSE view[l]["documents"][d]
  OBVIOUS
<1> HIDE DEF c, rows
<1>6. session'[l] = c
  BY <1>1, <1>2
<1>7. "documents" \in Targets /\ \A u \in Targets : view'[l][u] = IF u = "documents" THEN rows ELSE view[l][u]
  BY <1>1, <1>2, <1>3, ViewMoves DEF Session
<1> QED BY <1>2, <1>4, <1>5, <1>6, <1>7

LEMMA EventToQueryEffect ==
    ASSUME TypeOK, NEW l \in Listeners, EventToQuery(l)
    PROVE  /\ session[l].phase = "event" /\ "query" \in session[l].todo /\ "query" \in Targets
           /\ session'[l].phase = IF session[l].todo = {"query"} THEN "idle" ELSE "event"
           /\ session'[l].todo = session[l].todo \ {"query"}
           /\ session'[l].targets = session[l].targets
           /\ session'[l].left = session[l].left /\ session'[l].got = session[l].got
           /\ session[l].todo # {"query"} => session'[l].event = session[l].event
           /\ \A u \in Targets \ {"query"} : view'[l][u] = view[l][u]
           /\ view'[l]["query"] = IF session[l].event.paths \cap Collection # {}
                                  THEN Diffed(view[l]["query"], QueryResult(store)) ELSE view[l]["query"]
           /\ UNCHANGED hubs
<1>1. session[l] \in Session /\ session \in [Listeners -> Session] /\ store \in [Docs -> RowOrMissing]
  BY DEF TypeOK
<1> DEFINE rows == Diffed(view[l]["query"], QueryResult(store))
           c == Shown(session[l], "query")
<1>2. /\ session' = [session EXCEPT ![l] = c] /\ session[l].phase = "event"
      /\ "query" \in session[l].todo /\ UNCHANGED hubs
      /\ view' = IF session[l].event.paths \cap Collection # {}
                 THEN [view EXCEPT ![l]["query"] = rows] ELSE view
  BY DEF EventToQuery
<1>3. "query" \in Targets
  BY <1>1, <1>2 DEF Session
<1>4. rows \in [Docs -> RowOrMissing]
  <2>1. /\ QueryResult(store) \in [Docs -> RowOrMissing] /\ view[l]["query"] \in [Docs -> RowOrMissing]
    BY <1>1, <1>3, RowsTyped DEF TypeOK
  <2> QED BY <2>1 DEF Diffed
<1>5. /\ c.phase = IF session[l].todo = {"query"} THEN "idle" ELSE "event"
      /\ c.todo = session[l].todo \ {"query"} /\ c.targets = session[l].targets
      /\ c.event = (IF session[l].todo = {"query"} THEN NoEvent ELSE session[l].event)
      /\ c.left = session[l].left /\ c.got = session[l].got
  BY <1>1, SessionForms
<1> HIDE DEF c, rows
<1>6. session'[l] = c
  BY <1>1, <1>2
<1>7. \A u \in Targets : view'[l][u] = IF u = "query" /\ session[l].event.paths \cap Collection # {}
                                       THEN rows ELSE view[l][u]
  <2>1. CASE session[l].event.paths \cap Collection # {}
    BY <1>2, <1>4, <2>1, ViewMoves
  <2>2. CASE session[l].event.paths \cap Collection = {}
    BY <1>2, <2>2
  <2> QED BY <2>1, <2>2
<1> QED BY <1>2, <1>3, <1>5, <1>6, <1>7 DEF rows

LEMMA StreamEffect ==
    ASSUME TypeOK, NEW l \in Listeners, Connect(l) \/ HangUp(l)
    PROVE  /\ session'[l].targets = {} /\ queue'[l] = << >> /\ lagged'[l] = FALSE
           /\ \/ session'[l].phase = "closed"
              \/ session'[l].phase = "idle" /\ (tail[Home[l]].started \/ "earlyListen" \in Faults)
           /\ session'[l].left = {} /\ session'[l].got = Nothing
           /\ view' = view \/ view'[l] = [t \in Targets |-> Nothing]
<1>1. /\ session \in [Listeners -> Session] /\ queue \in [Listeners -> Seq(Event)]
      /\ lagged \in [Listeners -> BOOLEAN] /\ view \in [Listeners -> [Targets -> [Docs -> RowOrMissing]]]
  BY DEF TypeOK
<1>2. /\ Idle.targets = {} /\ Idle.phase = "idle" /\ Idle.left = {} /\ Idle.got = Nothing
      /\ [Idle EXCEPT !.phase = "closed"].left = {} /\ [Idle EXCEPT !.phase = "closed"].got = Nothing
      /\ [Idle EXCEPT !.phase = "closed"].targets = {} /\ [Idle EXCEPT !.phase = "closed"].phase = "closed"
  BY DEF Idle
<1>3. CASE Connect(l)
  <2>1. session'[l] = Idle /\ queue'[l] = << >> /\ lagged'[l] = FALSE
    BY <1>1, <1>3 DEF Connect
  <2> QED BY <1>2, <1>3, <2>1 DEF Connect
<1>4. CASE HangUp(l)
  <2>1. /\ session'[l] = [Idle EXCEPT !.phase = "closed"] /\ queue'[l] = << >> /\ lagged'[l] = FALSE
        /\ view'[l] = [t \in Targets |-> Nothing]
    BY <1>1, <1>4 DEF HangUp
  <2> QED BY <1>2, <2>1
<1> QED BY <1>3, <1>4

\* Steps by which the store and the sessions stay as they are.
LEMMA WorldMoves ==
    ASSUME Next
    PROVE  \/ UNCHANGED <<store, log, clock, unpublished, tail, hubs, session, view>>
           \/ \E i \in Writers, caller \in Callers, paths \in (SUBSET Docs) \ {{}} : \E kept \in SUBSET paths :
                \E matching \in SUBSET (kept \cap Collection) : Commit(i, caller, paths, kept, matching)
           \/ \E i \in Instances : \E k \in unpublished[i] : PublishLocal(i, k)
           \/ \E i \in Instances : TailStep(i) \/ TailTakes(i) \/ TailFails(i)
           \/ \E l \in Listeners : SessionStep(l) \/ ClientStep(l)
<1>1. OplogTrims => UNCHANGED <<store, log, clock, unpublished, tail, hubs, session, view>>
  BY DEF OplogTrims
<1>2. \A i \in Serving : i \in Instances
  BY WatchAssumption DEF Serving
<1> QED BY <1>1, <1>2 DEF Next

\* A fan-out task that has started has started for good.
LEMMA StartedStays ==
    ASSUME TypeOK, NEW i \in Instances, TailStep(i) \/ TailTakes(i) \/ TailFails(i)
    PROVE  /\ \A j \in Instances : tail[j].started => tail'[j].started
           /\ UNCHANGED <<world, unpublished, session, view>>
<1>1. ASSUME NEW c \in TailTask, tail' = [tail EXCEPT ![i] = c], tail[i].started => c.started
      PROVE  \A j \in Instances : tail[j].started => tail'[j].started
  BY <1>1, TailMoves
<1>2. \A j \in Instances : tail[j].started => tail'[j].started
  <2>1. CASE TailOpens(i)
    BY <1>1, <2>1, OpensEffect
  <2>2. CASE TailTakes(i)
    BY <1>1, <2>2, TakesEffect
  <2>3. ASSUME NEW d \in tail[i].left, RebuildReads(i, d)
        PROVE  \A j \in Instances : tail[j].started => tail'[j].started
    <3>1. PICK c \in TailTask : tail' = [tail EXCEPT ![i] = c] /\ c.started = tail[i].started
      BY <2>3, ReadsEffect
    <3> QED BY <1>1, <3>1
  <2>4. ASSUME NEW d \in tail[i].left, RebuildSkips(i, d)
        PROVE  \A j \in Instances : tail[j].started => tail'[j].started
    BY <1>1, <2>4, SkipsEffect
  <2>5. CASE RebuildEnds(i)
    BY <1>1, <2>5, EndsEffect
  <2>6. CASE TailFails(i)
    BY <1>1, <2>6, FailsEffect
  <2> QED BY <2>1, <2>2, <2>3, <2>4, <2>5, <2>6 DEF TailStep
<1>3. UNCHANGED <<world, unpublished, session, view>>
  BY DEF TailStep, TailOpens, TailTakes, TailFails, RebuildReads, RebuildSkips, RebuildEnds
<1> QED BY <1>2, <1>3

LEMMA ConnectedStep ==
    ASSUME TypeOK, Connected, "earlyListen" \notin Faults, [Next]_vars
    PROVE  Connected'
<1> DEFINE Right(l) == /\ session'[l].phase # "closed" => tail'[Home[l]].started
                       /\ session'[l].phase = "closed" => session'[l].targets = {}
<1>0. \A l \in Listeners : Home[l] \in Instances
  BY WatchAssumption
<1>1. ASSUME UNCHANGED session, \A j \in Instances : tail[j].started => tail'[j].started
      PROVE  Connected'
  BY <1>0, <1>1 DEF Connected
<1>2. CASE UNCHANGED <<session, tail>>
  BY <1>1, <1>2
<1>3. ASSUME NEW i \in Instances, TailStep(i) \/ TailTakes(i) \/ TailFails(i)
      PROVE  Connected'
  BY <1>1, <1>3, StartedStays
<1>4. ASSUME NEW l \in Listeners, SessionStep(l) \/ ClientStep(l)
      PROVE  Connected'
  <2>1. UNCHANGED tail /\ \A m \in Listeners \ {l} : session'[m] = session[m]
    BY <1>4, SessionElsewhere
  <2>2. \A m \in Listeners \ {l} : Right(m)
    BY <1>0, <2>1 DEF Connected
  <2>3. session[l].phase # "closed" => tail[Home[l]].started
    BY DEF Connected
  <2>a. ASSUME session[l].phase # "closed", session'[l].phase # "closed"
        PROVE  Right(l)
    BY <2>1, <2>3, <2>a
  <2>4. ASSUME Connect(l) \/ HangUp(l) PROVE Right(l)
    BY <2>1, <2>4, StreamEffect
  <2> HIDE DEF Right
  <2>5. ASSUME NEW d \in session[l].left, ReadDocument(l, d) PROVE Right(l)
    BY <2>5, <2>a, ReadDocumentEffect
  <2>6. ASSUME SendInitial(l) PROVE Right(l)
    BY <2>6, <2>a, SendInitialEffect
  <2>7. ASSUME DenyTarget(l) PROVE Right(l)
    BY <2>7, <2>a, DenyTargetEffect
  <2>8. ASSUME StartResync(l) PROVE Right(l)
    BY <2>8, <2>a, StartResyncEffect
  <2>9. ASSUME NEW t \in session[l].todo, ResetTarget(l, t) PROVE Right(l)
    BY <2>9, <2>a, ResetTargetEffect
  <2>10. ASSUME TakeEvent(l) PROVE Right(l)
    BY <2>10, <2>a, TakeEventEffect
  <2>11. ASSUME EventToDocuments(l) PROVE Right(l)
    BY <2>11, <2>a, EventToDocumentsEffect
  <2>12. ASSUME EventToQuery(l) PROVE Right(l)
    BY <2>12, <2>a, EventToQueryEffect
  <2>13. ASSUME NEW t \in Targets, AddTarget(l, t) PROVE Right(l)
    BY <2>13, <2>a, AddTargetEffect
  <2>14. ASSUME NEW t \in Targets, RemoveTarget(l, t) PROVE Right(l)
    BY <2>14, <2>a, RemoveTargetEffect
  <2>15. Right(l)
    BY <1>4, <2>4, <2>5, <2>6, <2>7, <2>8, <2>9, <2>10, <2>11, <2>12, <2>13, <2>14 DEF SessionStep, ClientStep
  <2> QED BY <2>2, <2>15 DEF Right, Connected
<1>5. ASSUME NEW i \in Writers, NEW caller \in Callers, NEW paths \in (SUBSET Docs) \ {{}}, NEW kept \in SUBSET paths,
             NEW matching \in SUBSET (kept \cap Collection), Commit(i, caller, paths, kept, matching)
      PROVE  UNCHANGED <<session, tail>>
  BY <1>5 DEF Commit
<1>6. ASSUME NEW i \in Instances, NEW k \in unpublished[i], PublishLocal(i, k)
      PROVE  UNCHANGED <<session, tail>>
  BY <1>6 DEF PublishLocal
<1>7. UNCHANGED vars => UNCHANGED <<session, tail>>
  BY DEF vars
<1> QED BY <1>2, <1>3, <1>4, <1>5, <1>6, <1>7, WorldMoves

\* What the query returns now is as new as the store, and what is left of an older
\* answer after running it again is nothing.
LEMMA AgedResults ==
    ASSUME TypeOK, \A d \in Docs : store[d] # Missing => store[d].updated <= clock
    PROVE  /\ AgedRows(Nothing) /\ AgedRows(QueryResult(store))
           /\ \A old \in [Docs -> RowOrMissing] :
                AgedRows(old) => Diffed(old, QueryResult(store)) = QueryResult(store)
<1> DEFINE new == QueryResult(store)
<1>1. \A d \in Docs : /\ d \notin Collection => new[d] = Missing
                      /\ new[d] # Missing => new[d] = store[d]
  BY DEF QueryResult
<1>2. AgedRows(Nothing)
  BY DEF AgedRows, Nothing
<1> DEFINE Is(old, d) == (IF old[d] # Missing /\ new[d] # Missing /\ old[d].updated = new[d].updated
                          THEN old[d] ELSE new[d]) = new[d]
<1>3. new = [d \in Docs |-> new[d]]
  BY DEF QueryResult
<1> HIDE DEF new
<1>4. AgedRows(new)
  BY <1>1 DEF AgedRows
<1>5. ASSUME NEW old \in [Docs -> RowOrMissing], AgedRows(old)
      PROVE  Diffed(old, new) = new
  <2>1. ASSUME NEW d \in Docs PROVE Is(old, d)
    BY <1>1, <1>5 DEF AgedRows
  <2> QED BY <1>3, <2>1 DEF Diffed
<1> QED BY <1>2, <1>4, <1>5 DEF new

LEMMA RowsAgeStep ==
    ASSUME TypeOK, RowsAge, 0 \notin ClockSteps, [Next]_vars
    PROVE  RowsAge'
<1>0. clock \in Nat /\ store \in [Docs -> RowOrMissing]
  BY DEF TypeOK
<1>1. CASE UNCHANGED <<store, clock, view>>
  BY <1>1 DEF RowsAge, AgedRows
<1>2. ASSUME NEW i \in Writers, NEW caller \in Callers, NEW paths \in (SUBSET Docs) \ {{}}, NEW kept \in SUBSET paths,
             NEW matching \in SUBSET (kept \cap Collection), Commit(i, caller, paths, kept, matching)
      PROVE  RowsAge'
  <2>1. /\ store' \in [Docs -> RowOrMissing] /\ clock' \in Nat /\ clock' - clock \in ClockSteps
        /\ \A d \in paths : store'[d] # Missing => store'[d].updated = clock'
        /\ \A d \in Docs \ paths : store'[d] = store[d]
    BY <1>2, CommitEffect
  <2>2. UNCHANGED view
    BY <1>2 DEF Commit
  <2>3. clock < clock'
    <3>1. clock' - clock \in Nat /\ clock' - clock # 0
      BY <2>1, WatchAssumption
    <3>2. \A a, b \in Nat : b - a \in Nat /\ b - a # 0 => a < b
      OBVIOUS
    <3> QED BY <1>0, <2>1, <3>1, <3>2
  <2>4. \A row \in Row : row.updated \in Nat /\ (row.updated <= clock => row.updated <= clock' /\ row.updated # clock')
    BY <1>0, <2>1, <2>3 DEF Row
  <2>5. \A d \in Docs : store'[d] # Missing => store'[d].updated <= clock'
    <3> SUFFICES ASSUME NEW d \in Docs, store'[d] # Missing
                 PROVE  store'[d].updated <= clock'
      OBVIOUS
    <3>1. CASE d \in paths
      BY <2>1, <3>1
    <3>2. CASE d \notin paths
      <4>1. store'[d] = store[d] /\ store[d] \in Row /\ store[d].updated <= clock
        BY <1>0, <2>1, <3>2 DEF RowsAge, RowOrMissing
      <4> QED BY <2>4, <4>1
    <3> QED BY <3>1, <3>2
  <2>6. ASSUME NEW l \in Listeners, "query" \in Targets
        PROVE  AgedRows(view[l]["query"])'
    <3> SUFFICES ASSUME NEW d \in Docs
                 PROVE  LET row == view[l]["query"][d] IN
                        /\ d \notin Collection => row = Missing
                        /\ row # Missing => row.updated <= clock'
                        /\ row # Missing /\ store'[d] # Missing /\ row.updated = store'[d].updated
                             => row = store'[d]
      BY <2>2 DEF AgedRows
    <3> DEFINE row == view[l]["query"][d]
    <3>1. row \in RowOrMissing
      BY <2>6 DEF TypeOK
    <3>2. /\ d \notin Collection => row = Missing
          /\ row # Missing => row.updated <= clock
          /\ row # Missing /\ store[d] # Missing /\ row.updated = store[d].updated => row = store[d]
      BY <2>6 DEF RowsAge, AgedRows
    <3> HIDE DEF row
    <3>3. row # Missing => row.updated <= clock' /\ row.updated # clock'
      BY <2>4, <3>1, <3>2 DEF RowOrMissing
    <3>4. row # Missing /\ store'[d] # Missing /\ row.updated = store'[d].updated => row = store'[d]
      BY <2>1, <3>2, <3>3
    <3> QED BY <3>2, <3>3, <3>4 DEF row
  <2> QED BY <2>5, <2>6 DEF RowsAge
<1>3. ASSUME NEW l \in Listeners, SessionStep(l) \/ ClientStep(l)
      PROVE  RowsAge'
  <2>1. UNCHANGED <<store, clock>> /\ \A m \in Listeners \ {l} : view'[m] = view[m]
    BY <1>3, SessionElsewhere DEF world
  <2>2. \A d \in Docs : store'[d] # Missing => store'[d].updated <= clock'
    BY <2>1 DEF RowsAge
  <2>3. /\ AgedRows(Nothing) /\ AgedRows(QueryResult(store))
        /\ \A old \in [Docs -> RowOrMissing] :
              AgedRows(old) => Diffed(old, QueryResult(store)) = QueryResult(store)
    BY AgedResults DEF RowsAge
  <2> DEFINE Right == view'[l]["query"] \in {view[l]["query"], Nothing, QueryResult(store)}
  <2>4. ASSUME "query" \in Targets PROVE Right
    <3>0. view[l]["query"] \in [Docs -> RowOrMissing] /\ AgedRows(view[l]["query"])
      BY <2>4 DEF TypeOK, RowsAge
    <3>1. ASSUME UNCHANGED view PROVE Right
      BY <3>1
    <3>2. ASSUME Connect(l) \/ HangUp(l) PROVE Right
      BY <2>4, <3>2, StreamEffect
    <3>3. ASSUME NEW d \in session[l].left, ReadDocument(l, d) PROVE Right
      BY <3>3, <3>1, ReadDocumentEffect
    <3>4. ASSUME SendInitial(l) PROVE Right
      BY <2>4, <3>4, SendInitialEffect
    <3>5. ASSUME DenyTarget(l) PROVE Right
      BY <3>5, <3>1, DenyTargetEffect
    <3>6. ASSUME StartResync(l) PROVE Right
      BY <3>6, <3>1, StartResyncEffect
    <3>7. ASSUME NEW t \in session[l].todo, ResetTarget(l, t) PROVE Right
      BY <2>4, <3>7, ResetTargetEffect
    <3>8. ASSUME TakeEvent(l) PROVE Right
      BY <3>8, <3>1, TakeEventEffect
    <3>9. ASSUME EventToDocuments(l) PROVE Right
      BY <2>4, <3>9, EventToDocumentsEffect
    <3>10. ASSUME EventToQuery(l) PROVE Right
      BY <2>3, <3>0, <3>10, EventToQueryEffect
    <3>11. ASSUME NEW t \in Targets, AddTarget(l, t) PROVE Right
      BY <2>4, <3>11, AddTargetEffect
    <3>12. ASSUME NEW t \in Targets, RemoveTarget(l, t) PROVE Right
      BY <3>12, <3>1, RemoveTargetEffect
    <3> HIDE DEF Right
    <3> QED BY <1>3, <3>2, <3>3, <3>4, <3>5, <3>6, <3>7, <3>8, <3>9, <3>10, <3>11, <3>12 DEF SessionStep, ClientStep
  <2>5. ASSUME "query" \in Targets, NEW m \in Listeners
        PROVE  AgedRows(view[m]["query"])'
    <3>0. \A k \in Listeners : AgedRows(view[k]["query"])
      BY <2>5 DEF RowsAge
    <3>1. AgedRows(view'[m]["query"])
      BY <2>1, <2>3, <2>4, <2>5, <3>0
    <3> QED BY <2>1, <3>1 DEF AgedRows
  <2> QED BY <2>2, <2>5 DEF RowsAge
<1>4. ASSUME NEW i \in Instances, TailStep(i) \/ TailTakes(i) \/ TailFails(i)
      PROVE  UNCHANGED <<store, clock, view>>
  BY <1>4, StartedStays DEF world
<1>5. ASSUME NEW i \in Instances, NEW k \in unpublished[i], PublishLocal(i, k)
      PROVE  UNCHANGED <<store, clock, view>>
  BY <1>5 DEF PublishLocal, world
<1>6. UNCHANGED vars => UNCHANGED <<store, clock, view>>
  BY DEF vars, world
<1> QED BY <1>1, <1>2, <1>3, <1>4, <1>5, <1>6, WorldMoves

\* A stream that a step leaves alone keeps what is on its way.
LEMMA OnItsWayStays ==
    ASSUME UNCHANGED <<log, unpublished, tail, untold>>, NEW l \in Listeners, NEW d,
           queue'[l] = queue[l], lagged'[l] = lagged[l]
    PROVE  OnItsWay(l, d)' <=> OnItsWay(l, d)
<1>1. Queued(l, d)' <=> Queued(l, d)
  BY DEF Queued
<1>2. Ahead(Home[l], d)' <=> Ahead(Home[l], d)
  BY DEF Ahead
<1>3. Upstream(Home[l], d)' <=> Upstream(Home[l], d)
  BY DEF Upstream
<1> QED BY <1>1, <1>2, <1>3 DEF OnItsWay, Coming

\* An event the session takes is one it will show, or not the one looked for.
LEMMA TakeEventCarries ==
    ASSUME TypeOK, NEW l \in Listeners, TakeEvent(l), session[l].targets # {}, NEW d, OnItsWay(l, d)
    PROVE  \/ OnItsWay(l, d)'
           \/ session'[l].phase = "event" /\ session'[l].todo = session[l].targets
              /\ d \in session'[l].event.paths
<1>1. /\ ~lagged[l] /\ queue[l] # << >> /\ queue'[l] = Tail(queue[l])
      /\ UNCHANGED <<log, unpublished, tail, untold>>
      /\ session'[l].phase = "event" /\ session'[l].event = Head(queue[l])
      /\ session'[l].todo = session[l].targets
  BY TakeEventEffect, SessionElsewhere DEF world, SessionStep
<1>2. queue[l] \in Seq(Event)
  BY DEF TypeOK
<1>3. /\ Len(queue[l]) \in Nat \ {0} /\ DOMAIN queue[l] = 1 .. Len(queue[l])
      /\ Head(queue[l]) = queue[l][1] /\ DOMAIN queue'[l] = 1 .. Len(queue[l]) - 1
      /\ \A n \in 1 .. Len(queue[l]) - 1 : queue'[l][n] = queue[l][n + 1]
  BY <1>1, <1>2, HeadTailProperties, LenProperties, EmptySeq
<1>4. ASSUME NEW n \in DOMAIN queue[l], d \in queue[l][n].paths, n # 1
      PROVE  Queued(l, d)'
  <2>1. n - 1 \in DOMAIN queue'[l] /\ (n - 1) + 1 = n
    BY <1>3, <1>4
  <2>2. queue'[l][n - 1] = queue[l][n]
    BY <1>3, <2>1
  <2> QED BY <1>4, <2>1, <2>2 DEF Queued
<1>5. Queued(l, d) => Queued(l, d)' \/ d \in session'[l].event.paths
  BY <1>1, <1>3, <1>4 DEF Queued
<1>6. Ahead(Home[l], d) => Ahead(Home[l], d)'
  BY <1>1 DEF Ahead
<1>7. Upstream(Home[l], d) => Upstream(Home[l], d)'
  BY <1>1 DEF Upstream
<1> QED BY <1>1, <1>5, <1>6, <1>7 DEF OnItsWay, Coming

\* At its own stream, a session owes no document it does not go on owing.
LEMMA QuerySession ==
    ASSUME TypeOK, RowsAge, NEW l \in Listeners, SessionStep(l) \/ ClientStep(l),
           "query" \in session'[l].targets, NEW d \in Collection,
           "query" \in session[l].targets => QueryRight(l, d)
    PROVE  QueryRight(l, d)'
<1>0. /\ UNCHANGED <<store, log, unpublished, tail, untold>> /\ session[l] \in Session
      /\ d \in Docs /\ session[l].targets \subseteq Targets
  BY SessionElsewhere, WatchAssumption DEF world, TypeOK, Session
<1>1. QueryResult(store)' = QueryResult(store)
  BY <1>0
<1>2. ASSUME UNCHANGED hubs PROVE OnItsWay(l, d) => OnItsWay(l, d)'
  BY <1>0, <1>2, OnItsWayStays DEF hubs
<1>3. ASSUME view'[l]["query"] = QueryResult(store) PROVE QueryRight(l, d)'
  BY <1>1, <1>3 DEF QueryRight
<1>4. ASSUME UNCHANGED hubs, "query" \in session[l].targets, view'[l]["query"] = view[l]["query"],
             WillSend(l, "query") => WillSend(l, "query")',
             WillShow(l, "query", d) => WillShow(l, "query", d)'
      PROVE  QueryRight(l, d)'
  BY <1>1, <1>2, <1>4 DEF QueryRight
<1>5. ASSUME WillSend(l, "query")' PROVE QueryRight(l, d)'
  BY <1>5 DEF QueryRight
<1>6. ASSUME Connect(l) \/ HangUp(l) PROVE FALSE
  BY <1>6, StreamEffect
<1>7. ASSUME NEW e \in session[l].left, ReadDocument(l, e) PROVE QueryRight(l, d)'
  BY <1>7, <1>4, ReadDocumentEffect DEF WillSend, WillShow
<1>8. ASSUME SendInitial(l) PROVE QueryRight(l, d)'
  <2>1. /\ session[l].phase = "initial"
        /\ session'[l].phase = IF session[l].todo = {} THEN "idle" ELSE "resync"
        /\ session'[l].targets = session[l].targets /\ session'[l].todo = session[l].todo
        /\ view'[l]["query"] = IF session[l].target = "query" THEN QueryResult(store) ELSE view[l]["query"]
        /\ UNCHANGED hubs
    BY <1>0, <1>8, SendInitialEffect
  <2>2. CASE session[l].target = "query"
    BY <1>3, <2>1, <2>2
  <2>3. CASE session[l].target # "query"
    BY <1>4, <2>1, <2>3 DEF WillSend, WillShow
  <2> QED BY <2>2, <2>3
<1>9. ASSUME DenyTarget(l) PROVE QueryRight(l, d)'
  BY <1>9, <1>4, DenyTargetEffect DEF WillSend, WillShow
<1>10. ASSUME StartResync(l) PROVE QueryRight(l, d)'
  BY <1>10, <1>5, StartResyncEffect DEF WillSend
<1>11. ASSUME NEW t \in session[l].todo, ResetTarget(l, t) PROVE QueryRight(l, d)'
  <2>1. /\ session[l].phase = "resync" /\ session'[l].phase = "initial"
        /\ session'[l].target = t /\ session'[l].todo = session[l].todo \ {t}
        /\ session'[l].targets = session[l].targets /\ UNCHANGED hubs
        /\ "query" # t => view'[l]["query"] = view[l]["query"]
    BY <1>0, <1>11, ResetTargetEffect
  <2>2. CASE t = "query"
    BY <1>5, <2>1, <2>2 DEF WillSend
  <2>3. CASE t # "query"
    BY <1>4, <2>1, <2>3 DEF WillSend, WillShow
  <2> QED BY <2>2, <2>3
<1>12. ASSUME TakeEvent(l) PROVE QueryRight(l, d)'
  <2>1. /\ session[l].phase = "idle" /\ UNCHANGED view /\ session'[l].targets = session[l].targets
    BY <1>12, TakeEventEffect
  <2>2. OnItsWay(l, d) => OnItsWay(l, d)' \/ WillShow(l, "query", d)'
    BY <1>12, <2>1, TakeEventCarries DEF WillShow
  <2>3. ~WillSend(l, "query") /\ ~WillShow(l, "query", d)
    BY <2>1 DEF WillSend, WillShow
  <2> QED BY <1>1, <2>1, <2>2, <2>3 DEF QueryRight
<1>13. ASSUME EventToDocuments(l) PROVE QueryRight(l, d)'
  <2>1. /\ session[l].phase = "event"
        /\ session'[l].phase = IF session[l].todo = {"documents"} THEN "idle" ELSE "event"
        /\ session'[l].todo = session[l].todo \ {"documents"} /\ session'[l].targets = session[l].targets
        /\ session[l].todo # {"documents"} => session'[l].event = session[l].event
        /\ view'[l]["query"] = view[l]["query"] /\ UNCHANGED hubs
    BY <1>0, <1>13, EventToDocumentsEffect
  <2> QED BY <1>4, <2>1 DEF WillSend, WillShow
<1>14. ASSUME EventToQuery(l) PROVE QueryRight(l, d)'
  <2>1. /\ session[l].phase = "event" /\ "query" \in Targets
        /\ session'[l].targets = session[l].targets /\ UNCHANGED hubs
        /\ view'[l]["query"] = IF session[l].event.paths \cap Collection # {}
                               THEN Diffed(view[l]["query"], QueryResult(store)) ELSE view[l]["query"]
    BY <1>14, EventToQueryEffect
  <2>2. CASE session[l].event.paths \cap Collection # {}
    <3>1. AgedRows(view[l]["query"]) /\ view[l]["query"] \in [Docs -> RowOrMissing]
      BY <2>1 DEF RowsAge, TypeOK
    <3>2. view'[l]["query"] = QueryResult(store)
      BY <2>1, <2>2, <3>1, AgedResults DEF RowsAge
    <3> QED BY <1>3, <3>2
  <2>3. CASE session[l].event.paths \cap Collection = {}
    <3>1. ~WillSend(l, "query") /\ ~WillShow(l, "query", d)
      BY <2>1, <2>3 DEF WillSend, WillShow
    <3> QED BY <1>4, <2>1, <2>3, <3>1
  <2> QED BY <2>2, <2>3
<1>15. ASSUME NEW t \in Targets, AddTarget(l, t) PROVE QueryRight(l, d)'
  <2>1. /\ session[l].phase = "idle" /\ session'[l].phase = "initial"
        /\ session'[l].target = t /\ session'[l].targets = session[l].targets \cup {t}
        /\ UNCHANGED hubs
    BY <1>15, AddTargetEffect
  <2>2. CASE t = "query"
    BY <1>5, <2>1, <2>2 DEF WillSend
  <2>3. CASE t # "query"
    <3>1. "query" \in session[l].targets
      BY <2>1, <2>3
    <3>2. view'[l]["query"] = view[l]["query"]
      BY <1>0, <1>15, <2>3, <3>1, AddTargetEffect
    <3> QED BY <1>4, <2>1, <3>1, <3>2 DEF WillSend, WillShow
  <2> QED BY <2>2, <2>3
<1>16. ASSUME NEW t \in Targets, RemoveTarget(l, t) PROVE QueryRight(l, d)'
  BY <1>16, <1>4, RemoveTargetEffect DEF WillSend, WillShow
<1> QED BY <1>6, <1>7, <1>8, <1>9, <1>10, <1>11, <1>12, <1>13, <1>14, <1>15, <1>16 DEF SessionStep, ClientStep

LEMMA QueryStep ==
    ASSUME NoticesInv, SteadyTail, Connected, RowsAge, QueryInv, "readFails" \notin Faults, [Next]_vars
    PROVE  QueryInv'
<1>0. TypeOK /\ TailInv /\ NoticesOnceInOrder
  BY DEF NoticesInv
<1>1. ASSUME UNCHANGED <<session, view>>, \A d \in Collection : QueryResult(store)'[d] = QueryResult(store)[d],
             \A l \in Listeners, d \in Collection :
                session[l].phase # "closed" /\ OnItsWay(l, d) => OnItsWay(l, d)'
      PROVE  QueryInv'
  <2> SUFFICES ASSUME NEW l \in Listeners, "query" \in session[l].targets, NEW d \in Collection
               PROVE  QueryRight(l, d)'
    BY <1>1 DEF QueryInv
  <2>1. QueryRight(l, d)
    BY DEF QueryInv
  <2>2. session[l].phase # "closed"
    BY DEF Connected
  <2>3. OnItsWay(l, d) => OnItsWay(l, d)'
    BY <1>1, <2>2
  <2>4. WillSend(l, "query")' = WillSend(l, "query") /\ WillShow(l, "query", d)' = WillShow(l, "query", d)
    BY <1>1 DEF WillSend, WillShow
  <2> QED BY <1>1, <2>1, <2>3, <2>4 DEF QueryRight
<1>2. CASE UNCHANGED <<store, log, clock, unpublished, tail, hubs, session, view>>
  <2>1. \A l \in Listeners, d \in Collection : OnItsWay(l, d) => OnItsWay(l, d)'
    BY <1>2, OnItsWayStays DEF hubs
  <2>2. QueryResult(store)' = QueryResult(store)
    BY <1>2
  <2> QED BY <1>1, <1>2, <2>1, <2>2
<1>3. ASSUME NEW i \in Instances, TailStep(i) \/ TailTakes(i) \/ TailFails(i)
      PROVE  QueryInv'
  <2>1. UNCHANGED <<store, session, view>>
    BY <1>0, <1>3, StartedStays DEF world
  <2>2. QueryResult(store)' = QueryResult(store)
    BY <2>1
  <2>3. \A l \in Listeners, d \in Collection :
           session[l].phase # "closed" /\ OnItsWay(l, d) => OnItsWay(l, d)'
    BY <1>0, <1>3, TailCarries DEF Connected
  <2> QED BY <1>1, <2>1, <2>2, <2>3
<1>4. ASSUME NEW i \in Instances, NEW k \in unpublished[i], PublishLocal(i, k)
      PROVE  QueryInv'
  <2>1. UNCHANGED <<store, session, view>>
    BY <1>4 DEF PublishLocal, world
  <2>2. QueryResult(store)' = QueryResult(store)
    BY <2>1
  <2>3. \A l \in Listeners, d \in Collection :
           session[l].phase # "closed" /\ OnItsWay(l, d) => OnItsWay(l, d)'
    BY <1>0, <1>4, PublishCarries
  <2> QED BY <1>1, <2>1, <2>2, <2>3
<1>5. ASSUME NEW i \in Writers, NEW caller \in Callers, NEW paths \in (SUBSET Docs) \ {{}}, NEW kept \in SUBSET paths,
             NEW matching \in SUBSET (kept \cap Collection), Commit(i, caller, paths, kept, matching)
      PROVE  QueryInv'
  <2>1. UNCHANGED <<session, view>>
    BY <1>5 DEF Commit
  <2>2. \A d \in Docs \ paths : store'[d] = store[d]
    BY <1>0, <1>5, CommitEffect
  <2> SUFFICES ASSUME NEW l \in Listeners, "query" \in session[l].targets, NEW d \in Collection
               PROVE  QueryRight(l, d)'
    BY <2>1 DEF QueryInv
  <2>3. OnItsWay(l, d) \/ d \in paths => OnItsWay(l, d)'
    BY <1>0, <1>5, CommitCarries
  <2>4. CASE d \in paths
    BY <2>3, <2>4 DEF QueryRight
  <2>5. CASE d \notin paths
    <3>1. QueryRight(l, d)
      BY DEF QueryInv
    <3>2. d \in Docs /\ store'[d] = store[d]
      BY <2>2, <2>5, WatchAssumption
    <3>3. QueryResult(store)'[d] = QueryResult(store)[d]
      BY <3>2 DEF QueryResult
    <3>4. WillSend(l, "query")' = WillSend(l, "query") /\ WillShow(l, "query", d)' = WillShow(l, "query", d)
      BY <2>1 DEF WillSend, WillShow
    <3> QED BY <2>1, <2>3, <3>1, <3>3, <3>4 DEF QueryRight
  <2> QED BY <2>4, <2>5
<1>6. ASSUME NEW l \in Listeners, SessionStep(l) \/ ClientStep(l)
      PROVE  QueryInv'
  <2>1. /\ UNCHANGED <<store, log, unpublished, tail, untold>>
        /\ \A m \in Listeners \ {l} :
             session'[m] = session[m] /\ queue'[m] = queue[m] /\ lagged'[m] = lagged[m] /\ view'[m] = view[m]
    BY <1>0, <1>6, SessionElsewhere DEF world
  <2> SUFFICES ASSUME NEW m \in Listeners, "query" \in session'[m].targets, NEW d \in Collection
               PROVE  QueryRight(m, d)'
    BY DEF QueryInv
  <2>2. CASE m = l
    <3>1. "query" \in session[l].targets => QueryRight(l, d)
      BY DEF QueryInv
    <3> QED BY <1>0, <1>6, <2>2, <3>1, QuerySession
  <2>3. CASE m # l
    <3>1. /\ session'[m] = session[m] /\ view'[m] = view[m]
          /\ queue'[m] = queue[m] /\ lagged'[m] = lagged[m]
      BY <2>1, <2>3
    <3>2. QueryRight(m, d)
      BY <3>1 DEF QueryInv
    <3>3. OnItsWay(m, d) => OnItsWay(m, d)'
      BY <2>1, <3>1, OnItsWayStays
    <3>4. QueryResult(store)' = QueryResult(store)
      BY <2>1
    <3>5. WillSend(m, "query")' = WillSend(m, "query") /\ WillShow(m, "query", d)' = WillShow(m, "query", d)
      BY <3>1 DEF WillSend, WillShow
    <3> QED BY <3>1, <3>2, <3>3, <3>4, <3>5 DEF QueryRight
  <2> QED BY <2>2, <2>3
<1>7. UNCHANGED vars => UNCHANGED <<store, log, clock, unpublished, tail, hubs, session, view>>
  BY DEF vars, world, hubs
<1> QED BY <1>2, <1>3, <1>4, <1>5, <1>6, <1>7, WorldMoves

\* When a stream is quiet nothing is on its way to it but what nobody publishes.
LEMMA NothingComing ==
    ASSUME TypeOK, TailInv, NEW l \in Listeners, Quiescent(l)
    PROVE  \A d : d \notin untold[Home[l]] => ~OnItsWay(l, d)
<1>0. Home[l] \in Instances /\ Len(log) \in Nat
  BY WatchAssumption, LenProperties DEF TypeOK
<1>1. /\ queue[l] = << >> /\ ~lagged[l] /\ unpublished[Home[l]] = {}
      /\ ~tail[Home[l]].busy /\ tail[Home[l]].next = Len(log) + 1
  BY DEF Quiescent
<1>2. DOMAIN queue[l] = {}
  BY <1>1
<1>3. tail[Home[l]].left = {} /\ tail[Home[l]].event.paths = {}
  BY <1>0, <1>1 DEF TailInv
<1>4. tail[Home[l]].next .. Len(log) = {}
  BY <1>0, <1>1
<1> QED BY <1>1, <1>2, <1>3, <1>4 DEF OnItsWay, Coming, Ahead, Upstream, Queued

\* With nothing on its way to it, a query listener has what the query returns, but for
\* what its process committed unpublished.
LEMMA NothingOwed ==
    ASSUME NoticesInv, RowsAge, QueryInv, NEW l \in Listeners, Quiescent(l), "query" \in session[l].targets
    PROVE  QueryCurrent(l)
<1>0. TypeOK /\ TailInv
  BY DEF NoticesInv
<1>1. session[l].phase = "idle" /\ \A d : d \notin untold[Home[l]] => ~OnItsWay(l, d)
  BY <1>0, NothingComing DEF Quiescent
<1>2. \A d \in Collection \ untold[Home[l]] : view[l]["query"][d] = QueryResult(store)[d]
  BY <1>1 DEF QueryInv, QueryRight, WillSend, WillShow
<1>3. "query" \in Targets
  BY <1>0 DEF TypeOK, Session
<1>4. \A d \in Docs \ Collection : view[l]["query"][d] = QueryResult(store)[d]
  BY <1>3 DEF RowsAge, AgedRows, QueryResult
<1> QED BY <1>2, <1>4 DEF QueryCurrent

\* "A listener on one instance sees writes applied on any of them": whoever commits,
\* in whatever order processes publish, whether receivers lag, change streams fail,
\* the oplog is trimmed or streams hang up and are denied, a query listener that
\* nothing is on its way to holds what its query returns, but for documents that the
\* last commit of its own process to change them was never published to its hub (its
\* outcome unknown, its handler dropped).  Four things it rests on: listeners come
\* after the first change stream, which does not fail before its first event, paths
\* can be read back, and two commits never have one update time.
THEOREM QueriesConverge ==
    ASSUME Faults \cap {"earlyListen", "earlyFailure", "readFails"} = {}, 0 \notin ClockSteps
    PROVE  Spec => []QueryConverges
<1> DEFINE Inv == Connected /\ RowsAge /\ QueryInv
<1>1. Init => Inv
  <2> SUFFICES ASSUME Init PROVE Inv
    OBVIOUS
  <2>1. /\ \A l \in Listeners : session[l].phase = "closed" /\ session[l].targets = {}
        /\ \A l \in Listeners : \A t \in Targets : view[l][t] = Nothing
        /\ \A d \in Docs : store[d] = Missing
    BY DEF Init, Idle, Nothing
  <2>2. AgedRows(Nothing)
    BY DEF AgedRows, Nothing
  <2> QED BY <2>1, <2>2 DEF Connected, RowsAge, QueryInv
<1>2. NoticesInv /\ SteadyTail /\ Inv /\ [Next]_vars => Inv'
  <2> SUFFICES ASSUME NoticesInv, SteadyTail, Connected, RowsAge, QueryInv, [Next]_vars
               PROVE  Connected' /\ RowsAge' /\ QueryInv'
    OBVIOUS
  <2>1. TypeOK
    BY DEF NoticesInv
  <2>2. Connected'
    BY <2>1, ConnectedStep
  <2>3. RowsAge'
    BY <2>1, RowsAgeStep
  <2>4. QueryInv'
    BY QueryStep
  <2> QED BY <2>2, <2>3, <2>4
<1>3. NoticesInv /\ Inv => QueryConverges
  BY NothingOwed DEF QueryConverges
<1>4. Spec => []NoticesInv /\ []SteadyTail
  BY NoticesInvariant, SteadyInvariant
<1> HIDE DEF Inv
<1> QED BY <1>1, <1>2, <1>3, <1>4, PTL DEF Spec

-----------------------------------------------------------------------------
(* Document listeners, of commits that all go through one process.         *)

\* Only the writing process has commits to publish, and it reads none back; a row of
\* one is the stored one, or a later commit of the process changed it; a task that
\* reads a notice back still has its change stream.
WriterRight ==
    \A i \in Instances :
        /\ tail[i].busy => tail[i].open /\ i \notin Writers
        /\ unpublished[i] # {} => i \in Writers
        /\ \A k \in unpublished[i] : \A d \in log[k].paths :
             \/ log[k].after[d] = store[d]
             \/ \E m \in k + 1 .. Len(log) : log[m].inst = i /\ d \in log[m].paths

\* A document is due at a hub: a change of it is, or what the hub heard of it last
\* was overtaken.
Due(i, d) == Coming(i, d) \/ d \in overtaken[i]

\* A row that an event carries is the newest, or another event about its document
\* comes after this one.
EventRight ==
    \A i \in Instances : \A d \in tail[i].event.paths :
        Ahead(i, d) \/ tail[i].event.after[d] = store[d]

RowRight(l, n, d) ==
    \/ Due(Home[l], d)
    \/ \E m \in DOMAIN queue[l] : m > n /\ d \in queue[l][m].paths
    \/ queue[l][n].after[d] = store[d]

QueueRight ==
    \A l \in Listeners : session[l].phase # "closed" =>
        \A n \in DOMAIN queue[l] : \A d \in queue[l][n].paths : RowRight(l, n, d)

\* A document target has rows of the documents it watches only.
WatchedOnly ==
    \A l \in Listeners :
        /\ session[l].left \subseteq Watched
        /\ \A d \in Docs \ Watched :
             /\ session[l].got[d] = Missing
             /\ "documents" \in Targets => view[l]["documents"][d] = Missing

\* What the session has read for the client, or has sent it.
ToRead(l, d) ==
    \/ session[l].phase = "initial" /\ session[l].target = "documents" /\ d \in session[l].left
    \/ session[l].phase \in {"initial", "resync"} /\ "documents" \in session[l].todo

Held(l) ==
    IF session[l].phase = "initial" /\ session[l].target = "documents"
    THEN session[l].got ELSE view[l]["documents"]

\* A document of which a document listener has the wrong row will be looked up, or
\* an event about it is on its way, or the session holds one with the right row,
\* or its hub heard of it last by an overtaken commit.
DocumentRight(l, d) ==
    \/ OnItsWay(l, d) \/ d \in overtaken[Home[l]] \/ ToRead(l, d)
    \/ WillShow(l, "documents", d) /\ session[l].event.after[d] = store[d]
    \/ ~WillShow(l, "documents", d) /\ Held(l)[d] = store[d]

OneWriter == \A v, w \in Writers : v = w

DocumentsInv ==
    \A l \in Listeners : "documents" \in session[l].targets => \A d \in Watched : DocumentRight(l, d)

LEMMA WriterStep ==
    ASSUME NoticesInv, WriterRight, OneWriter, [Next]_vars
    PROVE  WriterRight'
<1>0. TypeOK /\ TailInv /\ NoticesOnceInOrder
  BY DEF NoticesInv
<1>1. ASSUME UNCHANGED <<store, log>>, \A j \in Instances : unpublished'[j] \subseteq unpublished[j],
             \A j \in Instances : tail'[j].busy => tail'[j].open /\ j \notin Writers
      PROVE  WriterRight'
  BY <1>1 DEF WriterRight
<1>2. CASE UNCHANGED <<store, log, unpublished, tail>>
  BY <1>2 DEF WriterRight
<1>3. ASSUME NEW i \in Instances, TailStep(i) \/ TailTakes(i) \/ TailFails(i)
      PROVE  WriterRight'
  <2>1. UNCHANGED <<store, log, unpublished>>
    BY <1>0, <1>3, StartedStays DEF world
  <2>a. ASSUME NEW c \in TailTask, tail' = [tail EXCEPT ![i] = c], c.busy => c.open /\ i \notin Writers
        PROVE  WriterRight'
    <3>1. \A j \in Instances : tail'[j] = IF j = i THEN c ELSE tail[j]
      BY <1>0, <2>a, TailMoves
    <3>2. \A j \in Instances : tail'[j].busy => tail'[j].open /\ j \notin Writers
      BY <2>a, <3>1 DEF WriterRight
    <3> QED BY <1>1, <2>1, <3>2
  <2>0. tail[i].busy => tail[i].open /\ i \notin Writers
    BY DEF WriterRight
  <2>2. CASE TailOpens(i)
    BY <1>0, <2>0, <2>2, <2>a, OpensEffect
  <2>3. CASE TailTakes(i)
    <3>1. PICK c \in TailTask :
            /\ tail' = [tail EXCEPT ![i] = c] /\ tail[i].open /\ tail[i].next <= Len(log)
            /\ c.open = tail[i].open /\ c.busy = (log[tail[i].next].inst # i)
      BY <1>0, <2>3, TakesEffect
    <3>2. log[tail[i].next].inst \in Writers
      <4>1. tail[i].next \in 1 .. Len(log)
        <5>1. Len(log) \in Nat /\ tail[i].next \in 1 .. Len(log) + 1
          BY <1>0, LenProperties DEF TypeOK, TailInv
        <5> QED BY <3>1, <5>1
      <4>2. log[tail[i].next] \in Notice
        BY <1>0, <4>1, ElementOfSeq DEF TypeOK
      <4> QED BY <4>2 DEF Notice
    <3> QED BY <2>a, <3>1, <3>2 DEF OneWriter
  <2>4. ASSUME NEW d \in tail[i].left, RebuildReads(i, d) PROVE WriterRight'
    <3>1. PICK c \in TailTask :
            /\ tail' = [tail EXCEPT ![i] = c] /\ c.busy = tail[i].busy /\ c.open = tail[i].open
      BY <1>0, <2>4, ReadsEffect
    <3> QED BY <2>0, <2>a, <3>1
  <2>5. ASSUME NEW d \in tail[i].left, RebuildSkips(i, d) PROVE WriterRight'
    <3>1. PICK c \in TailTask :
            /\ tail' = [tail EXCEPT ![i] = c] /\ c.busy = tail[i].busy /\ c.open = tail[i].open
      BY <1>0, <2>5, SkipsEffect
    <3> QED BY <2>0, <2>a, <3>1
  <2>6. CASE RebuildEnds(i)
    BY <1>0, <2>6, <2>a, EndsEffect
  <2>7. CASE TailFails(i)
    BY <1>0, <2>7, <2>a, FailsEffect
  <2> QED BY <1>3, <2>2, <2>3, <2>4, <2>5, <2>6, <2>7 DEF TailStep
<1>4. ASSUME NEW i \in Instances, NEW k \in unpublished[i], PublishLocal(i, k)
      PROVE  WriterRight'
  <2>1. /\ UNCHANGED <<store, log, tail>>
        /\ \A j \in Instances : unpublished'[j] = IF j = i THEN unpublished[i] \ {k} ELSE unpublished[j]
    BY <1>0, <1>4, PublishComing DEF world
  <2> QED BY <1>1, <2>1 DEF WriterRight
<1>5. ASSUME NEW i \in Writers, NEW caller \in Callers, NEW paths \in (SUBSET Docs) \ {{}}, NEW kept \in SUBSET paths,
             NEW matching \in SUBSET (kept \cap Collection), Commit(i, caller, paths, kept, matching)
      PROVE  WriterRight'
  <2>1. /\ log'[Len(log) + 1].paths = paths /\ log'[Len(log) + 1].inst = i
        /\ \A d \in paths : log'[Len(log) + 1].after[d] = store'[d]
        /\ \A d \in Docs \ paths : store'[d] = store[d]
        /\ Len(log') = Len(log) + 1 /\ Len(log) \in Nat
        /\ \A k \in 1 .. Len(log) : log'[k] = log[k]
    <3>1. paths \in SUBSET Docs
      OBVIOUS
    <3> QED BY <1>0, <1>5, <3>1, CommitEffect
  <2>2. /\ UNCHANGED tail
        /\ UNCHANGED unpublished
             \/ unpublished' = [unpublished EXCEPT ![i] = unpublished[i] \cup {Len(log) + 1}]
    BY <1>5 DEF Commit
  <2>3. i \in Instances /\ unpublished \in [Instances -> SUBSET (1 .. Len(log))]
    BY <1>0, WatchAssumption DEF TypeOK
  <2>4. \A j \in Instances : \A k \in unpublished'[j] : k \in unpublished[j] \/ (j = i /\ k = Len(log) + 1)
    BY <2>2, <2>3
  <2>5. \A j \in Instances : unpublished'[j] # {} => j \in Writers
    BY <2>4 DEF WriterRight
  <2>6. \A j \in Instances : tail'[j].busy => tail'[j].open /\ j \notin Writers
    BY <2>2 DEF WriterRight
  <2>7. ASSUME NEW j \in Instances, NEW k \in unpublished'[j], NEW d \in log'[k].paths
        PROVE  \/ log'[k].after[d] = store'[d]
               \/ \E m \in k + 1 .. Len(log') : log'[m].inst = j /\ d \in log'[m].paths
    <3>1. CASE k = Len(log) + 1
      BY <2>1, <2>7, <3>1
    <3>2. CASE k # Len(log) + 1
      <4>1. k \in unpublished[j] /\ k \in 1 .. Len(log) /\ j = i
        BY <2>3, <2>4, <2>7, <3>2 DEF WriterRight, OneWriter
      <4>2. log'[k] = log[k] /\ log[k] \in Notice
        BY <1>0, <2>1, <4>1, ElementOfSeq DEF TypeOK
      <4>3. d \in Docs /\ d \in log[k].paths
        BY <2>7, <4>2 DEF Notice
      <4>4. CASE d \in paths
        <5>1. Len(log) + 1 \in k + 1 .. Len(log')
          BY <2>1, <4>1
        <5> QED BY <2>1, <4>1, <4>4, <5>1
      <4>5. CASE d \notin paths
        <5>1. CASE log[k].after[d] = store[d]
          BY <2>1, <4>2, <4>3, <4>5, <5>1
        <5>2. ASSUME NEW m \in k + 1 .. Len(log), log[m].inst = i, d \in log[m].paths
              PROVE  \E x \in k + 1 .. Len(log') : log'[x].inst = j /\ d \in log'[x].paths
          <6>1. m \in k + 1 .. Len(log') /\ m \in 1 .. Len(log)
            BY <2>1, <4>1
          <6> QED BY <2>1, <4>1, <5>2, <6>1
        <5> QED BY <4>1, <4>3, <5>1, <5>2 DEF WriterRight
      <4> QED BY <4>4, <4>5
    <3> QED BY <3>1, <3>2
  <2> QED BY <2>5, <2>6, <2>7 DEF WriterRight
<1>6. ASSUME NEW l \in Listeners, SessionStep(l) \/ ClientStep(l)
      PROVE  UNCHANGED <<store, log, unpublished, tail>>
  BY <1>0, <1>6, SessionElsewhere DEF world
<1>7. UNCHANGED vars => UNCHANGED <<store, log, unpublished, tail>>
  BY DEF vars
<1> QED BY <1>2, <1>3, <1>4, <1>5, <1>6, <1>7, WorldMoves

\* What is ahead of a task stays so when the log grows, and a commit of another
\* process is ahead of it.
LEMMA CommitAhead ==
    ASSUME TypeOK, TailInv, NoticesOnceInOrder, NEW i \in Writers, NEW caller \in Callers, NEW paths \in SUBSET Docs,
           NEW kept \in SUBSET paths, NEW matching, Commit(i, caller, paths, kept, matching),
           NEW h \in Instances, NEW d, Ahead(h, d) \/ (h # i /\ d \in paths)
    PROVE  Ahead(h, d)'
<1>1. /\ UNCHANGED tail /\ Len(log') = Len(log) + 1 /\ Len(log) \in Nat
      /\ \A k \in 1 .. Len(log) : log'[k] = log[k]
      /\ log'[Len(log) + 1].inst = i /\ log'[Len(log) + 1].paths = paths
      /\ tail[h].next \in 1 .. Len(log) + 1
  BY CommitLeavesTails DEF TailInv
<1>2. Len(log) + 1 \in tail'[h].next .. Len(log')
  BY <1>1
<1>3. \A k \in tail[h].next .. Len(log) : k \in tail'[h].next .. Len(log') /\ log'[k] = log[k]
  BY <1>1
<1> QED BY <1>1, <1>2, <1>3 DEF Ahead

LEMMA EventStep ==
    ASSUME NoticesInv, WriterRight, EventRight, OneWriter, "readFails" \notin Faults, [Next]_vars
    PROVE  EventRight'
<1>0. TypeOK /\ TailInv /\ NoticesOnceInOrder
  BY DEF NoticesInv
<1>1. CASE UNCHANGED <<store, log, tail>>
  BY <1>1 DEF EventRight, Ahead
<1>2. ASSUME NEW i \in Instances, TailStep(i) \/ TailTakes(i) \/ TailFails(i)
      PROVE  EventRight'
  <2>1. UNCHANGED <<store, log>> /\ store \in [Docs -> RowOrMissing]
    BY <1>0, <1>2, StartedStays DEF world, TypeOK
  <2>a. ASSUME NEW c \in TailTask, tail' = [tail EXCEPT ![i] = c],
               \A d \in c.event.paths :
                 \/ d \in c.left
                 \/ \E k \in c.next .. Len(log) : log[k].inst # i /\ d \in log[k].paths
                 \/ c.event.after[d] = store[d]
        PROVE  EventRight'
    <3>1. \A j \in Instances : tail'[j] = IF j = i THEN c ELSE tail[j]
      BY <1>0, <2>a, TailMoves
    <3> SUFFICES ASSUME NEW j \in Instances, NEW d \in tail'[j].event.paths
                 PROVE  Ahead(j, d)' \/ tail'[j].event.after[d] = store[d]
      BY <2>1 DEF EventRight
    <3>2. CASE j = i
      BY <2>1, <2>a, <3>1, <3>2 DEF Ahead
    <3>3. CASE j # i
      BY <2>1, <3>1, <3>3 DEF Ahead, EventRight
    <3> QED BY <3>2, <3>3
  <2>0. /\ ~tail[i].busy => tail[i].event.paths = {}
        /\ tail[i].busy => tail[i].open
    BY <1>0 DEF TailInv, WriterRight
  <2>2. CASE TailOpens(i)
    BY <1>0, <2>0, <2>2, <2>a, OpensEffect
  <2>3. CASE TailTakes(i)
    BY <1>0, <2>0, <2>3, <2>a, TakesEffect
  <2>4. ASSUME NEW e \in tail[i].left, RebuildReads(i, e) PROVE EventRight'
    <3>1. PICK c \in TailTask :
            /\ tail' = [tail EXCEPT ![i] = c] /\ c.next = tail[i].next /\ c.left = tail[i].left \ {e}
            /\ c.event = [paths |-> tail[i].event.paths \cup {e},
                          after |-> [tail[i].event.after EXCEPT ![e] = store[e]]]
      BY <1>0, <2>4, ReadsEffect
    <3>2. tail[i].event \in Event /\ tail[i].event.paths \subseteq Docs /\ e \in Docs
          /\ tail[i].event.after \in [Docs -> RowOrMissing]
      BY <1>0 DEF TypeOK, TailTask, Event
    <3>3. /\ c.event.paths = tail[i].event.paths \cup {e}
          /\ \A d \in Docs : c.event.after[d] = IF d = e THEN store[e] ELSE tail[i].event.after[d]
      BY <3>1, <3>2
    <3>4. \A d \in tail[i].event.paths : Ahead(i, d) \/ tail[i].event.after[d] = store[d]
      BY DEF EventRight
    <3>5. ASSUME NEW d \in c.event.paths
          PROVE  \/ d \in c.left
                 \/ \E k \in c.next .. Len(log) : log[k].inst # i /\ d \in log[k].paths
                 \/ c.event.after[d] = store[d]
      BY <3>1, <3>2, <3>3, <3>4 DEF Ahead
    <3> QED BY <2>a, <3>1, <3>5
  <2>5. ASSUME NEW e \in tail[i].left, RebuildSkips(i, e) PROVE FALSE
    BY <1>0, <2>5, SkipsEffect
  <2>6. CASE RebuildEnds(i)
    BY <1>0, <2>6, <2>a, EndsEffect DEF NoEvent
  <2>7. CASE TailFails(i)
    BY <1>0, <2>0, <2>7, <2>a, FailsEffect
  <2> QED BY <1>2, <2>2, <2>3, <2>4, <2>5, <2>6, <2>7 DEF TailStep
<1>3. ASSUME NEW i \in Instances, NEW k \in unpublished[i], PublishLocal(i, k)
      PROVE  UNCHANGED <<store, log, tail>>
  BY <1>3 DEF PublishLocal, world
<1>4. ASSUME NEW i \in Writers, NEW caller \in Callers, NEW paths \in (SUBSET Docs) \ {{}}, NEW kept \in SUBSET paths,
             NEW matching \in SUBSET (kept \cap Collection), Commit(i, caller, paths, kept, matching)
      PROVE  EventRight'
  <2>1. UNCHANGED tail /\ \A d \in Docs \ paths : store'[d] = store[d]
    BY <1>0, <1>4, CommitEffect DEF Commit
  <2> SUFFICES ASSUME NEW j \in Instances, NEW d \in tail[j].event.paths
               PROVE  Ahead(j, d)' \/ tail[j].event.after[d] = store'[d]
    BY <2>1 DEF EventRight
  <2>2. j # i /\ d \in Docs
    <3>1. tail[j].busy
      BY <1>0 DEF TailInv
    <3> QED BY <1>0, <3>1 DEF WriterRight, TypeOK, TailTask, Event
  <2>3. CASE d \in paths \/ Ahead(j, d)
    BY <1>0, <1>4, <2>2, <2>3, CommitAhead
  <2>4. CASE d \notin paths /\ ~Ahead(j, d)
    BY <2>1, <2>2, <2>4 DEF EventRight
  <2> QED BY <2>3, <2>4
<1>5. ASSUME NEW l \in Listeners, SessionStep(l) \/ ClientStep(l)
      PROVE  UNCHANGED <<store, log, tail>>
  BY <1>0, <1>5, SessionElsewhere DEF world
<1>6. UNCHANGED vars => UNCHANGED <<store, log, tail>>
  BY DEF vars
<1> QED BY <1>1, <1>2, <1>3, <1>4, <1>5, <1>6, WorldMoves

\* A hub's receivers keep their order, and what is broadcast comes last.
LEMMA BroadcastOrders ==
    ASSUME TypeOK, QueueRight, NEW i \in Instances, NEW event \in Event, NEW late,
           Broadcast(i, event, late), UNCHANGED <<store, session>>,
           \A h \in Instances : \A d : Due(h, d) => Due(h, d)' \/ (h = i /\ d \in event.paths),
           \A d \in event.paths : Due(i, d)' \/ event.after[d] = store[d]
    PROVE  QueueRight'
<1> SUFFICES ASSUME NEW l \in Listeners, session[l].phase # "closed",
                    NEW n \in DOMAIN queue'[l], NEW d \in queue'[l][n].paths
             PROVE  RowRight(l, n, d)'
  BY DEF QueueRight
<1>0. Home[l] \in Instances
  BY WatchAssumption
<1>1. CASE Home[l] # i
  <2>1. queue'[l] = queue[l]
    BY <1>1, BroadcastEffect DEF TypeOK
  <2>2. RowRight(l, n, d)
    BY <2>1 DEF QueueRight
  <2>3. Due(Home[l], d) => Due(Home[l], d)'
    BY <1>0, <1>1
  <2> QED BY <2>1, <2>2, <2>3 DEF RowRight
<1>2. CASE Home[l] = i
  <2>1. PICK m \in {0, 1} :
          /\ DOMAIN queue[l] = 1 .. Len(queue[l]) /\ Len(queue[l]) \in Nat
          /\ DOMAIN queue'[l] = 1 .. Len(queue[l]) - m + 1
          /\ Len(queue[l]) - m \in Nat
          /\ queue'[l][Len(queue[l]) - m + 1] = event
          /\ \A x \in 1 .. Len(queue[l]) - m : queue'[l][x] = queue[l][x + m]
    BY <1>2, BroadcastEffect DEF TypeOK
  <2> DEFINE last == Len(queue[l]) - m + 1
  <2>2. last \in DOMAIN queue'[l] /\ queue'[l][last] = event
    BY <2>1
  <2>3. CASE n = last
    BY <1>2, <2>2, <2>3 DEF RowRight
  <2>4. CASE n # last
    <3>1. n \in 1 .. Len(queue[l]) - m /\ n < last /\ n + m \in DOMAIN queue[l]
      BY <2>1, <2>4
    <3>2. queue'[l][n] = queue[l][n + m]
      BY <2>1, <3>1
    <3>3. RowRight(l, n + m, d)
      BY <3>1, <3>2 DEF QueueRight
    <3>4. CASE Due(Home[l], d)
      <4>1. Due(Home[l], d)' \/ d \in event.paths
        BY <1>0, <3>4
      <4> QED BY <2>2, <3>1, <4>1 DEF RowRight
    <3>5. ASSUME NEW k \in DOMAIN queue[l], k > n + m, d \in queue[l][k].paths
          PROVE  RowRight(l, n, d)'
      <4>1. k - m \in 1 .. Len(queue[l]) - m /\ k - m > n /\ (k - m) + m = k
        BY <2>1, <3>1, <3>5
      <4>2. k - m \in DOMAIN queue'[l]
        BY <2>1, <4>1
      <4>3. queue'[l][k - m] = queue[l][(k - m) + m]
        BY <2>1, <4>1
      <4>4. queue'[l][k - m] = queue[l][k]
        BY <4>1, <4>3
      <4> QED BY <3>5, <4>1, <4>2, <4>4 DEF RowRight
    <3>6. CASE queue[l][n + m].after[d] = store[d]
      BY <3>2, <3>6 DEF RowRight
    <3> QED BY <3>3, <3>4, <3>5, <3>6 DEF RowRight
  <2> QED BY <2>3, <2>4
<1> QED BY <1>1, <1>2

LEMMA QueueStays ==
    ASSUME TypeOK, QueueRight, UNCHANGED <<session, queue>>,
           \A l \in Listeners : session[l].phase # "closed" =>
              \A d \in Docs : /\ Due(Home[l], d) => Due(Home[l], d)'
                              /\ store'[d] = store[d] \/ Due(Home[l], d)'
    PROVE  QueueRight'
<1> SUFFICES ASSUME NEW l \in Listeners, session[l].phase # "closed",
                    NEW n \in DOMAIN queue[l], NEW d \in queue[l][n].paths
             PROVE  RowRight(l, n, d)'
  BY DEF QueueRight
<1>1. d \in Docs
  <2>1. queue[l] \in Seq(Event)
    BY DEF TypeOK
  <2>2. queue[l][n] \in Event
    BY <2>1, ElementOfSeq, LenProperties
  <2> QED BY <2>2 DEF Event
<1>2. RowRight(l, n, d) /\ UNCHANGED queue
  BY DEF QueueRight
<1>3. /\ Due(Home[l], d) => Due(Home[l], d)'
      /\ store'[d] = store[d] \/ Due(Home[l], d)'
  BY <1>1
<1> QED BY <1>2, <1>3 DEF RowRight

LEMMA QueueStep ==
    ASSUME NoticesInv, SteadyTail, Connected, WriterRight, EventRight, QueueRight, OneWriter,
           "readFails" \notin Faults, [Next]_vars
    PROVE  QueueRight'
<1>0. TypeOK /\ TailInv /\ NoticesOnceInOrder /\ \A l \in Listeners : Home[l] \in Instances
  BY WatchAssumption DEF NoticesInv
<1>1. CASE UNCHANGED <<store, log, clock, unpublished, tail, hubs, session, view>>
  <2>1. \A h \in Instances : \A d : Due(h, d)' <=> Due(h, d)
    BY <1>1 DEF Due, Coming, Ahead, Upstream, hubs
  <2> QED BY <1>0, <1>1, <2>1, QueueStays DEF hubs
<1>2. ASSUME NEW i \in Instances, TailStep(i) \/ TailTakes(i) \/ TailFails(i)
      PROVE  QueueRight'
  <2>1. UNCHANGED <<store, log, session>>
    BY <1>0, <1>2, StartedStays DEF world
  <2>2. CASE /\ UNCHANGED hubs
             /\ \A h \in Instances : \A d : tail[h].started /\ Coming(h, d) => Coming(h, d)'
    <3>1. \A l \in Listeners : session[l].phase # "closed" => tail[Home[l]].started
      BY DEF Connected
    <3>2. \A l \in Listeners : session[l].phase # "closed" =>
             \A d \in Docs : Due(Home[l], d) => Due(Home[l], d)'
      BY <1>0, <2>2, <3>1 DEF Due, hubs
    <3> QED BY <1>0, <2>1, <2>2, <3>2, QueueStays DEF hubs
  <2>3. CASE /\ RebuildEnds(i) /\ Broadcast(i, tail[i].event, {})
             /\ \A h \in Instances : \A d :
                  /\ Coming(h, d) => Coming(h, d)' \/ (h = i /\ d \in tail[i].event.paths)
                  /\ d \in overtaken[h] => d \in overtaken'[h] \/ (h = i /\ d \in tail[i].event.paths)
    <3>1. PICK c \in TailTask : /\ tail' = [tail EXCEPT ![i] = c]
                                /\ c.next = tail[i].next /\ c.left = tail[i].left
      BY <1>0, <2>3, EndsEffect
    <3>2. tail'[i] = c
      BY <1>0, <3>1, TailMoves
    <3>3. \A d : Ahead(i, d) => Ahead(i, d)'
      BY <2>1, <3>1, <3>2 DEF Ahead
    <3>4. \A d \in tail[i].event.paths : Due(i, d)' \/ tail[i].event.after[d] = store[d]
      BY <3>3 DEF EventRight, Due, Coming
    <3>5. tail[i].event \in Event
      BY <1>0 DEF TypeOK, TailTask
    <3>6. \A h \in Instances : \A d : Due(h, d) => Due(h, d)' \/ (h = i /\ d \in tail[i].event.paths)
      BY <2>3 DEF Due
    <3> QED BY <1>0, <2>1, <2>3, <3>4, <3>5, <3>6, BroadcastOrders
  <2> QED BY <1>0, <1>2, <2>2, <2>3, TailComing
<1>3. ASSUME NEW i \in Instances, NEW k \in unpublished[i], PublishLocal(i, k)
      PROVE  QueueRight'
  <2> DEFINE event == [paths |-> log[k].paths, after |-> log[k].after]
             late == Overtaken(i, k)
  <2>1. /\ event \in Event /\ Broadcast(i, event, late) /\ UNCHANGED <<store, log, session>>
        /\ event.paths = log[k].paths /\ event.after = log[k].after
        /\ k \in 1 .. Len(log) /\ late \subseteq overtaken'[i]
        /\ unpublished'[i] = unpublished[i] \ {k}
        /\ \A h \in Instances : \A d :
             /\ Coming(h, d) => Coming(h, d)' \/ (h = i /\ d \in log[k].paths)
             /\ d \in overtaken[h] => d \in overtaken'[h] \/ (h = i /\ d \in log[k].paths)
    BY <1>0, <1>3, PublishComing DEF world
  <2>2. ASSUME NEW d \in log[k].paths
        PROVE  Due(i, d)' \/ log[k].after[d] = store[d]
    <3>1. CASE log[k].after[d] = store[d]
      BY <3>1
    <3>2. ASSUME NEW m \in k + 1 .. Len(log), log[m].inst = i, d \in log[m].paths
          PROVE  Due(i, d)'
      <4>1. m # k
        BY <2>1, LenProperties
      <4>2. CASE m \in unpublished[i]
        BY <2>1, <3>2, <4>1, <4>2 DEF Due, Coming, Upstream
      <4>3. CASE m \notin unpublished[i]
        <5>1. d \in late
          BY <2>2, <3>2, <4>3 DEF Overtaken
        <5> QED BY <2>1, <5>1 DEF Due
      <4> QED BY <4>2, <4>3
    <3> QED BY <1>3, <3>1, <3>2 DEF WriterRight
  <2>3. \A h \in Instances : \A d : Due(h, d) => Due(h, d)' \/ (h = i /\ d \in event.paths)
    BY <2>1 DEF Due
  <2> HIDE DEF event, late
  <2> QED BY <1>0, <2>1, <2>2, <2>3, BroadcastOrders
<1>4. ASSUME NEW i \in Writers, NEW caller \in Callers, NEW paths \in (SUBSET Docs) \ {{}}, NEW kept \in SUBSET paths,
             NEW matching \in SUBSET (kept \cap Collection), Commit(i, caller, paths, kept, matching)
      PROVE  QueueRight'
  <2>1. UNCHANGED <<session, queue, overtaken>> /\ \A d \in Docs \ paths : store'[d] = store[d]
    BY <1>0, <1>4, CommitEffect DEF Commit
  <2>a. \A h \in Instances : \A d : Coming(h, d) \/ d \in paths => Coming(h, d)'
    BY <1>0, <1>4, CommitComing
  <2>2. \A h \in Instances : \A d : Due(h, d) \/ d \in paths => Due(h, d)'
    BY <2>1, <2>a DEF Due
  <2> QED BY <1>0, <2>1, <2>2, QueueStays
<1>5. ASSUME NEW l \in Listeners, SessionStep(l) \/ ClientStep(l)
      PROVE  QueueRight'
  <2>1. /\ UNCHANGED <<store, log, unpublished, tail, untold, overtaken>>
        /\ \A m \in Listeners \ {l} : session'[m] = session[m] /\ queue'[m] = queue[m]
    BY <1>0, <1>5, SessionElsewhere DEF world
  <2>2. \A h \in Instances : \A d : Due(h, d)' <=> Due(h, d)
    BY <2>1 DEF Due, Coming, Ahead, Upstream
  <2> SUFFICES ASSUME NEW m \in Listeners, session'[m].phase # "closed",
                      NEW n \in DOMAIN queue'[m], NEW d \in queue'[m][n].paths
               PROVE  RowRight(m, n, d)'
    BY DEF QueueRight
  <2>a. ASSUME session[m].phase # "closed", queue'[m] = queue[m]
        PROVE  RowRight(m, n, d)'
    <3>1. RowRight(m, n, d)
      BY <2>a DEF QueueRight
    <3> QED BY <1>0, <2>1, <2>2, <2>a, <3>1 DEF RowRight
  <2>3. CASE m # l
    BY <2>1, <2>3, <2>a
  <2>4. ASSUME Connect(m) \/ HangUp(m) PROVE FALSE
    <3>1. queue'[m] = << >>
      BY <1>0, <2>4, StreamEffect
    <3> QED BY <3>1
  <2>5. ASSUME TakeEvent(m) PROVE RowRight(m, n, d)'
    <3>1. /\ session[m].phase = "idle" /\ queue[m] # << >> /\ queue'[m] = Tail(queue[m])
          /\ queue[m] \in Seq(Event)
      BY <1>0, <2>5, TakeEventEffect DEF TypeOK
    <3>2. /\ Len(queue[m]) \in Nat \ {0} /\ DOMAIN queue[m] = 1 .. Len(queue[m])
          /\ DOMAIN queue'[m] = 1 .. Len(queue[m]) - 1
          /\ \A x \in 1 .. Len(queue[m]) - 1 : queue'[m][x] = queue[m][x + 1]
      BY <3>1, HeadTailProperties, LenProperties, EmptySeq
    <3>3. n + 1 \in DOMAIN queue[m] /\ queue'[m][n] = queue[m][n + 1] /\ n \in Nat
      BY <3>2
    <3>4. RowRight(m, n + 1, d)
      BY <3>1, <3>3 DEF QueueRight
    <3>5. ASSUME NEW k \in DOMAIN queue[m], k > n + 1, d \in queue[m][k].paths
          PROVE  RowRight(m, n, d)'
      <4>1. k - 1 \in 1 .. Len(queue[m]) - 1 /\ k - 1 > n /\ (k - 1) + 1 = k
        BY <3>2, <3>3, <3>5
      <4>2. queue'[m][k - 1] = queue[m][k] /\ k - 1 \in DOMAIN queue'[m]
        BY <3>2, <4>1
      <4> QED BY <3>5, <4>1, <4>2 DEF RowRight
    <3> QED BY <1>0, <2>1, <2>2, <3>3, <3>4, <3>5 DEF RowRight
  <2>6. CASE m = l
    <3>1. ASSUME session[m].phase # "closed", UNCHANGED queue PROVE RowRight(m, n, d)'
      BY <2>a, <3>1
    <3>2. ASSUME NEW e \in session[m].left, ReadDocument(m, e) PROVE RowRight(m, n, d)'
      BY <3>1, <3>2 DEF ReadDocument, hubs
    <3>3. ASSUME SendInitial(m) PROVE RowRight(m, n, d)'
      BY <3>1, <3>3 DEF SendInitial, hubs
    <3>4. ASSUME DenyTarget(m) PROVE RowRight(m, n, d)'
      BY <3>1, <3>4 DEF DenyTarget, hubs
    <3>5. ASSUME StartResync(m) PROVE RowRight(m, n, d)'
      BY <3>1, <3>5 DEF StartResync
    <3>6. ASSUME NEW t \in session[m].todo, ResetTarget(m, t) PROVE RowRight(m, n, d)'
      BY <3>1, <3>6 DEF ResetTarget, hubs
    <3>7. ASSUME EventToDocuments(m) PROVE RowRight(m, n, d)'
      BY <3>1, <3>7 DEF EventToDocuments, hubs
    <3>8. ASSUME EventToQuery(m) PROVE RowRight(m, n, d)'
      BY <3>1, <3>8 DEF EventToQuery, hubs
    <3>9. ASSUME NEW t \in Targets, AddTarget(m, t) PROVE RowRight(m, n, d)'
      BY <3>1, <3>9 DEF AddTarget, hubs
    <3>10. ASSUME NEW t \in Targets, RemoveTarget(m, t) PROVE RowRight(m, n, d)'
      BY <3>1, <3>10 DEF RemoveTarget, hubs
    <3> QED BY <1>5, <2>4, <2>5, <2>6, <3>2, <3>3, <3>4, <3>5, <3>6, <3>7, <3>8, <3>9, <3>10
            DEF SessionStep, ClientStep
  <2> QED BY <2>3, <2>6
<1>6. UNCHANGED vars => UNCHANGED <<store, log, clock, unpublished, tail, hubs, session, view>>
  BY DEF vars, world, hubs
<1> QED BY <1>1, <1>2, <1>3, <1>4, <1>5, <1>6, WorldMoves

LEMMA WatchedStep ==
    ASSUME TypeOK, WatchedOnly, [Next]_vars
    PROVE  WatchedOnly'
<1> DEFINE Only(m) == /\ session'[m].left \subseteq Watched
                      /\ \A d \in Docs \ Watched :
                           /\ session'[m].got[d] = Missing
                           /\ "documents" \in Targets => view'[m]["documents"][d] = Missing
<1>1. CASE UNCHANGED <<session, view>>
  BY <1>1 DEF WatchedOnly
<1>2. ASSUME NEW l \in Listeners, SessionStep(l) \/ ClientStep(l)
      PROVE  WatchedOnly'
  <2>1. \A m \in Listeners \ {l} : session'[m] = session[m] /\ view'[m] = view[m]
    BY <1>2, SessionElsewhere
  <2>2. \A m \in Listeners \ {l} : Only(m)
    BY <2>1 DEF WatchedOnly
  <2>3. /\ session[l].left \subseteq Watched
        /\ \A d \in Docs \ Watched :
             /\ session[l].got[d] = Missing
             /\ "documents" \in Targets => view[l]["documents"][d] = Missing
    BY DEF WatchedOnly
  <2>4. \A d \in Docs : Nothing[d] = Missing
    BY DEF Nothing
  <2>a. ASSUME session'[l].left \subseteq session[l].left \/ session'[l].left \subseteq Watched,
               session'[l].got = session[l].got \/ session'[l].got = Nothing,
               "documents" \in Targets =>
                  view'[l]["documents"] \in {view[l]["documents"], session[l].got, Nothing}
        PROVE  Only(l)
    BY <2>3, <2>4, <2>a
  <2>5. ASSUME Connect(l) \/ HangUp(l) PROVE Only(l)
    BY <2>5, <2>a, StreamEffect
  <2>6. ASSUME NEW e \in session[l].left, ReadDocument(l, e) PROVE Only(l)
    <3>1. /\ session'[l].left = session[l].left \ {e} /\ UNCHANGED view
          /\ \A d \in Docs : session'[l].got[d] = IF d = e THEN store[d] ELSE session[l].got[d]
      BY <2>6, ReadDocumentEffect
    <3> QED BY <2>3, <3>1
  <2>7. ASSUME SendInitial(l) PROVE Only(l)
    BY <2>7, <2>a, SendInitialEffect
  <2>8. ASSUME DenyTarget(l) PROVE Only(l)
    BY <2>8, <2>a, DenyTargetEffect
  <2>9. ASSUME StartResync(l) PROVE Only(l)
    BY <2>9, <2>a, StartResyncEffect
  <2>10. ASSUME NEW t \in session[l].todo, ResetTarget(l, t) PROVE Only(l)
    BY <2>10, <2>a, ResetTargetEffect
  <2>11. ASSUME TakeEvent(l) PROVE Only(l)
    BY <2>11, <2>a, TakeEventEffect
  <2>12. ASSUME EventToDocuments(l) PROVE Only(l)
    <3>1. /\ session'[l].left = session[l].left /\ session'[l].got = session[l].got
          /\ \A d \in Docs \ Watched : view'[l]["documents"][d] = view[l]["documents"][d]
      BY <2>12, EventToDocumentsEffect
    <3> QED BY <2>3, <3>1
  <2>13. ASSUME EventToQuery(l) PROVE Only(l)
    BY <2>13, <2>a, EventToQueryEffect
  <2>14. ASSUME NEW t \in Targets, AddTarget(l, t) PROVE Only(l)
    BY <2>14, <2>a, AddTargetEffect
  <2>15. ASSUME NEW t \in Targets, RemoveTarget(l, t) PROVE Only(l)
    BY <2>15, <2>a, RemoveTargetEffect
  <2> HIDE DEF Only
  <2>16. Only(l)
    BY <1>2, <2>5, <2>6, <2>7, <2>8, <2>9, <2>10, <2>11, <2>12, <2>13, <2>14, <2>15 DEF SessionStep, ClientStep
  <2> QED BY <2>2, <2>16 DEF Only, WatchedOnly
<1>3. ASSUME NEW i \in Instances, TailStep(i) \/ TailTakes(i) \/ TailFails(i)
      PROVE  UNCHANGED <<session, view>>
  BY <1>3, StartedStays
<1>4. ASSUME NEW i \in Instances, NEW k \in unpublished[i], PublishLocal(i, k)
      PROVE  UNCHANGED <<session, view>>
  BY <1>4 DEF PublishLocal
<1>5. ASSUME NEW i \in Writers, NEW caller \in Callers, NEW paths \in (SUBSET Docs) \ {{}}, NEW kept \in SUBSET paths,
             NEW matching \in SUBSET (kept \cap Collection), Commit(i, caller, paths, kept, matching)
      PROVE  UNCHANGED <<session, view>>
  BY <1>5 DEF Commit
<1>6. UNCHANGED vars => UNCHANGED <<session, view>>
  BY DEF vars
<1> QED BY <1>1, <1>2, <1>3, <1>4, <1>5, <1>6, WorldMoves

\* At its own stream, a session goes on owing what it owes, and takes rows from
\* events only where they are the newest it has.
LEMMA DocumentsSession ==
    ASSUME TypeOK, QueueRight, NEW l \in Listeners, SessionStep(l) \/ ClientStep(l),
           "documents" \in session'[l].targets, NEW d \in Watched,
           "documents" \in session[l].targets => DocumentRight(l, d)
    PROVE  DocumentRight(l, d)'
<1>0. /\ UNCHANGED <<store, log, unpublished, tail, untold, overtaken>> /\ session[l] \in Session
      /\ d \in Docs /\ session[l].targets \subseteq Targets
  BY SessionElsewhere, WatchAssumption DEF world, TypeOK, Session
<1>1. ASSUME UNCHANGED hubs PROVE OnItsWay(l, d) => OnItsWay(l, d)'
  BY <1>0, <1>1, OnItsWayStays DEF hubs
<1>2. ASSUME ToRead(l, d)' PROVE DocumentRight(l, d)'
  BY <1>2 DEF DocumentRight
<1>3. ASSUME UNCHANGED hubs, "documents" \in session[l].targets,
             ToRead(l, d) => ToRead(l, d)',
             WillShow(l, "documents", d)' <=> WillShow(l, "documents", d),
             WillShow(l, "documents", d) => session'[l].event = session[l].event,
             ~WillShow(l, "documents", d) => Held(l)'[d] = Held(l)[d]
      PROVE  DocumentRight(l, d)'
  BY <1>0, <1>1, <1>3 DEF DocumentRight
<1>4. ASSUME Connect(l) \/ HangUp(l) PROVE FALSE
  BY <1>4, StreamEffect
<1>5. ASSUME NEW e \in session[l].left, ReadDocument(l, e) PROVE DocumentRight(l, d)'
  <2>1. /\ session[l].phase = "initial" /\ session'[l].phase = "initial"
        /\ session'[l].targets = session[l].targets /\ session'[l].todo = session[l].todo
        /\ session'[l].target = session[l].target /\ session'[l].left = session[l].left \ {e}
        /\ session'[l].got[d] = IF d = e THEN store[e] ELSE session[l].got[d]
        /\ UNCHANGED <<hubs, view>>
    BY <1>0, <1>5, ReadDocumentEffect
  <2>2. ~WillShow(l, "documents", d) /\ ~WillShow(l, "documents", d)'
    BY <2>1 DEF WillShow
  <2>3. CASE session[l].target = "documents" /\ d = e
    <3>1. Held(l)'[d] = store'[d]
      BY <1>0, <2>1, <2>3 DEF Held
    <3> QED BY <2>2, <3>1 DEF DocumentRight
  <2>4. CASE session[l].target = "documents" /\ d # e
    BY <1>3, <2>1, <2>2, <2>4 DEF ToRead, Held
  <2>5. CASE session[l].target # "documents"
    BY <1>3, <2>1, <2>2, <2>5 DEF ToRead, Held
  <2> QED BY <2>3, <2>4, <2>5
<1>6. ASSUME SendInitial(l) PROVE DocumentRight(l, d)'
  <2>1. /\ session[l].phase = "initial" /\ session[l].left = {}
        /\ session'[l].phase = IF session[l].todo = {} THEN "idle" ELSE "resync"
        /\ session'[l].targets = session[l].targets /\ session'[l].todo = session[l].todo
        /\ view'[l]["documents"] = IF session[l].target = "documents" THEN session[l].got
                                   ELSE view[l]["documents"]
        /\ UNCHANGED hubs
    BY <1>0, <1>6, SendInitialEffect
  <2>2. ~WillShow(l, "documents", d) /\ ~WillShow(l, "documents", d)'
    BY <2>1 DEF WillShow
  <2>3. Held(l)' = Held(l)
    BY <2>1 DEF Held
  <2>4. ToRead(l, d) => ToRead(l, d)'
    BY <2>1 DEF ToRead
  <2> QED BY <1>3, <2>1, <2>2, <2>3, <2>4
<1>7. ASSUME DenyTarget(l) PROVE DocumentRight(l, d)'
  <2>1. /\ session[l].phase = "initial"
        /\ session'[l].phase = IF session[l].todo = {} THEN "idle" ELSE "resync"
        /\ session'[l].targets = session[l].targets \ {session[l].target}
        /\ session'[l].todo = session[l].todo /\ UNCHANGED <<hubs, view>>
    BY <1>7, DenyTargetEffect
  <2>2. session[l].target # "documents"
    BY <2>1
  <2> QED BY <1>3, <2>1, <2>2 DEF ToRead, Held, WillShow
<1>8. ASSUME StartResync(l) PROVE DocumentRight(l, d)'
  BY <1>8, <1>2, StartResyncEffect DEF ToRead
<1>9. ASSUME NEW t \in session[l].todo, ResetTarget(l, t) PROVE DocumentRight(l, d)'
  <2>1. /\ session[l].phase = "resync" /\ session'[l].phase = "initial"
        /\ session'[l].target = t /\ session'[l].todo = session[l].todo \ {t}
        /\ session'[l].targets = session[l].targets /\ UNCHANGED hubs
        /\ session'[l].left = (IF t = "documents" THEN Watched ELSE {})
        /\ t # "documents" => view'[l]["documents"] = view[l]["documents"]
    BY <1>0, <1>9, ResetTargetEffect
  <2>2. CASE t = "documents"
    BY <1>2, <2>1, <2>2 DEF ToRead
  <2>3. CASE t # "documents"
    BY <1>3, <2>1, <2>3 DEF ToRead, Held, WillShow
  <2> QED BY <2>2, <2>3
<1>10. ASSUME TakeEvent(l) PROVE DocumentRight(l, d)'
  <2>1. /\ session[l].phase = "idle" /\ queue[l] # << >> /\ queue[l] \in Seq(Event)
        /\ queue'[l] = Tail(queue[l]) /\ UNCHANGED view
        /\ session'[l].targets = session[l].targets
        /\ session'[l].phase = "event" /\ session'[l].event = Head(queue[l])
        /\ session'[l].todo = session[l].targets
    BY <1>10, TakeEventEffect DEF TypeOK
  <2>2. OnItsWay(l, d) => OnItsWay(l, d)' \/ WillShow(l, "documents", d)'
    BY <1>10, <2>1, TakeEventCarries DEF WillShow
  <2>3. ~WillShow(l, "documents", d) /\ ~ToRead(l, d)
    BY <2>1 DEF WillShow, ToRead
  <2>4. Held(l)' = Held(l)
    BY <2>1 DEF Held
  <2>5. CASE ~WillShow(l, "documents", d)'
    BY <1>0, <2>1, <2>2, <2>3, <2>4, <2>5 DEF DocumentRight
  <2>6. CASE WillShow(l, "documents", d)'
    <3>1. /\ Len(queue[l]) \in Nat \ {0} /\ DOMAIN queue[l] = 1 .. Len(queue[l])
          /\ Head(queue[l]) = queue[l][1] /\ DOMAIN queue'[l] = 1 .. Len(queue[l]) - 1
          /\ \A n \in 1 .. Len(queue[l]) - 1 : queue'[l][n] = queue[l][n + 1]
      BY <2>1, HeadTailProperties, LenProperties, EmptySeq
    <3>2. d \in queue[l][1].paths /\ 1 \in DOMAIN queue[l]
      BY <2>1, <2>6, <3>1 DEF WillShow
    <3>3. RowRight(l, 1, d)
      BY <2>1, <3>2 DEF QueueRight
    <3>4. CASE Due(Home[l], d)
      <4>1. Due(Home[l], d)'
        BY <1>0, <3>4 DEF Due, Coming, Ahead, Upstream
      <4> QED BY <4>1 DEF Due, OnItsWay, DocumentRight
    <3>5. ASSUME NEW m \in DOMAIN queue[l], m > 1, d \in queue[l][m].paths
          PROVE  DocumentRight(l, d)'
      <4>1. m - 1 \in 1 .. Len(queue[l]) - 1 /\ (m - 1) + 1 = m
        BY <3>1, <3>5
      <4>2. m - 1 \in DOMAIN queue'[l] /\ queue'[l][m - 1] = queue[l][(m - 1) + 1]
        BY <3>1, <4>1
      <4>3. queue'[l][m - 1] = queue[l][m]
        BY <4>1, <4>2
      <4> QED BY <3>5, <4>2, <4>3 DEF OnItsWay, Queued, DocumentRight
    <3>6. CASE queue[l][1].after[d] = store[d]
      BY <1>0, <2>1, <2>6, <3>1, <3>6 DEF DocumentRight
    <3> QED BY <3>3, <3>4, <3>5, <3>6 DEF RowRight
  <2> QED BY <2>5, <2>6
<1>11. ASSUME EventToDocuments(l) PROVE DocumentRight(l, d)'
  <2>1. /\ session[l].phase = "event" /\ "documents" \in session[l].todo
        /\ session'[l].phase = IF session[l].todo = {"documents"} THEN "idle" ELSE "event"
        /\ session'[l].todo = session[l].todo \ {"documents"}
        /\ session'[l].targets = session[l].targets
        /\ view'[l]["documents"][d] = IF d \in session[l].event.paths
                                      THEN session[l].event.after[d] ELSE view[l]["documents"][d]
        /\ UNCHANGED hubs
    BY <1>0, <1>11, EventToDocumentsEffect
  <2>2. /\ ~WillShow(l, "documents", d)' /\ ~ToRead(l, d) /\ Held(l)' = view'[l]["documents"]
        /\ Held(l) = view[l]["documents"]
        /\ WillShow(l, "documents", d) <=> d \in session[l].event.paths
    BY <2>1 DEF WillShow, ToRead, Held
  <2> QED BY <1>0, <1>1, <2>1, <2>2 DEF DocumentRight
<1>12. ASSUME EventToQuery(l) PROVE DocumentRight(l, d)'
  <2>1. /\ session[l].phase = "event" /\ "query" \in session[l].todo
        /\ session'[l].phase = IF session[l].todo = {"query"} THEN "idle" ELSE "event"
        /\ session'[l].todo = session[l].todo \ {"query"}
        /\ session'[l].targets = session[l].targets
        /\ session[l].todo # {"query"} => session'[l].event = session[l].event
        /\ view'[l]["documents"] = view[l]["documents"] /\ UNCHANGED hubs
    BY <1>0, <1>12, EventToQueryEffect
  <2> QED BY <1>3, <2>1 DEF WillShow, ToRead, Held
<1>13. ASSUME NEW t \in Targets, AddTarget(l, t) PROVE DocumentRight(l, d)'
  <2>1. /\ session[l].phase = "idle" /\ session'[l].phase = "initial"
        /\ session'[l].target = t /\ session'[l].todo = {}
        /\ session'[l].targets = session[l].targets \cup {t} /\ UNCHANGED hubs
        /\ session'[l].left = (IF t = "documents" THEN Watched ELSE {})
    BY <1>13, AddTargetEffect
  <2>2. CASE t = "documents"
    BY <1>2, <2>1, <2>2 DEF ToRead
  <2>3. CASE t # "documents"
    <3>1. "documents" \in session[l].targets
      BY <2>1, <2>3
    <3>2. view'[l]["documents"] = view[l]["documents"]
      BY <1>0, <1>13, <2>3, <3>1, AddTargetEffect
    <3> QED BY <1>3, <2>1, <2>3, <3>1, <3>2 DEF ToRead, Held, WillShow
  <2> QED BY <2>2, <2>3
<1>14. ASSUME NEW t \in Targets, RemoveTarget(l, t) PROVE DocumentRight(l, d)'
  BY <1>14, <1>3, RemoveTargetEffect DEF ToRead, Held, WillShow
<1> QED BY <1>4, <1>5, <1>6, <1>7, <1>8, <1>9, <1>10, <1>11, <1>12, <1>13, <1>14 DEF SessionStep, ClientStep

LEMMA DocumentsStep ==
    ASSUME NoticesInv, SteadyTail, Connected, QueueRight, DocumentsInv, "readFails" \notin Faults, [Next]_vars
    PROVE  DocumentsInv'
<1>0. TypeOK /\ TailInv /\ NoticesOnceInOrder
  BY DEF NoticesInv
<1> DEFINE Owes(l, d) == OnItsWay(l, d) \/ d \in overtaken[Home[l]]
<1>1. ASSUME UNCHANGED <<session, view>>,
             \A l \in Listeners, d \in Watched :
                /\ session[l].phase # "closed" /\ Owes(l, d) => Owes(l, d)'
                /\ store'[d] = store[d] \/ OnItsWay(l, d)'
      PROVE  DocumentsInv'
  <2> SUFFICES ASSUME NEW l \in Listeners, "documents" \in session[l].targets, NEW d \in Watched
               PROVE  DocumentRight(l, d)'
    BY <1>1 DEF DocumentsInv
  <2>1. DocumentRight(l, d) /\ session[l].phase # "closed"
    BY DEF DocumentsInv, Connected
  <2>2. /\ Owes(l, d) => Owes(l, d)'
        /\ store'[d] = store[d] \/ OnItsWay(l, d)'
    BY <1>1, <2>1
  <2>3. /\ WillShow(l, "documents", d)' = WillShow(l, "documents", d)
        /\ ToRead(l, d)' = ToRead(l, d) /\ Held(l)' = Held(l)
    BY <1>1 DEF WillShow, ToRead, Held
  <2> QED BY <1>1, <2>1, <2>2, <2>3 DEF DocumentRight
<1>2. CASE UNCHANGED <<store, log, clock, unpublished, tail, hubs, session, view>>
  <2>1. \A l \in Listeners, d \in Watched : Owes(l, d) => Owes(l, d)'
    BY <1>2, OnItsWayStays DEF hubs
  <2> QED BY <1>1, <1>2, <2>1
<1>a. \A l \in Listeners : Home[l] \in Instances
  BY WatchAssumption
<1>3. ASSUME NEW i \in Instances, TailStep(i) \/ TailTakes(i) \/ TailFails(i)
      PROVE  DocumentsInv'
  <2>1. UNCHANGED <<store, session, view>>
    BY <1>0, <1>3, StartedStays DEF world
  <2>2. \A l \in Listeners, d \in Watched :
           session[l].phase # "closed" /\ OnItsWay(l, d) => OnItsWay(l, d)'
    BY <1>0, <1>3, TailCarries DEF Connected
  <2>3. \A l \in Listeners, d \in Watched :
           session[l].phase # "closed" /\ d \in overtaken[Home[l]] => Owes(l, d)'
    <3>1. CASE UNCHANGED hubs
      BY <3>1 DEF hubs
    <3>2. CASE /\ Broadcast(i, tail[i].event, {})
               /\ \A h \in Instances : \A d :
                    d \in overtaken[h] => d \in overtaken'[h] \/ (h = i /\ d \in tail[i].event.paths)
      <4>1. tail[i].event \in Event
        BY <1>0 DEF TypeOK, TailTask
      <4>2. \A l \in Listeners, d \in Watched :
               Home[l] = i /\ session[l].phase # "closed" /\ d \in tail[i].event.paths => Queued(l, d)'
        BY <1>0, <3>2, <4>1, BroadcastCarries
      <4> QED BY <1>a, <3>2, <4>2 DEF OnItsWay
    <3> QED BY <1>0, <1>3, <3>1, <3>2, TailComing
  <2> QED BY <1>1, <2>1, <2>2, <2>3
<1>4. ASSUME NEW i \in Instances, NEW k \in unpublished[i], PublishLocal(i, k)
      PROVE  DocumentsInv'
  <2>1. UNCHANGED <<store, session, view>>
    BY <1>4 DEF PublishLocal, world
  <2>2. \A l \in Listeners, d \in Watched :
           session[l].phase # "closed" /\ OnItsWay(l, d) => OnItsWay(l, d)'
    BY <1>0, <1>4, PublishCarries
  <2>3. \A l \in Listeners, d \in Watched :
           session[l].phase # "closed" /\ d \in overtaken[Home[l]] => Owes(l, d)'
    <3> DEFINE event == [paths |-> log[k].paths, after |-> log[k].after]
               late == Overtaken(i, k)
    <3>1. /\ event \in Event /\ event.paths = log[k].paths /\ Broadcast(i, event, late)
          /\ \A h \in Instances : \A d :
               d \in overtaken[h] => d \in overtaken'[h] \/ (h = i /\ d \in log[k].paths)
      BY <1>0, <1>4, PublishComing
    <3> HIDE DEF event, late
    <3>2. \A l \in Listeners, d \in Watched :
             Home[l] = i /\ session[l].phase # "closed" /\ d \in event.paths => Queued(l, d)'
      BY <1>0, <3>1, BroadcastCarries
    <3> QED BY <1>a, <3>1, <3>2 DEF OnItsWay
  <2> QED BY <1>1, <2>1, <2>2, <2>3
<1>5. ASSUME NEW i \in Writers, NEW caller \in Callers, NEW paths \in (SUBSET Docs) \ {{}}, NEW kept \in SUBSET paths,
             NEW matching \in SUBSET (kept \cap Collection), Commit(i, caller, paths, kept, matching)
      PROVE  DocumentsInv'
  <2>1. UNCHANGED <<session, view, overtaken>> /\ \A d \in Docs \ paths : store'[d] = store[d]
    BY <1>0, <1>5, CommitEffect DEF Commit
  <2>2. \A l \in Listeners, d \in Watched : OnItsWay(l, d) \/ d \in paths => OnItsWay(l, d)'
    BY <1>0, <1>5, CommitCarries
  <2>3. Watched \subseteq Docs
    BY WatchAssumption
  <2> QED BY <1>1, <2>1, <2>2, <2>3
<1>6. ASSUME NEW l \in Listeners, SessionStep(l) \/ ClientStep(l)
      PROVE  DocumentsInv'
  <2>1. /\ UNCHANGED <<store, log, unpublished, tail, untold, overtaken>>
        /\ \A m \in Listeners \ {l} :
             session'[m] = session[m] /\ queue'[m] = queue[m] /\ lagged'[m] = lagged[m] /\ view'[m] = view[m]
    BY <1>0, <1>6, SessionElsewhere DEF world
  <2> SUFFICES ASSUME NEW m \in Listeners, "documents" \in session'[m].targets, NEW d \in Watched
               PROVE  DocumentRight(m, d)'
    BY DEF DocumentsInv
  <2>2. CASE m = l
    <3>1. "documents" \in session[l].targets => DocumentRight(l, d)
      BY DEF DocumentsInv
    <3> QED BY <1>0, <1>6, <2>2, <3>1, DocumentsSession
  <2>3. CASE m # l
    <3>1. /\ session'[m] = session[m] /\ view'[m] = view[m]
          /\ queue'[m] = queue[m] /\ lagged'[m] = lagged[m]
      BY <2>1, <2>3
    <3>2. DocumentRight(m, d)
      BY <3>1 DEF DocumentsInv
    <3>3. OnItsWay(m, d) => OnItsWay(m, d)'
      BY <2>1, <3>1, OnItsWayStays
    <3>4. /\ WillShow(m, "documents", d)' = WillShow(m, "documents", d)
          /\ ToRead(m, d)' = ToRead(m, d) /\ Held(m)' = Held(m)
      BY <3>1 DEF WillShow, ToRead, Held
    <3> QED BY <2>1, <3>1, <3>2, <3>3, <3>4 DEF DocumentRight
  <2> QED BY <2>2, <2>3
<1>7. UNCHANGED vars => UNCHANGED <<store, log, clock, unpublished, tail, hubs, session, view>>
  BY DEF vars, world, hubs
<1> QED BY <1>2, <1>3, <1>4, <1>5, <1>6, <1>7, WorldMoves

\* With nothing on its way to it, a document listener has the stored rows.
LEMMA NoDocumentOwed ==
    ASSUME NoticesInv, WatchedOnly, DocumentsInv, NEW l \in Listeners, Quiescent(l),
           "documents" \in session[l].targets
    PROVE  DocumentsCurrent(l)
<1>0. TypeOK /\ TailInv /\ Home[l] \in Instances
  BY WatchAssumption DEF NoticesInv
<1>1. /\ session[l].phase = "idle" /\ \A d : d \notin untold[Home[l]] => ~OnItsWay(l, d)
  BY <1>0, NothingComing DEF Quiescent
<1>2. "documents" \in Targets
  BY <1>0 DEF TypeOK, Session
<1>3. \A d \in Watched \ (untold[Home[l]] \cup overtaken[Home[l]]) :
         view[l]["documents"][d] = store[d]
  BY <1>1 DEF DocumentsInv, DocumentRight, ToRead, WillShow, Held
<1>4. \A d \in Docs \ Watched : view[l]["documents"][d] = Missing
  BY <1>2 DEF WatchedOnly
<1> QED BY <1>3, <1>4 DEF DocumentsCurrent, Restricted

\* The same of document listeners, which apply the rows of events in the order they
\* come, as long as one process receives all commits: with nothing on its way to it, a
\* stream has the stored row of each document, but for those the last commit to change
\* which was never published, and those its hub heard of last by a commit that another
\* had overtaken (both in the listener's own process only).
THEOREM DocumentListenersConverge ==
    ASSUME OneWriter, Faults \cap {"earlyListen", "earlyFailure", "readFails"} = {}
    PROVE  Spec => []DocumentsConverge
<1> DEFINE Inv == Connected /\ WriterRight /\ EventRight /\ QueueRight /\ WatchedOnly /\ DocumentsInv
<1>1. Init => Inv
  <2> SUFFICES ASSUME Init PROVE Inv
    OBVIOUS
  <2>1. /\ \A l \in Listeners : /\ session[l].phase = "closed" /\ session[l].targets = {}
                                /\ session[l].left = {} /\ session[l].got = Nothing
        /\ \A l \in Listeners : \A t \in Targets : view[l][t] = Nothing
        /\ \A i \in Instances : ~tail[i].busy /\ tail[i].event.paths = {} /\ unpublished[i] = {}
        /\ \A d \in Docs : Nothing[d] = Missing
    BY DEF Init, Idle, Nothing, NoEvent
  <2> QED BY <2>1 DEF Connected, WriterRight, EventRight, QueueRight, WatchedOnly, DocumentsInv
<1>2. NoticesInv /\ SteadyTail /\ Inv /\ [Next]_vars => Inv'
  <2> SUFFICES ASSUME NoticesInv, SteadyTail, Connected, WriterRight, EventRight, QueueRight,
                      WatchedOnly, DocumentsInv, [Next]_vars
               PROVE  /\ Connected' /\ WriterRight' /\ EventRight' /\ QueueRight'
                      /\ WatchedOnly' /\ DocumentsInv'
    OBVIOUS
  <2>1. TypeOK
    BY DEF NoticesInv
  <2>2. Connected'
    BY <2>1, ConnectedStep
  <2>3. WriterRight'
    BY WriterStep
  <2>4. EventRight'
    BY EventStep
  <2>5. QueueRight'
    BY QueueStep
  <2>6. WatchedOnly'
    BY <2>1, WatchedStep
  <2>7. DocumentsInv'
    BY DocumentsStep
  <2> QED BY <2>2, <2>3, <2>4, <2>5, <2>6, <2>7
<1>3. NoticesInv /\ Inv => DocumentsConverge
  BY NoDocumentOwed DEF DocumentsConverge
<1>4. Spec => []NoticesInv /\ []SteadyTail
  BY NoticesInvariant, SteadyInvariant
<1> HIDE DEF Inv
<1> QED BY <1>1, <1>2, <1>3, <1>4, PTL DEF Spec

\* Under the commit lock a process has at most one commit to publish, its newest.
LockRight ==
    \A i \in Instances :
        /\ untold[i] = {} /\ overtaken[i] = {}
        /\ \A k \in unpublished[i] :
             log[k].locked /\ \A m \in k + 1 .. Len(log) : log[m].inst # i

LEMMA LockStep ==
    ASSUME NoticesInv, LockRight, Callers \subseteq {"lockKept"}, [Next]_vars
    PROVE  LockRight'
<1>0. TypeOK /\ TailInv /\ NoticesOnceInOrder /\ Len(log) \in Nat
  BY LenProperties DEF NoticesInv, TypeOK
<1>1. CASE UNCHANGED <<log, unpublished, untold, overtaken>>
  BY <1>1 DEF LockRight
<1>2. ASSUME NEW i \in Instances, TailStep(i) \/ TailTakes(i) \/ TailFails(i)
      PROVE  LockRight'
  <2>1. UNCHANGED <<log, unpublished>>
    BY <1>0, <1>2, StartedStays DEF world
  <2>2. UNCHANGED hubs \/ Broadcast(i, tail[i].event, {})
    <3>1. CASE RebuildEnds(i)
      BY <3>1 DEF RebuildEnds
    <3>2. CASE ~RebuildEnds(i)
      BY <1>2, <3>2 DEF TailStep, TailOpens, TailTakes, TailFails, RebuildReads, RebuildSkips
    <3> QED BY <3>1, <3>2
  <2>3. CASE Broadcast(i, tail[i].event, {})
    <3>1. tail[i].event \in Event /\ {} \in SUBSET Docs
      BY <1>0 DEF TypeOK, TailTask
    <3>2. \A j \in Instances :
             /\ untold'[j] = IF j = i THEN untold[j] \ tail[i].event.paths ELSE untold[j]
             /\ overtaken'[j] = IF j = i THEN (overtaken[j] \ tail[i].event.paths) \cup {}
                                ELSE overtaken[j]
      BY <1>0, <2>3, <3>1, HearsEffect
    <3>3. \A j \in Instances : untold'[j] = {} /\ overtaken'[j] = {}
      BY <3>2 DEF LockRight
    <3> QED BY <2>1, <3>3 DEF LockRight
  <2> QED BY <1>1, <2>1, <2>2, <2>3 DEF hubs
<1>3. ASSUME NEW i \in Instances, NEW k \in unpublished[i], PublishLocal(i, k)
      PROVE  LockRight'
  <2> DEFINE event == [paths |-> log[k].paths, after |-> log[k].after]
             late == Overtaken(i, k)
  <2>1. /\ event \in Event /\ Broadcast(i, event, late) /\ UNCHANGED log
        /\ \A j \in Instances : unpublished'[j] \subseteq unpublished[j]
    BY <1>0, <1>3, PublishComing DEF world
  <2>2. late = {}
    BY <1>3 DEF LockRight, Overtaken
  <2>a. late \in SUBSET Docs
    BY <2>2
  <2> HIDE DEF event, late
  <2>3. \A j \in Instances :
           /\ untold'[j] = IF j = i THEN untold[j] \ event.paths ELSE untold[j]
           /\ overtaken'[j] = IF j = i THEN (overtaken[j] \ event.paths) \cup late
                              ELSE overtaken[j]
    BY <1>0, <2>1, <2>a, HearsEffect
  <2>4. \A j \in Instances : untold'[j] = {} /\ overtaken'[j] = {}
    BY <2>2, <2>3 DEF LockRight
  <2> QED BY <2>1, <2>4 DEF LockRight
<1>4. ASSUME NEW i \in Writers, NEW caller \in Callers, NEW paths \in (SUBSET Docs) \ {{}}, NEW kept \in SUBSET paths,
             NEW matching \in SUBSET (kept \cap Collection), Commit(i, caller, paths, kept, matching)
      PROVE  LockRight'
  <2>1. /\ Len(log') = Len(log) + 1 /\ log'[Len(log) + 1].inst = i
        /\ log'[Len(log) + 1].locked = (caller = "lockKept")
        /\ \A k \in 1 .. Len(log) : log'[k] = log[k]
    BY <1>0, <1>4, CommitEffect
  <2>2. i \in Instances /\ unpublished \in [Instances -> SUBSET (1 .. Len(log))] /\ caller = "lockKept"
    BY <1>0, WatchAssumption DEF TypeOK
  <2>3. /\ unpublished' = [unpublished EXCEPT ![i] = unpublished[i] \cup {Len(log) + 1}]
        /\ UNCHANGED <<untold, overtaken>>
        /\ \A k \in unpublished[i] : ~log[k].locked
    BY <1>4, <2>2 DEF Commit
  <2>4. unpublished[i] = {}
    BY <2>2, <2>3 DEF LockRight
  <2> SUFFICES ASSUME NEW j \in Instances, NEW k \in unpublished'[j]
               PROVE  log'[k].locked /\ \A m \in k + 1 .. Len(log') : log'[m].inst # j
    BY <2>3 DEF LockRight
  <2>5. CASE j = i
    <3>1. k = Len(log) + 1
      BY <2>2, <2>3, <2>4, <2>5
    <3>2. k + 1 .. Len(log') = {}
      BY <1>0, <2>1, <3>1
    <3> QED BY <2>1, <2>2, <3>1, <3>2
  <2>6. CASE j # i
    <3>1. k \in unpublished[j] /\ k \in 1 .. Len(log)
      BY <2>2, <2>3, <2>6
    <3>2. \A m \in k + 1 .. Len(log') : m \in k + 1 .. Len(log) \/ m = Len(log) + 1
      BY <1>0, <2>1, <3>1
    <3>3. \A m \in k + 1 .. Len(log) : m \in 1 .. Len(log)
      BY <1>0, <3>1
    <3> QED BY <2>1, <2>6, <3>1, <3>2, <3>3 DEF LockRight
  <2> QED BY <2>5, <2>6
<1>5. ASSUME NEW l \in Listeners, SessionStep(l) \/ ClientStep(l)
      PROVE  UNCHANGED <<log, unpublished, untold, overtaken>>
  BY <1>0, <1>5, SessionElsewhere DEF world
<1>6. CASE UNCHANGED <<store, log, clock, unpublished, tail, hubs, session, view>>
  BY <1>1, <1>6 DEF hubs
<1>7. UNCHANGED vars => UNCHANGED <<store, log, clock, unpublished, tail, hubs, session, view>>
  BY DEF vars, world, hubs
<1> QED BY <1>1, <1>2, <1>3, <1>4, <1>5, <1>6, <1>7, WorldMoves

\* Where every commit is a Commit call that learns its outcome and publishes with the
\* commit lock in its hands, neither exception arises: a document listener that nothing
\* is on its way to has the stored row of every document it watches.
THEOREM LockedCommitsReachDocuments ==
    ASSUME OneWriter, Callers \subseteq {"lockKept"},
           Faults \cap {"earlyListen", "earlyFailure", "readFails"} = {}
    PROVE  Spec => [](\A l \in Listeners : Quiescent(l) /\ "documents" \in session[l].targets =>
                         \A d \in Docs : view[l]["documents"][d] = Restricted(store, Watched)[d])
<1> DEFINE Exact == \A l \in Listeners : Quiescent(l) /\ "documents" \in session[l].targets =>
                       \A d \in Docs : view[l]["documents"][d] = Restricted(store, Watched)[d]
<1>1. Init => LockRight
  BY DEF Init, LockRight
<1>2. NoticesInv /\ LockRight /\ [Next]_vars => LockRight'
  BY LockStep
<1>3. LockRight /\ DocumentsConverge => Exact
  BY WatchAssumption DEF LockRight, DocumentsConverge, DocumentsCurrent
<1>4. Spec => []NoticesInv /\ []DocumentsConverge
  BY NoticesInvariant, DocumentListenersConverge
<1> HIDE DEF Exact
<1>5. Spec => []Exact
  BY <1>1, <1>2, <1>3, <1>4, PTL DEF Spec
<1> QED BY <1>5 DEF Exact
=============================================================================
