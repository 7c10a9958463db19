------------------------------ MODULE WatchProps ------------------------------
(***************************************************************************)
(* What must be true of the way commits reach listeners, stated over       *)
(* Watch.                                                                  *)
(***************************************************************************)
EXTENDS Watch

Notice == [inst : Writers, locked : BOOLEAN, paths : SUBSET Docs,
           after : [Docs -> RowOrMissing]]

TailTask == [open : BOOLEAN, started : BOOLEAN, next : Nat \ {0},
             token : (Nat \ {0}) \cup {NoResume},
             busy : BOOLEAN, left : SUBSET Docs, event : Event]

Session == [phase : {"closed", "idle", "event", "initial", "resync"},
            targets : SUBSET Targets, event : Event, todo : SUBSET Targets,
            target : {"documents", "query"}, left : SUBSET Docs, got : [Docs -> RowOrMissing]]

\* Every variable has its type, and no receiver holds more events than the
\* broadcast channel of WatchHub has slots.
TypeOK ==
    /\ store \in [Docs -> RowOrMissing]
    /\ log \in Seq(Notice)
    /\ oldest \in Nat /\ clock \in Nat
    /\ unpublished \in [Instances -> SUBSET (1 .. Len(log))]
    /\ tail \in [Instances -> TailTask]
    /\ announced \in [Instances -> Seq(1 .. Len(log))]
    /\ queue \in [Listeners -> Seq(Event)]
    /\ \A l \in Listeners : Len(queue[l]) <= Capacity
    /\ lagged \in [Listeners -> BOOLEAN]
    /\ untold \in [Instances -> SUBSET Docs]
    /\ overtaken \in [Instances -> SUBSET Docs]
    /\ session \in [Listeners -> Session]
    /\ view \in [Listeners -> [Targets -> [Docs -> RowOrMissing]]]

-----------------------------------------------------------------------------

\* Nothing is on its way to the stream: its process has published every commit
\* of its own that a caller publishes and tailed everybody else's, and the
\* session has served them.
Quiescent(l) ==
    /\ session[l].phase = "idle" /\ queue[l] = << >> /\ ~lagged[l]
    /\ unpublished[Home[l]] = {}
    /\ LET t == tail[Home[l]] IN t.open /\ ~t.busy /\ t.next = Len(log) + 1

\* A commit that its own process never publishes is lost to that process's
\* listeners, for the fan-out task drops the notice of it: they may stay stale
\* in the documents it changed until the hub hears of those again.
QueryCurrent(l) ==
    \A d \in Docs \ untold[Home[l]] : view[l]["query"][d] = QueryResult(store)[d]

\* A document listener applies the rows events carry, so it may also be left
\* behind by an event that a later one of the same process has overtaken.
DocumentsCurrent(l) ==
    \A d \in Docs \ (untold[Home[l]] \cup overtaken[Home[l]]) :
        view[l]["documents"][d] = Restricted(store, Watched)[d]

\* "A listener on one instance sees writes applied on any of them" (readme):
\* once everything on its way has arrived, a query listener holds exactly what
\* its query returns, whatever was reordered, lost by a lagging receiver or
\* interrupted by a failing change stream in between; but for the documents its
\* own process committed last without publishing.
QueryConverges ==
    \A l \in Listeners :
        Quiescent(l) /\ "query" \in session[l].targets => QueryCurrent(l)

\* The same of a document listener, which depends on the order events come in:
\* it holds the rows of the store, but for documents its own process committed
\* last without publishing, and documents whose last event another commit of
\* that process had overtaken since the first gave the commit lock back.
DocumentsConverge ==
    \A l \in Listeners :
        Quiescent(l) /\ "documents" \in session[l].targets => DocumentsCurrent(l)

\* A fan-out task acts on each commit of the other processes at most once and
\* in commit order, and on none of its own, however often its change stream
\* fails and resumes.
NoticesOnceInOrder ==
    \A i \in Instances :
        /\ \A a, b \in DOMAIN announced[i] : a < b => announced[i][a] < announced[i][b]
        /\ \A a \in DOMAIN announced[i] : log[announced[i][a]].inst # i

\* "A reconnect doesn't skip commits" (store.rs): whatever a fan-out task has
\* passed since its first change stream, it has acted on.
NoNoticeSkipped ==
    [][\A i \in Instances :
         tail[i].started =>
            \A k \in tail[i].next .. tail'[i].next - 1 :
                log'[k].inst # i => announced'[i] = Append(announced[i], k)]_vars

\* A query listener that is not current will be, or it goes away: what stays
\* stale is only what its own process commits without publishing.
QueryCatchesUp ==
    \A l \in Listeners :
        "query" \in session[l].targets
            ~> QueryCurrent(l) \/ "query" \notin session[l].targets
=============================================================================
