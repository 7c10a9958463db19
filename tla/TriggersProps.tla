---------------------------- MODULE TriggersProps ----------------------------
(***************************************************************************)
(* What must be true of triggers and their patterns, stated over Triggers. *)
(***************************************************************************)
EXTENDS Triggers

\* Each process's queue holds no more than the channel has slots, and what is
\* owed is of a commit.
TriggersTypeOK ==
    /\ \A i \in Processes : Len(hub[i]) <= Slots /\ unsent[i] \subseteq 1 .. Len(commits)
    /\ \A e \in owed : e.commit \in 1 .. Len(commits)
    /\ \A d \in deliveries :
         /\ d.attempts \in 0 .. MaxAttempts
         /\ d.state = "givenUp" => d.attempts = MaxAttempts

\* "Triggers therefore only act on Local events - which is also what keeps
\* each CloudEvent delivered once cluster-wide instead of once per instance"
\* (watch.rs): whichever processes see a commit, an event is dispatched once,
\* by the process that applied the commit, and says what the commit did to
\* the document.
DispatchedOnce ==
    \A d \in deliveries :
        LET c == commits[d.commit]
        IN  /\ \A e \in deliveries \ {d} :
                 d.commit # e.commit \/ d.trigger # e.trigger \/ d.path # e.path
            /\ d.inst = c.inst
            /\ d.kind = Actual(c.before[d.path], c.after[d.path])

\* "A write through any surface fires them" (functions.rs): an event that a
\* registered trigger covers is on its way to the dispatcher until it is
\* dispatched.  The exceptions: the commit's handler never learnt of it (the
\* outcome stayed unknown, or the handler was dropped), the registry was
\* replaced, the dispatcher lagged or had not subscribed, the process died.
OwedOnTheWay ==
    \A e \in owed :
        LET i == commits[e.commit].inst
        IN  \/ e.commit \in unsent[i]
            \/ \E k \in DOMAIN hub[i] : hub[i][k] = [commit |-> e.commit, origin |-> "local"]

\* Every event that is owed is dispatched, or lost in one of the ways above,
\* and no delivery waits for ever on anything but its endpoint: it ends,
\* acknowledged, given up after MAX_ATTEMPTS or gone with its process, unless
\* one of its requests is never answered, which holds up no other delivery.
Settled == owed = {} /\ \A d \in deliveries : d.state # "sending"

DeliveriesEnd == ~Settled ~> Settled

-----------------------------------------------------------------------------

\* The ways to split a path of n names among the segments: where each ends.
Splits(segments, n) ==
    {ends \in [0 .. Len(segments) -> 0 .. n] :
        /\ ends[0] = 0 /\ ends[Len(segments)] = n
        /\ \A k \in 1 .. Len(segments) :
             IF segments[k].kind = "glob" THEN ends[k] > ends[k - 1]
             ELSE ends[k] = ends[k - 1] + 1}

Agree(segments, path, ends) ==
    \A k \in 1 .. Len(segments) :
        segments[k].kind = "literal" => path[ends[k]] = segments[k].name

\* What the segments that capture take, in their order.
Caught(segments, path, ends) ==
    LET caught[k \in 0 .. Len(segments)] ==
          IF k = 0 THEN << >>
          ELSE IF segments[k].kind = "literal" THEN caught[k - 1]
          ELSE Append(caught[k - 1], <<segments[k].name, SubSeq(path, ends[k - 1] + 1, ends[k])>>)
    IN  caught[Len(segments)]

Fits(segments, path) == {ends \in Splits(segments, Len(path)) : Agree(segments, path, ends)}

\* What a pattern with one glob at the most matches: the paths that can be
\* split among its segments.
PatternMeaning(segments, path) ==
    IF Fits(segments, path) = {} THEN NoMatch
    ELSE [matched |-> TRUE,
          params |-> Caught(segments, path, CHOOSE ends \in Fits(segments, path) : TRUE)]
=============================================================================
