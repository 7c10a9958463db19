------------------------------ MODULE WebChannel ------------------------------
(***************************************************************************)
(* One WebChannel session (webchannel.rs): the transport that carries a    *)
(* Listen or Write stream to a browser.  The client posts its messages     *)
(* ("forward" posts, numbered by RID and repeated until answered) and      *)
(* keeps one GET open (the "back channel") on which the server sends       *)
(* arrays, numbered by array id and kept until the client acknowledges     *)
(* them with the AID of a later request.                                   *)
(*                                                                         *)
(*   client -> posts -> inbox -> stream task -> arrays -> GETs -> client   *)
(*                                                                         *)
(* The client is external: it has one post and one GET at a time, sends    *)
(* the id of the last array it got as AID, and repeats or reopens what the *)
(* network broke.  The stream task is listen.rs or write_stream.rs, seen   *)
(* as something that takes messages and produces responses when it likes.  *)
(***************************************************************************)
EXTENDS Integers, Sequences

CONSTANTS
    Posts,          \* bound: forward posts of the client, numbered from 1
    Size,           \* messages in each post, the handshake (post 0) included
    PostTasks,      \* requests of the forward direction that may be open at once
    BackTasks,      \* GETs that may be open at once, abandoned ones included
    None,           \* no request
    Capacity,       \* slots of the stream's request channel (64)
    MaxArrays,      \* bound: responses of the stream
    MaxIds,         \* bound: no noop takes an array id above it
    MaxBreaks,      \* bound: connections the network breaks
    Faults          \* which of {"streamError", "terminate"} may happen

ASSUME WebChannelAssumption ==
    /\ Posts \in Nat /\ Size \in Nat \ {0}
    /\ None \notin PostTasks /\ None \notin BackTasks
    /\ Capacity \in Nat \ {0}
    /\ MaxArrays \in Nat /\ MaxIds \in Nat /\ MaxBreaks \in Nat
    /\ Faults \subseteq {"streamError", "terminate"}

VARIABLES
    registered,     \* the session is in WebChannelSessions
    stream,         \* the stream task: "none", "running" or "ended"
    filler,         \* the task that turns responses into arrays lives
    inbox,          \* the stream's request channel
    taken,          \* auxiliary: the messages the stream task has taken
    arrays,         \* the ids of the unacknowledged data arrays, in order
    nextId,         \* next_array_id
    pushed,         \* auxiliary: the ids of all data arrays so far
    rids,           \* seen_rids
    post,           \* per task: a forward post
    back,           \* per task: a GET
    client,         \* the client
    breaks          \* auxiliary: connections broken so far

session == <<registered, stream, filler>>
forward == <<inbox, taken, rids, post>>
buffer == <<arrays, nextId, pushed>>
vars == <<registered, stream, filler, inbox, taken, arrays, nextId, pushed,
          rids, post, back, client, breaks>>

FreePost == [phase |-> "free", rid |-> 0, aid |-> 0, next |-> 1]

FreeBack == [phase |-> "free", long |-> FALSE, cursor |-> 0, wire |-> << >>]

\* Where the next request is kept; which place it is makes no difference.
FreeSlot(tasks) == CHOOSE t \in DOMAIN tasks : tasks[t].phase = "free"

Init ==
    /\ registered = FALSE /\ stream = "none" /\ filler = FALSE
    /\ inbox = << >> /\ taken = << >>
    /\ arrays = << >> /\ nextId = 1 /\ pushed = << >>
    /\ rids = {}
    /\ post = [p \in PostTasks |-> FreePost]
    /\ back = [b \in BackTasks |-> FreeBack]
    /\ client = [state |-> "new", aid |-> 0, received |-> << >>, rid |-> 1,
                 post |-> None, back |-> None]
    /\ breaks = 0

-----------------------------------------------------------------------------
(* The forward direction.                                                  *)

\* The buffer is in the order of ids: those up to an id are its first n.
FirstUpTo(id, n) == \A k \in DOMAIN arrays : arrays[k] <= id <=> k <= n

Drop(n) == arrays' = SubSeq(arrays, n + 1, Len(arrays))

\* Mutant: an acknowledgement that keeps the array it names.
AckKeepsNamed(aid) == \E n \in 0 .. Len(arrays) : FirstUpTo(aid - 1, n) /\ Drop(n)

\* Session::ack
Ack(aid) == \E n \in 0 .. Len(arrays) : FirstUpTo(aid, n) /\ Drop(n)

\* The client learns how its post ended, if it still waits for it.
Tells(p, told) ==
    client' = IF client.post = p THEN [told EXCEPT !.post = None] ELSE client

\* What a 200 tells it: the session id, or that the post is accepted.
Accepted(p) ==
    IF post[p].rid = 0 THEN [client EXCEPT !.state = "open"]
    ELSE [client EXCEPT !.rid = @ + 1]

\* The handshake registers the session and starts its tasks; then it delivers
\* the messages that came with it, as a post does.
Handshake(p) ==
    /\ client.state = "new" /\ post[p].phase = "free" /\ p = FreeSlot(post)
    /\ registered' = TRUE /\ stream' = "running" /\ filler' = TRUE
    /\ post' = [post EXCEPT ![p] = [FreePost EXCEPT !.phase = "delivering"]]
    /\ client' = [client EXCEPT !.state = "opening", !.post = p]
    /\ UNCHANGED <<inbox, taken, rids, buffer, back, breaks>>

SendPost(p) ==
    /\ client.state = "open" /\ client.post = None /\ client.rid <= Posts
    /\ post[p].phase = "free" /\ p = FreeSlot(post)
    /\ post' = [post EXCEPT ![p] = [phase |-> "sent", rid |-> client.rid,
                                    aid |-> client.aid, next |-> 1]]
    /\ client' = [client EXCEPT !.post = p]
    /\ UNCHANGED <<session, inbox, taken, rids, buffer, back, breaks>>

\* "Unknown SID": the client gives the session up.
PostUnknown(p) ==
    /\ post[p].phase = "sent" /\ ~registered
    /\ post' = [post EXCEPT ![p] = FreePost]
    /\ Tells(p, [client EXCEPT !.state = "closed"])
    /\ UNCHANGED <<session, inbox, taken, rids, buffer, back, breaks>>

\* A RID that was seen before is acknowledged, and nothing is delivered.
PostRepeated(p) ==
    /\ post[p].phase = "sent" /\ registered /\ post[p].rid \in rids
    /\ Ack(post[p].aid)
    /\ post' = [post EXCEPT ![p] = FreePost]
    /\ Tells(p, Accepted(p))
    /\ UNCHANGED <<session, inbox, taken, rids, nextId, pushed, back, breaks>>

\* Mutant: no memory of the RIDs seen.
PostAlwaysNew(p) ==
    /\ post[p].phase = "sent" /\ registered
    /\ Ack(post[p].aid)
    /\ post' = [post EXCEPT ![p].phase = "delivering"]
    /\ UNCHANGED <<session, inbox, taken, rids, nextId, pushed, back, client, breaks>>

\* A new RID is remembered before its messages are delivered.
PostNew(p) ==
    /\ post[p].phase = "sent" /\ registered /\ post[p].rid \notin rids
    /\ Ack(post[p].aid)
    /\ rids' = rids \cup {post[p].rid}
    /\ post' = [post EXCEPT ![p].phase = "delivering"]
    /\ UNCHANGED <<session, inbox, taken, nextId, pushed, back, client, breaks>>

\* Mutant: delivering without waiting for room in the channel.
DeliverUnbounded(p) ==
    /\ post[p].phase = "delivering" /\ stream = "running"
    /\ inbox' = Append(inbox, <<post[p].rid, post[p].next>>)
    /\ post' = [post EXCEPT ![p] = FreePost]
    /\ Tells(p, Accepted(p))
    /\ UNCHANGED <<session, taken, rids, buffer, back, breaks>>

\* deliver, one message per await; the last one is answered with 200.
Deliver(p) ==
    /\ post[p].phase = "delivering"
    /\ stream = "running" /\ Len(inbox) < Capacity
    /\ inbox' = Append(inbox, <<post[p].rid, post[p].next>>)
    /\ IF post[p].next = Size
       THEN /\ post' = [post EXCEPT ![p] = FreePost]
            /\ Tells(p, Accepted(p))
       ELSE /\ post' = [post EXCEPT ![p].next = @ + 1]
            /\ UNCHANGED client
    /\ UNCHANGED <<session, taken, rids, buffer, back, breaks>>

\* The stream has ended: the post is answered with an error.
DeliverFails(p) ==
    /\ post[p].phase = "delivering" /\ stream = "ended"
    /\ post' = [post EXCEPT ![p] = FreePost]
    /\ Tells(p, IF post[p].rid = 0 THEN [client EXCEPT !.state = "closed"] ELSE client)
    /\ UNCHANGED <<session, inbox, taken, rids, buffer, back, breaks>>

\* The connection of the client's post breaks, and the client repeats it; a
\* broken handshake leaves it without a session.
BreakPost ==
    /\ client.post # None /\ breaks < MaxBreaks
    /\ breaks' = breaks + 1
    /\ client' = [client EXCEPT !.post = None,
                    !.state = IF @ = "opening" THEN "closed" ELSE @]
    /\ UNCHANGED <<session, forward, buffer, back>>

\* A request nobody waits for gets lost, or its handler is dropped.
PostDropped(p) ==
    /\ post[p].phase # "free" /\ client.post # p
    /\ post' = [post EXCEPT ![p] = FreePost]
    /\ UNCHANGED <<session, inbox, taken, rids, buffer, back, client, breaks>>

-----------------------------------------------------------------------------
(* The stream task and the buffer-filler task.                             *)

StreamTakes ==
    /\ stream = "running" /\ inbox # << >>
    /\ taken' = Append(taken, Head(inbox))
    /\ inbox' = Tail(inbox)
    /\ UNCHANGED <<session, rids, post, buffer, back, client, breaks>>

\* push_array, and notify_waiters: only a GET that waits already is woken.
PushArray ==
    /\ filler /\ stream = "running" /\ Len(pushed) < MaxArrays
    /\ arrays' = Append(arrays, nextId)
    /\ pushed' = Append(pushed, nextId)
    /\ nextId' = nextId + 1
    /\ back' = [b \in BackTasks |-> IF back[b].phase = "waiting"
                                    THEN [back[b] EXCEPT !.phase = "polling"]
                                    ELSE back[b]]
    /\ UNCHANGED <<session, forward, client, breaks>>

\* Who holds the session, and with it the sending end of the inbox.
SendersLeft ==
    \/ registered \/ filler
    \/ \E p \in PostTasks : post[p].phase = "delivering"
    \/ \E b \in BackTasks : back[b].phase \notin {"free", "ending"}

\* The stream task ends with an error, or because its request stream ended.
StreamEnds ==
    /\ stream = "running"
    /\ "streamError" \in Faults \/ ~SendersLeft
    /\ stream' = "ended"
    /\ inbox' = << >>
    /\ UNCHANGED <<registered, filler, taken, rids, post, buffer, back, client, breaks>>

\* The filler ends when there are no more responses.
FillerEnds ==
    /\ filler /\ stream = "ended"
    /\ filler' = FALSE
    /\ UNCHANGED <<registered, stream, forward, buffer, back, client, breaks>>

-----------------------------------------------------------------------------
(* The back channel.                                                       *)

\* The client opens a GET; `long` is long polling (CI=1).
OpenBack(b, long) ==
    /\ client.state = "open" /\ client.back = None
    /\ back[b].phase = "free" /\ b = FreeSlot(back) /\ registered
    /\ Ack(client.aid)
    /\ back' = [back EXCEPT ![b] = [FreeBack EXCEPT !.phase = "opening", !.long = long]]
    /\ client' = [client EXCEPT !.back = b]
    /\ UNCHANGED <<session, forward, nextId, pushed, breaks>>

\* What a GET writes reaches the client unless the client has left it.
Written(b, frames) ==
    IF client.back = b THEN back[b].wire \o frames ELSE << >>

\* A noop takes an array id of its own.
NoopTakesId ==
    nextId' = IF nextId <= MaxIds THEN nextId + 1 ELSE nextId

SendNoop(b) ==
    /\ NoopTakesId
    /\ back' = [back EXCEPT ![b].phase = "polling",
                   ![b].wire = IF nextId > MaxIds THEN @
                               ELSE Written(b, << [id |-> nextId, data |-> FALSE] >>)]

FirstFrame(b) ==
    /\ back[b].phase = "opening"
    /\ SendNoop(b)
    /\ UNCHANGED <<session, forward, arrays, pushed, client, breaks>>

NothingPending(b) == \A k \in DOMAIN arrays : arrays[k] <= back[b].cursor

\* The frames of all arrays but the first n.
Frames(n) == [k \in 1 .. Len(arrays) - n |-> [id |-> arrays[n + k], data |-> TRUE]]

\* Everything unacknowledged past the cursor is sent; a long poll ends then.
SendPending(b) ==
    /\ back[b].phase = "polling" /\ ~NothingPending(b)
    /\ \E n \in 0 .. Len(arrays) :
         /\ FirstUpTo(back[b].cursor, n)
         /\ back' = [back EXCEPT ![b].cursor = arrays[Len(arrays)],
                       ![b].wire = Written(b, Frames(n)),
                       ![b].phase = IF back[b].long THEN "ending" ELSE "polling"]
    /\ UNCHANGED <<session, forward, buffer, client, breaks>>

\* Nothing to send: a long poll may have been held long enough ...
HoldExpires(b) ==
    /\ back[b].phase = "polling" /\ NothingPending(b) /\ back[b].long
    /\ back' = [back EXCEPT ![b].phase = "ending"]
    /\ UNCHANGED <<session, forward, buffer, client, breaks>>

\* ... and otherwise the task goes to wait.  An array pushed after it looked
\* and before it waits wakes nobody.
LooksAgain(b) ==
    /\ back[b].phase = "polling" /\ NothingPending(b)
    /\ back' = [back EXCEPT ![b].phase = "arming"]
    /\ UNCHANGED <<session, forward, buffer, client, breaks>>

Waits(b) ==
    /\ back[b].phase = "arming"
    /\ back' = [back EXCEPT ![b].phase = "waiting"]
    /\ UNCHANGED <<session, forward, buffer, client, breaks>>

\* Mutant: the keepalive goes straight back to waiting.
KeepaliveOnly(b) ==
    /\ back[b].phase = "waiting" /\ nextId <= MaxIds
    /\ nextId' = nextId + 1
    /\ back' = [back EXCEPT ![b].wire = Written(b, << [id |-> nextId, data |-> FALSE] >>)]
    /\ UNCHANGED <<session, forward, arrays, pushed, client, breaks>>

\* NOOP_INTERVAL passes: a noop goes out and the task looks again.
Keepalive(b) ==
    /\ back[b].phase = "waiting"
    /\ SendNoop(b)
    /\ UNCHANGED <<session, forward, arrays, pushed, client, breaks>>

ClientReads(b) ==
    /\ client.back = b /\ back[b].wire # << >>
    /\ LET frame == Head(back[b].wire)
       IN  client' = [client EXCEPT !.aid = frame.id,
                        !.received = IF frame.data THEN Append(@, frame.id) ELSE @]
    /\ back' = [back EXCEPT ![b].wire = Tail(@)]
    /\ UNCHANGED <<session, forward, buffer, breaks>>

\* The response is complete and the client has read it.
BackEnds(b) ==
    /\ back[b].phase = "ending" /\ back[b].wire = << >>
    /\ back' = [back EXCEPT ![b] = FreeBack]
    /\ client' = IF client.back = b THEN [client EXCEPT !.back = None] ELSE client
    /\ UNCHANGED <<session, forward, buffer, breaks>>

\* The connection of the client's GET breaks with all that is on it; the task
\* on the server notices when it next writes, if it does.
BreakBack(b) ==
    /\ client.back = b /\ breaks < MaxBreaks
    /\ breaks' = breaks + 1
    /\ client' = [client EXCEPT !.back = None]
    /\ back' = [back EXCEPT ![b].wire = << >>]
    /\ UNCHANGED <<session, forward, buffer>>

BackNotices(b) ==
    /\ client.back # b
    /\ IF back[b].phase = "polling" THEN ~NothingPending(b) /\ UNCHANGED nextId
       ELSE back[b].phase \in {"opening", "waiting"} /\ NoopTakesId
    /\ back' = [back EXCEPT ![b] = FreeBack]
    /\ UNCHANGED <<session, forward, arrays, pushed, client, breaks>>

\* TYPE=terminate: the session leaves the map, and that is all.
Terminate ==
    /\ "terminate" \in Faults
    /\ client.state = "open"
    /\ registered' = FALSE
    /\ client' = [client EXCEPT !.state = "closed", !.post = None, !.back = None]
    /\ back' = [b \in BackTasks |-> [back[b] EXCEPT !.wire = << >>]]
    /\ UNCHANGED <<stream, filler, forward, buffer, breaks>>

-----------------------------------------------------------------------------

PostStep(p) ==
    \/ PostUnknown(p)
    \/ PostRepeated(p)
    \/ PostNew(p)
    \/ Deliver(p)
    \/ DeliverFails(p)

BackStep(b) ==
    \/ FirstFrame(b)
    \/ SendPending(b)
    \/ LooksAgain(b)
    \/ Waits(b)
    \/ Keepalive(b)
    \/ BackEnds(b)

Next ==
    \/ \E p \in PostTasks :
          \/ Handshake(p)
          \/ SendPost(p)
          \/ PostStep(p)
          \/ PostDropped(p)
    \/ StreamTakes
    \/ PushArray
    \/ StreamEnds
    \/ FillerEnds
    \/ \E b \in BackTasks :
          \/ \E long \in BOOLEAN : OpenBack(b, long)
          \/ BackStep(b)
          \/ ClientReads(b)
          \/ HoldExpires(b)
          \/ BreakBack(b)
          \/ BackNotices(b)
    \/ BreakPost
    \/ Terminate

Spec == Init /\ [][Next]_vars

\* Tasks run, timers fire, and a client that is there reads what it gets and
\* keeps a GET open.  Nothing obliges clients to post, streams to respond,
\* abandoned GETs to be noticed or faults to happen.
Fairness ==
    /\ \A p \in PostTasks : WF_vars(PostStep(p))
    /\ WF_vars(StreamTakes) /\ WF_vars(FillerEnds)
    /\ WF_vars(StreamEnds /\ ~SendersLeft)
    /\ \A b \in BackTasks : WF_vars(BackStep(b)) /\ WF_vars(ClientReads(b))
    /\ WF_vars(\E b \in BackTasks, long \in BOOLEAN : OpenBack(b, long))

FairSpec == Spec /\ Fairness
=============================================================================
