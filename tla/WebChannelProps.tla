--------------------------- MODULE WebChannelProps ---------------------------
(***************************************************************************)
(* What must be true of a WebChannel session, stated over WebChannel.      *)
(***************************************************************************)
EXTENDS WebChannel, SequencesExt

Message == (0 .. Posts) \X (1 .. Size)

Frame == [id : Nat, data : BOOLEAN]

PostState == [phase : {"free", "sent", "delivering"}, rid : 0 .. Posts, aid : Nat,
              next : 1 .. Size]

BackState == [phase : {"free", "opening", "polling", "arming", "waiting", "ending"},
              long : BOOLEAN, cursor : Nat, wire : Seq(Frame)]

ClientState == [state : {"new", "opening", "open", "closed"}, aid : Nat,
                received : Seq(Nat), rid : 1 .. Posts + 1,
                post : PostTasks \cup {None}, back : BackTasks \cup {None}]

SessionOK ==
    registered \in BOOLEAN /\ filler \in BOOLEAN /\ stream \in {"none", "running", "ended"}

\* Every variable has its type, and the stream's request channel keeps to its
\* capacity however many handlers deliver into it.
TypeOK ==
    /\ SessionOK
    /\ inbox \in Seq(Message) /\ Len(inbox) <= Capacity
    /\ taken \in Seq(Message)
    /\ arrays \in Seq(Nat) /\ nextId \in Nat /\ pushed \in Seq(Nat)
    /\ rids \subseteq 1 .. Posts
    /\ post \in [PostTasks -> PostState] /\ back \in [BackTasks -> BackState]
    /\ client \in ClientState
    /\ breaks \in 0 .. MaxBreaks

-----------------------------------------------------------------------------

Session == INSTANCE Responses WITH sent <- pushed, received <- client.received

\* The client gets the stream's responses in order and none of them twice,
\* over any number of GETs that end, break or overlap: a session implements
\* Responses.
ResponsesInOrder == Session!Spec

\* Each message of a post reaches the stream at most once, however often the
\* post is repeated and however late its first copy arrives.
MessagesOnce ==
    IsInjective(taken \o inbox)

\* A response is buffered until the client has it: "resume from `AID`", and a
\* GET delivers "everything unacked" (webchannel.rs).
BufferedUntilReceived ==
    \A k \in DOMAIN pushed : \/ pushed[k] \in ToSet(arrays)
                             \/ pushed[k] \in ToSet(client.received)

\* Buffered responses reach a client that keeps a GET open, although a GET
\* that goes to wait may miss its notification: again and again, the client
\* has all that is buffered.
ResponsesArrive ==
    []<>( \/ ToSet(arrays) \subseteq ToSet(client.received)
          \/ client.state = "closed" )
=============================================================================
