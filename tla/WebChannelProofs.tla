--------------------------- MODULE WebChannelProofs ---------------------------
(***************************************************************************)
(* Theorems about a WebChannel session, for any posts, messages, GETs and  *)
(* responses and any breaks and faults.                                    *)
(***************************************************************************)
EXTENDS WebChannelProps, SequenceTheorems, TLAPS

\* The post the client waits for is on its way, and is the handshake or the
\* next of its posts; only the handshake, which is never sent again, has RID 0.
ClientPost ==
    /\ client.post # None =>
         /\ post[client.post].phase # "free"
         /\ post[client.post].rid # 0 => client.rid <= Posts
    /\ \A p \in PostTasks : post[p].phase = "sent" => post[p].rid # 0

TypeInv == TypeOK /\ ClientPost

-----------------------------------------------------------------------------

\* What an acknowledgement leaves is the end of the buffer, all of it above the
\* id named.
LEMMA AckDrops ==
    ASSUME arrays \in Seq(Nat), NEW aid \in Nat, Ack(aid)
    PROVE  \E n \in 0 .. Len(arrays) :
             /\ arrays' \in Seq(Nat) /\ Len(arrays') = Len(arrays) - n
             /\ \A k \in 1 .. Len(arrays) - n : arrays'[k] = arrays[n + k] /\ arrays'[k] > aid
<1>1. PICK n \in 0 .. Len(arrays) : FirstUpTo(aid, n) /\ Drop(n)
  BY DEF Ack
<1>2. \A k \in n + 1 .. Len(arrays) : arrays[k] \in Nat
  BY <1>1
<1>3. n \in Nat /\ Len(arrays) \in Nat /\ n <= Len(arrays)
  BY LenProperties
<1>4. arrays' = SubSeq(arrays, n + 1, Len(arrays))
  BY <1>1 DEF Drop
<1>5. /\ arrays' \in Seq(Nat)
      /\ Len(arrays') = IF n + 1 <= Len(arrays) THEN Len(arrays) - (n + 1) + 1 ELSE 0
      /\ \A k \in 1 .. Len(arrays) - (n + 1) + 1 : arrays'[k] = arrays[(n + 1) + k - 1]
  BY <1>2, <1>3, <1>4, SubSeqProperties
<1>6. Len(arrays') = Len(arrays) - n
  BY <1>3, <1>5
<1>7. ASSUME NEW k \in 1 .. Len(arrays) - n
      PROVE  arrays'[k] = arrays[n + k] /\ arrays[n + k] > aid
  <2>1. k \in 1 .. Len(arrays) - (n + 1) + 1 /\ (n + 1) + k - 1 = n + k
    BY <1>3
  <2>2. n + k \in DOMAIN arrays /\ ~(n + k <= n)
    BY <1>3, LenProperties
  <2>3. arrays[n + k] \in Nat
    BY <2>2
  <2> QED BY <1>1, <1>5, <2>1, <2>2, <2>3 DEF FirstUpTo
<1> QED BY <1>1, <1>5, <1>6, <1>7

LEMMA TypeInit ==
    ASSUME Init
    PROVE  TypeInv
<1> USE WebChannelAssumption
<1>1. FreePost \in PostState /\ FreeBack \in BackState
  BY DEF FreePost, FreeBack, PostState, BackState
<1>2. client \in ClientState
  BY DEF Init, ClientState
<1>3. post \in [PostTasks -> PostState] /\ back \in [BackTasks -> BackState]
  BY <1>1 DEF Init
<1>4. ClientPost
  BY DEF Init, ClientPost, FreePost
<1>5. /\ inbox \in Seq(Message) /\ taken \in Seq(Message) /\ arrays \in Seq(Nat)
      /\ pushed \in Seq(Nat) /\ Len(inbox) <= Capacity
  BY DEF Init
<1>6. nextId \in Nat /\ rids \subseteq 1 .. Posts /\ breaks \in 0 .. MaxBreaks
  BY DEF Init
<1>7. SessionOK
  BY Zenon DEF Init, SessionOK
<1> QED BY <1>2, <1>3, <1>4, <1>5, <1>6, <1>7 DEF TypeInv, TypeOK

\* A post goes on.
LEMMA PostMoves ==
    ASSUME TypeInv, NEW p \in PostTasks, NEW c \in PostState, post' = [post EXCEPT ![p] = c]
    PROVE  /\ post' \in [PostTasks -> PostState]
           /\ \A q \in PostTasks : post'[q] = IF q = p THEN c ELSE post[q]
BY DEF TypeInv, TypeOK

\* The client that hears of its post has no post on its way.
LEMMA TellsType ==
    ASSUME TypeInv, NEW p \in PostTasks, NEW told \in ClientState, Tells(p, told)
    PROVE  /\ client' \in ClientState
           /\ client'.post # None => client' = client /\ client.post # p
<1>1. [told EXCEPT !.post = None] \in ClientState /\ [told EXCEPT !.post = None].post = None
  BY DEF ClientState
<1> QED BY <1>1 DEF Tells, TypeInv, TypeOK

\* A post goes on, and the client either still waits for it or is told.
LEMMA ClientPostKept ==
    ASSUME TypeInv, NEW p \in PostTasks, NEW c \in PostState, post' = [post EXCEPT ![p] = c],
           client' \in ClientState, c.phase = "sent" => c.rid # 0,
           client'.post # None => /\ client'.post = client.post /\ client'.rid = client.rid
                                  /\ client.post # p \/ (c.phase # "free" /\ c.rid = post[p].rid)
    PROVE  ClientPost'
<1>1. \A q \in PostTasks : post'[q] = IF q = p THEN c ELSE post[q]
  BY PostMoves
<1>2. client'.post # None => client'.post \in PostTasks
  BY DEF ClientState
<1> QED BY <1>1, <1>2 DEF ClientPost, TypeInv

\* An acknowledgement leaves the buffer its type.
LEMMA AckType ==
    ASSUME TypeInv, NEW aid \in Nat, Ack(aid)
    PROVE  arrays' \in Seq(Nat)
BY AckDrops DEF TypeInv, TypeOK

\* What a post and the client can become.
LEMMA PostFields ==
    ASSUME TypeInv, NEW p \in PostTasks
    PROVE  /\ post[p] \in PostState /\ post[p].aid \in Nat /\ post[p].rid \in 0 .. Posts
           /\ post[p].next \in 1 .. Size
           /\ FreePost \in PostState
           /\ [FreePost EXCEPT !.phase = "delivering"] \in PostState
           /\ [post[p] EXCEPT !.phase = "delivering"] \in PostState
           /\ post[p].next # Size => [post[p] EXCEPT !.next = @ + 1] \in PostState
<1>1. post[p] \in PostState
  BY DEF TypeInv, TypeOK
<1>2. FreePost \in PostState
  BY WebChannelAssumption DEF FreePost, PostState
<1>3. [FreePost EXCEPT !.phase = "delivering"] \in PostState
  BY <1>2 DEF PostState
<1>4. [post[p] EXCEPT !.phase = "delivering"] \in PostState
  BY <1>1 DEF PostState
<1>5. post[p].next # Size => [post[p] EXCEPT !.next = @ + 1] \in PostState
  BY <1>1, WebChannelAssumption DEF PostState
<1> QED BY <1>1, <1>2, <1>3, <1>4, <1>5 DEF PostState

LEMMA AcceptedType ==
    ASSUME TypeInv, NEW p \in PostTasks, post[p].phase # "free"
    PROVE  client.post = p => Accepted(p) \in ClientState
<1>1. client \in ClientState /\ post[p].rid \in 0 .. Posts
  BY PostFields DEF TypeInv, TypeOK
<1>2. client.post = p /\ post[p].rid # 0 => client.rid <= Posts
  BY WebChannelAssumption DEF TypeInv, ClientPost
<1>3. [client EXCEPT !.state = "open"] \in ClientState
  BY <1>1 DEF ClientState
<1>4. client.rid <= Posts => [client EXCEPT !.rid = @ + 1] \in ClientState
  <2>1. client.rid \in 1 .. Posts + 1
    BY <1>1 DEF ClientState
  <2>2. client.rid <= Posts => client.rid + 1 \in 1 .. Posts + 1
    BY <2>1, WebChannelAssumption
  <2> QED BY <1>1, <2>2 DEF ClientState
<1> QED BY <1>2, <1>3, <1>4 DEF Accepted

\* The forward direction keeps the types.
LEMMA TypeForward ==
    ASSUME TypeInv, NEW p \in PostTasks,
           Handshake(p) \/ SendPost(p) \/ PostStep(p) \/ PostDropped(p)
    PROVE  TypeInv'
<1>0. client \in ClientState /\ p # None
  BY WebChannelAssumption DEF TypeInv, TypeOK
<1>1. CASE Handshake(p)
  <2> DEFINE c == [FreePost EXCEPT !.phase = "delivering"]
  <2>1. c \in PostState /\ c.phase = "delivering" /\ c.rid = 0
    BY PostFields DEF FreePost
  <2>2. /\ client' = [client EXCEPT !.state = "opening", !.post = p]
        /\ post' = [post EXCEPT ![p] = c]
    BY <1>1 DEF Handshake
  <2>3. client' \in ClientState /\ client'.post = p /\ client'.rid = client.rid
    BY <1>0, <2>2 DEF ClientState
  <2> HIDE DEF c
  <2>4. post' \in [PostTasks -> PostState] /\ \A q \in PostTasks : post'[q] = IF q = p THEN c ELSE post[q]
    BY <2>1, <2>2, PostMoves
  <2>5. ClientPost'
    BY <2>1, <2>3, <2>4 DEF ClientPost, TypeInv
  <2>6. SessionOK'
    BY <1>1, Zenon DEF Handshake, SessionOK
  <2> QED BY <1>1, <2>3, <2>4, <2>5, <2>6 DEF Handshake, TypeInv, TypeOK, buffer
<1>2. CASE SendPost(p)
  <2> DEFINE c == [phase |-> "sent", rid |-> client.rid, aid |-> client.aid, next |-> 1]
  <2>1. client.rid <= Posts /\ client.rid \in 1 .. Posts + 1
    BY <1>0, <1>2 DEF SendPost, ClientState
  <2>2. c \in PostState /\ c.phase = "sent" /\ c.rid # 0
    BY <1>0, <2>1, WebChannelAssumption DEF PostState, ClientState
  <2>3. client' = [client EXCEPT !.post = p] /\ post' = [post EXCEPT ![p] = c]
    BY <1>2 DEF SendPost
  <2>4. client' \in ClientState /\ client'.post = p /\ client'.rid = client.rid
    BY <1>0, <2>3 DEF ClientState
  <2> HIDE DEF c
  <2>5. post' \in [PostTasks -> PostState] /\ \A q \in PostTasks : post'[q] = IF q = p THEN c ELSE post[q]
    BY <2>2, <2>3, PostMoves
  <2>6. ClientPost'
    BY <2>1, <2>2, <2>4, <2>5 DEF ClientPost, TypeInv
  <2>7. SessionOK'
    BY <1>2, Zenon DEF SendPost, SessionOK, session, TypeInv, TypeOK
  <2> QED BY <1>2, <2>4, <2>5, <2>6, <2>7 DEF SendPost, TypeInv, TypeOK, buffer
<1>3. CASE PostUnknown(p)
  <2>1. [client EXCEPT !.state = "closed"] \in ClientState
    BY <1>0 DEF ClientState
  <2>2. post' = [post EXCEPT ![p] = FreePost] /\ Tells(p, [client EXCEPT !.state = "closed"])
    BY <1>3 DEF PostUnknown
  <2>3. client' \in ClientState /\ (client'.post # None => client' = client /\ client.post # p)
    BY <2>1, <2>2, TellsType
  <2>4. post' \in [PostTasks -> PostState] /\ ClientPost'
    BY <2>2, <2>3, PostFields, PostMoves, ClientPostKept DEF FreePost
  <2>5. SessionOK'
    BY <1>3, Zenon DEF PostUnknown, SessionOK, session, TypeInv, TypeOK
  <2> QED BY <1>3, <2>3, <2>4, <2>5 DEF PostUnknown, TypeInv, TypeOK, buffer
<1>4. CASE PostRepeated(p)
  <2>1. post' = [post EXCEPT ![p] = FreePost] /\ Tells(p, Accepted(p)) /\ Ack(post[p].aid)
    BY <1>4 DEF PostRepeated
  <2>2. client.post = p => Accepted(p) \in ClientState
    BY <1>4, AcceptedType DEF PostRepeated
  <2>3. client' \in ClientState /\ (client'.post # None => client' = client /\ client.post # p)
    BY <1>0, <2>1, <2>2, TellsType DEF Tells
  <2>4. post' \in [PostTasks -> PostState] /\ ClientPost'
    BY <2>1, <2>3, PostFields, PostMoves, ClientPostKept DEF FreePost
  <2>5. arrays' \in Seq(Nat)
    BY <2>1, PostFields, AckType
  <2>6. SessionOK'
    BY <1>4, Zenon DEF PostRepeated, SessionOK, session, TypeInv, TypeOK
  <2> QED BY <1>4, <2>3, <2>4, <2>5, <2>6 DEF PostRepeated, TypeInv, TypeOK
<1>5. CASE PostNew(p)
  <2> DEFINE c == [post[p] EXCEPT !.phase = "delivering"]
  <2>1. post' = [post EXCEPT ![p] = c] /\ Ack(post[p].aid) /\ client' = client
    BY <1>5 DEF PostNew
  <2>2. post[p] \in PostState /\ c \in PostState /\ post[p].rid \in 0 .. Posts /\ post[p].rid # 0
    BY <1>5, PostFields DEF PostNew, TypeInv, ClientPost
  <2>3. c.phase = "delivering" /\ c.rid = post[p].rid
    BY <2>2 DEF PostState
  <2> HIDE DEF c
  <2>4. post' \in [PostTasks -> PostState] /\ ClientPost'
    BY <1>0, <2>1, <2>2, <2>3, PostMoves, ClientPostKept
  <2>5. arrays' \in Seq(Nat)
    BY <2>1, PostFields, AckType
  <2>6. SessionOK'
    BY <1>5, Zenon DEF PostNew, SessionOK, session, TypeInv, TypeOK
  <2>7. rids' \subseteq 1 .. Posts
    BY <1>5, <2>2, WebChannelAssumption DEF PostNew, TypeInv, TypeOK
  <2> QED BY <1>5, <2>4, <2>5, <2>6, <2>7 DEF PostNew, TypeInv, TypeOK
<1>6. CASE Deliver(p)
  <2>1. <<post[p].rid, post[p].next>> \in Message
    BY PostFields DEF Message
  <2>2. inbox' \in Seq(Message) /\ Len(inbox') <= Capacity
    BY <1>6, <2>1, AppendProperties, WebChannelAssumption DEF Deliver, TypeInv, TypeOK
  <2>3. SessionOK'
    BY <1>6, Zenon DEF Deliver, SessionOK, session, TypeInv, TypeOK
  <2>4. client' \in ClientState /\ post' \in [PostTasks -> PostState] /\ ClientPost'
    <3>1. CASE post[p].next = Size
      <4>1. post' = [post EXCEPT ![p] = FreePost] /\ Tells(p, Accepted(p)) /\ post[p].phase # "free"
        BY <1>6, <3>1 DEF Deliver
      <4>2. client.post = p => Accepted(p) \in ClientState
        BY <4>1, AcceptedType
      <4>3. client' \in ClientState /\ (client'.post # None => client' = client /\ client.post # p)
        BY <1>0, <4>1, <4>2, TellsType DEF Tells
      <4> QED BY <4>1, <4>3, PostFields, PostMoves, ClientPostKept DEF FreePost
    <3>2. CASE post[p].next # Size
      <4> DEFINE c == [post[p] EXCEPT !.next = @ + 1]
      <4>1. post' = [post EXCEPT ![p] = c] /\ client' = client /\ post[p].phase = "delivering"
        BY <1>6, <3>2 DEF Deliver
      <4>2. post[p] \in PostState /\ c \in PostState
        BY <3>2, PostFields
      <4>3. c.phase = post[p].phase /\ c.rid = post[p].rid
        BY <4>2 DEF PostState
      <4> HIDE DEF c
      <4> QED BY <1>0, <4>1, <4>2, <4>3, PostMoves, ClientPostKept
    <3> QED BY <3>1, <3>2
  <2> QED BY <1>6, <2>2, <2>3, <2>4 DEF Deliver, TypeInv, TypeOK, buffer
<1>7. CASE DeliverFails(p)
  <2> DEFINE told == IF post[p].rid = 0 THEN [client EXCEPT !.state = "closed"] ELSE client
  <2>1. told \in ClientState
    BY <1>0 DEF ClientState
  <2>2. post' = [post EXCEPT ![p] = FreePost] /\ Tells(p, told)
    BY <1>7 DEF DeliverFails
  <2> HIDE DEF told
  <2>3. client' \in ClientState /\ (client'.post # None => client' = client /\ client.post # p)
    BY <2>1, <2>2, TellsType
  <2>4. post' \in [PostTasks -> PostState] /\ ClientPost'
    BY <2>2, <2>3, PostFields, PostMoves, ClientPostKept DEF FreePost
  <2>5. SessionOK'
    BY <1>7, Zenon DEF DeliverFails, SessionOK, session, TypeInv, TypeOK
  <2> QED BY <1>7, <2>3, <2>4, <2>5 DEF DeliverFails, TypeInv, TypeOK, buffer
<1>8. CASE PostDropped(p)
  <2>1. post' = [post EXCEPT ![p] = FreePost] /\ client' = client /\ client.post # p
    BY <1>8 DEF PostDropped
  <2>2. post' \in [PostTasks -> PostState] /\ ClientPost'
    BY <1>0, <2>1, PostFields, PostMoves, ClientPostKept DEF FreePost
  <2>3. SessionOK'
    BY <1>8, Zenon DEF PostDropped, SessionOK, session, TypeInv, TypeOK
  <2> QED BY <1>8, <2>2, <2>3 DEF PostDropped, TypeInv, TypeOK, buffer
<1> QED BY <1>1, <1>2, <1>3, <1>4, <1>5, <1>6, <1>7, <1>8 DEF PostStep

-----------------------------------------------------------------------------

\* A GET goes on.
LEMMA BackMoves ==
    ASSUME TypeInv, NEW b \in BackTasks, NEW c \in BackState, back' = [back EXCEPT ![b] = c]
    PROVE  /\ back' \in [BackTasks -> BackState]
           /\ \A a \in BackTasks : back'[a] = IF a = b THEN c ELSE back[a]
BY DEF TypeInv, TypeOK

LEMMA BackFields ==
    ASSUME TypeInv, NEW b \in BackTasks
    PROVE  /\ back[b] \in BackState /\ back[b].wire \in Seq(Frame) /\ back[b].cursor \in Nat
           /\ FreeBack \in BackState
           /\ back = [a \in BackTasks |-> back[a]]
<1>1. FreeBack \in BackState
  BY DEF FreeBack, BackState
<1> QED BY <1>1 DEF TypeInv, TypeOK, BackState

\* A GET that only goes to another place keeps its cursor and its frames.
LEMMA PhaseMoves ==
    ASSUME TypeInv, NEW b \in BackTasks, back' = [back EXCEPT ![b].phase = "waiting"]
                                      \/ back' = [back EXCEPT ![b].phase = "arming"]
                                      \/ back' = [back EXCEPT ![b].phase = "ending"]
    PROVE  \E c \in BackState :
             /\ back' = [back EXCEPT ![b] = c] /\ c.phase # "free"
             /\ c.cursor = back[b].cursor /\ c.wire = back[b].wire
<1>1. PICK phase \in {"waiting", "arming", "ending"} : back' = [back EXCEPT ![b].phase = phase]
  OBVIOUS
<1> DEFINE c == [back[b] EXCEPT !.phase = phase]
<1>2. c \in BackState /\ c.phase # "free" /\ c.cursor = back[b].cursor /\ c.wire = back[b].wire
  BY BackFields DEF BackState
<1>3. back' = [back EXCEPT ![b] = c]
  BY <1>1
<1> QED BY <1>2, <1>3

LEMMA WrittenType ==
    ASSUME TypeInv, NEW b \in BackTasks, NEW frames \in Seq(Frame)
    PROVE  Written(b, frames) \in Seq(Frame)
BY BackFields, ConcatProperties DEF Written

\* A noop has an id that no array has had.
LEMMA NoopSent ==
    ASSUME TypeInv, NEW b \in BackTasks, SendNoop(b)
    PROVE  /\ nextId' \in Nat /\ nextId <= nextId'
           /\ \E c \in BackState :
                /\ back' = [back EXCEPT ![b] = c]
                /\ c.phase # "free" /\ c.cursor = back[b].cursor
                /\ \/ c.wire = back[b].wire
                   \/ c.wire = Written(b, << [id |-> nextId, data |-> FALSE] >>)
<1> DEFINE noop == [id |-> nextId, data |-> FALSE]
           wire == IF nextId > MaxIds THEN back[b].wire ELSE Written(b, << noop >>)
           c == [back[b] EXCEPT !.phase = "polling", !.wire = wire]
<1>1. nextId \in Nat
  BY DEF TypeInv, TypeOK
<1>2. noop \in Frame
  BY <1>1 DEF Frame
<1>3. wire \in Seq(Frame)
  <2>1. << noop >> \in Seq(Frame)
    BY <1>2
  <2> HIDE DEF noop
  <2> QED BY <2>1, WrittenType, BackFields
<1>4. back' = [back EXCEPT ![b] = c]
  BY BackFields DEF SendNoop, BackState
<1>5. nextId' \in Nat /\ nextId <= nextId'
  BY <1>1 DEF SendNoop, NoopTakesId
<1>6. wire = back[b].wire \/ wire = Written(b, << noop >>)
  OBVIOUS
<1> HIDE DEF wire
<1>7. c \in BackState /\ c.phase # "free" /\ c.cursor = back[b].cursor /\ c.wire = wire
  BY <1>3, BackFields DEF BackState
<1> QED BY <1>4, <1>5, <1>6, <1>7

\* The frames of the arrays past the cursor are put on the wire, and the cursor
\* goes to the last of them.
LEMMA PendingSent ==
    ASSUME TypeInv, NEW b \in BackTasks, SendPending(b)
    PROVE  \E n \in 0 .. Len(arrays), c \in BackState :
             /\ FirstUpTo(back[b].cursor, n) /\ Frames(n) \in Seq(Frame)
             /\ Len(arrays) # 0
             /\ back' = [back EXCEPT ![b] = c]
             /\ c.phase # "free" /\ c.cursor = arrays[Len(arrays)]
             /\ c.wire = Written(b, Frames(n))
<1>1. PICK n \in 0 .. Len(arrays) :
        /\ FirstUpTo(back[b].cursor, n)
        /\ back' = [back EXCEPT ![b].cursor = arrays[Len(arrays)],
                       ![b].wire = Written(b, Frames(n)),
                       ![b].phase = IF back[b].long THEN "ending" ELSE "polling"]
  BY DEF SendPending
<1>2. arrays \in Seq(Nat) /\ Len(arrays) \in Nat /\ DOMAIN arrays = 1 .. Len(arrays)
  BY LenProperties DEF TypeInv, TypeOK
<1>3. Len(arrays) # 0
  BY <1>2 DEF SendPending, NothingPending
<1>4. arrays[Len(arrays)] \in Nat
  BY <1>2, <1>3
<1>5. Frames(n) \in Seq(Frame)
  <2>1. Len(arrays) - n \in Nat
    BY <1>2
  <2>2. \A k \in 1 .. Len(arrays) - n : [id |-> arrays[n + k], data |-> TRUE] \in Frame
    <3> SUFFICES ASSUME NEW k \in 1 .. Len(arrays) - n
                 PROVE  [id |-> arrays[n + k], data |-> TRUE] \in Frame
      OBVIOUS
    <3>1. n + k \in DOMAIN arrays
      BY <1>2
    <3>2. arrays[n + k] \in Nat
      BY <1>2, <3>1
    <3> QED BY <3>2 DEF Frame
  <2> QED BY <2>1, <2>2 DEF Frames
<1> DEFINE wire == Written(b, Frames(n))
           phase == IF back[b].long THEN "ending" ELSE "polling"
           c == [back[b] EXCEPT !.cursor = arrays[Len(arrays)], !.wire = wire, !.phase = phase]
<1>6. wire \in Seq(Frame) /\ phase \in {"ending", "polling"}
  BY <1>5, WrittenType
<1>7. back' = [back EXCEPT ![b] = c]
  BY <1>1, BackFields DEF BackState
<1> HIDE DEF wire, phase
<1>8. c \in BackState /\ c.phase # "free" /\ c.cursor = arrays[Len(arrays)] /\ c.wire = wire
  BY <1>4, <1>6, BackFields DEF BackState
<1> QED BY <1>1, <1>3, <1>5, <1>7, <1>8 DEF wire

\* A frame that is read leaves the wire, and its id is the client's AID.
LEMMA FrameRead ==
    ASSUME TypeInv, NEW b \in BackTasks, ClientReads(b)
    PROVE  /\ Head(back[b].wire) \in Frame /\ Len(back[b].wire) # 0
           /\ client' = [client EXCEPT !.aid = Head(back[b].wire).id,
                                     !.received = IF Head(back[b].wire).data
                                                  THEN Append(@, Head(back[b].wire).id) ELSE @]
           /\ client' \in ClientState /\ client'.aid = Head(back[b].wire).id
           /\ client'.post = client.post /\ client'.rid = client.rid /\ client'.back = client.back
           /\ client'.received = IF Head(back[b].wire).data
                                 THEN Append(client.received, Head(back[b].wire).id)
                                 ELSE client.received
           /\ \E c \in BackState : /\ back' = [back EXCEPT ![b] = c]
                                  /\ c.phase = back[b].phase /\ c.cursor = back[b].cursor
                                  /\ c.wire = Tail(back[b].wire)
<1>0. client \in ClientState /\ client.received \in Seq(Nat)
  BY DEF TypeInv, TypeOK, ClientState
<1>1. back[b].wire \in Seq(Frame) /\ back[b].wire # << >>
  BY BackFields DEF ClientReads
<1> DEFINE frame == Head(back[b].wire)
           received == IF frame.data THEN Append(client.received, frame.id) ELSE client.received
<1>2. frame \in Frame /\ Tail(back[b].wire) \in Seq(Frame) /\ Len(back[b].wire) # 0
  BY <1>1, HeadTailProperties
<1>3. frame.id \in Nat /\ received \in Seq(Nat)
  BY <1>0, <1>2, AppendProperties DEF Frame
<1>4. client' = [client EXCEPT !.aid = frame.id, !.received = received]
  BY <1>0 DEF ClientReads, ClientState
<1>5. client' = [client EXCEPT !.aid = frame.id,
                               !.received = IF frame.data THEN Append(@, frame.id) ELSE @]
  BY DEF ClientReads
<1> DEFINE c == [back[b] EXCEPT !.wire = Tail(back[b].wire)]
<1>6. back' = [back EXCEPT ![b] = c]
  BY BackFields DEF ClientReads
<1>7. c \in BackState /\ c.phase = back[b].phase /\ c.cursor = back[b].cursor /\ c.wire = Tail(back[b].wire)
  BY <1>2, BackFields DEF BackState
<1>8. received = IF frame.data THEN Append(client.received, frame.id) ELSE client.received
  OBVIOUS
<1> HIDE DEF frame, received, c
<1>9. client' \in ClientState /\ client'.aid = frame.id /\ client'.received = received
      /\ client'.post = client.post /\ client'.rid = client.rid /\ client'.back = client.back
  BY <1>0, <1>3, <1>4 DEF ClientState
<1> QED BY <1>2, <1>5, <1>6, <1>7, <1>8, <1>9 DEF frame

\* The client opens, leaves or loses a GET.
LEMMA ClientBackType ==
    ASSUME TypeInv, NEW b \in BackTasks \cup {None}, client' = [client EXCEPT !.back = b]
    PROVE  /\ client' \in ClientState /\ client'.back = b /\ client'.post = client.post
           /\ client'.rid = client.rid /\ client'.aid = client.aid
           /\ client'.received = client.received
BY DEF TypeInv, TypeOK, ClientState

\* The posts of the client are as they were.
LEMMA PostsRest ==
    ASSUME TypeInv, post' = post, client'.post = client.post, client'.rid = client.rid
    PROVE  ClientPost'
BY DEF TypeInv, ClientPost

\* The back channel keeps the types.
LEMMA TypeBack ==
    ASSUME TypeInv, NEW b \in BackTasks, NEW long \in BOOLEAN,
           \/ OpenBack(b, long) \/ BackStep(b) \/ ClientReads(b) \/ HoldExpires(b)
           \/ BreakBack(b) \/ BackNotices(b)
    PROVE  TypeInv'
<1>0. client \in ClientState /\ b # None
  BY WebChannelAssumption DEF TypeInv, TypeOK
<1>1. ASSUME UNCHANGED <<session, forward>>, arrays' \in Seq(Nat), nextId' \in Nat, pushed' = pushed,
             back' \in [BackTasks -> BackState], client' \in ClientState,
             client'.post = client.post, client'.rid = client.rid, breaks' \in 0 .. MaxBreaks
      PROVE  TypeInv'
  <2>1. ClientPost'
    BY <1>1, PostsRest DEF forward
  <2>2. SessionOK'
    BY <1>1, Zenon DEF SessionOK, session, TypeInv, TypeOK
  <2> QED BY <1>1, <2>1, <2>2 DEF forward, TypeInv, TypeOK
<1>2. arrays \in Seq(Nat) /\ nextId \in Nat /\ breaks \in 0 .. MaxBreaks
      /\ back \in [BackTasks -> BackState]
  BY DEF TypeInv, TypeOK
<1>3. CASE OpenBack(b, long)
  <2>1. [FreeBack EXCEPT !.phase = "opening", !.long = long] \in BackState
    <3>1. FreeBack \in BackState
      BY BackFields
    <3>2. "opening" \in {"free", "opening", "polling", "arming", "waiting", "ending"}
      OBVIOUS
    <3> QED BY <3>1, <3>2, Zenon DEF BackState
  <2>2. arrays' \in Seq(Nat)
    BY <1>0, <1>3, AckType DEF OpenBack, ClientState
  <2>3. back' \in [BackTasks -> BackState]
    BY <1>3, <2>1, BackMoves DEF OpenBack
  <2>4. client' \in ClientState /\ client'.post = client.post /\ client'.rid = client.rid
    BY <1>3, ClientBackType DEF OpenBack
  <2> QED BY <1>1, <1>2, <1>3, <2>2, <2>3, <2>4 DEF OpenBack
<1>4. CASE FirstFrame(b) \/ Keepalive(b)
  <2>1. SendNoop(b) /\ UNCHANGED <<session, forward, arrays, pushed, client, breaks>>
    BY <1>4 DEF FirstFrame, Keepalive
  <2>2. nextId' \in Nat /\ back' \in [BackTasks -> BackState]
    BY <2>1, NoopSent, BackMoves
  <2> QED BY <1>0, <1>1, <1>2, <2>1, <2>2
<1>5. CASE SendPending(b)
  <2>1. back' \in [BackTasks -> BackState]
    BY <1>5, PendingSent, BackMoves
  <2> QED BY <1>0, <1>1, <1>2, <1>5, <2>1 DEF SendPending, buffer
<1>6. CASE LooksAgain(b) \/ Waits(b) \/ HoldExpires(b)
  <2>1. back' \in [BackTasks -> BackState]
    BY <1>6, PhaseMoves, BackMoves DEF LooksAgain, Waits, HoldExpires
  <2> QED BY <1>0, <1>1, <1>2, <1>6, <2>1 DEF LooksAgain, Waits, HoldExpires, buffer
<1>7. CASE ClientReads(b)
  <2>1. back' \in [BackTasks -> BackState] /\ client' \in ClientState
        /\ client'.post = client.post /\ client'.rid = client.rid
    BY <1>7, FrameRead, BackMoves
  <2> QED BY <1>1, <1>2, <1>7, <2>1 DEF ClientReads, buffer
<1>8. CASE BackEnds(b)
  <2>1. back' \in [BackTasks -> BackState]
    BY <1>8, BackFields, BackMoves DEF BackEnds
  <2>2. client' \in ClientState /\ client'.post = client.post /\ client'.rid = client.rid
    BY <1>0, <1>8, ClientBackType DEF BackEnds
  <2> QED BY <1>1, <1>2, <1>8, <2>1, <2>2 DEF BackEnds, buffer
<1>9. CASE BreakBack(b)
  <2>1. [back[b] EXCEPT !.wire = << >>] \in BackState /\ back' = [back EXCEPT ![b] = [back[b] EXCEPT !.wire = << >>]]
    BY <1>9, BackFields, EmptySeq DEF BreakBack, BackState
  <2>2. back' \in [BackTasks -> BackState]
    BY <2>1, BackMoves
  <2>3. client' \in ClientState /\ client'.post = client.post /\ client'.rid = client.rid
    BY <1>9, ClientBackType DEF BreakBack
  <2>4. breaks' \in 0 .. MaxBreaks
    BY <1>2, <1>9, WebChannelAssumption DEF BreakBack
  <2> QED BY <1>1, <1>2, <1>9, <2>2, <2>3, <2>4 DEF BreakBack, buffer
<1>10. CASE BackNotices(b)
  <2>1. back' \in [BackTasks -> BackState]
    BY <1>10, BackFields, BackMoves DEF BackNotices
  <2>2. nextId' \in Nat
    BY <1>2, <1>10 DEF BackNotices, NoopTakesId
  <2> QED BY <1>0, <1>1, <1>2, <1>10, <2>1, <2>2 DEF BackNotices
<1> QED BY <1>3, <1>4, <1>5, <1>6, <1>7, <1>8, <1>9, <1>10 DEF BackStep

\* So do the tasks of the stream, a broken post and the end of a session.
LEMMA TypeRest ==
    ASSUME TypeInv, StreamTakes \/ PushArray \/ StreamEnds \/ FillerEnds \/ BreakPost \/ Terminate
    PROVE  TypeInv'
<1>0. client \in ClientState /\ back \in [BackTasks -> BackState]
  BY DEF TypeInv, TypeOK
<1>1. CASE StreamTakes
  <2>1. inbox \in Seq(Message) /\ taken \in Seq(Message) /\ Len(inbox) <= Capacity /\ inbox # << >>
    BY <1>1 DEF StreamTakes, TypeInv, TypeOK
  <2>2. Head(inbox) \in Message /\ Tail(inbox) \in Seq(Message) /\ Len(Tail(inbox)) = Len(inbox) - 1
    BY <2>1, HeadTailProperties
  <2>3. inbox' \in Seq(Message) /\ taken' \in Seq(Message) /\ Len(inbox') <= Capacity
    BY <1>1, <2>1, <2>2, AppendProperties, WebChannelAssumption DEF StreamTakes
  <2>4. SessionOK'
    BY <1>1, Zenon DEF StreamTakes, SessionOK, session, TypeInv, TypeOK
  <2>5. ClientPost'
    BY <1>1, PostsRest DEF StreamTakes
  <2> QED BY <1>1, <2>3, <2>4, <2>5 DEF StreamTakes, TypeInv, TypeOK, buffer
<1>2. CASE PushArray
  <2>1. arrays' \in Seq(Nat) /\ pushed' \in Seq(Nat) /\ nextId' \in Nat
    BY <1>2, AppendProperties DEF PushArray, TypeInv, TypeOK
  <2>2. back' \in [BackTasks -> BackState]
    <3> SUFFICES ASSUME NEW a \in BackTasks PROVE [back[a] EXCEPT !.phase = "polling"] \in BackState
      BY <1>0, <1>2 DEF PushArray
    <3> QED BY <1>0 DEF BackState
  <2>3. SessionOK'
    BY <1>2, Zenon DEF PushArray, SessionOK, session, TypeInv, TypeOK
  <2>4. ClientPost'
    BY <1>2, PostsRest DEF PushArray, forward
  <2> QED BY <1>2, <2>1, <2>2, <2>3, <2>4 DEF PushArray, TypeInv, TypeOK, forward
<1>3. CASE StreamEnds
  <2>1. SessionOK'
    BY <1>3, Zenon DEF StreamEnds, SessionOK, TypeInv, TypeOK
  <2>2. ClientPost'
    BY <1>3, PostsRest DEF StreamEnds
  <2>3. inbox' \in Seq(Message) /\ Len(inbox') <= Capacity
    BY <1>3, WebChannelAssumption DEF StreamEnds
  <2> QED BY <1>3, <2>1, <2>2, <2>3 DEF StreamEnds, TypeInv, TypeOK, buffer
<1>4. CASE FillerEnds
  <2>1. SessionOK'
    BY <1>4, Zenon DEF FillerEnds, SessionOK, TypeInv, TypeOK
  <2>2. ClientPost'
    BY <1>4, PostsRest DEF FillerEnds, forward
  <2> QED BY <1>4, <2>1, <2>2 DEF FillerEnds, TypeInv, TypeOK, buffer, forward
<1>5. CASE BreakPost
  <2>1. client' \in ClientState /\ client'.post = None
    <3> DEFINE state == IF client.state = "opening" THEN "closed" ELSE client.state
    <3>1. state \in {"new", "opening", "open", "closed"}
      BY <1>0 DEF ClientState
    <3>2. client' = [client EXCEPT !.post = None, !.state = state]
      BY <1>0, <1>5 DEF BreakPost, ClientState
    <3> HIDE DEF state
    <3> QED BY <1>0, <3>1, <3>2 DEF ClientState
  <2>2. ClientPost'
    BY <1>5, <2>1 DEF BreakPost, forward, ClientPost, TypeInv
  <2>3. breaks' \in 0 .. MaxBreaks
    BY <1>5, WebChannelAssumption DEF BreakPost, TypeInv, TypeOK
  <2>4. SessionOK'
    BY <1>5, Zenon DEF BreakPost, SessionOK, session, TypeInv, TypeOK
  <2> QED BY <1>5, <2>1, <2>2, <2>3, <2>4 DEF BreakPost, TypeInv, TypeOK, buffer, forward
<1>6. CASE Terminate
  <2>1. client' \in ClientState /\ client'.post = None
    BY <1>0, <1>6 DEF Terminate, ClientState
  <2>2. back' \in [BackTasks -> BackState]
    <3> SUFFICES ASSUME NEW a \in BackTasks PROVE [back[a] EXCEPT !.wire = << >>] \in BackState
      BY <1>0, <1>6 DEF Terminate
    <3> QED BY <1>0, EmptySeq DEF BackState
  <2>3. ClientPost'
    BY <1>6, <2>1 DEF Terminate, forward, ClientPost, TypeInv
  <2>4. SessionOK'
    BY <1>6, Zenon DEF Terminate, SessionOK, TypeInv, TypeOK
  <2> QED BY <1>6, <2>1, <2>2, <2>3, <2>4 DEF Terminate, TypeInv, TypeOK, buffer, forward
<1> QED BY <1>1, <1>2, <1>3, <1>4, <1>5, <1>6

LEMMA TypeStutters ==
    ASSUME TypeInv, UNCHANGED vars
    PROVE  TypeInv'
BY DEF vars, TypeInv, TypeOK, SessionOK, ClientPost

LEMMA TypeNext == TypeInv /\ [Next]_vars => TypeInv'
BY TypeForward, TypeBack, TypeRest, TypeStutters DEF Next

\* Every variable keeps its type, and the request channel its capacity, in every
\* session (webchannel.rs: Session, deliver, push_array).
THEOREM TypeCorrect == Spec => []TypeOK
<1>1. Init => TypeInv
  BY TypeInit
<1>2. TypeInv => TypeOK
  BY DEF TypeInv
<1> QED BY <1>1, <1>2, TypeNext, PTL DEF Spec

-----------------------------------------------------------------------------
(* Messages.                                                               *)

\* The messages the stream has been given.
Given == taken \o inbox

\* A post whose messages the stream may have been given.
Begun(rid) == rid \in rids \/ (rid = 0 /\ client.state # "new")

\* The messages of a post that is being delivered are given up to the next one.
DeliveredUpToNext ==
    \A p \in PostTasks : post[p].phase = "delivering" =>
        /\ Begun(post[p].rid)
        /\ \A k \in DOMAIN Given : Given[k][1] = post[p].rid => Given[k][2] < post[p].next

\* No post is delivered by two requests at once.
OneDelivers ==
    \A p, q \in PostTasks :
        post[p].phase = "delivering" /\ post[q].phase = "delivering" /\ p # q
            => post[p].rid # post[q].rid

GivenBegun == \A k \in DOMAIN Given : Begun(Given[k][1])

OnceInv == MessagesOnce /\ GivenBegun /\ DeliveredUpToNext /\ OneDelivers

\* Two sequences of messages put together, one message after the other.
LEMMA ConcatShape ==
    ASSUME NEW s \in Seq(Message), NEW t \in Seq(Message)
    PROVE  /\ DOMAIN (s \o t) = 1 .. Len(s) + Len(t)
           /\ Len(s) \in Nat /\ Len(t) \in Nat
           /\ \A k \in DOMAIN (s \o t) :
                (s \o t)[k] \in Message /\ (s \o t)[k] = IF k <= Len(s) THEN s[k] ELSE t[k - Len(s)]
<1> DEFINE g == s \o t
<1>1. /\ g \in Seq(Message) /\ Len(g) = Len(s) + Len(t)
      /\ \A i \in 1 .. Len(s) + Len(t) : g[i] = IF i <= Len(s) THEN s[i] ELSE t[i - Len(s)]
  BY ConcatProperties
<1>2. Len(s) \in Nat /\ Len(t) \in Nat
  BY LenProperties
<1> HIDE DEF g
<1>3. DOMAIN g = 1 .. Len(g)
  BY <1>1, LenProperties
<1>4. \A k \in DOMAIN g : g[k] \in Message
  BY <1>1, <1>3, ElementOfSeq
<1> QED BY <1>1, <1>2, <1>3, <1>4 DEF g

\* The stream is given nothing new, and nobody starts to deliver.
LEMMA OnceKept ==
    ASSUME OnceInv,
           \A k \in DOMAIN Given' : k \in DOMAIN Given /\ Given'[k] = Given[k],
           \A rid : Begun(rid) => Begun(rid)',
           \A p \in PostTasks : post'[p].phase = "delivering" => post'[p] = post[p]
    PROVE  OnceInv'
<1>1. MessagesOnce'
  BY DEF OnceInv, MessagesOnce, IsInjective, Given
<1> USE DEF OnceInv
<1>2. GivenBegun'
  BY DEF GivenBegun
<1>3. DeliveredUpToNext'
  BY DEF DeliveredUpToNext
<1>4. OneDelivers'
  BY DEF OneDelivers
<1> QED BY <1>1, <1>2, <1>3, <1>4

\* A request starts to deliver a post of which nothing was given.
LEMMA OnceStarts ==
    ASSUME OnceInv, UNCHANGED <<taken, inbox>>, \A rid : Begun(rid) => Begun(rid)',
           NEW p \in PostTasks, ~Begun(post'[p].rid), Begun(post[p].rid)',
           \A q \in PostTasks : q # p => post'[q] = post[q]
    PROVE  OnceInv'
<1>1. Given' = Given
  BY DEF Given
<1> USE DEF OnceInv
<1>2. MessagesOnce' /\ GivenBegun'
  BY <1>1 DEF MessagesOnce, Given, GivenBegun
<1>3. DeliveredUpToNext'
  BY <1>1 DEF DeliveredUpToNext, GivenBegun
<1>4. OneDelivers'
  BY DEF OneDelivers, DeliveredUpToNext
<1> QED BY <1>2, <1>3, <1>4

\* The stream is given the next message of a post.
LEMMA OnceGiven ==
    ASSUME TypeInv, TypeInv', OnceInv, NEW p \in PostTasks, Deliver(p)
    PROVE  OnceInv'
<1> DEFINE rid == post[p].rid
           m == <<rid, post[p].next>>
           last == Len(taken) + Len(inbox) + 1
<1>1. /\ post[p].phase = "delivering" /\ inbox' = Append(inbox, m)
      /\ UNCHANGED <<taken, rids>>
  BY DEF Deliver
<1>2. m \in Message /\ m[1] = rid /\ m[2] = post[p].next /\ post[p].next \in Nat
  <2>1. post[p].rid \in 0 .. Posts /\ post[p].next \in 1 .. Size
    BY PostFields
  <2> QED BY <2>1, WebChannelAssumption DEF Message
<1>3. inbox \in Seq(Message) /\ taken \in Seq(Message) /\ inbox' \in Seq(Message) /\ taken' \in Seq(Message)
  BY DEF TypeInv, TypeOK
<1>4. /\ Len(inbox') = Len(inbox) + 1 /\ inbox'[Len(inbox) + 1] = m
      /\ \A k \in 1 .. Len(inbox) : inbox'[k] = inbox[k]
  BY <1>1, <1>2, <1>3, AppendProperties
<1>5. /\ Len(taken) \in Nat /\ Len(inbox) \in Nat
      /\ DOMAIN Given = 1 .. last - 1 /\ DOMAIN Given' = 1 .. last
      /\ Given'[last] = m /\ \A k \in DOMAIN Given : Given'[k] = Given[k]
  <2>1. Len(taken) \in Nat /\ Len(inbox) \in Nat /\ DOMAIN Given = 1 .. Len(taken) + Len(inbox)
        /\ DOMAIN Given' = 1 .. Len(taken) + Len(inbox')
    BY <1>1, <1>3, ConcatShape DEF Given
  <2>2. last \in DOMAIN Given' /\ ~(last <= Len(taken)) /\ last - Len(taken) = Len(inbox) + 1
    BY <1>4, <2>1
  <2>3. Given'[last] = m
    BY <1>1, <1>3, <1>4, <2>1, <2>2, ConcatShape DEF Given
  <2>4. ASSUME NEW k \in DOMAIN Given PROVE Given'[k] = Given[k]
    <3>1. k \in DOMAIN Given' /\ k \in Nat
      BY <1>4, <2>1
    <3>2. k <= Len(taken) \/ k - Len(taken) \in 1 .. Len(inbox)
      BY <2>1, <3>1
    <3>3. Given[k] = IF k <= Len(taken) THEN taken[k] ELSE inbox[k - Len(taken)]
      BY <1>3, ConcatShape DEF Given
    <3>4. Given'[k] = IF k <= Len(taken) THEN taken[k] ELSE inbox'[k - Len(taken)]
      BY <1>1, <1>3, <3>1, ConcatShape DEF Given
    <3> QED BY <1>4, <3>2, <3>3, <3>4
  <2> QED BY <1>4, <2>1, <2>3, <2>4
<1>6. Begun(rid) /\ \A k \in DOMAIN Given : Given[k][1] = rid => Given[k][2] < post[p].next
  BY <1>1 DEF OnceInv, DeliveredUpToNext
<1>7. \A k \in DOMAIN Given : Given[k] # m
  BY <1>2, <1>6
<1>8. \A r : Begun(r) => Begun(r)'
  <2>1. client.state # "new" => client'.state # "new"
    BY DEF Deliver, Tells, Accepted, TypeInv, TypeOK, ClientState
  <2> QED BY <1>1, <2>1 DEF Begun
<1>9. \A q \in PostTasks \ {p} : post'[q] = post[q]
  BY DEF Deliver, TypeInv, TypeOK
<1>10. post'[p].phase = "delivering" => post'[p].rid = rid /\ post'[p].next = post[p].next + 1
  <2>1. post[p] \in PostState /\ post \in [PostTasks -> PostState]
    BY DEF TypeInv, TypeOK
  <2> QED BY <2>1 DEF Deliver, FreePost, PostState
<1> HIDE DEF m, last, rid
<1>11. MessagesOnce'
  <2>1. DOMAIN Given' = DOMAIN Given \cup {last}
    <3>1. 1 .. last = 1 .. last - 1 \cup {last}
      BY <1>5 DEF last
    <3> QED BY <1>5, <3>1
  <2>2. \A j, k \in DOMAIN Given : Given[j] = Given[k] => j = k
    BY DEF OnceInv, MessagesOnce, IsInjective, Given
  <2>3. \A j, k \in DOMAIN Given' : Given'[j] = Given'[k] => j = k
    BY <1>5, <1>7, <2>1, <2>2
  <2> QED BY <2>3 DEF MessagesOnce, IsInjective, Given
<1>12. GivenBegun'
  <2>1. \A k \in DOMAIN Given : Begun(Given[k][1])
    BY DEF OnceInv, GivenBegun
  <2>2. \A k \in DOMAIN Given' : k \in DOMAIN Given \/ k = last
    BY <1>5 DEF last
  <2> QED BY <1>2, <1>5, <1>6, <1>8, <2>1, <2>2 DEF GivenBegun
<1>13. DeliveredUpToNext'
  <2> SUFFICES ASSUME NEW q \in PostTasks, post'[q].phase = "delivering"
               PROVE  /\ Begun(post[q].rid)'
                      /\ \A k \in DOMAIN Given' : Given'[k][1] = post'[q].rid => Given'[k][2] < post'[q].next
    BY DEF DeliveredUpToNext
  <2>1. \A k \in DOMAIN Given' : k \in DOMAIN Given \/ k = last
    BY <1>5 DEF last
  <2>2. CASE q = p
    <3>1. ASSUME NEW k \in DOMAIN Given, Given[k][1] = rid PROVE Given[k][2] < post[p].next + 1
      <4>1. Given[k][2] \in Nat
        <5>1. Given[k] \in Message
          BY <1>3, ConcatShape DEF Given
        <5> QED BY <5>1, WebChannelAssumption DEF Message
      <4> QED BY <1>2, <1>6, <3>1, <4>1
    <3>2. m[2] < post[p].next + 1
      BY <1>2
    <3> QED BY <1>2, <1>5, <1>6, <1>8, <1>10, <2>1, <2>2, <3>1, <3>2
  <2>3. CASE q # p
    <3>1. post'[q] = post[q] /\ post[q].rid # rid
      BY <1>1, <1>9, <2>3 DEF OnceInv, OneDelivers, rid
    <3>2. Begun(post[q].rid) /\ \A k \in DOMAIN Given : Given[k][1] = post[q].rid => Given[k][2] < post[q].next
      BY <3>1 DEF OnceInv, DeliveredUpToNext
    <3> QED BY <1>2, <1>5, <1>8, <2>1, <3>1, <3>2
  <2> QED BY <2>2, <2>3
<1>14. OneDelivers'
  BY <1>1, <1>9, <1>10 DEF OnceInv, OneDelivers, rid
<1> QED BY <1>11, <1>12, <1>13, <1>14 DEF OnceInv

\* The client's handshake is its first act and is not done again.
LEMMA NotNewAgain ==
    ASSUME TypeInv, [Next]_vars
    PROVE  \A rid : Begun(rid) => Begun(rid)'
<1>0. client \in ClientState
  BY DEF TypeInv, TypeOK
<1>1. rids \subseteq rids'
  BY DEF Next, PostStep, BackStep, Handshake, SendPost, PostUnknown, PostRepeated, PostNew, Deliver,
         DeliverFails, PostDropped, StreamTakes, PushArray, StreamEnds, FillerEnds, OpenBack, FirstFrame,
         SendPending, LooksAgain, Waits, Keepalive, BackEnds, ClientReads, HoldExpires, BreakBack,
         BackNotices, BreakPost, Terminate, forward, vars
<1>2. client.state # "new" => client'.state # "new"
  BY <1>0, ZenonT(60)
     DEF Next, PostStep, BackStep, Handshake, SendPost, PostUnknown, PostRepeated, PostNew, Deliver,
         DeliverFails, PostDropped, StreamTakes, PushArray, StreamEnds, FillerEnds, OpenBack, FirstFrame,
         SendPending, LooksAgain, Waits, Keepalive, BackEnds, ClientReads, HoldExpires, BreakBack,
         BackNotices, BreakPost, Terminate, vars, Tells, Accepted, ClientState
<1> QED BY <1>1, <1>2 DEF Begun

LEMMA OnceInit == Init => OnceInv
<1> SUFFICES ASSUME Init PROVE OnceInv
  OBVIOUS
<1>1. Given = << >> /\ \A p \in PostTasks : post[p].phase = "free"
  BY DEF Init, Given, FreePost
<1>2. DOMAIN Given = {}
  BY <1>1
<1> QED BY <1>1, <1>2 DEF OnceInv, MessagesOnce, IsInjective, GivenBegun, DeliveredUpToNext, OneDelivers, Given

LEMMA OnceNext == TypeInv /\ TypeInv' /\ OnceInv /\ [Next]_vars => OnceInv'
<1> SUFFICES ASSUME TypeInv, TypeInv', OnceInv, [Next]_vars PROVE OnceInv'
  OBVIOUS
<1>0. /\ \A rid : Begun(rid) => Begun(rid)'
      /\ post \in [PostTasks -> PostState]
      /\ inbox \in Seq(Message) /\ taken \in Seq(Message)
  BY NotNewAgain DEF TypeInv, TypeOK
<1>1. ASSUME UNCHANGED <<taken, inbox>>,
             \A q \in PostTasks : post'[q].phase = "delivering" => post'[q] = post[q]
      PROVE  OnceInv'
  BY <1>0, <1>1, OnceKept DEF Given
<1>2. ASSUME NEW p \in PostTasks,
             SendPost(p) \/ PostUnknown(p) \/ PostRepeated(p) \/ DeliverFails(p) \/ PostDropped(p)
      PROVE  OnceInv'
  <2>1. UNCHANGED <<taken, inbox>>
    BY <1>2 DEF SendPost, PostUnknown, PostRepeated, DeliverFails, PostDropped
  <2>2. \A q \in PostTasks : post'[q].phase = "delivering" => post'[q] = post[q]
    BY <1>0, <1>2 DEF SendPost, PostUnknown, PostRepeated, DeliverFails, PostDropped, FreePost
  <2> QED BY <1>1, <2>1, <2>2
<1>3. ASSUME NEW p \in PostTasks, Handshake(p)
      PROVE  OnceInv'
  <2>1. post' = [post EXCEPT ![p] = [FreePost EXCEPT !.phase = "delivering"]] /\ UNCHANGED <<taken, inbox>>
    BY <1>3 DEF Handshake
  <2>2. post'[p].rid = 0 /\ \A q \in PostTasks : q # p => post'[q] = post[q]
    BY <1>0, <2>1 DEF FreePost
  <2>3. 0 \notin rids /\ client.state = "new" /\ client'.state = "opening"
    BY <1>3, WebChannelAssumption DEF Handshake, TypeInv, TypeOK, ClientState
  <2>4. ~Begun(post'[p].rid) /\ Begun(post[p].rid)'
    BY <2>2, <2>3 DEF Begun
  <2> QED BY <1>0, <2>1, <2>2, <2>4, OnceStarts
<1>4. ASSUME NEW p \in PostTasks, PostNew(p)
      PROVE  OnceInv'
  <2>1. post' = [post EXCEPT ![p].phase = "delivering"] /\ UNCHANGED <<taken, inbox>>
    BY <1>4 DEF PostNew
  <2>2. post'[p].rid = post[p].rid /\ \A q \in PostTasks : q # p => post'[q] = post[q]
    BY <1>0, <2>1 DEF PostState
  <2>3. post[p].rid \notin rids /\ post[p].rid \in rids' /\ post[p].rid # 0
    BY <1>4 DEF PostNew, TypeInv, ClientPost
  <2>4. ~Begun(post'[p].rid) /\ Begun(post[p].rid)'
    BY <2>2, <2>3 DEF Begun
  <2> QED BY <1>0, <2>1, <2>2, <2>4, OnceStarts
<1>5. CASE StreamTakes
  <2> DEFINE head == Head(inbox)
             tail == Tail(inbox)
  <2>1. inbox # << >> /\ taken' = Append(taken, head) /\ inbox' = tail /\ post' = post
    BY <1>5 DEF StreamTakes
  <2>2. /\ tail \in Seq(Message) /\ Len(tail) = Len(inbox) - 1 /\ head = inbox[1] /\ head \in Message
        /\ \A i \in 1 .. Len(tail) : tail[i] = inbox[i + 1]
    BY <1>0, <2>1, HeadTailProperties
  <2> HIDE DEF head, tail
  <2>3. /\ taken' \in Seq(Message) /\ Len(taken') = Len(taken) + 1 /\ taken'[Len(taken) + 1] = head
        /\ \A i \in 1 .. Len(taken) : taken'[i] = taken[i]
    BY <1>0, <2>1, <2>2, AppendProperties
  <2>4. Len(taken) \in Nat /\ Len(inbox) \in Nat /\ DOMAIN Given = 1 .. Len(taken) + Len(inbox)
    BY <1>0, ConcatShape DEF Given
  <2>5. DOMAIN Given' = 1 .. Len(taken') + Len(inbox')
    BY <2>1, <2>2, <2>3, ConcatShape DEF Given
  <2>6. ASSUME NEW k \in DOMAIN Given'
        PROVE  k \in DOMAIN Given /\ Given'[k] = Given[k]
    <3>1. k \in DOMAIN Given
      BY <2>1, <2>2, <2>3, <2>4, <2>5
    <3>2. Given[k] = IF k <= Len(taken) THEN taken[k] ELSE inbox[k - Len(taken)]
      BY <1>0, <3>1, ConcatShape DEF Given
    <3>3. Given'[k] = IF k <= Len(taken') THEN taken'[k] ELSE inbox'[k - Len(taken')]
      BY <2>1, <2>2, <2>3, ConcatShape DEF Given
    <3>4. CASE k <= Len(taken)
      BY <2>3, <2>4, <3>1, <3>2, <3>3, <3>4
    <3>5. CASE k = Len(taken) + 1
      BY <2>2, <2>3, <2>4, <3>2, <3>3, <3>5
    <3>6. CASE k > Len(taken) + 1
      <4>1. k - Len(taken') \in 1 .. Len(tail) /\ (k - Len(taken')) + 1 = k - Len(taken)
        BY <2>2, <2>3, <2>4, <3>1, <3>6
      <4> QED BY <2>1, <2>2, <2>3, <2>4, <3>1, <3>2, <3>3, <3>6, <4>1
    <3> QED BY <2>4, <3>1, <3>4, <3>5, <3>6
  <2> QED BY <1>0, <2>1, <2>6, OnceKept
<1>6. CASE StreamEnds
  <2>1. inbox' = << >> /\ taken' = taken /\ post' = post
    BY <1>6 DEF StreamEnds
  <2>2. taken \o << >> = taken
    BY <1>0, ConcatEmptySeq
  <2>3. Given' = taken
    BY <2>1, <2>2 DEF Given
  <2>4. \A k \in DOMAIN taken : k \in DOMAIN Given /\ Given[k] = taken[k]
    <3> SUFFICES ASSUME NEW k \in DOMAIN taken PROVE k \in DOMAIN Given /\ Given[k] = taken[k]
      OBVIOUS
    <3>1. k \in 1 .. Len(taken)
      BY <1>0, LenProperties
    <3> QED BY <1>0, <3>1, ConcatShape DEF Given
  <2> QED BY <1>0, <2>1, <2>3, <2>4, OnceKept
<1>7. CASE PushArray \/ FillerEnds \/ BreakPost \/ Terminate \/ UNCHANGED vars
  BY <1>1, <1>7 DEF PushArray, FillerEnds, BreakPost, Terminate, vars, forward
<1>8. ASSUME NEW b \in BackTasks, NEW long \in BOOLEAN,
             \/ OpenBack(b, long) \/ BackStep(b) \/ ClientReads(b) \/ HoldExpires(b)
             \/ BreakBack(b) \/ BackNotices(b)
      PROVE  OnceInv'
  BY <1>1, <1>8 DEF OpenBack, BackStep, ClientReads, HoldExpires, BreakBack, BackNotices, FirstFrame,
                    SendPending, LooksAgain, Waits, Keepalive, BackEnds, forward
<1> QED BY <1>2, <1>3, <1>4, <1>5, <1>6, <1>7, <1>8, OnceGiven DEF Next, PostStep

\* Each message of a post reaches the stream at most once, however many requests
\* repeat the post and whenever they run (webchannel.rs: seen_rids, deliver).
THEOREM MessagesReachOnce == Spec => []MessagesOnce
<1>1. Init => TypeInv /\ OnceInv
  BY TypeInit, OnceInit
<1>2. TypeInv /\ OnceInv /\ [Next]_vars => (TypeInv /\ OnceInv)'
  BY TypeNext, OnceNext
<1>3. OnceInv => MessagesOnce
  BY DEF OnceInv
<1> QED BY <1>1, <1>2, <1>3, PTL DEF Spec

-----------------------------------------------------------------------------
(* Responses.                                                              *)

Ascending(s) == \A i, j \in DOMAIN s : i < j => s[i] < s[j]

IsPushed(id) == \E k \in DOMAIN pushed : pushed[k] = id

\* The arrays so far are numbered upwards, and the buffer holds some of them.
ArraysNumbered ==
    /\ Ascending(pushed) /\ \A k \in DOMAIN pushed : pushed[k] < nextId
    /\ Ascending(arrays) /\ \A k \in DOMAIN arrays : IsPushed(arrays[k])

\* The client has responses only, and its AID acknowledges them all.
ReceivedAcknowledged ==
    \A k \in DOMAIN client.received :
        IsPushed(client.received[k]) /\ client.received[k] <= client.aid

\* A frame may come after what has the id given: a response is a later one, and
\* a noop names nothing that comes after it.
ComesAfter(frame, id) == IF frame.data THEN id < frame.id ELSE id <= frame.id

\* What is on the wire of the client's GET comes after all the client has and is
\* in order, and so does what the GET has yet to send.
WireFollows(b) ==
    LET wire == back[b].wire
    IN  /\ \A i \in DOMAIN wire :
             /\ wire[i].data => IsPushed(wire[i].id) /\ wire[i].id <= back[b].cursor
             /\ \A k \in DOMAIN client.received : ComesAfter(wire[i], client.received[k])
             /\ \A j \in DOMAIN wire : i < j /\ wire[i].data => ComesAfter(wire[j], wire[i].id)
        /\ \A k \in DOMAIN arrays : arrays[k] > back[b].cursor =>
             \A j \in DOMAIN client.received : client.received[j] < arrays[k]

\* Only the GET the client has open has a wire.
Wires ==
    \A b \in BackTasks : IF client.back = b THEN WireFollows(b) ELSE back[b].wire = << >>

OrderInv == ArraysNumbered /\ ReceivedAcknowledged /\ Wires

\* The buffer loses arrays, or none.
Trimmed ==
    /\ Ascending(arrays')
    /\ \A k \in DOMAIN arrays' : \E j \in DOMAIN arrays : arrays[j] = arrays'[k]

LEMMA AckTrims ==
    ASSUME TypeInv, ArraysNumbered, NEW aid \in Nat, Ack(aid)
    PROVE  Trimmed /\ \A k \in DOMAIN arrays' : arrays'[k] > aid
<1>1. arrays \in Seq(Nat) /\ Len(arrays) \in Nat /\ DOMAIN arrays = 1 .. Len(arrays)
  BY LenProperties DEF TypeInv, TypeOK
<1>2. PICK n \in 0 .. Len(arrays) :
        /\ arrays' \in Seq(Nat) /\ Len(arrays') = Len(arrays) - n
        /\ \A k \in 1 .. Len(arrays) - n : arrays'[k] = arrays[n + k] /\ arrays'[k] > aid
  BY <1>1, AckDrops
<1>3. DOMAIN arrays' = 1 .. Len(arrays) - n
  BY <1>2, LenProperties
<1>4. \A k \in 1 .. Len(arrays) - n : n + k \in DOMAIN arrays
  BY <1>1
<1>5. Ascending(arrays')
  <2> SUFFICES ASSUME NEW i \in DOMAIN arrays', NEW j \in DOMAIN arrays', i < j
               PROVE  arrays'[i] < arrays'[j]
    BY DEF Ascending
  <2>1. n + i \in DOMAIN arrays /\ n + j \in DOMAIN arrays /\ n + i < n + j
    BY <1>1, <1>3, <1>4
  <2> QED BY <1>2, <1>3, <2>1 DEF ArraysNumbered, Ascending
<1> QED BY <1>2, <1>3, <1>4, <1>5 DEF Trimmed

LEMMA NothingTrimmed ==
    ASSUME ArraysNumbered, arrays' = arrays
    PROVE  Trimmed
BY DEF Trimmed, ArraysNumbered

LEMMA NumberedKept ==
    ASSUME TypeInv, ArraysNumbered, Trimmed, pushed' = pushed, nextId' \in Nat, nextId <= nextId'
    PROVE  ArraysNumbered'
<1>1. \A k \in DOMAIN pushed : pushed[k] \in Nat
  BY ElementOfSeq, LenProperties DEF TypeInv, TypeOK
<1>2. nextId \in Nat
  BY DEF TypeInv, TypeOK
<1>3. \A k \in DOMAIN pushed : pushed[k] < nextId'
  BY <1>1, <1>2 DEF ArraysNumbered
<1>4. \A k \in DOMAIN arrays' : IsPushed(arrays[k])'
  BY DEF Trimmed, ArraysNumbered, IsPushed
<1> QED BY <1>3, <1>4 DEF ArraysNumbered, Ascending, Trimmed

\* A GET nobody writes to, and a client that has what it had.
LEMMA FollowsKept ==
    ASSUME Trimmed, pushed' = pushed, client'.received = client.received, NEW b \in BackTasks,
           WireFollows(b), back'[b].wire = back[b].wire, back'[b].cursor = back[b].cursor
    PROVE  WireFollows(b)'
BY DEF Trimmed, WireFollows, IsPushed

LEMMA ReceivedKept ==
    ASSUME ReceivedAcknowledged, pushed' = pushed, client'.received = client.received,
           client'.aid = client.aid
    PROVE  ReceivedAcknowledged'
BY DEF ReceivedAcknowledged, IsPushed

\* Nothing is written and nothing read; a GET may be left with what is on it.
LEMMA OrderQuiet ==
    ASSUME TypeInv, OrderInv, Trimmed, pushed' = pushed, nextId' \in Nat, nextId <= nextId',
           client'.received = client.received, client'.aid = client.aid,
           \A b \in BackTasks :
             IF client'.back = b
             THEN client.back = b /\ back'[b].wire = back[b].wire /\ back'[b].cursor = back[b].cursor
             ELSE back'[b].wire = << >>
    PROVE  OrderInv'
<1>1. ArraysNumbered' /\ ReceivedAcknowledged'
  BY NumberedKept, ReceivedKept DEF OrderInv
<1>2. Wires'
  BY FollowsKept DEF OrderInv, Wires
<1> QED BY <1>1, <1>2 DEF OrderInv

\* One GET writes, and what it writes follows.
LEMMA OrderWrites ==
    ASSUME TypeInv, OrderInv, arrays' = arrays, pushed' = pushed, nextId' \in Nat, nextId <= nextId',
           client' = client, NEW b \in BackTasks, NEW c \in BackState, back' = [back EXCEPT ![b] = c],
           IF client.back = b THEN WireFollows(b)' ELSE c.wire = << >>
    PROVE  OrderInv'
<1>1. ArraysNumbered' /\ ReceivedAcknowledged' /\ Trimmed
  BY NothingTrimmed, NumberedKept, ReceivedKept DEF OrderInv
<1>2. \A a \in BackTasks : back'[a] = IF a = b THEN c ELSE back[a]
  BY BackMoves
<1>3. Wires'
  BY <1>1, <1>2, FollowsKept DEF OrderInv, Wires
<1> QED BY <1>1, <1>3 DEF OrderInv

\* The forward direction, the stream's own steps but PushArray, and the ends and
\* breaks of GETs and of the session.
LEMMA OrderRest ==
    ASSUME TypeInv, OrderInv,
           \/ \E p \in PostTasks : Handshake(p) \/ SendPost(p) \/ PostStep(p) \/ PostDropped(p)
           \/ StreamTakes \/ StreamEnds \/ FillerEnds \/ BreakPost \/ Terminate \/ UNCHANGED vars
           \/ \E b \in BackTasks : \/ LooksAgain(b) \/ Waits(b) \/ HoldExpires(b)
                                   \/ BackEnds(b) \/ BreakBack(b) \/ BackNotices(b)
    PROVE  OrderInv'
<1>0. /\ client \in ClientState /\ nextId \in Nat /\ nextId <= nextId
      /\ back \in [BackTasks -> BackState] /\ None \notin BackTasks
      /\ \A b \in BackTasks : client.back # b => back[b].wire = << >>
  BY WebChannelAssumption DEF TypeInv, TypeOK, OrderInv, Wires
<1>1. ASSUME NEW p \in PostTasks,
             Handshake(p) \/ SendPost(p) \/ PostStep(p) \/ PostDropped(p)
      PROVE  OrderInv'
  <2>1. back' = back /\ pushed' = pushed /\ nextId' = nextId
    BY <1>1 DEF PostStep, Handshake, SendPost, PostUnknown, PostRepeated, PostNew, Deliver, DeliverFails,
                PostDropped, buffer
  <2>2. client'.received = client.received /\ client'.aid = client.aid /\ client'.back = client.back
    BY <1>0, <1>1
       DEF PostStep, Handshake, SendPost, PostUnknown, PostRepeated, PostNew, Deliver, DeliverFails,
           PostDropped, Tells, Accepted, ClientState
  <2>3. arrays' = arrays \/ Ack(post[p].aid)
    BY <1>1 DEF PostStep, Handshake, SendPost, PostUnknown, PostRepeated, PostNew, Deliver, DeliverFails,
                PostDropped, buffer
  <2>4. Trimmed
    BY <2>3, PostFields, AckTrims, NothingTrimmed DEF OrderInv
  <2> QED BY <1>0, <2>1, <2>2, <2>4, OrderQuiet
<1>2. CASE StreamTakes \/ StreamEnds \/ FillerEnds \/ BreakPost \/ UNCHANGED vars
  <2>1. back' = back /\ UNCHANGED <<arrays, pushed, nextId>>
    BY <1>2 DEF StreamTakes, StreamEnds, FillerEnds, BreakPost, vars, buffer
  <2>2. client'.received = client.received /\ client'.aid = client.aid /\ client'.back = client.back
    BY <1>0, <1>2 DEF StreamTakes, StreamEnds, FillerEnds, BreakPost, vars, ClientState
  <2> QED BY <1>0, <2>1, <2>2, NothingTrimmed, OrderQuiet DEF OrderInv
<1>3. CASE Terminate
  <2>1. UNCHANGED <<arrays, pushed, nextId>> /\ \A b \in BackTasks : back'[b].wire = << >>
    BY <1>0, <1>3 DEF Terminate, buffer, BackState
  <2>2. client'.received = client.received /\ client'.aid = client.aid /\ client'.back = None
    BY <1>0, <1>3 DEF Terminate, ClientState
  <2> QED BY <1>0, <2>1, <2>2, NothingTrimmed, OrderQuiet DEF OrderInv
<1>4. ASSUME NEW b \in BackTasks, LooksAgain(b) \/ Waits(b) \/ HoldExpires(b)
      PROVE  OrderInv'
  <2>1. UNCHANGED <<arrays, pushed, nextId, client>>
    BY <1>4 DEF LooksAgain, Waits, HoldExpires, buffer
  <2>2. \A a \in BackTasks : back'[a].wire = back[a].wire /\ back'[a].cursor = back[a].cursor
    BY <1>4, PhaseMoves, BackMoves DEF LooksAgain, Waits, HoldExpires
  <2> QED BY <1>0, <2>1, <2>2, NothingTrimmed, OrderQuiet DEF OrderInv
<1>5. ASSUME NEW b \in BackTasks, BackEnds(b) \/ BreakBack(b) \/ BackNotices(b)
      PROVE  OrderInv'
  <2>1. UNCHANGED <<arrays, pushed>> /\ nextId' \in Nat /\ nextId <= nextId'
    BY <1>0, <1>5 DEF BackEnds, BreakBack, BackNotices, NoopTakesId, buffer
  <2>2. /\ client'.received = client.received /\ client'.aid = client.aid
        /\ client'.back \in {client.back, None} /\ client'.back # b
    BY <1>0, <1>5 DEF BackEnds, BreakBack, BackNotices, ClientState
  <2>3. back'[b].wire = << >> /\ \A a \in BackTasks \ {b} : back'[a] = back[a]
    BY <1>0, <1>5 DEF BackEnds, BreakBack, BackNotices, FreeBack, BackState
  <2>4. ASSUME NEW a \in BackTasks
        PROVE  IF client'.back = a
               THEN client.back = a /\ back'[a].wire = back[a].wire /\ back'[a].cursor = back[a].cursor
               ELSE back'[a].wire = << >>
    <3>1. CASE a = b
      BY <2>2, <2>3, <3>1
    <3>2. CASE a # b
      <4>1. back'[a] = back[a]
        BY <2>3, <3>2
      <4>2. client.back = a => client.back # b
        BY <3>2
      <4>3. client.back = a => client'.back = a
        BY <1>0, <1>5, <4>2 DEF BackEnds, BreakBack, BackNotices, ClientState
      <4> QED BY <1>0, <2>2, <4>1, <4>3
    <3> QED BY <3>1, <3>2
  <2> QED BY <2>1, <2>2, <2>4, NothingTrimmed, OrderQuiet DEF OrderInv
<1> QED BY <1>1, <1>2, <1>3, <1>4, <1>5

\* A new array comes after all there are.
LEMMA OrderPush ==
    ASSUME TypeInv, OrderInv, PushArray
    PROVE  OrderInv'
<1>0. /\ arrays \in Seq(Nat) /\ pushed \in Seq(Nat) /\ nextId \in Nat
      /\ back \in [BackTasks -> BackState] /\ client \in ClientState
  BY DEF TypeInv, TypeOK
<1>1. client' = client /\ nextId' = nextId + 1
  BY DEF PushArray
<1>2. /\ DOMAIN arrays = 1 .. Len(arrays) /\ DOMAIN arrays' = 1 .. Len(arrays) + 1 /\ Len(arrays) \in Nat
      /\ arrays'[Len(arrays) + 1] = nextId /\ \A k \in 1 .. Len(arrays) : arrays'[k] = arrays[k]
  <2>1. Append(arrays, nextId) \in Seq(Nat)
    BY <1>0, AppendProperties
  <2> QED BY <1>0, <2>1, AppendProperties, LenProperties DEF PushArray
<1>3. /\ DOMAIN pushed = 1 .. Len(pushed) /\ DOMAIN pushed' = 1 .. Len(pushed) + 1 /\ Len(pushed) \in Nat
      /\ pushed'[Len(pushed) + 1] = nextId /\ \A k \in 1 .. Len(pushed) : pushed'[k] = pushed[k]
  <2>1. Append(pushed, nextId) \in Seq(Nat)
    BY <1>0, AppendProperties
  <2> QED BY <1>0, <2>1, AppendProperties, LenProperties DEF PushArray
<1>4. \A k \in DOMAIN pushed : pushed[k] \in Nat /\ pushed[k] < nextId
  BY <1>0, <1>3 DEF OrderInv, ArraysNumbered
<1>5. \A id : IsPushed(id) => IsPushed(id)' /\ id \in Nat /\ id < nextId
  BY <1>3, <1>4 DEF IsPushed
<1>6. \A k \in DOMAIN arrays : IsPushed(arrays[k])
  BY DEF OrderInv, ArraysNumbered
<1>7. Ascending(pushed')
  BY <1>3, <1>4 DEF OrderInv, ArraysNumbered, Ascending
<1>8. Ascending(arrays')
  <2>1. \A k \in DOMAIN arrays : arrays[k] < nextId
    BY <1>5, <1>6
  <2> QED BY <1>2, <2>1 DEF OrderInv, ArraysNumbered, Ascending
<1>9. \E j \in DOMAIN pushed' : pushed'[j] = nextId
  BY <1>3
<1>10. \A k \in DOMAIN arrays' : IsPushed(arrays[k])'
  <2> SUFFICES ASSUME NEW k \in DOMAIN arrays' PROVE \E j \in DOMAIN pushed' : pushed'[j] = arrays'[k]
    BY DEF IsPushed
  <2>1. CASE k = Len(arrays) + 1
    BY <1>2, <1>9, <2>1
  <2>2. CASE k # Len(arrays) + 1
    <3>1. k \in DOMAIN arrays /\ arrays'[k] = arrays[k]
      BY <1>2, <2>2
    <3> QED BY <1>5, <1>6, <3>1 DEF IsPushed
  <2> QED BY <2>1, <2>2
<1>11. \A k \in DOMAIN pushed' : pushed'[k] < nextId'
  BY <1>0, <1>1, <1>3, <1>4
<1>12. ArraysNumbered'
  BY <1>7, <1>8, <1>10, <1>11 DEF ArraysNumbered
<1>13. \A k \in DOMAIN client.received : IsPushed(client.received[k])
  BY DEF OrderInv, ReceivedAcknowledged
<1>14. ReceivedAcknowledged'
  BY <1>1, <1>5 DEF OrderInv, ReceivedAcknowledged
<1>15. \A b \in BackTasks : back'[b].wire = back[b].wire /\ back'[b].cursor = back[b].cursor
  BY <1>0 DEF PushArray, BackState
<1>16. Wires'
  <2> SUFFICES ASSUME NEW b \in BackTasks
               PROVE  IF client.back = b THEN WireFollows(b)' ELSE back'[b].wire = << >>
    BY <1>1 DEF Wires
  <2>1. CASE client.back = b
    <3>1. WireFollows(b)
      BY <2>1 DEF OrderInv, Wires
    <3>2. ASSUME NEW k \in DOMAIN arrays', arrays'[k] > back[b].cursor, NEW j \in DOMAIN client.received
          PROVE  client.received[j] < arrays'[k]
      <4>1. CASE k = Len(arrays) + 1
        BY <1>2, <1>5, <1>13, <4>1
      <4>2. CASE k # Len(arrays) + 1
        <5>1. k \in DOMAIN arrays /\ arrays'[k] = arrays[k]
          BY <1>2, <4>2
        <5> QED BY <3>1, <3>2, <5>1 DEF WireFollows
      <4> QED BY <4>1, <4>2
    <3> QED BY <1>1, <1>5, <1>15, <2>1, <3>1, <3>2 DEF WireFollows
  <2>2. CASE client.back # b
    BY <1>15, <2>2 DEF OrderInv, Wires
  <2> QED BY <2>1, <2>2
<1> QED BY <1>12, <1>14, <1>16 DEF OrderInv

\* A GET that opens acknowledges what the client has: what is left to send comes
\* after that.
LEMMA OrderOpen ==
    ASSUME TypeInv, OrderInv, NEW b \in BackTasks, NEW long \in BOOLEAN, OpenBack(b, long)
    PROVE  OrderInv'
<1>0. /\ back \in [BackTasks -> BackState] /\ client \in ClientState /\ None \notin BackTasks
      /\ client.aid \in Nat /\ client.received \in Seq(Nat) /\ nextId \in Nat
  BY WebChannelAssumption DEF TypeInv, TypeOK, ClientState
<1>1. /\ pushed' = pushed /\ nextId' = nextId /\ client.back = None
      /\ client'.received = client.received /\ client'.aid = client.aid /\ client'.back = b
  BY ClientBackType DEF OpenBack
<1>2. Trimmed /\ \A k \in DOMAIN arrays' : arrays'[k] > client.aid
  BY <1>0, AckTrims DEF OpenBack, OrderInv
<1>3. ArraysNumbered' /\ ReceivedAcknowledged'
  BY <1>0, <1>1, <1>2, NumberedKept, ReceivedKept DEF OrderInv
<1>4. back'[b].wire = << >> /\ \A a \in BackTasks \ {b} : back'[a] = back[a]
  BY <1>0 DEF OpenBack, FreeBack
<1>5. \A k \in DOMAIN arrays', j \in DOMAIN client.received : client.received[j] < arrays'[k]
  <2> SUFFICES ASSUME NEW k \in DOMAIN arrays', NEW j \in DOMAIN client.received
               PROVE  client.received[j] < arrays'[k]
    OBVIOUS
  <2>1. client.received[j] <= client.aid /\ client.received[j] \in Nat
    BY <1>0, ElementOfSeq, LenProperties DEF OrderInv, ReceivedAcknowledged
  <2>2. PICK i \in DOMAIN arrays : arrays[i] = arrays'[k]
    BY <1>2 DEF Trimmed
  <2>3. arrays'[k] \in Nat
    BY <2>2, ElementOfSeq, LenProperties DEF TypeInv, TypeOK
  <2> QED BY <1>0, <1>2, <2>1, <2>3
<1>6. WireFollows(b)'
  BY <1>1, <1>4, <1>5 DEF WireFollows
<1>7. Wires'
  BY <1>0, <1>1, <1>4, <1>6 DEF OrderInv, Wires
<1> QED BY <1>3, <1>7 DEF OrderInv

\* A noop takes an id above all there are.
LEMMA OrderNoop ==
    ASSUME TypeInv, OrderInv, NEW b \in BackTasks, FirstFrame(b) \/ Keepalive(b)
    PROVE  OrderInv'
<1>1. SendNoop(b) /\ UNCHANGED <<arrays, pushed, client>>
  BY DEF FirstFrame, Keepalive
<1> DEFINE noop == [id |-> nextId, data |-> FALSE]
           wire == back[b].wire
<1>2. nextId' \in Nat /\ nextId <= nextId' /\ nextId \in Nat
  BY <1>1, NoopSent DEF TypeInv, TypeOK
<1>3. PICK c \in BackState :
        /\ back' = [back EXCEPT ![b] = c] /\ c.cursor = back[b].cursor
        /\ c.wire = wire \/ c.wire = Written(b, << noop >>)
  BY <1>1, NoopSent
<1>4. back'[b] = c
  BY <1>3, BackMoves
<1>5. client.back # b => c.wire = << >>
  BY <1>3 DEF OrderInv, Wires, Written
<1>6. \A id : IsPushed(id) => id \in Nat /\ id < nextId
  BY ElementOfSeq, LenProperties DEF IsPushed, OrderInv, ArraysNumbered, TypeInv, TypeOK
<1>7. ASSUME client.back = b
      PROVE  WireFollows(b)'
  <2>1. WireFollows(b)
    BY <1>7 DEF OrderInv, Wires
  <2>2. CASE c.wire = wire
    BY <1>1, <1>3, <1>4, <2>1, <2>2, NothingTrimmed, FollowsKept DEF OrderInv
  <2>3. CASE c.wire = Written(b, << noop >>)
    <3>1. c.wire = wire \o << noop >> /\ noop \in Frame /\ wire \in Seq(Frame)
      BY <1>2, <1>7, <2>3, BackFields DEF Written, Frame
    <3>2. /\ DOMAIN wire = 1 .. Len(wire) /\ DOMAIN c.wire = 1 .. Len(wire) + 1 /\ Len(wire) \in Nat
          /\ c.wire[Len(wire) + 1] = noop /\ \A i \in DOMAIN wire : c.wire[i] = wire[i]
      <4>1. c.wire = Append(wire, noop)
        BY <3>1, AppendIsConcat
      <4> HIDE DEF wire, noop
      <4> QED BY <3>1, <4>1, AppendProperties, LenProperties
    <3>3. \A i \in DOMAIN c.wire : i \in DOMAIN wire \/ i = Len(wire) + 1
      BY <3>2
    <3>4. \A k \in DOMAIN client.received : IsPushed(client.received[k])
      BY DEF OrderInv, ReceivedAcknowledged
    <3>5. noop.id = nextId /\ ~noop.data
      OBVIOUS
    <3> HIDE DEF noop
    <3>6. \A k \in DOMAIN client.received : ComesAfter(noop, client.received[k])
      BY <1>2, <1>6, <3>4, <3>5 DEF ComesAfter
    <3>7. \A i \in DOMAIN wire : wire[i].data => ComesAfter(noop, wire[i].id)
      BY <1>2, <1>6, <2>1, <3>5 DEF ComesAfter, WireFollows
    <3>8. \A i \in DOMAIN c.wire :
            /\ c.wire[i].data => IsPushed(c.wire[i].id) /\ c.wire[i].id <= back[b].cursor
            /\ \A k \in DOMAIN client.received : ComesAfter(c.wire[i], client.received[k])
      BY <2>1, <3>2, <3>3, <3>5, <3>6 DEF WireFollows
    <3>9. \A i, j \in DOMAIN c.wire : i < j /\ c.wire[i].data => ComesAfter(c.wire[j], c.wire[i].id)
      <4> SUFFICES ASSUME NEW i \in DOMAIN c.wire, NEW j \in DOMAIN c.wire, i < j, c.wire[i].data
                   PROVE  ComesAfter(c.wire[j], c.wire[i].id)
        OBVIOUS
      <4>1. i \in DOMAIN wire
        BY <3>2
      <4> QED BY <2>1, <3>2, <3>3, <3>7, <4>1 DEF WireFollows
    <3>10. \A k \in DOMAIN arrays : arrays[k] > back[b].cursor =>
             \A j \in DOMAIN client.received : client.received[j] < arrays[k]
      BY <2>1 DEF WireFollows
    <3> QED BY <1>1, <1>3, <1>4, <3>8, <3>9, <3>10 DEF WireFollows, IsPushed
  <2> QED BY <1>3, <2>2, <2>3
<1> QED BY <1>1, <1>2, <1>3, <1>5, <1>7, OrderWrites

\* The arrays past the cursor come after all the client has and after what is on
\* the wire already, and the cursor is the last of them.
LEMMA OrderPending ==
    ASSUME TypeInv, OrderInv, NEW b \in BackTasks, SendPending(b)
    PROVE  OrderInv'
<1> DEFINE wire == back[b].wire
           cursor == back[b].cursor
           last == arrays[Len(arrays)]
<1>0. UNCHANGED <<arrays, pushed, nextId, client>>
  BY DEF SendPending, buffer
<1>1. PICK n \in 0 .. Len(arrays), c \in BackState :
        /\ FirstUpTo(cursor, n) /\ Frames(n) \in Seq(Frame) /\ Len(arrays) # 0
        /\ back' = [back EXCEPT ![b] = c] /\ c.cursor = last /\ c.wire = Written(b, Frames(n))
  BY PendingSent
<1>2. back'[b] = c
  BY <1>1, BackMoves
<1>3. /\ nextId \in Nat /\ cursor \in Nat /\ wire \in Seq(Frame) /\ arrays \in Seq(Nat)
      /\ DOMAIN arrays = 1 .. Len(arrays) /\ Len(arrays) \in Nat /\ client.received \in Seq(Nat)
      /\ \A k \in DOMAIN arrays : arrays[k] \in Nat
  BY BackFields, LenProperties, ElementOfSeq DEF TypeInv, TypeOK, ClientState
<1>4. ASSUME client.back = b
      PROVE  WireFollows(b)'
  <2>1. WireFollows(b)
    BY <1>4 DEF OrderInv, Wires
  <2>2. c.wire = wire \o Frames(n)
    BY <1>1, <1>4 DEF Written
  <2>3. Len(Frames(n)) = Len(arrays) - n /\ \A k \in 1 .. Len(arrays) - n :
             Frames(n)[k].id = arrays[n + k] /\ Frames(n)[k].data = TRUE
    BY <1>1, <1>3 DEF Frames
  <2>4. /\ Len(wire) \in Nat /\ DOMAIN wire = 1 .. Len(wire)
        /\ DOMAIN c.wire = 1 .. Len(wire) + (Len(arrays) - n)
        /\ \A i \in 1 .. Len(wire) : c.wire[i] = wire[i]
        /\ \A i \in Len(wire) + 1 .. Len(wire) + (Len(arrays) - n) : c.wire[i] = Frames(n)[i - Len(wire)]
    <3> HIDE DEF wire
    <3> DEFINE frames == Frames(n)
    <3>0. frames \in Seq(Frame) /\ Len(frames) = Len(arrays) - n /\ Len(frames) \in Nat
      BY <1>1, <2>3, LenProperties
    <3> HIDE DEF frames
    <3>1. Len(wire) \in Nat /\ DOMAIN wire = 1 .. Len(wire)
      BY <1>3, LenProperties
    <3>2. /\ wire \o frames \in Seq(Frame) /\ Len(wire \o frames) = Len(wire) + Len(frames)
          /\ \A i \in 1 .. Len(wire) + Len(frames) :
               (wire \o frames)[i] = IF i <= Len(wire) THEN wire[i] ELSE frames[i - Len(wire)]
      BY <1>3, <3>0, ConcatProperties
    <3>3. c.wire = wire \o frames
      BY <2>2 DEF frames
    <3>4. DOMAIN c.wire = 1 .. Len(wire) + Len(frames)
      BY <3>2, <3>3, LenProperties
    <3>5. \A i \in 1 .. Len(wire) : c.wire[i] = wire[i]
      BY <3>0, <3>1, <3>2, <3>3
    <3>6. \A i \in Len(wire) + 1 .. Len(wire) + Len(frames) : c.wire[i] = frames[i - Len(wire)]
      BY <3>0, <3>1, <3>2, <3>3
    <3> QED BY <3>0, <3>1, <3>4, <3>5, <3>6 DEF frames
  <2> HIDE DEF wire, cursor, last
  \* Where a frame of the new wire is from.
  <2>5. ASSUME NEW i \in DOMAIN c.wire
        PROVE  \/ i \in DOMAIN wire /\ c.wire[i] = wire[i]
               \/ /\ i > Len(wire) /\ i - Len(wire) + n \in DOMAIN arrays /\ i - Len(wire) + n > n
                  /\ c.wire[i].id = arrays[i - Len(wire) + n] /\ c.wire[i].data
    <3>1. CASE i <= Len(wire)
      BY <2>4, <3>1
    <3>2. CASE i > Len(wire)
      <4>0. i \in Len(wire) + 1 .. Len(wire) + (Len(arrays) - n)
        BY <1>1, <1>3, <2>4, <3>2
      <4>1. i - Len(wire) \in 1 .. Len(arrays) - n /\ n + (i - Len(wire)) = i - Len(wire) + n
        BY <1>1, <1>3, <2>4, <4>0
      <4>2. c.wire[i] = Frames(n)[i - Len(wire)]
        BY <2>4, <4>0
      <4> QED BY <1>3, <2>3, <3>2, <4>1, <4>2, SMTT(30)
    <3> QED BY <2>4, <3>1, <3>2
  <2>6. \A k \in DOMAIN arrays : k > n => arrays[k] > cursor
    BY <1>1, <1>3 DEF FirstUpTo
  <2>7. \A k \in DOMAIN arrays : arrays[k] <= last
    BY <1>1, <1>3, SMTT(30) DEF OrderInv, ArraysNumbered, Ascending, last
  <2>8. Len(arrays) > n
    <3>1. PICK k \in DOMAIN arrays : ~(arrays[k] <= cursor)
      BY DEF SendPending, NothingPending, cursor
    <3> QED BY <1>1, <1>3, <3>1 DEF FirstUpTo
  <2>9. cursor < last
    BY <1>1, <1>3, <2>6, <2>8 DEF last
  <2>10. /\ \A i \in DOMAIN wire :
              /\ wire[i].data => IsPushed(wire[i].id) /\ wire[i].id <= cursor
              /\ \A k \in DOMAIN client.received : ComesAfter(wire[i], client.received[k])
              /\ \A j \in DOMAIN wire : i < j /\ wire[i].data => ComesAfter(wire[j], wire[i].id)
         /\ \A k \in DOMAIN arrays : arrays[k] > cursor =>
              \A j \in DOMAIN client.received : client.received[j] < arrays[k]
    BY <2>1 DEF WireFollows, wire, cursor
  <2>11. last \in Nat /\ \A i \in DOMAIN wire : wire[i].id \in Nat
    <3>1. last \in Nat
      BY <1>1, <1>3 DEF last
    <3>2. \A i \in DOMAIN wire : wire[i] \in Frame
      BY <1>3, <2>4, ElementOfSeq
    <3> QED BY <3>1, <3>2 DEF Frame
  <2>12. ASSUME NEW i \in DOMAIN c.wire
         PROVE  /\ c.wire[i].data => IsPushed(c.wire[i].id) /\ c.wire[i].id <= last
                /\ \A k \in DOMAIN client.received : ComesAfter(c.wire[i], client.received[k])
    <3>1. CASE i \in DOMAIN wire /\ c.wire[i] = wire[i]
      BY <1>3, <2>9, <2>10, <2>11, <3>1
    <3>2. CASE ~(i \in DOMAIN wire /\ c.wire[i] = wire[i])
      <4>1. PICK k \in DOMAIN arrays : k > n /\ c.wire[i].id = arrays[k] /\ c.wire[i].data
        BY <2>5, <3>2
      <4> QED BY <2>6, <2>7, <2>10, <4>1 DEF ComesAfter, OrderInv, ArraysNumbered
    <3> QED BY <3>1, <3>2
  <2>13. ASSUME NEW i \in DOMAIN c.wire, NEW j \in DOMAIN c.wire, i < j, c.wire[i].data
         PROVE  ComesAfter(c.wire[j], c.wire[i].id)
    <3>1. CASE j <= Len(wire)
      <4>1. i \in DOMAIN wire /\ j \in DOMAIN wire /\ c.wire[i] = wire[i] /\ c.wire[j] = wire[j]
        BY <2>4, <2>13, <3>1
      <4> QED BY <2>10, <2>13, <4>1
    <3>2. CASE j > Len(wire)
      <4> DEFINE k == j - Len(wire) + n
      <4>1. k \in DOMAIN arrays /\ k > n /\ c.wire[j].id = arrays[k] /\ c.wire[j].data
        BY <2>4, <2>5, <3>2
      <4>2. CASE i <= Len(wire)
        <5>1. i \in DOMAIN wire /\ c.wire[i] = wire[i]
          BY <2>4, <4>2
        <5>2. wire[i].id <= cursor /\ wire[i].id \in Nat /\ arrays[k] > cursor /\ arrays[k] \in Nat
          BY <1>3, <2>6, <2>10, <2>11, <2>13, <4>1, <5>1
        <5> QED BY <1>3, <4>1, <5>1, <5>2 DEF ComesAfter, cursor
      <4>3. CASE i > Len(wire)
        <5>1. i - Len(wire) + n \in DOMAIN arrays /\ c.wire[i].id = arrays[i - Len(wire) + n]
          BY <2>4, <2>5, <4>3
        <5>2. i - Len(wire) + n < k
          BY <1>3, <2>4, <2>13
        <5> QED BY <4>1, <5>1, <5>2 DEF OrderInv, ArraysNumbered, Ascending, ComesAfter
      <4> QED BY <2>4, <4>2, <4>3
    <3> QED BY <2>4, <3>1, <3>2
  <2>14. ASSUME NEW k \in DOMAIN arrays, arrays[k] > last, NEW j \in DOMAIN client.received
         PROVE  client.received[j] < arrays[k]
    BY <1>3, <2>7, <2>11, <2>14
  <2> QED BY <1>0, <1>1, <1>2, <2>12, <2>13, <2>14 DEF WireFollows, IsPushed
<1>5. client.back # b => c.wire = << >>
  BY <1>1 DEF Written
<1>6. nextId' \in Nat /\ nextId <= nextId'
  BY <1>0, <1>3
<1> QED BY <1>0, <1>1, <1>4, <1>5, <1>6, OrderWrites

\* What the client reads comes after all it has, and before all that is left.
LEMMA OrderReads ==
    ASSUME TypeInv, OrderInv, NEW b \in BackTasks, ClientReads(b)
    PROVE  OrderInv'
<1> DEFINE wire == back[b].wire
           frame == Head(wire)
           cursor == back[b].cursor
           got == client.received
<1>0. UNCHANGED <<arrays, pushed, nextId>> /\ client.back = b
  BY DEF ClientReads, buffer
<1>1. /\ frame \in Frame /\ client'.aid = frame.id /\ client'.back = b
      /\ client'.received = IF frame.data THEN Append(got, frame.id) ELSE got
  BY <1>0, FrameRead
<1>2. PICK c \in BackState :
        /\ back' = [back EXCEPT ![b] = c] /\ c.cursor = cursor /\ c.wire = Tail(wire)
  BY FrameRead
<1>3. back'[b] = c /\ \A a \in BackTasks \ {b} : back'[a] = back[a]
  BY <1>2, BackMoves
<1>4. /\ nextId \in Nat /\ got \in Seq(Nat) /\ wire \in Seq(Frame) /\ wire # << >> /\ cursor \in Nat
      /\ \A k \in DOMAIN arrays : arrays[k] \in Nat
  BY BackFields, LenProperties, ElementOfSeq DEF ClientReads, TypeInv, TypeOK, ClientState
<1>5. WireFollows(b)
  BY <1>0 DEF OrderInv, Wires
<1>6. /\ \A i \in DOMAIN wire :
           /\ wire[i].data => IsPushed(wire[i].id) /\ wire[i].id <= cursor
           /\ \A k \in DOMAIN got : ComesAfter(wire[i], got[k])
           /\ \A j \in DOMAIN wire : i < j /\ wire[i].data => ComesAfter(wire[j], wire[i].id)
      /\ \A k \in DOMAIN arrays : arrays[k] > cursor => \A j \in DOMAIN got : got[j] < arrays[k]
  BY <1>5 DEF WireFollows
<1>7. /\ 1 \in DOMAIN wire /\ frame = wire[1] /\ DOMAIN c.wire = 1 .. Len(wire) - 1
      /\ \A i \in DOMAIN c.wire : i + 1 \in DOMAIN wire /\ 1 < i + 1 /\ c.wire[i] = wire[i + 1]
  <2> HIDE DEF wire
  <2>1. Len(wire) \in Nat \ {0} /\ DOMAIN wire = 1 .. Len(wire)
    BY <1>4, EmptySeq, LenProperties
  <2>2. /\ Tail(wire) \in Seq(Frame) /\ Len(Tail(wire)) = Len(wire) - 1
        /\ \A i \in 1 .. Len(Tail(wire)) : Tail(wire)[i] = wire[i + 1]
    BY <1>4, HeadTailProperties
  <2>3. DOMAIN c.wire = 1 .. Len(wire) - 1
    BY <1>2, <2>2, LenProperties
  <2>4. frame = wire[1]
    BY <1>4
  <2> QED BY <1>2, <2>1, <2>2, <2>3, <2>4
<1> HIDE DEF wire, frame, cursor
\* What the client has now is what it had, and the frame if that is a response.
<1>8. ASSUME NEW k \in DOMAIN client'.received
      PROVE  \/ k \in DOMAIN got /\ client'.received[k] = got[k]
             \/ frame.data /\ client'.received[k] = frame.id
  <2>1. CASE frame.data
    <3>1. frame.id \in Nat
      BY <1>1 DEF Frame
    <3>2. /\ client'.received \in Seq(Nat) /\ Len(client'.received) = Len(got) + 1
          /\ client'.received[Len(got) + 1] = frame.id /\ Len(got) \in Nat
          /\ \A i \in 1 .. Len(got) : client'.received[i] = got[i]
      BY <1>1, <1>4, <2>1, <3>1, AppendProperties, LenProperties
    <3>3. k \in 1 .. Len(got) + 1 /\ DOMAIN got = 1 .. Len(got)
      BY <1>4, <3>2, LenProperties
    <3> QED BY <2>1, <3>2, <3>3
  <2>2. CASE ~frame.data
    BY <1>1, <2>2
  <2> QED BY <2>1, <2>2
<1>9. ArraysNumbered'
  BY <1>0, <1>4, NothingTrimmed, NumberedKept DEF OrderInv
<1>10. \A k \in DOMAIN got : IsPushed(got[k]) /\ got[k] \in Nat
  BY <1>4, ElementOfSeq, LenProperties DEF OrderInv, ReceivedAcknowledged
<1>11. ReceivedAcknowledged'
  <2> SUFFICES ASSUME NEW k \in DOMAIN client'.received
               PROVE  IsPushed(client'.received[k]) /\ client'.received[k] <= client'.aid
    BY <1>0 DEF ReceivedAcknowledged, IsPushed
  <2>1. frame.id \in Nat
    BY <1>1 DEF Frame
  <2>2. CASE k \in DOMAIN got /\ client'.received[k] = got[k]
    <3>1. ComesAfter(frame, got[k])
      BY <1>6, <1>7, <2>2
    <3>2. got[k] <= frame.id
      BY <1>10, <2>1, <2>2, <3>1 DEF ComesAfter
    <3> QED BY <1>1, <1>10, <2>2, <3>2
  <2>3. CASE frame.data /\ client'.received[k] = frame.id
    BY <1>1, <1>6, <1>7, <2>1, <2>3
  <2> QED BY <1>8, <2>2, <2>3
<1>12. WireFollows(b)'
  <2>1. ASSUME NEW i \in DOMAIN c.wire
        PROVE  /\ c.wire[i].data => IsPushed(c.wire[i].id) /\ c.wire[i].id <= cursor
               /\ \A k \in DOMAIN client'.received : ComesAfter(c.wire[i], client'.received[k])
               /\ \A j \in DOMAIN c.wire : i < j /\ c.wire[i].data => ComesAfter(c.wire[j], c.wire[i].id)
    <3>1. i \in Nat /\ i + 1 \in DOMAIN wire /\ c.wire[i] = wire[i + 1] /\ 1 < i + 1
      BY <1>7
    <3>2. c.wire[i].data => IsPushed(c.wire[i].id) /\ c.wire[i].id <= cursor
      BY <1>6, <3>1
    <3>3. ASSUME NEW k \in DOMAIN client'.received PROVE ComesAfter(c.wire[i], client'.received[k])
      <4>1. CASE k \in DOMAIN got /\ client'.received[k] = got[k]
        BY <1>6, <3>1, <4>1
      <4>2. CASE frame.data /\ client'.received[k] = frame.id
        BY <1>6, <1>7, <3>1, <4>2
      <4> QED BY <1>8, <4>1, <4>2
    <3>4. ASSUME NEW j \in DOMAIN c.wire, i < j, c.wire[i].data PROVE ComesAfter(c.wire[j], c.wire[i].id)
      <4>1. j \in Nat /\ j + 1 \in DOMAIN wire /\ c.wire[j] = wire[j + 1] /\ i + 1 < j + 1
        BY <1>7, <3>1, <3>4
      <4> QED BY <1>6, <3>1, <3>4, <4>1
    <3> QED BY <3>2, <3>3, <3>4
  <2>2. ASSUME NEW k \in DOMAIN arrays, arrays[k] > cursor, NEW j \in DOMAIN client'.received
        PROVE  client'.received[j] < arrays[k]
    <3>1. CASE j \in DOMAIN got /\ client'.received[j] = got[j]
      BY <1>6, <2>2, <3>1
    <3>2. CASE frame.data /\ client'.received[j] = frame.id
      <4>1. frame.id <= cursor /\ frame.id \in Nat
        BY <1>1, <1>6, <1>7, <3>2 DEF Frame
      <4>2. cursor \in Nat /\ arrays[k] \in Nat
        BY <1>4
      <4> QED BY <2>2, <3>2, <4>1, <4>2
    <3> QED BY <1>8, <3>1, <3>2
  <2>3. /\ arrays' = arrays /\ back'[b].cursor = cursor /\ back'[b].wire = c.wire
        /\ \A id : IsPushed(id) => IsPushed(id)'
    BY <1>0, <1>2, <1>3 DEF IsPushed
  <2> QED BY <2>1, <2>2, <2>3 DEF WireFollows
<1>13. Wires'
  BY <1>0, <1>1, <1>3, <1>12 DEF OrderInv, Wires
<1> QED BY <1>9, <1>11, <1>13 DEF OrderInv

LEMMA OrderInit == Init => OrderInv
<1> SUFFICES ASSUME Init PROVE OrderInv
  OBVIOUS
<1>1. pushed = << >> /\ arrays = << >> /\ client.received = << >> /\ client.back = None
  BY DEF Init
<1>2. DOMAIN pushed = {} /\ DOMAIN arrays = {} /\ DOMAIN client.received = {}
  BY <1>1
<1>3. \A b \in BackTasks : back[b].wire = << >> /\ b # None
  BY WebChannelAssumption DEF Init, FreeBack
<1> QED BY <1>1, <1>2, <1>3 DEF OrderInv, ArraysNumbered, Ascending, ReceivedAcknowledged, Wires

LEMMA OrderNext == TypeInv /\ OrderInv /\ [Next]_vars => OrderInv'
BY OrderRest, OrderPush, OrderOpen, OrderNoop, OrderPending, OrderReads DEF Next, BackStep

-----------------------------------------------------------------------------
(* A session implements Responses.                                         *)

\* A new array is a response none of those before it.
LEMMA PushSends ==
    ASSUME TypeInv, OrderInv, PushArray
    PROVE  Session!Next
<1>1. pushed \in Seq(Nat) /\ nextId \in Nat
  BY DEF TypeInv, TypeOK
<1>2. pushed' = Append(pushed, nextId) /\ client' = client
  BY DEF PushArray
<1>3. pushed' # << >> /\ pushed'[Len(pushed')] = nextId
  <2>1. /\ Append(pushed, nextId) # << >> /\ Len(Append(pushed, nextId)) = Len(pushed) + 1
        /\ Append(pushed, nextId)[Len(pushed) + 1] = nextId
    BY <1>1, AppendProperties
  <2> QED BY <1>2, <2>1
<1>4. \A k \in DOMAIN pushed : pushed[k] # nextId
  <2>1. \A k \in DOMAIN pushed : pushed[k] \in Nat /\ pushed[k] < nextId
    BY <1>1, ElementOfSeq, LenProperties DEF OrderInv, ArraysNumbered
  <2> QED BY <1>1, <2>1
<1> QED BY <1>2, <1>3, <1>4 DEF Session!Next, Session!Send

\* A response the client reads was given after all it has.
LEMMA ReadReceives ==
    ASSUME TypeInv, OrderInv, NEW b \in BackTasks, ClientReads(b)
    PROVE  Session!Next \/ UNCHANGED <<pushed, client.received>>
<1> DEFINE wire == back[b].wire
           frame == Head(wire)
           got == client.received
<1>1. /\ pushed' = pushed /\ client.back = b /\ wire \in Seq(Frame) /\ wire # << >>
      /\ client'.received = IF frame.data THEN Append(got, frame.id) ELSE got
  BY FrameRead, BackFields DEF ClientReads, buffer
<1>2. 1 \in DOMAIN wire /\ frame = wire[1]
  <2>1. Len(wire) \in Nat \ {0} /\ DOMAIN wire = 1 .. Len(wire)
    BY <1>1, EmptySeq, LenProperties
  <2> QED BY <1>1, <2>1
<1>3. WireFollows(b)
  BY <1>1 DEF OrderInv, Wires
<1>4. CASE frame.data
  <2>1. IsPushed(frame.id) /\ \A j \in DOMAIN got : got[j] < frame.id /\ IsPushed(got[j])
    BY <1>2, <1>3, <1>4 DEF WireFollows, ComesAfter, OrderInv, ReceivedAcknowledged
  <2>2. PICK k \in DOMAIN pushed : pushed[k] = frame.id
    BY <2>1 DEF IsPushed
  <2>3. DOMAIN pushed = 1 .. Len(pushed) /\ Len(pushed) \in Nat /\ \A l \in DOMAIN pushed : pushed[l] \in Nat
    BY ElementOfSeq, LenProperties DEF TypeInv, TypeOK
  <2>4. ASSUME NEW j \in DOMAIN got
        PROVE  \E l \in 1 .. k - 1 : pushed[l] = got[j]
    <3>1. PICK l \in DOMAIN pushed : pushed[l] = got[j]
      BY <2>1 DEF IsPushed
    <3>2. pushed[l] < pushed[k]
      BY <2>1, <2>2, <3>1
    <3>3. l < k
      BY <2>3, <3>2 DEF OrderInv, ArraysNumbered, Ascending
    <3> QED BY <2>3, <3>1, <3>3
  <2>5. client'.received = Append(client.received, pushed[k])
    BY <1>1, <1>4, <2>2
  <2> QED BY <1>1, <2>4, <2>5 DEF Session!Next, Session!Receive
<1>5. CASE ~frame.data
  BY <1>1, <1>5
<1> QED BY <1>4, <1>5

\* Every other step is none of the stream's responses and none of the client's.
LEMMA RestStutters ==
    ASSUME TypeInv, [Next]_vars, ~PushArray, \A b \in BackTasks : ~ClientReads(b)
    PROVE  UNCHANGED <<pushed, client.received>>
<1>1. client \in ClientState
  BY DEF TypeInv, TypeOK
<1>2. pushed' = pushed
  BY DEF Next, PostStep, BackStep, Handshake, SendPost, PostUnknown, PostRepeated, PostNew, Deliver,
         DeliverFails, PostDropped, StreamTakes, StreamEnds, FillerEnds, OpenBack, FirstFrame,
         SendPending, LooksAgain, Waits, Keepalive, BackEnds, HoldExpires, BreakBack,
         BackNotices, BreakPost, Terminate, buffer, vars
<1>3. client'.received = client.received
  BY <1>1
     DEF Next, PostStep, BackStep, Handshake, SendPost, PostUnknown, PostRepeated, PostNew, Deliver,
         DeliverFails, PostDropped, StreamTakes, StreamEnds, FillerEnds, OpenBack, FirstFrame,
         SendPending, LooksAgain, Waits, Keepalive, BackEnds, HoldExpires, BreakBack,
         BackNotices, BreakPost, Terminate, vars, Tells, Accepted, ClientState
<1> QED BY <1>2, <1>3

\* The client gets the stream's responses in order and none of them twice, over
\* any number of GETs that end, break or overlap (webchannel.rs: Session::ack,
\* push_array and the GET's cursor).
THEOREM SessionImplementsResponses == Spec => ResponsesInOrder
<1>1. Init => Session!Init
  BY DEF Init, Session!Init
<1>2. TypeInv /\ OrderInv /\ [Next]_vars => [Session!Next]_<<pushed, client.received>>
  BY PushSends, ReadReceives, RestStutters
<1>3. Init => TypeInv /\ OrderInv
  BY TypeInit, OrderInit
<1>4. TypeInv /\ OrderInv /\ [Next]_vars => (TypeInv /\ OrderInv)'
  BY TypeNext, OrderNext
<1> QED BY <1>1, <1>2, <1>3, <1>4, PTL DEF Spec, ResponsesInOrder, Session!Spec
=============================================================================
