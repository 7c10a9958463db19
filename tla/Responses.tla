------------------------------ MODULE Responses ------------------------------
(***************************************************************************)
(* What a browser session promises about the responses of its stream: the  *)
(* client gets them in the order the stream gave them, each at most once.  *)
(* Array ids, acknowledgements, GETs and broken connections do not appear. *)
(* A response may be passed over: see BufferedUntilReceived.               *)
(***************************************************************************)
EXTENDS Naturals, Sequences

VARIABLES
    sent,           \* the stream's responses, oldest first
    received        \* those the client has got

Init == sent = << >> /\ received = << >>

\* The stream gives a response that is none of those before it.
Send ==
    /\ \E id \in {sent'[Len(sent')]} :
         /\ \A k \in DOMAIN sent : sent[k] # id
         /\ sent' = Append(sent, id)
    /\ UNCHANGED received

\* The client gets a response that comes after all it has got.
Receive ==
    /\ \E k \in DOMAIN sent :
         /\ \A j \in DOMAIN received : \E l \in 1 .. k - 1 : sent[l] = received[j]
         /\ received' = Append(received, sent[k])
    /\ UNCHANGED sent

Next == (sent' # << >> /\ Send) \/ Receive

Spec == Init /\ [][Next]_<<sent, received>>
=============================================================================
