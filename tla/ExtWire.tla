------------------------------ MODULE ExtWire ------------------------------
(***************************************************************************)
(* RdExtBase and its ExtWire: an extension of the protocol that each of    *)
(* two peers binds when it gets to it.  The ends tell one another that     *)
(* they are ready, and until an end knows the other one is, it keeps what  *)
(* its users send in a queue.                                              *)
(*                                                                         *)
(* The states of an extension come on the wire's thread and are handled on *)
(* it (SynchronousScheduler); binding, unbinding, sending and the action   *)
(* for what came before an end had subscribed run on the default           *)
(* scheduler's thread.  The wire below delivers in order; of the message   *)
(* broker this module keeps that it parks what has no subscriber, and that *)
(* what follows waits behind what is parked.                               *)
(***************************************************************************)
EXTENDS Naturals, Sequences, Functions

CONSTANTS
  Ends,  \* The two peers.
  Budget \* Bound: how often each end is bound or its users send, together, Budget[e].

\* What is assumed of the constants.
ExtAssumption ==
  /\ \E a, b \in Ends : a # b /\ Ends = {a, b}
  /\ Budget \in [Ends -> Nat]

VARIABLES
  binding,     \* How far the binding of each end is.
  subscribed,  \* Whether the end is subscribed to the parent wire.
  connected,   \* The property ExtWire::connected.
  sendQ,       \* The queue ExtWire::sendQ.
  sending,     \* The message send has decided to hand to the real wire.
  flushing,    \* The threads that have set connected and not yet flushed.
  net,         \* What is under way to each end.
  parked,      \* The states parked in, or put aside by, each end's broker.
  binds,       \* How often each end has been bound.
  sent,        \* How many messages its users have sent.
  arrived,     \* The messages that have come to each end.
  crossed      \* Whether an answer of the other end has followed its farewell.

extVars == <<binding, subscribed, connected, sendQ, sending, flushing, net, parked,
             binds, sent, arrived, crossed>>

ExtState == {"Ready", "ReceivedCounterpart", "Disconnected"}
Threads == {"wire", "default"}
Other(e) == CHOOSE x \in Ends : x # e
State(s) == [is |-> "state", state |-> s]
Message(m) == [is |-> "message", number |-> m]
NoMessage == 0

Init ==
  /\ binding = [e \in Ends |-> "unbound"]
  /\ subscribed = [e \in Ends |-> FALSE]
  /\ connected = [e \in Ends |-> FALSE]
  /\ sendQ = [e \in Ends |-> <<>>]
  /\ sending = [e \in Ends |-> NoMessage]
  /\ flushing = [e \in Ends |-> {}]
  /\ net = [e \in Ends |-> <<>>]
  /\ parked = [e \in Ends |-> <<>>]
  /\ binds = [e \in Ends |-> 0]
  /\ sent = [e \in Ends |-> 0]
  /\ arrived = [e \in Ends |-> <<>>]
  /\ crossed = [e \in Ends |-> FALSE]

\* Whether end e may still be bound, or its users send.
Affords(e) == binds[e] + sent[e] < Budget[e]

\* The net after end e has sent what, in this order.
Carry(e, what) == net' = [net EXCEPT ![Other(e)] = @ \o what]

----------------------------------------------------------------------------
\* init: subscribe first, then say so.
Advise(e) ==
  /\ binding[e] = "unbound" /\ Affords(e)
  /\ flushing[e] \cap {"default"} = {}
  /\ binds' = [binds EXCEPT ![e] = @ + 1]
  /\ subscribed' = [subscribed EXCEPT ![e] = TRUE]
  /\ binding' = [binding EXCEPT ![e] = "advised"]
  /\ UNCHANGED <<connected, sendQ, sending, flushing, net, parked, sent, arrived, crossed>>

\* A mutant of SendReady: only the first binding is announced.
SendReadyOnce(e) ==
  /\ binding[e] = "advised"
  /\ binding' = [binding EXCEPT ![e] = "bound"]
  /\ IF binds[e] = 1 THEN Carry(e, <<State("Ready")>>) ELSE UNCHANGED net
  /\ UNCHANGED <<subscribed, connected, sendQ, sending, flushing, parked, binds, sent, arrived, crossed>>

SendReady(e) ==
  /\ binding[e] = "advised"
  /\ binding' = [binding EXCEPT ![e] = "bound"]
  /\ Carry(e, <<State("Ready")>>)
  /\ UNCHANGED <<subscribed, connected, sendQ, sending, flushing, parked, binds, sent, arrived, crossed>>

\* The end of the lifetime of init undoes both, the last first.
SendDisconnected(e) ==
  /\ binding[e] = "bound" /\ sending[e] = NoMessage /\ "default" \notin flushing[e]
  /\ binding' = [binding EXCEPT ![e] = "leaving"]
  /\ Carry(e, <<State("Disconnected")>>)
  /\ UNCHANGED <<subscribed, connected, sendQ, sending, flushing, parked, binds, sent, arrived, crossed>>

Unsubscribe(e) ==
  /\ binding[e] = "leaving"
  /\ subscribed' = [subscribed EXCEPT ![e] = FALSE]
  /\ binding' = [binding EXCEPT ![e] = "unbound"]
  /\ UNCHANGED <<connected, sendQ, sending, flushing, net, parked, binds, sent, arrived, crossed>>

\* connected.set(value): nothing if it is that already; the change is followed
\* by the listener of the constructor of ExtWire, Flush, on the same thread.
SetConnected(e, value, thread) ==
  /\ connected' = [connected EXCEPT ![e] = value]
  /\ flushing' = [flushing EXCEPT ![e] =
                    IF value /\ ~connected[e] THEN @ \cup {thread} ELSE @]

\* Ready is answered: what end e has under way once it has handled the state.
Answered(e, state, under) ==
  IF state = "Ready"
  THEN [under EXCEPT ![Other(e)] = Append(@, State("ReceivedCounterpart"))]
  ELSE under

\* on_wire_received; under is what is under way without this state.  An answer
\* of an end that has said it leaves is noted.
OnWireReceived(e, state, thread, under) ==
  /\ SetConnected(e, state # "Disconnected", thread)
  /\ net' = Answered(e, state, under)
  /\ crossed' = [crossed EXCEPT ![Other(e)] =
                   @ \/ (state = "Ready" /\ binding[e] = "leaving")]

\* The wire's thread hands a state to an end that is subscribed and has nothing
\* parked, parks it otherwise, and takes a message to where it is for.
Receive(e) ==
  /\ net[e] # <<>> /\ "wire" \notin flushing[e]
  /\ LET frame == Head(net[e])
         rest == [net EXCEPT ![e] = Tail(@)]
     IN  CASE frame.is = "message" ->
                /\ arrived' = [arrived EXCEPT ![e] = Append(@, frame.number)]
                /\ net' = rest
                /\ UNCHANGED <<connected, flushing, parked, crossed>>
           [] frame.is = "state" /\ subscribed[e] /\ parked[e] = <<>> ->
                /\ OnWireReceived(e, frame.state, "wire", rest)
                /\ UNCHANGED <<parked, arrived>>
           [] OTHER ->
                /\ parked' = [parked EXCEPT ![e] = Append(@, frame.state)]
                /\ net' = rest
                /\ UNCHANGED <<connected, flushing, arrived, crossed>>
  /\ UNCHANGED <<binding, subscribed, sendQ, sending, binds, sent>>

\* The default scheduler gets to what is parked, which by now has a subscriber
\* or is dropped.
RunParked(e) ==
  /\ parked[e] # <<>> /\ "default" \notin flushing[e] /\ sending[e] = NoMessage
  /\ binding[e] \in {"unbound", "bound"}
  /\ parked' = [parked EXCEPT ![e] = Tail(@)]
  /\ IF subscribed[e]
     THEN OnWireReceived(e, Head(parked[e]), "default", net)
     ELSE UNCHANGED <<connected, flushing, net, crossed>>
  /\ UNCHANGED <<binding, subscribed, sendQ, sending, binds, sent, arrived>>

\* The listener of connected: it sends the queue, all under the lock.
Flush(e, thread) ==
  /\ thread \in flushing[e]
  /\ flushing' = [flushing EXCEPT ![e] = @ \ {thread}]
  /\ Carry(e, [n \in DOMAIN sendQ[e] |-> Message(sendQ[e][n])])
  /\ sendQ' = [sendQ EXCEPT ![e] = <<>>]
  /\ UNCHANGED <<binding, subscribed, connected, sending, parked, binds, sent, arrived, crossed>>

\* A mutant of MustQueue: it looks at the connection alone.
MustQueueUnlessConnected(e) == ~connected[e]

MustQueue(e) == sendQ[e] # <<>> \/ ~connected[e]

\* send: under the lock a message is queued, or found to need no queue ...
Send(e) ==
  /\ binding[e] = "bound" /\ sending[e] = NoMessage /\ "default" \notin flushing[e]
  /\ Affords(e)
  /\ sent' = [sent EXCEPT ![e] = @ + 1]
  /\ IF MustQueue(e)
     THEN sendQ' = [sendQ EXCEPT ![e] = Append(@, sent'[e])] /\ UNCHANGED sending
     ELSE sending' = [sending EXCEPT ![e] = sent'[e]] /\ UNCHANGED sendQ
  /\ UNCHANGED <<binding, subscribed, connected, flushing, net, parked, binds, arrived, crossed>>

\* ... and then goes to the real wire without it.
SendReal(e) ==
  /\ sending[e] # NoMessage
  /\ sending' = [sending EXCEPT ![e] = NoMessage]
  /\ Carry(e, <<Message(sending[e])>>)
  /\ UNCHANGED <<binding, subscribed, connected, sendQ, flushing, parked, binds, sent, arrived, crossed>>

----------------------------------------------------------------------------
\* What the scheduler's thread has begun, and what the wire's thread has to do.
DefaultThread(e) ==
  SendReady(e) \/ Unsubscribe(e) \/ RunParked(e) \/ Flush(e, "default") \/ SendReal(e)
WireThread(e) == Receive(e) \/ Flush(e, "wire")

Next ==
  \E e \in Ends :
    \/ Advise(e) \/ SendReady(e) \/ SendDisconnected(e) \/ Unsubscribe(e)
    \/ Receive(e) \/ RunParked(e) \/ Flush(e, "wire") \/ Flush(e, "default")
    \/ Send(e) \/ SendReal(e)

Spec ==
  /\ Init /\ [][Next]_extVars
  /\ \A e \in Ends : WF_extVars(DefaultThread(e)) /\ WF_extVars(WireThread(e))

----------------------------------------------------------------------------
\* The variables have their types; what is queued or under way from an end has
\* been sent, and the scheduler's thread does one thing at a time.
TypeOK ==
  /\ binding \in [Ends -> {"unbound", "advised", "bound", "leaving"}]
  /\ subscribed \in [Ends -> BOOLEAN] /\ connected \in [Ends -> BOOLEAN]
  /\ \A e \in Ends :
       /\ binds[e] \in Nat /\ sent[e] \in Nat /\ binds[e] + sent[e] <= Budget[e]
       /\ subscribed[e] = (binding[e] # "unbound")
       /\ flushing[e] \subseteq Threads
       /\ Range(sendQ[e]) \subseteq 1 .. sent[e]
       /\ sending[e] \in 0 .. sent[e]
       /\ Range(parked[e]) \subseteq ExtState
       /\ sending[e] # NoMessage => "default" \notin flushing[e]

\* No message leaves for an end that has not once been bound, however binding,
\* sending and the two handshakes interleave.
NoMessageBeforeBound ==
  \A e \in Ends :
    arrived[e] # <<>> \/ (\E n \in DOMAIN net[e] : net[e][n].is = "message") => binds[e] > 0

\* The messages of an end arrive in the order they were sent, none twice,
\* although some pass through the queue and others do not.
ArrivesInOrder ==
  \A e \in Ends :
    LET came == arrived[e]
        comes == net[e]
        IsMessage(k) == comes[k].is = "message"
    IN  /\ \A j, k \in DOMAIN came : j < k => came[j] < came[k]
        /\ \A k \in DOMAIN comes : IsMessage(k) =>
             /\ \A j \in DOMAIN came : came[j] < comes[k].number
             /\ \A j \in 1 .. k - 1 : IsMessage(j) => comes[j].number < comes[k].number

\* Once nothing is under way an end takes the other one for connected only if it
\* is bound: unless the other answered while it was leaving, or this end has been
\* unbound meanwhile and remembers what was true before.
ConnectedToBound ==
  \A e \in Ends :
    /\ connected[e] /\ net[e] = <<>> /\ parked[e] = <<>>
    /\ ~crossed[e] /\ binds[e] = 1 /\ binding[e] = "bound"
    => subscribed[Other(e)]

\* Two ends that stay bound come to take one another for connected, whatever the
\* order they were bound in and whatever happened before.
BothConnect ==
  (<>[]\A e \in Ends : binding[e] = "bound") => <>[]\A e \in Ends : connected[e]

AllArrived == \A e \in Ends : 1 .. sent[e] \subseteq Range(arrived[Other(e)])

\* What the users of two ends that stay bound have sent arrives.
SentArrives ==
  (<>[]\A e \in Ends : binding[e] = "bound") =>
     ~AllArrived ~> AllArrived
============================================================================
