------------------------- MODULE MessageBrokerProofs -------------------------
(***************************************************************************)
(* The message broker: that an entity receives no message twice and, with  *)
(* the exceptions KeepsOrder names, none before an earlier one, and that   *)
(* every parked message has an action to come for it; for any number of    *)
(* entities and messages and however the three threads take turns.         *)
(*                                                                         *)
(* A message is received, handed over to the entity's scheduler (handling, *)
(* work, or an invocation among tasks), or kept back by the broker: popped *)
(* and in the hand of the default thread, parked, put aside or being       *)
(* replayed.  BrokerInv says, for each entity,                             *)
(*                                                                         *)
(*   Sent        that nothing is anywhere that has not come;               *)
(*   Kinds       what can be where, by the entity's scheduler and whether  *)
(*               its subscription is still to come or over;                *)
(*   Handed      that what is handed over, or received, is in order, with  *)
(*               InvokesAhead for what is queued by invoke;                *)
(*   Queued      that the parked messages rise, that those of the present  *)
(*               entry have each an action and the actions are in their    *)
(*               order: so that which action comes for a message, which    *)
(*               the code does not ask, is the right one;                  *)
(*   Held        that what is kept back for an entity that may still get   *)
(*               it is behind all that is handed over, first what is       *)
(*               popped, then what is parked, then what is put aside.      *)
(***************************************************************************)
EXTENDS Protocol, SequenceTheorems, TLAPS

\* A queue with one more at its end.
LEMMA QueueGrows ==
  ASSUME NEW S, NEW q \in Seq(S), NEW x \in S
  PROVE  /\ Append(q, x) \in Seq(S) /\ Append(q, x) # <<>> /\ Len(q) \in Nat
         /\ Len(Append(q, x)) = Len(q) + 1 /\ Append(q, x)[Len(q) + 1] = x
         /\ \A n \in 1 .. Len(q) : Append(q, x)[n] = q[n]
         /\ \A n \in 1 .. Len(q) + 1 : n \in 1 .. Len(q) \/ n = Len(q) + 1
<1>1. /\ Append(q, x) \in Seq(S) /\ Len(q) \in Nat
      /\ Len(Append(q, x)) = Len(q) + 1 /\ Append(q, x)[Len(q) + 1] = x
      /\ \A n \in 1 .. Len(q) : Append(q, x)[n] = q[n]
  BY AppendProperties, LenProperties
<1>2. Append(q, x) # <<>>
  BY <1>1, EmptySeq
<1> QED BY <1>1, <1>2

\* A queue without its first.
LEMMA QueueShrinks ==
  ASSUME NEW S, NEW q \in Seq(S), q # <<>>
  PROVE  /\ Tail(q) \in Seq(S) /\ Len(q) \in Nat /\ Len(q) > 0 /\ Len(Tail(q)) = Len(q) - 1
         /\ Head(q) = q[1] /\ q[1] \in S /\ q[Len(q)] \in S
         /\ \A n \in 1 .. Len(q) - 1 : Tail(q)[n] = q[n + 1]
         /\ Tail(q) = <<>> => Len(q) = 1
         /\ Tail(q) # <<>> => Len(q) > 1 /\ Tail(q)[Len(Tail(q))] = q[Len(q)]
<1>1. Len(q) \in Nat /\ Len(q) > 0
  BY LenProperties, EmptySeq
<1>2. /\ Tail(q) \in Seq(S) /\ Len(Tail(q)) = Len(q) - 1 /\ Head(q) = q[1]
      /\ \A n \in 1 .. Len(q) - 1 : Tail(q)[n] = q[n + 1]
  BY HeadTailProperties
<1>3. q[1] \in S /\ q[Len(q)] \in S
  BY <1>1, ElementOfSeq
<1>4. /\ Tail(q) = <<>> => Len(Tail(q)) = 0
      /\ Tail(q) # <<>> => Len(Tail(q)) > 0
  <2>1. PICK t \in Seq(S) : t = Tail(q)
    BY <1>2
  <2>2. (t = <<>> => Len(t) = 0) /\ (t # <<>> => Len(t) > 0)
    BY LenProperties, EmptySeq
  <2> QED BY <2>1, <2>2
<1>5. Tail(q) # <<>> => Len(q) > 1 /\ Tail(q)[Len(Tail(q))] = q[Len(q)]
  <2> HAVE Tail(q) # <<>>
  <2>1. Len(q) - 1 > 0
    BY <1>1, <1>2, <1>4
  <2>2. Len(q) - 1 \in 1 .. Len(q) - 1 /\ (Len(q) - 1) + 1 = Len(q)
    BY <1>1, <2>1
  <2> QED BY <1>1, <1>2, <2>1, <2>2
<1> QED BY <1>1, <1>2, <1>3, <1>4, <1>5

----------------------------------------------------------------------------
\* What the queues of the schedulers hold, and what the default one is doing.
BrokerTask ==
  [does : {"invoke"}, id : Ids, message : Nat]
    \cup [does : {"parked"}, id : Ids, node : Nat, message : Nat]
BrokerRun ==
  [at : {"popping", "invoking", "checking", "moving", "erasing", "replaying", "crashed"},
   id : Ids, node : Nat, subscription : BOOLEAN, message : Nat, replay : Seq(Nat)]

\* An entry of the broker, and one with certain members.
BrokerEntry == [node : Nat, default : Seq(Nat), custom : Seq(Nat)]
Holds(e, n, d, c) == e.node = n /\ e.default = d /\ e.custom = c

BrokerTypes ==
  /\ kind \in [Ids -> Broker!Schedulers]
  /\ subscriptions \in [Ids -> {"absent", "null", "entity"}]
  /\ lifetime \in [Ids -> {"none", "alive", "over"}]
  /\ broker \in [Ids -> BrokerEntry]
  /\ tasks \in Seq(BrokerTask)
  /\ running \in {Broker!Idle} \cup BrokerRun
  /\ work \in Seq(Ids \X Nat)
  /\ handling \in {Broker!Nothing} \cup (Ids \X Nat)
  /\ sent \in [Ids -> 0 .. MaxMessages]
  /\ received \in [Ids -> Seq(Nat)]
  /\ late \in [Ids -> SUBSET Nat]

\* What messages of the entity i are where.
Handles(i) == handling # Broker!Nothing /\ handling[1] = i
InWork(i, n) == work[n][1] = i
Invokes(i, n) == tasks[n].does = "invoke" /\ tasks[n].id = i
Parks(i, n) == tasks[n].does = "parked" /\ tasks[n].id = i /\ tasks[n].node = broker[i].node
Pops(i) == running.at = "popping" /\ running.id = i /\ running.node = broker[i].node
InHand(i) == running.at = "invoking" /\ running.id = i /\ running.message # 0
Replays(i) == running.at \in {"erasing", "replaying"} /\ running.id = i

\* Message x of i may be received ahead of y.
Ahead(i, x, y) ==
  x < y \/ (x # y /\ (kind[i] = "outOfOrder" \/ (kind[i] # "default" /\ x \in late[i])))

\* All that has been received, or will be without the broker, is ahead of y.
AllAhead(i, y) ==
  /\ \A j \in 1 .. Len(received[i]) : Ahead(i, received[i][j], y)
  /\ Handles(i) => Ahead(i, handling[2], y)
  /\ \A n \in 1 .. Len(work) : InWork(i, n) => Ahead(i, work[n][2], y)

Rises(s) == \A j, k \in 1 .. Len(s) : j < k => s[j] < s[k]
OneOf(i, x) == x \in 1 .. sent[i]

\* The actions of the default scheduler are for what was sent.
TasksSent(i) ==
  \A n \in 1 .. Len(tasks) : tasks[n].id = i =>
    /\ OneOf(i, tasks[n].message)
    /\ tasks[n].does = "parked" => OneOf(i, tasks[n].node)

\* What there is of i in the broker and on the default scheduler was sent.
Sent(i) ==
  /\ broker[i].node <= sent[i]
  /\ \A j \in 1 .. Len(broker[i].default) : OneOf(i, broker[i].default[j])
  /\ \A j \in 1 .. Len(broker[i].custom) : OneOf(i, broker[i].custom[j])
  /\ TasksSent(i)
  /\ InHand(i) => OneOf(i, running.message)
  /\ running # Broker!Idle /\ running.id = i => OneOf(i, running.node)
  /\ Replays(i) => \A j \in 1 .. Len(running.replay) : OneOf(i, running.replay[j])

NotInvoked(i) == \A n \in 1 .. Len(tasks) : ~Invokes(i, n)

\* What may be where, by the kind of scheduler and the entity's lifetime.
Kinds(i) ==
  /\ kind[i] # "default" => NotInvoked(i)
  /\ kind[i] \in {"default", "outOfOrder"} =>
       broker[i].custom = <<>> /\ (Replays(i) => running.replay = <<>>)
  /\ broker[i].node = 0 => broker[i].default = <<>> /\ broker[i].custom = <<>>
  /\ (subscriptions[i] = "entity") = (lifetime[i] = "alive")
  /\ lifetime[i] = "none" => broker[i].custom = <<>> /\ (Replays(i) => running.replay = <<>>)
  /\ running # Broker!Idle /\ running.id = i /\ running.subscription => lifetime[i] = "alive"
  /\ running.at = "popping" /\ running.id = i => running.message = 0
  /\ InHand(i) => broker[i].node # 0
  /\ running.at = "replaying" /\ running.id = i /\ lifetime[i] = "alive" => broker[i].node = 0

\* What has been handed over was sent, and is in order.
Handed(i) ==
  /\ kind[i] # "single" => ~Handles(i) /\ \A n \in 1 .. Len(work) : ~InWork(i, n)
  /\ \A j \in 1 .. Len(received[i]) : OneOf(i, received[i][j])
  /\ Handles(i) => OneOf(i, handling[2])
  /\ \A n \in 1 .. Len(work) : InWork(i, n) => OneOf(i, work[n][2])
  /\ \A j, k \in 1 .. Len(received[i]) : j < k => Ahead(i, received[i][j], received[i][k])
  /\ Handles(i) => \A j \in 1 .. Len(received[i]) : Ahead(i, received[i][j], handling[2])
  /\ \A n \in 1 .. Len(work) : InWork(i, n) =>
       /\ \A j \in 1 .. Len(received[i]) : Ahead(i, received[i][j], work[n][2])
       /\ Handles(i) => Ahead(i, handling[2], work[n][2])
       /\ \A m \in 1 .. n - 1 : InWork(i, m) => Ahead(i, work[m][2], work[n][2])

\* All invocations that are queued on the default scheduler are for later messages than y,
\* and so is all that is queued there for the entity's present entry.
InvokedAfter(i, y) == \A n \in 1 .. Len(tasks) : Invokes(i, n) => y < tasks[n].message
QueuedAfter(i, y) ==
  \A n \in 1 .. Len(tasks) : Invokes(i, n) \/ Parks(i, n) => y < tasks[n].message

\* What is queued there is behind what has been received.
InvokesAhead(i) == \A j \in 1 .. Len(received[i]) : InvokedAfter(i, received[i][j])

\* The actions that concern an entity are in the order of their messages.
Orderly(i) ==
  \A m, n \in 1 .. Len(tasks) :
    m < n /\ (Invokes(i, m) \/ Parks(i, m)) /\ (Invokes(i, n) \/ Parks(i, n)) =>
      tasks[m].message < tasks[n].message

\* An action of its present entry is for a message that is parked there, ...
Wanted(i) ==
  \A n \in 1 .. Len(tasks) : Parks(i, n) =>
    \E k \in 1 .. Len(broker[i].default) : broker[i].default[k] = tasks[n].message

\* ... and the message k that is parked there has an action.
Fetched(i, k) ==
  \E n \in 1 .. Len(tasks) : Parks(i, n) /\ tasks[n].message = broker[i].default[k]

\* What is parked, and the actions of the default scheduler.
Queued(i) ==
  /\ Rises(broker[i].default) /\ Orderly(i)
  /\ ~(running.at = "erasing" /\ running.id = i) => Wanted(i)
  /\ \A k \in 1 .. Len(broker[i].default) : (k = 1 /\ Pops(i)) \/ Fetched(i, k)
  /\ Pops(i) => broker[i].default # <<>> /\ QueuedAfter(i, broker[i].default[1])

\* What the broker has for an entity that may yet receive it.
Held(i) ==
  lifetime[i] # "over" =>
    /\ \A k \in 1 .. Len(broker[i].default) : AllAhead(i, broker[i].default[k])
    /\ Rises(broker[i].custom)
    /\ \A c \in 1 .. Len(broker[i].custom) :
         /\ AllAhead(i, broker[i].custom[c])
         /\ \A k \in 1 .. Len(broker[i].default) : broker[i].default[k] < broker[i].custom[c]
    /\ InHand(i) =>
         /\ AllAhead(i, running.message)
         /\ \A k \in 1 .. Len(broker[i].default) : running.message < broker[i].default[k]
         /\ \A c \in 1 .. Len(broker[i].custom) : running.message < broker[i].custom[c]
         /\ InvokedAfter(i, running.message)
    /\ Replays(i) =>
         /\ Rises(running.replay)
         /\ \A k \in 1 .. Len(running.replay) : AllAhead(i, running.replay[k])

BrokerOf(i) ==
  Sent(i) /\ Kinds(i) /\ Handed(i) /\ InvokesAhead(i) /\ Queued(i) /\ Held(i)

BrokerInv == BrokerTypes /\ \A i \in Ids : BrokerOf(i)

----------------------------------------------------------------------------
\* The values the variables of the broker begin with, and what is in its queues.
LEMMA BrokerNames ==
  /\ MaxMessages \in Nat
  /\ Broker!Idle.at = "idle" /\ Broker!Nothing = <<>>
  /\ \A r \in BrokerRun : r # Broker!Idle
  /\ \A t \in BrokerTask : t.id \in Ids /\ t.does \in {"invoke", "parked"} /\ t.message \in Nat
                          /\ (t.does = "parked" => t.node \in Nat)
BY ProtocolAssumption DEF Broker!MessagesAssumption, Broker!Idle, Broker!Nothing, BrokerRun, BrokerTask

\* What there is of one entity.
LEMMA BrokerAt ==
  ASSUME BrokerTypes, NEW i \in Ids
  PROVE  /\ broker[i] \in BrokerEntry
         /\ broker[i].node \in Nat /\ broker[i].default \in Seq(Nat) /\ broker[i].custom \in Seq(Nat)
         /\ Len(broker[i].default) \in Nat /\ Len(broker[i].custom) \in Nat
         /\ received[i] \in Seq(Nat) /\ Len(received[i]) \in Nat
         /\ sent[i] \in Nat /\ late[i] \subseteq Nat /\ kind[i] \in Broker!Schedulers
         /\ \A k \in 1 .. Len(broker[i].default) : broker[i].default[k] \in Nat
         /\ \A k \in 1 .. Len(broker[i].custom) : broker[i].custom[k] \in Nat
         /\ \A k \in 1 .. Len(received[i]) : received[i][k] \in Nat
<1>1. /\ broker[i] \in BrokerEntry
      /\ received[i] \in Seq(Nat) /\ sent[i] \in 0 .. MaxMessages /\ late[i] \subseteq Nat
      /\ kind[i] \in Broker!Schedulers
  BY DEF BrokerTypes
<1>2. /\ broker[i].node \in Nat /\ broker[i].default \in Seq(Nat) /\ broker[i].custom \in Seq(Nat)
      /\ sent[i] \in Nat
  BY <1>1, BrokerNames DEF BrokerEntry
<1> QED BY <1>1, <1>2, LenProperties, ElementOfSeq

\* What there is of the queues.
LEMMA BrokerQueues ==
  ASSUME BrokerTypes
  PROVE  /\ Len(tasks) \in Nat /\ Len(work) \in Nat
         /\ \A n \in 1 .. Len(tasks) : tasks[n] \in BrokerTask /\ tasks[n].id \in Ids /\ tasks[n].message \in Nat
         /\ \A n \in 1 .. Len(work) : work[n] \in Ids \X Nat /\ work[n][1] \in Ids /\ work[n][2] \in Nat
         /\ handling # Broker!Nothing => handling \in Ids \X Nat /\ handling[1] \in Ids /\ handling[2] \in Nat
         /\ running # Broker!Idle =>
              /\ running \in BrokerRun /\ running.id \in Ids /\ running.node \in Nat
              /\ running.message \in Nat /\ running.replay \in Seq(Nat) /\ Len(running.replay) \in Nat
              /\ \A k \in 1 .. Len(running.replay) : running.replay[k] \in Nat
<1>1. /\ tasks \in Seq(BrokerTask) /\ work \in Seq(Ids \X Nat)
      /\ handling \in {Broker!Nothing} \cup (Ids \X Nat) /\ running \in {Broker!Idle} \cup BrokerRun
  BY DEF BrokerTypes
<1>2. /\ Len(tasks) \in Nat /\ Len(work) \in Nat
      /\ \A n \in 1 .. Len(tasks) : tasks[n] \in BrokerTask
      /\ \A n \in 1 .. Len(work) : work[n] \in Ids \X Nat
  BY <1>1, LenProperties, ElementOfSeq
<1>3. running # Broker!Idle =>
              /\ running \in BrokerRun /\ running.id \in Ids /\ running.node \in Nat
              /\ running.message \in Nat /\ running.replay \in Seq(Nat)
  BY <1>1 DEF BrokerRun
<1>4. running # Broker!Idle =>
         Len(running.replay) \in Nat /\ \A k \in 1 .. Len(running.replay) : running.replay[k] \in Nat
  BY <1>3, LenProperties, ElementOfSeq
<1> QED BY <1>1, <1>2, <1>3, <1>4, BrokerNames

----------------------------------------------------------------------------
\* The handler is called.
LEMMA ExecuteTypes ==
  ASSUME BrokerTypes, NEW i \in Ids, NEW m \in Nat, Broker!Execute(i, m)
  PROVE  /\ received' \in [Ids -> Seq(Nat)] /\ received'[i] = Append(received[i], m)
         /\ \A j \in Ids : j # i => received'[j] = received[j]
<1>1. received \in [Ids -> Seq(Nat)] /\ received[i] \in Seq(Nat)
  BY DEF BrokerTypes
<1>2. Append(received[i], m) \in Seq(Nat)
  BY <1>1, QueueGrows
<1> QED BY <1>1, <1>2 DEF Broker!Execute

\* A look at the map of subscriptions, which may enter a null pointer.
LEMMA LookUpTypes ==
  ASSUME BrokerTypes, NEW i \in Ids, Broker!LookUp(i)
  PROVE  /\ subscriptions' \in [Ids -> {"absent", "null", "entity"}]
         /\ \A j \in Ids : (subscriptions'[j] = "entity") = (subscriptions[j] = "entity")
<1>1. subscriptions \in [Ids -> {"absent", "null", "entity"}]
  BY DEF BrokerTypes
<1> QED BY <1>1 DEF Broker!LookUp, Broker!Exists

\* invoke: a message is queued, or the handler is called with it at once.
LEMMA InvokeDoes ==
  ASSUME BrokerTypes, NEW i \in Ids, NEW m \in Nat, Broker!Invoke(i, m)
  PROVE  /\ tasks' \in Seq(BrokerTask) /\ work' \in Seq(Ids \X Nat) /\ received' \in [Ids -> Seq(Nat)]
         /\ \A j \in Ids : j # i => received'[j] = received[j]
         /\ \/ /\ kind[i] = "default" /\ UNCHANGED <<work, received>>
               /\ tasks' = Append(tasks, [does |-> "invoke", id |-> i, message |-> m])
            \/ /\ kind[i] = "single" /\ UNCHANGED <<tasks, received>>
               /\ work' = Append(work, <<i, m>>)
            \/ /\ kind[i] \notin {"default", "single"} /\ UNCHANGED <<tasks, work>>
               /\ received'[i] = Append(received[i], m) \/ UNCHANGED received
<1>1. /\ tasks \in Seq(BrokerTask) /\ work \in Seq(Ids \X Nat) /\ received \in [Ids -> Seq(Nat)]
      /\ [does |-> "invoke", id |-> i, message |-> m] \in BrokerTask /\ <<i, m>> \in Ids \X Nat
  BY DEF BrokerTypes, BrokerTask
<1>2. CASE kind[i] = "default"
  <2>1. /\ tasks' = Append(tasks, [does |-> "invoke", id |-> i, message |-> m])
        /\ UNCHANGED <<work, received>>
    BY <1>2 DEF Broker!Invoke
  <2>2. tasks' \in Seq(BrokerTask)
    BY <1>1, <2>1, QueueGrows
  <2> QED BY <1>1, <1>2, <2>1, <2>2
<1>3. CASE kind[i] = "single"
  <2>1. work' = Append(work, <<i, m>>) /\ UNCHANGED <<tasks, received>>
    BY <1>3 DEF Broker!Invoke
  <2>2. work' \in Seq(Ids \X Nat)
    BY <1>1, <2>1, QueueGrows
  <2> QED BY <1>1, <1>3, <2>1, <2>2
<1>4. CASE kind[i] \notin {"default", "single"}
  <2>1. /\ IF Broker!Exists(i) THEN Broker!Execute(i, m) ELSE UNCHANGED received
        /\ UNCHANGED <<tasks, work>>
    BY <1>4 DEF Broker!Invoke
  <2> QED BY <1>1, <1>4, <2>1, ExecuteTypes
<1> QED BY <1>2, <1>3, <1>4

\* dispatch, in each of its cases.
LEMMA DispatchDoes ==
  ASSUME BrokerTypes, NEW i \in Ids, Broker!Dispatch(i), NEW m, m = sent[i] + 1
  PROVE  /\ m \in Nat \ {0} /\ m <= MaxMessages /\ sent' = [sent EXCEPT ![i] = m]
         /\ UNCHANGED <<kind, lifetime, running, handling>>
         /\ \A j \in Ids : j # i => broker'[j] = broker[j]
         /\ \A j \in Ids : (subscriptions'[j] = "entity") = (subscriptions[j] = "entity")
         /\ BrokerTypes'
         /\ \/ /\ subscriptions[i] # "entity" /\ UNCHANGED <<work, received, late>>
               /\ LET node == IF broker[i].node = 0 THEN m ELSE broker[i].node
                  IN  /\ Holds(broker'[i], node, Append(broker[i].default, m), broker[i].custom)
                      /\ tasks' = Append(tasks, [does |-> "parked", id |-> i, node |-> node, message |-> m])
            \/ /\ subscriptions[i] = "entity"
               /\ late' = [late EXCEPT ![i] = IF Broker!Replaying(i) THEN @ \cup {m} ELSE @]
               /\ \/ /\ Broker!MustWait(i) /\ UNCHANGED <<tasks, work, received>>
                     /\ Holds(broker'[i], broker[i].node, broker[i].default, Append(broker[i].custom, m))
                  \/ ~Broker!MustWait(i) /\ Broker!Invoke(i, m) /\ UNCHANGED broker
<1>1. m \in Nat \ {0} /\ m <= MaxMessages /\ sent' = [sent EXCEPT ![i] = m] /\ m \in 0 .. MaxMessages
      /\ UNCHANGED <<kind, lifetime, running, handling>> /\ sent' \in [Ids -> 0 .. MaxMessages]
  <2>1. sent \in [Ids -> 0 .. MaxMessages] /\ MaxMessages \in Nat
    BY BrokerNames DEF BrokerTypes
  <2> QED BY <2>1 DEF Broker!Dispatch
<1>2. /\ broker \in [Ids -> BrokerEntry] /\ broker[i] \in BrokerEntry
      /\ broker[i].default \in Seq(Nat) /\ broker[i].custom \in Seq(Nat) /\ broker[i].node \in Nat
  BY DEF BrokerTypes, BrokerEntry
<1>3. Append(broker[i].default, m) \in Seq(Nat) /\ Append(broker[i].custom, m) \in Seq(Nat)
  BY <1>1, <1>2, QueueGrows
<1>4. CASE subscriptions[i] # "entity"
  <2>1. Broker!Park(i, m) /\ late' = late
    BY <1>4 DEF Broker!Dispatch, Broker!history
  <2> DEFINE node == IF broker[i].node = 0 THEN m ELSE broker[i].node
             t == [does |-> "parked", id |-> i, node |-> node, message |-> m]
  <2>2. node \in Nat /\ t \in BrokerTask
    BY <1>1, <1>2 DEF BrokerTask
  <2>3. /\ Holds(broker'[i], node, Append(broker[i].default, m), broker[i].custom)
        /\ broker' \in [Ids -> BrokerEntry] /\ \A j \in Ids : j # i => broker'[j] = broker[j]
    <3>1. broker' = [broker EXCEPT ![i].node = node, ![i].default = Append(@, m)]
      BY <2>1 DEF Broker!Park
    <3>2. PICK r : r = [broker[i] EXCEPT !.node = node, !.default = Append(broker[i].default, m)]
      OBVIOUS
    <3>3. broker' = [broker EXCEPT ![i] = r]
      BY <3>1, <3>2
    <3> QED BY <1>2, <1>3, <2>2, <3>2, <3>3 DEF Holds, BrokerEntry
  <2>4. tasks' = Append(tasks, t) /\ UNCHANGED <<work, received>>
    BY <2>1 DEF Broker!Park
  <2>5. tasks' \in Seq(BrokerTask)
    BY <2>2, <2>4, QueueGrows DEF BrokerTypes
  <2>6. /\ subscriptions' \in [Ids -> {"absent", "null", "entity"}]
        /\ \A j \in Ids : (subscriptions'[j] = "entity") = (subscriptions[j] = "entity")
    BY <2>1, LookUpTypes DEF Broker!Park
  <2>7. BrokerTypes'
    BY <1>1, <2>1, <2>3, <2>4, <2>5, <2>6 DEF BrokerTypes
  <2> QED BY <1>1, <1>4, <2>1, <2>3, <2>4, <2>6, <2>7
<1>5. CASE subscriptions[i] = "entity"
  <2>1. /\ late' = [late EXCEPT ![i] = IF Broker!Replaying(i) THEN @ \cup {m} ELSE @]
        /\ UNCHANGED subscriptions
        /\ IF Broker!MustWait(i) THEN Broker!PutAside(i, m) ELSE Broker!Invoke(i, m) /\ UNCHANGED broker
    BY <1>5 DEF Broker!Dispatch
  <2>2. late' \in [Ids -> SUBSET Nat]
    BY <1>1, <2>1 DEF BrokerTypes
  <2>3. CASE Broker!MustWait(i)
    <3>1. /\ broker' = [broker EXCEPT ![i].custom = Append(@, m)] /\ UNCHANGED <<tasks, work, received>>
      BY <2>1, <2>3 DEF Broker!PutAside
    <3>2. /\ Holds(broker'[i], broker[i].node, broker[i].default, Append(broker[i].custom, m))
          /\ broker' \in [Ids -> BrokerEntry] /\ \A j \in Ids : j # i => broker'[j] = broker[j]
      <4>1. PICK r : r = [broker[i] EXCEPT !.custom = Append(broker[i].custom, m)]
        OBVIOUS
      <4>2. broker' = [broker EXCEPT ![i] = r]
        BY <3>1, <4>1
      <4> QED BY <1>2, <1>3, <4>1, <4>2 DEF Holds, BrokerEntry
    <3>3. BrokerTypes'
      BY <1>1, <2>1, <2>2, <3>1, <3>2 DEF BrokerTypes
    <3> QED BY <1>1, <1>5, <2>1, <2>3, <3>1, <3>2, <3>3
  <2>4. CASE ~Broker!MustWait(i)
    <3>1. Broker!Invoke(i, m) /\ UNCHANGED broker
      BY <2>1, <2>4
    <3>2. tasks' \in Seq(BrokerTask) /\ work' \in Seq(Ids \X Nat) /\ received' \in [Ids -> Seq(Nat)]
      BY <1>1, <3>1, InvokeDoes
    <3>3. BrokerTypes'
      BY <1>1, <2>1, <2>2, <3>1, <3>2 DEF BrokerTypes
    <3> QED BY <1>1, <1>5, <2>1, <2>4, <3>1, <3>3
  <2> QED BY <2>3, <2>4
<1> QED BY <1>4, <1>5

\* advise_on.
LEMMA AdviseOnDoes ==
  ASSUME BrokerTypes, NEW i \in Ids, Broker!AdviseOn(i)
  PROVE  /\ BrokerTypes' /\ running = Broker!Idle /\ lifetime[i] = "none"
         /\ lifetime'[i] = "alive" /\ subscriptions'[i] = "entity"
         /\ \A j \in Ids : j # i => lifetime'[j] = lifetime[j] /\ subscriptions'[j] = subscriptions[j]
         /\ UNCHANGED <<kind, broker, tasks, running, work, handling, sent, received, late>>
BY DEF BrokerTypes, Broker!AdviseOn

\* The end of the subscription's lifetime.
LEMMA TerminateDoes ==
  ASSUME BrokerTypes, NEW i \in Ids, Broker!Terminate(i)
  PROVE  /\ BrokerTypes' /\ running = Broker!Idle /\ lifetime[i] = "alive"
         /\ lifetime'[i] = "over" /\ subscriptions'[i] = "absent"
         /\ \A j \in Ids : j # i => lifetime'[j] = lifetime[j] /\ subscriptions'[j] = subscriptions[j]
         /\ UNCHANGED <<kind, broker, tasks, running, work, handling, sent, received, late>>
BY DEF BrokerTypes, Broker!Terminate, Broker!history

\* What runs goes on: at is where, m its message and q what it has left to replay.
GoesOn(r, at, m, q) ==
  /\ r \in BrokerRun /\ r # Broker!Idle /\ r.at = at /\ r.message = m /\ r.replay = q
  /\ r.id = running.id /\ r.node = running.node /\ r.subscription = running.subscription

\* What the default scheduler's thread does goes on for the same entity and entry.
LEMMA RunGoesOn ==
  ASSUME BrokerTypes, running # Broker!Idle,
         NEW at \in {"popping", "invoking", "checking", "moving", "erasing", "replaying", "crashed"}
  PROVE  /\ GoesOn([running EXCEPT !.at = at], at, running.message, running.replay)
         /\ \A m \in Nat :
              GoesOn([running EXCEPT !.at = at, !.message = m], at, m, running.replay)
         /\ \A q \in Seq(Nat) :
              GoesOn([running EXCEPT !.at = at, !.replay = q], at, running.message, q)
<1>1. running \in BrokerRun
  BY BrokerQueues
<1>2. GoesOn([running EXCEPT !.at = at], at, running.message, running.replay)
  BY <1>1, BrokerNames DEF BrokerRun, GoesOn
<1>3. ASSUME NEW m \in Nat
      PROVE  GoesOn([running EXCEPT !.at = at, !.message = m], at, m, running.replay)
  BY <1>1, BrokerNames DEF BrokerRun, GoesOn
<1>4. ASSUME NEW q \in Seq(Nat)
      PROVE  GoesOn([running EXCEPT !.at = at, !.replay = q], at, running.message, q)
  BY <1>1, BrokerNames DEF BrokerRun, GoesOn
<1> QED BY <1>2, <1>3, <1>4

\* What the default scheduler takes from its queue.
LEMMA TaskTaken ==
  ASSUME BrokerTypes, tasks # <<>>, tasks' = Tail(tasks)
  PROVE  /\ tasks' \in Seq(BrokerTask) /\ Head(tasks) = tasks[1] /\ tasks[1] \in BrokerTask
         /\ tasks[1].id \in Ids /\ tasks[1].message \in Nat
         /\ Len(tasks) \in Nat /\ 1 \in 1 .. Len(tasks) /\ Len(tasks') = Len(tasks) - 1
         /\ \A n \in 1 .. Len(tasks') : n + 1 \in 1 .. Len(tasks) /\ tasks'[n] = tasks[n + 1]
         /\ \A n \in 1 .. Len(tasks) : n # 1 => n - 1 \in 1 .. Len(tasks') /\ tasks'[n - 1] = tasks[n]
<1>1. tasks \in Seq(BrokerTask)
  BY DEF BrokerTypes
<1>2. /\ tasks' \in Seq(BrokerTask) /\ Len(tasks) \in Nat /\ Len(tasks) > 0
      /\ Len(tasks') = Len(tasks) - 1 /\ Head(tasks) = tasks[1] /\ tasks[1] \in BrokerTask
      /\ \A n \in 1 .. Len(tasks) - 1 : tasks'[n] = tasks[n + 1]
  BY <1>1, QueueShrinks
<1> QED BY <1>2, BrokerNames

\* The action queued by invoke.
LEMMA RunInvokedDoes ==
  ASSUME BrokerTypes, Broker!RunInvoked
  PROVE  /\ BrokerTypes' /\ running = Broker!Idle /\ tasks # <<>> /\ tasks[1].does = "invoke"
         /\ tasks' = Tail(tasks)
         /\ received'[tasks[1].id] = Append(received[tasks[1].id], tasks[1].message) \/ UNCHANGED received
         /\ \A j \in Ids : j # tasks[1].id => received'[j] = received[j]
         /\ UNCHANGED <<kind, subscriptions, lifetime, broker, running, work, handling, sent, late>>
<1>1. /\ running = Broker!Idle /\ tasks # <<>> /\ Head(tasks).does = "invoke" /\ tasks' = Tail(tasks)
      /\ IF Broker!Exists(Head(tasks).id) THEN Broker!Execute(Head(tasks).id, Head(tasks).message)
         ELSE UNCHANGED received
      /\ UNCHANGED <<kind, subscriptions, lifetime, broker, running, work, handling, sent, late>>
  BY DEF Broker!RunInvoked, Broker!history
<1>2. Head(tasks) = tasks[1] /\ tasks[1].id \in Ids /\ tasks[1].message \in Nat /\ tasks' \in Seq(BrokerTask)
  BY <1>1, TaskTaken
<1>3. /\ received' \in [Ids -> Seq(Nat)]
      /\ received'[tasks[1].id] = Append(received[tasks[1].id], tasks[1].message) \/ UNCHANGED received
      /\ \A j \in Ids : j # tasks[1].id => received'[j] = received[j]
  BY <1>1, <1>2, ExecuteTypes DEF BrokerTypes
<1>4. BrokerTypes'
  BY <1>1, <1>2, <1>3 DEF BrokerTypes
<1> QED BY <1>1, <1>2, <1>3, <1>4

\* The action queued by dispatch reads the subscription, ...
LEMMA RunParkedDoes ==
  ASSUME BrokerTypes, Broker!RunParked
  PROVE  /\ BrokerTypes' /\ running = Broker!Idle /\ tasks # <<>> /\ tasks[1].does = "parked"
         /\ tasks' = Tail(tasks) /\ tasks[1].node \in Nat
         /\ running' # Broker!Idle /\ running'.at = "popping" /\ running'.id = tasks[1].id
         /\ running'.node = tasks[1].node /\ running'.message = 0
         /\ running'.subscription => subscriptions[tasks[1].id] = "entity"
         /\ \A j \in Ids : (subscriptions'[j] = "entity") = (subscriptions[j] = "entity")
         /\ UNCHANGED <<kind, lifetime, broker, work, handling, sent, received, late>>
<1>1. /\ running = Broker!Idle /\ tasks # <<>> /\ Head(tasks).does = "parked" /\ tasks' = Tail(tasks)
      /\ Broker!LookUp(Head(tasks).id)
      /\ running' = [at |-> "popping", id |-> Head(tasks).id, node |-> Head(tasks).node,
                     subscription |-> subscriptions[Head(tasks).id] = "entity",
                     message |-> 0, replay |-> <<>>]
      /\ UNCHANGED <<kind, lifetime, broker, work, handling, sent, received, late>>
  BY DEF Broker!RunParked, Broker!history
<1>2. /\ Head(tasks) = tasks[1] /\ tasks[1].id \in Ids /\ tasks[1] \in BrokerTask
      /\ tasks' \in Seq(BrokerTask)
  BY <1>1, TaskTaken
<1>3. tasks[1].node \in Nat
  BY <1>1, <1>2, BrokerNames
<1>4. running' \in BrokerRun
  <2>1. (subscriptions[tasks[1].id] = "entity") \in BOOLEAN /\ <<>> \in Seq(Nat)
    OBVIOUS
  <2> QED BY <1>1, <1>2, <1>3, <2>1 DEF BrokerRun
<1>5. /\ running' # Broker!Idle /\ running'.at = "popping" /\ running'.id = tasks[1].id
      /\ running'.node = tasks[1].node /\ running'.message = 0
      /\ running'.subscription => subscriptions[tasks[1].id] = "entity"
  BY <1>1, <1>2, <1>4, BrokerNames
<1>6. /\ subscriptions' \in [Ids -> {"absent", "null", "entity"}]
      /\ \A j \in Ids : (subscriptions'[j] = "entity") = (subscriptions[j] = "entity")
  BY <1>1, <1>2, LookUpTypes
<1>7. BrokerTypes'
  BY <1>1, <1>2, <1>4, <1>6 DEF BrokerTypes
<1> QED BY <1>1, <1>2, <1>3, <1>5, <1>6, <1>7

\* ... pops what is parked, or goes through a dangling iterator, ...
LEMMA PopDoes ==
  ASSUME BrokerTypes, Broker!Pop
  PROVE  LET i == running.id
         IN  /\ BrokerTypes' /\ running.at = "popping" /\ running # Broker!Idle /\ running' # Broker!Idle
             /\ running'.id = i /\ running'.node = running.node
             /\ running'.subscription = running.subscription
             /\ running'.at \in {"invoking", "crashed"}
             /\ \A j \in Ids : j # i => broker'[j] = broker[j] /\ late'[j] = late[j]
             /\ late[i] \subseteq late'[i]
             /\ \/ /\ broker'[i] = broker[i] /\ running'.message = running.message
                   /\ running.node # broker[i].node \/ broker[i].default = <<>>
                \/ /\ running'.at = "invoking" /\ running.node = broker[i].node /\ broker[i].default # <<>>
                   /\ running'.message = Head(broker[i].default)
                   /\ Holds(broker'[i], broker[i].node, Tail(broker[i].default), broker[i].custom)
             /\ UNCHANGED <<kind, subscriptions, lifetime, tasks, work, handling, sent, received>>
<1> DEFINE i == running.id
<1>1. /\ running.at = "popping"
      /\ UNCHANGED <<kind, subscriptions, lifetime, tasks, work, handling, sent, received>>
  BY DEF Broker!Pop
<1>2. running # Broker!Idle /\ running \in BrokerRun /\ i \in Ids
  BY <1>1, BrokerNames, BrokerQueues
<1>3. broker[i] \in BrokerEntry /\ broker \in [Ids -> BrokerEntry] /\ late \in [Ids -> SUBSET Nat]
      /\ broker[i].default \in Seq(Nat)
  BY <1>2, BrokerAt DEF BrokerTypes
<1>4. CASE Broker!Dangling
  <2>1. PICK at \in {"crashed", "invoking"} : running' = [running EXCEPT !.at = at]
    BY <1>4 DEF Broker!Pop
  <2>2. late' = [late EXCEPT ![i] = @ \cup Broker!Range(broker[i].default)] /\ UNCHANGED broker
    BY <1>4 DEF Broker!Pop
  <2>3. /\ running' \in BrokerRun /\ running' # Broker!Idle /\ running'.at = at
        /\ running'.message = running.message /\ running'.id = i
        /\ running'.node = running.node /\ running'.subscription = running.subscription
    <3>1. GoesOn([running EXCEPT !.at = at], at, running.message, running.replay)
      BY <1>2, RunGoesOn
    <3> QED BY <2>1, <3>1 DEF GoesOn
  <2>4. late' \in [Ids -> SUBSET Nat] /\ late[i] \subseteq late'[i] /\ \A j \in Ids : j # i => late'[j] = late[j]
    <3>1. Broker!Range(broker[i].default) \subseteq Nat
      BY <1>3, ElementOfSeq, LenProperties DEF Broker!Range
    <3> QED BY <1>2, <1>3, <2>2, <3>1
  <2>5. BrokerTypes'
    BY <1>1, <2>2, <2>3, <2>4 DEF BrokerTypes
  <2> QED BY <1>1, <1>2, <1>4, <2>2, <2>3, <2>4, <2>5 DEF Broker!Dangling
<1>5. CASE ~Broker!Dangling /\ broker[i].default = <<>>
  <2>1. running' = [running EXCEPT !.at = "invoking"] /\ UNCHANGED <<broker, late>>
    BY <1>5 DEF Broker!Pop
  <2>2. /\ running' \in BrokerRun /\ running' # Broker!Idle /\ running'.at = "invoking"
        /\ running'.message = running.message /\ running'.id = i
        /\ running'.node = running.node /\ running'.subscription = running.subscription
    <3>1. GoesOn([running EXCEPT !.at = "invoking"], "invoking", running.message, running.replay)
      BY <1>2, RunGoesOn
    <3> QED BY <2>1, <3>1 DEF GoesOn
  <2>3. BrokerTypes'
    BY <1>1, <2>1, <2>2 DEF BrokerTypes
  <2> QED BY <1>1, <1>2, <1>5, <2>1, <2>2, <2>3
<1>6. CASE ~Broker!Dangling /\ broker[i].default # <<>>
  <2>1. /\ running' = [running EXCEPT !.at = "invoking", !.message = Head(broker[i].default)]
        /\ broker' = [broker EXCEPT ![i].default = Tail(@)] /\ UNCHANGED late
    BY <1>6 DEF Broker!Pop
  <2>2. Head(broker[i].default) \in Nat /\ Tail(broker[i].default) \in Seq(Nat)
    BY <1>3, <1>6, QueueShrinks
  <2>3. /\ running' \in BrokerRun /\ running' # Broker!Idle /\ running'.at = "invoking"
        /\ running'.message = Head(broker[i].default) /\ running'.id = i
        /\ running'.node = running.node /\ running'.subscription = running.subscription
    <3> DEFINE m == Head(broker[i].default)
    <3>1. GoesOn([running EXCEPT !.at = "invoking", !.message = m], "invoking", m, running.replay)
      BY <1>2, <2>2, RunGoesOn
    <3> QED BY <2>1, <3>1 DEF GoesOn
  <2>4. /\ Holds(broker'[i], broker[i].node, Tail(broker[i].default), broker[i].custom)
        /\ broker' \in [Ids -> BrokerEntry] /\ \A j \in Ids : j # i => broker'[j] = broker[j]
    <3>1. PICK r : r = [broker[i] EXCEPT !.default = Tail(broker[i].default)]
      OBVIOUS
    <3>2. broker' = [broker EXCEPT ![i] = r]
      BY <2>1, <3>1
    <3> QED BY <1>2, <1>3, <2>2, <3>1, <3>2 DEF Holds, BrokerEntry
  <2>5. BrokerTypes'
    BY <1>1, <2>1, <2>3, <2>4 DEF BrokerTypes
  <2> QED BY <1>1, <1>2, <1>6, <2>1, <2>3, <2>4, <2>5 DEF Broker!Dangling
<1> QED BY <1>4, <1>5, <1>6

\* ... hands it over, ...
LEMMA InvokePoppedDoes ==
  ASSUME BrokerTypes, Broker!InvokePopped
  PROVE  LET i == running.id
         IN  /\ BrokerTypes' /\ running.at = "invoking" /\ running # Broker!Idle /\ running' # Broker!Idle
             /\ running'.at = "checking" /\ running'.id = i /\ running'.node = running.node
             /\ running'.subscription = running.subscription
             /\ \A j \in Ids : j # i => received'[j] = received[j]
             /\ \/ UNCHANGED <<work, received>>
                \/ /\ running.message # 0 /\ running.subscription
                   /\ \/ kind[i] = "single" /\ work' = Append(work, <<i, running.message>>) /\ UNCHANGED received
                      \/ /\ kind[i] # "single" /\ received'[i] = Append(received[i], running.message)
                         /\ UNCHANGED work
             /\ UNCHANGED <<kind, subscriptions, lifetime, broker, tasks, handling, sent, late>>
<1> DEFINE i == running.id
           m == running.message
<1>1. /\ running.at = "invoking" /\ running' = [running EXCEPT !.at = "checking"]
      /\ UNCHANGED <<kind, subscriptions, lifetime, broker, handling, sent, late>>
      /\ IF m = 0 \/ ~running.subscription THEN UNCHANGED <<tasks, work, received>>
         ELSE IF kind[i] = "default" THEN Broker!Execute(i, m) /\ UNCHANGED <<tasks, work>>
         ELSE Broker!Invoke(i, m)
  BY DEF Broker!InvokePopped, Broker!history
<1>2. running # Broker!Idle
  BY <1>1, BrokerNames
<1>3. i \in Ids /\ m \in Nat
  BY <1>2, BrokerQueues
<1>4. /\ running' \in BrokerRun /\ running' # Broker!Idle /\ running'.at = "checking"
      /\ running'.id = i /\ running'.node = running.node /\ running'.subscription = running.subscription
  <2>1. GoesOn([running EXCEPT !.at = "checking"], "checking", m, running.replay)
    BY <1>2, RunGoesOn
  <2> QED BY <1>1, <2>1 DEF GoesOn
<1>5. /\ received' \in [Ids -> Seq(Nat)] /\ work' \in Seq(Ids \X Nat)
      /\ UNCHANGED tasks /\ \A j \in Ids : j # i => received'[j] = received[j]
      /\ \/ UNCHANGED <<work, received>>
         \/ /\ m # 0 /\ running.subscription
            /\ \/ kind[i] = "single" /\ work' = Append(work, <<i, m>>) /\ UNCHANGED received
               \/ kind[i] # "single" /\ received'[i] = Append(received[i], m) /\ UNCHANGED work
  <2>1. CASE m = 0 \/ ~running.subscription
    BY <1>1, <2>1 DEF BrokerTypes
  <2>2. CASE m # 0 /\ running.subscription /\ kind[i] = "default"
    <3>1. Broker!Execute(i, m) /\ UNCHANGED <<tasks, work>>
      BY <1>1, <2>2
    <3> QED BY <1>3, <2>2, <3>1, ExecuteTypes DEF BrokerTypes
  <2>3. CASE m # 0 /\ running.subscription /\ kind[i] # "default"
    <3>1. Broker!Invoke(i, m)
      BY <1>1, <2>3
    <3> QED BY <1>3, <2>3, <3>1, InvokeDoes
  <2> QED BY <2>1, <2>2, <2>3
<1>6. BrokerTypes'
  BY <1>1, <1>4, <1>5 DEF BrokerTypes
<1> QED BY <1>1, <1>2, <1>4, <1>5, <1>6

\* ... looks whether more is parked, ...
LEMMA CheckEmptyDoes ==
  ASSUME BrokerTypes, Broker!CheckEmpty
  PROVE  /\ BrokerTypes' /\ running.at = "checking" /\ running # Broker!Idle
         /\ \/ running' = Broker!Idle
            \/ /\ running' # Broker!Idle /\ running'.at = "moving" /\ running'.id = running.id
               /\ running'.node = running.node /\ running'.subscription = running.subscription
         /\ UNCHANGED <<kind, subscriptions, lifetime, broker, tasks, work, handling, sent, received, late>>
<1>1. /\ running.at = "checking"
      /\ running' = Broker!Idle \/ running' = [running EXCEPT !.at = "moving"]
      /\ UNCHANGED <<kind, subscriptions, lifetime, broker, tasks, work, handling, sent, received, late>>
  BY DEF Broker!CheckEmpty, Broker!history
<1>2. running # Broker!Idle
  BY <1>1, BrokerNames
<1>3. GoesOn([running EXCEPT !.at = "moving"], "moving", running.message, running.replay)
  BY <1>2, RunGoesOn
<1> QED BY <1>1, <1>2, <1>3 DEF GoesOn, BrokerTypes

\* ... takes what was put aside, ...
LEMMA MoveDoes ==
  ASSUME BrokerTypes, Broker!Move
  PROVE  LET i == running.id
         IN  /\ BrokerTypes' /\ running.at = "moving" /\ running # Broker!Idle /\ running' # Broker!Idle
             /\ running'.at = "erasing" /\ running'.id = i /\ running'.node = running.node
             /\ running'.subscription = running.subscription /\ running'.replay = broker[i].custom
             /\ Holds(broker'[i], broker[i].node, <<>>, <<>>)
             /\ \A j \in Ids : j # i => broker'[j] = broker[j]
             /\ UNCHANGED <<kind, subscriptions, lifetime, tasks, work, handling, sent, received, late>>
<1> DEFINE i == running.id
<1>1. /\ running.at = "moving"
      /\ running' = [running EXCEPT !.at = "erasing", !.replay = broker[i].custom]
      /\ broker' = [broker EXCEPT ![i].default = <<>>, ![i].custom = <<>>]
      /\ UNCHANGED <<kind, subscriptions, lifetime, tasks, work, handling, sent, received, late>>
  BY DEF Broker!Move, Broker!history
<1>2. running # Broker!Idle
  BY <1>1, BrokerNames
<1>3. i \in Ids
  BY <1>2, BrokerQueues
<1>4. broker[i] \in BrokerEntry /\ broker[i].custom \in Seq(Nat) /\ broker \in [Ids -> BrokerEntry]
  BY <1>3, BrokerAt DEF BrokerTypes
<1>5. /\ running' \in BrokerRun /\ running' # Broker!Idle /\ running'.at = "erasing"
      /\ running'.id = i /\ running'.node = running.node /\ running'.subscription = running.subscription
      /\ running'.replay = broker[i].custom
  <2> DEFINE q == broker[i].custom
  <2>1. GoesOn([running EXCEPT !.at = "erasing", !.replay = q], "erasing", running.message, q)
    BY <1>2, <1>4, RunGoesOn
  <2> QED BY <1>1, <2>1 DEF GoesOn
<1>6. /\ Holds(broker'[i], broker[i].node, <<>>, <<>>)
      /\ broker' \in [Ids -> BrokerEntry] /\ \A j \in Ids : j # i => broker'[j] = broker[j]
  <2>1. PICK r : r = [broker[i] EXCEPT !.default = <<>>, !.custom = <<>>]
    OBVIOUS
  <2>2. broker' = [broker EXCEPT ![i] = r]
    BY <1>1, <2>1
  <2>3. <<>> \in Seq(Nat)
    OBVIOUS
  <2> QED BY <1>3, <1>4, <2>1, <2>2, <2>3 DEF Holds, BrokerEntry
<1>7. BrokerTypes'
  BY <1>1, <1>5, <1>6 DEF BrokerTypes
<1> QED BY <1>1, <1>2, <1>5, <1>6, <1>7

\* ... erases the entry, ...
LEMMA EraseDoes ==
  ASSUME BrokerTypes, Broker!Erase
  PROVE  LET i == running.id
         IN  /\ BrokerTypes' /\ running.at = "erasing" /\ running # Broker!Idle /\ running' # Broker!Idle
             /\ running'.at = "replaying" /\ running'.id = i /\ running'.node = running.node
             /\ running'.subscription = running.subscription /\ running'.replay = running.replay
             /\ Holds(broker'[i], 0, <<>>, <<>>)
             /\ \A j \in Ids : j # i => broker'[j] = broker[j]
             /\ UNCHANGED <<kind, subscriptions, lifetime, tasks, work, handling, sent, received, late>>
<1> DEFINE i == running.id
<1>1. /\ running.at = "erasing" /\ running' = [running EXCEPT !.at = "replaying"]
      /\ broker' = [broker EXCEPT ![i] = Broker!NoMq]
      /\ UNCHANGED <<kind, subscriptions, lifetime, tasks, work, handling, sent, received, late>>
  BY DEF Broker!Erase, Broker!history
<1>2. running # Broker!Idle
  BY <1>1, BrokerNames
<1>3. i \in Ids
  BY <1>2, BrokerQueues
<1>4. /\ running' \in BrokerRun /\ running' # Broker!Idle /\ running'.at = "replaying"
      /\ running'.id = i /\ running'.node = running.node /\ running'.subscription = running.subscription
      /\ running'.replay = running.replay
  <2>1. GoesOn([running EXCEPT !.at = "replaying"], "replaying", running.message, running.replay)
    BY <1>2, RunGoesOn
  <2> QED BY <1>1, <2>1 DEF GoesOn
<1>5. /\ Holds(broker'[i], 0, <<>>, <<>>)
      /\ broker' \in [Ids -> BrokerEntry] /\ \A j \in Ids : j # i => broker'[j] = broker[j]
  <2>1. Broker!NoMq \in BrokerEntry /\ Holds(Broker!NoMq, 0, <<>>, <<>>)
    <3>1. <<>> \in Seq(Nat)
      OBVIOUS
    <3> QED BY <3>1 DEF Broker!NoMq, BrokerEntry, Holds
  <2> QED BY <1>1, <1>3, <2>1 DEF BrokerTypes
<1>6. BrokerTypes'
  BY <1>1, <1>4, <1>5 DEF BrokerTypes
<1> QED BY <1>1, <1>2, <1>4, <1>5, <1>6

\* ... and hands over what it took.
LEMMA ReplayDoes ==
  ASSUME BrokerTypes, Broker!Replay
  PROVE  LET i == running.id
         IN  /\ BrokerTypes' /\ running.at = "replaying" /\ running # Broker!Idle
             /\ \A j \in Ids : j # i => received'[j] = received[j]
             /\ \/ running' = Broker!Idle /\ UNCHANGED <<tasks, work, received>>
                \/ /\ running' # Broker!Idle /\ running'.at = "crashed" /\ running'.id = i
                   /\ running'.node = running.node /\ running'.subscription = running.subscription
                   /\ UNCHANGED <<tasks, work, received>>
                \/ /\ running' # Broker!Idle /\ running'.at = "replaying" /\ running'.id = i
                   /\ running'.node = running.node /\ running'.subscription = running.subscription
                   /\ running.replay # <<>> /\ running.subscription
                   /\ Broker!Invoke(i, Head(running.replay)) /\ running'.replay = Tail(running.replay)
             /\ UNCHANGED <<kind, subscriptions, lifetime, broker, handling, sent, late>>
<1> DEFINE i == running.id
<1>1. /\ running.at = "replaying"
      /\ UNCHANGED <<kind, subscriptions, lifetime, broker, handling, sent, late>>
  BY DEF Broker!Replay, Broker!history
<1>2. running # Broker!Idle
  BY <1>1, BrokerNames
<1>3. i \in Ids /\ running.replay \in Seq(Nat)
  BY <1>2, BrokerQueues
<1>4. CASE running.replay = <<>>
  <2>1. running' = Broker!Idle /\ UNCHANGED <<tasks, work, received>>
    BY <1>4 DEF Broker!Replay
  <2> QED BY <1>1, <1>2, <2>1 DEF BrokerTypes
<1>5. CASE running.replay # <<>> /\ running.subscription
  <2> DEFINE q == Tail(running.replay)
  <2>1. Broker!Invoke(i, Head(running.replay)) /\ running' = [running EXCEPT !.replay = Tail(@)]
    BY <1>5 DEF Broker!Replay
  <2>2. Head(running.replay) \in Nat /\ q \in Seq(Nat)
    BY <1>3, <1>5, QueueShrinks
  <2>3. running' = [running EXCEPT !.at = "replaying", !.replay = q]
    <3>1. running \in BrokerRun
      BY <1>2, BrokerQueues
    <3> QED BY <1>1, <2>1, <3>1 DEF BrokerRun
  <2>4. GoesOn([running EXCEPT !.at = "replaying", !.replay = q], "replaying", running.message, q)
    BY <1>2, <2>2, RunGoesOn
  <2>5. /\ tasks' \in Seq(BrokerTask) /\ work' \in Seq(Ids \X Nat) /\ received' \in [Ids -> Seq(Nat)]
        /\ \A j \in Ids : j # i => received'[j] = received[j]
    BY <1>3, <2>1, <2>2, InvokeDoes
  <2>6. BrokerTypes'
    BY <1>1, <2>3, <2>4, <2>5 DEF BrokerTypes, GoesOn
  <2> QED BY <1>1, <1>2, <1>5, <2>1, <2>3, <2>4, <2>5, <2>6 DEF GoesOn
<1>6. CASE running.replay # <<>> /\ ~running.subscription
  <2>1. running' = [running EXCEPT !.at = "crashed"] /\ UNCHANGED <<tasks, work, received>>
    BY <1>6 DEF Broker!Replay
  <2>2. GoesOn([running EXCEPT !.at = "crashed"], "crashed", running.message, running.replay)
    BY <1>2, RunGoesOn
  <2>3. BrokerTypes'
    BY <1>1, <2>1, <2>2 DEF BrokerTypes, GoesOn
  <2> QED BY <1>1, <1>2, <2>1, <2>2, <2>3 DEF GoesOn
<1> QED BY <1>4, <1>5, <1>6

\* The other scheduler's thread looks for the entity, ...
LEMMA TakeWorkDoes ==
  ASSUME BrokerTypes, Broker!TakeWork
  PROVE  /\ BrokerTypes' /\ handling = Broker!Nothing /\ work # <<>> /\ work' = Tail(work)
         /\ handling' = work[1] \/ handling' = Broker!Nothing
         /\ Len(work) \in Nat /\ 1 \in 1 .. Len(work) /\ Len(work') = Len(work) - 1
         /\ \A n \in 1 .. Len(work') : n + 1 \in 1 .. Len(work) /\ work'[n] = work[n + 1]
         /\ UNCHANGED <<kind, subscriptions, lifetime, broker, tasks, running, sent, received, late>>
<1>1. /\ handling = Broker!Nothing /\ work # <<>> /\ work' = Tail(work)
      /\ handling' = Head(work) \/ handling' = Broker!Nothing
      /\ UNCHANGED <<kind, subscriptions, lifetime, broker, tasks, running, sent, received, late>>
  BY DEF Broker!TakeWork, Broker!history
<1>2. work \in Seq(Ids \X Nat)
  BY DEF BrokerTypes
<1>3. /\ work' \in Seq(Ids \X Nat) /\ Len(work) \in Nat /\ Len(work) > 0
      /\ Len(work') = Len(work) - 1 /\ Head(work) = work[1] /\ work[1] \in Ids \X Nat
      /\ \A n \in 1 .. Len(work) - 1 : work'[n] = work[n + 1]
  BY <1>1, <1>2, QueueShrinks
<1>4. BrokerTypes'
  BY <1>1, <1>3 DEF BrokerTypes
<1> QED BY <1>1, <1>3, <1>4

\* ... and calls its handler.
LEMMA HandleDoes ==
  ASSUME BrokerTypes, Broker!Handle
  PROVE  /\ BrokerTypes' /\ handling # Broker!Nothing /\ handling' = Broker!Nothing
         /\ received'[handling[1]] = Append(received[handling[1]], handling[2])
         /\ \A j \in Ids : j # handling[1] => received'[j] = received[j]
         /\ UNCHANGED <<kind, subscriptions, lifetime, broker, tasks, running, work, sent, late>>
<1>1. /\ handling # Broker!Nothing /\ handling' = Broker!Nothing
      /\ Broker!Execute(handling[1], handling[2])
      /\ UNCHANGED <<kind, subscriptions, lifetime, broker, tasks, running, work, sent, late>>
  BY DEF Broker!Handle, Broker!history
<1>2. handling[1] \in Ids /\ handling[2] \in Nat
  BY <1>1, BrokerQueues
<1>3. /\ received' \in [Ids -> Seq(Nat)]
      /\ received'[handling[1]] = Append(received[handling[1]], handling[2])
      /\ \A j \in Ids : j # handling[1] => received'[j] = received[j]
  BY <1>1, <1>2, ExecuteTypes
<1>4. BrokerTypes'
  BY <1>1, <1>3 DEF BrokerTypes
<1> QED BY <1>1, <1>3, <1>4

----------------------------------------------------------------------------
\* What a step leaves of one entity: in the hands of its scheduler, ...
SameHands(i) ==
  /\ kind'[i] = kind[i] /\ late[i] \subseteq late'[i] /\ sent[i] <= sent'[i]
  /\ received'[i] = received[i]
  /\ Handles(i)' => Handles(i) /\ handling'[2] = handling[2]
  /\ \E d \in {0, 1} : \A n \in 1 .. Len(work') :
       InWork(i, n)' => n + d \in 1 .. Len(work) /\ work'[n] = work[n + d]

\* ... in the queue of the default scheduler, ...
SameTasks(i) ==
  \E d \in {0, 1} :
    /\ \A n \in 1 .. Len(tasks') :
         tasks'[n].id = i => n + d \in 1 .. Len(tasks) /\ tasks'[n] = tasks[n + d]
    /\ \A n \in 1 .. Len(tasks) :
         tasks[n].id = i => n - d \in 1 .. Len(tasks') /\ tasks'[n - d] = tasks[n]

\* ... of what that scheduler is doing, and of the rest.
SameRun(i) ==
  \/ running' = running
  \/ /\ running # Broker!Idle => running.id # i
     /\ running' # Broker!Idle => running'.id # i
SameEntity(i) ==
  /\ kind'[i] = kind[i] /\ lifetime'[i] = lifetime[i]
  /\ (subscriptions'[i] = "entity") = (subscriptions[i] = "entity")
  /\ broker'[i] = broker[i] /\ sent'[i] = sent[i]

\* What was ahead still is.
StaysAhead(i) == \A y \in Nat : AllAhead(i, y) => AllAhead(i, y)'
PassesAhead(i, x) ==
  /\ \A y \in Nat : AllAhead(i, y) /\ Ahead(i, x, y)' => AllAhead(i, y)'
  /\ \A y \in Nat : AllAhead(i, y) /\ x < y => AllAhead(i, y)'

\* What may be ahead of another message may still be.
LEMMA AheadStays ==
  ASSUME NEW i \in Ids, kind'[i] = kind[i], late[i] \subseteq late'[i]
  PROVE  \A x, y : Ahead(i, x, y) => Ahead(i, x, y)'
BY DEF Ahead

\* Nothing more is handed over.
LEMMA HandStays ==
  ASSUME BrokerTypes, BrokerTypes', NEW i \in Ids, SameHands(i), Handed(i)
  PROVE  Handed(i)' /\ StaysAhead(i)
<1>1. \A x, y : Ahead(i, x, y) => Ahead(i, x, y)'
  BY AheadStays DEF SameHands
<1>2. \A x : OneOf(i, x) => OneOf(i, x)'
  BY BrokerAt, BrokerNames DEF OneOf, SameHands, BrokerTypes
<1>3. PICK d \in {0, 1} : \A n \in 1 .. Len(work') :
        InWork(i, n)' => n + d \in 1 .. Len(work) /\ work'[n] = work[n + d] /\ InWork(i, n + d)
  BY DEF SameHands, InWork
<1>4. Len(work') \in Nat /\ Len(work) \in Nat
  BY LenProperties DEF BrokerTypes
<1>5. /\ kind'[i] = kind[i] /\ received'[i] = received[i]
      /\ Handles(i)' => Handles(i) /\ handling'[2] = handling[2]
  BY DEF SameHands
<1>6. StaysAhead(i)
  <2> SUFFICES ASSUME NEW y \in Nat, AllAhead(i, y)
               PROVE  AllAhead(i, y)'
    BY DEF StaysAhead
  <2> QED BY <1>1, <1>3, <1>5 DEF AllAhead
<1>7. Handed(i)'
  <2>1. (kind[i] # "single" => ~Handles(i) /\ \A n \in 1 .. Len(work) : ~InWork(i, n))'
    BY <1>3, <1>5 DEF Handed
  <2>2. (/\ \A j \in 1 .. Len(received[i]) : OneOf(i, received[i][j])
         /\ Handles(i) => OneOf(i, handling[2])
         /\ \A n \in 1 .. Len(work) : InWork(i, n) => OneOf(i, work[n][2]))'
    BY <1>2, <1>3, <1>5 DEF Handed
  <2>3. (/\ \A j, k \in 1 .. Len(received[i]) : j < k => Ahead(i, received[i][j], received[i][k])
         /\ Handles(i) => \A j \in 1 .. Len(received[i]) : Ahead(i, received[i][j], handling[2]))'
    BY <1>1, <1>5 DEF Handed
  <2>4. ASSUME NEW n \in 1 .. Len(work'), InWork(i, n)'
        PROVE  /\ \A j \in 1 .. Len(received'[i]) : Ahead(i, received[i][j], work[n][2])'
               /\ Handles(i)' => Ahead(i, handling[2], work[n][2])'
               /\ \A m \in 1 .. n - 1 : InWork(i, m)' => Ahead(i, work[m][2], work[n][2])'
    <3>1. n + d \in 1 .. Len(work) /\ work'[n] = work[n + d] /\ InWork(i, n + d)
      BY <1>3, <2>4
    <3>2. /\ \A j \in 1 .. Len(received'[i]) : Ahead(i, received[i][j], work[n][2])'
          /\ Handles(i)' => Ahead(i, handling[2], work[n][2])'
      BY <1>1, <1>5, <3>1 DEF Handed
    <3>3. ASSUME NEW m \in 1 .. n - 1, InWork(i, m)'
          PROVE  Ahead(i, work[m][2], work[n][2])'
      <4>1. m \in 1 .. Len(work')
        BY <1>4
      <4>2. m + d \in 1 .. (n + d) - 1 /\ work'[m] = work[m + d] /\ InWork(i, m + d)
        BY <1>3, <3>3, <4>1
      <4>3. Ahead(i, work[m + d][2], work[n + d][2])
        BY <3>1, <4>2 DEF Handed
      <4> QED BY <1>1, <3>1, <4>2, <4>3
    <3> QED BY <3>2, <3>3
  <2> QED BY <2>1, <2>2, <2>3, <2>4 DEF Handed
<1> QED BY <1>6, <1>7

\* A handler is called with x, on a scheduler that is no other thread's.
LEMMA HandsExecute ==
  ASSUME BrokerTypes, BrokerTypes', NEW i \in Ids, NEW x \in Nat,
         Handed(i), AllAhead(i, x), kind[i] # "single", OneOf(i, x)',
         kind'[i] = kind[i], late[i] \subseteq late'[i], sent[i] <= sent'[i],
         received'[i] = Append(received[i], x), UNCHANGED <<work, handling>>
  PROVE  Handed(i)' /\ PassesAhead(i, x)
<1>1. \A u, v : Ahead(i, u, v) => Ahead(i, u, v)'
  BY AheadStays
<1>2. \A u : OneOf(i, u) => OneOf(i, u)'
  BY BrokerAt, BrokerNames DEF OneOf, BrokerTypes
<1>3. /\ Len(received[i]) \in Nat /\ Len(received'[i]) = Len(received[i]) + 1
      /\ received'[i][Len(received[i]) + 1] = x
      /\ \A j \in 1 .. Len(received[i]) : received'[i][j] = received[i][j]
  <2>1. received[i] \in Seq(Nat)
    BY BrokerAt
  <2> QED BY <2>1, QueueGrows
<1>4. ~Handles(i) /\ ~Handles(i)' /\ \A n \in 1 .. Len(work) : ~InWork(i, n) /\ ~InWork(i, n)'
  BY DEF Handed, Handles, InWork
<1>5. \A j \in 1 .. Len(received[i]) : Ahead(i, received[i][j], x)
  BY DEF AllAhead
<1>6. \A j \in 1 .. Len(received'[i]) : j \in 1 .. Len(received[i]) \/ j = Len(received[i]) + 1
  BY <1>3
<1>7. ASSUME NEW y \in Nat, AllAhead(i, y), Ahead(i, x, y)'
      PROVE  AllAhead(i, y)'
  <2>1. \A j \in 1 .. Len(received[i]) : Ahead(i, received[i][j], y)'
    BY <1>1, <1>7, <1>3 DEF AllAhead
  <2> QED BY <1>3, <1>4, <1>6, <1>7, <2>1 DEF AllAhead
<1>8. Handed(i)'
  <2>1. \A j \in 1 .. Len(received'[i]) : OneOf(i, received[i][j])'
    BY <1>2, <1>3, <1>6 DEF Handed
  <2>2. \A j, k \in 1 .. Len(received'[i]) : j < k => Ahead(i, received[i][j], received[i][k])'
    <3> SUFFICES ASSUME NEW j \in 1 .. Len(received'[i]), NEW k \in 1 .. Len(received'[i]), j < k
                 PROVE  Ahead(i, received[i][j], received[i][k])'
      OBVIOUS
    <3>1. j \in 1 .. Len(received[i])
      BY <1>3
    <3>2. CASE k = Len(received[i]) + 1
      BY <1>1, <1>3, <1>5, <3>1, <3>2
    <3>3. CASE k \in 1 .. Len(received[i])
      BY <1>1, <1>3, <3>1, <3>3 DEF Handed
    <3> QED BY <1>6, <3>2, <3>3
  <2> QED BY <1>4, <2>1, <2>2 DEF Handed
<1> QED BY <1>7, <1>8 DEF PassesAhead, Ahead

\* x is queued on the other scheduler.
LEMMA HandsQueue ==
  ASSUME BrokerTypes, BrokerTypes', NEW i \in Ids, NEW x \in Nat,
         Handed(i), AllAhead(i, x), kind[i] = "single", OneOf(i, x)',
         kind'[i] = kind[i], late[i] \subseteq late'[i], sent[i] <= sent'[i],
         work' = Append(work, <<i, x>>), UNCHANGED <<received, handling>>
  PROVE  Handed(i)' /\ PassesAhead(i, x)
<1>1. \A u, v : Ahead(i, u, v) => Ahead(i, u, v)'
  BY AheadStays
<1>2. \A u : OneOf(i, u) => OneOf(i, u)'
  BY BrokerAt, BrokerNames DEF OneOf, BrokerTypes
<1>3. /\ Len(work) \in Nat /\ Len(work') = Len(work) + 1 /\ work'[Len(work) + 1] = <<i, x>>
      /\ \A n \in 1 .. Len(work) : work'[n] = work[n]
      /\ \A n \in 1 .. Len(work) : InWork(i, n)' = InWork(i, n)
      /\ \A n \in 1 .. Len(work') : n \in 1 .. Len(work) \/ n = Len(work) + 1
  <2>1. work \in Seq(Ids \X Nat) /\ <<i, x>> \in Ids \X Nat
    BY DEF BrokerTypes
  <2>2. /\ Len(work) \in Nat /\ Len(work') = Len(work) + 1 /\ work'[Len(work) + 1] = <<i, x>>
        /\ \A n \in 1 .. Len(work) : work'[n] = work[n]
    BY <2>1, QueueGrows
  <2> QED BY <2>2 DEF InWork
<1>4. Handles(i)' = Handles(i) /\ handling' = handling /\ received' = received
  BY DEF Handles
<1>5. <<i, x>>[2] = x /\ <<i, x>>[1] = i
  OBVIOUS
<1>6. ASSUME NEW y \in Nat, AllAhead(i, y), Ahead(i, x, y)'
      PROVE  AllAhead(i, y)'
  <2>1. /\ \A j \in 1 .. Len(received'[i]) : Ahead(i, received[i][j], y)'
        /\ Handles(i)' => Ahead(i, handling[2], y)'
    BY <1>1, <1>4, <1>6 DEF AllAhead
  <2>2. \A n \in 1 .. Len(work) : InWork(i, n)' => Ahead(i, work[n][2], y)'
    BY <1>1, <1>3, <1>6 DEF AllAhead
  <2>3. \A n \in 1 .. Len(work') : InWork(i, n)' => Ahead(i, work[n][2], y)'
    <3> SUFFICES ASSUME NEW n \in 1 .. Len(work'), InWork(i, n)'
                 PROVE  Ahead(i, work[n][2], y)'
      OBVIOUS
    <3>1. CASE n = Len(work) + 1
      <4>1. work'[n][2] = x
        BY <1>3, <1>5, <3>1
      <4> QED BY <1>6, <4>1
    <3> QED BY <1>3, <2>2, <3>1
  <2> QED BY <2>1, <2>3 DEF AllAhead
<1>7. Handed(i)'
  <2>1. (/\ kind[i] # "single" => ~Handles(i) /\ \A n \in 1 .. Len(work) : ~InWork(i, n)
         /\ \A j \in 1 .. Len(received[i]) : OneOf(i, received[i][j])
         /\ Handles(i) => OneOf(i, handling[2])
         /\ \A j, k \in 1 .. Len(received[i]) : j < k => Ahead(i, received[i][j], received[i][k])
         /\ Handles(i) => \A j \in 1 .. Len(received[i]) : Ahead(i, received[i][j], handling[2]))'
    BY <1>1, <1>2, <1>4 DEF Handed
  <2>2. ASSUME NEW n \in 1 .. Len(work'), InWork(i, n)'
        PROVE  /\ OneOf(i, work[n][2])'
               /\ \A j \in 1 .. Len(received'[i]) : Ahead(i, received[i][j], work[n][2])'
               /\ Handles(i)' => Ahead(i, handling[2], work[n][2])'
               /\ \A m \in 1 .. n - 1 : InWork(i, m)' => Ahead(i, work[m][2], work[n][2])'
    <3>1. CASE n \in 1 .. Len(work)
      <4>1. InWork(i, n) /\ work'[n] = work[n]
        BY <1>3, <2>2, <3>1
      <4>2. \A m \in 1 .. n - 1 : m \in 1 .. Len(work)
        BY <1>3, <3>1
      <4>3. \A m \in 1 .. n - 1 : InWork(i, m)' => Ahead(i, work[m][2], work[n][2])'
        BY <1>1, <1>3, <3>1, <4>1, <4>2 DEF Handed
      <4> QED BY <1>1, <1>2, <1>4, <3>1, <4>1, <4>3 DEF Handed
    <3>2. CASE n = Len(work) + 1
      <4>1. work'[n][2] = x
        BY <1>3, <1>5, <3>2
      <4>2. \A m \in 1 .. n - 1 : m \in 1 .. Len(work)
        BY <1>3, <3>2
      <4>3. \A m \in 1 .. n - 1 : InWork(i, m)' => Ahead(i, work[m][2], x)'
        BY <1>1, <1>3, <4>2 DEF AllAhead
      <4> QED BY <1>1, <1>4, <4>1, <4>3 DEF AllAhead
    <3> QED BY <1>3, <3>1, <3>2
  <2> QED BY <2>1, <2>2 DEF Handed
<1> QED BY <1>6, <1>7 DEF PassesAhead, Ahead

\* The other thread takes what is queued for it, ...
LEMMA HandsTake ==
  ASSUME BrokerTypes, BrokerTypes', NEW i \in Ids, Handed(i), Broker!TakeWork
  PROVE  Handed(i)' /\ StaysAhead(i)
<1>1. /\ handling = Broker!Nothing /\ ~Handles(i)
      /\ handling' = work[1] \/ handling' = Broker!Nothing
      /\ Len(work) \in Nat /\ 1 \in 1 .. Len(work) /\ Len(work') = Len(work) - 1
      /\ \A n \in 1 .. Len(work') :
           n + 1 \in 1 .. Len(work) /\ work'[n] = work[n + 1] /\ InWork(i, n)' = InWork(i, n + 1)
      /\ UNCHANGED <<kind, sent, received, late>>
      /\ Handles(i)' => InWork(i, 1) /\ handling' = work[1]
  BY TakeWorkDoes DEF Handles, InWork
<1>2. /\ \A u, v : Ahead(i, u, v)' = Ahead(i, u, v)
      /\ \A u : OneOf(i, u)' = OneOf(i, u)
  BY <1>1 DEF Ahead, OneOf
<1>3. ASSUME NEW y \in Nat, AllAhead(i, y)
      PROVE  AllAhead(i, y)'
  BY <1>1, <1>2, <1>3 DEF AllAhead
<1>4. Handed(i)'
  <2>1. (kind[i] # "single" => ~Handles(i) /\ \A n \in 1 .. Len(work) : ~InWork(i, n))'
    BY <1>1 DEF Handed
  <2>2. (/\ \A j \in 1 .. Len(received[i]) : OneOf(i, received[i][j])
         /\ Handles(i) => OneOf(i, handling[2])
         /\ \A n \in 1 .. Len(work) : InWork(i, n) => OneOf(i, work[n][2])
         /\ \A j, k \in 1 .. Len(received[i]) : j < k => Ahead(i, received[i][j], received[i][k])
         /\ Handles(i) => \A j \in 1 .. Len(received[i]) : Ahead(i, received[i][j], handling[2]))'
    BY <1>1, <1>2 DEF Handed
  <2>3. ASSUME NEW n \in 1 .. Len(work'), InWork(i, n)'
        PROVE  /\ \A j \in 1 .. Len(received'[i]) : Ahead(i, received[i][j], work[n][2])'
               /\ Handles(i)' => Ahead(i, handling[2], work[n][2])'
               /\ \A m \in 1 .. n - 1 : InWork(i, m)' => Ahead(i, work[m][2], work[n][2])'
    <3>1. n + 1 \in 1 .. Len(work) /\ work'[n] = work[n + 1] /\ InWork(i, n + 1)
      BY <1>1, <2>3
    <3>2. \A j \in 1 .. Len(received'[i]) : Ahead(i, received[i][j], work[n][2])'
      BY <1>1, <1>2, <3>1 DEF Handed
    <3>3. Handles(i)' => Ahead(i, handling[2], work[n][2])'
      <4>1. 1 \in 1 .. (n + 1) - 1
        BY <3>1
      <4> QED BY <1>1, <1>2, <3>1, <4>1 DEF Handed
    <3>4. ASSUME NEW m \in 1 .. n - 1, InWork(i, m)'
          PROVE  Ahead(i, work[m][2], work[n][2])'
      <4>1. m \in 1 .. Len(work') /\ m + 1 \in 1 .. (n + 1) - 1
        BY <1>1
      <4>2. work'[m] = work[m + 1] /\ InWork(i, m + 1)
        BY <1>1, <3>4, <4>1
      <4> QED BY <1>2, <3>1, <4>1, <4>2 DEF Handed
    <3> QED BY <3>2, <3>3, <3>4
  <2> QED BY <2>1, <2>2, <2>3 DEF Handed
<1> QED BY <1>3, <1>4 DEF StaysAhead

\* ... and calls the handler with it.
LEMMA HandsHandle ==
  ASSUME BrokerTypes, BrokerTypes', NEW i \in Ids, Handed(i), Broker!Handle, handling[1] = i
  PROVE  Handed(i)' /\ StaysAhead(i)
<1> DEFINE x == handling[2]
<1>1. /\ Handles(i) /\ ~Handles(i)' /\ received'[i] = Append(received[i], x) /\ x \in Nat
      /\ UNCHANGED <<kind, work, sent, late>>
  BY HandleDoes, BrokerQueues DEF Handles
<1>2. /\ \A u, v : Ahead(i, u, v)' = Ahead(i, u, v)
      /\ \A u : OneOf(i, u)' = OneOf(i, u)
      /\ \A n : InWork(i, n)' = InWork(i, n)
  BY <1>1 DEF Ahead, OneOf, InWork
<1>3. /\ Len(received[i]) \in Nat /\ Len(received'[i]) = Len(received[i]) + 1
      /\ received'[i][Len(received[i]) + 1] = x
      /\ \A j \in 1 .. Len(received[i]) : received'[i][j] = received[i][j]
      /\ \A j \in 1 .. Len(received'[i]) : j \in 1 .. Len(received[i]) \/ j = Len(received[i]) + 1
  <2>1. received[i] \in Seq(Nat)
    BY BrokerAt
  <2>2. /\ Len(received[i]) \in Nat /\ Len(received'[i]) = Len(received[i]) + 1
        /\ received'[i][Len(received[i]) + 1] = x
        /\ \A j \in 1 .. Len(received[i]) : received'[i][j] = received[i][j]
    BY <1>1, <2>1, QueueGrows
  <2> QED BY <2>2
<1>4. ASSUME NEW y \in Nat, AllAhead(i, y)
      PROVE  AllAhead(i, y)'
  <2>1. \A j \in 1 .. Len(received'[i]) : Ahead(i, received[i][j], y)'
    BY <1>1, <1>2, <1>3, <1>4 DEF AllAhead
  <2> QED BY <1>1, <1>2, <1>4, <2>1 DEF AllAhead
<1>5. Handed(i)'
  <2>1. (/\ kind[i] # "single" => ~Handles(i) /\ \A n \in 1 .. Len(work) : ~InWork(i, n)
         /\ \A j \in 1 .. Len(received[i]) : OneOf(i, received[i][j])
         /\ \A n \in 1 .. Len(work) : InWork(i, n) => OneOf(i, work[n][2]))'
    BY <1>1, <1>2, <1>3 DEF Handed
  <2>2. \A j, k \in 1 .. Len(received'[i]) : j < k => Ahead(i, received[i][j], received[i][k])'
    <3> SUFFICES ASSUME NEW j \in 1 .. Len(received'[i]), NEW k \in 1 .. Len(received'[i]), j < k
                 PROVE  Ahead(i, received[i][j], received[i][k])'
      OBVIOUS
    <3>1. j \in 1 .. Len(received[i])
      BY <1>3
    <3>2. CASE k = Len(received[i]) + 1
      BY <1>1, <1>2, <1>3, <3>1, <3>2 DEF Handed
    <3>3. CASE k \in 1 .. Len(received[i])
      BY <1>2, <1>3, <3>1, <3>3 DEF Handed
    <3> QED BY <1>3, <3>2, <3>3
  <2>3. ASSUME NEW n \in 1 .. Len(work'), InWork(i, n)'
        PROVE  /\ \A j \in 1 .. Len(received'[i]) : Ahead(i, received[i][j], work[n][2])'
               /\ \A m \in 1 .. n - 1 : InWork(i, m)' => Ahead(i, work[m][2], work[n][2])'
    BY <1>1, <1>2, <1>3, <2>3 DEF Handed
  <2> QED BY <1>1, <2>1, <2>2, <2>3 DEF Handed
<1> QED BY <1>4, <1>5 DEF StaysAhead

----------------------------------------------------------------------------
\* What runs is as it was, as far as one entity goes.
LEMMA RunStays ==
  ASSUME BrokerTypes, BrokerTypes', NEW i \in Ids, SameRun(i), broker'[i] = broker[i]
  PROVE  /\ Pops(i)' = Pops(i) /\ InHand(i)' = InHand(i) /\ Replays(i)' = Replays(i)
         /\ (InHand(i) \/ Replays(i)) => running' = running
         /\ (running' # Broker!Idle /\ running'.id = i) => running' = running
         /\ running.id = i /\ running # Broker!Idle => running' = running
         /\ \A at \in {"popping", "erasing", "replaying"} :
              (running'.at = at /\ running'.id = i) = (running.at = at /\ running.id = i)
<1>1. \A at \in {"popping", "invoking", "erasing", "replaying"} : Broker!Idle.at # at
  BY BrokerNames
<1>2. CASE running' = running
  BY <1>2 DEF Pops, InHand, Replays
<1>3. CASE /\ running # Broker!Idle => running.id # i
           /\ running' # Broker!Idle => running'.id # i
  BY <1>1, <1>3 DEF Pops, InHand, Replays
<1> QED BY <1>2, <1>3 DEF SameRun

\* So are the actions of the default scheduler.
LEMMA TasksStay ==
  ASSUME NEW i \in Ids, SameTasks(i), broker'[i] = broker[i], sent[i] <= sent'[i],
         BrokerTypes, BrokerTypes'
  PROVE  /\ Orderly(i) => Orderly(i)'
         /\ Wanted(i) => Wanted(i)'
         /\ NotInvoked(i) => NotInvoked(i)'
         /\ TasksSent(i) => TasksSent(i)'
         /\ \A k : Fetched(i, k) => Fetched(i, k)'
         /\ \A y : InvokedAfter(i, y) => InvokedAfter(i, y)'
         /\ \A y : QueuedAfter(i, y) => QueuedAfter(i, y)'
<1>1. PICK d \in {0, 1} :
        /\ \A n \in 1 .. Len(tasks') :
             tasks'[n].id = i => n + d \in 1 .. Len(tasks) /\ tasks'[n] = tasks[n + d]
        /\ \A n \in 1 .. Len(tasks) :
             tasks[n].id = i => n - d \in 1 .. Len(tasks') /\ tasks'[n - d] = tasks[n]
  BY DEF SameTasks
<1>2. \A n \in 1 .. Len(tasks') : Invokes(i, n)' \/ Parks(i, n)' =>
        /\ n + d \in 1 .. Len(tasks) /\ tasks'[n] = tasks[n + d]
        /\ Invokes(i, n)' = Invokes(i, n + d) /\ Parks(i, n)' = Parks(i, n + d)
  BY <1>1 DEF Invokes, Parks
<1>3. \A n \in 1 .. Len(tasks) : Parks(i, n) =>
        n - d \in 1 .. Len(tasks') /\ tasks'[n - d] = tasks[n] /\ Parks(i, n - d)'
  BY <1>1 DEF Parks
<1>4. Orderly(i) => Orderly(i)'
  <2> SUFFICES ASSUME Orderly(i), NEW m \in 1 .. Len(tasks'), NEW n \in 1 .. Len(tasks'), m < n,
                      (Invokes(i, m) \/ Parks(i, m))', (Invokes(i, n) \/ Parks(i, n))'
               PROVE  tasks'[m].message < tasks'[n].message
    BY DEF Orderly
  <2>1. m + d < n + d
    OBVIOUS
  <2> QED BY <1>2, <2>1 DEF Orderly
<1>5. Wanted(i) => Wanted(i)'
  BY <1>2 DEF Wanted
<1>6. \A k : Fetched(i, k) => Fetched(i, k)'
  BY <1>3 DEF Fetched
<1>7. /\ NotInvoked(i) => NotInvoked(i)'
      /\ \A y : InvokedAfter(i, y) => InvokedAfter(i, y)'
      /\ \A y : QueuedAfter(i, y) => QueuedAfter(i, y)'
  BY <1>2 DEF NotInvoked, InvokedAfter, QueuedAfter
<1>8. TasksSent(i) => TasksSent(i)'
  <2>1. \A x : OneOf(i, x) => OneOf(i, x)'
    BY BrokerAt, BrokerNames DEF OneOf, BrokerTypes
  <2> QED BY <1>1, <2>1 DEF TasksSent
<1> QED BY <1>4, <1>5, <1>6, <1>7, <1>8

\* An entity that the step is not about, or only what its scheduler has in hand.
LEMMA RestStays ==
  ASSUME BrokerTypes, BrokerTypes', NEW i \in Ids, BrokerOf(i),
         SameEntity(i), SameRun(i), SameTasks(i), Handed(i)', StaysAhead(i),
         received'[i] = received[i] \/ kind[i] # "default"
  PROVE  BrokerOf(i)'
<1>1. /\ kind'[i] = kind[i] /\ lifetime'[i] = lifetime[i]
      /\ (subscriptions'[i] = "entity") = (subscriptions[i] = "entity")
      /\ broker'[i] = broker[i] /\ sent'[i] = sent[i] /\ sent[i] <= sent'[i]
  BY BrokerAt DEF SameEntity
<1>2. \A x : OneOf(i, x)' = OneOf(i, x)
  BY <1>1 DEF OneOf
<1>3. /\ Pops(i)' = Pops(i) /\ InHand(i)' = InHand(i) /\ Replays(i)' = Replays(i)
      /\ (InHand(i) \/ Replays(i)) => running' = running
      /\ (running' # Broker!Idle /\ running'.id = i) => running' = running
      /\ \A at \in {"popping", "erasing", "replaying"} :
           (running'.at = at /\ running'.id = i) = (running.at = at /\ running.id = i)
  BY <1>1, RunStays
<1>4. /\ Orderly(i) => Orderly(i)'
      /\ Wanted(i) => Wanted(i)'
      /\ NotInvoked(i) => NotInvoked(i)'
      /\ TasksSent(i) => TasksSent(i)'
      /\ \A k : Fetched(i, k) => Fetched(i, k)'
      /\ \A y : InvokedAfter(i, y) => InvokedAfter(i, y)'
      /\ \A y : QueuedAfter(i, y) => QueuedAfter(i, y)'
  BY <1>1, TasksStay
<1>5. Sent(i)'
  BY <1>1, <1>2, <1>3, <1>4 DEF BrokerOf, Sent
<1>6. Kinds(i)'
  <2>1. running'.at = "popping" => running' # Broker!Idle
    BY BrokerNames
  <2> QED BY <1>1, <1>3, <1>4, <2>1 DEF BrokerOf, Kinds
<1>7. InvokesAhead(i)'
  <2>1. CASE received'[i] = received[i]
    BY <1>4, <2>1 DEF BrokerOf, InvokesAhead
  <2>2. CASE kind[i] # "default"
    BY <1>4, <2>2 DEF BrokerOf, InvokesAhead, Kinds, NotInvoked, InvokedAfter
  <2> QED BY <2>1, <2>2
<1>8. Queued(i)'
  BY <1>1, <1>3, <1>4 DEF BrokerOf, Queued
<1>9. Held(i)'
  <2> SUFFICES ASSUME lifetime[i] # "over"
               PROVE  Held(i)'
    BY <1>1 DEF Held
  <2>1. /\ \A k \in 1 .. Len(broker[i].default) : broker[i].default[k] \in Nat
        /\ \A c \in 1 .. Len(broker[i].custom) : broker[i].custom[c] \in Nat
        /\ InHand(i) \/ Replays(i) => running.message \in Nat
        /\ Replays(i) => \A k \in 1 .. Len(running.replay) : running.replay[k] \in Nat
    <3>1. InHand(i) \/ Replays(i) => running # Broker!Idle
      BY BrokerNames DEF InHand, Replays
    <3> QED BY <3>1, BrokerAt, BrokerQueues
  <2>2. /\ \A k \in 1 .. Len(broker[i].default) : AllAhead(i, broker[i].default[k])
        /\ Rises(broker[i].custom)
        /\ \A c \in 1 .. Len(broker[i].custom) :
             /\ AllAhead(i, broker[i].custom[c])
             /\ \A k \in 1 .. Len(broker[i].default) : broker[i].default[k] < broker[i].custom[c]
    BY DEF BrokerOf, Held
  <2>3. (/\ \A k \in 1 .. Len(broker[i].default) : AllAhead(i, broker[i].default[k])
         /\ Rises(broker[i].custom)
         /\ \A c \in 1 .. Len(broker[i].custom) :
              /\ AllAhead(i, broker[i].custom[c])
              /\ \A k \in 1 .. Len(broker[i].default) : broker[i].default[k] < broker[i].custom[c])'
    BY <1>1, <2>1, <2>2 DEF StaysAhead
  <2>4. (InHand(i) =>
           /\ AllAhead(i, running.message)
           /\ \A k \in 1 .. Len(broker[i].default) : running.message < broker[i].default[k]
           /\ \A c \in 1 .. Len(broker[i].custom) : running.message < broker[i].custom[c]
           /\ InvokedAfter(i, running.message))'
    BY <1>1, <1>3, <1>4, <2>1 DEF BrokerOf, Held, StaysAhead
  <2>5. (Replays(i) =>
           /\ Rises(running.replay)
           /\ \A k \in 1 .. Len(running.replay) : AllAhead(i, running.replay[k]))'
    BY <1>1, <1>3, <2>1 DEF BrokerOf, Held, StaysAhead
  <2> QED BY <2>3, <2>4, <2>5 DEF Held
<1> QED BY <1>5, <1>6, <1>7, <1>8, <1>9 DEF BrokerOf

----------------------------------------------------------------------------
\* An entity that the step is not about.
LEMMA BrokerApart ==
  ASSUME BrokerTypes, BrokerTypes', NEW i \in Ids, BrokerOf(i),
         SameEntity(i), SameRun(i), SameTasks(i), SameHands(i)
  PROVE  BrokerOf(i)'
<1>1. Handed(i)' /\ StaysAhead(i)
  BY HandStays DEF BrokerOf
<1> QED BY <1>1, RestStays DEF SameHands

\* A task of another entity comes or goes.
LEMMA NotQueued ==
  ASSUME BrokerTypes, NEW i \in Ids
  PROVE  /\ UNCHANGED tasks => SameTasks(i)
         /\ \A t \in BrokerTask : tasks' = Append(tasks, t) /\ t.id # i => SameTasks(i)
         /\ tasks # <<>> /\ tasks' = Tail(tasks) /\ tasks[1].id # i => SameTasks(i)
<1>1. tasks \in Seq(BrokerTask) /\ Len(tasks) \in Nat
  BY BrokerQueues DEF BrokerTypes
<1>2. UNCHANGED tasks => SameTasks(i)
  <2> HAVE UNCHANGED tasks
  <2>1. /\ \A n \in 1 .. Len(tasks') :
             tasks'[n].id = i => n + 0 \in 1 .. Len(tasks) /\ tasks'[n] = tasks[n + 0]
        /\ \A n \in 1 .. Len(tasks) :
             tasks[n].id = i => n - 0 \in 1 .. Len(tasks') /\ tasks'[n - 0] = tasks[n]
    BY <1>1
  <2> QED BY <2>1 DEF SameTasks
<1>3. ASSUME NEW t \in BrokerTask, tasks' = Append(tasks, t), t.id # i
      PROVE  SameTasks(i)
  <2>1. /\ Len(tasks') = Len(tasks) + 1 /\ tasks'[Len(tasks) + 1] = t
        /\ \A n \in 1 .. Len(tasks) : tasks'[n] = tasks[n]
        /\ \A n \in 1 .. Len(tasks') : n \in 1 .. Len(tasks) \/ n = Len(tasks) + 1
    BY <1>1, <1>3, QueueGrows
  <2>2. /\ \A n \in 1 .. Len(tasks') :
             tasks'[n].id = i => n + 0 \in 1 .. Len(tasks) /\ tasks'[n] = tasks[n + 0]
        /\ \A n \in 1 .. Len(tasks) :
             tasks[n].id = i => n - 0 \in 1 .. Len(tasks') /\ tasks'[n - 0] = tasks[n]
    BY <1>1, <1>3, <2>1
  <2> QED BY <2>2 DEF SameTasks
<1>4. ASSUME tasks # <<>>, tasks' = Tail(tasks), tasks[1].id # i
      PROVE  SameTasks(i)
  <2>1. /\ \A n \in 1 .. Len(tasks') :
             tasks'[n].id = i => n + 1 \in 1 .. Len(tasks) /\ tasks'[n] = tasks[n + 1]
        /\ \A n \in 1 .. Len(tasks) :
             tasks[n].id = i => n - 1 \in 1 .. Len(tasks') /\ tasks'[n - 1] = tasks[n]
    BY <1>1, <1>4, TaskTaken
  <2> QED BY <2>1 DEF SameTasks
<1> QED BY <1>2, <1>3, <1>4

\* A message of another entity is handed over.
LEMMA NotHandled ==
  ASSUME BrokerTypes, NEW i \in Ids,
         kind'[i] = kind[i], late[i] \subseteq late'[i], sent[i] <= sent'[i],
         received'[i] = received[i], UNCHANGED handling
  PROVE  /\ UNCHANGED work => SameHands(i)
         /\ \A j \in Ids, m \in Nat : work' = Append(work, <<j, m>>) /\ j # i => SameHands(i)
<1>1. work \in Seq(Ids \X Nat) /\ Len(work) \in Nat
  BY BrokerQueues DEF BrokerTypes
<1>2. Handles(i)' => Handles(i) /\ handling'[2] = handling[2]
  BY DEF Handles
<1>3. UNCHANGED work => SameHands(i)
  <2> HAVE UNCHANGED work
  <2>1. \A n \in 1 .. Len(work') : InWork(i, n)' => n + 0 \in 1 .. Len(work) /\ work'[n] = work[n + 0]
    BY <1>1
  <2> QED BY <1>2, <2>1 DEF SameHands
<1>4. ASSUME NEW j \in Ids, NEW m \in Nat, work' = Append(work, <<j, m>>), j # i
      PROVE  SameHands(i)
  <2>1. \A n \in 1 .. Len(work') : InWork(i, n)' => n + 0 \in 1 .. Len(work) /\ work'[n] = work[n + 0]
    <3>1. <<j, m>> \in Ids \X Nat
      BY <1>4
    <3>2. /\ \A n \in 1 .. Len(work') : n \in 1 .. Len(work) \/ n = Len(work) + 1
          /\ \A n \in 1 .. Len(work) : work'[n] = work[n]
          /\ work'[Len(work) + 1] = <<j, m>>
      BY <1>1, <1>4, <3>1, QueueGrows
    <3> QED BY <1>1, <1>4, <3>2 DEF InWork
  <2> QED BY <1>2, <2>1 DEF SameHands
<1> QED BY <1>3, <1>4

\* invoke, for another entity.
LEMMA NotInvokedFor ==
  ASSUME BrokerTypes, NEW i \in Ids, NEW j \in Ids, i # j, NEW m \in Nat, Broker!Invoke(j, m),
         kind'[i] = kind[i], late[i] \subseteq late'[i], sent[i] <= sent'[i], UNCHANGED handling
  PROVE  SameTasks(i) /\ SameHands(i)
<1>1. /\ received'[i] = received[i]
      /\ \/ /\ tasks' = Append(tasks, [does |-> "invoke", id |-> j, message |-> m])
            /\ UNCHANGED work
         \/ /\ work' = Append(work, <<j, m>>)
            /\ UNCHANGED tasks
         \/ UNCHANGED <<tasks, work>>
  BY InvokeDoes
<1>2. [does |-> "invoke", id |-> j, message |-> m] \in BrokerTask
  BY DEF BrokerTask
<1>3. [does |-> "invoke", id |-> j, message |-> m].id # i
  OBVIOUS
<1>4. SameTasks(i)
  BY <1>1, <1>2, <1>3, NotQueued
<1>5. SameHands(i)
  BY <1>1, NotHandled
<1> QED BY <1>4, <1>5

----------------------------------------------------------------------------
\* The entity subscribes: it is to get what is parked, and nothing has been put aside.
LEMMA AdviseOnKeeps ==
  ASSUME BrokerInv, NEW i \in Ids, Broker!AdviseOn(i)
  PROVE  BrokerInv'
<1>1. /\ BrokerTypes /\ BrokerTypes' /\ running = Broker!Idle /\ lifetime[i] = "none"
      /\ lifetime'[i] = "alive" /\ subscriptions'[i] = "entity"
      /\ \A j \in Ids : j # i => lifetime'[j] = lifetime[j] /\ subscriptions'[j] = subscriptions[j]
      /\ UNCHANGED <<kind, broker, tasks, running, work, handling, sent, received, late>>
  BY AdviseOnDoes DEF BrokerInv
<1>2. ASSUME NEW j \in Ids
      PROVE  BrokerOf(j) /\ SameRun(j) /\ SameTasks(j) /\ SameHands(j)
  <2>1. sent[j] <= sent'[j]
    BY <1>1, BrokerAt
  <2> QED BY <1>1, <2>1, NotQueued, NotHandled DEF BrokerInv, SameRun
<1>3. ASSUME NEW j \in Ids, j # i
      PROVE  BrokerOf(j)'
  BY <1>1, <1>2, <1>3, BrokerApart DEF SameEntity
<1>4. BrokerOf(i)'
  <2>1. Handed(i)' /\ StaysAhead(i)
    BY <1>1, <1>2, HandStays DEF BrokerOf
  <2>2. /\ running.at # "popping" /\ running.at # "invoking" /\ ~Replays(i)
    BY <1>1, BrokerNames DEF Replays
  <2>3. Sent(i)' /\ InvokesAhead(i)' /\ Queued(i)'
    BY <1>1, <1>2 DEF BrokerOf, Sent, TasksSent, OneOf, InvokesAhead, InvokedAfter, Queued, Orderly, Wanted, Fetched,
                      QueuedAfter, InHand, Pops, Replays, Invokes, Parks
  <2>4. Kinds(i)'
    BY <1>1, <1>2, <2>2 DEF BrokerOf, Kinds, NotInvoked, Invokes, Replays, InHand
  <2>5. Held(i)'
    BY <1>1, <1>2, <2>2 DEF BrokerOf, Held, AllAhead, Ahead, InvokedAfter, Invokes, Replays, InHand, Handles, InWork
  <2> QED BY <2>1, <2>3, <2>4, <2>5 DEF BrokerOf
<1> QED BY <1>1, <1>3, <1>4 DEF BrokerInv

\* The subscription ends: what is kept back is no longer promised anything.
LEMMA TerminateKeeps ==
  ASSUME BrokerInv, NEW i \in Ids, Broker!Terminate(i)
  PROVE  BrokerInv'
<1>1. /\ BrokerTypes /\ BrokerTypes' /\ running = Broker!Idle /\ lifetime[i] = "alive"
      /\ lifetime'[i] = "over" /\ subscriptions'[i] = "absent"
      /\ \A j \in Ids : j # i => lifetime'[j] = lifetime[j] /\ subscriptions'[j] = subscriptions[j]
      /\ UNCHANGED <<kind, broker, tasks, running, work, handling, sent, received, late>>
  BY TerminateDoes DEF BrokerInv
<1>2. ASSUME NEW j \in Ids
      PROVE  BrokerOf(j) /\ SameRun(j) /\ SameTasks(j) /\ SameHands(j)
  <2>1. sent[j] <= sent'[j]
    BY <1>1, BrokerAt
  <2> QED BY <1>1, <2>1, NotQueued, NotHandled DEF BrokerInv, SameRun
<1>3. ASSUME NEW j \in Ids, j # i
      PROVE  BrokerOf(j)'
  BY <1>1, <1>2, <1>3, BrokerApart DEF SameEntity
<1>4. BrokerOf(i)'
  <2>1. Handed(i)' /\ StaysAhead(i)
    BY <1>1, <1>2, HandStays DEF BrokerOf
  <2>2. /\ running.at # "popping" /\ running.at # "invoking" /\ ~Replays(i)
    BY <1>1, BrokerNames DEF Replays
  <2>3. Sent(i)' /\ InvokesAhead(i)' /\ Queued(i)'
    BY <1>1, <1>2 DEF BrokerOf, Sent, TasksSent, OneOf, InvokesAhead, InvokedAfter, Queued, Orderly, Wanted, Fetched,
                      QueuedAfter, InHand, Pops, Replays, Invokes, Parks
  <2>4. Kinds(i)'
    BY <1>1, <1>2, <2>2 DEF BrokerOf, Kinds, NotInvoked, Invokes, Replays, InHand
  <2>5. Held(i)'
    BY <1>1 DEF Held
  <2> QED BY <2>1, <2>3, <2>4, <2>5 DEF BrokerOf
<1> QED BY <1>1, <1>3, <1>4 DEF BrokerInv

\* The queue of the default scheduler is left alone, and so is what tells the entity's entry.
LEMMA TasksSame ==
  ASSUME NEW i \in Ids, UNCHANGED <<tasks, sent>>
  PROVE  /\ \A n : Invokes(i, n)' = Invokes(i, n)
         /\ \A x : OneOf(i, x)' = OneOf(i, x)
         /\ TasksSent(i)' = TasksSent(i) /\ NotInvoked(i)' = NotInvoked(i)
         /\ \A y : InvokedAfter(i, y)' = InvokedAfter(i, y)
         /\ broker'[i].node = broker[i].node =>
              /\ \A n : Parks(i, n)' = Parks(i, n)
              /\ Orderly(i)' = Orderly(i)
              /\ \A y : QueuedAfter(i, y)' = QueuedAfter(i, y)
<1>1. \A n : Invokes(i, n)' = Invokes(i, n)
  BY DEF Invokes
<1>2. \A x : OneOf(i, x)' = OneOf(i, x)
  BY DEF OneOf
<1>3. broker'[i].node = broker[i].node => \A n : Parks(i, n)' = Parks(i, n)
  BY DEF Parks
<1>4. TasksSent(i)' = TasksSent(i) /\ NotInvoked(i)' = NotInvoked(i)
  BY <1>1, <1>2 DEF TasksSent, NotInvoked
<1>5. \A y : InvokedAfter(i, y)' = InvokedAfter(i, y)
  BY <1>1 DEF InvokedAfter
<1>6. broker'[i].node = broker[i].node =>
        Orderly(i)' = Orderly(i) /\ \A y : QueuedAfter(i, y)' = QueuedAfter(i, y)
  BY <1>1, <1>3 DEF Orderly, QueuedAfter
<1> QED BY <1>1, <1>2, <1>3, <1>4, <1>5, <1>6

\* A step of the default scheduler's thread on the entity i leaves the others alone.
LEMMA OthersApart ==
  ASSUME BrokerInv, BrokerTypes', NEW i \in Ids,
         running # Broker!Idle => running.id = i,
         running' # Broker!Idle => running'.id = i,
         \A j \in Ids : j # i => /\ broker'[j] = broker[j] /\ late'[j] = late[j]
                                 /\ received'[j] = received[j],
         \A j \in Ids : (subscriptions'[j] = "entity") = (subscriptions[j] = "entity"),
         UNCHANGED <<kind, lifetime, handling, sent>>
  PROVE  \A j \in Ids : j # i /\ SameTasks(j)
           /\ (UNCHANGED work \/ \E m \in Nat : work' = Append(work, <<i, m>>)) => BrokerOf(j)'
<1> SUFFICES ASSUME NEW j \in Ids, j # i, SameTasks(j),
                    UNCHANGED work \/ \E m \in Nat : work' = Append(work, <<i, m>>)
             PROVE  BrokerOf(j)'
  OBVIOUS
<1>1. SameRun(j) /\ SameEntity(j)
  BY DEF SameRun, SameEntity
<1>2. sent[j] <= sent'[j]
  BY BrokerAt DEF BrokerInv
<1>3. SameHands(j)
  BY <1>2, NotHandled DEF BrokerInv
<1> QED BY <1>1, <1>3, BrokerApart DEF BrokerInv

\* More is parked, and another action will come for it, or nothing is.
LEMMA CheckEmptyKeeps ==
  ASSUME BrokerInv, Broker!CheckEmpty
  PROVE  BrokerInv'
<1>1. /\ BrokerTypes /\ BrokerTypes' /\ running.at = "checking" /\ running # Broker!Idle
      /\ \/ running' = Broker!Idle
         \/ /\ running' # Broker!Idle /\ running'.at = "moving" /\ running'.id = running.id
            /\ running'.node = running.node /\ running'.subscription = running.subscription
      /\ UNCHANGED <<kind, subscriptions, lifetime, broker, tasks, work, handling, sent, received, late>>
  BY CheckEmptyDoes DEF BrokerInv
<1>2. PICK i \in Ids : i = running.id /\ BrokerOf(i)
  BY <1>1, BrokerQueues DEF BrokerInv
<1>3. \A j \in Ids : j # i => BrokerOf(j)'
  BY <1>1, <1>2, OthersApart, NotQueued
<1>4. BrokerOf(i)'
  <2>1. /\ ~Pops(i)' /\ ~InHand(i)' /\ ~Replays(i)' /\ ~Pops(i)
        /\ running'.at \notin {"popping", "erasing", "replaying"}
    BY <1>1, BrokerNames DEF Pops, InHand, Replays
  <2>2. /\ \A y : InvokedAfter(i, y)' = InvokedAfter(i, y)
        /\ \A n : Parks(i, n)' = Parks(i, n)
        /\ \A y : QueuedAfter(i, y)' = QueuedAfter(i, y)
        /\ \A x : OneOf(i, x)' = OneOf(i, x)
        /\ TasksSent(i)' = TasksSent(i) /\ NotInvoked(i)' = NotInvoked(i) /\ Orderly(i)' = Orderly(i)
    BY <1>1, <1>2, TasksSame
  <2>3. Handed(i)' /\ StaysAhead(i)
    BY <1>1, <1>2, NotHandled, HandStays, BrokerAt DEF BrokerOf
  <2>4. Sent(i)' /\ InvokesAhead(i)'
    BY <1>1, <1>2, <2>1, <2>2 DEF BrokerOf, Sent, InvokesAhead
  <2>5. Kinds(i)'
    BY <1>1, <1>2, <2>1, <2>2 DEF BrokerOf, Kinds
  <2>6. Queued(i)'
    BY <1>1, <1>2, <2>1, <2>2 DEF BrokerOf, Queued, Wanted, Fetched
  <2>7. Held(i)'
    BY <1>1, <1>2, <2>1, <2>2, <2>3, BrokerAt DEF BrokerOf, Held, StaysAhead
  <2> QED BY <2>3, <2>4, <2>5, <2>6, <2>7 DEF BrokerOf
<1> QED BY <1>1, <1>3, <1>4 DEF BrokerInv

\* What was put aside is taken out of the entry to be replayed.
LEMMA MoveKeeps ==
  ASSUME BrokerInv, Broker!Move
  PROVE  BrokerInv'
<1> DEFINE i == running.id
<1>1. /\ BrokerTypes /\ BrokerTypes' /\ running.at = "moving" /\ running # Broker!Idle /\ running' # Broker!Idle
      /\ running'.at = "erasing" /\ running'.id = i /\ running'.node = running.node
      /\ running'.subscription = running.subscription /\ running'.replay = broker[i].custom
      /\ broker'[i].node = broker[i].node /\ broker'[i].default = <<>> /\ broker'[i].custom = <<>>
      /\ \A j \in Ids : j # i => broker'[j] = broker[j]
      /\ UNCHANGED <<kind, subscriptions, lifetime, tasks, work, handling, sent, received, late>>
  BY MoveDoes DEF BrokerInv, Holds
<1>2. i \in Ids /\ BrokerOf(i)
  BY <1>1, BrokerQueues DEF BrokerInv
<1>3. \A j \in Ids : j # i => BrokerOf(j)'
  BY <1>1, <1>2, OthersApart, NotQueued
<1>4. BrokerOf(i)'
  <2>1. ~Pops(i)' /\ ~InHand(i)' /\ Replays(i)'
    BY <1>1, BrokerNames DEF Pops, InHand, Replays
  <2>2. /\ \A y : InvokedAfter(i, y)' = InvokedAfter(i, y)
        /\ \A x : OneOf(i, x)' = OneOf(i, x)
        /\ TasksSent(i)' = TasksSent(i) /\ NotInvoked(i)' = NotInvoked(i) /\ Orderly(i)' = Orderly(i)
    BY <1>1, <1>2, TasksSame
  <2>3. Handed(i)' /\ StaysAhead(i)
    BY <1>1, <1>2, NotHandled, HandStays, BrokerAt DEF BrokerOf
  <2>4. Sent(i)' /\ InvokesAhead(i)'
    BY <1>1, <1>2, <2>1, <2>2 DEF BrokerOf, Sent, InvokesAhead
  <2>5. Kinds(i)'
    BY <1>1, <1>2, <2>1, <2>2 DEF BrokerOf, Kinds
  <2>6. Queued(i)'
    BY <1>1, <1>2, <2>1, <2>2 DEF BrokerOf, Queued, Rises
  <2>7. Held(i)'
    BY <1>1, <1>2, <2>1, <2>3, BrokerAt DEF BrokerOf, Held, Rises, StaysAhead
  <2> QED BY <2>3, <2>4, <2>5, <2>6, <2>7 DEF BrokerOf
<1> QED BY <1>1, <1>3, <1>4 DEF BrokerInv

\* The entry is erased: what is still queued for it finds it gone, or a newer one.
LEMMA EraseKeeps ==
  ASSUME BrokerInv, Broker!Erase
  PROVE  BrokerInv'
<1> DEFINE i == running.id
<1>1. /\ BrokerTypes /\ BrokerTypes' /\ running.at = "erasing" /\ running # Broker!Idle /\ running' # Broker!Idle
      /\ running'.at = "replaying" /\ running'.id = i /\ running'.node = running.node
      /\ running'.subscription = running.subscription /\ running'.replay = running.replay
      /\ broker'[i].node = 0 /\ broker'[i].default = <<>> /\ broker'[i].custom = <<>>
      /\ \A j \in Ids : j # i => broker'[j] = broker[j]
      /\ UNCHANGED <<kind, subscriptions, lifetime, tasks, work, handling, sent, received, late>>
  BY EraseDoes DEF BrokerInv, Holds
<1>2. i \in Ids /\ BrokerOf(i)
  BY <1>1, BrokerQueues DEF BrokerInv
<1>3. \A j \in Ids : j # i => BrokerOf(j)'
  BY <1>1, <1>2, OthersApart, NotQueued
<1>4. BrokerOf(i)'
  <2>1. ~Pops(i)' /\ ~InHand(i)' /\ Replays(i)' /\ Replays(i)
    BY <1>1, BrokerNames DEF Pops, InHand, Replays
  <2>2. /\ \A n : Invokes(i, n)' = Invokes(i, n)
        /\ \A y : InvokedAfter(i, y)' = InvokedAfter(i, y)
        /\ \A x : OneOf(i, x)' = OneOf(i, x)
        /\ TasksSent(i)' = TasksSent(i) /\ NotInvoked(i)' = NotInvoked(i)
    BY <1>1, <1>2, TasksSame
  <2>3. Handed(i)' /\ StaysAhead(i)
    BY <1>1, <1>2, NotHandled, HandStays, BrokerAt DEF BrokerOf
  <2>4. Sent(i)' /\ InvokesAhead(i)'
    BY <1>1, <1>2, <2>1, <2>2, BrokerAt DEF BrokerOf, Sent, InvokesAhead
  <2>5. Kinds(i)'
    BY <1>1, <1>2, <2>1, <2>2 DEF BrokerOf, Kinds
  <2>6. \A n \in 1 .. Len(tasks) : ~Parks(i, n)'
    BY <1>1, <1>2 DEF BrokerOf, Sent, TasksSent, OneOf, Parks
  <2>7. Queued(i)'
    <3>1. Orderly(i)'
      BY <1>1, <1>2, <2>2, <2>6 DEF BrokerOf, Queued, Orderly
    <3>2. Wanted(i)'
      BY <1>1, <2>6 DEF Wanted
    <3> QED BY <1>1, <2>1, <3>1, <3>2 DEF Queued, Rises
  <2>8. Held(i)'
    <3>1. \A k \in 1 .. Len(running.replay) : running.replay[k] \in Nat
      BY <1>1, BrokerQueues
    <3> QED BY <1>1, <1>2, <2>1, <2>3, <3>1 DEF BrokerOf, Held, Rises, StaysAhead
  <2> QED BY <2>3, <2>4, <2>5, <2>7, <2>8 DEF BrokerOf
<1> QED BY <1>1, <1>3, <1>4 DEF BrokerInv

\* A message is popped: it was the first, and all that is kept back is behind it.
LEMMA PopKeeps ==
  ASSUME BrokerInv, Broker!Pop
  PROVE  BrokerInv'
<1>1. /\ BrokerTypes /\ BrokerTypes' /\ running.at = "popping" /\ running # Broker!Idle /\ running' # Broker!Idle
      /\ running'.id = running.id /\ running'.node = running.node
      /\ running'.subscription = running.subscription
      /\ running'.at \in {"invoking", "crashed"}
      /\ UNCHANGED <<kind, subscriptions, lifetime, tasks, work, handling, sent, received>>
  BY PopDoes DEF BrokerInv
<1>2. PICK i \in Ids : i = running.id /\ BrokerOf(i)
  BY <1>1, BrokerQueues DEF BrokerInv
<1>3. /\ \A j \in Ids : j # i => broker'[j] = broker[j] /\ late'[j] = late[j]
      /\ late[i] \subseteq late'[i]
      /\ \/ /\ broker'[i] = broker[i] /\ running'.message = running.message
            /\ running.node # broker[i].node \/ broker[i].default = <<>>
         \/ /\ running'.at = "invoking" /\ running.node = broker[i].node /\ broker[i].default # <<>>
            /\ running'.message = Head(broker[i].default)
            /\ broker'[i].node = broker[i].node /\ broker'[i].default = Tail(broker[i].default)
            /\ broker'[i].custom = broker[i].custom
  BY <1>2, PopDoes DEF BrokerInv, Holds
<1>4. \A j \in Ids : j # i => BrokerOf(j)'
  BY <1>1, <1>2, <1>3, OthersApart, NotQueued
<1>5. /\ ~Pops(i)' /\ ~Replays(i)' /\ ~Replays(i) /\ ~InHand(i) /\ broker'[i].node = broker[i].node
      /\ running.message = 0
  BY <1>1, <1>2, <1>3 DEF Pops, Replays, InHand, BrokerOf, Kinds
<1>6. /\ \A y : InvokedAfter(i, y)' = InvokedAfter(i, y)
      /\ \A n : Invokes(i, n)' = Invokes(i, n)
      /\ \A n : Parks(i, n)' = Parks(i, n)
      /\ \A x : OneOf(i, x)' = OneOf(i, x)
      /\ TasksSent(i)' = TasksSent(i) /\ NotInvoked(i)' = NotInvoked(i) /\ Orderly(i)' = Orderly(i)
  BY <1>1, <1>2, <1>5, TasksSame
<1>7. Handed(i)' /\ StaysAhead(i)
  <2>1. SameHands(i)
    BY <1>1, <1>2, <1>3, NotHandled, BrokerAt DEF BrokerOf
  <2> QED BY <1>1, <1>2, <2>1, HandStays DEF BrokerOf
<1>8. InvokesAhead(i)'
  BY <1>1, <1>2, <1>6 DEF BrokerOf, InvokesAhead
<1>9. BrokerOf(i)'
  <2>1. CASE /\ broker'[i] = broker[i] /\ running'.message = running.message
             /\ running.node # broker[i].node \/ broker[i].default = <<>>
    <3>1. ~InHand(i)' /\ ~Pops(i)
      BY <1>1, <1>2, <1>5, <2>1 DEF InHand, Pops, BrokerOf, Queued
    <3>2. Sent(i)'
      BY <1>1, <1>2, <1>5, <1>6, <2>1, <3>1 DEF BrokerOf, Sent
    <3>3. Kinds(i)'
      BY <1>1, <1>2, <1>5, <1>6, <2>1, <3>1 DEF BrokerOf, Kinds
    <3>4. Queued(i)'
      <4>1. Wanted(i)'
        BY <1>1, <1>2, <1>6, <2>1 DEF BrokerOf, Queued, Wanted
      <4>2. \A k \in 1 .. Len(broker[i].default) : Fetched(i, k)'
        BY <1>1, <1>2, <1>6, <2>1, <3>1 DEF BrokerOf, Queued, Fetched
      <4> QED BY <1>2, <1>5, <1>6, <2>1, <4>1, <4>2 DEF BrokerOf, Queued
    <3>5. Held(i)'
      BY <1>1, <1>2, <1>5, <1>7, <2>1, <3>1, BrokerAt DEF BrokerOf, Held, StaysAhead
    <3> QED BY <1>7, <1>8, <3>2, <3>3, <3>4, <3>5 DEF BrokerOf
  <2>2. CASE /\ running'.at = "invoking" /\ running.node = broker[i].node /\ broker[i].default # <<>>
             /\ running'.message = Head(broker[i].default)
             /\ broker'[i].node = broker[i].node /\ broker'[i].default = Tail(broker[i].default)
             /\ broker'[i].custom = broker[i].custom
    <3>0. PICK d, c : d = broker[i].default /\ c = broker[i].custom
      OBVIOUS
    <3>1. /\ Len(d) \in Nat /\ Len(d) > 0 /\ Len(Tail(d)) = Len(d) - 1 /\ Head(d) = d[1] /\ 1 \in 1 .. Len(d)
          /\ \A k \in 1 .. Len(Tail(d)) : k + 1 \in 1 .. Len(d) /\ Tail(d)[k] = d[k + 1]
          /\ \A k \in 1 .. Len(d) : k # 1 => k - 1 \in 1 .. Len(Tail(d)) /\ Tail(d)[k - 1] = d[k]
          /\ \A k \in 1 .. Len(d) : d[k] \in Nat
      <4>1. d \in Seq(Nat) /\ d # <<>> /\ \A k \in 1 .. Len(d) : d[k] \in Nat
        BY <1>1, <2>2, <3>0, BrokerAt
      <4>2. /\ Len(d) \in Nat /\ Len(d) > 0 /\ Len(Tail(d)) = Len(d) - 1 /\ Head(d) = d[1]
            /\ \A k \in 1 .. Len(d) - 1 : Tail(d)[k] = d[k + 1]
        BY <4>1, QueueShrinks
      <4> QED BY <4>1, <4>2
    <3>2. Pops(i)
      BY <1>1, <1>2, <2>2 DEF Pops
    <3>3. /\ OneOf(i, d[1]) /\ d[1] # 0 /\ running'.message = d[1]
          /\ QueuedAfter(i, d[1])
          /\ \A k \in 1 .. Len(d) : OneOf(i, d[k])
      BY <1>2, <2>2, <3>0, <3>1, <3>2 DEF BrokerOf, Sent, Queued, OneOf
    <3>4. Rises(d) /\ Rises(Tail(d))
      <4>1. Rises(d)
        BY <1>2, <3>0 DEF BrokerOf, Queued
      <4> QED BY <3>1, <4>1 DEF Rises
    <3>5. Sent(i)'
      BY <1>1, <1>2, <1>5, <1>6, <2>2, <3>0, <3>1, <3>3 DEF BrokerOf, Sent
    <3>6. Kinds(i)'
      <4>1. broker[i].node # 0
        BY <1>1, <1>2, <2>2 DEF BrokerOf, Sent, OneOf
      <4> QED BY <1>1, <1>2, <1>5, <1>6, <2>2, <4>1 DEF BrokerOf, Kinds
    <3>7. Queued(i)'
      <4>1. \A n \in 1 .. Len(tasks) : Parks(i, n) => d[1] # tasks[n].message
        BY <1>1, <3>1, <3>3, BrokerQueues DEF QueuedAfter
      <4>2. Wanted(i)
        BY <1>1, <1>2 DEF BrokerOf, Queued
      <4>3. Wanted(i)'
        <5> SUFFICES ASSUME NEW n \in 1 .. Len(tasks'), Parks(i, n)'
                     PROVE  \E k \in 1 .. Len(Tail(d)) : Tail(d)[k] = tasks'[n].message
          BY <2>2, <3>0 DEF Wanted
        <5>1. n \in 1 .. Len(tasks) /\ Parks(i, n) /\ tasks'[n].message = tasks[n].message
          BY <1>1, <1>6
        <5>2. PICK k \in 1 .. Len(d) : d[k] = tasks[n].message
          BY <3>0, <4>2, <5>1 DEF Wanted
        <5>3. k # 1
          BY <4>1, <5>1, <5>2
        <5> QED BY <3>1, <5>1, <5>2, <5>3
      <4>4. \A k \in 1 .. Len(Tail(d)) : Fetched(i, k)'
        <5> SUFFICES ASSUME NEW k \in 1 .. Len(Tail(d))
                     PROVE  Fetched(i, k)'
          OBVIOUS
        <5>1. Fetched(i, k + 1)
          BY <1>2, <3>0, <3>1 DEF BrokerOf, Queued
        <5> QED BY <1>1, <1>6, <2>2, <3>0, <3>1, <5>1 DEF Fetched
      <4> QED BY <1>2, <1>5, <1>6, <2>2, <3>0, <3>4, <4>3, <4>4 DEF BrokerOf, Queued
    <3>8. Held(i)'
      <4> SUFFICES ASSUME lifetime[i] # "over"
                   PROVE  Held(i)'
        BY <1>1 DEF Held
      <4>1. /\ \A k \in 1 .. Len(d) : AllAhead(i, d[k])'
            /\ \A n \in 1 .. Len(c) :
                 /\ AllAhead(i, c[n])'
                 /\ \A k \in 1 .. Len(d) : d[k] < c[n]
            /\ Rises(c)
        BY <1>1, <1>2, <1>7, <2>2, <3>0, BrokerAt DEF BrokerOf, Held, StaysAhead
      <4>2. InvokedAfter(i, d[1])
        BY <3>3 DEF QueuedAfter, InvokedAfter
      <4>3. \A k \in 1 .. Len(Tail(d)) : d[1] < Tail(d)[k]
        <5>1. Rises(d)
          BY <3>4
        <5> QED BY <3>1, <5>1 DEF Rises
      <4> QED BY <1>1, <1>5, <1>6, <2>2, <3>0, <3>1, <3>3, <4>1, <4>2, <4>3 DEF Held
    <3> QED BY <1>7, <1>8, <3>5, <3>6, <3>7, <3>8 DEF BrokerOf
  <2> QED BY <1>3, <2>1, <2>2
<1> QED BY <1>1, <1>4, <1>9 DEF BrokerInv

\* The other thread takes a message, ...
LEMMA TakeWorkKeeps ==
  ASSUME BrokerInv, Broker!TakeWork
  PROVE  BrokerInv'
<1>1. /\ BrokerTypes /\ BrokerTypes'
      /\ UNCHANGED <<kind, subscriptions, lifetime, broker, tasks, running, sent, received, late>>
  BY TakeWorkDoes DEF BrokerInv
<1>2. ASSUME NEW i \in Ids
      PROVE  BrokerOf(i)'
  <2>1. Handed(i)' /\ StaysAhead(i)
    BY <1>1, HandsTake DEF BrokerInv, BrokerOf
  <2>2. SameEntity(i) /\ SameRun(i) /\ SameTasks(i)
    BY <1>1, NotQueued DEF SameEntity, SameRun
  <2> QED BY <1>1, <2>1, <2>2, RestStays DEF BrokerInv
<1> QED BY <1>1, <1>2 DEF BrokerInv

\* ... and handles it.
LEMMA HandleKeeps ==
  ASSUME BrokerInv, Broker!Handle
  PROVE  BrokerInv'
<1>1. /\ BrokerTypes /\ BrokerTypes' /\ handling # Broker!Nothing /\ handling' = Broker!Nothing
      /\ \A j \in Ids : j # handling[1] => received'[j] = received[j]
      /\ UNCHANGED <<kind, subscriptions, lifetime, broker, tasks, running, work, sent, late>>
  BY HandleDoes DEF BrokerInv
<1>2. ASSUME NEW i \in Ids
      PROVE  BrokerOf(i)'
  <2>1. SameEntity(i) /\ SameRun(i) /\ SameTasks(i) /\ BrokerOf(i)
    BY <1>1, NotQueued DEF SameEntity, SameRun, BrokerInv
  <2>2. CASE handling[1] = i
    <3>1. Handed(i)' /\ StaysAhead(i)
      BY <1>1, <2>1, <2>2, HandsHandle DEF BrokerOf
    <3>2. kind[i] # "default"
      BY <1>1, <2>1, <2>2 DEF BrokerOf, Handed, Handles
    <3> QED BY <1>1, <2>1, <3>1, <3>2, RestStays
  <2>3. CASE handling[1] # i
    <3>1. SameHands(i)
      <4>1. \A n \in 1 .. Len(work') : InWork(i, n)' => n + 0 \in 1 .. Len(work) /\ work'[n] = work[n + 0]
        BY <1>1, BrokerQueues
      <4>2. ~Handles(i)' /\ sent[i] <= sent'[i]
        BY <1>1, BrokerAt DEF Handles
      <4> QED BY <1>1, <2>3, <4>1, <4>2 DEF SameHands
    <3> QED BY <1>1, <2>1, <3>1, BrokerApart
  <2> QED BY <2>2, <2>3
<1> QED BY <1>1, <1>2 DEF BrokerInv

\* The message x, which nothing may be behind, is handed over, or is not after all.
LEMMA HandedOver ==
  ASSUME BrokerTypes, BrokerTypes', NEW i \in Ids, NEW x \in Nat,
         Handed(i), AllAhead(i, x), OneOf(i, x)',
         kind'[i] = kind[i], late[i] \subseteq late'[i], sent[i] <= sent'[i], UNCHANGED handling,
         \/ UNCHANGED <<work, received>>
         \/ kind[i] = "single" /\ work' = Append(work, <<i, x>>) /\ UNCHANGED received
         \/ kind[i] # "single" /\ received'[i] = Append(received[i], x) /\ UNCHANGED work
  PROVE  Handed(i)' /\ PassesAhead(i, x)
<1>1. CASE UNCHANGED <<work, received>>
  <2>1. SameHands(i)
    BY <1>1, NotHandled
  <2> QED BY <2>1, HandStays DEF StaysAhead, PassesAhead
<1>2. CASE kind[i] = "single" /\ work' = Append(work, <<i, x>>) /\ UNCHANGED received
  BY <1>2, HandsQueue
<1>3. CASE kind[i] # "single" /\ received'[i] = Append(received[i], x) /\ UNCHANGED work
  BY <1>3, HandsExecute
<1> QED BY <1>1, <1>2, <1>3

\* What is queued on the default scheduler stays behind what is received.
LEMMA InvokesStay ==
  ASSUME BrokerTypes, NEW i \in Ids, NEW x \in Nat, InvokesAhead(i),
         \A y : InvokedAfter(i, y) => InvokedAfter(i, y)',
         received'[i] = received[i] \/ (received'[i] = Append(received[i], x) /\ InvokedAfter(i, x)')
  PROVE  InvokesAhead(i)'
<1>1. CASE received'[i] = received[i]
  BY <1>1 DEF InvokesAhead
<1>2. CASE received'[i] = Append(received[i], x) /\ InvokedAfter(i, x)'
  <2>1. /\ received'[i][Len(received[i]) + 1] = x
        /\ \A j \in 1 .. Len(received[i]) : received'[i][j] = received[i][j]
        /\ \A j \in 1 .. Len(received'[i]) : j \in 1 .. Len(received[i]) \/ j = Len(received[i]) + 1
    BY <1>2, BrokerAt, QueueGrows
  <2> SUFFICES ASSUME NEW j \in 1 .. Len(received'[i])
               PROVE  InvokedAfter(i, received[i][j])'
    BY DEF InvokesAhead
  <2>2. CASE j = Len(received[i]) + 1
    BY <1>2, <2>1, <2>2
  <2>3. CASE j \in 1 .. Len(received[i])
    BY <2>1, <2>3 DEF InvokesAhead
  <2> QED BY <2>1, <2>2, <2>3
<1> QED BY <1>1, <1>2

\* What was popped is handed over.
LEMMA InvokePoppedKeeps ==
  ASSUME BrokerInv, Broker!InvokePopped
  PROVE  BrokerInv'
<1>1. /\ BrokerTypes /\ BrokerTypes' /\ running.at = "invoking" /\ running # Broker!Idle /\ running' # Broker!Idle
      /\ running'.at = "checking" /\ running'.id = running.id /\ running'.node = running.node
      /\ running'.subscription = running.subscription
      /\ UNCHANGED <<kind, subscriptions, lifetime, broker, tasks, handling, sent, late>>
  BY InvokePoppedDoes DEF BrokerInv
<1>2. PICK i \in Ids, x \in Nat : i = running.id /\ x = running.message /\ BrokerOf(i)
  BY <1>1, BrokerQueues DEF BrokerInv
<1>3. /\ \A j \in Ids : j # i => received'[j] = received[j]
      /\ \/ UNCHANGED <<work, received>>
         \/ /\ x # 0 /\ running.subscription
            /\ \/ kind[i] = "single" /\ work' = Append(work, <<i, x>>) /\ UNCHANGED received
               \/ kind[i] # "single" /\ received'[i] = Append(received[i], x) /\ UNCHANGED work
  BY <1>2, InvokePoppedDoes DEF BrokerInv
<1>4. \A j \in Ids : j # i => BrokerOf(j)'
  BY <1>1, <1>2, <1>3, OthersApart, NotQueued
<1>5. ~Pops(i)' /\ ~Replays(i)' /\ ~InHand(i)' /\ ~Pops(i) /\ broker'[i].node = broker[i].node
  BY <1>1, <1>2 DEF Pops, Replays, InHand
<1>6. /\ \A y : InvokedAfter(i, y)' = InvokedAfter(i, y)
      /\ \A n : Invokes(i, n)' = Invokes(i, n)
      /\ \A n : Parks(i, n)' = Parks(i, n)
      /\ \A y : OneOf(i, y)' = OneOf(i, y)
      /\ TasksSent(i)' = TasksSent(i) /\ NotInvoked(i)' = NotInvoked(i) /\ Orderly(i)' = Orderly(i)
  BY <1>1, <1>2, <1>5, TasksSame
<1>7. /\ late[i] \subseteq late'[i] /\ sent[i] <= sent'[i]
      /\ \A k \in 1 .. Len(broker[i].default) : broker[i].default[k] \in Nat
      /\ \A k \in 1 .. Len(broker[i].custom) : broker[i].custom[k] \in Nat
  BY <1>1, BrokerAt
<1>8. Sent(i)'
  BY <1>1, <1>2, <1>5, <1>6 DEF BrokerOf, Sent
<1>9. Kinds(i)'
  BY <1>1, <1>2, <1>5, <1>6 DEF BrokerOf, Kinds
<1>10. Queued(i)'
  BY <1>1, <1>2, <1>5, <1>6 DEF BrokerOf, Queued, Wanted, Fetched
<1>11. Handed(i)' /\ InvokesAhead(i)' /\ Held(i)'
  <2>1. CASE UNCHANGED <<work, received>>
    <3>1. Handed(i)' /\ StaysAhead(i)
      BY <1>1, <1>2, <1>7, <2>1, NotHandled, HandStays DEF BrokerOf
    <3>2. InvokesAhead(i)'
      BY <1>2, <1>6, <2>1 DEF BrokerOf, InvokesAhead
    <3>3. Held(i)'
      BY <1>1, <1>2, <1>5, <1>7, <3>1 DEF BrokerOf, Held, StaysAhead
    <3> QED BY <3>1, <3>2, <3>3
  <2>2. CASE /\ x # 0 /\ running.subscription
             /\ \/ kind[i] = "single" /\ work' = Append(work, <<i, x>>) /\ UNCHANGED received
                \/ kind[i] # "single" /\ received'[i] = Append(received[i], x) /\ UNCHANGED work
    <3>1. lifetime[i] = "alive" /\ InHand(i)
      BY <1>1, <1>2, <2>2 DEF BrokerOf, Kinds, InHand
    <3>2. /\ AllAhead(i, x)
          /\ \A k \in 1 .. Len(broker[i].default) :
               x < broker[i].default[k] /\ AllAhead(i, broker[i].default[k])
          /\ \A c \in 1 .. Len(broker[i].custom) :
               /\ x < broker[i].custom[c] /\ AllAhead(i, broker[i].custom[c])
               /\ \A k \in 1 .. Len(broker[i].default) : broker[i].default[k] < broker[i].custom[c]
          /\ Rises(broker[i].custom)
          /\ InvokedAfter(i, x) /\ OneOf(i, x)
      BY <1>2, <3>1 DEF BrokerOf, Held, Sent
    <3>3. Handed(i)' /\ PassesAhead(i, x)
      BY <1>1, <1>2, <1>6, <1>7, <2>2, <3>2, HandedOver DEF BrokerOf
    <3>4. InvokesAhead(i)'
      BY <1>1, <1>2, <1>6, <2>2, <3>2, InvokesStay DEF BrokerOf
    <3>5. Held(i)'
      BY <1>1, <1>5, <1>7, <3>2, <3>3 DEF Held, PassesAhead
    <3> QED BY <3>3, <3>4, <3>5
  <2> QED BY <1>3, <2>1, <2>2
<1>12. BrokerOf(i)'
  BY <1>8, <1>9, <1>10, <1>11 DEF BrokerOf
<1> QED BY <1>1, <1>4, <1>12 DEF BrokerInv

\* What was put aside is handed over, in its order.
LEMMA ReplayKeeps ==
  ASSUME BrokerInv, Broker!Replay
  PROVE  BrokerInv'
<1>1. /\ BrokerTypes /\ BrokerTypes' /\ running.at = "replaying" /\ running # Broker!Idle
      /\ UNCHANGED <<kind, subscriptions, lifetime, broker, handling, sent, late>>
  BY ReplayDoes DEF BrokerInv
<1>2. PICK i \in Ids : i = running.id /\ BrokerOf(i)
  BY <1>1, BrokerQueues DEF BrokerInv
<1>3. /\ \A j \in Ids : j # i => received'[j] = received[j]
      /\ \/ running' = Broker!Idle /\ UNCHANGED <<tasks, work, received>>
         \/ /\ running' # Broker!Idle /\ running'.at = "crashed" /\ running'.id = i
            /\ running'.node = running.node /\ running'.subscription = running.subscription
            /\ UNCHANGED <<tasks, work, received>>
         \/ /\ running' # Broker!Idle /\ running'.at = "replaying" /\ running'.id = i
            /\ running'.node = running.node /\ running'.subscription = running.subscription
            /\ running.replay # <<>> /\ running.subscription
            /\ Broker!Invoke(i, Head(running.replay)) /\ running'.replay = Tail(running.replay)
  BY <1>2, ReplayDoes DEF BrokerInv
<1>4. /\ Replays(i) /\ ~Pops(i) /\ running.replay \in Seq(Nat)
      /\ broker'[i].node = broker[i].node /\ late[i] \subseteq late'[i] /\ sent[i] <= sent'[i]
      /\ \A k \in 1 .. Len(broker[i].default) : broker[i].default[k] \in Nat
      /\ \A k \in 1 .. Len(broker[i].custom) : broker[i].custom[k] \in Nat
  <2>1. Replays(i) /\ ~Pops(i)
    BY <1>1, <1>2 DEF Replays, Pops
  <2>2. running.replay \in Seq(Nat) /\ broker'[i] = broker[i] /\ late' = late /\ sent' = sent
    BY <1>1, <1>2, BrokerQueues
  <2>3. BrokerTypes /\ sent[i] \in Nat
    BY <1>1, <1>2, BrokerAt
  <2> QED BY <1>1, <2>1, <2>2, <2>3, BrokerAt
<1>5. running'.at \in {"replaying", "crashed", "idle"}
  BY <1>3, BrokerNames
<1>6. ~Pops(i)' /\ ~InHand(i)' /\ running'.at # "popping" /\ running'.at # "erasing"
  BY <1>5 DEF Pops, InHand
<1>7. CASE UNCHANGED <<tasks, work, received>> /\ running'.at # "replaying"
  <2>1. \A j \in Ids : j # i => BrokerOf(j)'
    BY <1>1, <1>2, <1>3, <1>7, OthersApart, NotQueued
  <2>2. /\ \A y : InvokedAfter(i, y)' = InvokedAfter(i, y)
        /\ \A n : Parks(i, n)' = Parks(i, n)
        /\ \A y : OneOf(i, y)' = OneOf(i, y)
        /\ TasksSent(i)' = TasksSent(i) /\ NotInvoked(i)' = NotInvoked(i) /\ Orderly(i)' = Orderly(i)
    BY <1>1, <1>2, <1>4, <1>7, TasksSame
  <2>3. ~Replays(i)'
    BY <1>6, <1>7 DEF Replays
  <2>4. Handed(i)' /\ StaysAhead(i)
    BY <1>1, <1>2, <1>4, <1>7, NotHandled, HandStays DEF BrokerOf
  <2>5. Sent(i)' /\ InvokesAhead(i)'
    BY <1>1, <1>2, <1>3, <1>6, <1>7, <2>2, <2>3 DEF BrokerOf, Sent, InvokesAhead
  <2>6. Kinds(i)'
    BY <1>1, <1>2, <1>3, <1>6, <1>7, <2>2, <2>3 DEF BrokerOf, Kinds
  <2>7. Queued(i)'
    BY <1>1, <1>2, <1>4, <1>6, <1>7, <2>2 DEF BrokerOf, Queued, Wanted, Fetched
  <2>8. Held(i)'
    BY <1>1, <1>2, <1>4, <1>6, <2>3, <2>4 DEF BrokerOf, Held, StaysAhead
  <2>9. BrokerOf(i)'
    BY <2>4, <2>5, <2>6, <2>7, <2>8 DEF BrokerOf
  <2> QED BY <1>1, <2>1, <2>9 DEF BrokerInv
<1>8. CASE /\ running' # Broker!Idle /\ running'.at = "replaying" /\ running'.id = i
           /\ running'.node = running.node /\ running'.subscription = running.subscription
           /\ running.replay # <<>> /\ running.subscription
           /\ Broker!Invoke(i, Head(running.replay)) /\ running'.replay = Tail(running.replay)
  <2>1. PICK q : q = running.replay
    OBVIOUS
  <2>2. /\ q \in Seq(Nat) /\ Len(q) \in Nat /\ Len(q) > 0 /\ Len(Tail(q)) = Len(q) - 1
        /\ Head(q) = q[1] /\ 1 \in 1 .. Len(q) /\ \A k \in 1 .. Len(q) : q[k] \in Nat
        /\ \A k \in 1 .. Len(Tail(q)) : k + 1 \in 1 .. Len(q) /\ Tail(q)[k] = q[k + 1]
    <3>1. q \in Seq(Nat) /\ q # <<>>
      BY <1>4, <1>8, <2>1
    <3>2. /\ Len(q) \in Nat /\ Len(q) > 0 /\ Len(Tail(q)) = Len(q) - 1 /\ Head(q) = q[1]
          /\ \A k \in 1 .. Len(q) - 1 : Tail(q)[k] = q[k + 1]
      BY <3>1, QueueShrinks
    <3> QED BY <3>1, <3>2, ElementOfSeq
  <2>3. PICK x \in Nat : x = q[1]
    BY <2>2
  <2>4. lifetime[i] = "alive" /\ broker[i].node = 0 /\ broker[i].default = <<>> /\ broker[i].custom = <<>>
        /\ kind[i] # "default" /\ kind[i] # "outOfOrder"
    BY <1>1, <1>2, <1>4, <1>8 DEF BrokerOf, Kinds
  <2>5. /\ UNCHANGED tasks
        /\ \/ UNCHANGED <<work, received>>
           \/ kind[i] = "single" /\ work' = Append(work, <<i, x>>) /\ UNCHANGED received
           \/ kind[i] # "single" /\ received'[i] = Append(received[i], x) /\ UNCHANGED work
    <3>1. Head(running.replay) = x
      BY <2>1, <2>2, <2>3
    <3>2. Broker!Invoke(i, x)
      BY <1>8, <3>1
    <3>3. \/ kind[i] = "single" /\ UNCHANGED <<tasks, received>> /\ work' = Append(work, <<i, x>>)
          \/ /\ kind[i] # "single" /\ UNCHANGED <<tasks, work>>
             /\ received'[i] = Append(received[i], x) \/ UNCHANGED received
      BY <1>1, <2>4, <3>2, InvokeDoes
    <3> QED BY <3>3
  <2>6. \A j \in Ids : j # i => BrokerOf(j)'
    BY <1>1, <1>2, <1>3, <1>8, <2>5, OthersApart, NotQueued
  <2>7. /\ \A y : InvokedAfter(i, y)' = InvokedAfter(i, y)
        /\ \A n : Parks(i, n)' = Parks(i, n)
        /\ \A y : OneOf(i, y)' = OneOf(i, y)
        /\ TasksSent(i)' = TasksSent(i) /\ NotInvoked(i)' = NotInvoked(i) /\ Orderly(i)' = Orderly(i)
    BY <1>1, <1>2, <1>4, <2>5, TasksSame
  <2>8. /\ Rises(q) /\ \A k \in 1 .. Len(q) : AllAhead(i, q[k]) /\ OneOf(i, q[k])
        /\ AllAhead(i, x) /\ OneOf(i, x)
    BY <1>2, <1>4, <2>1, <2>2, <2>3, <2>4 DEF BrokerOf, Held, Sent
  <2>9. Handed(i)' /\ PassesAhead(i, x)
    BY <1>1, <1>2, <1>4, <2>5, <2>7, <2>8, HandedOver DEF BrokerOf
  <2>10. NotInvoked(i) /\ \A y : InvokedAfter(i, y)
    BY <1>2, <2>4 DEF BrokerOf, Kinds, NotInvoked, InvokedAfter
  <2>11. InvokesAhead(i)'
    BY <2>7, <2>10 DEF InvokesAhead
  <2>12. Sent(i)'
    BY <1>1, <1>2, <1>6, <1>8, <2>1, <2>2, <2>7, <2>8 DEF BrokerOf, Sent, Replays
  <2>13. Kinds(i)'
    BY <1>1, <1>2, <1>6, <1>8, <2>4, <2>7 DEF BrokerOf, Kinds
  <2>14. Queued(i)'
    BY <1>1, <1>2, <1>4, <1>6, <2>5, <2>7 DEF BrokerOf, Queued, Wanted, Fetched
  <2>15. Held(i)'
    <3>1. \A k \in 1 .. Len(Tail(q)) : AllAhead(i, Tail(q)[k])'
      <4>1. \A k \in 1 .. Len(q) : k > 1 => x < q[k]
        BY <2>2, <2>3, <2>8 DEF Rises
      <4> QED BY <2>2, <2>8, <2>9, <4>1 DEF PassesAhead
    <3>2. Rises(Tail(q))
      BY <2>2, <2>8 DEF Rises
    <3> QED BY <1>1, <1>6, <1>8, <2>1, <2>4, <3>1, <3>2 DEF Held, Rises
  <2>16. BrokerOf(i)'
    BY <2>9, <2>11, <2>12, <2>13, <2>14, <2>15 DEF BrokerOf
  <2> QED BY <1>1, <2>6, <2>16 DEF BrokerInv
<1> QED BY <1>3, <1>7, <1>8, BrokerNames

\* The first action is taken from the queue.
LEMMA HeadTaken ==
  ASSUME BrokerTypes, NEW i \in Ids, tasks # <<>>, tasks' = Tail(tasks),
         broker'[i] = broker[i], sent'[i] = sent[i]
  PROVE  /\ \A x : OneOf(i, x)' = OneOf(i, x)
         /\ Orderly(i) => Orderly(i)'
         /\ Wanted(i) => Wanted(i)'
         /\ NotInvoked(i) => NotInvoked(i)'
         /\ TasksSent(i) => TasksSent(i)'
         /\ \A y : InvokedAfter(i, y) => InvokedAfter(i, y)'
         /\ \A k : Fetched(i, k) => \/ Fetched(i, k)'
                                    \/ Parks(i, 1) /\ tasks[1].message = broker[i].default[k]
         /\ \A x : Orderly(i) /\ (Invokes(i, 1) \/ Parks(i, 1)) /\ x = tasks[1].message =>
              QueuedAfter(i, x)'
<1>1. /\ Len(tasks) \in Nat /\ 1 \in 1 .. Len(tasks) /\ Len(tasks') = Len(tasks) - 1
      /\ \A n \in 1 .. Len(tasks') : n + 1 \in 1 .. Len(tasks) /\ tasks'[n] = tasks[n + 1]
      /\ \A n \in 1 .. Len(tasks) : n # 1 => n - 1 \in 1 .. Len(tasks') /\ tasks'[n - 1] = tasks[n]
  BY TaskTaken
<1>2. \A n \in 1 .. Len(tasks') :
        Invokes(i, n)' = Invokes(i, n + 1) /\ Parks(i, n)' = Parks(i, n + 1)
  BY <1>1 DEF Invokes, Parks
<1>3. \A x : OneOf(i, x)' = OneOf(i, x)
  BY DEF OneOf
<1>4. Orderly(i) => Orderly(i)'
  <2> SUFFICES ASSUME Orderly(i), NEW m \in 1 .. Len(tasks'), NEW n \in 1 .. Len(tasks'), m < n,
                      (Invokes(i, m) \/ Parks(i, m))', (Invokes(i, n) \/ Parks(i, n))'
               PROVE  tasks'[m].message < tasks'[n].message
    BY DEF Orderly
  <2>1. m + 1 < n + 1
    OBVIOUS
  <2> QED BY <1>1, <1>2, <2>1 DEF Orderly
<1>5. Wanted(i) => Wanted(i)'
  <2> SUFFICES ASSUME Wanted(i), NEW n \in 1 .. Len(tasks'), Parks(i, n)'
               PROVE  \E k \in 1 .. Len(broker'[i].default) : broker'[i].default[k] = tasks'[n].message
    BY DEF Wanted
  <2>1. n + 1 \in 1 .. Len(tasks) /\ tasks'[n] = tasks[n + 1] /\ Parks(i, n + 1)
    BY <1>1, <1>2
  <2> QED BY <2>1 DEF Wanted
<1>6. (NotInvoked(i) => NotInvoked(i)') /\ \A y : InvokedAfter(i, y) => InvokedAfter(i, y)'
  BY <1>1, <1>2 DEF NotInvoked, InvokedAfter
<1>7. TasksSent(i) => TasksSent(i)'
  BY <1>1, <1>3 DEF TasksSent
<1>8. ASSUME NEW k, Fetched(i, k), ~(Parks(i, 1) /\ tasks[1].message = broker[i].default[k])
      PROVE  Fetched(i, k)'
  <2>1. PICK n \in 1 .. Len(tasks) : Parks(i, n) /\ tasks[n].message = broker[i].default[k]
    BY <1>8 DEF Fetched
  <2>2. n # 1
    BY <1>8, <2>1
  <2>3. n - 1 \in 1 .. Len(tasks') /\ tasks'[n - 1] = tasks[n] /\ (n - 1) + 1 = n
    BY <1>1, <2>2
  <2>4. Parks(i, n - 1)'
    BY <2>1, <2>3 DEF Parks
  <2> QED BY <2>1, <2>3, <2>4 DEF Fetched
<1>9. ASSUME NEW x, Orderly(i), Invokes(i, 1) \/ Parks(i, 1), x = tasks[1].message
      PROVE  QueuedAfter(i, x)'
  <2> SUFFICES ASSUME NEW n \in 1 .. Len(tasks'), Invokes(i, n)' \/ Parks(i, n)'
               PROVE  x < tasks'[n].message
    BY DEF QueuedAfter
  <2>1. n + 1 \in 1 .. Len(tasks) /\ 1 < n + 1 /\ (Invokes(i, n + 1) \/ Parks(i, n + 1))
    BY <1>1, <1>2
  <2> QED BY <1>1, <1>9, <2>1 DEF Orderly
<1> QED BY <1>3, <1>4, <1>5, <1>6, <1>7, <1>8, <1>9

\* The message of a queued invocation is received: it was the earliest.
LEMMA RunInvokedKeeps ==
  ASSUME BrokerInv, Broker!RunInvoked
  PROVE  BrokerInv'
<1>1. /\ BrokerTypes /\ BrokerTypes' /\ running = Broker!Idle /\ tasks # <<>> /\ tasks[1].does = "invoke"
      /\ tasks' = Tail(tasks)
      /\ UNCHANGED <<kind, subscriptions, lifetime, broker, running, work, handling, sent, late>>
  BY RunInvokedDoes DEF BrokerInv
<1>2. PICK i \in Ids, x \in Nat : i = tasks[1].id /\ x = tasks[1].message /\ BrokerOf(i)
  BY <1>1, TaskTaken DEF BrokerInv
<1>3. /\ received'[i] = Append(received[i], x) \/ UNCHANGED received
      /\ \A j \in Ids : j # i => received'[j] = received[j]
  BY <1>2, RunInvokedDoes DEF BrokerInv
<1>4. \A j \in Ids : j # i => BrokerOf(j)'
  BY <1>1, <1>2, <1>3, OthersApart, NotQueued
<1>5. /\ running.at \notin {"popping", "invoking", "erasing", "replaying"}
      /\ ~Pops(i) /\ ~Pops(i)' /\ ~InHand(i)' /\ ~Replays(i)'
      /\ Invokes(i, 1) /\ ~Parks(i, 1) /\ 1 \in 1 .. Len(tasks)
      /\ late[i] \subseteq late'[i] /\ sent[i] <= sent'[i]
      /\ \A k \in 1 .. Len(broker[i].default) : broker[i].default[k] \in Nat
  <2>1. running.at = "idle" /\ 1 \in 1 .. Len(tasks)
    BY <1>1, BrokerNames, TaskTaken
  <2> QED BY <1>1, <1>2, <2>1, BrokerAt DEF Pops, InHand, Replays, Invokes, Parks
<1>6. /\ \A u : OneOf(i, u)' = OneOf(i, u)
      /\ Orderly(i) => Orderly(i)'
      /\ Wanted(i) => Wanted(i)'
      /\ NotInvoked(i) => NotInvoked(i)'
      /\ TasksSent(i) => TasksSent(i)'
      /\ \A y : InvokedAfter(i, y) => InvokedAfter(i, y)'
      /\ \A k : Fetched(i, k) => Fetched(i, k)'
      /\ QueuedAfter(i, x)'
  BY <1>1, <1>2, <1>5, HeadTaken DEF BrokerOf, Queued
<1>7. kind[i] = "default" /\ broker[i].custom = <<>> /\ OneOf(i, x)
  BY <1>2, <1>5 DEF BrokerOf, Kinds, NotInvoked, Sent, TasksSent
<1>8. AllAhead(i, x)
  <2>1. \A j \in 1 .. Len(received[i]) : received[i][j] < x
    BY <1>2, <1>5 DEF BrokerOf, InvokesAhead, InvokedAfter
  <2> QED BY <1>2, <1>7, <2>1 DEF BrokerOf, Handed, AllAhead, Ahead
<1>9. Handed(i)' /\ PassesAhead(i, x)
  BY <1>1, <1>2, <1>3, <1>5, <1>6, <1>7, <1>8, HandedOver DEF BrokerOf
<1>10. InvokesAhead(i)'
  <2>1. InvokedAfter(i, x)'
    BY <1>6 DEF QueuedAfter, InvokedAfter
  <2> QED BY <1>1, <1>2, <1>3, <1>6, <2>1, InvokesStay DEF BrokerOf
<1>11. Sent(i)'
  BY <1>1, <1>2, <1>5, <1>6 DEF BrokerOf, Sent
<1>12. Kinds(i)'
  BY <1>1, <1>2, <1>5, <1>6 DEF BrokerOf, Kinds
<1>13. Queued(i)'
  BY <1>1, <1>2, <1>5, <1>6 DEF BrokerOf, Queued
<1>14. Held(i)'
  <2> SUFFICES ASSUME lifetime[i] # "over", NEW k \in 1 .. Len(broker[i].default)
               PROVE  AllAhead(i, broker[i].default[k])'
    BY <1>1, <1>5, <1>7 DEF Held, Rises
  <2>1. AllAhead(i, broker[i].default[k])
    BY <1>2 DEF BrokerOf, Held
  <2>2. x < broker[i].default[k]
    <3>1. PICK n \in 1 .. Len(tasks) : Parks(i, n) /\ tasks[n].message = broker[i].default[k]
      BY <1>2, <1>5 DEF BrokerOf, Queued, Fetched
    <3>2. 1 < n
      BY <1>5, <3>1
    <3> QED BY <1>2, <1>5, <3>1, <3>2 DEF BrokerOf, Queued, Orderly
  <2> QED BY <1>1, <1>5, <1>9, <2>1, <2>2 DEF PassesAhead
<1>15. BrokerOf(i)'
  BY <1>9, <1>10, <1>11, <1>12, <1>13, <1>14 DEF BrokerOf
<1> QED BY <1>1, <1>4, <1>15 DEF BrokerInv

\* The first action for the entry comes for the first message parked there.
LEMMA RunParkedKeeps ==
  ASSUME BrokerInv, Broker!RunParked
  PROVE  BrokerInv'
<1>1. /\ BrokerTypes /\ BrokerTypes' /\ running = Broker!Idle /\ tasks # <<>> /\ tasks[1].does = "parked"
      /\ tasks' = Tail(tasks)
      /\ running' # Broker!Idle /\ running'.at = "popping" /\ running'.id = tasks[1].id
      /\ running'.node = tasks[1].node /\ running'.message = 0
      /\ running'.subscription => subscriptions[tasks[1].id] = "entity"
      /\ \A j \in Ids : (subscriptions'[j] = "entity") = (subscriptions[j] = "entity")
      /\ UNCHANGED <<kind, lifetime, broker, work, handling, sent, received, late>>
  BY RunParkedDoes DEF BrokerInv
<1>2. PICK i \in Ids, x \in Nat : i = tasks[1].id /\ x = tasks[1].message /\ BrokerOf(i)
  BY <1>1, TaskTaken DEF BrokerInv
<1>3. \A j \in Ids : j # i => BrokerOf(j)'
  BY <1>1, <1>2, OthersApart, NotQueued
<1>4. /\ running.at \notin {"popping", "invoking", "erasing", "replaying"}
      /\ ~Pops(i) /\ ~InHand(i)' /\ ~Replays(i)'
      /\ ~Invokes(i, 1) /\ Parks(i, 1) = (tasks[1].node = broker[i].node) /\ 1 \in 1 .. Len(tasks)
      /\ Pops(i)' = (tasks[1].node = broker[i].node)
      /\ late[i] \subseteq late'[i] /\ sent[i] <= sent'[i]
      /\ \A k \in 1 .. Len(broker[i].default) : broker[i].default[k] \in Nat
      /\ \A k \in 1 .. Len(broker[i].custom) : broker[i].custom[k] \in Nat
      /\ broker[i].default \in Seq(Nat) /\ Len(broker[i].default) \in Nat
  <2>1. running.at = "idle" /\ 1 \in 1 .. Len(tasks)
    BY <1>1, BrokerNames, TaskTaken
  <2>2. Parks(i, 1) = (tasks[1].node = broker[i].node)
    BY <1>1, <1>2 DEF Parks
  <2>3. Pops(i)' = (tasks[1].node = broker[i].node)
    BY <1>1, <1>2 DEF Pops
  <2>4. ~Pops(i) /\ ~InHand(i)' /\ ~Replays(i)' /\ ~Invokes(i, 1)
    BY <1>1, <1>2, <2>1 DEF Pops, InHand, Replays, Invokes
  <2>5. running.at \notin {"popping", "invoking", "erasing", "replaying"}
    BY <2>1
  <2>6. /\ late[i] \subseteq late'[i] /\ sent[i] <= sent'[i]
        /\ \A k \in 1 .. Len(broker[i].default) : broker[i].default[k] \in Nat
        /\ \A k \in 1 .. Len(broker[i].custom) : broker[i].custom[k] \in Nat
        /\ broker[i].default \in Seq(Nat) /\ Len(broker[i].default) \in Nat
    BY <1>1, BrokerAt
  <2> QED BY <2>1, <2>2, <2>3, <2>4, <2>5, <2>6
<1>5. /\ \A u : OneOf(i, u)' = OneOf(i, u)
      /\ Orderly(i) => Orderly(i)'
      /\ Wanted(i) => Wanted(i)'
      /\ NotInvoked(i) => NotInvoked(i)'
      /\ TasksSent(i) => TasksSent(i)'
      /\ \A y : InvokedAfter(i, y) => InvokedAfter(i, y)'
      /\ \A k : Fetched(i, k) => Fetched(i, k)' \/ (Parks(i, 1) /\ x = broker[i].default[k])
      /\ Parks(i, 1) => QueuedAfter(i, x)'
  BY <1>1, <1>2, <1>4, HeadTaken DEF BrokerOf, Queued
<1>6. Handed(i)' /\ StaysAhead(i)
  BY <1>1, <1>2, <1>4, NotHandled, HandStays DEF BrokerOf
<1>7. OneOf(i, tasks[1].node)
  BY <1>1, <1>2, <1>4 DEF BrokerOf, Sent, TasksSent
<1>8. Sent(i)'
  BY <1>1, <1>2, <1>4, <1>5, <1>7 DEF BrokerOf, Sent
<1>9. Kinds(i)'
  BY <1>1, <1>2, <1>4, <1>5 DEF BrokerOf, Kinds
<1>10. InvokesAhead(i)'
  BY <1>1, <1>2, <1>5 DEF BrokerOf, InvokesAhead
<1>11. Parks(i, 1) => \A k \in 1 .. Len(broker[i].default) : x = broker[i].default[k] => k = 1
  <2> SUFFICES ASSUME Parks(i, 1), NEW k \in 1 .. Len(broker[i].default), x = broker[i].default[k], k # 1
               PROVE  FALSE
    OBVIOUS
  <2>1. 1 \in 1 .. Len(broker[i].default) /\ 1 < k
    BY <1>4
  <2>2. broker[i].default[1] < x
    BY <1>2, <2>1 DEF BrokerOf, Queued, Rises
  <2>3. PICK n \in 1 .. Len(tasks) : Parks(i, n) /\ tasks[n].message = broker[i].default[1]
    BY <1>2, <1>4, <2>1 DEF BrokerOf, Queued, Fetched
  <2>4. broker[i].default[1] \in Nat
    BY <1>4, <2>1
  <2>5. n # 1
    BY <1>2, <2>2, <2>3, <2>4
  <2>6. x < tasks[n].message
    BY <1>2, <1>4, <2>3, <2>5 DEF BrokerOf, Queued, Orderly
  <2> QED BY <2>2, <2>3, <2>4, <2>6
<1>12. Queued(i)'
  <2>1. \A k \in 1 .. Len(broker[i].default) : (k = 1 /\ Pops(i)') \/ Fetched(i, k)'
    BY <1>2, <1>4, <1>5, <1>11 DEF BrokerOf, Queued
  <2>2. ASSUME Pops(i)'
        PROVE  broker[i].default # <<>> /\ QueuedAfter(i, broker[i].default[1])'
    <3>1. Parks(i, 1)
      BY <1>4, <2>2
    <3>2. PICK k \in 1 .. Len(broker[i].default) : broker[i].default[k] = x
      BY <1>1, <1>2, <1>4, <3>1 DEF BrokerOf, Queued, Wanted
    <3>3. k = 1
      BY <1>11, <3>1, <3>2
    <3>4. broker[i].default # <<>>
      BY <1>4, <3>2, <3>3, EmptySeq
    <3> QED BY <1>1, <1>5, <3>1, <3>2, <3>3, <3>4
  <2> QED BY <1>1, <1>2, <1>4, <1>5, <2>1, <2>2 DEF BrokerOf, Queued
<1>13. Held(i)'
  <2> SUFFICES ASSUME lifetime[i] # "over"
               PROVE  Held(i)'
    BY <1>1 DEF Held
  <2>1. /\ \A k \in 1 .. Len(broker[i].default) : AllAhead(i, broker[i].default[k])
        /\ Rises(broker[i].custom)
        /\ \A c \in 1 .. Len(broker[i].custom) :
             /\ AllAhead(i, broker[i].custom[c])
             /\ \A k \in 1 .. Len(broker[i].default) : broker[i].default[k] < broker[i].custom[c]
    BY <1>2 DEF BrokerOf, Held
  <2>2. (/\ \A k \in 1 .. Len(broker[i].default) : AllAhead(i, broker[i].default[k])
         /\ Rises(broker[i].custom)
         /\ \A c \in 1 .. Len(broker[i].custom) :
              /\ AllAhead(i, broker[i].custom[c])
              /\ \A k \in 1 .. Len(broker[i].default) : broker[i].default[k] < broker[i].custom[c])'
    BY <1>1, <1>4, <1>6, <2>1 DEF StaysAhead
  <2> QED BY <1>4, <2>2 DEF Held
<1>14. BrokerOf(i)'
  BY <1>6, <1>8, <1>9, <1>10, <1>12, <1>13 DEF BrokerOf
<1> QED BY <1>1, <1>3, <1>14 DEF BrokerInv

\* An action for a new message is queued.
LEMMA TaskQueued ==
  ASSUME BrokerTypes, NEW i \in Ids, NEW m, NEW t \in BrokerTask, m = sent[i] + 1, sent'[i] = m,
         TasksSent(i), tasks' = Append(tasks, t), t.id = i, t.message = m,
         t.does = "parked" => OneOf(i, t.node)',
         \/ broker'[i].node = broker[i].node
         \/ broker[i].node = 0 /\ broker'[i].node = m
  PROVE  /\ Len(tasks) \in Nat /\ Len(tasks') = Len(tasks) + 1 /\ tasks'[Len(tasks) + 1] = t
         /\ Len(tasks) + 1 \in 1 .. Len(tasks')
         /\ \A n \in 1 .. Len(tasks') : n \in 1 .. Len(tasks) \/ n = Len(tasks) + 1
         /\ \A n \in 1 .. Len(tasks) :
              /\ n \in 1 .. Len(tasks') /\ tasks'[n] = tasks[n]
              /\ Invokes(i, n)' = Invokes(i, n) /\ Parks(i, n)' = Parks(i, n)
         /\ TasksSent(i)' /\ (Orderly(i) => Orderly(i)')
         /\ \A y : y < m => /\ InvokedAfter(i, y) => InvokedAfter(i, y)'
                            /\ QueuedAfter(i, y) => QueuedAfter(i, y)'
         /\ t.does = "parked" /\ NotInvoked(i) => NotInvoked(i)'
<1>1. /\ Len(tasks) \in Nat /\ Len(tasks') = Len(tasks) + 1 /\ tasks'[Len(tasks) + 1] = t
      /\ Len(tasks) + 1 \in 1 .. Len(tasks')
      /\ \A n \in 1 .. Len(tasks') : n \in 1 .. Len(tasks) \/ n = Len(tasks) + 1
      /\ \A n \in 1 .. Len(tasks) : n \in 1 .. Len(tasks') /\ tasks'[n] = tasks[n]
  <2>1. tasks \in Seq(BrokerTask)
    BY DEF BrokerTypes
  <2>2. /\ Len(tasks) \in Nat /\ Len(tasks') = Len(tasks) + 1 /\ tasks'[Len(tasks) + 1] = t
        /\ \A n \in 1 .. Len(tasks) : tasks'[n] = tasks[n]
    BY <2>1, QueueGrows
  <2> QED BY <2>2
<1>2. sent[i] \in Nat /\ m \in Nat /\ OneOf(i, m)' /\ \A x : OneOf(i, x) => OneOf(i, x)' /\ x < m /\ x > 0
  <2>1. sent[i] \in Nat
    BY BrokerAt
  <2> QED BY <2>1 DEF OneOf
<1>3. \A n \in 1 .. Len(tasks) : Invokes(i, n)' = Invokes(i, n)
  BY <1>1 DEF Invokes
<1>4. \A n \in 1 .. Len(tasks) : Parks(i, n)' = Parks(i, n)
  <2>1. CASE broker'[i].node = broker[i].node
    BY <1>1, <2>1 DEF Parks
  <2>2. CASE broker[i].node = 0 /\ broker'[i].node = m
    BY <1>1, <1>2, <2>2 DEF Parks, TasksSent
  <2> QED BY <2>1, <2>2
<1>5. \A n \in 1 .. Len(tasks) : Invokes(i, n) \/ Parks(i, n) => tasks[n].message < m
  BY <1>2 DEF TasksSent, Invokes, Parks
<1>6. TasksSent(i)'
  BY <1>1, <1>2 DEF TasksSent
<1>7. Orderly(i) => Orderly(i)'
  <2> SUFFICES ASSUME Orderly(i), NEW l \in 1 .. Len(tasks'), NEW n \in 1 .. Len(tasks'), l < n,
                      (Invokes(i, l) \/ Parks(i, l))', (Invokes(i, n) \/ Parks(i, n))'
               PROVE  tasks'[l].message < tasks'[n].message
    BY DEF Orderly
  <2>1. l \in 1 .. Len(tasks)
    BY <1>1
  <2>2. tasks'[l].message < m
    BY <1>1, <1>3, <1>4, <1>5, <2>1
  <2>3. CASE n = Len(tasks) + 1
    BY <1>1, <2>2, <2>3
  <2>4. CASE n \in 1 .. Len(tasks)
    BY <1>1, <1>3, <1>4, <2>1, <2>4 DEF Orderly
  <2> QED BY <1>1, <2>3, <2>4
<1>8. ASSUME NEW y, y < m
      PROVE  /\ InvokedAfter(i, y) => InvokedAfter(i, y)'
             /\ QueuedAfter(i, y) => QueuedAfter(i, y)'
  BY <1>1, <1>3, <1>4, <1>8 DEF InvokedAfter, QueuedAfter
<1>9. t.does = "parked" /\ NotInvoked(i) => NotInvoked(i)'
  <2> SUFFICES ASSUME t.does = "parked", NotInvoked(i), NEW n \in 1 .. Len(tasks')
               PROVE  ~Invokes(i, n)'
    BY DEF NotInvoked
  <2> QED BY <1>1, <1>3 DEF NotInvoked, Invokes
<1> QED BY <1>1, <1>3, <1>4, <1>6, <1>7, <1>8, <1>9

\* A sequence that rises, with more appended.
LEMMA RisesMore ==
  ASSUME NEW s \in Seq(Nat), NEW m \in Nat, Rises(s), \A k \in 1 .. Len(s) : s[k] < m
  PROVE  /\ Rises(Append(s, m)) /\ Append(s, m) # <<>> /\ Len(s) \in Nat
         /\ Len(Append(s, m)) = Len(s) + 1 /\ Append(s, m)[Len(s) + 1] = m
         /\ \A k \in 1 .. Len(s) : k \in 1 .. Len(Append(s, m)) /\ Append(s, m)[k] = s[k]
         /\ \A k \in 1 .. Len(Append(s, m)) : k \in 1 .. Len(s) \/ k = Len(s) + 1
<1>1. PICK r : r = Append(s, m)
  OBVIOUS
<1>2. /\ r # <<>> /\ Len(s) \in Nat /\ Len(r) = Len(s) + 1 /\ r[Len(s) + 1] = m
      /\ \A k \in 1 .. Len(s) : r[k] = s[k]
  BY <1>1, QueueGrows
<1>3. /\ \A k \in 1 .. Len(s) : k \in 1 .. Len(r)
      /\ \A k \in 1 .. Len(r) : k \in 1 .. Len(s) \/ k = Len(s) + 1
  BY <1>2
<1>4. Rises(r)
  <2> SUFFICES ASSUME NEW j \in 1 .. Len(r), NEW k \in 1 .. Len(r), j < k
               PROVE  r[j] < r[k]
    BY DEF Rises
  <2>1. j \in 1 .. Len(s)
    BY <1>2
  <2>2. CASE k = Len(s) + 1
    BY <1>2, <2>1, <2>2
  <2>3. CASE k \in 1 .. Len(s)
    BY <1>2, <2>1, <2>3 DEF Rises
  <2> QED BY <1>3, <2>2, <2>3
<1> QED BY <1>1, <1>2, <1>3, <1>4

\* dispatch leaves the other entities alone.
LEMMA DispatchApart ==
  ASSUME BrokerInv, NEW i \in Ids, Broker!Dispatch(i), NEW j \in Ids, j # i
  PROVE  BrokerOf(j)'
<1>1. PICK m : m = sent[i] + 1
  OBVIOUS
<1>2. /\ BrokerTypes /\ BrokerTypes' /\ m \in Nat /\ sent' = [sent EXCEPT ![i] = m]
      /\ UNCHANGED <<kind, lifetime, running, handling>>
      /\ broker'[j] = broker[j]
      /\ (subscriptions'[j] = "entity") = (subscriptions[j] = "entity")
  BY <1>1, DispatchDoes DEF BrokerInv
<1>3. sent'[j] = sent[j] /\ sent[j] <= sent'[j]
  <2>1. sent'[j] = sent[j]
    BY <1>2 DEF BrokerTypes
  <2> QED BY <1>2, <2>1, BrokerAt
<1>4. SameRun(j) /\ SameEntity(j)
  BY <1>2, <1>3 DEF SameRun, SameEntity
<1>5. SameTasks(j) /\ SameHands(j)
  <2>1. CASE subscriptions[i] # "entity"
    <3>1. PICK node \in Nat : node = IF broker[i].node = 0 THEN m ELSE broker[i].node
      BY <1>2, BrokerAt
    <3>2. /\ UNCHANGED <<work, received, late>>
          /\ tasks' = Append(tasks, [does |-> "parked", id |-> i, node |-> node, message |-> m])
      BY <1>1, <1>2, <2>1, <3>1, DispatchDoes
    <3>3. PICK t \in BrokerTask : t.id = i /\ tasks' = Append(tasks, t)
      <4>1. [does |-> "parked", id |-> i, node |-> node, message |-> m] \in BrokerTask
        BY <1>2 DEF BrokerTask
      <4> QED BY <3>2, <4>1
    <3>4. SameHands(j)
      BY <1>2, <1>3, <3>2, NotHandled
    <3>5. SameTasks(j)
      BY <1>2, <3>3, NotQueued
    <3> QED BY <3>4, <3>5
  <2>2. subscriptions[i] = "entity" =>
          /\ late' = [late EXCEPT ![i] = IF Broker!Replaying(i) THEN @ \cup {m} ELSE @]
          /\ UNCHANGED <<tasks, work, received>> \/ Broker!Invoke(i, m)
    BY <1>1, <1>2, DispatchDoes
  <2>3. CASE /\ late' = [late EXCEPT ![i] = IF Broker!Replaying(i) THEN @ \cup {m} ELSE @]
             /\ UNCHANGED <<tasks, work, received>> \/ Broker!Invoke(i, m)
    <3>1. late[j] \subseteq late'[j]
      BY <1>2, <2>3 DEF BrokerTypes
    <3>2. CASE UNCHANGED <<tasks, work, received>>
      BY <1>2, <1>3, <3>1, <3>2, NotHandled, NotQueued
    <3>3. CASE Broker!Invoke(i, m)
      BY <1>2, <1>3, <3>1, <3>3, NotInvokedFor
    <3> QED BY <2>3, <3>2, <3>3
  <2> QED BY <2>1, <2>2, <2>3
<1> QED BY <1>2, <1>4, <1>5, BrokerApart DEF BrokerInv

\* What dispatch finds: all that is there was sent before its message.
LEMMA DispatchFinds ==
  ASSUME BrokerInv, NEW i \in Ids, Broker!Dispatch(i), NEW m, m = sent[i] + 1
  PROVE  /\ BrokerTypes /\ BrokerTypes' /\ BrokerOf(i) /\ m \in Nat /\ m # 0
         /\ UNCHANGED <<kind, lifetime, running, handling>>
         /\ (subscriptions'[i] = "entity") = (subscriptions[i] = "entity")
         /\ sent'[i] = m /\ sent[i] <= sent'[i] /\ late[i] \subseteq late'[i] /\ OneOf(i, m)'
         /\ \A x : OneOf(i, x) => OneOf(i, x)' /\ x \in Nat /\ x < m
         /\ AllAhead(i, m)
<1>1. /\ BrokerTypes /\ BrokerTypes' /\ BrokerOf(i) /\ m \in Nat \ {0} /\ sent' = [sent EXCEPT ![i] = m]
      /\ UNCHANGED <<kind, lifetime, running, handling>>
      /\ (subscriptions'[i] = "entity") = (subscriptions[i] = "entity")
  BY DispatchDoes DEF BrokerInv
<1>2. sent'[i] = m /\ sent[i] \in Nat
  BY <1>1, BrokerAt DEF BrokerTypes
<1>3. late[i] \subseteq late'[i]
  <2>1. \/ late' = late
        \/ late' = [late EXCEPT ![i] = IF Broker!Replaying(i) THEN @ \cup {m} ELSE @]
    BY <1>1, DispatchDoes
  <2> QED BY <1>1, <2>1 DEF BrokerTypes
<1>4. OneOf(i, m)' /\ \A x : OneOf(i, x) => OneOf(i, x)' /\ x \in Nat /\ x < m
  BY <1>1, <1>2 DEF OneOf
<1>5. AllAhead(i, m)
  BY <1>1, <1>4 DEF BrokerOf, Handed, AllAhead, Ahead
<1> QED BY <1>1, <1>2, <1>3, <1>4, <1>5

\* A message without a subscriber is parked.
LEMMA ParkKeeps ==
  ASSUME BrokerInv, NEW i \in Ids, Broker!Dispatch(i), subscriptions[i] # "entity"
  PROVE  BrokerOf(i)'
<1>1. PICK m : m = sent[i] + 1
  OBVIOUS
<1>2. /\ BrokerTypes /\ BrokerTypes' /\ BrokerOf(i) /\ m \in Nat /\ m # 0
      /\ UNCHANGED <<kind, lifetime, running, handling>>
      /\ (subscriptions'[i] = "entity") = (subscriptions[i] = "entity")
      /\ sent'[i] = m /\ sent[i] <= sent'[i] /\ late[i] \subseteq late'[i] /\ OneOf(i, m)'
      /\ \A x : OneOf(i, x) => OneOf(i, x)' /\ x \in Nat /\ x < m
      /\ AllAhead(i, m)
  BY <1>1, DispatchFinds
<1>3. PICK node \in Nat : node = IF broker[i].node = 0 THEN m ELSE broker[i].node
  BY <1>2, BrokerAt
<1>4. PICK d, c : d = broker[i].default /\ c = broker[i].custom
  OBVIOUS
<1>5. PICK t \in BrokerTask : t = [does |-> "parked", id |-> i, node |-> node, message |-> m]
  BY <1>2 DEF BrokerTask
<1>6. /\ UNCHANGED <<work, received, late>> /\ tasks' = Append(tasks, t)
      /\ broker'[i].node = node /\ broker'[i].default = Append(d, m) /\ broker'[i].custom = c
  BY <1>1, <1>2, <1>3, <1>4, <1>5, DispatchDoes DEF Holds
<1>7. /\ lifetime[i] # "alive" /\ node # 0 /\ OneOf(i, node)' /\ TasksSent(i) /\ Orderly(i)
      /\ d \in Seq(Nat) /\ c \in Seq(Nat) /\ Rises(d)
      /\ \A k \in 1 .. Len(d) : OneOf(i, d[k])
      /\ \A k \in 1 .. Len(c) : OneOf(i, c[k])
      /\ broker[i].node = 0 => d = <<>>
  <2>1. broker[i].node \in Nat /\ d \in Seq(Nat) /\ c \in Seq(Nat)
    BY <1>2, <1>4, BrokerAt
  <2>2. /\ lifetime[i] # "alive" /\ TasksSent(i) /\ Orderly(i) /\ Rises(d)
        /\ \A k \in 1 .. Len(d) : OneOf(i, d[k])
        /\ \A k \in 1 .. Len(c) : OneOf(i, c[k])
        /\ broker[i].node = 0 => d = <<>>
        /\ broker[i].node <= sent[i]
    BY <1>2, <1>4 DEF BrokerOf, Kinds, Sent, Queued
  <2>3. node # 0 /\ OneOf(i, node)'
    BY <1>1, <1>2, <1>3, <2>1, <2>2, BrokerAt DEF OneOf
  <2> QED BY <2>1, <2>2, <2>3
<1>8. /\ Rises(Append(d, m)) /\ Append(d, m) # <<>> /\ Len(d) \in Nat
      /\ Len(Append(d, m)) = Len(d) + 1 /\ Append(d, m)[Len(d) + 1] = m
      /\ \A k \in 1 .. Len(d) : k \in 1 .. Len(Append(d, m)) /\ Append(d, m)[k] = d[k]
      /\ \A k \in 1 .. Len(Append(d, m)) : k \in 1 .. Len(d) \/ k = Len(d) + 1
  <2>1. \A k \in 1 .. Len(d) : d[k] < m
    BY <1>2, <1>7
  <2> QED BY <1>2, <1>7, <2>1, RisesMore
<1>9. /\ Len(tasks) \in Nat /\ Len(tasks') = Len(tasks) + 1 /\ tasks'[Len(tasks) + 1] = t
      /\ Len(tasks) + 1 \in 1 .. Len(tasks')
      /\ \A n \in 1 .. Len(tasks') : n \in 1 .. Len(tasks) \/ n = Len(tasks) + 1
      /\ \A n \in 1 .. Len(tasks) :
           /\ n \in 1 .. Len(tasks') /\ tasks'[n] = tasks[n]
           /\ Invokes(i, n)' = Invokes(i, n) /\ Parks(i, n)' = Parks(i, n)
      /\ TasksSent(i)' /\ Orderly(i)'
      /\ \A y : y < m => /\ InvokedAfter(i, y) => InvokedAfter(i, y)'
                         /\ QueuedAfter(i, y) => QueuedAfter(i, y)'
      /\ NotInvoked(i) => NotInvoked(i)'
      /\ t.message = m
  <2>1. t.id = i /\ t.message = m /\ t.does = "parked" /\ t.node = node
    BY <1>5
  <2>2. broker'[i].node = broker[i].node \/ (broker[i].node = 0 /\ broker'[i].node = m)
    BY <1>3, <1>6
  <2>3. /\ BrokerTypes /\ m = sent[i] + 1 /\ sent'[i] = m /\ TasksSent(i) /\ Orderly(i)
        /\ tasks' = Append(tasks, t)
    BY <1>1, <1>2, <1>6, <1>7
  <2>4. OneOf(i, t.node)'
    BY <1>7, <2>1 DEF OneOf
  <2> QED BY <2>1, <2>2, <2>3, <2>4, TaskQueued
<1>10. \A n : n = Len(tasks) + 1 => Parks(i, n)'
  BY <1>5, <1>6, <1>9 DEF Parks
<1>11. /\ InHand(i)' = InHand(i) /\ Replays(i)' = Replays(i)
       /\ Pops(i)' => Pops(i) /\ d # <<>> /\ QueuedAfter(i, d[1]) /\ d[1] < m /\ Append(d, m)[1] = d[1]
       /\ Pops(i) => Pops(i)'
  <2>1. InHand(i)' = InHand(i) /\ Replays(i)' = Replays(i)
    BY <1>2 DEF InHand, Replays
  <2>2. running.at = "popping" => running # Broker!Idle
    BY BrokerNames
  <2>3. (Pops(i)' => Pops(i)) /\ (Pops(i) => Pops(i)')
    <3>1. CASE broker[i].node = 0
      <4>1. running.at = "popping" /\ running.id = i => OneOf(i, running.node)
        BY <1>2, <2>2 DEF BrokerOf, Sent
      <4>2. running.at = "popping" /\ running.id = i => running.node < m /\ running.node # 0
        BY <1>2, <4>1 DEF OneOf
      <4>3. broker'[i].node = m
        BY <1>3, <1>6, <3>1
      <4>4. ~Pops(i)
        BY <3>1, <4>2 DEF Pops
      <4>5. ~Pops(i)'
        BY <1>2, <4>2, <4>3 DEF Pops
      <4> QED BY <4>4, <4>5
    <3>2. CASE broker[i].node # 0
      BY <1>2, <1>3, <1>6, <3>2 DEF Pops
    <3> QED BY <3>1, <3>2
  <2>4. Pops(i) => d # <<>> /\ QueuedAfter(i, d[1])
    BY <1>2, <1>4 DEF BrokerOf, Queued
  <2>5. d # <<>> => d[1] < m /\ Append(d, m)[1] = d[1]
    <3>1. d # <<>> => Len(d) > 0
      BY <1>7, QueueShrinks
    <3>2. d # <<>> => 1 \in 1 .. Len(d)
      BY <1>8, <3>1
    <3> QED BY <1>2, <1>7, <1>8, <3>2
  <2> QED BY <2>1, <2>3, <2>4, <2>5
<1>12. Handed(i)' /\ StaysAhead(i)
  BY <1>2, <1>6, NotHandled, HandStays DEF BrokerOf
<1>13. InvokesAhead(i)'
  BY <1>2, <1>6, <1>9 DEF BrokerOf, InvokesAhead, Handed
<1>14. Sent(i)'
  <2>1. \A k \in 1 .. Len(broker'[i].default) : OneOf(i, broker[i].default[k])'
    BY <1>2, <1>6, <1>7, <1>8
  <2>2. \A k \in 1 .. Len(broker'[i].custom) : OneOf(i, broker[i].custom[k])'
    BY <1>2, <1>6, <1>7
  <2>3. broker'[i].node <= sent'[i]
    BY <1>6, <1>7 DEF OneOf
  <2>4. (/\ InHand(i) => OneOf(i, running.message)
         /\ running # Broker!Idle /\ running.id = i => OneOf(i, running.node)
         /\ Replays(i) => \A j \in 1 .. Len(running.replay) : OneOf(i, running.replay[j]))'
    BY <1>2, <1>11 DEF BrokerOf, Sent
  <2> QED BY <1>9, <2>1, <2>2, <2>3, <2>4 DEF Sent
<1>15. Kinds(i)'
  BY <1>2, <1>4, <1>6, <1>7, <1>9, <1>11 DEF BrokerOf, Kinds
<1>16. Queued(i)'
  <2>1. ~(running.at = "erasing" /\ running.id = i) => Wanted(i)'
    <3> SUFFICES ASSUME Wanted(i), NEW n \in 1 .. Len(tasks'), Parks(i, n)'
                 PROVE  \E k \in 1 .. Len(Append(d, m)) : Append(d, m)[k] = tasks'[n].message
      BY <1>2, <1>6 DEF BrokerOf, Queued, Wanted
    <3>1. CASE n \in 1 .. Len(tasks)
      BY <1>4, <1>8, <1>9, <3>1 DEF Wanted
    <3>2. CASE n = Len(tasks) + 1
      <4>1. Len(d) + 1 \in 1 .. Len(Append(d, m))
        BY <1>8
      <4> QED BY <1>8, <1>9, <3>2, <4>1
    <3> QED BY <1>9, <3>1, <3>2
  <2>2. \A k \in 1 .. Len(Append(d, m)) : (k = 1 /\ Pops(i)') \/ Fetched(i, k)'
    <3> SUFFICES ASSUME NEW k \in 1 .. Len(Append(d, m)), ~(k = 1 /\ Pops(i)')
                 PROVE  \E n \in 1 .. Len(tasks') : Parks(i, n)' /\ tasks'[n].message = Append(d, m)[k]
      BY <1>6 DEF Fetched
    <3>1. CASE k \in 1 .. Len(d)
      <4>1. PICK n \in 1 .. Len(tasks) : Parks(i, n) /\ tasks[n].message = d[k]
        BY <1>2, <1>4, <1>11, <3>1 DEF BrokerOf, Queued, Fetched
      <4> QED BY <1>8, <1>9, <3>1, <4>1
    <3>2. CASE k = Len(d) + 1
      BY <1>8, <1>9, <1>10, <3>2
    <3> QED BY <1>8, <3>1, <3>2
  <2>3. Pops(i)' => Append(d, m) # <<>> /\ \A y : y = Append(d, m)[1] => QueuedAfter(i, y)'
    BY <1>8, <1>9, <1>11
  <2> QED BY <1>2, <1>6, <1>8, <1>9, <2>1, <2>2, <2>3 DEF Queued
<1>17. Held(i)'
  <2> SUFFICES ASSUME lifetime[i] # "over"
               PROVE  Held(i)'
    BY <1>2 DEF Held
  <2>1. c = <<>> /\ (Replays(i) => running.replay = <<>>)
    BY <1>2, <1>4, <1>7 DEF BrokerOf, Kinds, BrokerTypes
  <2>2. \A k \in 1 .. Len(d) : AllAhead(i, d[k])
    BY <1>2, <1>4 DEF BrokerOf, Held
  <2>3. \A k \in 1 .. Len(Append(d, m)) : AllAhead(i, Append(d, m)[k])'
    BY <1>2, <1>7, <1>8, <1>12, <2>2 DEF StaysAhead
  <2>4. InHand(i) => /\ AllAhead(i, running.message) /\ running.message < m
                     /\ \A k \in 1 .. Len(d) : running.message < d[k]
                     /\ InvokedAfter(i, running.message)
    BY <1>2, <1>4 DEF BrokerOf, Held, Sent
  <2>5. PICK r : r = running.message
    OBVIOUS
  <2>6. InHand(i)' => /\ AllAhead(i, r)' /\ InvokedAfter(i, r)'
                      /\ \A k \in 1 .. Len(Append(d, m)) : r < Append(d, m)[k]
    <3>1. InHand(i) => r \in Nat
      BY <1>2, <2>5, BrokerNames, BrokerQueues DEF InHand
    <3> QED BY <1>8, <1>9, <1>11, <1>12, <2>4, <2>5, <3>1 DEF StaysAhead
  <2> QED BY <1>2, <1>6, <1>11, <2>1, <2>3, <2>5, <2>6 DEF Held, Rises
<1> QED BY <1>12, <1>13, <1>14, <1>15, <1>16, <1>17 DEF BrokerOf

\* A message for a scheduler that keeps the order waits while others are parked.
LEMMA PutAsideKeeps ==
  ASSUME BrokerInv, NEW i \in Ids, Broker!Dispatch(i), subscriptions[i] = "entity", Broker!MustWait(i)
  PROVE  BrokerOf(i)'
<1>1. PICK m : m = sent[i] + 1
  OBVIOUS
<1>2. /\ BrokerTypes /\ BrokerTypes' /\ BrokerOf(i) /\ m \in Nat /\ m # 0
      /\ UNCHANGED <<kind, lifetime, running, handling>>
      /\ (subscriptions'[i] = "entity") = (subscriptions[i] = "entity")
      /\ sent'[i] = m /\ sent[i] <= sent'[i] /\ late[i] \subseteq late'[i] /\ OneOf(i, m)'
      /\ \A x : OneOf(i, x) => OneOf(i, x)' /\ x \in Nat /\ x < m
      /\ AllAhead(i, m)
  BY <1>1, DispatchFinds
<1>3. PICK d, c : d = broker[i].default /\ c = broker[i].custom
  OBVIOUS
<1>4. /\ UNCHANGED <<tasks, work, received>>
      /\ broker'[i].node = broker[i].node /\ broker'[i].default = d /\ broker'[i].custom = Append(c, m)
  BY <1>1, <1>2, <1>3, DispatchDoes DEF Holds
<1>5. /\ lifetime[i] = "alive" /\ kind[i] \notin {"default", "outOfOrder"} /\ broker[i].node # 0
      /\ d \in Seq(Nat) /\ c \in Seq(Nat) /\ Rises(c)
      /\ \A k \in 1 .. Len(d) : OneOf(i, d[k]) /\ AllAhead(i, d[k])
      /\ \A n \in 1 .. Len(c) : OneOf(i, c[n]) /\ AllAhead(i, c[n])
      /\ \A n \in 1 .. Len(c) : \A k \in 1 .. Len(d) : d[k] < c[n]
  <2>1. lifetime[i] = "alive"
    BY <1>2 DEF BrokerOf, Kinds
  <2>2. d \in Seq(Nat) /\ c \in Seq(Nat)
    BY <1>2, <1>3, BrokerAt
  <2>3. kind[i] \notin {"default", "outOfOrder"} /\ broker[i].node # 0
    BY DEF Broker!MustWait
  <2>4. /\ Rises(c)
        /\ \A k \in 1 .. Len(d) : AllAhead(i, d[k])
        /\ \A n \in 1 .. Len(c) : AllAhead(i, c[n]) /\ \A k \in 1 .. Len(d) : d[k] < c[n]
    BY <1>2, <1>3, <2>1 DEF BrokerOf, Held
  <2>5. /\ \A k \in 1 .. Len(d) : OneOf(i, d[k])
        /\ \A n \in 1 .. Len(c) : OneOf(i, c[n])
    BY <1>2, <1>3 DEF BrokerOf, Sent
  <2> QED BY <2>1, <2>2, <2>3, <2>4, <2>5
<1>6. /\ Rises(Append(c, m)) /\ Len(c) \in Nat
      /\ Len(Append(c, m)) = Len(c) + 1 /\ Append(c, m)[Len(c) + 1] = m
      /\ \A k \in 1 .. Len(c) : k \in 1 .. Len(Append(c, m)) /\ Append(c, m)[k] = c[k]
      /\ \A k \in 1 .. Len(Append(c, m)) : k \in 1 .. Len(c) \/ k = Len(c) + 1
  <2>1. \A k \in 1 .. Len(c) : c[k] < m
    BY <1>2, <1>5
  <2> QED BY <1>2, <1>5, <2>1, RisesMore
<1>7. /\ InHand(i)' = InHand(i) /\ Replays(i)' = Replays(i) /\ Pops(i)' = Pops(i)
      /\ \A n : Invokes(i, n)' = Invokes(i, n)
      /\ \A n : Parks(i, n)' = Parks(i, n)
  <2>1. InHand(i)' = InHand(i) /\ Replays(i)' = Replays(i)
    BY <1>2 DEF InHand, Replays
  <2>2. Pops(i)' = Pops(i)
    BY <1>2, <1>4 DEF Pops
  <2>3. /\ \A n : Invokes(i, n)' = Invokes(i, n)
        /\ \A n : Parks(i, n)' = Parks(i, n)
    BY <1>4 DEF Invokes, Parks
  <2> QED BY <2>1, <2>2, <2>3
<1>8. /\ TasksSent(i)' /\ NotInvoked(i)' = NotInvoked(i) /\ Orderly(i)' = Orderly(i)
      /\ Wanted(i)' = Wanted(i)
      /\ \A k : Fetched(i, k)' = Fetched(i, k)
      /\ \A y : InvokedAfter(i, y)' = InvokedAfter(i, y)
      /\ \A y : QueuedAfter(i, y)' = QueuedAfter(i, y)
  <2>1. TasksSent(i)'
    BY <1>2, <1>4 DEF TasksSent, BrokerOf, Sent
  <2>2. NotInvoked(i)' = NotInvoked(i) /\ Orderly(i)' = Orderly(i)
    BY <1>4, <1>7 DEF NotInvoked, Orderly
  <2>3. Wanted(i)' = Wanted(i) /\ \A k : Fetched(i, k)' = Fetched(i, k)
    BY <1>3, <1>4, <1>7 DEF Wanted, Fetched
  <2>4. /\ \A y : InvokedAfter(i, y)' = InvokedAfter(i, y)
        /\ \A y : QueuedAfter(i, y)' = QueuedAfter(i, y)
    BY <1>4, <1>7 DEF InvokedAfter, QueuedAfter
  <2> QED BY <2>1, <2>2, <2>3, <2>4
<1>9. Handed(i)' /\ StaysAhead(i)
  BY <1>2, <1>4, NotHandled, HandStays DEF BrokerOf
<1>10. InvokesAhead(i)'
  BY <1>2, <1>4, <1>8 DEF BrokerOf, InvokesAhead
<1>11. Sent(i)'
  <2>1. \A k \in 1 .. Len(broker'[i].default) : OneOf(i, broker[i].default[k])'
    BY <1>2, <1>4, <1>5
  <2>2. \A k \in 1 .. Len(broker'[i].custom) : OneOf(i, broker[i].custom[k])'
    BY <1>2, <1>4, <1>5, <1>6
  <2>3. broker'[i].node <= sent'[i]
    <3>1. broker[i].node \in Nat /\ sent[i] \in Nat /\ broker[i].node <= sent[i]
      BY <1>2, BrokerAt DEF BrokerOf, Sent
    <3> QED BY <1>1, <1>2, <1>4, <3>1
  <2>4. (/\ InHand(i) => OneOf(i, running.message)
         /\ running # Broker!Idle /\ running.id = i => OneOf(i, running.node)
         /\ Replays(i) => \A j \in 1 .. Len(running.replay) : OneOf(i, running.replay[j]))'
    BY <1>2, <1>7 DEF BrokerOf, Sent
  <2> QED BY <1>8, <2>1, <2>2, <2>3, <2>4 DEF Sent
<1>12. Kinds(i)'
  BY <1>2, <1>4, <1>5, <1>7, <1>8 DEF BrokerOf, Kinds
<1>13. Queued(i)'
  BY <1>2, <1>3, <1>4, <1>7, <1>8 DEF BrokerOf, Queued
<1>14. Held(i)'
  <2>1. \A k \in 1 .. Len(d) : AllAhead(i, d[k])'
    BY <1>2, <1>5, <1>9 DEF StaysAhead
  <2>2. \A n \in 1 .. Len(Append(c, m)) :
          AllAhead(i, Append(c, m)[n])' /\ \A k \in 1 .. Len(d) : d[k] < Append(c, m)[n]
    BY <1>2, <1>5, <1>6, <1>9 DEF StaysAhead
  <2>3. PICK r, q : r = running.message /\ q = running.replay
    OBVIOUS
  <2>4. InHand(i)' => /\ AllAhead(i, r)' /\ InvokedAfter(i, r)'
                      /\ \A k \in 1 .. Len(d) : r < d[k]
                      /\ \A n \in 1 .. Len(Append(c, m)) : r < Append(c, m)[n]
    <3>1. InHand(i) => r \in Nat
      BY <1>2, <2>3, BrokerNames, BrokerQueues DEF InHand
    <3>2. InHand(i) => /\ AllAhead(i, r) /\ InvokedAfter(i, r) /\ OneOf(i, r)
                       /\ \A k \in 1 .. Len(d) : r < d[k]
                       /\ \A n \in 1 .. Len(c) : r < c[n]
      BY <1>2, <1>3, <1>5, <2>3 DEF BrokerOf, Held, Sent
    <3> QED BY <1>2, <1>6, <1>7, <1>8, <1>9, <3>1, <3>2 DEF StaysAhead
  <2>5. Replays(i)' => Rises(q) /\ \A k \in 1 .. Len(q) : AllAhead(i, q[k])'
    <3>1. Replays(i) => \A k \in 1 .. Len(q) : q[k] \in Nat
      BY <1>2, <2>3, BrokerNames, BrokerQueues DEF Replays
    <3>2. Replays(i) => Rises(q) /\ \A k \in 1 .. Len(q) : AllAhead(i, q[k])
      BY <1>2, <1>5, <2>3 DEF BrokerOf, Held
    <3> QED BY <1>7, <1>9, <3>1, <3>2 DEF StaysAhead
  <2> QED BY <1>2, <1>4, <1>6, <2>1, <2>2, <2>3, <2>4, <2>5 DEF Held
<1> QED BY <1>9, <1>10, <1>11, <1>12, <1>13, <1>14 DEF BrokerOf

\* A message goes to its subscriber.
LEMMA InvokeKeeps ==
  ASSUME BrokerInv, NEW i \in Ids, Broker!Dispatch(i), subscriptions[i] = "entity", ~Broker!MustWait(i)
  PROVE  BrokerOf(i)'
<1>1. PICK m : m = sent[i] + 1
  OBVIOUS
<1>2. /\ BrokerTypes /\ BrokerTypes' /\ BrokerOf(i) /\ m \in Nat /\ m # 0
      /\ UNCHANGED <<kind, lifetime, running, handling>>
      /\ (subscriptions'[i] = "entity") = (subscriptions[i] = "entity")
      /\ sent'[i] = m /\ sent[i] <= sent'[i] /\ late[i] \subseteq late'[i] /\ OneOf(i, m)'
      /\ \A x : OneOf(i, x) => OneOf(i, x)' /\ x \in Nat /\ x < m
      /\ AllAhead(i, m)
  BY <1>1, DispatchFinds
<1>3. /\ Broker!Invoke(i, m) /\ UNCHANGED broker
      /\ late' = [late EXCEPT ![i] = IF Broker!Replaying(i) THEN @ \cup {m} ELSE @]
  BY <1>1, <1>2, DispatchDoes
<1>4. PICK d, c, q, r : d = broker[i].default /\ c = broker[i].custom /\ q = running.replay /\ r = running.message
  OBVIOUS
<1>5. /\ lifetime[i] = "alive" /\ (kind[i] \in {"default", "outOfOrder"} \/ broker[i].node = 0)
      /\ \A k \in 1 .. Len(d) : d[k] \in Nat /\ OneOf(i, d[k]) /\ AllAhead(i, d[k])
      /\ \A n \in 1 .. Len(c) : c[n] \in Nat /\ OneOf(i, c[n]) /\ AllAhead(i, c[n])
      /\ Rises(c) /\ \A n \in 1 .. Len(c) : \A k \in 1 .. Len(d) : d[k] < c[n]
      /\ InHand(i) => /\ r \in Nat /\ OneOf(i, r) /\ AllAhead(i, r) /\ InvokedAfter(i, r)
                      /\ \A k \in 1 .. Len(d) : r < d[k]
                      /\ \A n \in 1 .. Len(c) : r < c[n]
      /\ Replays(i) => Rises(q) /\ \A k \in 1 .. Len(q) : q[k] \in Nat /\ OneOf(i, q[k]) /\ AllAhead(i, q[k])
  <2>1. lifetime[i] = "alive"
    BY <1>2 DEF BrokerOf, Kinds
  <2>2. kind[i] \in {"default", "outOfOrder"} \/ broker[i].node = 0
    BY DEF Broker!MustWait
  <2>3. /\ \A k \in 1 .. Len(d) : OneOf(i, d[k])
        /\ \A n \in 1 .. Len(c) : OneOf(i, c[n])
        /\ InHand(i) => OneOf(i, r)
        /\ Replays(i) => \A k \in 1 .. Len(q) : OneOf(i, q[k])
    BY <1>2, <1>4 DEF BrokerOf, Sent
  <2>4. /\ \A k \in 1 .. Len(d) : AllAhead(i, d[k])
        /\ Rises(c)
        /\ \A n \in 1 .. Len(c) : AllAhead(i, c[n]) /\ \A k \in 1 .. Len(d) : d[k] < c[n]
        /\ InHand(i) => /\ AllAhead(i, r) /\ InvokedAfter(i, r)
                        /\ \A k \in 1 .. Len(d) : r < d[k]
                        /\ \A n \in 1 .. Len(c) : r < c[n]
        /\ Replays(i) => Rises(q) /\ \A k \in 1 .. Len(q) : AllAhead(i, q[k])
    BY <1>2, <1>4, <2>1 DEF BrokerOf, Held
  <2> QED BY <1>2, <2>1, <2>2, <2>3, <2>4
<1>6. /\ InHand(i)' = InHand(i) /\ Replays(i)' = Replays(i) /\ Pops(i)' = Pops(i)
  BY <1>2, <1>3 DEF InHand, Replays, Pops
<1>7. Sent(i)' \/ ~TasksSent(i)'
  <2>1. \A k \in 1 .. Len(broker'[i].default) : OneOf(i, broker[i].default[k])'
    BY <1>2, <1>3, <1>4, <1>5
  <2>2. \A k \in 1 .. Len(broker'[i].custom) : OneOf(i, broker[i].custom[k])'
    BY <1>2, <1>3, <1>4, <1>5
  <2>3. broker'[i].node <= sent'[i]
    <3>1. broker[i].node \in Nat /\ sent[i] \in Nat /\ broker[i].node <= sent[i]
      BY <1>2, BrokerAt DEF BrokerOf, Sent
    <3> QED BY <1>1, <1>2, <1>3, <3>1
  <2>4. (/\ InHand(i) => OneOf(i, running.message)
         /\ running # Broker!Idle /\ running.id = i => OneOf(i, running.node)
         /\ Replays(i) => \A j \in 1 .. Len(running.replay) : OneOf(i, running.replay[j]))'
    BY <1>2, <1>6 DEF BrokerOf, Sent
  <2> QED BY <2>1, <2>2, <2>3, <2>4 DEF Sent
<1>8. CASE kind[i] = "default"
  <2>1. PICK t \in BrokerTask : t = [does |-> "invoke", id |-> i, message |-> m]
    BY <1>2 DEF BrokerTask
  <2>2. tasks' = Append(tasks, t) /\ UNCHANGED <<work, received>>
    BY <1>2, <1>3, <1>8, <2>1, InvokeDoes
  <2>3. TasksSent(i) /\ Orderly(i)
    BY <1>2 DEF BrokerOf, Sent, Queued
  <2>4. t.id = i /\ t.message = m /\ t.does = "invoke"
    BY <2>1
  <2>5. /\ \A n \in 1 .. Len(tasks') : n \in 1 .. Len(tasks) \/ n = Len(tasks) + 1
        /\ tasks'[Len(tasks) + 1] = t
        /\ \A n \in 1 .. Len(tasks) :
             /\ n \in 1 .. Len(tasks') /\ tasks'[n] = tasks[n]
             /\ Invokes(i, n)' = Invokes(i, n) /\ Parks(i, n)' = Parks(i, n)
        /\ TasksSent(i)' /\ Orderly(i)'
        /\ \A y : y < m => /\ InvokedAfter(i, y) => InvokedAfter(i, y)'
                           /\ QueuedAfter(i, y) => QueuedAfter(i, y)'
    BY <1>1, <1>2, <1>3, <2>2, <2>3, <2>4, TaskQueued
  <2>6. \A n \in 1 .. Len(tasks') : Parks(i, n)' => n \in 1 .. Len(tasks)
    BY <2>4, <2>5 DEF Parks
  <2>7. Handed(i)' /\ StaysAhead(i)
    BY <1>2, <2>2, NotHandled, HandStays DEF BrokerOf
  <2>8. InvokesAhead(i)'
    BY <1>2, <2>2, <2>5 DEF BrokerOf, InvokesAhead, Handed
  <2>9. Sent(i)'
    BY <1>7, <2>5
  <2>10. Kinds(i)'
    BY <1>2, <1>3, <1>6, <1>8 DEF BrokerOf, Kinds
  <2>11. Queued(i)'
    <3>1. Wanted(i) => Wanted(i)'
      BY <1>3, <2>5, <2>6 DEF Wanted
    <3>2. \A k : Fetched(i, k) => Fetched(i, k)'
      BY <1>3, <2>5 DEF Fetched
    <3>3. Pops(i) => d # <<>> /\ QueuedAfter(i, d[1]) /\ d[1] < m
      <4>1. Pops(i) => d # <<>> /\ QueuedAfter(i, d[1])
        BY <1>2, <1>4 DEF BrokerOf, Queued
      <4>2. d # <<>> => 1 \in 1 .. Len(d)
        <5>1. d \in Seq(Nat)
          BY <1>2, <1>4, BrokerAt
        <5>2. d # <<>> => Len(d) \in Nat /\ Len(d) > 0
          BY <5>1, QueueShrinks
        <5> QED BY <5>2
      <4> QED BY <1>2, <1>5, <4>1, <4>2
    <3> QED BY <1>2, <1>3, <1>4, <1>6, <2>5, <3>1, <3>2, <3>3 DEF BrokerOf, Queued
  <2>12. Held(i)'
    <3>1. InHand(i)' => AllAhead(i, r)' /\ InvokedAfter(i, r)'
      BY <1>2, <1>5, <1>6, <2>5, <2>7 DEF StaysAhead
    <3>2. Replays(i)' => \A k \in 1 .. Len(q) : AllAhead(i, q[k])'
      BY <1>5, <1>6, <2>7 DEF StaysAhead
    <3>3. /\ \A k \in 1 .. Len(d) : AllAhead(i, d[k])'
          /\ \A n \in 1 .. Len(c) : AllAhead(i, c[n])'
      BY <1>5, <2>7 DEF StaysAhead
    <3> QED BY <1>2, <1>3, <1>4, <1>5, <1>6, <3>1, <3>2, <3>3 DEF Held
  <2> QED BY <2>7, <2>8, <2>9, <2>10, <2>11, <2>12 DEF BrokerOf
<1>9. CASE kind[i] # "default"
  <2>1. /\ UNCHANGED tasks
        /\ \/ UNCHANGED <<work, received>>
           \/ kind[i] = "single" /\ work' = Append(work, <<i, m>>) /\ UNCHANGED received
           \/ kind[i] # "single" /\ received'[i] = Append(received[i], m) /\ UNCHANGED work
    BY <1>2, <1>3, <1>9, InvokeDoes
  <2>2. Handed(i)' /\ PassesAhead(i, m)
    BY <1>2, <2>1, HandedOver DEF BrokerOf
  <2>3. /\ \A n : Invokes(i, n)' = Invokes(i, n)
        /\ \A n : Parks(i, n)' = Parks(i, n)
    BY <1>3, <2>1 DEF Invokes, Parks
  <2>4. /\ TasksSent(i)' /\ NotInvoked(i) /\ NotInvoked(i)' /\ Orderly(i)' = Orderly(i)
        /\ Wanted(i)' = Wanted(i)
        /\ \A k : Fetched(i, k)' = Fetched(i, k)
        /\ \A y : InvokedAfter(i, y)'
        /\ \A y : QueuedAfter(i, y)' = QueuedAfter(i, y)
    <3>1. TasksSent(i)'
      BY <1>2, <2>1 DEF TasksSent, BrokerOf, Sent
    <3>2. NotInvoked(i)
      BY <1>2, <1>9 DEF BrokerOf, Kinds
    <3>3. NotInvoked(i)' /\ Orderly(i)' = Orderly(i) /\ \A y : InvokedAfter(i, y)'
      BY <2>1, <2>3, <3>2 DEF NotInvoked, Orderly, InvokedAfter
    <3>4. /\ Wanted(i)' = Wanted(i) /\ \A k : Fetched(i, k)' = Fetched(i, k)
          /\ \A y : QueuedAfter(i, y)' = QueuedAfter(i, y)
      BY <1>3, <2>1, <2>3 DEF Wanted, Fetched, QueuedAfter
    <3> QED BY <3>1, <3>2, <3>3, <3>4
  <2>5. InvokesAhead(i)'
    BY <2>4 DEF InvokesAhead
  <2>6. Sent(i)'
    BY <1>7, <2>4
  <2>7. Kinds(i)'
    BY <1>2, <1>3, <1>6, <2>4 DEF BrokerOf, Kinds
  <2>8. Queued(i)'
    BY <1>2, <1>3, <1>6, <2>4 DEF BrokerOf, Queued
  <2>9. Held(i)'
    <3>1. CASE kind[i] = "outOfOrder"
      <4>1. \A y \in Nat : OneOf(i, y) /\ AllAhead(i, y) => AllAhead(i, y)'
        <5>1. \A y : OneOf(i, y) => Ahead(i, m, y)'
          BY <1>2, <3>1 DEF Ahead
        <5> QED BY <2>2, <5>1 DEF PassesAhead
      <4> QED BY <1>2, <1>3, <1>4, <1>5, <1>6, <2>4, <4>1 DEF Held
    <3>2. CASE broker[i].node = 0
      <4>1. d = <<>> /\ c = <<>> /\ ~InHand(i)
        BY <1>2, <1>4, <3>2 DEF BrokerOf, Kinds
      <4>2. ASSUME Replays(i), NEW k \in 1 .. Len(q)
            PROVE  AllAhead(i, q[k])'
        <5>1. m \in late'[i]
          BY <1>2, <1>3, <4>2 DEF Replays, Broker!Replaying, BrokerTypes
        <5>2. Ahead(i, m, q[k])'
          BY <1>2, <1>5, <1>9, <4>2, <5>1 DEF Ahead
        <5> QED BY <1>5, <2>2, <4>2, <5>2 DEF PassesAhead
      <4> QED BY <1>2, <1>3, <1>4, <1>5, <1>6, <4>1, <4>2 DEF Held
    <3> QED BY <1>5, <1>9, <3>1, <3>2
  <2> QED BY <2>2, <2>5, <2>6, <2>7, <2>8, <2>9 DEF BrokerOf
<1> QED BY <1>8, <1>9

\* dispatch keeps the invariant, whatever becomes of the message.
LEMMA DispatchKeeps ==
  ASSUME BrokerInv, NEW i \in Ids, Broker!Dispatch(i)
  PROVE  BrokerInv'
<1>1. BrokerTypes'
  BY DispatchDoes DEF BrokerInv
<1>2. BrokerOf(i)'
  BY ParkKeeps, PutAsideKeeps, InvokeKeeps
<1>3. \A j \in Ids : j # i => BrokerOf(j)'
  BY DispatchApart
<1> QED BY <1>1, <1>2, <1>3 DEF BrokerInv

\* The broker begins with nothing.
LEMMA BrokerInit == ASSUME Broker!Init PROVE BrokerInv
<1>1. /\ kind \in [Ids -> Broker!Schedulers]
      /\ subscriptions = [i \in Ids |-> "absent"] /\ lifetime = [i \in Ids |-> "none"]
      /\ broker = [i \in Ids |-> Broker!NoMq] /\ tasks = <<>> /\ running = Broker!Idle
      /\ work = <<>> /\ handling = Broker!Nothing /\ sent = [i \in Ids |-> 0]
      /\ received = [i \in Ids |-> <<>>] /\ late = [i \in Ids |-> {}]
  BY DEF Broker!Init
<1>2. /\ Broker!NoMq \in BrokerEntry /\ Broker!NoMq.node = 0
      /\ Broker!NoMq.default = <<>> /\ Broker!NoMq.custom = <<>>
  BY DEF Broker!NoMq, BrokerEntry
<1>3. BrokerTypes
  BY <1>1, <1>2, BrokerNames DEF BrokerTypes
<1>4. Len(tasks) = 0 /\ Len(work) = 0 /\ running.at = "idle"
  BY <1>1, BrokerNames
<1>5. ASSUME NEW i \in Ids PROVE BrokerOf(i)
  <2>1. /\ broker[i].node = 0 /\ broker[i].default = <<>> /\ broker[i].custom = <<>>
        /\ received[i] = <<>> /\ sent[i] = 0 /\ lifetime[i] = "none" /\ subscriptions[i] = "absent"
    BY <1>1, <1>2
  <2>2. Len(broker[i].default) = 0 /\ Len(broker[i].custom) = 0 /\ Len(received[i]) = 0
    BY <2>1
  <2>3. /\ ~Handles(i) /\ ~Pops(i) /\ ~InHand(i) /\ ~Replays(i)
        /\ running.at # "popping" /\ running.at # "replaying" /\ running = Broker!Idle
    BY <1>1, <1>4 DEF Handles, Pops, InHand, Replays
  <2>4. Sent(i) /\ Kinds(i)
    BY <1>4, <2>1, <2>2, <2>3 DEF Sent, Kinds, TasksSent, NotInvoked
  <2>5. Handed(i) /\ InvokesAhead(i)
    BY <1>4, <2>1, <2>2, <2>3 DEF Handed, InvokesAhead
  <2>6. Queued(i) /\ Held(i)
    BY <1>4, <2>1, <2>2, <2>3 DEF Queued, Held, Rises, Orderly, Wanted
  <2> QED BY <2>4, <2>5, <2>6 DEF BrokerOf
<1> QED BY <1>3, <1>5 DEF BrokerInv

\* While the broker rests, what holds of it does.
LEMMA BrokerRests == ASSUME BrokerInv, UNCHANGED brokerRest PROVE BrokerInv'
<1>1. BrokerTypes'
  BY DEF brokerRest, BrokerInv, BrokerTypes
<1>2. ASSUME NEW i \in Ids PROVE BrokerOf(i)'
  <2>1. BrokerOf(i)
    BY DEF BrokerInv
  <2>2. Sent(i)' /\ Kinds(i)'
    BY <2>1 DEF brokerRest, BrokerOf, Sent, Kinds, TasksSent, NotInvoked, OneOf, InHand, Replays, Invokes
  <2>3. Handed(i)' /\ InvokesAhead(i)'
    BY <2>1 DEF brokerRest, BrokerOf, Handed, InvokesAhead, InvokedAfter, OneOf, Handles, InWork, Ahead, Invokes
  <2>4. Queued(i)'
    BY <2>1 DEF brokerRest, BrokerOf, Queued, Rises, Orderly, Wanted, Fetched, QueuedAfter, Pops, Parks, Invokes
  <2>5. Held(i)'
    BY <2>1 DEF brokerRest, BrokerOf, Held, Rises, AllAhead, Ahead, Handles, InWork, InHand, Replays, InvokedAfter, Invokes
  <2> QED BY <2>2, <2>3, <2>4, <2>5 DEF BrokerOf
<1> QED BY <1>1, <1>2 DEF BrokerInv

\* Every step of the broker keeps its invariant.
LEMMA BrokerStep == ASSUME BrokerInv, [PartNext]_partVars PROVE BrokerInv'
<1>1. CASE UNCHANGED brokerRest
  BY <1>1, BrokerRests
<1>2. CASE Broker!Next
  <2>1. CASE \E i \in Ids : Broker!Dispatch(i) \/ Broker!AdviseOn(i) \/ Broker!Terminate(i)
    BY <2>1, DispatchKeeps, AdviseOnKeeps, TerminateKeeps
  <2>2. CASE Broker!RunInvoked \/ Broker!RunParked \/ Broker!Pop \/ Broker!InvokePopped
    BY <2>2, RunInvokedKeeps, RunParkedKeeps, PopKeeps, InvokePoppedKeeps
  <2>3. CASE Broker!CheckEmpty \/ Broker!Move \/ Broker!Erase \/ Broker!Replay
    BY <2>3, CheckEmptyKeeps, MoveKeeps, EraseKeeps, ReplayKeeps
  <2>4. CASE Broker!TakeWork \/ Broker!Handle
    BY <2>4, TakeWorkKeeps, HandleKeeps
  <2> QED BY <1>2, <2>1, <2>2, <2>3, <2>4 DEF Broker!Next
<1>3. Broker!Next \/ UNCHANGED brokerRest
  BY DEF PartNext, partVars, Only
<1> QED BY <1>1, <1>2, <1>3

\* What the invariant of the broker means.
LEMMA BrokerMeans == ASSUME BrokerInv PROVE Broker!TypeOK /\ Broker!KeepsOrder
<1>1. BrokerTypes
  BY DEF BrokerInv
<1>2. ASSUME NEW i \in Ids, NEW j \in 1 .. Len(received[i]), NEW k \in 1 .. Len(received[i]), j < k
      PROVE  \/ received[i][j] < received[i][k]
             \/ /\ received[i][j] # received[i][k]
                /\ \/ kind[i] = "outOfOrder"
                   \/ kind[i] # "default" /\ received[i][j] \in late[i]
  BY <1>2 DEF BrokerInv, BrokerOf, Handed, Ahead
<1>3. Broker!KeepsOrder
  BY <1>2 DEF Broker!KeepsOrder
<1>4. ASSUME NEW i \in Ids
      PROVE  /\ (subscriptions[i] = "entity") = (lifetime[i] = "alive")
             /\ received[i] \in Seq(Broker!Messages)
             /\ broker[i].node \in 0 .. sent[i]
  <2>1. received[i] \in Seq(Nat) /\ sent[i] \in Nat /\ broker[i].node \in Nat /\ sent[i] \in 0 .. MaxMessages
    BY <1>1, BrokerAt DEF BrokerTypes
  <2>2. Len(received[i]) \in Nat /\ DOMAIN received[i] = 1 .. Len(received[i])
        /\ received[i] = [n \in 1 .. Len(received[i]) |-> received[i][n]]
    BY <2>1, LenProperties
  <2>3. \A j \in 1 .. Len(received[i]) : received[i][j] \in Broker!Messages
    <3>1. \A j \in 1 .. Len(received[i]) : received[i][j] \in 1 .. sent[i]
      BY DEF BrokerInv, BrokerOf, Handed, OneOf
    <3> QED BY <2>1, <3>1, BrokerNames DEF Broker!Messages
  <2>4. received[i] \in Seq(Broker!Messages)
    <3> DEFINE s == received[i]
    <3>1. s \in Seq(Nat) /\ \A j \in 1 .. Len(s) : s[j] \in Broker!Messages
      BY <2>1, <2>3
    <3> HIDE DEF s
    <3>2. s \in Seq(Broker!Messages)
      BY <3>1, LenProperties, SeqDef
    <3> QED BY <3>2 DEF s
  <2>5. broker[i].node <= sent[i] /\ (subscriptions[i] = "entity") = (lifetime[i] = "alive")
    BY DEF BrokerInv, BrokerOf, Sent, Kinds
  <2> QED BY <2>1, <2>4, <2>5
<1>5. ASSUME NEW i \in Ids, NEW k \in DOMAIN broker[i].default
      PROVE  \/ k = 1 /\ running.at = "popping" /\ running.id = i
             \/ \E n \in DOMAIN tasks :
                  tasks[n] = [does |-> "parked", id |-> i, node |-> broker[i].node,
                              message |-> broker[i].default[k]]
  <2>1. k \in 1 .. Len(broker[i].default)
    BY <1>1, <1>5, BrokerAt, LenProperties
  <2>2. CASE k = 1 /\ Pops(i)
    BY <2>2 DEF Pops
  <2>3. CASE Fetched(i, k)
    <3>1. PICK n \in 1 .. Len(tasks) : Parks(i, n) /\ tasks[n].message = broker[i].default[k]
      BY <2>3 DEF Fetched
    <3>2. n \in DOMAIN tasks /\ tasks[n] \in BrokerTask
      BY <1>1, <3>1, BrokerQueues, LenProperties DEF BrokerTypes
    <3> DEFINE t == tasks[n]  d == broker[i].node  m == broker[i].default[k]
    <3>3. t \in BrokerTask /\ t.does = "parked" /\ t.id = i /\ t.node = d /\ t.message = m
      BY <3>1, <3>2 DEF Parks
    <3> HIDE DEF t, d, m
    <3>4. t \in [does : {"parked"}, id : Ids, node : Nat, message : Nat]
      BY <3>3 DEF BrokerTask
    <3>5. t = [does |-> "parked", id |-> i, node |-> d, message |-> m]
      BY <3>3, <3>4
    <3> QED BY <3>2, <3>5 DEF t, d, m
  <2>4. (k = 1 /\ Pops(i)) \/ Fetched(i, k)
    BY <2>1 DEF BrokerInv, BrokerOf, Queued
  <2> QED BY <2>2, <2>3, <2>4
<1>6. Broker!TypeOK
  BY <1>1, <1>4, <1>5 DEF BrokerTypes, Broker!TypeOK
<1> QED BY <1>3, <1>6

\* It holds in every state, whichever part is used.
LEMMA BrokerInvariant == PartSpec => []BrokerInv
<1> USE ProtocolAssumption
<1>1. PartInit => BrokerInv
  BY BrokerInit DEF PartInit
<1>2. BrokerInv /\ [PartNext]_partVars => BrokerInv'
  BY BrokerStep
<1> QED BY <1>1, <1>2, PTL DEF PartSpec

\* dispatch, the action it queues on the default scheduler and the schedulers' threads: an
\* entity receives no message twice, and in the order they came, but for one that came
\* while the default thread erased the entry and replayed, or on a scheduler that is out
\* of order.  For any number of entities and messages.
THEOREM MessagesKeepTheirOrder == PartSpec => []Broker!KeepsOrder
<1>1. BrokerInv => Broker!KeepsOrder
  BY BrokerMeans
<1> QED BY <1>1, BrokerInvariant, PTL
=============================================================================
