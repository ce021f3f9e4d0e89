--------------------------- MODULE MessageBroker ---------------------------
(***************************************************************************)
(* MessageBroker: the thread that reads a wire hands every message to the  *)
(* entity that has subscribed to its id.  The handler runs on the entity's *)
(* wire scheduler: the default one, another single thread, or at once on   *)
(* the thread that hands the message over.  A message without a subscriber *)
(* is parked, together with an action on the default scheduler that looks  *)
(* again later; what comes for a subscriber of another scheduler meanwhile *)
(* is put aside and replayed when the parked messages are gone.            *)
(*                                                                         *)
(* The wire's thread, the default scheduler's and the other scheduler's    *)
(* take turns between the statements of that action, which holds the lock  *)
(* only to pop a message.  Messages of an id are numbered as they come.    *)
(***************************************************************************)
EXTENDS Naturals, Sequences, Functions

CONSTANTS
  Ids,         \* The ids of entities.
  MaxMessages  \* Bound: how many messages come for each id.

\* What is assumed of the constants.
MessagesAssumption == MaxMessages \in Nat

VARIABLES
  kind,           \* The wire scheduler of each entity; never changes.
  subscriptions,  \* What the broker's map of subscriptions holds for each id.
  lifetime,       \* How far the lifetime of each entity's subscription is.
  broker,         \* The broker's map of parked and put aside messages.
  tasks,          \* The queue of the default scheduler.
  running,        \* What the default scheduler's thread is doing.
  work,           \* The queue of the other scheduler.
  handling,       \* What the other scheduler's thread is about to handle.
  sent,           \* How many messages have come for each id.
  received,       \* The messages each entity's handler has been called with.
  awaited,        \* The messages that came while the entity was subscribed.
  late            \* Those that came, or were lost, while an entry was being erased.

brokerVars == <<kind, subscriptions, lifetime, broker, tasks, running, work,
                handling, sent, received, awaited, late>>
history == <<awaited, late>>

\* SingleThreadScheduler, SynchronousScheduler and InternScheduler, beside the
\* default one; only the last is marked for execution out of order.
Schedulers == {"default", "single", "synchronous", "outOfOrder"}

\* An entry of the map broker; node tells entries of the same id apart.
NoMq == [node |-> 0, default |-> <<>>, custom |-> <<>>]
Idle == [at |-> "idle"]
Nothing == <<>>

Init ==
  /\ kind \in [Ids -> Schedulers]
  /\ subscriptions = [i \in Ids |-> "absent"]
  /\ lifetime = [i \in Ids |-> "none"]
  /\ broker = [i \in Ids |-> NoMq]
  /\ tasks = <<>> /\ running = Idle
  /\ work = <<>> /\ handling = Nothing
  /\ sent = [i \in Ids |-> 0]
  /\ received = [i \in Ids |-> <<>>]
  /\ awaited = [i \in Ids |-> {}]
  /\ late = [i \in Ids |-> {}]

Exists(i) == subscriptions[i] # "absent"

\* `subscriptions[id]' enters a null pointer for an id the map does not have.
LookUp(i) ==
  subscriptions' = [subscriptions EXCEPT ![i] = IF Exists(i) THEN @ ELSE "null"]

Execute(i, m) == received' = [received EXCEPT ![i] = Append(@, m)]

\* invoke on the entity's scheduler.  A scheduler that is not a queue runs the
\* action here and now, which finds the entity as the caller did, unless its
\* entry is gone.
Invoke(i, m) ==
  CASE kind[i] = "default" ->
         /\ tasks' = Append(tasks, [does |-> "invoke", id |-> i, message |-> m])
         /\ UNCHANGED <<work, received>>
    [] kind[i] = "single" ->
         /\ work' = Append(work, <<i, m>>)
         /\ UNCHANGED <<tasks, received>>
    [] OTHER ->
         /\ IF Exists(i) THEN Execute(i, m) ELSE UNCHANGED received
         /\ UNCHANGED <<tasks, work>>

----------------------------------------------------------------------------
\* The wire's thread: dispatch, the whole of it under the lock.

\* A mutant of Park: the action is queued once for each entry of the map.
ParkOnce(i, m) ==
  LET node == IF broker[i].node = 0 THEN m ELSE broker[i].node
  IN  /\ LookUp(i)
      /\ broker' = [broker EXCEPT ![i].node = node, ![i].default = Append(@, m)]
      /\ tasks' = IF broker[i].node = 0
                  THEN Append(tasks, [does |-> "parked", id |-> i, node |-> node, message |-> m])
                  ELSE tasks
      /\ UNCHANGED <<work, received>>

\* The action that looks again is told of its entry alone; that its message is named too is
\* for the type invariant and its proof.
Park(i, m) ==
  LET node == IF broker[i].node = 0 THEN m ELSE broker[i].node
  IN  /\ LookUp(i)
      /\ broker' = [broker EXCEPT ![i].node = node, ![i].default = Append(@, m)]
      /\ tasks' = Append(tasks, [does |-> "parked", id |-> i, node |-> node, message |-> m])
      /\ UNCHANGED <<work, received>>

\* A mutant of MustWait: only the scheduler with a thread of its own waits.
MustWaitForThread(i) == kind[i] = "single" /\ broker[i].node # 0

\* What comes for a scheduler that keeps the order waits while messages of the
\* same id are parked.
MustWait(i) == kind[i] \notin {"default", "outOfOrder"} /\ broker[i].node # 0

PutAside(i, m) ==
  /\ broker' = [broker EXCEPT ![i].custom = Append(@, m)]
  /\ UNCHANGED <<tasks, work, received>>

\* The default thread is between the test for parked messages and the end of
\* the replay for this id.
Replaying(i) ==
  running.at \in {"erasing", "replaying"} /\ running.id = i

Dispatch(i) ==
  LET m == sent[i] + 1
  IN  /\ m <= MaxMessages
      /\ sent' = [sent EXCEPT ![i] = m]
      /\ IF subscriptions[i] # "entity"
         THEN Park(i, m) /\ UNCHANGED history
         ELSE /\ IF MustWait(i)
                 THEN PutAside(i, m)
                 ELSE Invoke(i, m) /\ UNCHANGED broker
              /\ awaited' = [awaited EXCEPT ![i] = @ \cup {m}]
              /\ late' = [late EXCEPT ![i] = IF Replaying(i) THEN @ \cup {m} ELSE @]
              /\ UNCHANGED subscriptions
      /\ UNCHANGED <<kind, lifetime, running, handling>>

----------------------------------------------------------------------------
\* The default scheduler's thread.

\* Between two tasks the thread subscribes entities (advise_on) ...
AdviseOn(i) ==
  /\ running = Idle /\ lifetime[i] = "none"
  /\ lifetime' = [lifetime EXCEPT ![i] = "alive"]
  /\ subscriptions' = [subscriptions EXCEPT ![i] = "entity"]
  /\ awaited' = [awaited EXCEPT ![i] = Range(broker[i].default)]
  /\ UNCHANGED <<kind, broker, tasks, running, work, handling, sent, received, late>>

\* ... and ends the lifetimes of their subscriptions.
Terminate(i) ==
  /\ running = Idle /\ lifetime[i] = "alive"
  /\ lifetime' = [lifetime EXCEPT ![i] = "over"]
  /\ subscriptions' = [subscriptions EXCEPT ![i] = "absent"]
  /\ UNCHANGED <<kind, broker, tasks, running, work, handling, sent, received, history>>

\* The action queued by invoke; it asks for the id, not for the entity.
RunInvoked ==
  /\ running = Idle /\ tasks # <<>> /\ Head(tasks).does = "invoke"
  /\ LET t == Head(tasks)
     IN  IF Exists(t.id) THEN Execute(t.id, t.message) ELSE UNCHANGED received
  /\ tasks' = Tail(tasks)
  /\ UNCHANGED <<kind, subscriptions, lifetime, broker, running, work, handling, sent, history>>

\* The action queued by dispatch, from here to Replay, without the lock but for
\* Pop: first the subscription is read.
RunParked ==
  /\ running = Idle /\ tasks # <<>> /\ Head(tasks).does = "parked"
  /\ LET t == Head(tasks)
     IN  /\ LookUp(t.id)
         /\ running' = [at |-> "popping", id |-> t.id, node |-> t.node,
                        subscription |-> subscriptions[t.id] = "entity",
                        message |-> 0, replay |-> <<>>]
  /\ tasks' = Tail(tasks)
  /\ UNCHANGED <<kind, lifetime, broker, work, handling, sent, received, history>>

\* The entry may have been erased since the action kept an iterator to it: the
\* program ends here, or reads an empty queue and goes on to erase a newer entry
\* with what is parked there.
Dangling == broker[running.id].node # running.node

Pop ==
  /\ running.at = "popping"
  /\ LET parked == broker[running.id].default
     IN  \/ /\ Dangling
            /\ \E at \in {"crashed", "invoking"} : running' = [running EXCEPT !.at = at]
            /\ late' = [late EXCEPT ![running.id] = @ \cup Range(parked)]
            /\ UNCHANGED broker
         \/ /\ ~Dangling /\ parked = <<>>
            /\ running' = [running EXCEPT !.at = "invoking"]
            /\ UNCHANGED <<broker, late>>
         \/ /\ ~Dangling /\ parked # <<>>
            /\ running' = [running EXCEPT !.at = "invoking", !.message = Head(parked)]
            /\ broker' = [broker EXCEPT ![running.id].default = Tail(@)]
            /\ UNCHANGED late
  /\ UNCHANGED <<kind, subscriptions, lifetime, tasks, work, handling, sent, received, awaited>>

\* The message goes to the subscriber, at once if the default scheduler is its
\* own, and is dropped if there was none.
InvokePopped ==
  /\ running.at = "invoking"
  /\ LET i == running.id  m == running.message
     IN  IF m = 0 \/ ~running.subscription
         THEN UNCHANGED <<tasks, work, received>>
         ELSE IF kind[i] = "default"
              THEN Execute(i, m) /\ UNCHANGED <<tasks, work>>
              ELSE Invoke(i, m)
  /\ running' = [running EXCEPT !.at = "checking"]
  /\ UNCHANGED <<kind, subscriptions, lifetime, broker, handling, sent, history>>

\* Nothing more is parked: the last action takes what was put aside.
CheckEmpty ==
  /\ running.at = "checking"
  /\ running' = IF ~Dangling /\ broker[running.id].default # <<>>
                THEN Idle ELSE [running EXCEPT !.at = "moving"]
  /\ UNCHANGED <<kind, subscriptions, lifetime, broker, tasks, work, handling, sent, received, history>>

Move ==
  /\ running.at = "moving"
  /\ running' = [running EXCEPT !.at = "erasing", !.replay = broker[running.id].custom]
  /\ broker' = [broker EXCEPT ![running.id].default = <<>>, ![running.id].custom = <<>>]
  /\ UNCHANGED <<kind, subscriptions, lifetime, tasks, work, handling, sent, received, history>>

Erase ==
  /\ running.at = "erasing"
  /\ running' = [running EXCEPT !.at = "replaying"]
  /\ broker' = [broker EXCEPT ![running.id] = NoMq]
  /\ UNCHANGED <<kind, subscriptions, lifetime, tasks, work, handling, sent, received, history>>

\* One message put aside; without a subscription the assertion on its scheduler
\* goes through a null pointer.
Replay ==
  /\ running.at = "replaying"
  /\ IF running.replay = <<>>
     THEN running' = Idle /\ UNCHANGED <<tasks, work, received>>
     ELSE IF running.subscription
     THEN /\ Invoke(running.id, Head(running.replay))
          /\ running' = [running EXCEPT !.replay = Tail(@)]
     ELSE running' = [running EXCEPT !.at = "crashed"] /\ UNCHANGED <<tasks, work, received>>
  /\ UNCHANGED <<kind, subscriptions, lifetime, broker, handling, sent, history>>

----------------------------------------------------------------------------
\* The other scheduler's thread looks for the id under the lock, and calls the
\* handler after it.
TakeWork ==
  /\ handling = Nothing /\ work # <<>>
  /\ handling' = IF Exists(Head(work)[1]) THEN Head(work) ELSE Nothing
  /\ work' = Tail(work)
  /\ UNCHANGED <<kind, subscriptions, lifetime, broker, tasks, running, sent, received, history>>

Handle ==
  /\ handling # Nothing
  /\ Execute(handling[1], handling[2])
  /\ handling' = Nothing
  /\ UNCHANGED <<kind, subscriptions, lifetime, broker, tasks, running, work, sent, history>>

DefaultThread ==
  RunInvoked \/ RunParked \/ Pop \/ InvokePopped \/ CheckEmpty \/ Move \/ Erase \/ Replay
OtherThread == TakeWork \/ Handle

\* After an access through a null or dangling pointer nothing runs any more.
Crashed == running.at = "crashed"

Next ==
  /\ ~Crashed
  /\ \/ \E i \in Ids : Dispatch(i) \/ AdviseOn(i) \/ Terminate(i)
     \/ RunInvoked \/ RunParked \/ Pop \/ InvokePopped \/ CheckEmpty \/ Move \/ Erase \/ Replay
     \/ TakeWork \/ Handle

Spec ==
  /\ Init /\ [][Next]_brokerVars
  /\ WF_brokerVars(~Crashed /\ DefaultThread)
  /\ WF_brokerVars(~Crashed /\ OtherThread)

----------------------------------------------------------------------------
Messages == 1 .. MaxMessages

\* The broker's maps and the queues hold what they are declared to hold, and
\* every parked message has an action of its entry to come for it, however the
\* wire's thread and the default one meet.
TypeOK ==
  /\ kind \in [Ids -> Schedulers]
  /\ subscriptions \in [Ids -> {"absent", "null", "entity"}]
  /\ lifetime \in [Ids -> {"none", "alive", "over"}]
  /\ sent \in [Ids -> 0 .. MaxMessages]
  /\ \A i \in Ids :
       /\ (subscriptions[i] = "entity") = (lifetime[i] = "alive")
       /\ received[i] \in Seq(Messages)
       /\ broker[i].node \in 0 .. sent[i]
       /\ \A k \in DOMAIN broker[i].default :
            \/ k = 1 /\ running.at = "popping" /\ running.id = i
            \/ \E n \in DOMAIN tasks :
                 tasks[n] = [does |-> "parked", id |-> i, node |-> broker[i].node,
                             message |-> broker[i].default[k]]

\* An entity receives no message twice, and a message overtakes an earlier one
\* only if it came while the default thread, having found nothing more parked,
\* erased the entry and replayed what was put aside (or if the entity's
\* scheduler is out of order): so nothing overtakes on the default scheduler.
KeepsOrder ==
  \A i \in Ids : \A j, k \in 1 .. Len(received[i]) :
    j < k => \/ received[i][j] < received[i][k]
             \/ /\ received[i][j] # received[i][k]
                /\ \/ kind[i] = "outOfOrder"
                   \/ kind[i] # "default" /\ received[i][j] \in late[i]

\* What the entity still awaits: once that is nothing, it has received all of it.
Awaited(i) == awaited[i] \ (Range(received[i]) \cup late[i])

\* A message that came while its entity was subscribed, or was parked when the
\* entity subscribed, is received unless the subscription ends first: dispatch
\* loses only what comes while an entry is being erased.
AwaitedIsReceived ==
  \A i \in Ids : Awaited(i) # {} ~> Awaited(i) = {} \/ lifetime[i] = "over" \/ Crashed

\* IWire.h: "The handler is removed when the given [lifetime] is terminated."
\* The code forgets the entity and asks only for its id later, which dispatch
\* enters again, with a null pointer, for the next message: even the thread that
\* ends the lifetime calls the handler afterwards.
HandlerIsRemoved ==
  [][\A i \in Ids : kind[i] = "default" /\ received'[i] # received[i]
                      => lifetime[i] = "alive"]_brokerVars

\* MessageBroker.cpp: what was put aside has a subscription whose scheduler is
\* not the default one, RD_ASSERT_MSG(subscription->get_wire_scheduler() !=
\* default_scheduler).
ReplayHasSubscriber ==
  running.at = "replaying" /\ running.replay # <<>> =>
    running.subscription /\ kind[running.id] # "default"
============================================================================
