------------------------------ MODULE Protocol ------------------------------
(***************************************************************************)
(* The parts of RD and of RiderLink that share no state: a behaviour uses  *)
(* the one that part tells, and the others rest.                           *)
(***************************************************************************)
EXTENDS Lifetimes

CONSTANTS
  Ids, MaxMessages,                   \* The entities of the broker and their messages.
  Clients, MaxPuts,                   \* The buffers, and how much each is given.
  Loggers, MaxConnections, MaxEvents, \* Who uses RiderLink's model.
  UserSettings, RiderModes,           \* The play settings, and the play modes of Rider.
  MaxUser, MaxRider                   \* Bounds: how often their users change them.

VARIABLES
  part,
  kind, subscriptions, lifetime, broker, tasks, running, work, handling, sent, received,
  awaited, late,
  buffer, puts, sender, caller, resent, closer,
  connection, connections, endAdded, linkQueue, scheduler, editorModel, isAlive, reading,
  extension, control, events,
  settings, playMode, phase, retrieved, modeQueue, toRider, rider, changes

Broker == INSTANCE MessageBroker

Buffer == INSTANCE ByteBufferAsyncProcessor WITH Ends <- Clients

Link == INSTANCE RiderLink WITH queue <- linkQueue

\* The settings hold still until the control is there, and users wait for one another.
Mode == INSTANCE RiderPlayMode WITH
  EarlyChanges <- FALSE, Crossing <- FALSE, queue <- modeQueue

ASSUME ProtocolAssumption ==
  /\ Broker!MessagesAssumption /\ Buffer!PutsAssumption
  /\ Link!RiderLinkAssumption /\ Mode!PlayModeAssumption

brokerRest == <<kind, subscriptions, lifetime, broker, tasks, running, work, handling, sent,
                received, awaited, late>>
bufferRest == <<buffer, puts, sender, caller, resent, closer>>
linkRest == <<connection, connections, endAdded, linkQueue, scheduler, editorModel, isAlive,
              reading, extension, control, events>>
modeRest == <<settings, playMode, phase, retrieved, modeQueue, toRider, rider, changes>>

partVars == <<part, lifetimeVars, brokerRest, bufferRest, linkRest, modeRest>>

\* What may begin in many ways does so where it is used.
PartInit ==
  /\ part \in {"lifetimes", "broker", "buffer", "link", "mode"}
  /\ Init /\ Broker!Init /\ Buffer!Init /\ Link!Init /\ Mode!Init
  /\ part # "broker" => \A i \in Ids : kind[i] = "default"
  /\ part # "mode" => /\ settings = CHOOSE s \in UserSettings : TRUE
                     /\ playMode = CHOOSE m \in Mode!AllModes : TRUE

\* The other parts rest.
Only(used) ==
  /\ part' = part
  /\ IF used = "lifetimes" THEN TRUE ELSE UNCHANGED lifetimeVars
  /\ IF used = "broker" THEN TRUE ELSE UNCHANGED brokerRest
  /\ IF used = "buffer" THEN TRUE ELSE UNCHANGED bufferRest
  /\ IF used = "link" THEN TRUE ELSE UNCHANGED linkRest
  /\ IF used = "mode" THEN TRUE ELSE UNCHANGED modeRest

PartNext ==
  \/ part = "lifetimes" /\ Next /\ Only("lifetimes")
  \/ part = "broker" /\ Broker!Next /\ Only("broker")
  \/ part = "buffer" /\ Buffer!Next /\ Only("buffer")
  \/ part = "link" /\ Link!Next /\ Only("link")
  \/ part = "mode" /\ Mode!Next /\ Only("mode")

----------------------------------------------------------------------------
\* The threads of the part that is used are fair, as its own module has it.
PartFairness ==
  /\ \A t \in Threads : WF_lifetimeVars(part = "lifetimes" /\ Continue(t))
  /\ WF_brokerRest(part = "broker" /\ ~Broker!Crashed /\ Broker!DefaultThread)
  /\ WF_brokerRest(part = "broker" /\ ~Broker!Crashed /\ Broker!OtherThread)
  /\ \A e \in Clients :
       /\ SF_bufferRest(part = "buffer" /\ Buffer!ThreadProc(e))
       /\ WF_bufferRest(part = "buffer" /\ \E ok \in BOOLEAN : Buffer!Process(e, ok))
       /\ WF_bufferRest(part = "buffer" /\ Buffer!Interrupting(e))
       /\ SF_bufferRest(part = "buffer" /\ Buffer!Cleanup0(e))
  /\ SF_linkRest(part = "link" /\ Link!SchedulerThread)
  /\ \A l \in Loggers : WF_linkRest(part = "link" /\ Link!EndFire(l))

PartSpec == PartInit /\ [][PartNext]_partVars /\ PartFairness

----------------------------------------------------------------------------
\* The type invariants of the parts.
PartsTypeOK ==
  CASE part = "lifetimes" -> TypeOK
    [] part = "broker" -> Broker!TypeOK
    [] part = "buffer" -> Buffer!TypeOK
    [] part = "link" -> Link!TypeOK
    [] part = "mode" -> Mode!TypeOK
    [] OTHER -> TRUE

\* Nested lifetimes end before their parents do, and every action of a terminated one runs.
LifetimesEnd == NestedEndFirst /\ (part = "lifetimes" => TerminatedRunsAll)

\* An entity receives its messages in order and none twice, and a message that came while
\* it was subscribed it does receive.
MessagesArrive == part = "broker" => []Broker!KeepsOrder /\ Broker!AwaitedIsReceived

\* A buffer that stays resumed and open takes what it is given, and stop and terminate end
\* the sender thread.
BufferServes == part = "buffer" => Buffer!DataIsTaken /\ Buffer!StoppedThreadEnds

\* The model follows the connection: it is replaced only while RdIsModelAlive says that
\* there is none, a connection that lasts is shown, and when it ends its model does too.
ModelFollows ==
  /\ Link!ReplacedWhenEnded
  /\ part = "link" => Link!ConnectionIsShown /\ Link!EndIsShown

\* What Rider and the editor have of one another is there and agrees: the model that an
\* asynchronous action uses is neither replaced nor ended under it, whoever is shown a model
\* is shown the present one, and once all has come Rider's mode means the editor's settings
\* if these are representable.
RiderSeesEditor ==
  /\ Link!AsyncActionHasModel /\ Link!ControlShowsModel
  /\ Mode!Representable => Mode!ModeMeansSettings
============================================================================
