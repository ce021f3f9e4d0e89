----------------------------- MODULE RiderLink -----------------------------
(***************************************************************************)
(* RiderLink: the editor model of the present connection to Rider, who is  *)
(* shown it, and who uses it.                                              *)
(*                                                                         *)
(* Four threads: the wire's thread connects and disconnects and so ends    *)
(* the lifetime of a connection; the scheduler's thread makes and shows    *)
(* the model; a logger's thread uses it under ModelLock                    *)
(* (FireAsyncAction); on the game thread the extension RiderGameControl    *)
(* starts, has its events and shuts down.  What the game thread does with  *)
(* the model it queues on the scheduler, with a pointer to the control.    *)
(*                                                                         *)
(* A model is named by the number of the connection it was made for.       *)
(* InitProtocol is over; the end of the module RiderLink is left out.      *)
(***************************************************************************)
EXTENDS Naturals, Sequences

CONSTANTS
  Loggers,        \* The threads that call FireAsyncAction.
  MaxConnections, \* Bound: how often Rider connects.
  MaxEvents       \* Bound: how many events the editor has.

\* What is assumed of the constants.
RiderLinkAssumption == MaxConnections \in Nat /\ MaxEvents \in Nat

VARIABLES
  connection,  \* The present connection, whose lifetime is alive, or None.
  connections, \* How many there have been.
  endAdded,    \* The connections whose end queues the end of their model.
  queue,       \* What the scheduler has to run.
  scheduler,   \* How far it is with the action it runs.
  editorModel, \* EditorModel, or None.
  isAlive,     \* RdIsModelAlive, which has no value at first.
  reading,     \* The model each logger's action uses, holding ModelLock, or None.
  extension,   \* The extension: off, started, viewing or shutDown.
  control,     \* The model the extension's GameControl was made for, or None.
  events       \* How many events the editor has had.

linkVars == <<connection, connections, endAdded, queue, scheduler, editorModel, isAlive,
              reading, extension, control, events>>

None == 0
Idle == [at |-> "idle", connection |-> None]
ConnectAction(c) == [is |-> "connect", connection |-> c]
EndAction == [is |-> "end"]
ViewAction == [is |-> "view"]
ControlAction(m) == [is |-> "control", model |-> m]

Init ==
  /\ connection = None /\ connections = 0 /\ endAdded = {}
  /\ queue = <<>> /\ scheduler = Idle
  /\ editorModel = None /\ isAlive = "empty"
  /\ reading = [l \in Loggers |-> None]
  /\ extension = "off" /\ control = None
  /\ events = 0

----------------------------------------------------------------------------
\* The wire's thread: connected becomes true, or false.
Connect ==
  /\ connection = None /\ connections < MaxConnections
  /\ connection' = connections + 1
  /\ connections' = connections + 1
  /\ queue' = Append(queue, ConnectAction(connections + 1))
  /\ UNCHANGED <<endAdded, scheduler, editorModel, isAlive, reading, extension, control,
                 events>>

\* A mutant of Disconnect: the end of a connection is not told.
DisconnectUnheard ==
  /\ connection # None
  /\ connection' = None
  /\ UNCHANGED <<connections, endAdded, queue, scheduler, editorModel, isAlive, reading,
                 extension, control, events>>

Disconnect ==
  /\ connection # None
  /\ connection' = None
  /\ queue' = IF connection \in endAdded THEN Append(queue, EndAction) ELSE queue
  /\ UNCHANGED <<connections, endAdded, scheduler, editorModel, isAlive, reading, extension,
                 control, events>>

----------------------------------------------------------------------------
\* The scheduler's thread.
NextAction(kind) == scheduler = Idle /\ queue # <<>> /\ Head(queue).is = kind

\* Whether a writer gets ModelLock, which the scheduler's thread alone takes so.
LockIsFree == \A l \in Loggers : reading[l] = None

GoTo(at) == scheduler' = [scheduler EXCEPT !.at = at]

\* Whether the lifetime of the connection the scheduler is busy with is alive.
StillConnected == connection = scheduler.connection

\* The action of a connection makes the model, and destroys the last one.
MakeModel ==
  /\ NextAction("connect") /\ LockIsFree
  /\ queue' = Tail(queue)
  /\ scheduler' = [at |-> "made", connection |-> Head(queue).connection]
  /\ editorModel' = Head(queue).connection
  /\ UNCHANGED <<connection, connections, endAdded, isAlive, reading, extension, control,
                 events>>

\* connect and registerSerializersCore: a model whose lifetime has ended is not bound,
\* and the exception ends the action.
BindModel ==
  /\ \/ scheduler.at = "made" /\ StillConnected /\ GoTo("bound")
     \/ scheduler.at = "bound" /\ StillConnected /\ GoTo("registered")
     \/ scheduler.at \in {"made", "bound"} /\ ~StillConnected /\ scheduler' = Idle
  /\ UNCHANGED <<connection, connections, endAdded, queue, editorModel, isAlive, reading,
                 extension, control, events>>

\* add_action, which throws for a lifetime that has ended: the model is not shown.
AddEnd ==
  /\ scheduler.at = "registered"
  /\ \/ /\ StillConnected /\ GoTo("added")
        /\ endAdded' = endAdded \cup {scheduler.connection}
     \/ ~StillConnected /\ scheduler' = Idle /\ UNCHANGED endAdded
  /\ UNCHANGED <<connection, connections, queue, editorModel, isAlive, reading, extension,
                 control, events>>

\* RdIsModelAlive.set: only a change ends the last model's lifetime, and with it the
\* control, and calls the extension's handler, which makes a control for a model.
Show(alive) ==
  /\ isAlive' = alive
  /\ control' = CASE alive = isAlive -> control
                  [] alive = "true" /\ extension = "viewing" -> editorModel
                  [] OTHER -> None

ShowModel ==
  /\ scheduler.at = "added"
  /\ scheduler' = Idle
  /\ Show("true")
  /\ UNCHANGED <<connection, connections, endAdded, queue, editorModel, reading, extension,
                 events>>

EndModel ==
  /\ NextAction("end") /\ LockIsFree
  /\ queue' = Tail(queue)
  /\ Show("false")
  /\ UNCHANGED <<connection, connections, endAdded, scheduler, editorModel, reading,
                 extension, events>>

\* ViewModel: a model that is shown already is shown to the extension as well.
ViewModel ==
  /\ NextAction("view")
  /\ queue' = Tail(queue)
  /\ IF extension = "started"
     THEN /\ extension' = "viewing"
          /\ control' = IF isAlive = "true" THEN editorModel ELSE None
     ELSE UNCHANGED <<extension, control>>
  /\ UNCHANGED <<connection, connections, endAdded, scheduler, editorModel, isAlive, reading,
                 events>>

\* QueueAction: the action takes the model from the control that queued it.
RunControlAction ==
  /\ NextAction("control")
  /\ queue' = Tail(queue)
  /\ UNCHANGED <<connection, connections, endAdded, scheduler, editorModel, isAlive, reading,
                 extension, control, events>>

----------------------------------------------------------------------------
\* A logger's thread: FireAsyncAction from taking the lock to its release.
BeginFire(l) ==
  /\ reading[l] = None
  /\ scheduler = Idle
  /\ isAlive = "true"
  /\ reading' = [reading EXCEPT ![l] = editorModel]
  /\ UNCHANGED <<connection, connections, endAdded, queue, scheduler, editorModel, isAlive,
                 extension, control, events>>

EndFire(l) ==
  /\ reading[l] # None
  /\ reading' = [reading EXCEPT ![l] = None]
  /\ UNCHANGED <<connection, connections, endAdded, queue, scheduler, editorModel, isAlive,
                 extension, control, events>>

----------------------------------------------------------------------------
\* The game thread.
StartExtension ==
  /\ extension = "off"
  /\ extension' = "started"
  /\ queue' = Append(queue, ViewAction)
  /\ UNCHANGED <<connection, connections, endAdded, scheduler, editorModel, isAlive, reading,
                 control, events>>

\* An event of the editor, such as the begin of play, while the control listens.
EditorEvent ==
  /\ control # None /\ events < MaxEvents
  /\ events' = events + 1
  /\ queue' = Append(queue, ControlAction(control))
  /\ UNCHANGED <<connection, connections, endAdded, scheduler, editorModel, isAlive, reading,
                 extension, control>>

\* ShutdownModule of the extension ends the model's lifetime for it: the control queues
\* that it is not initialized any more, and is reset.
ShutdownExtension ==
  /\ extension \in {"started", "viewing"}
  /\ extension' = "shutDown"
  /\ queue' = IF control # None THEN Append(queue, ControlAction(control)) ELSE queue
  /\ control' = None
  /\ UNCHANGED <<connection, connections, endAdded, scheduler, editorModel, isAlive, reading,
                 events>>

SchedulerThread ==
  \/ MakeModel \/ BindModel \/ AddEnd \/ ShowModel \/ EndModel \/ ViewModel
  \/ RunControlAction
LoggerThread(l) == BeginFire(l) \/ EndFire(l)
GameThread == StartExtension \/ EditorEvent \/ ShutdownExtension

Next ==
  \/ Connect \/ Disconnect \/ SchedulerThread \/ GameThread
  \/ \E l \in Loggers : LoggerThread(l)

Spec == Init /\ [][Next]_linkVars

\* The scheduler's thread runs; it gets the lock some time, however often the loggers
\* take it, and a logger's action ends.
FairSpec ==
  /\ Spec
  /\ SF_linkVars(SchedulerThread)
  /\ \A l \in Loggers : WF_linkVars(EndFire(l))

----------------------------------------------------------------------------
\* The variables have their types; the action of a connection under way is the one that
\* made the present model, and there is a control only while a model is shown.
TypeOK ==
  /\ connections \in 0 .. MaxConnections /\ connection \in {None, connections}
  /\ endAdded \subseteq 1 .. connections
  /\ scheduler.at \in {"idle", "made", "bound", "registered", "added"}
  /\ scheduler # Idle => scheduler.connection = editorModel
  /\ editorModel \in 0 .. connections
  /\ isAlive \in {"empty", "true", "false"}
  /\ reading \in [Loggers -> 0 .. connections]
  /\ extension \in {"off", "started", "viewing", "shutDown"}
  /\ control \in 0 .. connections
  /\ control # None => isAlive = "true" /\ extension = "viewing"
  /\ events \in 0 .. MaxEvents

\* The model an asynchronous action uses is neither replaced nor ended under it.
AsyncActionHasModel ==
  \A l \in Loggers : reading[l] # None => reading[l] = editorModel /\ isAlive = "true"

\* Whoever is shown a model is shown the present one, which was not destroyed under it.
ControlShowsModel == control # None => control = editorModel

\* A connection that lasts is shown.
ConnectionIsShown ==
  connection # None ~> connection = None \/ (isAlive = "true" /\ editorModel = connection)

\* When a connection ends its model does too, unless Rider connects again.
EndIsShown == connection = None ~> connection # None \/ isAlive # "true"

\* "change it before creating new RdEditorModel": the model is replaced only while
\* RdIsModelAlive says that there is none.
ReplacedWhenEnded == [][editorModel' # editorModel => isAlive # "true"]_linkVars

\* The same of what the extension has queued: it finds its control and the model that
\* the control was made for.
ActionFindsModel ==
  NextAction("control") => control = Head(queue).model /\ control = editorModel
============================================================================
