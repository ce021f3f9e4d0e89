--------------------------- MODULE RiderPlayMode ---------------------------
(***************************************************************************)
(* The play mode of RiderGameControl: the editor's play settings and       *)
(* Rider's play mode, a number they are packed into, tell one another when *)
(* they change.                                                            *)
(*                                                                         *)
(* FRiderGameControl is constructed, and Rider's messages are handled, on  *)
(* the scheduler's thread, where what is sent to Rider leaves at once; the *)
(* user changes the settings on the game thread, whose messages wait in    *)
(* the scheduler's queue.  Both read and write playMode without a lock:    *)
(* each handler is one step.  Rider takes every mode it is sent.           *)
(***************************************************************************)
EXTENDS Integers, Sequences

CONSTANTS
  UserSettings, \* What the editor's user sets the settings to.
  RiderModes,   \* What Rider's user sets the play mode to.
  EarlyChanges, \* Whether the settings may change during the construction.
  Crossing,     \* Whether a user makes a change while one of the other is under way.
  MaxUser,      \* Bound: how often the editor's user makes a change.
  MaxRider      \* Bound: how often Rider's user does.

VARIABLES
  settings,   \* The play settings of the editor.
  playMode,   \* FRiderGameControl::playMode, which begins uninitialized.
  phase,      \* How far the construction is.
  retrieved,  \* The settings it has retrieved.
  queue,      \* What the scheduler has to run.
  toRider,    \* The modes under way to Rider.
  rider,      \* Rider's play mode, NoMode before it has one.
  changes     \* How often each user has made a change.

modeVars == <<settings, playMode, phase, retrieved, queue, toRider, rider, changes>>

----------------------------------------------------------------------------
\* EPlayModeType: the modes with their numbers, and the one that shares a number.
Numbered ==
  <<"InMobilePreview", "InEditorFloating", "InVR", "InNewProcess", "Simulate",
    "InVulkanPreview">>
PlayModes ==
  {Numbered[i] : i \in DOMAIN Numbered} \cup {"InViewPort", "InTargetedMobilePreview"}

PlayModeFromInt(number) ==
  IF number \in DOMAIN Numbered THEN Numbered[number] ELSE "InViewPort"

PlayModeToInt(mode) ==
  CASE mode = "InTargetedMobilePreview" -> 1
    [] mode = "InViewPort" -> 0
    [] OTHER -> CHOOSE i \in DOMAIN Numbered : Numbered[i] = mode

AllSettings ==
  [mode : PlayModes, clients : Nat \ {0}, dedicated : BOOLEAN, atStart : BOOLEAN]

Settings(mode, clients, dedicated, atStart) ==
  [mode |-> mode, clients |-> clients, dedicated |-> dedicated, atStart |-> atStart]

Bit(m, b) == (m \div b) % 2 = 1

UnpackFromMode(m) ==
  Settings(PlayModeFromInt((m \div 16) % 8), (m % 4) + 1, Bit(m, 8), Bit(m, 4))

PackToMode(s) ==
  (s.clients - 1) + (IF s.atStart THEN 4 ELSE 0) + (IF s.dedicated THEN 8 ELSE 0)
    + 16 * PlayModeToInt(s.mode)

NoMode == -1
Fire(m) == [is |-> "fire", mode |-> m]
Request(m) == [is |-> "request", mode |-> m]
AllModes == {PackToMode(s) : s \in UserSettings} \cup RiderModes

\* Whether a play mode has the bits for all that the editor's user sets.
Representable ==
  \A s \in UserSettings : s.clients \in 1 .. 4 /\ s.mode # "InTargetedMobilePreview"

\* What is assumed of the constants.
PlayModeAssumption ==
  /\ UserSettings \subseteq AllSettings
  /\ RiderModes \subseteq 0 .. 255
  /\ EarlyChanges \in BOOLEAN /\ Crossing \in BOOLEAN
  /\ MaxUser \in Nat /\ MaxRider \in Nat

Init ==
  /\ settings \in UserSettings
  /\ playMode \in AllModes
  /\ phase = "subscribed"
  /\ retrieved = settings
  /\ queue = <<>> /\ toRider = <<>>
  /\ rider = NoMode
  /\ changes = [user |-> 0, rider |-> 0]

----------------------------------------------------------------------------
\* The constructor, which listens to the settings by now: the initial sync.
Retrieve ==
  /\ phase = "subscribed"
  /\ phase' = "retrieved"
  /\ retrieved' = settings
  /\ UNCHANGED <<settings, playMode, queue, toRider, rider, changes>>

\* A mutant of Store: the number is kept for the comparison and not sent.
StoreUnsent ==
  /\ phase = "retrieved"
  /\ phase' = "done"
  /\ playMode' = PackToMode(retrieved)
  /\ UNCHANGED <<settings, retrieved, queue, toRider, rider, changes>>

Store ==
  /\ phase = "retrieved"
  /\ phase' = "done"
  /\ playMode' = PackToMode(retrieved)
  /\ toRider' = Append(toRider, PackToMode(retrieved))
  /\ UNCHANGED <<settings, retrieved, queue, rider, changes>>

UnderWay(kind) == \E i \in DOMAIN queue : queue[i].is = kind

\* The user changes the settings, on the game thread: a mode that is not playMode is
\* kept and queued.
ChangeSettings(s) ==
  /\ EarlyChanges \/ phase = "done"
  /\ Crossing \/ ~UnderWay("request")
  /\ changes.user < MaxUser /\ s # settings
  /\ changes' = [changes EXCEPT !.user = @ + 1]
  /\ settings' = s
  /\ playMode' = PackToMode(s)
  /\ queue' = IF PackToMode(s) # playMode THEN Append(queue, Fire(PackToMode(s))) ELSE queue
  /\ UNCHANGED <<phase, retrieved, toRider, rider>>

\* Rider's user changes its mode, and the message comes to the scheduler.
ChangeMode(m) ==
  /\ Crossing \/ (~UnderWay("fire") /\ toRider = <<>> /\ phase = "done")
  /\ changes.rider < MaxRider /\ m # rider
  /\ changes' = [changes EXCEPT !.rider = @ + 1]
  /\ rider' = m
  /\ queue' = Append(queue, Request(m))
  /\ UNCHANGED <<settings, playMode, phase, retrieved, toRider>>

RunFire ==
  /\ phase = "done" /\ queue # <<>> /\ Head(queue).is = "fire"
  /\ queue' = Tail(queue)
  /\ toRider' = Append(toRider, Head(queue).mode)
  /\ UNCHANGED <<settings, playMode, phase, retrieved, rider, changes>>

\* UpdateSettings, and the notification of the change that it causes: what the settings
\* are packed into is sent if it is not playMode.
RunRequest ==
  /\ phase = "done" /\ queue # <<>> /\ Head(queue).is = "request"
  /\ queue' = Tail(queue)
  /\ settings' = UnpackFromMode(Head(queue).mode)
  /\ playMode' = PackToMode(settings')
  /\ toRider' = IF PackToMode(settings') # playMode
                THEN Append(toRider, PackToMode(settings')) ELSE toRider
  /\ UNCHANGED <<phase, retrieved, rider, changes>>

RiderReceives ==
  /\ toRider # <<>>
  /\ rider' = Head(toRider)
  /\ toRider' = Tail(toRider)
  /\ UNCHANGED <<settings, playMode, phase, retrieved, queue, changes>>

Next ==
  \/ Retrieve \/ Store \/ RunFire \/ RunRequest \/ RiderReceives
  \/ \E s \in UserSettings : ChangeSettings(s)
  \/ \E m \in RiderModes : ChangeMode(m)

Spec == Init /\ [][Next]_modeVars

----------------------------------------------------------------------------
\* The variables have their types, and if the settings are representable every mode on its
\* way has at most seven bits.
TypeOK ==
  /\ settings \in AllSettings /\ retrieved \in AllSettings
  /\ playMode \in Nat
  /\ phase \in {"subscribed", "retrieved", "done"}
  /\ rider \in Nat \cup {NoMode}
  /\ changes \in [user : 0 .. MaxUser, rider : 0 .. MaxRider]
  /\ Representable =>
       /\ \A i \in DOMAIN queue : queue[i].is = "fire" => queue[i].mode \in 0 .. 127
       /\ \A i \in DOMAIN toRider : toRider[i] \in 0 .. 127
       /\ rider \in RiderModes \cup (0 .. 127) \cup {NoMode}

Quiet == phase = "done" /\ queue = <<>> /\ toRider = <<>>

\* Once everything that is under way has come, Rider's mode means the settings that
\* the editor has, whichever of the two users changed them and however often.
ModeMeansSettings == Quiet => UnpackFromMode(rider) = settings

\* "Initial sync.": once everything has come, Rider has the mode of the settings.
InitialSync == Quiet => rider = PackToMode(settings)
============================================================================
