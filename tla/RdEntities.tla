----------------------------- MODULE RdEntities -----------------------------
(***************************************************************************)
(* Two ends of a protocol and an entity of each kind.  Entities share      *)
(* nothing: each has an id of its own, and what is sent for it is handled  *)
(* by it alone.  So it is enough to follow one at a time: entity tells     *)
(* which one is used in a behaviour, and the others rest.                  *)
(***************************************************************************)
EXTENDS RdProperty

CONSTANTS
  Keys, Mapped, Absent, \* The keys of the map, its values, and what stands for none.
  MaxMapped,            \* Bound: how often each end changes the map, MaxMapped[e].
  Listed,               \* The elements of the list.
  MaxLength, MaxListed, \* Bounds: how long the list gets, how often it is changed.
  Handled,              \* The ends whose endpoint has a handler.
  MaxCalls,             \* Bound: how often each end calls, MaxCalls[e].
  Interned, Answers,    \* The values interned, and whether there are answers with them.
  MaxMessages,          \* Bound: how many messages with them each end writes.
  Budget                \* Bound: how often each end of the extension is bound or sends.

VARIABLES
  entity,
  map, mapVersion, pendingForAck, mapNet, mapChanges, hasty,
  list, listVersion, listBound, listNet, overlapped, listChanges,
  callBound, main, syncTask, task, callQueue, callNet, serving, firstAnswer,
  rootBound, mine, others, inverse, inserting, rootNet, rootQueue, reading, written,
  binding, subscribed, connected, sendQ, sending, flushing, extNet, parked, binds, sent,
  arrived, crossed

Map == INSTANCE RdMap WITH
  Values <- Mapped, MaxChanges <- MaxMapped,
  nextVersion <- mapVersion, net <- mapNet, changes <- mapChanges

List == INSTANCE RdList WITH
  Owner <- Master, Client <- Slave, Values <- Listed, MaxChanges <- MaxListed,
  nextVersion <- listVersion, bound <- listBound, net <- listNet, changes <- listChanges

Call == INSTANCE RdCall WITH bound <- callBound, queue <- callQueue, net <- callNet

Root == INSTANCE InternRoot WITH
  Creator <- Master, Receiver <- Slave, Values <- Interned,
  bound <- rootBound, net <- rootNet, queue <- rootQueue

Ext == INSTANCE ExtWire WITH net <- extNet

ASSUME EntitiesAssumption ==
  /\ Map!MapAssumption /\ List!ListAssumption /\ Call!CallAssumption
  /\ Root!InternAssumption /\ Ext!ExtAssumption

mapRest == <<map, mapVersion, pendingForAck, mapNet, mapChanges, hasty>>
listRest == <<list, listVersion, listBound, listNet, overlapped, listChanges>>
callRest == <<callBound, main, syncTask, task, callQueue, callNet, serving, firstAnswer>>
rootRest ==
  <<rootBound, mine, others, inverse, inserting, rootNet, rootQueue, reading, written>>
extRest == <<binding, subscribed, connected, sendQ, sending, flushing, extNet, parked, binds,
             sent, arrived, crossed>>

entityVars == <<entity, propertyVars, mapRest, listRest, callRest, rootRest, extRest>>

EntityInit ==
  /\ entity \in {"property", "map", "list", "call", "root", "ext"}
  /\ Init /\ Map!Init /\ List!Init /\ Call!Init /\ Root!Init /\ Ext!Init

\* The other entities rest.
Only(used) ==
  /\ entity' = entity
  /\ IF used = "property" THEN TRUE ELSE UNCHANGED propertyVars
  /\ IF used = "map" THEN TRUE ELSE UNCHANGED mapRest
  /\ IF used = "list" THEN TRUE ELSE UNCHANGED listRest
  /\ IF used = "call" THEN TRUE ELSE UNCHANGED callRest
  /\ IF used = "root" THEN TRUE ELSE UNCHANGED rootRest
  /\ IF used = "ext" THEN TRUE ELSE UNCHANGED extRest

EntityNext ==
  \/ entity = "property" /\ Next /\ Only("property")
  \/ entity = "map" /\ Map!Next /\ Only("map")
  \/ entity = "list" /\ List!Next /\ Only("list")
  \/ entity = "call" /\ Call!Next /\ Only("call")
  \/ entity = "root" /\ Root!Next /\ Only("root")
  \/ entity = "ext" /\ Ext!Next /\ Only("ext")

\* The threads of the entity that is used are fair, as its own module has it.
EntityFairness ==
  \A e \in Ends :
    /\ WF_propertyVars(entity = "property" /\ OnWireReceived(e))
    /\ WF_callRest(entity = "call" /\ Call!SyncThread(e))
    /\ WF_callRest(entity = "call" /\ Call!WireThread(e))
    /\ WF_callRest(entity = "call" /\ Call!DefaultThread(e))
    /\ WF_callRest(entity = "call" /\ \E n \in Call!Numbers : Call!Finish(e, n))
    /\ WF_extRest(entity = "ext" /\ Ext!DefaultThread(e))
    /\ WF_extRest(entity = "ext" /\ Ext!WireThread(e))

EntitySpec == EntityInit /\ [][EntityNext]_entityVars /\ EntityFairness

----------------------------------------------------------------------------
\* The type invariants of the entities, but of lists.
EntitiesTypeOK == TypeOK /\ Map!TypeOK /\ Call!TypeOK /\ Root!TypeOK /\ Ext!TypeOK

\* The ends of a list keep in step: what is under way to an end makes its list the other
\* end's, with the versions that it expects, and so no index is beyond the list.
ListsAgree == List!TypeOK /\ List!CatchesUp /\ List!VersionsMeet

\* Wherever the changes cross, once all is still the ends of a property agree, and those of
\* a map on every key that the master gave the slave time to acknowledge, and nothing waits
\* for an acknowledgement that has come; and an index stands for one value at both ends.
CopiesAgree ==
  Converges /\ Map!Converges /\ Map!NothingPends /\ Root!IndexStandsForValue

\* A task holds the first answer to it, for good, and none that somebody holds outlasts its
\* lifetime without a result.
AnsweredOnce == Call!HoldsFirstAnswer /\ Call!NoTaskIsLeft

\* The messages of an extension leave when it has once been bound, and arrive in order and
\* none twice; once all is still it takes the other end for connected only if it is bound.
MessagesInOrder ==
  Ext!NoMessageBeforeBound /\ Ext!ArrivesInOrder /\ Ext!ConnectedToBound

\* A synchronous call ends, and an asynchronous one is answered when its endpoint finishes.
CallsEnd == entity = "call" => Call!SyncEnds /\ Call!CallIsAnswered

\* Two ends that are left alone meet: those of a property settle, those of an extension that
\* stay bound connect, and what their users have sent arrives.
EndsMeet ==
  /\ entity = "property" => Settles
  /\ entity = "ext" => Ext!BothConnect /\ Ext!SentArrives
============================================================================
