------------------------------- MODULE RdMap -------------------------------
(***************************************************************************)
(* RdMap: a map that two ends of a protocol both show and both may change. *)
(* The master numbers its changes and remembers, in pendingForAck, which   *)
(* keys it has changed and the slave not yet acknowledged; what the slave  *)
(* sends about such a key meanwhile is dropped.                            *)
(*                                                                         *)
(* All of an end runs on its default scheduler's thread; the wire delivers *)
(* in order.  pendingForAck holds pointers to keys, which the map frees    *)
(* when the key is removed and the caller of remove when it likes: whether *)
(* a key is found by way of a freed one is left open.                      *)
(***************************************************************************)
EXTENDS Naturals, Sequences, SequencesExt

CONSTANTS
  Master,    \* The end whose is_master is set.
  Slave,     \* The other end.
  Keys, Values,
  Absent,    \* What stands for a key without a value.
  MaxChanges \* Bound: how often the users of each end change the map, MaxChanges[e].

\* What is assumed of the constants.
MapAssumption ==
  /\ Master # Slave /\ Absent \notin Values /\ IsFiniteSet(Keys)
  /\ MaxChanges \in [{Master, Slave} -> Nat]

VARIABLES
  map,           \* The map each end shows.
  nextVersion,   \* The master's next_version.
  pendingForAck, \* Its changes without an acknowledgement.
  net,           \* What is under way to each end.
  changes,       \* How often the users of each end have changed the map.
  hasty          \* The keys the master changed before it had the acknowledgement
                 \* of its last change, or removed.

mapVars == <<map, nextVersion, pendingForAck, net, changes, hasty>>

Ends == {Master, Slave}
Other(e) == IF e = Master THEN Slave ELSE Master
Unversioned == 0
Change(version, k, v) == [is |-> "change", version |-> version, key |-> k, value |-> v]
Ack(version, k) == [is |-> "ack", version |-> version, key |-> k]

\* An entry of pendingForAck; its key is freed once the key is removed.
Pending(k, version, freed) == [key |-> k, version |-> version, freed |-> freed]
EntriesOf(k) == {p \in pendingForAck : p.key = k}

\* Looking key k up finds one of its entries, or possibly none if all are freed.
Found(k) ==
  {{p} : p \in EntriesOf(k)} \cup {none \in {{}} : \A p \in EntriesOf(k) : p.freed}

\* pendingForAck after the map has let go of the key.
WithFreed(pending, k) ==
  {IF p.key = k THEN [p EXCEPT !.freed = TRUE] ELSE p : p \in pending}

Init ==
  /\ map = [e \in Ends |-> [k \in Keys |-> Absent]]
  /\ nextVersion = 0
  /\ pendingForAck = {}
  /\ net = [e \in Ends |-> <<>>]
  /\ changes = [e \in Ends |-> 0]
  /\ hasty = {}

----------------------------------------------------------------------------
\* A mutant of Version: the number is read before it is counted up.
VersionBefore(e, n) == IF e = Master THEN nextVersion + n - 1 ELSE Unversioned

\* The version of the n-th of the changes end e sends at once.
Version(e, n) == IF e = Master THEN nextVersion + n ELSE Unversioned

\* The listener of init sends the changes of the keys, one after the other.
SendChanges(e, ks, v) ==
  /\ net' = [net EXCEPT ![Other(e)] = @ \o [n \in DOMAIN ks |-> Change(Version(e, n), ks[n], v)]]
  /\ nextVersion' = IF e = Master THEN nextVersion + Len(ks) ELSE nextVersion
  /\ changes[e] < MaxChanges[e]
  /\ changes' = [changes EXCEPT ![e] = @ + 1]

\* pendingForAck.emplace(key, version): an entry that is there stays as it is.
Emplace(k, version, found) ==
  IF found = {} THEN pendingForAck \cup {Pending(k, version, FALSE)} ELSE pendingForAck

\* set: a value that is there already is neither set nor sent.
Put(e, k, v) ==
  /\ map[e][k] # v
  /\ map' = [map EXCEPT ![e][k] = v]
  /\ SendChanges(e, <<k>>, v)
  /\ IF e = Master
     THEN /\ \E found \in Found(k) : pendingForAck' = Emplace(k, Version(e, 1), found)
          /\ hasty' = IF EntriesOf(k) # {} THEN hasty \cup {k} ELSE hasty
     ELSE UNCHANGED <<pendingForAck, hasty>>

\* remove: it sends while the key is there, and then erases it.
RemoveKey(e, k) ==
  /\ map[e][k] # Absent
  /\ map' = [map EXCEPT ![e][k] = Absent]
  /\ SendChanges(e, <<k>>, Absent)
  /\ IF e = Master
     THEN /\ \E found \in Found(k) :
               pendingForAck' = WithFreed(Emplace(k, Version(e, 1), found), k)
          /\ hasty' = hasty \cup {k}
     ELSE UNCHANGED <<pendingForAck, hasty>>

\* clear: the removals of all the keys, in their order, and then the erasing.
Clear(e) ==
  \E ks \in SetToSeqs({k \in Keys : map[e][k] # Absent}) :
    /\ ks # <<>>
    /\ map' = [map EXCEPT ![e] = [k \in Keys |-> Absent]]
    /\ SendChanges(e, ks, Absent)
    /\ IF e = Master
       THEN /\ \E found \in [DOMAIN ks -> UNION {Found(k) : k \in Keys}] :
                 /\ \A n \in DOMAIN ks : found[n] \in Found(ks[n])
                 /\ pendingForAck' =
                      {[p EXCEPT !.freed = @ \/ Contains(ks, p.key)] :
                         p \in UNION {Emplace(ks[n], Version(e, n), found[n]) : n \in DOMAIN ks}}
            /\ hasty' = hasty \cup ToSet(ks)
       ELSE UNCHANGED <<pendingForAck, hasty>>

----------------------------------------------------------------------------
\* A mutant of Accepts: the master takes whatever comes.
AcceptsAll(e, version, found) == TRUE

\* Whether end e takes a change: a slave does, the master unless one of its own
\* is on its way to the slave.
Accepts(e, version, found) == version # Unversioned \/ e = Slave \/ found = {}

\* on_wire_received of a change, which a versioned one is acknowledged with.
ReceiveChange(e) ==
  /\ net[e] # <<>> /\ Head(net[e]).is = "change"
  /\ LET change == Head(net[e])
         rest == [net EXCEPT ![e] = Tail(@)]
     IN  /\ \E found \in Found(change.key) :
              IF Accepts(e, change.version, found)
              THEN /\ map' = [map EXCEPT ![e][change.key] = change.value]
                   /\ pendingForAck' = IF e = Master /\ change.value = Absent
                                       THEN WithFreed(pendingForAck, change.key)
                                       ELSE pendingForAck
              ELSE UNCHANGED <<map, pendingForAck>>
         /\ net' = IF change.version # Unversioned
                   THEN [rest EXCEPT ![Other(e)] = Append(@, Ack(change.version, change.key))]
                   ELSE rest
  /\ UNCHANGED <<nextVersion, changes, hasty>>

\* Whether an acknowledgement is the one the entry waits for.
Settled(found, version) == \E p \in found : p.version = version

\* on_wire_received of an acknowledgement.
ReceiveAck ==
  /\ net[Master] # <<>> /\ Head(net[Master]).is = "ack"
  /\ LET ack == Head(net[Master])
     IN  \E found \in Found(ack.key) :
           pendingForAck' = IF Settled(found, ack.version)
                            THEN pendingForAck \ found ELSE pendingForAck
  /\ net' = [net EXCEPT ![Master] = Tail(@)]
  /\ UNCHANGED <<map, nextVersion, changes, hasty>>

Next ==
  \/ \E e \in Ends :
       \/ \E k \in Keys : RemoveKey(e, k) \/ \E v \in Values : Put(e, k, v)
       \/ Clear(e)
       \/ ReceiveChange(e)
  \/ ReceiveAck

Spec == Init /\ [][Next]_mapVars

----------------------------------------------------------------------------
\* The variables have their types; every entry of pendingForAck has a number the
\* master has given out, and unless it is freed it is the only one of its key,
\* which is in the map.
TypeOK ==
  /\ map \in [Ends -> [Keys -> Values \cup {Absent}]]
  /\ nextVersion \in Nat
  /\ \A p \in pendingForAck :
       /\ p.key \in Keys /\ p.version \in 1 .. nextVersion /\ p.freed \in BOOLEAN
       /\ ~p.freed => /\ map[Master][p.key] # Absent
                      /\ \A q \in EntriesOf(p.key) : ~q.freed => q = p
  /\ \A e \in Ends : changes[e] \in 0 .. MaxChanges[e]
  /\ hasty \subseteq Keys

\* However changes of the two ends cross on the way, when nothing is under way
\* any more both show the same value of every key the master gave the slave the
\* time to acknowledge.
Converges ==
  (\A e \in Ends : net[e] = <<>>) =>
    \A k \in Keys \ hasty : map[Master][k] = map[Slave][k]

\* "No pending for ACK" is what the code reports as an error: an acknowledgement
\* is of a change that waits for it.
AckHasPending ==
  net[Master] # <<>> /\ Head(net[Master]).is = "ack" => EntriesOf(Head(net[Master]).key) # {}

\* Once everything has arrived, nothing that is not hasty waits any more.
NothingPends ==
  (\A e \in Ends : net[e] = <<>>) => \A p \in pendingForAck : p.key \in hasty
============================================================================
