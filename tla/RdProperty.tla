----------------------------- MODULE RdProperty -----------------------------
(***************************************************************************)
(* RdProperty: one value that two ends of a protocol both show and both    *)
(* may set.  An end shows what it sets at once and tells the other one;    *)
(* what crosses on the way is settled by the version the master counts.    *)
(*                                                                         *)
(* All of an end runs on its default scheduler's thread; the wire delivers *)
(* in order.                                                               *)
(***************************************************************************)
EXTENDS Naturals, Sequences

CONSTANTS
  Master,  \* The end whose is_master is set.
  Slave,   \* The other end.
  Values,  \* What the property may be set to.
  Empty,   \* What it holds before it is first set.
  MaxSets  \* Bound: how often the users of each end change it.

ASSUME PropertyAssumption ==
  Master # Slave /\ Empty \notin Values /\ MaxSets \in Nat

VARIABLES
  value,         \* The value each end shows.
  masterVersion, \* The field master_version of each end.
  net,           \* What is under way to each end.
  sets           \* How often the users of each end have changed it.

propertyVars == <<value, masterVersion, net, sets>>

Ends == {Master, Slave}
Other(e) == IF e = Master THEN Slave ELSE Master
Update(version, v) == [version |-> version, value |-> v]

Init ==
  /\ value = [e \in Ends |-> Empty]
  /\ masterVersion = [e \in Ends |-> 0]
  /\ net = [e \in Ends |-> <<>>]
  /\ sets = [e \in Ends |-> 0]

----------------------------------------------------------------------------
\* The version a change of end e goes out with.
NextVersion(e) == IF e = Master THEN masterVersion[e] + 1 ELSE masterVersion[e]

\* set, and the listener of init that sends it: a value that is there already
\* changes nothing and is not sent.
Set(e, v) ==
  /\ v # value[e] /\ sets[e] < MaxSets
  /\ value' = [value EXCEPT ![e] = v]
  /\ masterVersion' = [masterVersion EXCEPT ![e] = NextVersion(e)]
  /\ net' = [net EXCEPT ![Other(e)] = Append(@, Update(NextVersion(e), v))]
  /\ sets' = [sets EXCEPT ![e] = @ + 1]

\* A mutant of Rejected: the master takes whatever comes.
RejectedNever(e, version) == FALSE

\* The master drops what the slave has set without knowing its last change.
Rejected(e, version) == e = Master /\ version < masterVersion[e]

\* on_wire_received
OnWireReceived(e) ==
  /\ net[e] # <<>>
  /\ LET update == Head(net[e])
     IN  IF Rejected(e, update.version)
         THEN UNCHANGED <<value, masterVersion>>
         ELSE /\ masterVersion' = [masterVersion EXCEPT ![e] = update.version]
              /\ value' = [value EXCEPT ![e] = update.value]
  /\ net' = [net EXCEPT ![e] = Tail(@)]
  /\ UNCHANGED sets

Next == \E e \in Ends : OnWireReceived(e) \/ \E v \in Values : Set(e, v)

Spec ==
  /\ Init /\ [][Next]_propertyVars
  /\ \A e \in Ends : WF_propertyVars(OnWireReceived(e))

----------------------------------------------------------------------------
\* The variables have their types, and nobody is ahead of the master.
TypeOK ==
  /\ value \in [Ends -> Values \cup {Empty}]
  /\ masterVersion \in [Ends -> Nat]
  /\ masterVersion[Slave] <= masterVersion[Master]
  /\ net \in [Ends -> Seq([version : Nat, value : Values])]
  /\ sets \in [Ends -> 0 .. MaxSets]

\* However sets of the two ends cross on the way, when nothing is under way any
\* more both ends show the same value: nobody is left with one the other dropped.
Converges ==
  (\A e \in Ends : net[e] = <<>>) => value[Master] = value[Slave]

\* Whatever crosses, no end ever goes back to an earlier version.
VersionsGrow ==
  [][\A e \in Ends : masterVersion[e] <= masterVersion'[e]]_propertyVars

\* When the users have come to rest, the ends agree for good.
Settles == <>[](value[Master] = value[Slave])
============================================================================
