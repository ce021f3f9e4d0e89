------------------------------- MODULE RdList -------------------------------
(***************************************************************************)
(* RdList: a list at two ends of a connection.  Each change at one end is  *)
(* an event with an index, sent with a version of its own, and repeated at *)
(* the other end, on its ViewableList.                                     *)
(*                                                                         *)
(* A list is filled by its owner before it is bound, and the binding sends *)
(* what it holds; what comes to an end that is not bound waits.  Later     *)
(* either end may change it, but only one that has nothing to receive: a   *)
(* list that both modify at once is an error of its users.                 *)
(***************************************************************************)
EXTENDS Integers, SequencesExt

CONSTANTS
  Owner, Client,  \* The two ends.
  Values,         \* What the elements may be.
  MaxLength,      \* Bound: how long the list gets.
  MaxChanges      \* Bound: how many changes are made.

\* What is assumed of the constants.
ListAssumption ==
  Owner # Client /\ MaxLength \in Nat /\ MaxChanges \in Nat

VARIABLES
  list,        \* The elements at each end.
  nextVersion, \* next_version.
  bound,       \* Whether each end is bound.
  net,         \* The events under way to each end.
  overlapped,  \* Whether a local change was begun inside another one.
  changes      \* How many changes have been made.

listVars == <<list, nextVersion, bound, net, overlapped, changes>>

Ends == {Owner, Client}
Other(e) == IF e = Owner THEN Client ELSE Owner

\* Events; an index counts from 0.
Added(i, v) == [op |-> "add", index |-> i, value |-> v]
Updated(i, v) == [op |-> "update", index |-> i, value |-> v]
Removed(i, v) == [op |-> "remove", index |-> i, value |-> v]

\* What an event makes of a list, at its own end and at the other; an index beyond the
\* list is undefined behaviour.
Apply(s, event) ==
  CASE event.op = "add" /\ event.index <= Len(s) -> InsertAt(s, event.index + 1, event.value)
    [] event.op = "update" /\ event.index < Len(s) -> ReplaceAt(s, event.index + 1, event.value)
    [] event.op = "remove" /\ event.index < Len(s) -> RemoveAt(s, event.index + 1)
    [] OTHER -> <<"undefined">>

Init ==
  /\ list = [e \in Ends |-> <<>>]
  /\ nextVersion = [e \in Ends |-> 1]
  /\ bound = [e \in Ends |-> FALSE]
  /\ net = [e \in Ends |-> <<>>]
  /\ overlapped = FALSE
  /\ changes = 0

----------------------------------------------------------------------------
\* The events are sent in their order, each with the next version.
SendAll(e, events) ==
  /\ net' = [net EXCEPT ![Other(e)] = @ \o
       [i \in DOMAIN events |-> [version |-> nextVersion[e] + i - 1, event |-> events[i]]]]
  /\ nextVersion' = [nextVersion EXCEPT ![e] = @ + Len(events)]

\* init: the listener that sends is told of all elements there are.
Bind(e) ==
  /\ ~bound[e]
  /\ bound' = [bound EXCEPT ![e] = TRUE]
  /\ SendAll(e, [i \in DOMAIN list[e] |-> Added(i - 1, list[e][i])])
  /\ UNCHANGED <<list, overlapped, changes>>

\* local_change of something that leaves this list and tells of these events.
ChangeTo(e, elements, events) ==
  /\ changes < MaxChanges /\ changes' = changes + 1
  /\ net[e] = <<>> /\ (e = Owner \/ \A f \in Ends : bound[f])
  /\ list' = [list EXCEPT ![e] = elements]
  /\ IF bound[e] THEN SendAll(e, events) ELSE UNCHANGED <<net, nextVersion>>
  /\ UNCHANGED bound

\* The same of changes that are made and told one after the other.
LocalChange(e, events) == ChangeTo(e, FoldLeft(Apply, list[e], events), events)

\* add and addAll, at an index or at the end.
AddAll(e, index, elements) ==
  /\ Len(list[e]) + Len(elements) <= MaxLength
  /\ LocalChange(e, [i \in DOMAIN elements |-> Added(index + i - 1, elements[i])])
  /\ UNCHANGED overlapped

Set(e, index, v) ==
  /\ LocalChange(e, <<Updated(index, v)>>)
  /\ UNCHANGED overlapped

\* removeAt and remove, which looks for the first such element.
RemoveElement(e, index) ==
  /\ LocalChange(e, <<Removed(index, list[e][index + 1])>>)
  /\ UNCHANGED overlapped

\* A mutant of RemovedBackwards: the elements from the first to the last.
RemovedForwards(s, values) ==
  SelectSeq([i \in DOMAIN s |-> Removed(i - 1, s[i])], LAMBDA event : event.value \in values)

\* The elements from the last to the first, those of the given values.
RemovedBackwards(s, values) ==
  LET events == [i \in DOMAIN s |-> Removed(i - 1, s[i])]
  IN  Reverse(SelectSeq(events, LAMBDA event : event.value \in values))

\* clear tells of every removal first and empties the list then.
Clear(e) ==
  /\ ChangeTo(e, <<>>, RemovedBackwards(list[e], Values))
  /\ UNCHANGED overlapped

\* removeAll calls removeAt, which is RdList's and begins a local change of its own.
RemoveAllOf(e, values) ==
  /\ LocalChange(e, RemovedBackwards(list[e], values))
  /\ overlapped' = (overlapped \/ RemovedBackwards(list[e], values) # <<>>)

\* on_wire_received: what it applies is no local change and is not sent on.
Receive(e) ==
  /\ bound[e] /\ net[e] # <<>>
  /\ list' = [list EXCEPT ![e] = Apply(@, Head(net[e]).event)]
  /\ net' = [net EXCEPT ![e] = Tail(@)]
  /\ nextVersion' = [nextVersion EXCEPT ![e] = @ + 1]
  /\ UNCHANGED <<bound, overlapped, changes>>

Next ==
  \E e \in Ends :
    \/ Bind(e) \/ Receive(e) \/ Clear(e)
    \/ \E index \in 0 .. Len(list[e]), elements \in SeqOf(Values, 2) \ {<<>>} :
         AddAll(e, index, elements)
    \/ \E index \in 0 .. Len(list[e]) - 1 :
         RemoveElement(e, index) \/ \E v \in Values : Set(e, index, v)
    \/ \E values \in SUBSET Values : RemoveAllOf(e, values)

Spec == Init /\ [][Next]_listVars

----------------------------------------------------------------------------
\* The variables have their types: at no end an index was beyond the list.
TypeOK ==
  /\ list \in [Ends -> SeqOf(Values, MaxLength)]
  /\ nextVersion \in [Ends -> Nat]
  /\ bound \in [Ends -> BOOLEAN]
  /\ overlapped \in BOOLEAN
  /\ changes \in 0 .. MaxChanges

\* What is under way to an end makes its list the other's, whatever the two have done
\* before and whichever of them was bound first.
CatchesUp ==
  (\A e \in Ends : bound[e]) =>
    \E e \in Ends :
      /\ net[Other(e)] = <<>>
      /\ FoldLeft(LAMBDA s, message : Apply(s, message.event), list[e], net[e]) = list[Other(e)]

\* An end expects the version that comes next: there is no "Version conflict".
VersionsMeet ==
  \A e \in Ends : net[e] # <<>> => Head(net[e]).version = nextVersion[e]

\* "!isLocalChange for RdReactiveBase": a local change is never begun inside another.
LocalChangeIsAlone == ~overlapped
============================================================================
