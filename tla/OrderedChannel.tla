--------------------------- MODULE OrderedChannel ---------------------------
(***************************************************************************)
(* What a pair of wires is for: whatever is put at an end arrives at the   *)
(* other once, in the order it was put.                                    *)
(***************************************************************************)
EXTENDS Integers, Sequences

CONSTANTS
  Ends,
  Peer(_)  \* The other end.

VARIABLES
  puts,     \* How many packages each end has put.
  accepted  \* The packages each end has got, by the number of their put.

Init ==
  /\ puts = [e \in Ends |-> 0]
  /\ accepted = [e \in Ends |-> <<>>]

Put(e) ==
  /\ puts' = [puts EXCEPT ![e] = @ + 1]
  /\ UNCHANGED accepted

Arrive(e) ==
  /\ Len(accepted[e]) < puts[Peer(e)]
  /\ accepted' = [accepted EXCEPT ![e] = Append(@, Len(@) + 1)]
  /\ UNCHANGED puts

Next == \E e \in Ends : Put(e) \/ Arrive(e)

Spec ==
  /\ Init
  /\ [][Next]_<<puts, accepted>>
  /\ \A e \in Ends : WF_<<puts, accepted>>(Arrive(e))
=============================================================================
