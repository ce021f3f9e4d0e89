----------------------------- MODULE InternRoot -----------------------------
(***************************************************************************)
(* InternRoot: the values two ends of a protocol send once, with an index, *)
(* and then only by their indices.  Each end keeps the values it has sent, *)
(* with even indices, and those the other end has, with odd ones.          *)
(*                                                                         *)
(* Any thread writes messages, which interns under the root's lock; the    *)
(* wire's thread takes interned values in at once (InternScheduler); a     *)
(* message is read, which looks its index up without the lock, by the      *)
(* default scheduler's thread or, the answer to a call, by the wire's.     *)
(* The wire delivers in order.  The end that makes the root's owner sends  *)
(* it, and the other end's root is bound when its default scheduler comes  *)
(* to it: what the broker gets before, it parks there too.                 *)
(***************************************************************************)
EXTENDS Naturals, Sequences, FiniteSets, Functions

CONSTANTS
  Creator, Receiver, \* The end that makes the owner of the root, and the other.
  Values,
  Answers,           \* Whether there are messages the wire's thread reads.
  MaxMessages        \* Bound: how many messages each end writes.

\* What is assumed of the constants.
InternAssumption ==
  Creator # Receiver /\ Answers \in BOOLEAN /\ MaxMessages \in Nat

VARIABLES
  bound,     \* Whether the root of each end is bound.
  mine,      \* my_items_lis.
  others,    \* other_items_list.
  inverse,   \* inverse_map.
  inserting, \* The thread that has the lock and what it inserts, or Nothing.
  net,       \* What is under way to each end.
  queue,     \* What the default scheduler of each end has to run.
  reading,   \* The message each thread of each end looks the index up for.
  written    \* How many messages each end has written.

internVars == <<bound, mine, others, inverse, inserting, net, queue, reading, written>>

Ends == {Creator, Receiver}
Other(e) == IF e = Creator THEN Receiver ELSE Creator
Threads == {"wire", "default"}
Nothing == [by |-> "nobody", into |-> "nothing"]
Intern(id, v) == [is |-> "intern", id |-> id, value |-> v]
Owner == [is |-> "owner"]
Message(id, v, answer) == [is |-> "message", id |-> id, value |-> v, answer |-> answer]

IsIndexOwned(id) == id % 2 = 0

\* id ^ 1: an index as the other end has it.
Flip(id) == IF IsIndexOwned(id) THEN id + 1 ELSE id - 1

EmptyMap == [x \in {} |-> x]
With(f, x, y) == [z \in DOMAIN f \cup {x} |-> IF z = x THEN y ELSE f[z]]

Init ==
  /\ bound = [e \in Ends |-> e = Creator]
  /\ mine = [e \in Ends |-> <<>>]
  /\ others = [e \in Ends |-> EmptyMap]
  /\ inverse = [e \in Ends |-> EmptyMap]
  /\ inserting = [e \in Ends |-> Nothing]
  /\ net = [e \in Ends |-> IF e = Receiver THEN <<Owner>> ELSE <<>>]
  /\ queue = [e \in Ends |-> <<>>]
  /\ reading = [e \in Ends |-> [t \in Threads |-> Nothing]]
  /\ written = [e \in Ends |-> 0]

----------------------------------------------------------------------------
LockIsFree(e) == inserting[e] = Nothing

\* intern_value of a value without an index begins, and takes the lock.
BeginIntern(e, v) ==
  /\ bound[e] /\ LockIsFree(e)
  /\ v \notin DOMAIN inverse[e]
  /\ written[e] < MaxMessages
  /\ inserting' = [inserting EXCEPT ![e] = [by |-> "writer", into |-> "mine", value |-> v]]
  /\ UNCHANGED <<bound, mine, others, inverse, net, queue, reading, written>>

\* It has sent the value with the index and inserted it, and releases the lock.
EndIntern(e) ==
  /\ inserting[e].into = "mine"
  /\ LET v == inserting[e].value
         id == 2 * Len(mine[e])
     IN  /\ mine' = [mine EXCEPT ![e] = Append(@, v)]
         /\ net' = [net EXCEPT ![Other(e)] = Append(@, Intern(id, v))]
         /\ inverse' = [inverse EXCEPT ![e] = With(@, v, id)]
  /\ inserting' = [inserting EXCEPT ![e] = Nothing]
  /\ UNCHANGED <<bound, others, queue, reading, written>>

\* A message with a value that has an index is sent.  What calls for an answer is sent
\* by an end that is bound.
Write(e, v, answer) ==
  /\ bound[e] /\ LockIsFree(e)
  /\ v \in DOMAIN inverse[e]
  /\ answer => Answers /\ bound[Other(e)]
  /\ written[e] < MaxMessages
  /\ written' = [written EXCEPT ![e] = @ + 1]
  /\ net' = [net EXCEPT ![Other(e)] = Append(@, Message(inverse[e][v], v, answer))]
  /\ UNCHANGED <<bound, mine, others, inverse, inserting, queue, reading>>

----------------------------------------------------------------------------
\* set_interned_correspondence takes the lock, for an index that the other end owns.
BeginSet(e, t, m) ==
  /\ LockIsFree(e)
  /\ inserting' = [inserting EXCEPT
       ![e] = [by |-> t, into |-> "others", id |-> Flip(m.id), value |-> m.value]]

EndSet(e) ==
  /\ inserting[e].into = "others"
  /\ others' = [others EXCEPT ![e] = With(@, inserting[e].id \div 2, inserting[e].value)]
  /\ inverse' = [inverse EXCEPT ![e] = With(@, inserting[e].value, inserting[e].id)]
  /\ inserting' = [inserting EXCEPT ![e] = Nothing]
  /\ UNCHANGED <<bound, mine, net, queue, reading, written>>

IsIdle(e, t) == reading[e][t] = Nothing /\ inserting[e].by # t

\* Whether the wire's thread handles what comes itself, rather than park or queue it.
AtOnce(e, m) == bound[e] /\ (m.is = "intern" \/ (m.is = "message" /\ m.answer))

\* The wire's thread takes in a value, begins to look up an index, or queues.
Receive(e) ==
  /\ net[e] # <<>> /\ IsIdle(e, "wire")
  /\ LET m == Head(net[e])
     IN  CASE AtOnce(e, m) /\ m.is = "intern" -> BeginSet(e, "wire", m) /\ UNCHANGED <<queue, reading>>
           [] AtOnce(e, m) /\ m.is = "message" ->
                reading' = [reading EXCEPT ![e]["wire"] = m] /\ UNCHANGED <<queue, inserting>>
           [] OTHER ->
                queue' = [queue EXCEPT ![e] = Append(@, m)] /\ UNCHANGED <<reading, inserting>>
  /\ net' = [net EXCEPT ![e] = Tail(@)]
  /\ UNCHANGED <<bound, mine, others, inverse, written>>

\* The default scheduler's thread binds the root, which empties it, takes in a value that
\* was parked, or begins to look up an index.
Run(e) ==
  /\ queue[e] # <<>> /\ IsIdle(e, "default")
  /\ LET m == Head(queue[e])
     IN  CASE m.is = "owner" ->
                /\ bound' = [bound EXCEPT ![e] = TRUE]
                /\ mine' = [mine EXCEPT ![e] = <<>>]
                /\ others' = [others EXCEPT ![e] = EmptyMap]
                /\ inverse' = [inverse EXCEPT ![e] = EmptyMap]
                /\ UNCHANGED <<inserting, reading>>
           [] m.is = "intern" ->
                BeginSet(e, "default", m) /\ UNCHANGED <<bound, mine, others, inverse, reading>>
           [] OTHER ->
                /\ reading' = [reading EXCEPT ![e]["default"] = m]
                /\ UNCHANGED <<bound, mine, others, inverse, inserting>>
  /\ queue' = [queue EXCEPT ![e] = Tail(@)]
  /\ UNCHANGED <<net, written>>

\* un_intern_value is over.
EndRead(e, t) ==
  /\ reading[e][t] # Nothing
  /\ reading' = [reading EXCEPT ![e][t] = Nothing]
  /\ UNCHANGED <<bound, mine, others, inverse, inserting, net, queue, written>>

Next ==
  \E e \in Ends :
    \/ \E v \in Values : BeginIntern(e, v) \/ \E answer \in BOOLEAN : Write(e, v, answer)
    \/ EndIntern(e) \/ EndSet(e) \/ Receive(e) \/ Run(e)
    \/ \E t \in Threads : EndRead(e, t)

Spec == Init /\ [][Next]_internVars

----------------------------------------------------------------------------
\* What un_intern_value finds under an index: a set of one value, or none.
UnInterned(e, id) ==
  IF IsIndexOwned(id)
  THEN {mine[e][i] : i \in DOMAIN mine[e] \cap {id \div 2 + 1}}
  ELSE {others[e][i] : i \in DOMAIN others[e] \cap {id \div 2}}

\* The variables have their types, no value is listed twice by one end, and an end has
\* only those of the other's values that the other has.
TypeOK ==
  /\ bound \in [Ends -> BOOLEAN]
  /\ \A e \in Ends :
       /\ mine[e] \in Seq(Values) /\ IsInjective(mine[e])
       /\ \A i \in DOMAIN others[e] : others[e][i] = mine[Other(e)][i + 1]
       /\ DOMAIN inverse[e] \subseteq Values
       /\ written[e] \in 0 .. MaxMessages
       /\ inserting[e].into \in {"nothing", "mine", "others"}

\* Whichever end has interned the value, also if both have at the same time, the index a
\* value is written by stands for it at the end that writes and, once it reads the
\* message, at the end that reads.
IndexStandsForValue ==
  \A e \in Ends :
    /\ \A v \in DOMAIN inverse[e] : UnInterned(e, inverse[e][v]) = {v}
    /\ LET m == reading[e]["default"]
       IN  m # Nothing => UnInterned(e, Flip(m.id)) = {m.value}

\* "value's already exists": a look-up finds the value, on whatever thread.
ValueExists ==
  \A e \in Ends, t \in Threads :
    reading[e][t] # Nothing => UnInterned(e, Flip(reading[e][t].id)) = {reading[e][t].value}

\* "don't need lock": no thread inserts into the list that another one reads.
NoLockNeeded ==
  \A e \in Ends, t \in Threads :
    reading[e][t] # Nothing =>
      inserting[e].into # IF IsIndexOwned(Flip(reading[e][t].id)) THEN "mine" ELSE "others"
============================================================================
