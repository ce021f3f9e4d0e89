----------------------------- MODULE Lifetimes -----------------------------
(***************************************************************************)
(* LifetimeImpl: a lifetime keeps the actions that undo what was done for  *)
(* it, and terminate runs them, the last first.  A lifetime nested in      *)
(* another one leaves there the action that terminates it, and keeps one   *)
(* that removes that action again.  Any thread may add, nest, bracket and  *)
(* terminate at any time, from within a running action as well.            *)
(*                                                                         *)
(* A thread's calls are a stack of frames, the innermost first.  add_action*)
(* throws once the lifetime is terminated; an exception leaves the calls   *)
(* it passes, whose remaining actions are gone.                            *)
(***************************************************************************)
EXTENDS Integers, Sequences, SequencesExt

CONSTANTS
  Threads,
  Lifetimes,
  Parent,    \* The lifetime each one may be nested in; its own is a root's.
  MaxCalls   \* Bound: how many calls the threads make in all.

ASSUME LifetimesAssumption ==
  /\ Parent \in [Lifetimes -> Lifetimes]
  /\ MaxCalls \in Nat

VARIABLES
  created,     \* The lifetimes there are.
  terminated,  \* The member terminated of each lifetime.
  actions,     \* The member actions: records in the order of their keys.
  nextKey,     \* The member action_id_in_map.
  stack,       \* The calls each thread is in.
  calls,       \* How many calls there have been.
  attached,    \* The key in its parent of each nested lifetime, once attached.
  added,       \* The users' actions that add_action has taken, <<lifetime, key>>.
  ran,         \* Those that have run, in this order.
  lost         \* The actions that exceptions have left out.

lifetimeVars == <<created, terminated, actions, nextKey, stack, calls, attached, added, ran, lost>>

Roots == {l \in Lifetimes : Parent[l] = l}

NotAttached == -1

Init ==
  /\ created = Roots
  /\ terminated = [l \in Lifetimes |-> FALSE]
  /\ actions = [l \in Lifetimes |-> <<>>]
  /\ nextKey = [l \in Lifetimes |-> 0]
  /\ stack = [t \in Threads |-> <<>>]
  /\ calls = 0
  /\ attached = [l \in Lifetimes |-> NotAttached]
  /\ added = {}
  /\ ran = <<>>
  /\ lost = {}

Top(t) == Head(stack[t])
IsIn(t, call) == stack[t] # <<>> /\ Top(t).call = call
PushFrame(t, frame) == stack' = [stack EXCEPT ![t] = <<frame>> \o @]
PopFrame(t) == stack' = [stack EXCEPT ![t] = Tail(@)]

\* What a user calls starts in no call or in one of terminate's actions.
Call(t) ==
  /\ stack[t] = <<>> \/ IsIn(t, "running")
  /\ calls < MaxCalls /\ calls' = calls + 1

UserAction(l) == [key |-> nextKey[l], of |-> l, does |-> "run"]
TerminateNested(l, n) == [key |-> nextKey[l], of |-> l, does |-> "terminate", nested |-> n]
EraseFrom(n, key) == [key |-> nextKey[n], of |-> n, does |-> "erase", outer |-> key]

\* add_action, which takes the lock for the test and the addition together.
AddAction(a) ==
  /\ ~terminated[a.of]
  /\ actions' = [actions EXCEPT ![a.of] = Append(@, a)]
  /\ nextKey' = [nextKey EXCEPT ![a.of] = @ + 1]

Added(l) == added' = added \cup {<<l, nextKey[l]>>}

\* add_action throws through every call the thread is in.
Throw(t) ==
  /\ lost' = lost \cup UNION {ToSet(stack[t][n].left) : n \in DOMAIN stack[t]}
  /\ stack' = [stack EXCEPT ![t] = <<>>]

----------------------------------------------------------------------------
Add(t, l) ==
  /\ l \in created /\ Call(t)
  /\ \/ AddAction(UserAction(l)) /\ Added(l) /\ UNCHANGED <<stack, lost>>
     \/ terminated[l] /\ Throw(t) /\ UNCHANGED <<actions, nextKey, added>>
  /\ UNCHANGED <<created, terminated, attached, ran>>

\* bracket: the opening runs, and then the closing is added.
Bracket(t, l) ==
  /\ l \in created /\ ~terminated[l] /\ Call(t)
  /\ PushFrame(t, [call |-> "opening", of |-> l, left |-> <<>>])
  /\ UNCHANGED <<created, terminated, actions, nextKey, attached, added, ran, lost>>

AddClosing(t) ==
  /\ IsIn(t, "opening")
  /\ LET l == Top(t).of
     IN  \/ AddAction(UserAction(l)) /\ Added(l) /\ PopFrame(t) /\ UNCHANGED lost
         \/ terminated[l] /\ Throw(t) /\ UNCHANGED <<actions, nextKey, added>>
  /\ UNCHANGED <<created, terminated, calls, attached, ran>>

\* create_nested and LifetimeDefinition(parent): attach_nested of a new lifetime.
CreateNested(t, n) ==
  /\ n \notin created /\ Parent[n] \in created /\ Call(t)
  /\ created' = created \cup {n}
  /\ PushFrame(t, [call |-> "attaching", of |-> n, left |-> <<>>])
  /\ UNCHANGED <<terminated, actions, nextKey, attached, added, ran, lost>>

\* A mutant of AttachToParent: it remembers the key of the next action.
AttachToParentNextKey(t) ==
  /\ IsIn(t, "attaching")
  /\ LET n == Top(t).of  p == Parent[n]
     IN  \/ /\ AddAction(TerminateNested(p, n))
            /\ stack' = [stack EXCEPT ![t] =
                 <<[call |-> "attached", of |-> n, left |-> <<>>, key |-> nextKey[p] + 1]>> \o Tail(@)]
            /\ UNCHANGED lost
         \/ terminated[p] /\ Throw(t) /\ UNCHANGED <<actions, nextKey>>
  /\ UNCHANGED <<created, terminated, calls, attached, added, ran>>

AttachToParent(t) ==
  /\ IsIn(t, "attaching")
  /\ LET n == Top(t).of  p == Parent[n]
     IN  \/ /\ AddAction(TerminateNested(p, n))
            /\ stack' = [stack EXCEPT ![t] =
                 <<[call |-> "attached", of |-> n, left |-> <<>>, key |-> nextKey[p]]>> \o Tail(@)]
            /\ UNCHANGED lost
         \/ terminated[p] /\ Throw(t) /\ UNCHANGED <<actions, nextKey>>
  /\ UNCHANGED <<created, terminated, calls, attached, added, ran>>

AddErase(t) ==
  /\ IsIn(t, "attached")
  /\ LET n == Top(t).of
     IN  \/ /\ AddAction(EraseFrom(n, Top(t).key)) /\ PopFrame(t)
            /\ attached' = [attached EXCEPT ![n] = Top(t).key] /\ UNCHANGED lost
         \/ terminated[n] /\ Throw(t) /\ UNCHANGED <<actions, nextKey, attached>>
  /\ UNCHANGED <<created, terminated, calls, added, ran>>

\* terminate: the flag first, the actions taken under the lock next, then run.
Terminate(t, l) ==
  /\ l \in created /\ Call(t)
  /\ terminated' = [terminated EXCEPT ![l] = TRUE]
  /\ PushFrame(t, [call |-> "taking", of |-> l, left |-> <<>>])
  /\ UNCHANGED <<created, actions, nextKey, attached, added, ran, lost>>

TakeActions(t) ==
  /\ IsIn(t, "taking")
  /\ LET l == Top(t).of
     IN  /\ stack' = [stack EXCEPT ![t] =
                        <<[call |-> "running", of |-> l, left |-> actions[l]]>> \o Tail(@)]
         /\ actions' = [actions EXCEPT ![l] = <<>>]
  /\ UNCHANGED <<created, terminated, nextKey, calls, attached, added, ran, lost>>

\* The next action of the copy, from its end.
NextAction(t) == Last(Top(t).left)
Rest(t) == [stack EXCEPT ![t] = <<[Top(t) EXCEPT !.left = Front(@)]>> \o Tail(@)]
HasAction(t, does) ==
  IsIn(t, "running") /\ Top(t).left # <<>> /\ NextAction(t).does = does

RunUserAction(t) ==
  /\ HasAction(t, "run")
  /\ ran' = Append(ran, <<NextAction(t).of, NextAction(t).key>>)
  /\ stack' = Rest(t)
  /\ UNCHANGED <<created, terminated, actions, nextKey, calls, attached, added, lost>>

\* A mutant of RunTerminateNested: a lifetime that is terminated is passed over.
RunTerminateIfAlive(t) ==
  /\ HasAction(t, "terminate")
  /\ LET n == NextAction(t).nested
     IN  /\ terminated' = [terminated EXCEPT ![n] = TRUE]
         /\ stack' = IF terminated[n] THEN Rest(t)
                     ELSE [Rest(t) EXCEPT ![t] = <<[call |-> "taking", of |-> n, left |-> <<>>]>> \o @]
  /\ UNCHANGED <<created, actions, nextKey, calls, attached, added, ran, lost>>

RunTerminateNested(t) ==
  /\ HasAction(t, "terminate")
  /\ LET n == NextAction(t).nested
     IN  /\ terminated' = [terminated EXCEPT ![n] = TRUE]
         /\ stack' = [Rest(t) EXCEPT ![t] = <<[call |-> "taking", of |-> n, left |-> <<>>]>> \o @]
  /\ UNCHANGED <<created, actions, nextKey, calls, attached, added, ran, lost>>

\* ordered_map's erase: the action with that key goes, the others keep their order.
Erased(s, key) ==
  IF \E n \in DOMAIN s : s[n].key = key
    THEN RemoveAt(s, CHOOSE n \in DOMAIN s : s[n].key = key) ELSE s

\* actions.erase(id) on the parent, without its lock.
RunErase(t) ==
  /\ HasAction(t, "erase")
  /\ LET p == Parent[NextAction(t).of]  key == NextAction(t).outer
     IN  actions' = [actions EXCEPT ![p] = Erased(@, key)]
  /\ stack' = Rest(t)
  /\ UNCHANGED <<created, terminated, nextKey, calls, attached, added, ran, lost>>

Return(t) ==
  /\ IsIn(t, "running") /\ Top(t).left = <<>>
  /\ PopFrame(t)
  /\ UNCHANGED <<created, terminated, actions, nextKey, calls, attached, added, ran, lost>>

----------------------------------------------------------------------------
\* A thread goes on with the calls it is in.
Continue(t) ==
  \/ AddClosing(t) \/ AttachToParent(t) \/ AddErase(t) \/ TakeActions(t)
  \/ RunUserAction(t) \/ RunTerminateNested(t) \/ RunErase(t) \/ Return(t)

Next ==
  \E t \in Threads :
    \/ \E l \in Lifetimes : Add(t, l) \/ Bracket(t, l) \/ CreateNested(t, l) \/ Terminate(t, l)
    \/ AddClosing(t) \/ AttachToParent(t) \/ AddErase(t) \/ TakeActions(t)
    \/ RunUserAction(t) \/ RunTerminateNested(t) \/ RunErase(t) \/ Return(t)

Spec == Init /\ [][Next]_lifetimeVars /\ \A t \in Threads : WF_lifetimeVars(Continue(t))

----------------------------------------------------------------------------
\* The actions of a lifetime that nobody has run yet.
Waiting == UNION {ToSet(actions[l]) : l \in Lifetimes}
InFrames == UNION {UNION {ToSet(stack[t][n].left) : n \in DOMAIN stack[t]} : t \in Threads}
Frames(l) == {t \in Threads : \E n \in DOMAIN stack[t] : stack[t][n].of = l}
Place(a) == <<a.of, a.key>>

\* A terminated lifetime has no action left once it has been taken for
\* termination: an action added meanwhile either is taken too or is refused.
TypeOK ==
  /\ created \subseteq Lifetimes /\ Roots \subseteq created
  /\ terminated \in [Lifetimes -> BOOLEAN]
  /\ \A l \in Lifetimes : \A n \in DOMAIN actions[l] :
       actions[l][n].of = l /\ actions[l][n].key \in 0 .. nextKey[l] - 1
  /\ \A l \in Lifetimes : terminated[l] /\ actions[l] # <<>> =>
       \E t \in Threads : \E n \in DOMAIN stack[t] :
         stack[t][n].of = l /\ stack[t][n].call = "taking"

\* Whatever the threads do at once, no users' action disappears: it waits, is
\* in the hands of a terminate, has run or was left out by an exception.
NoActionDisappears ==
  \A x \in added :
    x \in ToSet(ran) \cup {Place(a) : a \in Waiting \cup InFrames \cup lost}

\* No action runs twice, and those of one lifetime run last first.
LastAddedRunsFirst ==
  \A j, k \in DOMAIN ran :
    j < k /\ ran[j][1] = ran[k][1] => ran[j][2] > ran[k][2]

\* When an action of a lifetime runs, every lifetime nested in it later has been
\* terminated and its actions have been taken up.
NestedEndFirst ==
  [][Len(ran') > Len(ran) =>
       LET x == Last(ran')
       IN  \A n \in created \ Roots :
             Parent[n] = x[1] /\ attached[n] # NotAttached /\ attached[n] > x[2] =>
               terminated'[n] /\ actions'[n] = <<>>]_lifetimeVars

\* A nested lifetime that has ended leaves nothing behind in its parent, unless
\* an exception left its detaching out.
EndedDetach ==
  \A n \in created \ Roots :
    attached[n] # NotAttached /\ terminated[n] /\ Frames(n) = {} /\ lost = {} =>
      \A a \in ToSet(actions[Parent[n]]) : a.does = "terminate" => a.nested # n

\* Whatever the threads do at once no action of a lifetime disappears or runs twice, the last
\* added runs first, and a lifetime that has ended leaves nothing behind in its parent.
ActionsAreKept == NoActionDisappears /\ LastAddedRunsFirst /\ EndedDetach

Doomed(l) == terminated[l] \/ (terminated[Parent[l]] /\ attached[l] # NotAttached)

\* The users' actions that have to run: once none is owed, all that were have run.
Owed == {x \in added \ ToSet(ran) : Doomed(x[1])}

\* Once a lifetime is terminated every action of it and of the lifetimes nested
\* in it runs, unless an exception leaves it out.
TerminatedRunsAll == Owed # {} ~> Owed = {} \/ lost # {}
============================================================================
