------------------------------- MODULE RdCall -------------------------------
(***************************************************************************)
(* RdCall, its tasks (WiredRdTask) and the RdEndpoint that answers them.   *)
(* Each of two ends has a call whose endpoint the other end has, under one *)
(* lifetime of its own.                                                    *)
(*                                                                         *)
(* Calls are made, and requests handled, on the thread of the default      *)
(* scheduler (main), which a synchronous call keeps until it has an answer *)
(* or gives up; the answers come on the wire's thread.  The wire delivers  *)
(* in order, and what has no subscriber any more is dropped (MessageBroker *)
(* has the details).                                                       *)
(*                                                                         *)
(* A task that nobody holds is freed but stays subscribed: an answer that  *)
(* comes for it then runs on a freed object, of which nothing is modelled. *)
(***************************************************************************)
EXTENDS Naturals, Sequences, FiniteSets

CONSTANTS
  Ends,     \* The two ends.
  Handled,  \* Those whose endpoint has been given a handler.
  MaxCalls  \* Bound: how often each end calls, MaxCalls[e].

\* What is assumed of the constants.
CallAssumption ==
  /\ \E a, b \in Ends : a # b /\ Ends = {a, b}
  /\ Handled \subseteq Ends
  /\ MaxCalls \in [Ends -> Nat]

VARIABLES
  bound,      \* Whether the lifetime the end is bound under is alive.
  main,       \* The synchronous task main waits for, or NoTask.
  syncTask,   \* RdCall::sync_task_id, or NoTask.
  task,       \* The tasks of the end's calls.
  queue,      \* What the default scheduler has to run.
  net,        \* What is under way to each end.
  serving,    \* What each end's handler has done for each task of the other end.
  firstAnswer \* Its first answer to it, NoResult if there is none.

callVars == <<bound, main, syncTask, task, queue, net, serving, firstAnswer>>

Other(e) == CHOOSE x \in Ends : x # e
NoTask == 0
NoResult == "empty"
Results == {"Success", "Cancelled", "Fault"}
Numbers == UNION {1 .. MaxCalls[e] : e \in Ends}
Request(n) == [is |-> "request", task |-> n]
Response(n, r) == [is |-> "response", task |-> n, result |-> r]

Init ==
  /\ bound = [e \in Ends |-> TRUE]
  /\ main = [e \in Ends |-> NoTask]
  /\ syncTask = [e \in Ends |-> NoTask]
  /\ task = [e \in Ends |-> <<>>]
  /\ queue = [e \in Ends |-> <<>>]
  /\ net = [e \in Ends |-> <<>>]
  /\ serving = [e \in Ends |-> [n \in Numbers |-> "no"]]
  /\ firstAnswer = [e \in Ends |-> [n \in Numbers |-> NoResult]]

----------------------------------------------------------------------------
\* A task: whether somebody holds it, whether the wire still knows it, whether its
\* response scheduler is the synchronous one, and the result.
NewTask(sync, alive) ==
  [alive |-> alive, subscribed |-> TRUE, sync |-> sync, result |-> NoResult]

CanCall(e) == bound[e] /\ main[e] = NoTask /\ Len(task[e]) < MaxCalls[e]

\* start_internal: the task subscribes before its request is sent.
Begin(e, sync) ==
  /\ task' = [task EXCEPT ![e] = Append(@, NewTask(sync, TRUE))]
  /\ net' = [net EXCEPT ![Other(e)] = Append(@, Request(Len(task[e]) + 1))]

Start(e) ==
  /\ CanCall(e)
  /\ Begin(e, FALSE)
  /\ UNCHANGED <<bound, main, syncTask, queue, serving, firstAnswer>>

Sync(e) ==
  /\ CanCall(e) /\ syncTask[e] = NoTask
  /\ Begin(e, TRUE)
  /\ syncTask' = [syncTask EXCEPT ![e] = Len(task[e]) + 1]
  /\ main' = [main EXCEPT ![e] = Len(task[e]) + 1]
  /\ UNCHANGED <<bound, queue, serving, firstAnswer>>

\* "Already exists sync task for call": the task is made, and freed by the exception.
SyncRefused(e) ==
  /\ CanCall(e) /\ syncTask[e] # NoTask
  /\ task' = [task EXCEPT ![e] = Append(@, NewTask(TRUE, FALSE))]
  /\ UNCHANGED <<bound, main, syncTask, queue, net, serving, firstAnswer>>

\* value_or_throw and unwrap: only a Success gets past them to reset sync_task_id;
\* what they throw frees the task.
SyncReturns(e) ==
  /\ main[e] # NoTask
  /\ LET n == main[e]
         returns == task[e][n].result = "Success"
     IN  /\ task[e][n].result # NoResult
         /\ task' = [task EXCEPT ![e][n].alive = returns]
         /\ syncTask' = IF returns THEN [syncTask EXCEPT ![e] = NoTask] ELSE syncTask
  /\ main' = [main EXCEPT ![e] = NoTask]
  /\ UNCHANGED <<bound, queue, net, serving, firstAnswer>>

\* The time is up, or the lifetime is: "task is empty" is thrown.
SyncTimesOut(e) ==
  /\ main[e] # NoTask
  /\ task[e][main[e]].result = NoResult
  /\ task' = [task EXCEPT ![e][main[e]].alive = FALSE]
  /\ main' = [main EXCEPT ![e] = NoTask]
  /\ UNCHANGED <<bound, syncTask, queue, net, serving, firstAnswer>>

\* The caller lets go of a task that a call has returned to it.
Release(e, n) ==
  /\ n \in DOMAIN task[e] /\ n # main[e] /\ task[e][n].alive
  /\ task' = [task EXCEPT ![e][n].alive = FALSE]
  /\ UNCHANGED <<bound, main, syncTask, queue, net, serving, firstAnswer>>

----------------------------------------------------------------------------
\* A mutant of WithResult: a later result replaces an earlier one.
WithAnyResult(t, r) == [t EXCEPT !.result = r]

\* set_if_empty, for a task that is there.
WithResult(t, r) == IF t.alive /\ t.result = NoResult THEN [t EXCEPT !.result = r] ELSE t

\* A task whose lifetime ends is cancelled and unsubscribed.
Ended(t) == [WithResult(t, "Cancelled") EXCEPT !.subscribed = FALSE]

\* The lifetime ends, on whatever thread.
Terminate(e) ==
  /\ bound[e]
  /\ bound' = [bound EXCEPT ![e] = FALSE]
  /\ task' = [task EXCEPT ![e] = [n \in DOMAIN task[e] |-> Ended(task[e][n])]]
  /\ UNCHANGED <<main, syncTask, queue, net, serving, firstAnswer>>

\* An answer for a task with the synchronous scheduler is assigned on the wire's
\* thread, any other by an action of its scheduler, which is the default one.
OnResponse(e) ==
  /\ net[e] # <<>> /\ Head(net[e]).is = "response"
  /\ LET response == Head(net[e])
         n == response.task
     IN  IF task[e][n].subscribed /\ task[e][n].sync
         THEN /\ task' = [task EXCEPT ![e][n] = WithResult(@, response.result)]
              /\ UNCHANGED queue
         ELSE /\ queue' = IF task[e][n].subscribed
                          THEN [queue EXCEPT ![e] = Append(@, response)] ELSE queue
              /\ UNCHANGED task
  /\ net' = [net EXCEPT ![e] = Tail(@)]
  /\ UNCHANGED <<bound, main, syncTask, serving, firstAnswer>>

\* A request waits for the default scheduler.
OnRequest(e) ==
  /\ net[e] # <<>> /\ Head(net[e]).is = "request"
  /\ net' = [net EXCEPT ![e] = Tail(@)]
  /\ queue' = IF bound[e] THEN [queue EXCEPT ![e] = Append(@, Head(net[e]))] ELSE queue
  /\ UNCHANGED <<bound, main, syncTask, task, serving, firstAnswer>>

\* A queued answer is assigned, whatever has become of the call's lifetime.
RunResponse(e) ==
  /\ main[e] = NoTask
  /\ queue[e] # <<>> /\ Head(queue[e]).is = "response"
  /\ LET response == Head(queue[e])
     IN  task' = [task EXCEPT ![e][response.task] = WithResult(@, response.result)]
  /\ queue' = [queue EXCEPT ![e] = Tail(@)]
  /\ UNCHANGED <<bound, main, syncTask, net, serving, firstAnswer>>

----------------------------------------------------------------------------
\* The endpoint's listener of a handler's task, which sends what it is set to.
Answer(e, n, r) ==
  /\ serving' = [serving EXCEPT ![e][n] = "answered"]
  /\ net' = [net EXCEPT ![Other(e)] = Append(@, Response(n, r))]
  /\ firstAnswer' = IF firstAnswer[e][n] = NoResult
                    THEN [firstAnswer EXCEPT ![e][n] = r] ELSE firstAnswer

\* on_wire_received of an endpoint: its handler returns a task that has its result,
\* or throws, which is a Fault, or returns a task that gets a result later.  Without
\* a handler the exception leaves the request without an answer.
RunRequest(e) ==
  /\ main[e] = NoTask
  /\ queue[e] # <<>> /\ Head(queue[e]).is = "request"
  /\ LET n == Head(queue[e]).task
     IN  CASE ~bound[e] \/ e \notin Handled -> UNCHANGED <<serving, net, firstAnswer>>
           [] OTHER -> \/ \E r \in Results : Answer(e, n, r)
                       \/ /\ serving' = [serving EXCEPT ![e][n] = "pending"]
                          /\ UNCHANGED <<net, firstAnswer>>
  /\ queue' = [queue EXCEPT ![e] = Tail(@)]
  /\ UNCHANGED <<bound, main, syncTask, task>>

\* A mutant of Finish: the endpoint listens to a task only while the handler runs.
FinishUnheard(e, n) ==
  /\ serving[e][n] = "pending"
  /\ serving' = [serving EXCEPT ![e][n] = "finished"]
  /\ UNCHANGED <<bound, main, syncTask, task, queue, net, firstAnswer>>

\* The handler's task gets its result.
Finish(e, n) ==
  /\ serving[e][n] = "pending"
  /\ IF bound[e]
     THEN \E r \in Results : Answer(e, n, r)
     ELSE /\ serving' = [serving EXCEPT ![e][n] = "finished"]
          /\ UNCHANGED <<net, firstAnswer>>
  /\ UNCHANGED <<bound, main, syncTask, task, queue>>

\* A task that has a result can be set another one, which is sent as well.
FinishAgain(e, n) ==
  /\ serving[e][n] = "answered" /\ bound[e]
  /\ \E r \in Results :
       net' = [net EXCEPT ![Other(e)] = Append(@, Response(n, r))]
  /\ serving' = [serving EXCEPT ![e][n] = "finished"]
  /\ UNCHANGED <<bound, main, syncTask, task, queue, firstAnswer>>

\* An iteration of the loop of sync, once it is over.
SyncThread(e) == SyncReturns(e) \/ SyncTimesOut(e)
WireThread(e) == OnResponse(e) \/ OnRequest(e)
DefaultThread(e) == RunResponse(e) \/ RunRequest(e)

Next ==
  \E e \in Ends :
    \/ Start(e) \/ Sync(e) \/ SyncRefused(e) \/ Terminate(e)
    \/ SyncThread(e) \/ WireThread(e) \/ DefaultThread(e)
    \/ \E n \in Numbers : Release(e, n) \/ Finish(e, n) \/ FinishAgain(e, n)

Spec == Init /\ [][Next]_callVars

\* The threads run, and a handler that returns a task ends it some time.
FairSpec ==
  /\ Spec
  /\ \A e \in Ends :
       /\ WF_callVars(SyncThread(e)) /\ WF_callVars(WireThread(e))
       /\ WF_callVars(DefaultThread(e))
       /\ WF_callVars(\E n \in Numbers : Finish(e, n))

----------------------------------------------------------------------------
\* The variables have their types; main waits for the task whose number sync_task_id
\* holds, which is not released under it.
TypeOK ==
  /\ bound \in [Ends -> BOOLEAN]
  /\ syncTask \in [Ends -> Numbers \cup {NoTask}]
  /\ \A e \in Ends :
       /\ task[e] \in Seq([alive : BOOLEAN, subscribed : BOOLEAN, sync : BOOLEAN,
                           result : Results \cup {NoResult}])
       /\ Len(task[e]) <= MaxCalls[e]
       /\ main[e] # NoTask => /\ main[e] = syncTask[e]
                              /\ task[e][main[e]].alive /\ task[e][main[e]].sync
       /\ syncTask[e] \in DOMAIN task[e] \cup {NoTask}
       /\ \A i \in DOMAIN queue[e] : queue[e][i].is = "response" =>
                                       ~task[e][queue[e][i].task].sync
  /\ serving \in [Ends -> [Numbers -> {"no", "pending", "answered", "finished"}]]
  /\ firstAnswer \in [Ends -> [Numbers -> Results \cup {NoResult}]]

\* Whatever else the handler sends for a task and whenever the lifetime ends, a task
\* holds the first answer to it, or was cancelled by the end of its lifetime.
HoldsFirstAnswer ==
  \A e \in Ends : \A n \in DOMAIN task[e] :
    \/ task[e][n].result \in {NoResult, firstAnswer[Other(e)][n]}
    \/ task[e][n].result = "Cancelled" /\ ~bound[e]

\* No task that somebody holds outlasts its lifetime without a result.
NoTaskIsLeft ==
  \A e \in Ends : \A n \in DOMAIN task[e] :
    ~bound[e] /\ task[e][n].alive => task[e][n].result # NoResult

\* A synchronous call ends, also while both ends make one and neither handles the
\* other's request meanwhile.
SyncEnds == \A e \in Ends : main[e] # NoTask ~> main[e] = NoTask

Waits(e, n) ==
  /\ n \in DOMAIN task[e]
  /\ ~task[e][n].sync /\ task[e][n].alive /\ task[e][n].result = NoResult

\* The task of an asynchronous call gets a result, unless the caller lets go of it or
\* the other end has no handler or leaves.
CallIsAnswered ==
  \A e \in Ends, n \in Numbers :
    Waits(e, n) ~> ~Waits(e, n) \/ ~bound[Other(e)] \/ Other(e) \notin Handled

\* "Already exists sync task for call" is what a call is refused with: while
\* sync_task_id is set, a synchronous call waits for that task.
SyncTaskExists ==
  \A e \in Ends : syncTask[e] # NoTask => main[e] = syncTask[e]
============================================================================
