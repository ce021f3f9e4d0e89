---------------------- MODULE ByteBufferAsyncProcessor ----------------------
(***************************************************************************)
(* ByteBufferAsyncProcessor: the buffer a wire sends its packages through. *)
(* Any thread puts packages into it; a sender thread takes them and hands  *)
(* them, numbered, to a processor, which for a wire writes them to the     *)
(* socket; the thread that looks after the connection pauses it, resumes   *)
(* it, and passes it the acknowledgements of the other end.  A package is  *)
(* kept until it is acknowledged and processed again by every resume.      *)
(* There is one such buffer at each of the Ends.  A package is the number  *)
(* of the put that brought it.                                             *)
(*                                                                         *)
(* The mutexes are the guards: `lock' is held for the whole of pause and   *)
(* of resume, also while they wait for the processing under way, and       *)
(* nobody else gets it meanwhile; process and reprocess both hold          *)
(* queue_lock and processing_lock, so neither starts while the other is    *)
(* under way, and in_processing is sender = "processing".                  *)
(*                                                                         *)
(* The condition variable cv is the sender thread's only: "waiting" is     *)
(* cv.wait, which ends by a notification or by itself, and "woken" that    *)
(* the thread is to get `lock' again.  Notified(e) is notify_all; it       *)
(* follows the unlocking at once, which is no restriction as a wait may    *)
(* end at any time.  processing_cv is waited for under processing_lock,    *)
(* which process holds throughout: nobody ever waits for its notification. *)
(***************************************************************************)
EXTENDS Integers, Sequences

CONSTANTS
  Ends,    \* Where there is a buffer.
  MaxPuts  \* Bound: how many packages each end puts, MaxPuts[e].

ASSUME PutsAssumption == MaxPuts \in [Ends -> Nat]

VARIABLES
  buffer,  \* The members of each buffer.
  puts,    \* How many packages each buffer has been given and has kept.
  sender,  \* Where ThreadProc is.
  caller,  \* Where the thread is that pauses and resumes.
  resent,  \* How many pending packages the resume under way has processed.
  closer   \* Whether a terminate0 is waiting for the sender thread.

bufferVars == <<buffer, puts, sender, caller, resent, closer>>

StateKind == {"Initialized", "AsyncProcessing", "Stopping", "Terminating", "Terminated"}

\* The states that are at least Stopping, and at least Terminating.
Stopped == {"Stopping", "Terminating", "Terminated"}
Ending == {"Terminating", "Terminated"}

\* The members after the constructor, and pause("initial") of the wire's.
PausedBuffer ==
  [state |-> "Initialized", data |-> <<>>, queue |-> <<>>, pending_queue |-> <<>>,
   max_sent_seqn |-> 0, current_seqn |-> 1, acknowledged_seqn |-> 0,
   interrupt_balance |-> 1]

Init ==
  /\ buffer = [e \in Ends |-> PausedBuffer]
  /\ puts = [e \in Ends |-> 0]
  /\ sender = [e \in Ends |-> "none"]
  /\ caller = [e \in Ends |-> "paused"]
  /\ resent = [e \in Ends |-> 0]
  /\ closer = [e \in Ends |-> "idle"]

LockIsFree(e) == caller[e] \notin {"pausing", "resuming", "resending"}

\* cv.notify_all, which wakes the sender thread if it waits.
Notified(e) == [sender EXCEPT ![e] = IF @ = "waiting" THEN "woken" ELSE @]

Start(e) ==
  /\ LockIsFree(e)
  /\ buffer[e].state = "Initialized"
  /\ buffer' = [buffer EXCEPT ![e].state = "AsyncProcessing"]
  /\ sender' = [sender EXCEPT ![e] = "top"]
  /\ UNCHANGED <<puts, caller, resent, closer>>

\* A mutant: put does not notify.
PutUnnoticed(e) ==
  /\ LockIsFree(e)
  /\ puts[e] < MaxPuts[e]
  /\ buffer[e].state \notin Stopped
  /\ puts' = [puts EXCEPT ![e] = @ + 1]
  /\ buffer' = [buffer EXCEPT ![e].data = Append(@, puts[e] + 1)]
  /\ UNCHANGED <<sender, caller, resent, closer>>

\* A buffer that is being stopped drops what it is given.
Put(e) ==
  /\ LockIsFree(e)
  /\ puts[e] < MaxPuts[e]
  /\ buffer[e].state \notin Stopped
  /\ puts' = [puts EXCEPT ![e] = @ + 1]
  /\ buffer' = [buffer EXCEPT ![e].data = Append(@, puts[e] + 1)]
  /\ sender' = Notified(e)
  /\ UNCHANGED <<caller, resent, closer>>

-----------------------------------------------------------------------------
\* The sender thread; "top" is the head of the outer loop.
NothingToDo(e) == buffer[e].data = <<>> \/ buffer[e].interrupt_balance # 0

ReturnFromThread(e) ==
  /\ LockIsFree(e)
  /\ \/ sender[e] = "top" /\ buffer[e].state = "Terminated"
     \/ sender[e] \in {"top", "woken"} /\ NothingToDo(e) /\ buffer[e].state \in Stopped
     \/ sender[e] = "woken" /\ buffer[e].state \in Ending
  /\ sender' = [sender EXCEPT ![e] = "ended"]
  /\ UNCHANGED <<buffer, puts, caller, resent, closer>>

Wait(e) ==
  /\ LockIsFree(e)
  /\ sender[e] \in {"top", "woken"}
  /\ NothingToDo(e)
  /\ buffer[e].state \notin Stopped
  /\ sender' = [sender EXCEPT ![e] = "waiting"]
  /\ UNCHANGED <<buffer, puts, caller, resent, closer>>

\* A spurious wake-up.
WakeUp(e) ==
  /\ sender[e] = "waiting"
  /\ sender' = Notified(e)
  /\ UNCHANGED <<buffer, puts, caller, resent, closer>>

\* The data go to the queue under `lock'; what follows does not hold it.
TakeData(e) ==
  /\ LockIsFree(e)
  /\ ~NothingToDo(e)
  /\ \/ sender[e] = "top" /\ buffer[e].state # "Terminated"
     \/ sender[e] = "woken" /\ buffer[e].state \notin Ending
  /\ sender' = [sender EXCEPT ![e] = "taken"]
  /\ buffer' = [buffer EXCEPT ![e].queue = @ \o buffer[e].data,
                              ![e].data = <<>>]
  /\ UNCHANGED <<puts, caller, resent, closer>>

BeginProcess(e) ==
  /\ sender[e] = "taken"
  /\ caller[e] # "resending"
  /\ sender' = [sender EXCEPT ![e] = "processing"]
  /\ UNCHANGED <<buffer, puts, caller, resent, closer>>

(***************************************************************************)
(* One call of the processor, with the next number; ok is its answer.  The *)
(* first failure ends the pass and leaves the package in the queue.        *)
(***************************************************************************)
Process(e, ok) ==
  /\ sender[e] = "processing"
  /\ buffer[e].queue # <<>>
  /\ IF ok
     THEN /\ buffer' = [buffer EXCEPT
               ![e].max_sent_seqn = @ + 1,
               ![e].pending_queue = Append(@, Head(buffer[e].queue)),
               ![e].queue = Tail(@)]
          /\ UNCHANGED sender
     ELSE /\ sender' = [sender EXCEPT ![e] = "top"]
          /\ UNCHANGED buffer
  /\ UNCHANGED <<puts, caller, resent, closer>>

EndProcess(e) ==
  /\ sender[e] = "processing"
  /\ buffer[e].queue = <<>>
  /\ sender' = [sender EXCEPT ![e] = "top"]
  /\ UNCHANGED <<buffer, puts, caller, resent, closer>>

-----------------------------------------------------------------------------
(***************************************************************************)
(* pause and resume, by the thread of the connection.  Both take `lock'    *)
(* and then wait until no processing is under way; a thread that has taken *)
(* its data may still begin to process them before, but not take more.     *)
(***************************************************************************)
BeginPause(e) ==
  /\ caller[e] = "resumed"
  /\ caller' = [caller EXCEPT ![e] = "pausing"]
  /\ buffer' = [buffer EXCEPT ![e].interrupt_balance = @ + 1]
  /\ UNCHANGED <<puts, sender, resent, closer>>

EndPause(e) ==
  /\ caller[e] = "pausing"
  /\ sender[e] # "processing"
  /\ caller' = [caller EXCEPT ![e] = "paused"]
  /\ UNCHANGED <<buffer, puts, sender, resent, closer>>

BeginResume(e) ==
  /\ caller[e] = "paused"
  /\ caller' = [caller EXCEPT ![e] = "resuming"]
  /\ UNCHANGED <<buffer, puts, sender, resent, closer>>

\* A mutant: the number of the first pending package is left behind.
BeginReprocessUncounted(e) ==
  /\ caller[e] = "resuming"
  /\ sender[e] # "processing"
  /\ LET b == buffer[e]
         done == b.acknowledged_seqn + 1 - b.current_seqn
     IN  buffer' = [buffer EXCEPT ![e].pending_queue =
                      SubSeq(@, done + 1, Len(@))]
  /\ caller' = [caller EXCEPT ![e] = "resending"]
  /\ resent' = [resent EXCEPT ![e] = 0]
  /\ UNCHANGED <<puts, sender, closer>>

\* reprocess up to its second loop: the acknowledged packages are let go.
BeginReprocess(e) ==
  /\ caller[e] = "resuming"
  /\ sender[e] # "processing"
  /\ LET b == buffer[e]
         done == b.acknowledged_seqn + 1 - b.current_seqn
     IN  buffer' = [buffer EXCEPT
           ![e].pending_queue = SubSeq(@, done + 1, Len(@)),
           ![e].current_seqn = b.acknowledged_seqn + 1]
  /\ caller' = [caller EXCEPT ![e] = "resending"]
  /\ resent' = [resent EXCEPT ![e] = 0]
  /\ UNCHANGED <<puts, sender, closer>>

\* The number under which resume processes a pending package again.
ResentSeqn(e) == buffer[e].current_seqn + resent[e]

\* One iteration of reprocess; resume does not look at what it answers.
Reprocess(e, ok) ==
  /\ caller[e] = "resending"
  /\ resent[e] < Len(buffer[e].pending_queue)
  /\ IF ok
     THEN /\ resent' = [resent EXCEPT ![e] = @ + 1]
          /\ UNCHANGED <<buffer, sender, caller>>
     ELSE /\ caller' = [caller EXCEPT ![e] = "resumed"]
          /\ buffer' = [buffer EXCEPT ![e].interrupt_balance = @ - 1]
          /\ sender' = Notified(e)
          /\ UNCHANGED resent
  /\ UNCHANGED <<puts, closer>>

\* A mutant: resume does not notify.
EndResumeUnnoticed(e) ==
  /\ caller[e] = "resending"
  /\ resent[e] = Len(buffer[e].pending_queue)
  /\ caller' = [caller EXCEPT ![e] = "resumed"]
  /\ buffer' = [buffer EXCEPT ![e].interrupt_balance = @ - 1]
  /\ UNCHANGED <<puts, sender, resent, closer>>

EndResume(e) ==
  /\ caller[e] = "resending"
  /\ resent[e] = Len(buffer[e].pending_queue)
  /\ caller' = [caller EXCEPT ![e] = "resumed"]
  /\ buffer' = [buffer EXCEPT ![e].interrupt_balance = @ - 1]
  /\ sender' = Notified(e)
  /\ UNCHANGED <<puts, resent, closer>>

\* A mutant: an acknowledgement is taken for the number expected next.
AcknowledgeNext(e, seqn) ==
  /\ LockIsFree(e)
  /\ buffer' = [buffer EXCEPT ![e].acknowledged_seqn = seqn + 1]
  /\ UNCHANGED <<puts, sender, caller, resent, closer>>

\* An acknowledgement that is not greater than the last is logged as an error.
Acknowledge(e, seqn) ==
  /\ LockIsFree(e)
  /\ IF seqn > buffer[e].acknowledged_seqn
     THEN buffer' = [buffer EXCEPT ![e].acknowledged_seqn = seqn]
     ELSE UNCHANGED buffer
  /\ UNCHANGED <<puts, sender, caller, resent, closer>>

-----------------------------------------------------------------------------
(***************************************************************************)
(* terminate0, for stop (kind Stopping) and terminate (Terminating): at    *)
(* once when the buffer has not been started, else after the sender thread *)
(* has ended or the timeout is over, which may be at any time.             *)
(***************************************************************************)
Terminate0(e, kind) ==
  /\ LockIsFree(e)
  /\ closer[e] = "idle"
  /\ \/ /\ buffer[e].state = "Initialized"
        /\ buffer' = [buffer EXCEPT ![e].state = "Terminated"]
        /\ UNCHANGED closer
     \/ /\ \/ buffer[e].state = "AsyncProcessing"
           \/ buffer[e].state = "Stopping" /\ kind = "Terminating"
        /\ buffer' = [buffer EXCEPT ![e].state = kind]
        /\ closer' = [closer EXCEPT ![e] = "waiting"]
  /\ sender' = Notified(e)
  /\ UNCHANGED <<puts, caller, resent>>

Cleanup0(e) ==
  /\ LockIsFree(e)
  /\ closer[e] = "waiting"
  /\ buffer' = [buffer EXCEPT ![e].state = "Terminated"]
  /\ closer' = [closer EXCEPT ![e] = "idle"]
  /\ sender' = Notified(e)
  /\ UNCHANGED <<puts, caller, resent>>

-----------------------------------------------------------------------------
\* What the sender thread does by itself, and with a processor that may fail.
ThreadProc(e) ==
  \/ ReturnFromThread(e)
  \/ Wait(e)
  \/ TakeData(e)
  \/ BeginProcess(e)
  \/ EndProcess(e)

\* What pause and resume do once they have `lock', with a processor that may fail.
Interrupting(e) ==
  \/ EndPause(e)
  \/ BeginReprocess(e)
  \/ EndResume(e)
  \/ \E ok \in BOOLEAN : Reprocess(e, ok)

Next ==
  \E e \in Ends :
    \/ Start(e)
    \/ Put(e)
    \/ ThreadProc(e) \/ WakeUp(e)
    \/ \E ok \in BOOLEAN : Process(e, ok)
    \/ BeginPause(e) \/ BeginResume(e) \/ Interrupting(e)
    \/ /\ caller[e] = "resumed"
       /\ \E seqn \in 1 .. buffer[e].max_sent_seqn : Acknowledge(e, seqn)
    \/ \E kind \in {"Stopping", "Terminating"} : Terminate0(e, kind)
    \/ Cleanup0(e)

(***************************************************************************)
(* The sender thread runs when it can, calls of the processor and of       *)
(* resume come back, and waiting for the thread times out.  Fairness is    *)
(* strong for what needs `lock': it is free between two resumes, for as    *)
(* long as a connection takes to break and to be made again, and a thread  *)
(* that waits for it gets it.  Nobody has to put, pause or close anything, *)
(* and no wait has to end by itself: the thread depends on notifications.  *)
(***************************************************************************)
Fairness ==
  \A e \in Ends :
    /\ SF_bufferVars(ThreadProc(e))
    /\ WF_bufferVars(\E ok \in BOOLEAN : Process(e, ok))
    /\ WF_bufferVars(Interrupting(e))
    /\ SF_bufferVars(Cleanup0(e))

Spec == Init /\ [][Next]_bufferVars /\ Fairness

-----------------------------------------------------------------------------
Buffer ==
  [state : StateKind, data : Seq(Nat), queue : Seq(Nat), pending_queue : Seq(Nat),
   max_sent_seqn : Nat, current_seqn : Nat \ {0}, acknowledged_seqn : Nat,
   interrupt_balance : {0, 1}]

(***************************************************************************)
(* Types: in particular a buffer is paused once or not at all, although    *)
(* nothing in it keeps interrupt_balance from growing or from falling      *)
(* below 0; and it is paused exactly when its caller is not done resuming. *)
(***************************************************************************)
TypeOK ==
  /\ buffer \in [Ends -> Buffer]
  /\ puts \in [Ends -> Nat]
  /\ sender \in [Ends -> {"none", "top", "waiting", "woken", "taken", "processing", "ended"}]
  /\ caller \in [Ends -> {"paused", "resuming", "resending", "resumed", "pausing"}]
  /\ resent \in [Ends -> Nat]
  /\ closer \in [Ends -> {"idle", "waiting"}]
  /\ \A e \in Ends :
       /\ puts[e] <= MaxPuts[e]
       /\ buffer[e].interrupt_balance = 0 <=> caller[e] = "resumed"

\* Sequence s holds the packages from first to last.
Holds(s, first, last) ==
  /\ Len(s) = last + 1 - first
  /\ \A i \in 1 .. Len(s) : s[i] = first + i - 1

(***************************************************************************)
(* No package is dropped, doubled, reordered or given another's number on  *)
(* its way from data through queue to pending_queue, whatever interrupts   *)
(* the sender: package n is processed with the number n, then kept until a *)
(* resume that knows it to be acknowledged, and processed with the same    *)
(* number n again until then.                                              *)
(***************************************************************************)
EveryPutIsKept ==
  \A e \in Ends :
    LET b == buffer[e]
    IN  /\ b.current_seqn <= b.acknowledged_seqn + 1
        /\ b.acknowledged_seqn <= b.max_sent_seqn
        /\ Holds(b.pending_queue, b.current_seqn, b.max_sent_seqn)
        /\ Holds(b.queue \o b.data, b.max_sent_seqn + 1, puts[e])

(***************************************************************************)
(* stop and terminate end the sender thread, wherever they find it: also   *)
(* one that waits for data, is paused with data, has taken data and waits  *)
(* for a resume to end, or has a processor that fails.                     *)
(***************************************************************************)
StoppedThreadEnds ==
  \A e \in Ends : buffer[e].state \in Stopped ~> sender[e] \in {"none", "ended"}

(***************************************************************************)
(* A buffer that stays resumed and open takes what it is given: no wake-up *)
(* is lost, neither that of put nor that of resume, wherever between its   *)
(* test and its wait they meet the sender thread.                          *)
(***************************************************************************)
DataIsTaken ==
  \A e \in Ends :
    (buffer[e].state = "AsyncProcessing" /\ caller[e] = "resumed") ~>
      \/ buffer[e].data = <<>>
      \/ caller[e] # "resumed"
      \/ buffer[e].state \in Stopped
=============================================================================
