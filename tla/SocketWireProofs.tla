-------------------------- MODULE SocketWireProofs --------------------------
(***************************************************************************)
(* That a send buffer keeps every package, under its number, and that no   *)
(* package is lost between two wires, which implement an ordered channel,  *)
(* for any number of packages and connections and wherever a connection    *)
(* breaks.                                                                 *)
(*                                                                         *)
(* The three sequences of a buffer are runs of consecutive numbers that    *)
(* fit together: what a step does to a run is the matter of the lemmas     *)
(* about Holds, and each action moves the seams of the runs by one of      *)
(* them.  From the buffer of one end the argument follows the packages to  *)
(* the other: the frames in the sockets are genuine; what an end has       *)
(* acknowledged it has got; and each package in a socket is either the     *)
(* next for the other end or comes behind those that are missing, as long  *)
(* as nothing new was sent on a connection before the old was sent again.  *)
(***************************************************************************)
EXTENDS SocketWire, SequenceTheorems, FiniteSetTheorems, TLAPS

\* What EveryPutIsKept says of a buffer that was given n packages.
Kept(b, n) ==
  /\ b.current_seqn <= b.acknowledged_seqn + 1
  /\ b.acknowledged_seqn <= b.max_sent_seqn
  /\ Holds(b.pending_queue, b.current_seqn, b.max_sent_seqn)
  /\ Holds(b.queue \o b.data, b.max_sent_seqn + 1, n)

Inv == TypeOK /\ EveryPutIsKept

----------------------------------------------------------------------------
\* A run grows by the next number,
LEMMA HoldsAppend ==
  ASSUME NEW s \in Seq(Nat), NEW first \in Nat, NEW last \in Nat, Holds(s, first, last)
  PROVE  Holds(Append(s, last + 1), first, last + 1)
<1>1. /\ Len(Append(s, last + 1)) = Len(s) + 1
      /\ \A i \in 1 .. Len(s) : Append(s, last + 1)[i] = s[i]
      /\ Append(s, last + 1)[Len(s) + 1] = last + 1
  BY AppendProperties
<1>2. Len(s) \in Nat
  BY LenProperties
<1> QED BY <1>1, <1>2 DEF Holds

\* begins with its first number and goes on with the second,
LEMMA HoldsTail ==
  ASSUME NEW s \in Seq(Nat), NEW first \in Nat, NEW last \in Nat,
         Holds(s, first, last), s # <<>>
  PROVE  Head(s) = first /\ first <= last /\ Holds(Tail(s), first + 1, last)
<1>1. Len(s) \in Nat \ {0}
  BY EmptySeq
<1>2. Head(s) = s[1]
  BY <1>1
<1>3. Len(Tail(s)) = Len(s) - 1 /\ \A i \in 1 .. Len(Tail(s)) : Tail(s)[i] = s[i + 1]
  BY HeadTailProperties
<1> QED BY <1>1, <1>2, <1>3 DEF Holds

\* and loses any number of its first ones.
LEMMA HoldsSubSeq ==
  ASSUME NEW s \in Seq(Nat), NEW first \in Nat, NEW last \in Nat, NEW d \in 0 .. Len(s),
         Holds(s, first, last)
  PROVE  /\ SubSeq(s, d + 1, Len(s)) \in Seq(Nat)
         /\ Holds(SubSeq(s, d + 1, Len(s)), first + d, last)
<1>1. Len(s) \in Nat /\ \A i \in 1 .. Len(s) : s[i] \in Nat
  BY LenProperties, ElementOfSeq
<1>2. /\ SubSeq(s, d + 1, Len(s)) \in Seq(Nat)
      /\ Len(SubSeq(s, d + 1, Len(s))) = Len(s) - d
      /\ \A i \in 1 .. Len(s) - d : SubSeq(s, d + 1, Len(s))[i] = s[d + i]
  <2>1. \A i \in d + 1 .. Len(s) : s[i] \in Nat
    BY <1>1
  <2>2. d + 1 \in Int /\ Len(s) \in Int
    BY <1>1
  <2> QED BY <1>1, <2>1, <2>2, SubSeqProperties
<1> QED BY <1>1, <1>2 DEF Holds

\* What put, TakeData and Process do to the queue with the data behind it.
LEMMA QueueThenData ==
  ASSUME NEW q \in Seq(Nat), NEW d \in Seq(Nat), NEW n \in Nat
  PROVE  /\ q \o d \in Seq(Nat)
         /\ q \o Append(d, n) = Append(q \o d, n)
         /\ (q \o d) \o <<>> = q \o d
         /\ q # <<>> => /\ q \o d # <<>> /\ Head(q) = Head(q \o d)
                        /\ Tail(q) \o d = Tail(q \o d)
<1>1. q \o d \in Seq(Nat) /\ Append(d, n) \in Seq(Nat)
  OBVIOUS
<1>2. q \o Append(d, n) = Append(q \o d, n)
  OBVIOUS
<1>3. (q \o d) \o <<>> = q \o d
  BY <1>1, ConcatEmptySeq
<1>4. ASSUME q # <<>>
      PROVE  /\ q \o d # <<>> /\ Head(q) = Head(q \o d)
             /\ Tail(q) \o d = Tail(q \o d)
  BY <1>4
<1> QED BY <1>1, <1>2, <1>3, <1>4

----------------------------------------------------------------------------
\* The types of a buffer's members, one by one.
LEMMA Members ==
  ASSUME NEW b \in Buffer
  PROVE  /\ b.data \in Seq(Nat) /\ b.queue \in Seq(Nat) /\ b.pending_queue \in Seq(Nat)
         /\ b.max_sent_seqn \in Nat /\ b.current_seqn \in Nat \ {0}
         /\ b.acknowledged_seqn \in Nat /\ b.interrupt_balance \in {0, 1}
         /\ b.state \in StateKind
BY DEF Buffer

\* What changes one buffer, keeps what it holds and tells its caller's place keeps all.
LEMMA OneBuffer ==
  ASSUME Inv, NEW e \in Ends, NEW b \in Buffer, NEW n \in Nat, n <= MaxPuts[e],
         NEW at \in {"paused", "resuming", "resending", "resumed", "pausing"},
         Kept(b, n), b.interrupt_balance = 0 <=> at = "resumed",
         buffer' = [buffer EXCEPT ![e] = b], puts' = [puts EXCEPT ![e] = n],
         caller' = [caller EXCEPT ![e] = at],
         sender' \in [Ends -> {"none", "top", "waiting", "woken", "taken", "processing", "ended"}],
         resent' \in [Ends -> Nat], closer' \in [Ends -> {"idle", "waiting"}]
  PROVE  Inv'
<1>1. /\ buffer' \in [Ends -> Buffer] /\ puts' \in [Ends -> Nat]
      /\ caller' \in [Ends -> {"paused", "resuming", "resending", "resumed", "pausing"}]
  BY DEF Inv, TypeOK
<1>2. ASSUME NEW d \in Ends
      PROVE  /\ puts'[d] <= MaxPuts[d]
             /\ buffer'[d].interrupt_balance = 0 <=> caller'[d] = "resumed"
             /\ Kept(buffer'[d], puts'[d])
  <2>1. CASE d = e
    BY <2>1 DEF Inv, TypeOK
  <2>2. CASE d # e
    <3>1. buffer'[d] = buffer[d] /\ puts'[d] = puts[d] /\ caller'[d] = caller[d]
      BY <2>2 DEF Inv, TypeOK
    <3>2. /\ puts[d] <= MaxPuts[d]
          /\ buffer[d].interrupt_balance = 0 <=> caller[d] = "resumed"
          /\ Kept(buffer[d], puts[d])
      BY DEF Inv, TypeOK, EveryPutIsKept, Kept
    <3> QED BY <3>1, <3>2
  <2> QED BY <2>1, <2>2
<1>3. TypeOK'
  BY <1>1, <1>2 DEF TypeOK
<1>4. EveryPutIsKept'
  BY <1>2 DEF EveryPutIsKept, Kept
<1> QED BY <1>3, <1>4 DEF Inv

\* The facts about one end that its steps start from.
LEMMA OneEnd ==
  ASSUME Inv, NEW e \in Ends
  PROVE  /\ buffer[e] \in Buffer /\ Kept(buffer[e], puts[e])
         /\ puts[e] \in Nat /\ puts[e] <= MaxPuts[e] /\ MaxPuts[e] \in Nat
         /\ caller[e] \in {"paused", "resuming", "resending", "resumed", "pausing"} /\ resent[e] \in Nat
         /\ buffer[e].interrupt_balance = 0 <=> caller[e] = "resumed"
         /\ buffer = [buffer EXCEPT ![e] = buffer[e]]
         /\ puts = [puts EXCEPT ![e] = puts[e]]
         /\ caller = [caller EXCEPT ![e] = caller[e]]
<1>1. TypeOK /\ EveryPutIsKept
  BY DEF Inv
<1>2. Kept(buffer[e], puts[e])
  BY <1>1 DEF EveryPutIsKept, Kept
<1>3. /\ buffer \in [Ends -> Buffer] /\ puts \in [Ends -> Nat] /\ resent \in [Ends -> Nat]
      /\ caller \in [Ends -> {"paused", "resuming", "resending", "resumed", "pausing"}]
      /\ puts[e] <= MaxPuts[e]
      /\ buffer[e].interrupt_balance = 0 <=> caller[e] = "resumed"
  BY <1>1 DEF TypeOK
<1>4. MaxPuts[e] \in Nat
  BY PutsAssumption
<1> QED BY <1>2, <1>3, <1>4

\* A step that only moves the sender thread or its closer.
LEMMA ThreadMoves ==
  ASSUME Inv, NEW e \in Ends, NEW at \in {"none", "top", "waiting", "woken", "taken", "processing", "ended"},
         sender' = [sender EXCEPT ![e] = at], UNCHANGED <<buffer, puts, caller, resent, closer>>
  PROVE  Inv'
<1>1. TypeOK'
  BY DEF Inv, TypeOK
<1>2. EveryPutIsKept'
  BY DEF Inv, EveryPutIsKept
<1> QED BY <1>1, <1>2 DEF Inv

\* A notification moves the sender thread from one of its places to another.
LEMMA NotifiedType ==
  ASSUME Inv, NEW e \in Ends
  PROVE  Notified(e) \in [Ends -> {"none", "top", "waiting", "woken", "taken", "processing", "ended"}]
<1>1. sender \in [Ends -> {"none", "top", "waiting", "woken", "taken", "processing", "ended"}]
  BY DEF Inv, TypeOK
<1> QED BY <1>1 DEF Notified

----------------------------------------------------------------------------
(***************************************************************************)
(* What the steps make of a buffer, and that it keeps what it held.        *)
(***************************************************************************)
\* put: the package is the last of the data.
LEMMA KeptByPut ==
  ASSUME NEW b \in Buffer, NEW n \in Nat, Kept(b, n)
  PROVE  LET c == [b EXCEPT !.data = Append(b.data, n + 1)]
         IN  c \in Buffer /\ c.interrupt_balance = b.interrupt_balance /\ Kept(c, n + 1)
<1>1. /\ b.queue \in Seq(Nat) /\ b.data \in Seq(Nat) /\ b.max_sent_seqn + 1 \in Nat
      /\ n + 1 \in Nat
  BY Members
<1>2. PICK d \in Seq(Nat) : d = Append(b.data, n + 1)
  BY <1>1, AppendProperties
<1>3. b.queue \o b.data \in Seq(Nat) /\ b.queue \o d = Append(b.queue \o b.data, n + 1)
  <2>1. PICK k \in Nat : k = n + 1
    BY <1>1
  <2>2. /\ b.queue \o b.data \in Seq(Nat)
        /\ b.queue \o Append(b.data, k) = Append(b.queue \o b.data, k)
    BY ZenonT(30), <1>1, QueueThenData
  <2> QED BY <1>2, <2>1, <2>2
<1>4. Holds(b.queue \o d, b.max_sent_seqn + 1, n + 1)
  BY <1>1, <1>3, HoldsAppend DEF Kept
<1>5. PICK c : c = [b EXCEPT !.data = d]
  OBVIOUS
<1>6. /\ c \in Buffer /\ c.data = d /\ c.queue = b.queue /\ c.pending_queue = b.pending_queue
      /\ c.max_sent_seqn = b.max_sent_seqn /\ c.current_seqn = b.current_seqn
      /\ c.acknowledged_seqn = b.acknowledged_seqn
      /\ c.interrupt_balance = b.interrupt_balance
  BY <1>5 DEF Buffer
<1>7. Kept(c, n + 1)
  BY <1>4, <1>6 DEF Kept
<1> QED BY <1>2, <1>5, <1>6, <1>7

\* TakeData: the data follow what is in the queue.
LEMMA KeptByTake ==
  ASSUME NEW b \in Buffer, NEW n \in Nat, Kept(b, n)
  PROVE  LET c == [b EXCEPT !.queue = b.queue \o b.data, !.data = <<>>]
         IN  c \in Buffer /\ c.interrupt_balance = b.interrupt_balance /\ Kept(c, n)
<1>1. b.queue \in Seq(Nat) /\ b.data \in Seq(Nat)
  BY Members
<1>2. b.queue \o b.data \in Seq(Nat) /\ (b.queue \o b.data) \o <<>> = b.queue \o b.data
  BY <1>1, QueueThenData
<1>3. PICK q \in Seq(Nat) : q = b.queue \o b.data
  BY <1>2
<1>4. PICK z \in Seq(Nat) : z = <<>>
  BY EmptySeq
<1>5. PICK c : c = [b EXCEPT !.queue = q, !.data = z]
  OBVIOUS
<1>6. /\ c \in Buffer /\ c.data = z /\ c.queue = q /\ c.pending_queue = b.pending_queue
      /\ c.max_sent_seqn = b.max_sent_seqn /\ c.current_seqn = b.current_seqn
      /\ c.acknowledged_seqn = b.acknowledged_seqn
      /\ c.interrupt_balance = b.interrupt_balance
  BY <1>5 DEF Buffer
<1>7. Kept(c, n)
  BY <1>2, <1>3, <1>4, <1>6 DEF Kept
<1> QED BY <1>3, <1>4, <1>5, <1>6, <1>7

\* process: the head of the queue has the next number and waits for its acknowledgement.
LEMMA KeptByProcess ==
  ASSUME NEW b \in Buffer, NEW n \in Nat, Kept(b, n), b.queue # <<>>
  PROVE  LET c == [b EXCEPT !.max_sent_seqn = b.max_sent_seqn + 1,
                            !.pending_queue = Append(b.pending_queue, Head(b.queue)),
                            !.queue = Tail(b.queue)]
         IN  c \in Buffer /\ c.interrupt_balance = b.interrupt_balance /\ Kept(c, n)
<1>1. /\ b.queue \in Seq(Nat) /\ b.data \in Seq(Nat) /\ b.pending_queue \in Seq(Nat)
      /\ b.max_sent_seqn \in Nat /\ b.current_seqn \in Nat /\ b.acknowledged_seqn \in Nat
  BY Members
<1>2. /\ b.queue \o b.data \in Seq(Nat) /\ b.queue \o b.data # <<>>
      /\ Head(b.queue) = Head(b.queue \o b.data)
      /\ Tail(b.queue) \o b.data = Tail(b.queue \o b.data)
  BY <1>1, QueueThenData
<1>3. /\ Head(b.queue) = b.max_sent_seqn + 1
      /\ Holds(Tail(b.queue) \o b.data, b.max_sent_seqn + 2, n)
  <2>1. Holds(b.queue \o b.data, b.max_sent_seqn + 1, n) /\ b.max_sent_seqn + 1 \in Nat
    BY <1>1 DEF Kept
  <2>2. /\ Head(b.queue \o b.data) = b.max_sent_seqn + 1
        /\ Holds(Tail(b.queue \o b.data), (b.max_sent_seqn + 1) + 1, n)
    BY <1>2, <2>1, HoldsTail
  <2>3. (b.max_sent_seqn + 1) + 1 = b.max_sent_seqn + 2
    BY <1>1
  <2> QED BY <1>2, <2>2, <2>3
<1>4. PICK t \in Seq(Nat) : t = Tail(b.queue)
  BY <1>1, HeadTailProperties
<1>5. /\ Append(b.pending_queue, Head(b.queue)) \in Seq(Nat)
      /\ Holds(Append(b.pending_queue, Head(b.queue)), b.current_seqn, b.max_sent_seqn + 1)
  <2>1. Holds(b.pending_queue, b.current_seqn, b.max_sent_seqn)
    BY DEF Kept
  <2>2. Holds(Append(b.pending_queue, b.max_sent_seqn + 1), b.current_seqn, b.max_sent_seqn + 1)
    BY <1>1, <2>1, HoldsAppend
  <2>3. Append(b.pending_queue, b.max_sent_seqn + 1) \in Seq(Nat)
    BY <1>1, AppendProperties
  <2> QED BY <1>3, <2>2, <2>3
<1>6. PICK p \in Seq(Nat) : p = Append(b.pending_queue, Head(b.queue))
  BY <1>5
<1>7. PICK m \in Nat : m = b.max_sent_seqn + 1
  BY <1>1
<1>8. PICK c : c = [b EXCEPT !.max_sent_seqn = m, !.pending_queue = p, !.queue = t]
  OBVIOUS
<1>9. /\ c \in Buffer /\ c.data = b.data /\ c.queue = t /\ c.pending_queue = p
      /\ c.max_sent_seqn = m /\ c.current_seqn = b.current_seqn
      /\ c.acknowledged_seqn = b.acknowledged_seqn
      /\ c.interrupt_balance = b.interrupt_balance
  BY <1>8 DEF Buffer
<1>10. Kept(c, n)
  <2>1. m + 1 = b.max_sent_seqn + 2 /\ b.acknowledged_seqn <= m
    BY <1>1, <1>7 DEF Kept
  <2> QED BY <1>3, <1>4, <1>5, <1>6, <1>7, <1>9, <2>1 DEF Kept
<1> QED BY <1>4, <1>6, <1>7, <1>8, <1>9, <1>10

\* resume: the packages that are acknowledged are let go, and no other.
LEMMA KeptByResume ==
  ASSUME NEW b \in Buffer, NEW n \in Nat, Kept(b, n)
  PROVE  LET done == b.acknowledged_seqn + 1 - b.current_seqn
             c == [b EXCEPT !.pending_queue =
                              SubSeq(b.pending_queue, done + 1, Len(b.pending_queue)),
                            !.current_seqn = b.acknowledged_seqn + 1]
         IN  c \in Buffer /\ c.interrupt_balance = b.interrupt_balance /\ Kept(c, n)
<1> DEFINE done == b.acknowledged_seqn + 1 - b.current_seqn
<1>1. /\ b.pending_queue \in Seq(Nat) /\ b.max_sent_seqn \in Nat
      /\ b.current_seqn \in Nat /\ b.acknowledged_seqn \in Nat
  BY Members
<1>2. Holds(b.pending_queue, b.current_seqn, b.max_sent_seqn)
  BY DEF Kept
<1>3. done \in 0 .. Len(b.pending_queue) /\ b.current_seqn + done = b.acknowledged_seqn + 1
  BY <1>1, <1>2 DEF Kept, Holds
<1> HIDE DEF done
<1>4. PICK p \in Seq(Nat) : p = SubSeq(b.pending_queue, done + 1, Len(b.pending_queue))
  BY <1>1, <1>2, <1>3, HoldsSubSeq
<1>5. Holds(p, b.acknowledged_seqn + 1, b.max_sent_seqn)
  BY <1>1, <1>2, <1>3, <1>4, HoldsSubSeq
<1>6. PICK a \in Nat \ {0} : a = b.acknowledged_seqn + 1
  BY <1>1
<1>7. PICK c : c = [b EXCEPT !.pending_queue = p, !.current_seqn = a]
  OBVIOUS
<1>8. /\ c \in Buffer /\ c.data = b.data /\ c.queue = b.queue /\ c.pending_queue = p
      /\ c.max_sent_seqn = b.max_sent_seqn /\ c.current_seqn = a
      /\ c.acknowledged_seqn = b.acknowledged_seqn
      /\ c.interrupt_balance = b.interrupt_balance
  BY <1>7 DEF Buffer
<1>9. Kept(c, n)
  BY <1>1, <1>5, <1>6, <1>8 DEF Kept
<1> QED BY <1>4, <1>6, <1>7, <1>8, <1>9 DEF done

\* acknowledge: the number is higher and has been sent.
LEMMA KeptByAcknowledge ==
  ASSUME NEW b \in Buffer, NEW n \in Nat, Kept(b, n),
         NEW seqn \in Nat, b.acknowledged_seqn < seqn, seqn <= b.max_sent_seqn
  PROVE  LET c == [b EXCEPT !.acknowledged_seqn = seqn]
         IN  c \in Buffer /\ c.interrupt_balance = b.interrupt_balance /\ Kept(c, n)
<1>1. b.acknowledged_seqn \in Nat /\ b.max_sent_seqn \in Nat /\ b.current_seqn \in Nat
  BY Members
<1>2. PICK c : c = [b EXCEPT !.acknowledged_seqn = seqn]
  OBVIOUS
<1>3. /\ c \in Buffer /\ c.data = b.data /\ c.queue = b.queue
      /\ c.pending_queue = b.pending_queue /\ c.max_sent_seqn = b.max_sent_seqn
      /\ c.current_seqn = b.current_seqn /\ c.acknowledged_seqn = seqn
      /\ c.interrupt_balance = b.interrupt_balance
  BY <1>2 DEF Buffer
<1>4. Kept(c, n)
  BY <1>1, <1>3 DEF Kept
<1> QED BY <1>2, <1>3, <1>4

\* pause, the end of resume, start and termination leave the packages alone.
LEMMA KeptAside ==
  ASSUME NEW b \in Buffer, NEW n \in Nat, Kept(b, n), NEW i \in {0, 1}, NEW s \in StateKind
  PROVE  /\ LET c == [b EXCEPT !.interrupt_balance = i]
            IN  c \in Buffer /\ c.interrupt_balance = i /\ Kept(c, n)
         /\ LET c == [b EXCEPT !.state = s]
            IN  c \in Buffer /\ c.interrupt_balance = b.interrupt_balance /\ Kept(c, n)
<1>1. PICK c : c = [b EXCEPT !.interrupt_balance = i]
  OBVIOUS
<1>2. /\ c \in Buffer /\ c.data = b.data /\ c.queue = b.queue
      /\ c.pending_queue = b.pending_queue /\ c.max_sent_seqn = b.max_sent_seqn
      /\ c.current_seqn = b.current_seqn /\ c.acknowledged_seqn = b.acknowledged_seqn
      /\ c.interrupt_balance = i
  BY <1>1 DEF Buffer
<1>3. PICK d : d = [b EXCEPT !.state = s]
  OBVIOUS
<1>4. /\ d \in Buffer /\ d.data = b.data /\ d.queue = b.queue
      /\ d.pending_queue = b.pending_queue /\ d.max_sent_seqn = b.max_sent_seqn
      /\ d.current_seqn = b.current_seqn /\ d.acknowledged_seqn = b.acknowledged_seqn
      /\ d.interrupt_balance = b.interrupt_balance
  BY <1>3 DEF Buffer
<1>5. Kept(c, n) /\ Kept(d, n)
  BY <1>2, <1>4 DEF Kept
<1> QED BY <1>1, <1>2, <1>3, <1>4, <1>5

----------------------------------------------------------------------------
\* Every buffer begins paused, empty and with nothing to acknowledge.
LEMMA InitInv == Init => Inv
<1> SUFFICES ASSUME Init PROVE Inv
  OBVIOUS
<1>1. PICK b : b = PausedBuffer
  OBVIOUS
<1>2. PICK z \in Seq(Nat) : z = <<>>
  BY EmptySeq
<1>3. /\ b \in Buffer /\ b.data = z /\ b.queue = z /\ b.pending_queue = z
      /\ b.max_sent_seqn = 0 /\ b.current_seqn = 1 /\ b.acknowledged_seqn = 0
      /\ b.interrupt_balance = 1
  BY <1>1, <1>2 DEF PausedBuffer, Buffer, StateKind
<1>4. Len(z) = 0 /\ z \o z = z
  BY <1>2
<1>5. Kept(b, 0)
  BY <1>3, <1>4 DEF Kept, Holds
<1>6. \A e \in Ends : buffer[e] = b /\ puts[e] = 0 /\ caller[e] = "paused"
  BY <1>1 DEF Init
<1>7. TypeOK
  <2>1. buffer \in [Ends -> Buffer]
    BY <1>1, <1>3 DEF Init
  <2>2. ASSUME NEW e \in Ends
        PROVE  /\ puts[e] <= MaxPuts[e]
               /\ buffer[e].interrupt_balance = 0 <=> caller[e] = "resumed"
    <3>1. MaxPuts[e] \in Nat
      BY PutsAssumption
    <3>2. buffer[e].interrupt_balance = 1
      BY <1>3, <1>6
    <3> QED BY <1>6, <3>1, <3>2
  <2> QED BY <2>1, <2>2 DEF Init, TypeOK
<1>8. EveryPutIsKept
  BY <1>5, <1>6 DEF EveryPutIsKept, Kept
<1> QED BY <1>7, <1>8 DEF Inv

\* A package that is put goes behind the others, under the next number.
LEMMA PutStep == ASSUME Inv, NEW e \in Ends, Put(e) PROVE Inv'
<1> DEFINE c == [buffer[e] EXCEPT !.data = Append(buffer[e].data, puts[e] + 1)]
<1>1. /\ buffer[e] \in Buffer /\ Kept(buffer[e], puts[e]) /\ puts[e] \in Nat
      /\ caller[e] \in {"paused", "resuming", "resending", "resumed", "pausing"}
      /\ buffer[e].interrupt_balance = 0 <=> caller[e] = "resumed"
      /\ caller = [caller EXCEPT ![e] = caller[e]] /\ MaxPuts[e] \in Nat
  BY OneEnd
<1>2. c \in Buffer /\ c.interrupt_balance = buffer[e].interrupt_balance /\ Kept(c, puts[e] + 1)
  BY <1>1, KeptByPut
<1>3. buffer' = [buffer EXCEPT ![e] = c]
  BY DEF Put
<1>4. /\ puts' = [puts EXCEPT ![e] = puts[e] + 1] /\ puts[e] + 1 <= MaxPuts[e]
      /\ puts[e] + 1 \in Nat /\ sender' = Notified(e) /\ UNCHANGED <<caller, resent, closer>>
  BY <1>1 DEF Put
<1>5. /\ sender' \in [Ends -> {"none", "top", "waiting", "woken", "taken", "processing", "ended"}]
      /\ resent' \in [Ends -> Nat] /\ closer' \in [Ends -> {"idle", "waiting"}]
  BY <1>4, NotifiedType DEF Inv, TypeOK
<1> HIDE DEF c
<1> QED BY ZenonT(30), <1>1, <1>2, <1>3, <1>4, <1>5, OneBuffer

\* A step that leaves the number of packages alone and keeps what the buffer holds.
LEMMA BufferMoves ==
  ASSUME Inv, NEW e \in Ends, NEW c \in Buffer, Kept(c, puts[e]),
         NEW at \in {"paused", "resuming", "resending", "resumed", "pausing"},
         c.interrupt_balance = 0 <=> at = "resumed",
         buffer' = [buffer EXCEPT ![e] = c], puts' = puts,
         caller' = [caller EXCEPT ![e] = at],
         sender' \in [Ends -> {"none", "top", "waiting", "woken", "taken", "processing", "ended"}],
         resent' \in [Ends -> Nat], closer' \in [Ends -> {"idle", "waiting"}]
  PROVE  Inv'
<1>1. /\ puts[e] \in Nat /\ puts[e] <= MaxPuts[e]
      /\ puts = [puts EXCEPT ![e] = puts[e]]
  BY OneEnd
<1>2. puts' = [puts EXCEPT ![e] = puts[e]]
  BY <1>1
<1> QED BY <1>1, <1>2, OneBuffer

\* The data that the sender thread takes keep their places.
LEMMA TakeStep == ASSUME Inv, NEW e \in Ends, TakeData(e) PROVE Inv'
<1> DEFINE c == [buffer[e] EXCEPT !.queue = buffer[e].queue \o buffer[e].data, !.data = <<>>]
<1>1. /\ buffer[e] \in Buffer /\ Kept(buffer[e], puts[e]) /\ puts[e] \in Nat
      /\ caller[e] \in {"paused", "resuming", "resending", "resumed", "pausing"}
      /\ buffer[e].interrupt_balance = 0 <=> caller[e] = "resumed"
      /\ caller = [caller EXCEPT ![e] = caller[e]]
  BY OneEnd
<1>2. c \in Buffer /\ c.interrupt_balance = buffer[e].interrupt_balance /\ Kept(c, puts[e])
  BY <1>1, KeptByTake
<1>3. buffer' = [buffer EXCEPT ![e] = c]
  BY DEF TakeData
<1> HIDE DEF c
<1>4. /\ sender' = [sender EXCEPT ![e] = "taken"]
      /\ UNCHANGED <<puts, caller, resent, closer>>
  BY DEF TakeData
<1>5. /\ sender' \in [Ends -> {"none", "top", "waiting", "woken", "taken", "processing", "ended"}]
      /\ resent' \in [Ends -> Nat] /\ closer' \in [Ends -> {"idle", "waiting"}]
  BY <1>4 DEF Inv, TypeOK
<1> QED BY <1>1, <1>2, <1>3, <1>4, <1>5, BufferMoves

\* A package that the processor accepts changes from queue to pending_queue.
LEMMA ProcessStep == ASSUME Inv, NEW e \in Ends, NEW ok \in BOOLEAN, Process(e, ok) PROVE Inv'
<1>1. CASE ok
  <2> DEFINE c == [buffer[e] EXCEPT
                     !.max_sent_seqn = buffer[e].max_sent_seqn + 1,
                     !.pending_queue = Append(buffer[e].pending_queue, Head(buffer[e].queue)),
                     !.queue = Tail(buffer[e].queue)]
  <2>1. /\ buffer[e] \in Buffer /\ Kept(buffer[e], puts[e]) /\ puts[e] \in Nat
        /\ caller[e] \in {"paused", "resuming", "resending", "resumed", "pausing"}
        /\ buffer[e].interrupt_balance = 0 <=> caller[e] = "resumed"
        /\ caller = [caller EXCEPT ![e] = caller[e]]
    BY OneEnd
  <2>2. buffer[e].queue # <<>>
    BY DEF Process
  <2>3. c \in Buffer /\ c.interrupt_balance = buffer[e].interrupt_balance /\ Kept(c, puts[e])
    BY <2>1, <2>2, KeptByProcess
  <2>4. buffer' = [buffer EXCEPT ![e] = c]
    BY <1>1 DEF Process
  <2> HIDE DEF c
  <2>5. UNCHANGED <<sender, puts, caller, resent, closer>>
    BY <1>1 DEF Process
  <2>6. /\ sender' \in [Ends -> {"none", "top", "waiting", "woken", "taken", "processing", "ended"}]
        /\ resent' \in [Ends -> Nat] /\ closer' \in [Ends -> {"idle", "waiting"}]
    BY <2>5 DEF Inv, TypeOK
  <2> QED BY <2>1, <2>3, <2>4, <2>5, <2>6, BufferMoves
<1>2. CASE ~ok
  <2>1. /\ sender' = [sender EXCEPT ![e] = "top"]
        /\ UNCHANGED <<buffer, puts, caller, resent, closer>>
    BY <1>2 DEF Process
  <2> QED BY <2>1, ThreadMoves
<1> QED BY <1>1, <1>2

\* The rest of the thread's steps change nothing but its place.
LEMMA ThreadStep == ASSUME Inv, NEW e \in Ends, ThreadProc(e) \/ WakeUp(e) PROVE Inv'
<1>1. CASE ReturnFromThread(e)
  BY <1>1, ThreadMoves DEF ReturnFromThread
<1>2. CASE Wait(e)
  BY <1>2, ThreadMoves DEF Wait
<1>3. CASE TakeData(e)
  BY <1>3, TakeStep
<1>4. CASE BeginProcess(e)
  BY <1>4, ThreadMoves DEF BeginProcess
<1>5. CASE EndProcess(e)
  BY <1>5, ThreadMoves DEF EndProcess
<1>6. CASE WakeUp(e)
  <2>1. sender' = [sender EXCEPT ![e] = "woken"]
    BY <1>6 DEF WakeUp, Notified
  <2> QED BY <1>6, <2>1, ThreadMoves DEF WakeUp
<1> QED BY <1>1, <1>2, <1>3, <1>4, <1>5, <1>6 DEF ThreadProc

\* resume forgets what is acknowledged.
LEMMA BeginReprocessStep == ASSUME Inv, NEW e \in Ends, BeginReprocess(e) PROVE Inv'
<1> DEFINE c == [buffer[e] EXCEPT
                   !.pending_queue =
                     SubSeq(buffer[e].pending_queue,
                            (buffer[e].acknowledged_seqn + 1 - buffer[e].current_seqn) + 1,
                            Len(buffer[e].pending_queue)),
                   !.current_seqn = buffer[e].acknowledged_seqn + 1]
<1>1. /\ buffer[e] \in Buffer /\ Kept(buffer[e], puts[e]) /\ puts[e] \in Nat
      /\ buffer[e].interrupt_balance = 0 <=> caller[e] = "resumed"
  BY OneEnd
<1>2. c \in Buffer /\ c.interrupt_balance = buffer[e].interrupt_balance /\ Kept(c, puts[e])
  BY <1>1, KeptByResume
<1>3. buffer' = [buffer EXCEPT ![e] = c]
  BY DEF BeginReprocess
<1> HIDE DEF c
<1>4. /\ caller[e] = "resuming" /\ caller' = [caller EXCEPT ![e] = "resending"]
      /\ resent' = [resent EXCEPT ![e] = 0] /\ UNCHANGED <<puts, sender, closer>>
  BY DEF BeginReprocess
<1>5. /\ sender' \in [Ends -> {"none", "top", "waiting", "woken", "taken", "processing", "ended"}]
      /\ resent' \in [Ends -> Nat] /\ closer' \in [Ends -> {"idle", "waiting"}]
  BY <1>4 DEF Inv, TypeOK
<1> QED BY <1>1, <1>2, <1>3, <1>4, <1>5, BufferMoves

\* Pausing, and the end of resuming, move the balance with the caller.
LEMMA BalanceMoves ==
  ASSUME Inv, NEW e \in Ends, NEW i \in {0, 1},
         NEW at \in {"paused", "resuming", "resending", "resumed", "pausing"},
         i = 0 <=> at = "resumed",
         buffer' = [buffer EXCEPT ![e].interrupt_balance = i],
         caller' = [caller EXCEPT ![e] = at], sender' \in {sender, Notified(e)},
         UNCHANGED <<puts, resent, closer>>
  PROVE  Inv'
<1> DEFINE c == [buffer[e] EXCEPT !.interrupt_balance = i]
<1>1. buffer[e] \in Buffer /\ Kept(buffer[e], puts[e]) /\ puts[e] \in Nat
  BY OneEnd
<1>2. buffer[e].state \in StateKind
  BY <1>1, Members
<1>3. c \in Buffer /\ c.interrupt_balance = i /\ Kept(c, puts[e])
  BY <1>1, <1>2, KeptAside
<1>4. buffer' = [buffer EXCEPT ![e] = c]
  OBVIOUS
<1> HIDE DEF c
<1>5. /\ sender' \in [Ends -> {"none", "top", "waiting", "woken", "taken", "processing", "ended"}]
      /\ resent' \in [Ends -> Nat] /\ closer' \in [Ends -> {"idle", "waiting"}]
  BY NotifiedType DEF Inv, TypeOK
<1> QED BY <1>3, <1>4, <1>5, BufferMoves

\* A step that only moves the caller, between places where the buffer is paused.
LEMMA CallerMoves ==
  ASSUME Inv, NEW e \in Ends, NEW at \in {"paused", "resuming"}, caller[e] # "resumed",
         caller' = [caller EXCEPT ![e] = at], UNCHANGED <<buffer, puts, sender, resent, closer>>
  PROVE  Inv'
<1>1. TypeOK'
  BY DEF Inv, TypeOK
<1>2. EveryPutIsKept'
  BY DEF Inv, EveryPutIsKept
<1> QED BY <1>1, <1>2 DEF Inv

\* pause: the balance was 0, since only who resumed pauses.
LEMMA PauseStep == ASSUME Inv, NEW e \in Ends, BeginPause(e) PROVE Inv'
<1>1. buffer[e].interrupt_balance = 0
  BY OneEnd DEF BeginPause
<1>2. buffer' = [buffer EXCEPT ![e].interrupt_balance = 1]
  BY <1>1 DEF BeginPause
<1>3. PICK i \in {0, 1} : i = 1
  OBVIOUS
<1>4. PICK at \in {"paused", "resuming", "resending", "resumed", "pausing"} : at = "pausing"
  OBVIOUS
<1>5. /\ buffer' = [buffer EXCEPT ![e].interrupt_balance = i]
      /\ caller' = [caller EXCEPT ![e] = at] /\ UNCHANGED <<puts, sender, resent, closer>>
  BY <1>2, <1>3, <1>4 DEF BeginPause
<1>6. i = 0 <=> at = "resumed"
  BY <1>3, <1>4
<1> QED BY <1>5, <1>6, BalanceMoves

\* The end of a pause, the beginning of a resume, and the rest of a resume up to its end.
LEMMA ResumeStep ==
  ASSUME Inv, NEW e \in Ends, BeginResume(e) \/ Interrupting(e)
  PROVE  Inv'
<1>1. ASSUME caller[e] = "resending", caller' = [caller EXCEPT ![e] = "resumed"],
             buffer' = [buffer EXCEPT ![e].interrupt_balance = @ - 1],
             sender' = Notified(e), UNCHANGED <<puts, resent, closer>>
      PROVE  Inv'
  <2>1. buffer[e].interrupt_balance = 1
    <3>1. buffer[e] \in Buffer /\ (buffer[e].interrupt_balance = 0 <=> caller[e] = "resumed")
      BY OneEnd
    <3>2. buffer[e].interrupt_balance \in {0, 1}
      BY <3>1, Members
    <3> QED BY <1>1, <3>1, <3>2
  <2>2. buffer' = [buffer EXCEPT ![e].interrupt_balance = 0]
    BY <1>1, <2>1
  <2> QED BY <1>1, <2>2, BalanceMoves
<1>2. CASE EndResume(e)
  BY <1>1, <1>2 DEF EndResume
<1>3. ASSUME NEW ok \in BOOLEAN, Reprocess(e, ok)
      PROVE  Inv'
  <2>1. CASE ok
    <3>1. /\ resent' = [resent EXCEPT ![e] = @ + 1]
          /\ UNCHANGED <<buffer, caller, puts, sender, closer>>
      BY <1>3, <2>1 DEF Reprocess
    <3>2. TypeOK'
      BY <3>1 DEF Inv, TypeOK
    <3>3. EveryPutIsKept'
      BY <3>1 DEF Inv, EveryPutIsKept
    <3> QED BY <3>2, <3>3 DEF Inv
  <2>2. CASE ~ok
    BY <1>1, <1>3, <2>2 DEF Reprocess
  <2> QED BY <2>1, <2>2
<1>4. CASE EndPause(e) \/ BeginResume(e)
  BY <1>4, CallerMoves DEF EndPause, BeginResume
<1>5. CASE BeginReprocess(e)
  BY <1>5, BeginReprocessStep
<1> QED BY <1>2, <1>3, <1>4, <1>5 DEF Interrupting

\* An acknowledgement of a package that was sent.
LEMMA AcknowledgeStep ==
  ASSUME Inv, NEW e \in Ends, NEW seqn \in Nat, seqn <= buffer[e].max_sent_seqn,
         Acknowledge(e, seqn)
  PROVE  Inv'
<1>1. /\ buffer[e] \in Buffer /\ Kept(buffer[e], puts[e]) /\ puts[e] \in Nat
      /\ caller[e] \in {"paused", "resuming", "resending", "resumed", "pausing"}
      /\ buffer[e].interrupt_balance = 0 <=> caller[e] = "resumed"
      /\ caller = [caller EXCEPT ![e] = caller[e]]
      /\ buffer = [buffer EXCEPT ![e] = buffer[e]]
  BY OneEnd
<1>2. UNCHANGED <<puts, sender, caller, resent, closer>>
  BY DEF Acknowledge
<1>3. /\ sender' \in [Ends -> {"none", "top", "waiting", "woken", "taken", "processing", "ended"}]
      /\ resent' \in [Ends -> Nat] /\ closer' \in [Ends -> {"idle", "waiting"}]
  BY <1>2 DEF Inv, TypeOK
<1>4. CASE seqn > buffer[e].acknowledged_seqn
  <2> DEFINE c == [buffer[e] EXCEPT !.acknowledged_seqn = seqn]
  <2>1. buffer[e].acknowledged_seqn \in Nat
    BY <1>1, Members
  <2>2. c \in Buffer /\ c.interrupt_balance = buffer[e].interrupt_balance /\ Kept(c, puts[e])
    BY <1>1, <1>4, <2>1, KeptByAcknowledge
  <2>3. buffer' = [buffer EXCEPT ![e] = c]
    BY <1>4 DEF Acknowledge
  <2> HIDE DEF c
  <2> QED BY <1>1, <1>2, <1>3, <2>2, <2>3, BufferMoves
<1>5. CASE ~(seqn > buffer[e].acknowledged_seqn)
  <2>1. buffer' = [buffer EXCEPT ![e] = buffer[e]]
    BY <1>1, <1>5 DEF Acknowledge
  <2> QED BY <1>1, <1>2, <1>3, <2>1, BufferMoves
<1> QED BY <1>4, <1>5

\* Starting and stopping a buffer, whoever waits for its thread.
LEMMA StateMoves ==
  ASSUME Inv, NEW e \in Ends, NEW s \in StateKind, buffer' = [buffer EXCEPT ![e].state = s],
         sender' \in [Ends -> {"none", "top", "waiting", "woken", "taken", "processing", "ended"}],
         closer' \in [Ends -> {"idle", "waiting"}], UNCHANGED <<puts, caller, resent>>
  PROVE  Inv'
<1> DEFINE c == [buffer[e] EXCEPT !.state = s]
<1>1. /\ buffer[e] \in Buffer /\ Kept(buffer[e], puts[e]) /\ puts[e] \in Nat
      /\ caller[e] \in {"paused", "resuming", "resending", "resumed", "pausing"}
      /\ buffer[e].interrupt_balance = 0 <=> caller[e] = "resumed"
      /\ caller = [caller EXCEPT ![e] = caller[e]]
  BY OneEnd
<1>2. buffer[e].interrupt_balance \in {0, 1}
  BY <1>1, Members
<1>3. c \in Buffer /\ c.interrupt_balance = buffer[e].interrupt_balance /\ Kept(c, puts[e])
  BY <1>1, <1>2, KeptAside
<1>4. buffer' = [buffer EXCEPT ![e] = c]
  OBVIOUS
<1> HIDE DEF c
<1>5. resent' \in [Ends -> Nat]
  BY DEF Inv, TypeOK
<1> QED BY <1>1, <1>3, <1>4, <1>5, BufferMoves

\* start, terminate0 and cleanup0 are such steps.
LEMMA StateStep ==
  ASSUME Inv, NEW e \in Ends,
         Start(e) \/ Cleanup0(e) \/ \E kind \in {"Stopping", "Terminating"} : Terminate0(e, kind)
  PROVE  Inv'
<1> USE DEF StateKind
<1>1. TypeOK
  BY DEF Inv
<1>2. CASE Start(e)
  <2>1. sender' \in [Ends -> {"none", "top", "waiting", "woken", "taken", "processing", "ended"}]
    BY <1>1, <1>2 DEF TypeOK, Start
  <2>2. closer' \in [Ends -> {"idle", "waiting"}]
    BY <1>1, <1>2 DEF TypeOK, Start
  <2> QED BY <1>2, <2>1, <2>2, StateMoves DEF Start
<1>3. CASE Cleanup0(e)
  <2>1. sender' \in [Ends -> {"none", "top", "waiting", "woken", "taken", "processing", "ended"}]
    BY <1>3, NotifiedType DEF Cleanup0
  <2>2. closer' \in [Ends -> {"idle", "waiting"}]
    BY <1>1, <1>3 DEF TypeOK, Cleanup0
  <2> QED BY <1>3, <2>1, <2>2, StateMoves DEF Cleanup0
<1>4. ASSUME NEW kind \in {"Stopping", "Terminating"}, Terminate0(e, kind)
      PROVE  Inv'
  <2>1. sender' \in [Ends -> {"none", "top", "waiting", "woken", "taken", "processing", "ended"}]
    BY <1>4, NotifiedType DEF Terminate0
  <2>2. closer' \in [Ends -> {"idle", "waiting"}]
    BY <1>1, <1>4 DEF TypeOK, Terminate0
  <2>3. PICK s \in StateKind : buffer' = [buffer EXCEPT ![e].state = s]
    BY <1>4 DEF Terminate0
  <2>4. UNCHANGED <<puts, caller, resent>>
    BY <1>4 DEF Terminate0
  <2> QED BY <2>1, <2>2, <2>3, <2>4, StateMoves
<1> QED BY <1>2, <1>3, <1>4

----------------------------------------------------------------------------
\* Every step of the buffers keeps the invariant.
LEMMA StepInv == Inv /\ [Next]_bufferVars => Inv'
<1> SUFFICES ASSUME Inv, [Next]_bufferVars PROVE Inv'
  OBVIOUS
<1>1. CASE UNCHANGED bufferVars
  <2>1. TypeOK'
    BY <1>1 DEF Inv, TypeOK, bufferVars
  <2>2. EveryPutIsKept'
    BY <1>1 DEF Inv, EveryPutIsKept, bufferVars
  <2> QED BY <2>1, <2>2 DEF Inv
<1>2. ASSUME NEW e \in Ends, NEW seqn \in 1 .. buffer[e].max_sent_seqn, Acknowledge(e, seqn)
      PROVE  Inv'
  <2>1. buffer[e].max_sent_seqn \in Nat
    BY OneEnd, Members
  <2>2. seqn \in Nat /\ seqn <= buffer[e].max_sent_seqn
    BY <2>1
  <2> QED BY <1>2, <2>2, AcknowledgeStep
<1>3. CASE Next
  BY <1>2, <1>3, StateStep, PutStep, ThreadStep, ProcessStep, ResumeStep, PauseStep DEF Next
<1> QED BY <1>1, <1>3

(***************************************************************************)
(* The buffers stay well-formed: in particular the balance of pauses and   *)
(* resumes is 0 or 1, and it is 0 exactly while the connection's thread    *)
(* has resumed the buffer.                                                 *)
(***************************************************************************)
THEOREM TypeCorrect == Spec => []TypeOK
<1>1. Inv => TypeOK
  BY DEF Inv
<1> QED BY InitInv, StepInv, <1>1, PTL DEF Spec

(***************************************************************************)
(* No package that was put is dropped, doubled, reordered or renumbered    *)
(* before a resume that knows it to be acknowledged, for any number of     *)
(* packages, however pauses, resumes, failures and termination fall.       *)
(***************************************************************************)
THEOREM PutsAreKept == Spec => []EveryPutIsKept
<1>1. Inv => EveryPutIsKept
  BY DEF Inv
<1> QED BY InitInv, StepInv, <1>1, PTL DEF Spec

----------------------------------------------------------------------------
\* The two wires: what the sockets hold and where the threads of an end are.

Frame ==
  [kind : {"package"}, seqn : Nat, msg : Nat] \cup [kind : {"ack"}, seqn : Nat]

Nets == [Connections -> [Ends -> Seq(Frame)]]

SenderPlaces == {"none", "top", "waiting", "woken", "taken", "processing", "ended"}
ConnPlaces == {"closed", "connecting", "open", "hungup", "expired"}
LifetimePlaces == {"alive", "stopping", "stopped", "joining", "terminated"}

WireTypes ==
  /\ socket \in [Ends -> 0 .. MaxConnections]
  /\ conn \in [Ends -> ConnPlaces]
  /\ net \in Nets
  /\ dead \subseteq Connections
  /\ received \in [Ends -> Nat]
  /\ accepted \in [Ends -> Seq(Nat)]
  /\ inFrame \in [Ends -> BOOLEAN]
  /\ early \in [Ends -> BOOLEAN]
  /\ lifetime \in [Ends -> LifetimePlaces]

\* Where the threads of an end can be, and with which socket.
Place(e) ==
  /\ caller[e] # "paused" => conn[e] \in {"open", "hungup"}
  /\ caller[e] \in {"resuming", "resending"} => conn[e] = "open"
  /\ caller[e] = "resending" => sender[e] # "processing"
  /\ caller[e] = "pausing" => conn[e] = "hungup"
  /\ conn[e] \in {"open", "hungup"} => socket[e] # 0
  /\ conn[e] = "hungup" => socket[e] \in dead /\ caller[e] \in {"resumed", "pausing", "paused"}
  /\ conn[e] \in {"closed", "connecting", "expired"} => socket[e] \in dead \cup {0}
  /\ sender[e] \in {"taken", "processing"} => socket[e] # 0

Places == (\A e \in Ends : Place(e)) /\ socket[Server] <= socket[Client]

\* A frame of an end that has sent sent packages to one that has sent acked.
Genuine(f, sent, acked) ==
  \/ f.kind = "package" /\ f.msg = f.seqn /\ f.seqn \in 1 .. sent
  \/ f.kind = "ack" /\ f.seqn \in 1 .. acked

Stream(s, sent, acked) ==
  Len(s) <= Capacity /\ \A i \in 1 .. Len(s) : Genuine(s[i], sent, acked)

MaxSent(e) == buffer[e].max_sent_seqn

\* The frames on the way are genuine and none is ahead of its sender's socket.
Frames ==
  /\ \A k \in Connections, e \in Ends :
       /\ Stream(net[k][e], MaxSent(e), MaxSent(Peer(e)))
       /\ socket[e] < k => net[k][e] = <<>>
  /\ \A e \in Ends : received[e] <= MaxSent(Peer(e))

----------------------------------------------------------------------------
\* The other end is the other end.
LEMMA PeerIs ==
  ASSUME NEW e \in Ends
  PROVE  /\ Peer(e) \in Ends /\ Peer(e) # e /\ Peer(Peer(e)) = e
         /\ \A d \in Ends : d = e \/ d = Peer(e)
BY WireAssumption DEF WireAssumption, Peer

\* The two sorts of frames.
LEMMA FrameSorts ==
  ASSUME NEW n \in Nat, NEW m \in Nat
  PROVE  /\ Package(n, m) \in Frame /\ Package(n, m).kind = "package"
         /\ Package(n, m).seqn = n /\ Package(n, m).msg = m
         /\ Ack(n) \in Frame /\ Ack(n).kind = "ack" /\ Ack(n).seqn = n
BY DEF Package, Ack, Frame

\* A genuine frame stays genuine,
LEMMA GenuineMore ==
  ASSUME NEW f, NEW sent \in Nat, NEW acked \in Nat, NEW sent2 \in Nat, NEW acked2 \in Nat,
         sent <= sent2, acked <= acked2, Genuine(f, sent, acked)
  PROVE  Genuine(f, sent2, acked2)
BY DEF Genuine

\* so a stream of them stays one, and takes another one,
LEMMA StreamMore ==
  ASSUME NEW s \in Seq(Frame), NEW sent \in Nat, NEW acked \in Nat,
         NEW sent2 \in Nat, NEW acked2 \in Nat,
         sent <= sent2, acked <= acked2, Stream(s, sent, acked)
  PROVE  Stream(s, sent2, acked2)
BY GenuineMore DEF Stream

\* A stream with room for one more stays one when a genuine frame is appended,
LEMMA StreamAppend ==
  ASSUME NEW s \in Seq(Frame), NEW sent \in Nat, NEW acked \in Nat, NEW f \in Frame,
         Genuine(f, sent, acked), Stream(s, sent, acked), Len(s) < Capacity
  PROVE  Stream(Append(s, f), sent, acked)
<1>1. /\ Len(Append(s, f)) = Len(s) + 1
      /\ \A i \in 1 .. Len(s) : Append(s, f)[i] = s[i]
      /\ Append(s, f)[Len(s) + 1] = f
  BY AppendProperties
<1>2. Len(s) \in Nat /\ Capacity \in Nat
  BY LenProperties, WireAssumption DEF WireAssumption
<1> QED BY <1>1, <1>2 DEF Stream

\* and still is one when its first is read.
LEMMA StreamTail ==
  ASSUME NEW s \in Seq(Frame), NEW sent \in Nat, NEW acked \in Nat,
         Stream(s, sent, acked), s # <<>>
  PROVE  /\ Head(s) \in Frame /\ Head(s) = s[1] /\ Genuine(Head(s), sent, acked)
         /\ Tail(s) \in Seq(Frame) /\ Stream(Tail(s), sent, acked)
<1>1. Len(s) \in Nat \ {0} /\ Capacity \in Nat
  BY EmptySeq, WireAssumption DEF WireAssumption
<1>2. Head(s) = s[1] /\ s[1] \in Frame
  BY <1>1, ElementOfSeq
<1>3. /\ Tail(s) \in Seq(Frame) /\ Len(Tail(s)) = Len(s) - 1
      /\ \A i \in 1 .. Len(Tail(s)) : Tail(s)[i] = s[i + 1]
  BY HeadTailProperties
<1> QED BY <1>1, <1>2, <1>3 DEF Stream

----------------------------------------------------------------------------
(***************************************************************************)
(* What the steps of a buffer do to its numbers and to the packages that   *)
(* wait for an acknowledgement.                                            *)
(***************************************************************************)
Numbers(b) == <<b.max_sent_seqn, b.current_seqn, b.acknowledged_seqn, b.pending_queue>>

SameNumbers == \A d \in Ends : Numbers(buffer'[d]) = Numbers(buffer[d])

\* Most steps leave them alone.
LEMMA PutNumbers == ASSUME Inv, NEW e \in Ends, Put(e) PROVE SameNumbers
<1>1. buffer \in [Ends -> Buffer]
  BY DEF Inv, TypeOK
<1>2. PICK x : x = Append(buffer[e].data, puts[e] + 1)
  OBVIOUS
<1>3. buffer' = [buffer EXCEPT ![e].data = x]
  BY <1>2 DEF Put
<1> QED BY <1>1, <1>3 DEF SameNumbers, Numbers, Buffer

\* What the sender thread does by itself changes no number,
LEMMA ThreadNumbers ==
  ASSUME Inv, NEW e \in Ends, ThreadProc(e) \/ WakeUp(e)
  PROVE  SameNumbers
<1>1. buffer \in [Ends -> Buffer]
  BY DEF Inv, TypeOK
<1>2. CASE TakeData(e)
  BY <1>1, <1>2 DEF TakeData, SameNumbers, Numbers, Buffer
<1>3. CASE ~TakeData(e)
  <2>1. buffer' = buffer
    BY <1>3 DEF ThreadProc, ReturnFromThread, Wait, BeginProcess, EndProcess, WakeUp
  <2> QED BY <2>1 DEF SameNumbers
<1> QED BY <1>2, <1>3

\* nor does pausing, resuming or sending again,
LEMMA BalanceNumbers ==
  ASSUME Inv, NEW e \in Ends,
         \/ BeginPause(e) \/ EndPause(e) \/ BeginResume(e) \/ EndResume(e)
         \/ \E ok \in BOOLEAN : Reprocess(e, ok)
  PROVE  SameNumbers
<1>1. buffer \in [Ends -> Buffer]
  BY DEF Inv, TypeOK
<1>2. buffer' = buffer \/ \E i : buffer' = [buffer EXCEPT ![e].interrupt_balance = i]
  BY DEF BeginPause, EndPause, BeginResume, EndResume, Reprocess
<1>3. CASE buffer' = buffer
  BY <1>3 DEF SameNumbers
<1>4. ASSUME NEW i, buffer' = [buffer EXCEPT ![e].interrupt_balance = i]
      PROVE  SameNumbers
  BY <1>1, <1>4 DEF SameNumbers, Numbers, Buffer
<1> QED BY <1>2, <1>3, <1>4

\* nor the ending of the buffer.
LEMMA StateNumbers ==
  ASSUME Inv, NEW e \in Ends, Cleanup0(e) \/ Terminate0(e, "Stopping")
  PROVE  SameNumbers
<1>1. buffer \in [Ends -> Buffer]
  BY DEF Inv, TypeOK
<1>2. \E s : buffer' = [buffer EXCEPT ![e].state = s]
  BY DEF Cleanup0, Terminate0
<1> QED BY <1>1, <1>2 DEF SameNumbers, Numbers, Buffer

\* process gives the next number to the package that was put under it, or fails.
LEMMA ProcessNumbers ==
  ASSUME Inv, NEW e \in Ends, NEW ok \in BOOLEAN, Process(e, ok)
  PROVE  /\ Head(buffer[e].queue) = MaxSent(e) + 1
         /\ ~ok => SameNumbers
         /\ ok => /\ MaxSent(e)' = MaxSent(e) + 1
                  /\ buffer'[e].current_seqn = buffer[e].current_seqn
                  /\ buffer'[e].acknowledged_seqn = buffer[e].acknowledged_seqn
                  /\ \A d \in Ends \ {e} : Numbers(buffer'[d]) = Numbers(buffer[d])
<1>1. buffer \in [Ends -> Buffer] /\ buffer[e].queue # <<>>
  BY DEF Inv, TypeOK, Process
<1>2. Head(buffer[e].queue) = MaxSent(e) + 1
  <2>1. /\ buffer[e].queue \in Seq(Nat) /\ buffer[e].data \in Seq(Nat)
        /\ MaxSent(e) + 1 \in Nat
    BY <1>1, Members DEF MaxSent
  <2>2. Holds(buffer[e].queue \o buffer[e].data, MaxSent(e) + 1, puts[e])
    BY DEF Inv, EveryPutIsKept, MaxSent
  <2>3. /\ buffer[e].queue \o buffer[e].data \in Seq(Nat)
        /\ buffer[e].queue \o buffer[e].data # <<>>
        /\ Head(buffer[e].queue) = Head(buffer[e].queue \o buffer[e].data)
    BY <1>1, <2>1, QueueThenData
  <2>4. puts[e] \in Nat
    BY DEF Inv, TypeOK
  <2> QED BY <2>1, <2>2, <2>3, <2>4, HoldsTail
<1>3. CASE ok
  <2>1. PICK p, q : buffer' = [buffer EXCEPT ![e].max_sent_seqn = @ + 1,
                                             ![e].pending_queue = p, ![e].queue = q]
    BY <1>3 DEF Process
  <2> QED BY <1>1, <1>2, <1>3, <2>1 DEF Numbers, MaxSent, Buffer
<1>4. CASE ~ok
  BY <1>2, <1>4 DEF Process, SameNumbers
<1> QED BY <1>3, <1>4

\* resume forgets what is acknowledged, and an acknowledgement is noted.
LEMMA ResumeNumbers ==
  ASSUME Inv, NEW e \in Ends, BeginReprocess(e)
  PROVE  /\ \A d \in Ends : /\ MaxSent(d)' = MaxSent(d)
                            /\ buffer'[d].acknowledged_seqn = buffer[d].acknowledged_seqn
         /\ buffer'[e].current_seqn = buffer[e].acknowledged_seqn + 1
         /\ \A d \in Ends \ {e} : Numbers(buffer'[d]) = Numbers(buffer[d])
<1>1. buffer \in [Ends -> Buffer]
  BY DEF Inv, TypeOK
<1>2. PICK p : buffer' = [buffer EXCEPT ![e].pending_queue = p,
                                        ![e].current_seqn = buffer[e].acknowledged_seqn + 1]
  BY DEF BeginReprocess
<1> QED BY <1>1, <1>2 DEF Numbers, MaxSent, Buffer

\* acknowledge changes only what has been acknowledged, to what it is told or not at all.
LEMMA AcknowledgeNumbers ==
  ASSUME Inv, NEW e \in Ends, NEW seqn \in Nat, Acknowledge(e, seqn)
  PROVE  /\ \A d \in Ends : /\ MaxSent(d)' = MaxSent(d)
                            /\ buffer'[d].current_seqn = buffer[d].current_seqn
                            /\ buffer'[d].pending_queue = buffer[d].pending_queue
         /\ buffer'[e].acknowledged_seqn \in {buffer[e].acknowledged_seqn, seqn}
         /\ \A d \in Ends \ {e} : Numbers(buffer'[d]) = Numbers(buffer[d])
<1>1. buffer \in [Ends -> Buffer]
  BY DEF Inv, TypeOK
<1>2. buffer' = buffer \/ buffer' = [buffer EXCEPT ![e].acknowledged_seqn = seqn]
  BY DEF Acknowledge
<1>3. CASE buffer' = buffer
  BY <1>3 DEF MaxSent
<1>4. CASE buffer' = [buffer EXCEPT ![e].acknowledged_seqn = seqn]
  BY <1>1, <1>4 DEF Numbers, MaxSent, Buffer
<1> QED BY <1>2, <1>3, <1>4

----------------------------------------------------------------------------
\* Frames reach the net at the end of a stream,
LEMMA SentNet ==
  ASSUME WireTypes, NEW e \in Ends, socket[e] # 0, NEW f \in Frame, net' = Sent(e, f)
  PROVE  /\ net' \in Nets
         /\ net'[socket[e]][e] = IF socket[e] \in dead THEN net[socket[e]][e]
                                 ELSE Append(net[socket[e]][e], f)
         /\ \A j \in Connections, d \in Ends : j # socket[e] \/ d # e => net'[j][d] = net[j][d]
<1>1. net \in Nets
  BY DEF WireTypes
<1>2. PICK k \in Connections : k = socket[e]
  BY WireAssumption DEF WireTypes, Connections, WireAssumption
<1>3. CASE socket[e] \in dead
  BY <1>1, <1>3 DEF Sent
<1>4. CASE socket[e] \notin dead
  <2>1. net[k][e] \in Seq(Frame)
    BY <1>1 DEF Nets
  <2>2. PICK s \in Seq(Frame) : s = Append(net[k][e], f)
    BY <2>1, AppendProperties
  <2>3. net' = [net EXCEPT ![k][e] = s]
    BY <1>2, <1>4, <2>2 DEF Sent
  <2>4. /\ net' \in Nets /\ net'[k][e] = s
        /\ \A j \in Connections, d \in Ends : j # k \/ d # e => net'[j][d] = net[j][d]
    BY <1>1, <2>3 DEF Nets
  <2> QED BY <1>2, <1>4, <2>2, <2>4
<1> QED BY <1>3, <1>4

\* and leave it one by one.
LEMMA NextFrame ==
  ASSUME WireTypes, Frames, NEW e \in Ends, socket[e] # 0, Arrived(e) # <<>>
  PROVE  /\ socket[e] \in Connections /\ Arrived(e) = net[socket[e]][Peer(e)]
         /\ Head(Arrived(e)) \in Frame /\ Head(Arrived(e)) = Arrived(e)[1]
         /\ Genuine(Head(Arrived(e)), MaxSent(Peer(e)), MaxSent(e))
<1>1. socket[e] \in Connections /\ Peer(e) \in Ends /\ Peer(Peer(e)) = e
  BY WireAssumption, PeerIs DEF WireTypes, Connections, WireAssumption
<1>2. PICK s \in Seq(Frame) : s = net[socket[e]][Peer(e)]
  BY <1>1 DEF WireTypes, Nets
<1>3. Stream(s, MaxSent(Peer(e)), MaxSent(e))
  BY <1>1, <1>2 DEF Frames
<1>4. s # <<>> /\ Len(s) \in Nat \ {0}
  BY <1>2, EmptySeq DEF Arrived
<1>5. Head(s) \in Frame /\ Head(s) = s[1]
  BY <1>4, ElementOfSeq
<1>6. Genuine(s[1], MaxSent(Peer(e)), MaxSent(e))
  BY <1>3, <1>4 DEF Stream
<1> QED BY <1>1, <1>2, <1>5, <1>6 DEF Arrived

\* What is read is the first of its stream.
Rest(e) == [net EXCEPT ![socket[e]][Peer(e)] = Tail(@)]

\* Reading changes this stream only.
LEMMA RestNet ==
  ASSUME WireTypes, NEW e \in Ends, socket[e] # 0, Arrived(e) # <<>>
  PROVE  /\ Rest(e) \in Nets
         /\ Rest(e)[socket[e]][Peer(e)] = Tail(net[socket[e]][Peer(e)])
         /\ \A j \in Connections, d \in Ends :
              j # socket[e] \/ d # Peer(e) => Rest(e)[j][d] = net[j][d]
<1>1. net \in Nets /\ Peer(e) \in Ends
  BY PeerIs DEF WireTypes
<1>2. PICK k \in Connections : k = socket[e]
  BY WireAssumption DEF WireTypes, Connections, WireAssumption
<1>3. PICK p \in Ends : p = Peer(e)
  BY <1>1
<1>4. net[k][p] \in Seq(Frame) /\ net[k][p] # <<>>
  BY <1>1, <1>2, <1>3 DEF Nets, Arrived
<1>5. PICK t \in Seq(Frame) : t = Tail(net[k][p])
  BY <1>4, HeadTailProperties
<1>6. PICK rest : rest = Rest(e)
  OBVIOUS
<1>7. rest = [net EXCEPT ![k][p] = t]
  BY <1>2, <1>3, <1>5, <1>6 DEF Rest
<1>8. /\ rest \in Nets /\ rest[k][p] = t
      /\ \A j \in Connections, d \in Ends : j # k \/ d # p => rest[j][d] = net[j][d]
  BY <1>1, <1>7 DEF Nets
<1> QED BY <1>2, <1>3, <1>5, <1>6, <1>8

\* A package that is read is acknowledged on the same connection.
Reply(e, n) ==
  IF socket[e] \in dead THEN Rest(e)
  ELSE [Rest(e) EXCEPT ![socket[e]][e] = Append(@, Ack(n))]

\* The stream it was read from is the shorter for it, the one back the longer.
LEMMA AcknowledgedNet ==
  ASSUME WireTypes, NEW e \in Ends, socket[e] # 0, Arrived(e) # <<>>, NEW n \in Nat,
         net' = Reply(e, n)
  PROVE  /\ net' \in Nets
         /\ net'[socket[e]][Peer(e)] = Tail(net[socket[e]][Peer(e)])
         /\ net'[socket[e]][e] = IF socket[e] \in dead THEN net[socket[e]][e]
                                 ELSE Append(net[socket[e]][e], Ack(n))
         /\ \A j \in Connections, d \in Ends : j # socket[e] => net'[j][d] = net[j][d]
<1>1. net \in Nets /\ Peer(e) \in Ends /\ Peer(e) # e /\ \A d \in Ends : d = e \/ d = Peer(e)
  BY PeerIs DEF WireTypes
<1>2. PICK k \in Connections : k = socket[e]
  BY WireAssumption DEF WireTypes, Connections, WireAssumption
<1>3. PICK rest : rest = Rest(e)
  OBVIOUS
<1>4. /\ rest \in Nets /\ rest[k][Peer(e)] = Tail(net[k][Peer(e)])
      /\ \A j \in Connections, d \in Ends : j # k \/ d # Peer(e) => rest[j][d] = net[j][d]
  BY <1>2, <1>3, RestNet
<1>5. CASE socket[e] \in dead
  <2>1. net' = rest
    BY <1>3, <1>5 DEF Reply
  <2> QED BY <1>1, <1>2, <1>4, <1>5, <2>1
<1>6. CASE socket[e] \notin dead
  <2>1. net[k][e] \in Seq(Frame) /\ rest[k][e] = net[k][e]
    BY <1>1, <1>4 DEF Nets
  <2>2. PICK s \in Seq(Frame) : s = Append(net[k][e], Ack(n))
    BY <2>1, FrameSorts, AppendProperties
  <2>3. net' = [rest EXCEPT ![k][e] = s]
    BY <1>2, <1>3, <1>6, <2>1, <2>2 DEF Reply
  <2>4. /\ net' \in Nets /\ net'[k][e] = s
        /\ \A j \in Connections, d \in Ends : j # k \/ d # e => net'[j][d] = rest[j][d]
    BY <1>4, <2>3 DEF Nets
  <2>5. net'[k][Peer(e)] = Tail(net[k][Peer(e)])
    BY <1>1, <1>4, <2>4
  <2>6. \A j \in Connections, d \in Ends : j # k => net'[j][d] = net[j][d]
    BY <1>4, <2>4
  <2> QED BY <1>2, <1>6, <2>2, <2>4, <2>5, <2>6
<1> QED BY <1>5, <1>6

----------------------------------------------------------------------------
\* What the sender thread sends is the package with the next number, or nothing.
LEMMA SendNewSends ==
  ASSUME Inv, WireTypes, NEW e \in Ends, SendNew(e)
  PROVE  \/ /\ net' = net /\ SameNumbers /\ UNCHANGED <<caller, resent>>
            /\ \A d \in Ends : early'[d] <=> early[d]
         \/ /\ HasRoom(e)
            /\ net' = Sent(e, Package(MaxSent(e) + 1, MaxSent(e) + 1))
            /\ MaxSent(e)' = MaxSent(e) + 1
            /\ buffer'[e].current_seqn = buffer[e].current_seqn
            /\ buffer'[e].acknowledged_seqn = buffer[e].acknowledged_seqn
            /\ \A d \in Ends \ {e} : Numbers(buffer'[d]) = Numbers(buffer[d])
            /\ UNCHANGED <<caller, resent>>
            /\ \A d \in Ends \ {e} : early'[d] <=> early[d]
            /\ early'[e] <=>
                 \/ early[e]
                 \/ caller[e] \in {"paused", "resuming"} /\ socket[e] \notin dead
<1>1. PICK ok \in BOOLEAN :
        /\ Process(e, ok)
        /\ CanAnswer(e, ok)
        /\ net' = IF ok THEN Sent(e, Package(buffer[e].max_sent_seqn + 1, Head(buffer[e].queue)))
                  ELSE net
        /\ early' = [early EXCEPT ![e] =
             @ \/ (ok /\ caller[e] \in {"paused", "resuming"} /\ socket[e] \notin dead)]
  BY DEF SendNew
<1>2. UNCHANGED <<caller, resent>>
  BY <1>1 DEF Process
<1>3. /\ \A d \in Ends \ {e} : early'[d] <=> early[d]
      /\ early'[e] <=>
           \/ early[e]
           \/ ok /\ caller[e] \in {"paused", "resuming"} /\ socket[e] \notin dead
  <2>1. early \in [Ends -> BOOLEAN]
    BY DEF WireTypes
  <2>2. PICK v \in BOOLEAN :
          v <=> \/ early[e]
                \/ ok /\ caller[e] \in {"paused", "resuming"} /\ socket[e] \notin dead
    BY Zenon
  <2>3. early' = [early EXCEPT ![e] = v]
    BY <1>1, <2>1, <2>2, Zenon
  <2>4. early'[e] = v /\ \A d \in Ends \ {e} : early'[d] = early[d]
    BY <2>1, <2>3
  <2> QED BY <2>2, <2>4, Zenon
<1>4. CASE ok
  <2>1. net' = Sent(e, Package(MaxSent(e) + 1, MaxSent(e) + 1)) /\ HasRoom(e)
    BY <1>1, <1>4, ProcessNumbers DEF MaxSent, CanAnswer
  <2>2. /\ MaxSent(e)' = MaxSent(e) + 1
        /\ buffer'[e].current_seqn = buffer[e].current_seqn
        /\ buffer'[e].acknowledged_seqn = buffer[e].acknowledged_seqn
        /\ \A d \in Ends \ {e} : Numbers(buffer'[d]) = Numbers(buffer[d])
    BY <1>1, <1>4, ProcessNumbers
  <2> QED BY <1>2, <1>3, <1>4, <2>1, <2>2
<1>5. CASE ~ok
  <2>1. net' = net /\ SameNumbers
    BY <1>1, <1>5, ProcessNumbers
  <2> QED BY <1>2, <1>3, <1>5, <2>1
<1> QED BY <1>4, <1>5

\* What resume sends is the next of the packages that are not acknowledged, or nothing.
LEMMA ResendSends ==
  ASSUME Inv, NEW e \in Ends, Resend(e)
  PROVE  \/ /\ net' = net /\ SameNumbers /\ socket[e] \in dead
            /\ caller' = [caller EXCEPT ![e] = "resumed"] /\ UNCHANGED resent
         \/ /\ HasRoom(e)
            /\ ResentSeqn(e) \in 1 .. MaxSent(e)
            /\ net' = Sent(e, Package(ResentSeqn(e), ResentSeqn(e)))
            /\ resent' = [resent EXCEPT ![e] = @ + 1]
            /\ UNCHANGED <<buffer, caller>>
<1>1. PICK ok \in BOOLEAN :
        /\ Reprocess(e, ok)
        /\ CanAnswer(e, ok)
        /\ net' = IF ok THEN Sent(e, Package(ResentSeqn(e), buffer[e].pending_queue[resent[e] + 1]))
                  ELSE net
  BY DEF Resend
<1>2. CASE ok
  <2>1. /\ resent[e] \in Nat /\ buffer[e].pending_queue \in Seq(Nat)
        /\ buffer[e].current_seqn \in Nat \ {0} /\ MaxSent(e) \in Nat
    BY OneEnd, Members DEF MaxSent
  <2>2. Holds(buffer[e].pending_queue, buffer[e].current_seqn, MaxSent(e))
    BY DEF Inv, EveryPutIsKept, MaxSent
  <2>3. resent[e] < Len(buffer[e].pending_queue) /\ Len(buffer[e].pending_queue) \in Nat
    BY <1>1, <2>1, LenProperties DEF Reprocess
  <2>4. /\ ResentSeqn(e) \in 1 .. MaxSent(e)
        /\ buffer[e].pending_queue[resent[e] + 1] = ResentSeqn(e)
    <3>1. PICK s \in Seq(Nat) : s = buffer[e].pending_queue
      BY <2>1
    <3>2. PICK i \in Nat : i = resent[e] + 1
      BY <2>1
    <3>3. i \in 1 .. Len(s)
      BY <2>1, <2>3, <3>1, <3>2
    <3>4. s[i] = buffer[e].current_seqn + i - 1 /\ Len(s) = MaxSent(e) + 1 - buffer[e].current_seqn
      BY <2>2, <3>1, <3>3 DEF Holds
    <3>5. buffer[e].current_seqn + resent[e] \in 1 .. MaxSent(e)
      <4>1. PICK c \in Nat \ {0}, r \in Nat, m \in Nat :
              c = buffer[e].current_seqn /\ r = resent[e] /\ m = MaxSent(e)
        BY <2>1
      <4>2. r + 1 <= m + 1 - c
        BY <3>2, <3>3, <3>4, <4>1
      <4>3. c + r \in 1 .. m
        BY <4>2
      <4>4. buffer[e].current_seqn + resent[e] = c + r
        BY <4>1
      <4> QED BY <4>1, <4>3, <4>4
    <3>6. buffer[e].pending_queue[resent[e] + 1] = s[i]
      BY <3>1, <3>2
    <3>7. s[i] = buffer[e].current_seqn + resent[e]
      BY <2>1, <3>2, <3>4
    <3> QED BY <3>5, <3>6, <3>7 DEF ResentSeqn
  <2>5. resent' = [resent EXCEPT ![e] = @ + 1] /\ UNCHANGED <<buffer, caller>>
    BY <1>1, <1>2 DEF Reprocess
  <2> QED BY <1>1, <1>2, <2>4, <2>5 DEF CanAnswer
<1>3. CASE ~ok
  <2>1. caller' = [caller EXCEPT ![e] = "resumed"] /\ UNCHANGED resent
    BY <1>1, <1>3 DEF Reprocess
  <2>2. SameNumbers
    BY <1>1, BalanceNumbers
  <2> QED BY <1>1, <1>3, <2>1, <2>2 DEF CanAnswer
<1> QED BY <1>2, <1>3

\* What a package that arrives does.
LEMMA PackageArrives ==
  ASSUME WireTypes, Frames, Places, NEW e \in Ends, ReceivePackage(e)
  PROVE  /\ socket[e] # 0 /\ Arrived(e) # <<>> /\ HasRoom(e)
         /\ net' = Reply(e, Head(Arrived(e)).seqn)
         /\ Head(Arrived(e)).kind = "package"
         /\ Head(Arrived(e)).seqn \in 1 .. MaxSent(Peer(e))
         /\ Head(Arrived(e)).msg = Head(Arrived(e)).seqn
         /\ UNCHANGED <<bufferVars, socket, conn, dead, early, lifetime>>
         /\ \/ /\ Head(Arrived(e)).seqn <= received[e] /\ Head(Arrived(e)).seqn # 1
               /\ inFrame' = [inFrame EXCEPT ![e] = FALSE]
               /\ UNCHANGED <<received, accepted>>
            \/ /\ ~(Head(Arrived(e)).seqn <= received[e] /\ Head(Arrived(e)).seqn # 1)
               /\ received' = [received EXCEPT ![e] = Head(Arrived(e)).seqn]
               /\ accepted' = [accepted EXCEPT ![e] = Append(@, Head(Arrived(e)).seqn)]
               /\ UNCHANGED inFrame
<1>1. conn[e] = "open" /\ Arrived(e) # <<>> /\ HasRoom(e) /\ Head(Arrived(e)).kind = "package"
  BY DEF ReceivePackage, Receiving, IsNext
<1>2. socket[e] # 0
  BY <1>1 DEF Places, Place
<1>3. Genuine(Head(Arrived(e)), MaxSent(Peer(e)), MaxSent(e))
  BY <1>1, <1>2, NextFrame
<1>4. /\ Head(Arrived(e)).seqn \in 1 .. MaxSent(Peer(e))
      /\ Head(Arrived(e)).msg = Head(Arrived(e)).seqn
  BY <1>1, <1>3 DEF Genuine
<1>5. net' = Reply(e, Head(Arrived(e)).seqn)
  BY DEF ReceivePackage, Reply, Rest
<1>6. /\ UNCHANGED <<bufferVars, socket, conn, dead, early, lifetime>>
      /\ IF Head(Arrived(e)).seqn <= received[e] /\ Head(Arrived(e)).seqn # 1
         THEN /\ inFrame' = [inFrame EXCEPT ![e] = FALSE]
              /\ UNCHANGED <<received, accepted>>
         ELSE /\ received' = [received EXCEPT ![e] = Head(Arrived(e)).seqn]
              /\ accepted' = [accepted EXCEPT ![e] = Append(@, Head(Arrived(e)).msg)]
              /\ UNCHANGED inFrame
  BY DEF ReceivePackage
<1> QED BY <1>1, <1>2, <1>4, <1>5, <1>6

\* An acknowledgement that arrives is of a package that was sent.
LEMMA AckArrives ==
  ASSUME WireTypes, Frames, Places, NEW e \in Ends, ReceiveAck(e)
  PROVE  /\ socket[e] # 0 /\ Arrived(e) # <<>>
         /\ net' = Rest(e)
         /\ Head(Arrived(e)).kind = "ack"
         /\ Head(Arrived(e)).seqn \in 1 .. MaxSent(e)
         /\ Acknowledge(e, Head(Arrived(e)).seqn)
         /\ UNCHANGED <<socket, conn, dead, received, accepted, inFrame, early, lifetime>>
<1>1. conn[e] = "open" /\ Arrived(e) # <<>> /\ Head(Arrived(e)).kind = "ack"
  BY DEF ReceiveAck, Receiving, IsNext
<1>2. socket[e] # 0
  BY <1>1 DEF Places, Place
<1>3. Genuine(Head(Arrived(e)), MaxSent(Peer(e)), MaxSent(e))
  BY <1>1, <1>2, NextFrame
<1>4. Head(Arrived(e)).seqn \in 1 .. MaxSent(e)
  BY <1>1, <1>3 DEF Genuine
<1> QED BY <1>1, <1>2, <1>4 DEF ReceiveAck, Rest

----------------------------------------------------------------------------
\* The steps that do not touch the frames keep the types.
LEMMA TypesAside ==
  ASSUME WireTypes, Places, NEW e \in Ends,
         \/ GoOn(e) \/ Expire(e) \/ Connect(e) \/ FailToConnect(e) \/ HangUp(e) \/ Shutdown(e)
         \/ BeginTermination(e) \/ StopBuffer(e) \/ CloseSocket(e) \/ Join(e)
  PROVE  WireTypes'
<1> USE WireAssumption DEF WireAssumption, WireTypes, ConnPlaces, LifetimePlaces, Connections
<1>1. CASE Connect(e)
  <2>1. socket[e] \in Nat /\ socket[e] < MaxConnections
    BY <1>1 DEF Connect, CanConnect, Places
  <2>2. socket' \in [Ends -> 0 .. MaxConnections]
    BY <1>1, <2>1 DEF Connect
  <2>3. dead' \subseteq Connections
    <3>1. socket[e] + 1 \in Connections
      BY <2>1
    <3>2. dead' = dead \/ dead' = dead \cup {socket[e] + 1}
      BY <1>1 DEF Connect
    <3> QED BY <3>1, <3>2
  <2>4. conn' \in [Ends -> ConnPlaces]
    BY <1>1 DEF Connect
  <2> QED BY <1>1, <2>2, <2>3, <2>4 DEF Connect
<1>2. CASE GoOn(e) \/ Expire(e) \/ FailToConnect(e) \/ HangUp(e)
  BY <1>2 DEF GoOn, Expire, FailToConnect, HangUp
<1>3. CASE Shutdown(e)
  <2>1. socket[e] # 0
    BY <1>3 DEF Shutdown, Places, Place
  <2>2. socket[e] \in Connections
    BY <2>1
  <2>3. dead' \subseteq Connections
    BY <1>3, <2>2 DEF Shutdown
  <2>4. conn' \in [Ends -> ConnPlaces]
    BY <1>3 DEF Shutdown
  <2> QED BY <1>3, <2>3, <2>4 DEF Shutdown
<1>4. CASE BeginTermination(e)
  BY <1>4 DEF BeginTermination
<1>5. CASE StopBuffer(e)
  BY <1>5 DEF StopBuffer
<1>6. CASE CloseSocket(e)
  BY <1>6 DEF CloseSocket
<1>7. CASE Join(e)
  BY <1>7 DEF Join
<1> QED BY <1>1, <1>2, <1>3, <1>4, <1>5, <1>6, <1>7

\* Who sends has a socket, and what is sent is a frame.
LEMMA SendersFrame ==
  ASSUME Inv, Places, NEW e \in Ends, SendNew(e) \/ Resend(e)
  PROVE  /\ socket[e] # 0 /\ MaxSent(e) \in Nat /\ MaxSent(Peer(e)) \in Nat
         /\ \A n \in Nat : Package(n, n) \in Frame
         /\ caller[e] = "resending" <=> Resend(e)
<1>1. CASE SendNew(e)
  <2>1. sender[e] = "processing"
    BY <1>1 DEF SendNew, Process
  <2>2. socket[e] # 0 /\ caller[e] # "resending"
    BY <2>1 DEF Places, Place
  <2> QED BY <2>2, OneEnd, Members, FrameSorts, PeerIs DEF MaxSent, Resend, Reprocess
<1>2. CASE Resend(e)
  <2>1. caller[e] = "resending"
    BY <1>2 DEF Resend, Reprocess
  <2>2. socket[e] # 0
    BY <2>1 DEF Places, Place
  <2> QED BY <1>2, <2>1, <2>2, OneEnd, Members, FrameSorts, PeerIs DEF MaxSent
<1> QED BY <1>1, <1>2

\* The steps that send or read keep the types.
LEMMA TypesOfFrames ==
  ASSUME Inv, WireTypes, Frames, Places, NEW e \in Ends,
         SendNew(e) \/ Resend(e) \/ ReceivePackage(e) \/ ReceiveAck(e)
  PROVE  WireTypes'
<1>1. CASE SendNew(e)
  <2>1. net' \in Nets
    <3>1. CASE net' = net
      BY <3>1 DEF WireTypes
    <3>2. CASE net' = Sent(e, Package(MaxSent(e) + 1, MaxSent(e) + 1))
      <4>1. Package(MaxSent(e) + 1, MaxSent(e) + 1) \in Frame /\ socket[e] # 0
        BY <1>1, SendersFrame
      <4> QED BY <3>2, <4>1, SentNet
    <3> QED BY <1>1, <3>1, <3>2, SendNewSends
  <2>2. early' \in [Ends -> BOOLEAN]
    BY <1>1 DEF SendNew, WireTypes
  <2> QED BY <1>1, <2>1, <2>2 DEF SendNew, WireTypes
<1>2. CASE Resend(e)
  <2>1. net' \in Nets
    <3>1. CASE net' = net
      BY <3>1 DEF WireTypes
    <3>2. CASE /\ net' = Sent(e, Package(ResentSeqn(e), ResentSeqn(e)))
               /\ ResentSeqn(e) \in 1 .. MaxSent(e)
      <4>1. Package(ResentSeqn(e), ResentSeqn(e)) \in Frame /\ socket[e] # 0
        BY <1>2, <3>2, SendersFrame
      <4> QED BY <3>2, <4>1, SentNet
    <3> QED BY <1>2, <3>1, <3>2, ResendSends
  <2> QED BY <1>2, <2>1 DEF Resend, WireTypes
<1>3. CASE ReceivePackage(e)
  <2>1. PICK n \in Nat : n = Head(Arrived(e)).seqn
    <3>1. Head(Arrived(e)).seqn \in 1 .. MaxSent(Peer(e))
      BY <1>3, PackageArrives
    <3> QED BY <3>1
  <2>2. net' \in Nets
    BY <1>3, <2>1, PackageArrives, AcknowledgedNet
  <2>3. received' \in [Ends -> Nat]
    BY <1>3, <2>1, PackageArrives DEF WireTypes
  <2>4. accepted' \in [Ends -> Seq(Nat)]
    <3>1. accepted[e] \in Seq(Nat)
      BY DEF WireTypes
    <3>2. PICK s \in Seq(Nat) : s = Append(accepted[e], n)
      BY <3>1, AppendProperties
    <3>3. accepted' = accepted \/ accepted' = [accepted EXCEPT ![e] = s]
      BY <1>3, <2>1, <3>2, PackageArrives
    <3> QED BY <3>3 DEF WireTypes
  <2>5. inFrame' \in [Ends -> BOOLEAN]
    BY <1>3, PackageArrives DEF WireTypes
  <2>6. UNCHANGED <<socket, conn, dead, early, lifetime>>
    BY <1>3 DEF ReceivePackage
  <2> QED BY <2>2, <2>3, <2>4, <2>5, <2>6 DEF WireTypes
<1>4. CASE ReceiveAck(e)
  <2>1. UNCHANGED <<socket, conn, dead, received, accepted, inFrame, early, lifetime>>
    BY <1>4 DEF ReceiveAck
  <2>2. net' = Rest(e) /\ socket[e] # 0 /\ Arrived(e) # <<>>
    BY <1>4, AckArrives
  <2>3. net' \in Nets
    BY <2>2, RestNet
  <2> QED BY <2>1, <2>3 DEF WireTypes
<1> QED BY <1>1, <1>2, <1>3, <1>4

\* Every step keeps the types.
LEMMA TypesStep ==
  ASSUME Inv, WireTypes, Frames, Places, WireNext
  PROVE  WireTypes'
<1>1. CASE UNCHANGED wireVars
  BY <1>1 DEF wireVars, WireTypes
<1>2. ASSUME NEW k \in Connections, Break(k)
      PROVE  WireTypes'
  BY <1>2 DEF Break, WireTypes
<1> QED BY <1>1, <1>2, TypesAside, TypesOfFrames DEF WireNext, SenderThread, ConnectionThread,
        TerminatingThread, Resume, ResumeOrPause, PauseDisconnected, BufferStopped

----------------------------------------------------------------------------
\* Threads of one end move, its socket stays, and connections die.
LEMMA PlaceMoves ==
  ASSUME WireTypes, Places, NEW e \in Ends, UNCHANGED socket, dead \subseteq dead', Place(e)',
         \A d \in Ends \ {e} :
           sender'[d] = sender[d] /\ caller'[d] = caller[d] /\ conn'[d] = conn[d]
  PROVE  Places'
<1>1. ASSUME NEW d \in Ends \ {e}
      PROVE  Place(d)'
  BY DEF Places, Place
<1> QED BY <1>1 DEF Places

\* The steps of the sender thread: who has taken data has a socket, for it was resumed.
LEMMA SenderThreadPlaces ==
  ASSUME Inv, WireTypes, Places, NEW e \in Ends,
         SenderThread(e) \/ (WakeUp(e) /\ UNCHANGED wireVars)
  PROVE  Places'
<1>1. /\ sender \in [Ends -> SenderPlaces]
      /\ caller \in [Ends -> {"paused", "resuming", "resending", "resumed", "pausing"}]
      /\ Place(e)
  BY DEF Inv, TypeOK, SenderPlaces, Places
<1>2. UNCHANGED <<socket, dead, conn, caller>>
  BY DEF SenderThread, SendNew, Process, ThreadProc, wireVars, ReturnFromThread, Wait,
     TakeData, BeginProcess, EndProcess, WakeUp
<1>3. PICK s \in SenderPlaces :
        /\ sender' = [sender EXCEPT ![e] = s]
        /\ s \in {"taken", "processing"} => socket[e] # 0
        /\ s = "processing" => caller[e] # "resending"
  <2>1. CASE SendNew(e)
    BY <1>1, <2>1 DEF SendNew, Process, SenderPlaces, Place
  <2>2. CASE TakeData(e)
    <3>1. caller[e] = "resumed"
      BY <2>2, OneEnd DEF TakeData, NothingToDo
    <3> QED BY <1>1, <2>2, <3>1 DEF TakeData, SenderPlaces, Place
  <2>3. CASE BeginProcess(e)
    BY <1>1, <2>3 DEF BeginProcess, SenderPlaces, Place
  <2>4. CASE Wait(e) \/ ReturnFromThread(e) \/ EndProcess(e)
    BY <1>1, <2>4 DEF Wait, ReturnFromThread, EndProcess, SenderPlaces
  <2>5. CASE WakeUp(e)
    BY <1>1, <2>5 DEF WakeUp, Notified, SenderPlaces
  <2> QED BY <2>1, <2>2, <2>3, <2>4, <2>5 DEF SenderThread, ThreadProc
<1>4. Place(e)'
  BY <1>1, <1>2, <1>3 DEF Place
<1>5. \A d \in Ends \ {e} : sender'[d] = sender[d]
  BY <1>1, <1>3
<1> QED BY <1>2, <1>4, <1>5, PlaceMoves

\* Who is notified has not begun to process.
LEMMA NotifiedPlaces ==
  ASSUME WireTypes, Places, sender \in [Ends -> SenderPlaces], NEW e \in Ends,
         sender' \in {sender, Notified(e)}
  PROVE  \A d \in Ends : /\ sender'[d] = "processing" <=> sender[d] = "processing"
                         /\ sender'[d] = "taken" <=> sender[d] = "taken"
                         /\ d # e => sender'[d] = sender[d]
BY DEF Notified

\* The steps of the thread of the connection.
LEMMA ConnectionThreadPlaces ==
  ASSUME Inv, WireTypes, Frames, Places, NEW e \in Ends, ConnectionThread(e)
  PROVE  Places'
<1>1. /\ sender \in [Ends -> SenderPlaces]
      /\ caller \in [Ends -> {"paused", "resuming", "resending", "resumed", "pausing"}]
      /\ conn \in [Ends -> ConnPlaces] /\ socket \in [Ends -> 0 .. MaxConnections]
      /\ \A d \in Ends : socket[d] \in Nat
      /\ Place(e)
  BY WireAssumption DEF WireAssumption, Inv, TypeOK, WireTypes, SenderPlaces, Places
<1>2. CASE Connect(e)
  <2>1. /\ conn[e] = "connecting" /\ caller[e] = "paused" /\ UNCHANGED <<sender, caller>>
        /\ socket'[e] = socket[e] + 1 /\ conn'[e] \in {"expired", "open"} /\ dead \subseteq dead'
        /\ conn'[e] = "expired" => socket'[e] \in dead'
        /\ \A d \in Ends \ {e} : socket'[d] = socket[d] /\ conn'[d] = conn[d]
    BY <1>1, <1>2 DEF Connect, bufferVars, Place
  <2>2. Place(e)'
    BY <1>1, <2>1 DEF Place
  <2>3. ASSUME NEW d \in Ends \ {e}
        PROVE  Place(d)'
    BY <2>1 DEF Places, Place
  <2>4. socket'[Server] <= socket'[Client]
    <3>1. e = Client \/ (e = Server /\ socket[Server] < socket[Client])
      BY <1>2, WireAssumption DEF Connect, CanConnect, WireAssumption
    <3>2. Client \in Ends /\ Server \in Ends /\ Client # Server /\ socket[Server] <= socket[Client]
      BY WireAssumption DEF WireAssumption, Places
    <3> QED BY <1>1, <2>1, <3>1, <3>2
  <2> QED BY <2>2, <2>3, <2>4 DEF Places
<1>3. ASSUME NEW at \in {"paused", "resuming", "resending", "resumed", "pausing"},
             caller' = [caller EXCEPT ![e] = at], sender' \in {sender, Notified(e)},
             UNCHANGED <<conn, socket, dead>>,
             \/ at = "paused"
             \/ at = "pausing" /\ conn[e] = "hungup"
             \/ at \in {"resuming", "resumed"} /\ conn[e] = "open"
             \/ at = "resending" /\ conn[e] = "open" /\ sender[e] # "processing"
      PROVE  Places'
  <2>1. caller'[e] = at /\ \A d \in Ends \ {e} : caller'[d] = caller[d]
    BY <1>1, <1>3
  <2>2. \A d \in Ends : /\ sender'[d] = "processing" <=> sender[d] = "processing"
                        /\ sender'[d] = "taken" <=> sender[d] = "taken"
                        /\ d # e => sender'[d] = sender[d]
    BY <1>1, <1>3, NotifiedPlaces
  <2>3. Place(e)'
    BY <1>1, <1>3, <2>1, <2>2 DEF Place
  <2> QED BY <1>3, <2>1, <2>2, <2>3, PlaceMoves
<1>4. CASE Resume(e) \/ PauseDisconnected(e)
  BY <1>3, <1>4 DEF Resume, BeginResume, PauseDisconnected, BeginPause, wireVars
<1>5. CASE ResumeOrPause(e)
  <2>1. UNCHANGED <<conn, socket, dead>>
    BY <1>5 DEF ResumeOrPause, wireVars
  <2>2. CASE BeginReprocess(e)
    BY <1>1, <1>3, <2>1, <2>2 DEF BeginReprocess, Place
  <2>3. CASE EndResume(e)
    BY <1>1, <1>3, <2>1, <2>3 DEF EndResume, Place
  <2>4. CASE EndPause(e)
    BY <1>3, <2>1, <2>4 DEF EndPause
  <2> QED BY <1>5, <2>2, <2>3, <2>4 DEF ResumeOrPause
<1>6. CASE Resend(e)
  <2>1. UNCHANGED <<conn, socket, dead>> /\ caller[e] = "resending" /\ conn[e] = "open"
    BY <1>1, <1>6 DEF Resend, Reprocess, Place
  <2>2. CASE UNCHANGED <<sender, caller>>
    BY <2>1, <2>2 DEF Places, Place
  <2>3. CASE caller' = [caller EXCEPT ![e] = "resumed"] /\ sender' = Notified(e)
    BY <1>3, <2>1, <2>3
  <2> QED BY <1>6, <2>2, <2>3 DEF Resend, Reprocess
<1>7. CASE ReceivePackage(e) \/ ReceiveAck(e)
  <2>1. UNCHANGED <<sender, caller, conn, socket, dead>>
    BY <1>7 DEF ReceivePackage, ReceiveAck, Acknowledge, bufferVars
  <2> QED BY <2>1 DEF Places, Place
<1>8. CASE HangUp(e)
  <2>1. conn'[e] = "hungup" /\ \A d \in Ends \ {e} : conn'[d] = conn[d]
    BY <1>1, <1>8 DEF HangUp
  <2>2. /\ caller[e] = "resumed" /\ conn[e] = "open" /\ socket[e] \in dead
        /\ UNCHANGED <<sender, caller, socket, dead>>
    BY <1>8 DEF HangUp, Receiving, bufferVars
  <2>3. Place(e)'
    BY <1>1, <2>1, <2>2 DEF Place
  <2> QED BY <2>1, <2>2, <2>3, PlaceMoves
<1>9. CASE Shutdown(e)
  <2>1. /\ conn'[e] = "closed" /\ \A d \in Ends \ {e} : conn'[d] = conn[d]
        /\ caller[e] = "paused" /\ UNCHANGED <<sender, caller, socket>>
        /\ dead' = dead \cup {socket[e]}
    BY <1>1, <1>9 DEF Shutdown, bufferVars
  <2>2. Place(e)'
    BY <1>1, <2>1 DEF Place
  <2> QED BY <2>1, <2>2, PlaceMoves
<1>10. CASE GoOn(e) \/ Expire(e) \/ FailToConnect(e)
  <2>1. /\ conn[e] \in {"closed", "connecting"} /\ conn'[e] \in {"connecting", "closed", "expired"}
        /\ \A d \in Ends \ {e} : conn'[d] = conn[d]
        /\ caller[e] = "paused" /\ UNCHANGED <<sender, caller, socket, dead>>
    BY <1>1, <1>10 DEF GoOn, Expire, FailToConnect, bufferVars, Place
  <2>2. Place(e)'
    BY <1>1, <2>1 DEF Place
  <2> QED BY <2>1, <2>2, PlaceMoves
<1> QED BY <1>2, <1>4, <1>5, <1>6, <1>7, <1>8, <1>9, <1>10 DEF ConnectionThread

\* All steps keep the threads in their places.
LEMMA PlacesStep ==
  ASSUME Inv, WireTypes, Frames, Places, WireNext
  PROVE  Places'
<1>1. sender \in [Ends -> SenderPlaces]
  BY DEF Inv, TypeOK, SenderPlaces
<1>2. ASSUME NEW e \in Ends, sender' \in {sender, Notified(e)}, UNCHANGED <<caller, conn, socket>>,
             dead \subseteq dead'
      PROVE  Places'
  <2>1. \A d \in Ends : /\ sender'[d] = "processing" <=> sender[d] = "processing"
                        /\ sender'[d] = "taken" <=> sender[d] = "taken"
    BY <1>1, <1>2, NotifiedPlaces
  <2> QED BY <1>2, <2>1 DEF Places, Place
<1>3. ASSUME NEW k \in Connections, Break(k)
      PROVE  Places'
  BY <1>3 DEF Break, bufferVars, Places, Place
<1>4. ASSUME NEW e \in Ends, Put(e) /\ UNCHANGED wireVars
      PROVE  Places'
  BY <1>2, <1>4 DEF Put, wireVars
<1>5. ASSUME NEW e \in Ends, BeginTermination(e) \/ TerminatingThread(e)
      PROVE  Places'
  BY <1>2, <1>5 DEF BeginTermination, TerminatingThread, StopBuffer, BufferStopped, CloseSocket,
     Join, Terminate0, Cleanup0, bufferVars, wireVars
<1> QED BY <1>3, <1>4, <1>5, SenderThreadPlaces, ConnectionThreadPlaces DEF WireNext

----------------------------------------------------------------------------
\* The types that the next lemmas need.
LEMMA NumbersAreNatural ==
  ASSUME Inv, WireTypes
  PROVE  /\ \A d \in Ends : /\ MaxSent(d) \in Nat /\ socket[d] \in Nat /\ received[d] \in Nat
                            /\ Peer(d) \in Ends
         /\ \A k \in Connections, d \in Ends : net[k][d] \in Seq(Frame)
         /\ \A k \in Connections : k \in Nat \ {0}
         /\ \A d \in Ends : socket[d] # 0 => socket[d] \in Connections
<1>1. ASSUME NEW d \in Ends
      PROVE  /\ MaxSent(d) \in Nat /\ socket[d] \in Nat /\ received[d] \in Nat /\ Peer(d) \in Ends
             /\ socket[d] # 0 => socket[d] \in Connections
  BY SMTT(30), OneEnd, Members, PeerIs, WireAssumption
     DEF WireAssumption, MaxSent, WireTypes, Connections
<1>2. \A k \in Connections, d \in Ends : net[k][d] \in Seq(Frame)
  BY DEF WireTypes, Nets
<1> QED BY <1>1, <1>2, WireAssumption DEF WireAssumption, Connections

\* The greatest number given is one of the numbers.
LEMMA SameMax ==
  ASSUME SameNumbers
  PROVE  \A d \in Ends : MaxSent(d)' = MaxSent(d)
BY DEF SameNumbers, Numbers, MaxSent

\* Frames stay as they are,
LEMMA FramesStay ==
  ASSUME Inv, WireTypes, Frames, net' = net, received' = received,
         \A d \in Ends : socket[d] <= socket'[d] /\ socket'[d] \in Nat,
         \A d \in Ends : MaxSent(d) <= MaxSent(d)' /\ MaxSent(d)' \in Nat
  PROVE  Frames'
<1>1. ASSUME NEW k \in Connections, NEW e \in Ends
      PROVE  /\ Stream(net'[k][e], MaxSent(e)', MaxSent(Peer(e))')
             /\ socket'[e] < k => net'[k][e] = <<>>
  <2>1. Stream(net[k][e], MaxSent(e), MaxSent(Peer(e))) /\ (socket[e] < k => net[k][e] = <<>>)
    BY DEF Frames
  <2>2. Stream(net[k][e], MaxSent(e)', MaxSent(Peer(e))')
    BY <2>1, NumbersAreNatural, StreamMore
  <2> QED BY <2>1, <2>2, NumbersAreNatural
<1>2. ASSUME NEW e \in Ends
      PROVE  received'[e] <= MaxSent(Peer(e))'
  <2>1. received[e] <= MaxSent(Peer(e))
    BY DEF Frames
  <2> QED BY <2>1, NumbersAreNatural
<1> QED BY <1>1, <1>2 DEF Frames

\* get another genuine one at their end,
LEMMA FramesSent ==
  ASSUME Inv, WireTypes, Frames, NEW e \in Ends, socket[e] # 0, HasRoom(e), NEW f \in Frame,
         net' = Sent(e, f), Genuine(f, MaxSent(e)', MaxSent(Peer(e))'),
         received' = received, socket' = socket,
         \A d \in Ends : MaxSent(d) <= MaxSent(d)' /\ MaxSent(d)' \in Nat
  PROVE  Frames'
<1>1. ASSUME NEW k \in Connections, NEW d \in Ends
      PROVE  /\ Stream(net'[k][d], MaxSent(d)', MaxSent(Peer(d))')
             /\ socket'[d] < k => net'[k][d] = <<>>
  <2>1. Stream(net[k][d], MaxSent(d), MaxSent(Peer(d))) /\ (socket[d] < k => net[k][d] = <<>>)
    BY DEF Frames
  <2>2. Stream(net[k][d], MaxSent(d)', MaxSent(Peer(d))')
    BY <2>1, NumbersAreNatural, StreamMore
  <2>3. CASE net'[k][d] = net[k][d]
    BY <2>1, <2>2, <2>3
  <2>4. CASE net'[k][d] # net[k][d]
    <3>1. k = socket[e] /\ d = e /\ socket[e] \notin dead /\ net'[k][d] = Append(net[k][d], f)
      BY ZenonT(30), <2>4, SentNet
    <3>2. Len(net[k][d]) < Capacity
      BY <3>1 DEF HasRoom
    <3>3. Stream(Append(net[k][d], f), MaxSent(d)', MaxSent(Peer(d))')
      BY <2>2, <3>1, <3>2, NumbersAreNatural, StreamAppend
    <3> QED BY <3>1, <3>3, NumbersAreNatural
  <2> QED BY <2>3, <2>4
<1>2. ASSUME NEW d \in Ends
      PROVE  received'[d] <= MaxSent(Peer(d))'
  <2>1. received[d] <= MaxSent(Peer(d))
    BY DEF Frames
  <2>2. received[d] \in Nat /\ MaxSent(Peer(d)) \in Nat /\ Peer(d) \in Ends
    BY NumbersAreNatural
  <2>3. MaxSent(Peer(d)) <= MaxSent(Peer(d))' /\ MaxSent(Peer(d))' \in Nat
    BY <2>2
  <2> QED BY <2>1, <2>2, <2>3
<1> QED BY <1>1, <1>2 DEF Frames

\* The two lines of a connection when an end has read from it.
LEMMA LinesRead ==
  ASSUME Inv, WireTypes, Frames, Places, NEW e \in Ends, ReceivePackage(e) \/ ReceiveAck(e),
         NEW k, k = socket[e], NEW p, p = Peer(e)
  PROVE  /\ k \in Connections /\ p \in Ends /\ p # e /\ Peer(p) = e
         /\ \A d \in Ends : d = e \/ d = p
         /\ Arrived(e) = net[k][p] /\ net[k][p] # <<>> /\ net'[k][p] = Tail(net[k][p])
         /\ \/ net'[k][e] = net[k][e]
            \/ /\ net'[k][e] = Append(net[k][e], Ack(Head(net[k][p]).seqn)) /\ ReceivePackage(e)
               /\ k \notin dead
         /\ \A j \in Connections, d \in Ends : j # k => net'[j][d] = net[j][d]
<1>1. k \in Connections /\ p \in Ends /\ p # e /\ Peer(p) = e /\ \A d \in Ends : d = e \/ d = p
  BY PackageArrives, AckArrives, NumbersAreNatural, PeerIs
<1>2. CASE ReceiveAck(e)
  <2>1. socket[e] # 0 /\ Arrived(e) # <<>> /\ net' = Rest(e)
    BY SMTT(30), <1>2, AckArrives
  <2> QED BY <1>1, <2>1, RestNet DEF Arrived
<1>3. CASE ReceivePackage(e)
  <2>1. /\ socket[e] # 0 /\ Arrived(e) # <<>> /\ net' = Reply(e, Head(Arrived(e)).seqn)
        /\ Head(Arrived(e)).seqn \in 1 .. MaxSent(Peer(e))
    BY <1>3, PackageArrives
  <2>2. PICK n \in Nat : n = Head(Arrived(e)).seqn
    BY <2>1
  <2> QED BY ZenonT(30), <1>1, <1>3, <2>1, <2>2, AcknowledgedNet DEF Arrived
<1> QED BY <1>2, <1>3

\* and are read from their beginning.
LEMMA FramesRead ==
  ASSUME Inv, WireTypes, Frames, Places, NEW e \in Ends, ReceivePackage(e) \/ ReceiveAck(e)
  PROVE  Frames'
<1> DEFINE k == socket[e]
           p == Peer(e)
<1>1. k \in Connections /\ p \in Ends /\ p # e /\ Peer(p) = e /\ \A d \in Ends : d = e \/ d = p
  BY LinesRead
<1>2. /\ net'[k][p] = Tail(net[k][p]) /\ net[k][p] # <<>>
      /\ \/ net'[k][e] = net[k][e]
         \/ /\ net'[k][e] = Append(net[k][e], Ack(Head(net[k][p]).seqn)) /\ ReceivePackage(e)
            /\ k \notin dead
      /\ \A j \in Connections, d \in Ends : j # k => net'[j][d] = net[j][d]
  BY LinesRead
<1>3. /\ \A d \in Ends : MaxSent(d)' = MaxSent(d)
      /\ UNCHANGED socket
  <2>1. CASE ReceiveAck(e)
    <3>1. /\ Acknowledge(e, Head(Arrived(e)).seqn) /\ UNCHANGED socket
          /\ Head(Arrived(e)).seqn \in 1 .. MaxSent(e)
      BY <2>1, AckArrives
    <3> QED BY <3>1, AcknowledgeNumbers
  <2>2. CASE ReceivePackage(e)
    BY <2>2 DEF ReceivePackage, bufferVars, MaxSent
  <2> QED BY <2>1, <2>2
<1>4. Stream(net'[k][p], MaxSent(p), MaxSent(e))
  <2>1. Stream(net[k][p], MaxSent(p), MaxSent(e))
    BY <1>1 DEF Frames
  <2> QED BY <1>1, <1>2, <2>1, NumbersAreNatural, StreamTail
<1>5. Stream(net'[k][e], MaxSent(e), MaxSent(p))
  <2>1. Stream(net[k][e], MaxSent(e), MaxSent(p))
    BY <1>1 DEF Frames
  <2>2. ASSUME ReceivePackage(e), k \notin dead,
               net'[k][e] = Append(net[k][e], Ack(Head(net[k][p]).seqn))
        PROVE  Stream(net'[k][e], MaxSent(e), MaxSent(p))
    <3>1. Head(net[k][p]).seqn \in 1 .. MaxSent(p) /\ HasRoom(e)
      BY <2>2, PackageArrives DEF Arrived
    <3>2. PICK n \in Nat : n = Head(net[k][p]).seqn
      BY <3>1
    <3>3. Ack(n) \in Frame /\ Genuine(Ack(n), MaxSent(e), MaxSent(p))
      BY <3>1, <3>2, FrameSorts DEF Genuine
    <3>4. Len(net[k][e]) < Capacity
      BY <2>2, <3>1 DEF HasRoom
    <3> QED BY SMTT(30), <1>1, <2>1, <2>2, <3>2, <3>3, <3>4, NumbersAreNatural, StreamAppend
  <2> QED BY <1>2, <2>1, <2>2
<1>6. ASSUME NEW j \in Connections, NEW d \in Ends
      PROVE  /\ Stream(net'[j][d], MaxSent(d)', MaxSent(Peer(d))')
             /\ socket'[d] < j => net'[j][d] = <<>>
  <2>1. Stream(net[j][d], MaxSent(d), MaxSent(Peer(d))) /\ (socket[d] < j => net[j][d] = <<>>)
    BY DEF Frames
  <2>2. CASE j # k
    BY <1>1, <1>2, <1>3, <2>1, <2>2
  <2>3. CASE j = k /\ d = e
    <3>1. ~(socket[e] < k)
      BY NumbersAreNatural
    <3> QED BY <1>1, <1>3, <1>5, <2>3, <3>1
  <2>4. CASE j = k /\ d = p
    <3>1. ~(socket[p] < k)
      BY <1>1, <1>2 DEF Frames
    <3> QED BY <1>1, <1>3, <1>4, <2>4, <3>1
  <2> QED BY <1>1, <2>2, <2>3, <2>4
<1>7. ASSUME NEW d \in Ends
      PROVE  received'[d] <= MaxSent(Peer(d))'
  <2>1. received[d] <= MaxSent(Peer(d)) /\ Peer(d) \in Ends
    BY NumbersAreNatural DEF Frames
  <2>2. CASE received'[d] = received[d]
    BY <1>3, <2>1, <2>2
  <2>3. CASE received'[d] # received[d]
    <3>1. ReceivePackage(e)
      BY <2>3 DEF ReceiveAck
    <3>2. /\ received' = [received EXCEPT ![e] = Head(Arrived(e)).seqn]
          /\ Head(Arrived(e)).seqn \in 1 .. MaxSent(p)
      BY <2>3, <3>1, PackageArrives
    <3>3. d = e /\ received'[d] = Head(Arrived(e)).seqn
      BY <2>3, <3>2 DEF WireTypes
    <3> QED BY <1>1, <1>3, <3>2, <3>3
  <2> QED BY <2>2, <2>3
<1> QED BY <1>6, <1>7 DEF Frames

\* All steps keep the frames on the way genuine.
LEMMA FramesStep ==
  ASSUME Inv, WireTypes, Frames, Places, WireNext
  PROVE  Frames'
<1>1. ASSUME net' = net, received' = received, \A d \in Ends : MaxSent(d)' = MaxSent(d),
             socket' = socket
      PROVE  Frames'
  BY <1>1, FramesStay, NumbersAreNatural
<1>2. ASSUME NEW e \in Ends, (Put(e) \/ WakeUp(e)) /\ UNCHANGED wireVars
      PROVE  Frames'
  BY <1>1, <1>2, PutNumbers, ThreadNumbers, SameMax DEF wireVars
<1>3. ASSUME NEW e \in Ends, SenderThread(e)
      PROVE  Frames'
  <2>1. CASE ThreadProc(e) /\ UNCHANGED wireVars
    BY <1>1, <2>1, ThreadNumbers, SameMax DEF wireVars
  <2>2. CASE SendNew(e)
    <3>1. received' = received /\ socket' = socket
      BY <2>2 DEF SendNew
    <3>2. CASE net' = net /\ SameNumbers
      BY <1>1, <3>1, <3>2, SameMax
    <3>3. CASE /\ HasRoom(e)
               /\ net' = Sent(e, Package(MaxSent(e) + 1, MaxSent(e) + 1))
               /\ MaxSent(e)' = MaxSent(e) + 1
               /\ \A d \in Ends \ {e} : Numbers(buffer'[d]) = Numbers(buffer[d])
      <4>1. PICK n \in Nat : n = MaxSent(e) + 1 /\ MaxSent(e) \in Nat
        BY NumbersAreNatural
      <4>2. \A d \in Ends : MaxSent(d) <= MaxSent(d)' /\ MaxSent(d)' \in Nat
        BY <3>3, <4>1, NumbersAreNatural DEF MaxSent, Numbers
      <4>3. Package(n, n) \in Frame /\ Genuine(Package(n, n), MaxSent(e)', MaxSent(Peer(e))')
        BY <3>3, <4>1, FrameSorts DEF Genuine
      <4> QED BY <2>2, <3>1, <3>3, <4>1, <4>2, <4>3, SendersFrame, FramesSent
    <3> QED BY <2>2, <3>2, <3>3, SendNewSends
  <2> QED BY <1>3, <2>1, <2>2 DEF SenderThread
<1>4. ASSUME NEW e \in Ends, ConnectionThread(e)
      PROVE  Frames'
  <2>1. CASE Connect(e)
    <3>1. \A d \in Ends : socket[d] <= socket'[d] /\ socket'[d] \in Nat
      <4>1. /\ socket' = [socket EXCEPT ![e] = socket[e] + 1]
            /\ socket \in [Ends -> 0 .. MaxConnections]
        BY <2>1 DEF Connect, WireTypes
      <4>2. \A d \in Ends : socket[d] \in Nat
        BY NumbersAreNatural
      <4>3. \A d \in Ends : socket'[d] = IF d = e THEN socket[d] + 1 ELSE socket[d]
        BY <4>1
      <4> QED BY <4>2, <4>3
    <3>2. net' = net /\ received' = received /\ UNCHANGED buffer
      BY <2>1 DEF Connect, bufferVars
    <3>3. \A d \in Ends : MaxSent(d)' = MaxSent(d)
      BY <3>2 DEF MaxSent
    <3> QED BY <3>1, <3>2, <3>3, FramesStay, NumbersAreNatural
  <2>2. CASE Resume(e) \/ PauseDisconnected(e) \/ ResumeOrPause(e)
    <3>1. \A d \in Ends : MaxSent(d)' = MaxSent(d)
      BY <2>2, ResumeNumbers, BalanceNumbers, SameMax DEF Resume, PauseDisconnected, ResumeOrPause
    <3> QED BY <1>1, <2>2, <3>1 DEF Resume, PauseDisconnected, ResumeOrPause, wireVars
  <2>3. CASE Resend(e)
    <3>1. received' = received /\ socket' = socket
      BY <2>3 DEF Resend
    <3>2. CASE net' = net /\ SameNumbers
      BY <1>1, <3>1, <3>2, SameMax
    <3>3. CASE /\ HasRoom(e) /\ ResentSeqn(e) \in 1 .. MaxSent(e)
               /\ net' = Sent(e, Package(ResentSeqn(e), ResentSeqn(e)))
               /\ UNCHANGED buffer
      <4>1. PICK n \in Nat : n = ResentSeqn(e) /\ MaxSent(e) \in Nat
        BY <3>3, NumbersAreNatural
      <4>2. \A d \in Ends : MaxSent(d)' = MaxSent(d) /\ MaxSent(d) \in Nat
        BY <3>3, NumbersAreNatural DEF MaxSent
      <4>3. Package(n, n) \in Frame /\ Genuine(Package(n, n), MaxSent(e)', MaxSent(Peer(e))')
        BY <3>3, <4>1, <4>2, FrameSorts DEF Genuine
      <4> QED BY <2>3, <3>1, <3>3, <4>1, <4>2, <4>3, SendersFrame, FramesSent
    <3> QED BY <2>3, <3>2, <3>3, ResendSends
  <2>4. CASE ReceivePackage(e) \/ ReceiveAck(e)
    BY <2>4, FramesRead
  <2>5. CASE GoOn(e) \/ Expire(e) \/ FailToConnect(e) \/ HangUp(e) \/ Shutdown(e)
    BY <1>1, <2>5 DEF GoOn, Expire, FailToConnect, HangUp, Shutdown, bufferVars, MaxSent
  <2> QED BY <1>4, <2>1, <2>2, <2>3, <2>4, <2>5 DEF ConnectionThread
<1>5. ASSUME NEW e \in Ends, BeginTermination(e) \/ TerminatingThread(e)
      PROVE  Frames'
  <2>1. CASE BeginTermination(e) \/ CloseSocket(e) \/ Join(e)
    BY <1>1, <2>1 DEF BeginTermination, CloseSocket, Join, bufferVars, MaxSent
  <2>2. CASE StopBuffer(e) \/ BufferStopped(e)
    BY <1>1, <2>2, StateNumbers, SameMax DEF StopBuffer, BufferStopped, wireVars
  <2> QED BY <1>5, <2>1, <2>2 DEF TerminatingThread
<1>6. ASSUME NEW k \in Connections, Break(k)
      PROVE  Frames'
  BY <1>1, <1>6 DEF Break, bufferVars, MaxSent
<1> QED BY <1>2, <1>3, <1>4, <1>5, <1>6 DEF WireNext

----------------------------------------------------------------------------
\* The buffers of the wires are sent buffers: their acknowledgements are genuine.
LEMMA BuffersStep ==
  ASSUME Inv, WireTypes, Frames, Places, WireNext
  PROVE  Inv'
<1>1. ASSUME UNCHANGED bufferVars
      PROVE  Inv'
  <2>1. TypeOK'
    BY <1>1 DEF Inv, TypeOK, bufferVars
  <2>2. EveryPutIsKept'
    BY <1>1 DEF Inv, EveryPutIsKept, bufferVars
  <2> QED BY <2>1, <2>2 DEF Inv
<1>2. ASSUME NEW e \in Ends, SenderThread(e)
      PROVE  Inv'
  BY <1>2, ThreadStep, ProcessStep DEF SenderThread, SendNew
<1>3. ASSUME NEW e \in Ends, ReceiveAck(e)
      PROVE  Inv'
  <2>1. Acknowledge(e, Head(Arrived(e)).seqn) /\ Head(Arrived(e)).seqn \in 1 .. MaxSent(e)
    BY <1>3, AckArrives
  <2>2. MaxSent(e) \in Nat
    BY NumbersAreNatural
  <2> QED BY <2>1, <2>2, AcknowledgeStep DEF MaxSent
<1>4. ASSUME NEW e \in Ends, ConnectionThread(e), ~ReceiveAck(e)
      PROVE  Inv'
  BY <1>1, <1>4, ResumeStep, PauseStep
     DEF ConnectionThread, GoOn, Expire, Connect, FailToConnect, Resume, ResumeOrPause, Resend,
         Interrupting, ReceivePackage, HangUp, PauseDisconnected, Shutdown
<1>5. ASSUME NEW e \in Ends, BeginTermination(e) \/ TerminatingThread(e)
      PROVE  Inv'
  BY <1>1, <1>5, StateStep DEF BeginTermination, TerminatingThread, StopBuffer, BufferStopped,
     CloseSocket, Join
<1>6. ASSUME NEW k \in Connections, Break(k)
      PROVE  Inv'
  BY <1>1, <1>6 DEF Break
<1> QED BY <1>2, <1>3, <1>4, <1>5, <1>6, PutStep, ThreadStep DEF WireNext

----------------------------------------------------------------------------
(***************************************************************************)
(* Streams and what their reader has got.  A stream carries n when it is   *)
(* the number of a package among its first j frames; its packages follow   *)
(* each other when none comes before another that the reader misses; its   *)
(* acknowledgements hold when the one that sent them has what they say.    *)
(***************************************************************************)
Carries(s, j, n) == \E i \in 1 .. j : s[i].kind = "package" /\ s[i].seqn = n

Follow(s, got) ==
  \A i \in 1 .. Len(s) : s[i].kind = "package" =>
    \A n \in 1 .. s[i].seqn - 1 : n \in got \/ Carries(s, i - 1, n)

AcksHold(s, got) ==
  \A i \in 1 .. Len(s) : s[i].kind = "ack" => \A n \in 1 .. s[i].seqn : n \in got

\* The packages up to a number have been read or are on their way.
There(s, upTo, got) == \A n \in 1 .. upTo : n \in got \/ Carries(s, Len(s), n)

\* Appending a frame leaves the stream before it alone.
LEMMA CarriesAppend ==
  ASSUME NEW s \in Seq(Frame), NEW f \in Frame
  PROVE  /\ Append(s, f) \in Seq(Frame) /\ Len(Append(s, f)) = Len(s) + 1 /\ Len(s) \in Nat
         /\ Append(s, f)[Len(s) + 1] = f
         /\ \A i \in 1 .. Len(s) : Append(s, f)[i] = s[i]
         /\ \A n : \A j \in 0 .. Len(s) : Carries(Append(s, f), j, n) <=> Carries(s, j, n)
         /\ \A n : Carries(s, Len(s), n) => Carries(Append(s, f), Len(s) + 1, n)
         /\ f.kind = "package" => Carries(Append(s, f), Len(s) + 1, f.seqn)
<1>1. /\ Append(s, f) \in Seq(Frame) /\ Len(Append(s, f)) = Len(s) + 1
      /\ Append(s, f)[Len(s) + 1] = f
      /\ \A i \in 1 .. Len(s) : Append(s, f)[i] = s[i]
  BY AppendProperties
<1>2. Len(s) \in Nat
  BY LenProperties
<1>3. PICK t \in Seq(Frame) : t = Append(s, f)
  BY <1>1
<1>4. \A n : \A j \in 0 .. Len(s) : Carries(t, j, n) <=> Carries(s, j, n)
  BY <1>1, <1>2, <1>3 DEF Carries
<1>5. \A n : Carries(s, Len(s), n) => Carries(t, Len(s) + 1, n)
  BY <1>1, <1>2, <1>3 DEF Carries
<1>6. f.kind = "package" => Carries(t, Len(s) + 1, f.seqn)
  BY <1>1, <1>2, <1>3 DEF Carries
<1> QED BY <1>1, <1>2, <1>3, <1>4, <1>5, <1>6

\* A package may come behind those before it,
LEMMA PackageFollows ==
  ASSUME NEW s \in Seq(Frame), NEW got, NEW f \in Frame, f.kind = "package",
         Follow(s, got), There(s, f.seqn - 1, got)
  PROVE  Follow(Append(s, f), got) /\ There(Append(s, f), f.seqn, got)
<1>1. f.seqn \in Nat
  BY DEF Frame
<1>2. ASSUME NEW i \in 1 .. Len(Append(s, f)), Append(s, f)[i].kind = "package",
             NEW n \in 1 .. Append(s, f)[i].seqn - 1
      PROVE  n \in got \/ Carries(Append(s, f), i - 1, n)
  <2>1. CASE i \in 1 .. Len(s)
    <3>1. n \in got \/ Carries(s, i - 1, n)
      BY <1>2, <2>1, CarriesAppend DEF Follow
    <3>2. i - 1 \in 0 .. Len(s)
      BY <2>1, CarriesAppend
    <3> QED BY <3>1, <3>2, CarriesAppend
  <2>2. CASE i = Len(s) + 1
    <3>1. n \in got \/ Carries(s, Len(s), n)
      BY <1>2, <2>2, CarriesAppend DEF There
    <3>2. i - 1 = Len(s) /\ Len(s) \in 0 .. Len(s)
      BY <2>2, CarriesAppend
    <3> QED BY <3>1, <3>2, CarriesAppend
  <2> QED BY <2>1, <2>2, CarriesAppend
<1>3. ASSUME NEW n \in 1 .. f.seqn
      PROVE  n \in got \/ Carries(Append(s, f), Len(Append(s, f)), n)
  <2>1. CASE n = f.seqn
    BY <2>1, CarriesAppend
  <2>2. CASE n \in 1 .. f.seqn - 1
    BY <2>2, CarriesAppend DEF There
  <2> QED BY <1>1, <2>1, <2>2
<1> QED BY <1>2, <1>3 DEF Follow, There

\* and so may an acknowledgement;
LEMMA AckFollows ==
  ASSUME NEW s \in Seq(Frame), NEW got, NEW f \in Frame, f.kind = "ack", NEW upTo \in Nat
  PROVE  /\ Follow(s, got) => Follow(Append(s, f), got)
         /\ There(s, upTo, got) => There(Append(s, f), upTo, got)
<1>1. ASSUME Follow(s, got), NEW i \in 1 .. Len(Append(s, f)), Append(s, f)[i].kind = "package",
             NEW n \in 1 .. Append(s, f)[i].seqn - 1
      PROVE  n \in got \/ Carries(Append(s, f), i - 1, n)
  <2>1. i \in 1 .. Len(s)
    BY <1>1, CarriesAppend
  <2>2. n \in got \/ Carries(s, i - 1, n)
    BY <1>1, <2>1, CarriesAppend DEF Follow
  <2>3. i - 1 \in 0 .. Len(s)
    BY <2>1, CarriesAppend
  <2> QED BY <2>2, <2>3, CarriesAppend
<1>2. ASSUME There(s, upTo, got), NEW n \in 1 .. upTo
      PROVE  n \in got \/ Carries(Append(s, f), Len(Append(s, f)), n)
  BY <1>2, CarriesAppend DEF There
<1> QED BY <1>1, <1>2 DEF Follow, There

\* the acknowledgements before either go on to hold.
LEMMA AcksHoldOn ==
  ASSUME NEW s \in Seq(Frame), NEW got, NEW f \in Frame, AcksHold(s, got),
         f.kind = "ack" => \A n \in 1 .. f.seqn : n \in got
  PROVE  AcksHold(Append(s, f), got)
BY CarriesAppend DEF AcksHold

\* Who gets more misses no more,
LEMMA MoreGot ==
  ASSUME NEW s \in Seq(Frame), NEW got, NEW more, got \subseteq more, NEW upTo
  PROVE  /\ Follow(s, got) => Follow(s, more)
         /\ There(s, upTo, got) => There(s, upTo, more)
         /\ AcksHold(s, got) => AcksHold(s, more)
BY DEF Follow, There, AcksHold

\* and who reads the first frame, and keeps it, none either.
LEMMA FirstRead ==
  ASSUME NEW s \in Seq(Frame), s # <<>>, NEW got, NEW upTo \in Nat,
         Head(s).kind = "package" => Head(s).seqn \in got
  PROVE  /\ Follow(s, got) => Follow(Tail(s), got)
         /\ There(s, upTo, got) => There(Tail(s), upTo, got)
<1>1. /\ Len(s) \in Nat \ {0} /\ Head(s) = s[1] /\ Tail(s) \in Seq(Frame)
      /\ Len(Tail(s)) = Len(s) - 1 /\ \A i \in 1 .. Len(Tail(s)) : Tail(s)[i] = s[i + 1]
  BY EmptySeq, HeadTailProperties
<1>2. PICK t \in Seq(Frame) : t = Tail(s)
  BY <1>1
<1>3. ASSUME NEW j \in 0 .. Len(s) - 1, NEW n, Carries(s, j + 1, n)
      PROVE  n \in got \/ Carries(t, j, n)
  <2>1. PICK i \in 1 .. j + 1 : s[i].kind = "package" /\ s[i].seqn = n
    BY <1>3 DEF Carries
  <2>2. CASE i = 1
    BY <1>1, <2>1, <2>2
  <2>3. CASE i # 1
    <3>1. i - 1 \in 1 .. j /\ t[i - 1] = s[i]
      BY <1>1, <1>2, <2>1, <2>3
    <3> QED BY <2>1, <3>1 DEF Carries
  <2> QED BY <2>2, <2>3
<1>4. ASSUME Follow(s, got), NEW i \in 1 .. Len(t), t[i].kind = "package",
             NEW n \in 1 .. t[i].seqn - 1
      PROVE  n \in got \/ Carries(t, i - 1, n)
  <2>1. i + 1 \in 1 .. Len(s) /\ t[i] = s[i + 1] /\ i - 1 \in 0 .. Len(s) - 1
    BY <1>1, <1>2
  <2>2. n \in got \/ Carries(s, (i - 1) + 1, n)
    BY <1>4, <2>1 DEF Follow
  <2> QED BY <1>3, <2>1, <2>2
<1>5. ASSUME There(s, upTo, got), NEW n \in 1 .. upTo
      PROVE  n \in got \/ Carries(t, Len(t), n)
  <2>1. n \in got \/ Carries(s, Len(t) + 1, n)
    BY <1>1, <1>2, <1>5 DEF There
  <2>2. Len(t) \in 0 .. Len(s) - 1
    BY <1>1, <1>2
  <2> QED BY <1>3, <2>1, <2>2
<1> QED BY <1>2, <1>4, <1>5 DEF Follow, There

\* Reading leaves the acknowledgements that are not read; the first frame says what is said.
LEMMA FirstSays ==
  ASSUME NEW s \in Seq(Frame), s # <<>>, NEW got
  PROVE  /\ AcksHold(s, got) => AcksHold(Tail(s), got)
         /\ AcksHold(s, got) /\ Head(s).kind = "ack" => \A n \in 1 .. Head(s).seqn : n \in got
         /\ Follow(s, got) /\ Head(s).kind = "package" =>
              \A n \in 1 .. Head(s).seqn - 1 : n \in got
<1>1. /\ Len(s) \in Nat \ {0} /\ Head(s) = s[1]
      /\ Len(Tail(s)) = Len(s) - 1 /\ \A i \in 1 .. Len(Tail(s)) : Tail(s)[i] = s[i + 1]
  BY EmptySeq, HeadTailProperties
<1>2. ~(\E n : Carries(s, 1 - 1, n))
  BY DEF Carries
<1>3. AcksHold(s, got) => AcksHold(Tail(s), got)
  BY <1>1 DEF AcksHold
<1>4. AcksHold(s, got) /\ Head(s).kind = "ack" => \A n \in 1 .. Head(s).seqn : n \in got
  BY <1>1 DEF AcksHold
<1>5. Follow(s, got) /\ Head(s).kind = "package" => \A n \in 1 .. Head(s).seqn - 1 : n \in got
  BY <1>1, <1>2 DEF Follow
<1> QED BY <1>3, <1>4, <1>5

----------------------------------------------------------------------------
\* The number up to which e has sent its packages on its present connection.
UpTo(e) == IF caller[e] = "resending" THEN ResentSeqn(e) - 1 ELSE MaxSent(e)

\* e has sent them there, all or as far as it is with resending.
OnTheLine(e) == caller[e] \notin {"paused", "resuming"} /\ socket[e] \notin dead

\* What e has had acknowledged, and what its peer counts, the peer has got; and the packages
\* on the way, with those that are read, leave no gap.
NoGap(e) ==
  LET p == Peer(e)
  IN  /\ \A n \in 1 .. buffer[e].acknowledged_seqn : n \in Got(p)
      /\ \A n \in 1 .. received[p] : n \in Got(p)
      /\ \A m \in Got(p) : \A n \in 1 .. m : n \in Got(p)
      /\ \A k \in Connections : Follow(net[k][e], Got(p)) /\ AcksHold(net[k][p], Got(p))
      /\ OnTheLine(e) => There(net[socket[e]][e], UpTo(e), Got(p))

NoGaps == \A e \in Ends : ~early[e] => NoGap(e)

\* Steps that send, read and acknowledge nothing leave no gap.
LEMMA NoGapStays ==
  ASSUME NEW d \in Ends, NoGap(d), UNCHANGED <<net, accepted, received>>,
         buffer'[d].acknowledged_seqn = buffer[d].acknowledged_seqn,
         OnTheLine(d)' => OnTheLine(d) /\ socket'[d] = socket[d] /\ UpTo(d)' = UpTo(d)
  PROVE  NoGap(d)'
<1>1. Got(Peer(d))' = Got(Peer(d))
  BY DEF Got
<1>2. PICK g : g = Got(Peer(d))
  OBVIOUS
<1>3. OnTheLine(d)' => There(net'[socket'[d]][d], UpTo(d)', g)
  BY <1>2 DEF NoGap
<1> QED BY <1>1, <1>2, <1>3 DEF NoGap

\* In particular those that leave the lines alone, or cut one.
LEMMA NoGapsAside ==
  ASSUME NoGaps, SameNumbers, UNCHANGED <<net, accepted, received, caller, resent, conn, socket>>,
         dead \subseteq dead', \A d \in Ends : early[d] => early'[d]
  PROVE  NoGaps'
<1>1. ASSUME NEW d \in Ends, ~early'[d]
      PROVE  NoGap(d)'
  <2>1. NoGap(d)
    BY <1>1 DEF NoGaps
  <2>2. /\ buffer'[d].acknowledged_seqn = buffer[d].acknowledged_seqn
        /\ buffer'[d].current_seqn = buffer[d].current_seqn /\ MaxSent(d)' = MaxSent(d)
    BY DEF SameNumbers, Numbers, MaxSent
  <2>3. UpTo(d)' = UpTo(d)
    BY <2>2 DEF UpTo, ResentSeqn
  <2>4. OnTheLine(d)' => OnTheLine(d)
    BY DEF OnTheLine
  <2> QED BY <2>1, <2>2, <2>3, <2>4, NoGapStays
<1> QED BY <1>1 DEF NoGaps

\* A package leaves no gap when it is the next on a line that is complete so far.
LEMMA NoGapsPackage ==
  ASSUME Inv, WireTypes, Places, NoGaps, NEW e \in Ends, socket[e] # 0,
         NEW f \in Frame, f.kind = "package", net' = Sent(e, f),
         UNCHANGED <<accepted, received, conn, socket, dead, caller>>,
         \A d \in Ends : buffer'[d].acknowledged_seqn = buffer[d].acknowledged_seqn,
         \A d \in Ends \ {e} : UpTo(d)' = UpTo(d),
         f.seqn - 1 = UpTo(e), UpTo(e)' = f.seqn,
         \A d \in Ends : early[d] => early'[d],
         ~early'[e] /\ socket[e] \notin dead => OnTheLine(e)
  PROVE  NoGaps'
<1>1. /\ socket[e] \in Connections
      /\ net'[socket[e]][e] = IF socket[e] \in dead THEN net[socket[e]][e]
                              ELSE Append(net[socket[e]][e], f)
      /\ \A j \in Connections, d \in Ends : j # socket[e] \/ d # e => net'[j][d] = net[j][d]
  BY SentNet, NumbersAreNatural
<1>2. ASSUME NEW d \in Ends, ~early'[d], NEW g, g = Got(Peer(d))
      PROVE  NoGap(d)'
  <2>1. Got(Peer(d))' = g
    BY <1>2 DEF Got
  <2>2. NoGap(d) /\ Peer(d) \in Ends
    BY <1>2, PeerIs DEF NoGaps
  <2>3. ASSUME NEW k \in Connections
        PROVE  AcksHold(net'[k][Peer(d)], g)
    <3>1. AcksHold(net[k][Peer(d)], g) /\ net[k][Peer(d)] \in Seq(Frame)
      BY <1>2, <2>2, NumbersAreNatural DEF NoGap
    <3>2. AcksHold(Append(net[k][Peer(d)], f), g)
      BY <3>1, AcksHoldOn
    <3>3. net'[k][Peer(d)] \in {net[k][Peer(d)], Append(net[k][Peer(d)], f)}
      BY <1>1, <2>2
    <3> QED BY <3>1, <3>2, <3>3
  <2>4. CASE d # e \/ socket[e] \in dead
    <3>1. \A k \in Connections : net'[k][d] = net[k][d]
      BY <1>1, <2>4
    <3>2. \A k \in Connections : Follow(net'[k][d], g)
      BY <1>2, <2>2, <3>1 DEF NoGap
    <3>3. OnTheLine(d)' => OnTheLine(d) /\ d # e
      BY <2>4 DEF OnTheLine
    <3>4. OnTheLine(d)' => socket[d] \in Connections
      BY NumbersAreNatural DEF OnTheLine, Places, Place
    <3>5. OnTheLine(d)' => There(net'[socket'[d]][d], UpTo(d)', g)
      BY <1>2, <2>2, <3>1, <3>3, <3>4 DEF NoGap
    <3> QED BY <1>2, <2>1, <2>2, <2>3, <3>2, <3>5 DEF NoGap
  <2>5. CASE d = e /\ socket[e] \notin dead
    <3>1. There(net[socket[e]][e], f.seqn - 1, g)
      BY <1>2, <2>2, <2>5 DEF NoGap
    <3>2. Follow(net[socket[e]][e], g) /\ net[socket[e]][e] \in Seq(Frame)
      BY <1>1, <1>2, <2>2, <2>5, NumbersAreNatural DEF NoGap
    <3>3. /\ Follow(Append(net[socket[e]][e], f), g)
          /\ There(Append(net[socket[e]][e], f), f.seqn, g)
      BY <3>1, <3>2, PackageFollows
    <3>4. ASSUME NEW k \in Connections
          PROVE  Follow(net'[k][e], g)
      BY <1>1, <1>2, <2>2, <2>5, <3>3 DEF NoGap
    <3>5. There(net'[socket'[e]][e], UpTo(e)', g)
      BY <1>1, <2>5, <3>3
    <3> QED BY <1>2, <2>1, <2>2, <2>3, <2>5, <3>4, <3>5 DEF NoGap
  <2> QED BY <2>4, <2>5
<1> QED BY <1>2 DEF NoGaps

\* A new package comes behind all others, or it is early.
LEMMA NoGapsSent ==
  ASSUME Inv, WireTypes, Places, NoGaps, NEW e \in Ends, SendNew(e)
  PROVE  NoGaps'
<1>1. UNCHANGED <<accepted, received, conn, socket, dead>>
  BY DEF SendNew
<1>2. CASE /\ net' = net /\ SameNumbers /\ UNCHANGED <<caller, resent>>
           /\ \A d \in Ends : early'[d] <=> early[d]
  BY <1>1, <1>2, NoGapsAside
<1>3. CASE /\ net' = Sent(e, Package(MaxSent(e) + 1, MaxSent(e) + 1))
           /\ MaxSent(e)' = MaxSent(e) + 1
           /\ buffer'[e].acknowledged_seqn = buffer[e].acknowledged_seqn
           /\ \A d \in Ends \ {e} : Numbers(buffer'[d]) = Numbers(buffer[d])
           /\ UNCHANGED <<caller, resent>>
           /\ \A d \in Ends \ {e} : early'[d] <=> early[d]
           /\ early'[e] <=>
                \/ early[e]
                \/ caller[e] \in {"paused", "resuming"} /\ socket[e] \notin dead
  <2>1. PICK n \in Nat : n = MaxSent(e) + 1 /\ MaxSent(e) \in Nat
    BY NumbersAreNatural
  <2>2. Package(n, n) \in Frame /\ Package(n, n).kind = "package" /\ Package(n, n).seqn = n
    BY FrameSorts
  <2>3. UpTo(e) = n - 1 /\ UpTo(e)' = n
    <3>1. caller[e] # "resending"
      BY DEF SendNew, Process, Places, Place
    <3> QED BY <1>3, <2>1, <3>1 DEF UpTo
  <2>4. \A d \in Ends : buffer'[d].acknowledged_seqn = buffer[d].acknowledged_seqn
    BY <1>3 DEF Numbers
  <2>5. \A d \in Ends \ {e} : UpTo(d)' = UpTo(d)
    BY <1>3 DEF Numbers, UpTo, ResentSeqn, MaxSent
  <2>6. ~early'[e] /\ socket[e] \notin dead => OnTheLine(e)
    BY <1>3 DEF OnTheLine
  <2>7. socket[e] # 0 /\ \A d \in Ends : early[d] => early'[d]
    BY <1>3, SendersFrame
  <2> QED BY <1>1, <1>3, <2>1, <2>2, <2>3, <2>4, <2>5, <2>6, <2>7, NoGapsPackage
<1> QED BY <1>2, <1>3, SendNewSends

\* One end's thread of the connection moves: the other's line is only affected if it is cut.
LEMMA NoGapsMoved ==
  ASSUME NoGaps, NEW e \in Ends, UNCHANGED <<net, accepted, received, early>>, dead \subseteq dead',
         \A d \in Ends : buffer'[d].acknowledged_seqn = buffer[d].acknowledged_seqn,
         \A d \in Ends \ {e} : /\ Numbers(buffer'[d]) = Numbers(buffer[d])
                               /\ caller'[d] = caller[d] /\ conn'[d] = conn[d]
                               /\ resent'[d] = resent[d] /\ socket'[d] = socket[d],
         NoGap(e) /\ OnTheLine(e)' => There(net[socket'[e]][e], UpTo(e)', Got(Peer(e)))
  PROVE  NoGaps'
<1>1. ASSUME NEW d \in Ends, ~early'[d]
      PROVE  NoGap(d)'
  <2>1. NoGap(d)
    BY <1>1 DEF NoGaps
  <2>2. CASE d # e
    <3>1. UpTo(d)' = UpTo(d)
      BY <2>2 DEF Numbers, UpTo, ResentSeqn, MaxSent
    <3>2. OnTheLine(d)' => OnTheLine(d)
      BY <2>2 DEF OnTheLine
    <3> QED BY <2>1, <2>2, <3>1, <3>2, NoGapStays
  <2>3. CASE d = e
    <3>1. PICK g : g = Got(Peer(e))
      OBVIOUS
    <3>2. Got(Peer(e))' = g
      BY <3>1 DEF Got
    <3>3. OnTheLine(e)' => There(net'[socket'[e]][e], UpTo(e)', g)
      BY <2>1, <2>3, <3>1
    <3> QED BY <2>1, <2>3, <3>1, <3>2, <3>3 DEF NoGap
  <2> QED BY <2>2, <2>3
<1> QED BY <1>1 DEF NoGaps

\* The thread of a connection that does not send or read.
LEMMA NoGapsConnection ==
  ASSUME Inv, WireTypes, Places, NoGaps, NEW e \in Ends,
         \/ GoOn(e) \/ Expire(e) \/ Connect(e) \/ FailToConnect(e) \/ HangUp(e) \/ Shutdown(e)
         \/ Resume(e) \/ PauseDisconnected(e) \/ ResumeOrPause(e)
  PROVE  NoGaps'
<1>1. /\ caller \in [Ends -> {"paused", "resuming", "resending", "resumed", "pausing"}]
      /\ resent \in [Ends -> Nat] /\ conn \in [Ends -> ConnPlaces]
      /\ socket \in [Ends -> 0 .. MaxConnections] /\ Place(e)
  BY DEF Inv, TypeOK, WireTypes, Places
<1>2. ASSUME SameNumbers
      PROVE  \A d \in Ends : /\ Numbers(buffer'[d]) = Numbers(buffer[d])
                             /\ buffer'[d].acknowledged_seqn = buffer[d].acknowledged_seqn
  BY <1>2 DEF SameNumbers, Numbers
<1>3. ASSUME UNCHANGED bufferVars
      PROVE  \A d \in Ends : /\ Numbers(buffer'[d]) = Numbers(buffer[d])
                             /\ buffer'[d].acknowledged_seqn = buffer[d].acknowledged_seqn
                             /\ caller'[d] = caller[d] /\ resent'[d] = resent[d]
  BY <1>3 DEF bufferVars
<1>4. CASE Connect(e)
  <2>1. /\ UNCHANGED bufferVars /\ UNCHANGED <<net, accepted, received, early>> /\ caller[e] = "paused"
        /\ dead \subseteq dead' /\ \A d \in Ends \ {e} : conn'[d] = conn[d] /\ socket'[d] = socket[d]
    BY <1>1, <1>4 DEF Connect, Place
  <2>2. ~OnTheLine(e)'
    BY <2>1 DEF OnTheLine, bufferVars
  <2> QED BY <1>3, <2>1, <2>2, NoGapsMoved
<1>5. CASE GoOn(e) \/ Expire(e) \/ FailToConnect(e) \/ HangUp(e) \/ Shutdown(e)
  <2>1. /\ UNCHANGED bufferVars /\ UNCHANGED <<net, accepted, received, early, socket>>
        /\ dead \subseteq dead' /\ \A d \in Ends \ {e} : conn'[d] = conn[d]
    BY <1>1, <1>5 DEF GoOn, Expire, FailToConnect, HangUp, Shutdown
  <2>2. caller[e] = "paused" \/ socket[e] \in dead'
    BY <1>1, <1>5 DEF GoOn, Expire, FailToConnect, HangUp, Shutdown, Place
  <2>3. ~OnTheLine(e)'
    BY <2>1, <2>2 DEF OnTheLine, bufferVars
  <2> QED BY <1>3, <2>1, <2>3, NoGapsMoved
<1>6. CASE Resume(e) \/ PauseDisconnected(e) \/ (EndPause(e) /\ UNCHANGED wireVars)
  <2>1. /\ UNCHANGED <<net, accepted, received, early, dead, socket, resent, conn>>
        /\ \A d \in Ends \ {e} : caller'[d] = caller[d]
    BY <1>1, <1>6 DEF Resume, BeginResume, PauseDisconnected, BeginPause, EndPause, wireVars
  <2>2. SameNumbers
    BY <1>6, BalanceNumbers DEF Resume, PauseDisconnected
  <2>3. caller'[e] \in {"paused", "resuming"} \/ socket[e] \in dead
    BY <1>1, <1>6 DEF Resume, BeginResume, PauseDisconnected, EndPause, Place
  <2>4. ~OnTheLine(e)'
    BY <2>1, <2>3 DEF OnTheLine
  <2> QED BY <1>2, <2>1, <2>2, <2>4, NoGapsMoved
<1>7. CASE BeginReprocess(e) /\ UNCHANGED wireVars
  <2>1. /\ UNCHANGED <<net, accepted, received, early, dead, conn, socket>>
        /\ caller'[e] = "resending" /\ resent'[e] = 0
        /\ \A d \in Ends \ {e} : caller'[d] = caller[d] /\ resent'[d] = resent[d]
    BY <1>1, <1>7 DEF BeginReprocess, wireVars
  <2>2. /\ \A d \in Ends : buffer'[d].acknowledged_seqn = buffer[d].acknowledged_seqn
        /\ \A d \in Ends \ {e} : Numbers(buffer'[d]) = Numbers(buffer[d])
        /\ buffer'[e].current_seqn = buffer[e].acknowledged_seqn + 1
    BY <1>7, ResumeNumbers
  <2>3. UpTo(e)' = buffer[e].acknowledged_seqn
    <3>1. buffer[e].acknowledged_seqn \in Nat
      BY OneEnd, Members
    <3> QED BY <2>1, <2>2, <3>1 DEF UpTo, ResentSeqn
  <2>4. NoGap(e) => There(net[socket'[e]][e], UpTo(e)', Got(Peer(e)))
    BY <2>3 DEF NoGap, There
  <2> QED BY <2>1, <2>2, <2>4, NoGapsMoved
<1>8. CASE EndResume(e) /\ UNCHANGED wireVars
  <2>1. /\ caller[e] = "resending" /\ resent[e] = Len(buffer[e].pending_queue)
        /\ caller'[e] = "resumed"
        /\ UNCHANGED <<net, accepted, received, early, dead, conn, socket, resent>>
        /\ \A d \in Ends \ {e} : caller'[d] = caller[d]
    BY <1>1, <1>8 DEF EndResume, wireVars
  <2>2. SameNumbers
    BY <1>8, BalanceNumbers
  <2>3. UpTo(e)' = UpTo(e)
    <3>1. Len(buffer[e].pending_queue) = MaxSent(e) + 1 - buffer[e].current_seqn
      BY DEF Inv, EveryPutIsKept, Holds, MaxSent
    <3>2. MaxSent(e) \in Nat /\ buffer[e].current_seqn \in Nat
      BY OneEnd, Members DEF MaxSent
    <3>3. MaxSent(e)' = MaxSent(e)
      BY <2>2, SameMax
    <3> QED BY <2>1, <3>1, <3>2, <3>3 DEF UpTo, ResentSeqn
  <2>4. OnTheLine(e)' => OnTheLine(e)
    BY <2>1 DEF OnTheLine
  <2>5. NoGap(e) /\ OnTheLine(e)' => There(net[socket'[e]][e], UpTo(e)', Got(Peer(e)))
    BY <2>1, <2>3, <2>4 DEF NoGap
  <2> QED BY <1>2, <2>1, <2>2, <2>5, NoGapsMoved
<1> QED BY <1>4, <1>5, <1>6, <1>7, <1>8 DEF ResumeOrPause

\* A package that is sent again comes behind those that were before it.
LEMMA NoGapsResent ==
  ASSUME Inv, WireTypes, Places, NoGaps, NEW e \in Ends, Resend(e)
  PROVE  NoGaps'
<1>1. UNCHANGED <<accepted, received, early, conn, socket, dead>> /\ caller[e] = "resending"
  BY DEF Resend, Reprocess
<1>2. /\ caller \in [Ends -> {"paused", "resuming", "resending", "resumed", "pausing"}] /\ resent \in [Ends -> Nat]
  BY DEF Inv, TypeOK
<1>3. CASE /\ net' = net /\ SameNumbers /\ socket[e] \in dead
           /\ caller' = [caller EXCEPT ![e] = "resumed"] /\ UNCHANGED resent
  <2>1. ~OnTheLine(e)'
    BY <1>1, <1>3 DEF OnTheLine
  <2>2. \A d \in Ends \ {e} : caller'[d] = caller[d]
    BY <1>2, <1>3
  <2>3. \A d \in Ends : /\ Numbers(buffer'[d]) = Numbers(buffer[d])
                        /\ buffer'[d].acknowledged_seqn = buffer[d].acknowledged_seqn
    BY <1>3 DEF SameNumbers, Numbers
  <2> QED BY <1>1, <1>3, <2>1, <2>2, <2>3, NoGapsMoved
<1>4. CASE /\ ResentSeqn(e) \in 1 .. MaxSent(e)
           /\ net' = Sent(e, Package(ResentSeqn(e), ResentSeqn(e)))
           /\ resent' = [resent EXCEPT ![e] = @ + 1]
           /\ UNCHANGED <<buffer, caller>>
  <2>1. PICK n \in Nat : n = ResentSeqn(e)
    BY <1>4
  <2>2. Package(n, n) \in Frame /\ Package(n, n).kind = "package" /\ Package(n, n).seqn = n
    BY FrameSorts
  <2>3. UpTo(e) = n - 1 /\ UpTo(e)' = n
    <3>1. resent'[e] = resent[e] + 1 /\ resent[e] \in Nat
      BY <1>2, <1>4
    <3>2. buffer[e].current_seqn \in Nat
      BY OneEnd, Members
    <3> QED BY <1>1, <1>4, <2>1, <3>1, <3>2 DEF UpTo, ResentSeqn
  <2>4. \A d \in Ends \ {e} : UpTo(d)' = UpTo(d)
    BY <1>2, <1>4 DEF UpTo, ResentSeqn, MaxSent
  <2>5. socket[e] \notin dead => OnTheLine(e)
    BY <1>1 DEF OnTheLine
  <2>6. socket[e] # 0
    BY SendersFrame
  <2> QED BY <1>1, <1>4, <2>1, <2>2, <2>3, <2>4, <2>5, <2>6, NoGapsPackage
<1> QED BY <1>3, <1>4, ResendSends

\* How far an end is with sending is a number.
LEMMA UpToIsNatural ==
  ASSUME Inv, NEW d \in Ends
  PROVE  UpTo(d) \in Nat
<1>1. PICK c \in Nat \ {0}, r \in Nat, m \in Nat :
        c = buffer[d].current_seqn /\ r = resent[d] /\ m = buffer[d].max_sent_seqn
  BY OneEnd, Members
<1>2. UpTo(d) = IF caller[d] = "resending" THEN (c + r) - 1 ELSE m
  BY <1>1 DEF UpTo, ResentSeqn, MaxSent
<1> QED BY <1>1, <1>2

\* A line that is read from goes on without a gap, when the reader keeps what it reads.
LEMMA LineReadOn ==
  ASSUME Inv, WireTypes, Frames, Places, NEW e \in Ends, ReceivePackage(e) \/ ReceiveAck(e),
         NEW p \in Ends, p = Peer(e), NoGap(p), NEW g, Got(e) \subseteq g,
         Head(Arrived(e)).kind = "package" => Head(Arrived(e)).seqn \in g
  PROVE  /\ \A j \in Connections : Follow(net'[j][p], g)
         /\ OnTheLine(p) => There(net'[socket[p]][p], UpTo(p), g)
<1> DEFINE k == socket[e]
           s == net[k][p]
<1>1. /\ k \in Connections /\ Peer(p) = e /\ Arrived(e) = s /\ s # <<>> /\ net'[k][p] = Tail(s)
      /\ \A j \in Connections : j # k => net'[j][p] = net[j][p]
  BY LinesRead
<1>2. s \in Seq(Frame)
  BY <1>1, NumbersAreNatural
<1>3. UpTo(p) \in Nat /\ (OnTheLine(p) => socket[p] \in Connections)
  BY UpToIsNatural, NumbersAreNatural DEF OnTheLine, Places, Place
<1> HIDE DEF k, s
<1>4. \A j \in Connections : Follow(net[j][p], g)
  BY <1>1, MoreGot, NumbersAreNatural DEF NoGap
<1>5. Follow(Tail(s), g)
  BY <1>1, <1>2, <1>3, <1>4, FirstRead DEF s
<1>6. \A j \in Connections : Follow(net'[j][p], g)
  BY <1>1, <1>4, <1>5
<1>7. ASSUME OnTheLine(p)
      PROVE  There(net'[socket[p]][p], UpTo(p), g)
  <2>1. There(net[socket[p]][p], UpTo(p), g)
    BY <1>1, <1>3, <1>7, MoreGot, NumbersAreNatural DEF NoGap
  <2>2. CASE socket[p] = k
    <3>1. PICK u \in Nat : u = UpTo(p)
      BY <1>3
    <3>2. There(s, u, g)
      BY <2>1, <2>2, <3>1 DEF s
    <3>3. There(Tail(s), u, g)
      BY <1>1, <1>2, <3>2, FirstRead
    <3> QED BY <1>1, <2>2, <3>1, <3>3
  <2>3. CASE socket[p] # k
    BY <1>1, <1>3, <1>7, <2>1, <2>3
  <2> QED BY <2>2, <2>3
<1> QED BY <1>6, <1>7

\* What is read may have been missing; what is said to have arrived has.
LEMMA NoGapsAcked ==
  ASSUME Inv, WireTypes, Frames, Places, NoGaps, NEW e \in Ends, ReceiveAck(e)
  PROVE  NoGaps'
<1> DEFINE k == socket[e]
           p == Peer(e)
           s == net[k][p]
<1>1. /\ k \in Connections /\ p \in Ends /\ p # e /\ Peer(p) = e /\ \A d \in Ends : d = e \/ d = p
      /\ Arrived(e) = s /\ s # <<>> /\ net'[k][p] = Tail(s)
      /\ \A j \in Connections, d \in Ends : j # k => net'[j][d] = net[j][d]
  BY LinesRead
<1>2. net'[k][e] = net[k][e]
  <2>1. ~ReceivePackage(e)
    BY AckArrives, PackageArrives
  <2> QED BY <2>1, LinesRead
<1>3. s \in Seq(Frame)
  BY <1>1, NumbersAreNatural
<1>4. /\ Head(s).kind = "ack" /\ Head(s).seqn \in 1 .. MaxSent(e) /\ Acknowledge(e, Head(s).seqn)
      /\ UNCHANGED <<socket, conn, dead, received, accepted, early>>
  BY <1>1, AckArrives
<1>5. /\ UNCHANGED <<caller, resent>>
      /\ \A d \in Ends : /\ MaxSent(d)' = MaxSent(d)
                         /\ buffer'[d].current_seqn = buffer[d].current_seqn
      /\ buffer'[e].acknowledged_seqn \in {buffer[e].acknowledged_seqn, Head(s).seqn}
      /\ buffer'[p].acknowledged_seqn = buffer[p].acknowledged_seqn
  <2>1. PICK n \in Nat : n = Head(s).seqn
    BY <1>4
  <2>2. Acknowledge(e, n)
    BY <1>4, <2>1
  <2> QED BY <1>1, <2>1, <2>2, AcknowledgeNumbers DEF Acknowledge, Numbers
<1>6. \A d \in Ends : UpTo(d)' = UpTo(d) /\ (OnTheLine(d)' <=> OnTheLine(d)) /\ MaxSent(d) \in Nat
  BY <1>4, <1>5, NumbersAreNatural DEF UpTo, ResentSeqn, OnTheLine
<1>7. \A d \in Ends : Got(d)' = Got(d)
  BY <1>4 DEF Got
<1>8. \A d \in Ends : OnTheLine(d) => socket[d] \in Connections
  BY NumbersAreNatural DEF OnTheLine, Places, Place
<1> HIDE DEF k, p, s
<1>9. ASSUME ~early[e], NEW g, g = Got(p)
      PROVE  NoGap(e)'
  <2>1. NoGap(e)
    BY <1>9 DEF NoGaps
  <2>2. AcksHold(s, g)
    BY <1>1, <1>9, <2>1 DEF NoGap, p, s
  <2>3. AcksHold(Tail(s), g) /\ \A n \in 1 .. Head(s).seqn : n \in g
    BY <1>1, <1>3, <1>4, <2>2, FirstSays
  <2>4. \A n \in 1 .. buffer'[e].acknowledged_seqn : n \in g
    BY <1>5, <1>9, <2>1, <2>3 DEF NoGap, p
  <2>5. \A j \in Connections : AcksHold(net'[j][p], g)
    BY <1>1, <1>9, <2>1, <2>3 DEF NoGap, p
  <2>6. \A j \in Connections : net'[j][e] = net[j][e]
    BY <1>1, <1>2
  <2>7. \A j \in Connections : Follow(net'[j][e], g)
    BY <1>9, <2>1, <2>6 DEF NoGap, p
  <2>8. OnTheLine(e)' => There(net'[socket'[e]][e], UpTo(e)', g)
    BY <1>4, <1>6, <1>8, <1>9, <2>1, <2>6 DEF NoGap, p
  <2> QED BY <1>1, <1>4, <1>7, <1>9, <2>1, <2>4, <2>5, <2>7, <2>8 DEF NoGap, p
<1>10. ASSUME ~early[p], NEW g, g = Got(e)
       PROVE  NoGap(p)'
  <2>1. NoGap(p)
    BY <1>1, <1>10 DEF NoGaps
  <2>2. \A j \in Connections : AcksHold(net'[j][e], g)
    <3>1. \A j \in Connections : AcksHold(net[j][e], g)
      BY <1>1, <1>10, <2>1 DEF NoGap
    <3> QED BY <1>1, <1>2, <3>1
  <2>3. /\ \A j \in Connections : Follow(net'[j][p], g)
        /\ OnTheLine(p) => There(net'[socket[p]][p], UpTo(p), g)
    <3>1. Head(Arrived(e)).kind # "package"
      BY <1>1, <1>4
    <3> QED BY <1>1, <1>10, <2>1, <3>1, LineReadOn DEF p
  <2>4. OnTheLine(p)' => There(net'[socket'[p]][p], UpTo(p)', g)
    BY <1>1, <1>4, <1>6, <2>3
  <2> QED BY <1>1, <1>4, <1>5, <1>7, <1>10, <2>1, <2>2, <2>3, <2>4 DEF NoGap
<1> QED BY <1>1, <1>4, <1>9, <1>10 DEF NoGaps

\* A package that is accepted is got, and nothing else changes at either end.
LEMMA GotRead ==
  ASSUME Inv, WireTypes, Frames, Places, NEW e \in Ends, ReceivePackage(e),
         NEW m, m = Head(Arrived(e)).seqn
  PROVE  /\ m \in Nat \ {0} /\ Got(Peer(e))' = Got(Peer(e))
         /\ \/ /\ m <= received[e] /\ UNCHANGED <<received, accepted>>
               /\ Got(e)' = Got(e)
            \/ /\ received' = [received EXCEPT ![e] = m]
               /\ accepted' = [accepted EXCEPT ![e] = Append(@, m)]
               /\ Got(e)' = Got(e) \cup {m}
<1>1. /\ m \in 1 .. MaxSent(Peer(e)) /\ MaxSent(Peer(e)) \in Nat /\ Peer(e) \in Ends /\ Peer(e) # e
      /\ accepted \in [Ends -> Seq(Nat)]
  BY PackageArrives, NumbersAreNatural, PeerIs DEF WireTypes
<1>2. CASE m <= received[e] /\ UNCHANGED <<received, accepted>>
  <2>1. Got(e)' = Got(e) /\ Got(Peer(e))' = Got(Peer(e))
    BY <1>2 DEF Got
  <2> QED BY <1>1, <1>2, <2>1
<1>3. CASE /\ received' = [received EXCEPT ![e] = m]
           /\ accepted' = [accepted EXCEPT ![e] = Append(@, m)]
  <2>1. /\ accepted'[e] = Append(accepted[e], m) /\ accepted'[Peer(e)] = accepted[Peer(e)]
        /\ accepted[e] \in Seq(Nat) /\ m \in Nat
    BY <1>1, <1>3
  <2>2. /\ Len(accepted'[e]) = Len(accepted[e]) + 1 /\ Len(accepted[e]) \in Nat
        /\ \A i \in 1 .. Len(accepted[e]) : accepted'[e][i] = accepted[e][i]
        /\ accepted'[e][Len(accepted[e]) + 1] = m
    BY <2>1, AppendProperties, LenProperties
  <2>3. Got(e)' = Got(e) \cup {m}
    BY <2>2 DEF Got
  <2>4. Got(Peer(e))' = Got(Peer(e))
    BY <2>1 DEF Got
  <2> QED BY <1>1, <1>3, <2>3, <2>4
<1> QED BY <1>2, <1>3, PackageArrives

\* A package that is read was the next, and what acknowledges it is true.
LEMMA NoGapsReceived ==
  ASSUME Inv, WireTypes, Frames, Places, NoGaps, NEW e \in Ends, ReceivePackage(e)
  PROVE  NoGaps'
<1> DEFINE k == socket[e]
           p == Peer(e)
           s == net[k][p]
<1>1. /\ k \in Connections /\ p \in Ends /\ p # e /\ Peer(p) = e /\ \A d \in Ends : d = e \/ d = p
      /\ Arrived(e) = s /\ s # <<>> /\ net'[k][p] = Tail(s)
      /\ net'[k][e] = net[k][e] \/ net'[k][e] = Append(net[k][e], Ack(Head(s).seqn))
      /\ \A j \in Connections, d \in Ends : j # k => net'[j][d] = net[j][d]
  BY LinesRead
<1>2. /\ s \in Seq(Frame) /\ \A j \in Connections : net[j][e] \in Seq(Frame)
      /\ received \in [Ends -> Nat]
      /\ \A d \in Ends : OnTheLine(d) => socket[d] \in Connections
  BY <1>1, NumbersAreNatural DEF OnTheLine, Places, Place, WireTypes
<1>3. PICK m : m = Head(s).seqn
  OBVIOUS
<1>4. /\ m \in Nat \ {0} /\ Head(s).kind = "package" /\ Got(p)' = Got(p)
      /\ UNCHANGED <<buffer, caller, resent, socket, conn, dead, early>>
      /\ \/ /\ m <= received[e] /\ UNCHANGED <<received, accepted>> /\ Got(e)' = Got(e)
         \/ /\ received' = [received EXCEPT ![e] = m]
            /\ Got(e)' = Got(e) \cup {m}
  <2>1. m = Head(Arrived(e)).seqn
    BY <1>1, <1>3
  <2>2. Head(Arrived(e)).kind = "package" /\ UNCHANGED <<bufferVars, socket, conn, dead, early>>
    BY PackageArrives
  <2>3. /\ m \in Nat \ {0} /\ Got(p)' = Got(p)
        /\ \/ m <= received[e] /\ UNCHANGED <<received, accepted>> /\ Got(e)' = Got(e)
           \/ /\ received' = [received EXCEPT ![e] = m]
              /\ Got(e)' = Got(e) \cup {m}
    BY <2>1, GotRead
  <2> QED BY <1>1, <2>2, <2>3 DEF bufferVars
<1>5. received'[p] = received[p] /\ received'[e] \in {received[e], m}
  BY <1>1, <1>2, <1>4
<1>6. /\ \A d \in Ends : UpTo(d)' = UpTo(d) /\ UpTo(d) \in Nat /\ (OnTheLine(d)' <=> OnTheLine(d))
  BY <1>1, <1>4, <1>5, UpToIsNatural DEF UpTo, ResentSeqn, OnTheLine, MaxSent
<1>7. Ack(m) \in Frame /\ Ack(m).kind = "ack" /\ Ack(m).seqn = m
  BY <1>4, FrameSorts
<1> HIDE DEF k, p, s
<1>8. ASSUME ~early[e], NEW g, g = Got(p)
      PROVE  NoGap(e)'
  <2>1. NoGap(e)
    BY <1>8 DEF NoGaps
  <2>2. \A j \in Connections : Follow(net[j][e], g) /\ AcksHold(net[j][p], g)
    BY <1>1, <1>8, <2>1 DEF NoGap, p
  <2>3. \A j \in Connections : AcksHold(net'[j][p], g)
    <3>1. AcksHold(s, g)
      BY <1>1, <2>2 DEF s
    <3>2. AcksHold(Tail(s), g)
      BY <1>1, <1>2, <3>1, FirstSays
    <3> QED BY <1>1, <2>2, <3>2
  <2>4. \A j \in Connections : Follow(net'[j][e], g)
    <3>1. Follow(Append(net[k][e], Ack(m)), g)
      BY <1>1, <1>2, <1>7, <2>2, AckFollows
    <3> QED BY <1>1, <1>3, <2>2, <3>1
  <2>5. ASSUME OnTheLine(e)
        PROVE  There(net'[k][e], UpTo(e), g)
    <3>1. PICK u \in Nat : u = UpTo(e)
      BY <1>6
    <3>2. There(net[k][e], u, g)
      BY <1>8, <2>1, <2>5, <3>1 DEF NoGap, p, k
    <3>3. There(Append(net[k][e], Ack(m)), u, g)
      BY <1>1, <1>2, <1>7, <3>2, AckFollows
    <3> QED BY <1>1, <1>3, <3>1, <3>2, <3>3
  <2>6. OnTheLine(e)' => There(net'[socket'[e]][e], UpTo(e)', g)
    BY <1>4, <1>6, <2>5 DEF k
  <2>7. /\ \A n \in 1 .. buffer[e].acknowledged_seqn : n \in g
        /\ \A n \in 1 .. received[p] : n \in g
        /\ \A i \in g : \A n \in 1 .. i : n \in g
    BY <1>8, <2>1 DEF NoGap, p
  <2> QED BY <1>4, <1>5, <1>8, <2>3, <2>4, <2>6, <2>7 DEF NoGap, p
<1>9. ASSUME ~early[p], NEW g, g = Got(e)'
      PROVE  NoGap(p)'
  <2>1. NoGap(p) /\ Got(e) \subseteq g
    BY <1>1, <1>4, <1>9 DEF NoGaps
  <2>2. /\ \A n \in 1 .. buffer[p].acknowledged_seqn : n \in Got(e)
        /\ \A n \in 1 .. received[e] : n \in Got(e)
        /\ \A i \in Got(e) : \A n \in 1 .. i : n \in Got(e)
        /\ \A j \in Connections : Follow(net[j][p], Got(e)) /\ AcksHold(net[j][e], Got(e))
    BY <1>1, <2>1 DEF NoGap
  <2>3. \A n \in 1 .. m - 1 : n \in Got(e)
    <3>1. Follow(s, Got(e))
      BY <1>1, <2>2 DEF s
    <3> QED BY <1>1, <1>2, <1>3, <1>4, <3>1, FirstSays
  <2>4. m \in g
    <3>1. received[e] \in Nat
      BY <1>2
    <3> QED BY <1>4, <1>9, <2>2, <3>1
  <2>5. \A n \in 1 .. m : n \in g
    BY <1>4, <2>1, <2>3, <2>4
  <2>6. /\ \A n \in 1 .. received'[e] : n \in g
        /\ \A i \in g : \A n \in 1 .. i : n \in g
    BY <1>4, <1>5, <1>9, <2>1, <2>2, <2>5
  <2>7. \A j \in Connections : AcksHold(net'[j][e], g)
    <3>1. \A j \in Connections : AcksHold(net[j][e], g)
      BY <1>2, <2>1, <2>2, MoreGot
    <3>2. AcksHold(Append(net[k][e], Ack(m)), g)
      BY <1>1, <1>2, <1>7, <2>5, <3>1, AcksHoldOn
    <3> QED BY <1>1, <1>3, <3>1, <3>2
  <2>8. /\ \A j \in Connections : Follow(net'[j][p], g)
        /\ OnTheLine(p) => There(net'[socket[p]][p], UpTo(p), g)
    BY <1>1, <1>3, <2>1, <2>4, LineReadOn DEF p
  <2>9. OnTheLine(p)' => There(net'[socket'[p]][p], UpTo(p)', g)
    BY <1>1, <1>4, <1>6, <2>8
  <2>10. \A n \in 1 .. buffer[p].acknowledged_seqn : n \in g
    BY <2>1, <2>2
  <2> QED BY <1>1, <1>4, <1>9, <2>6, <2>7, <2>8, <2>9, <2>10 DEF NoGap
<1> QED BY <1>1, <1>4, <1>8, <1>9 DEF NoGaps

\* No step leaves a gap on a line.
LEMMA NoGapsStep ==
  ASSUME Inv, WireTypes, Frames, Places, NoGaps, WireNext
  PROVE  NoGaps'
<1>1. ASSUME UNCHANGED wireVars, SameNumbers, UNCHANGED <<caller, resent>>
      PROVE  NoGaps'
  BY <1>1, NoGapsAside DEF wireVars
<1>2. ASSUME NEW e \in Ends, (Put(e) \/ WakeUp(e)) /\ UNCHANGED wireVars
      PROVE  NoGaps'
  BY <1>1, <1>2, PutNumbers, ThreadNumbers DEF Put, WakeUp
<1>3. ASSUME NEW e \in Ends, SenderThread(e)
      PROVE  NoGaps'
  <2>1. CASE ThreadProc(e) /\ UNCHANGED wireVars
    <3>1. UNCHANGED <<caller, resent>>
      BY <2>1 DEF ThreadProc, ReturnFromThread, Wait, TakeData, BeginProcess, EndProcess
    <3> QED BY <1>1, <2>1, <3>1, ThreadNumbers
  <2> QED BY <1>3, <2>1, NoGapsSent DEF SenderThread
<1>4. ASSUME NEW e \in Ends, ConnectionThread(e)
      PROVE  NoGaps'
  BY <1>4, NoGapsConnection, NoGapsResent, NoGapsReceived, NoGapsAcked DEF ConnectionThread
<1>5. ASSUME NEW e \in Ends, BeginTermination(e) \/ TerminatingThread(e)
      PROVE  NoGaps'
  <2>1. SameNumbers
    <3>1. CASE BeginTermination(e) \/ CloseSocket(e) \/ Join(e)
      BY <3>1 DEF BeginTermination, CloseSocket, Join, bufferVars, SameNumbers
    <3>2. CASE StopBuffer(e) \/ BufferStopped(e)
      BY <3>2, StateNumbers DEF StopBuffer, BufferStopped
    <3> QED BY <1>5, <3>1, <3>2 DEF TerminatingThread
  <2>2. /\ UNCHANGED <<net, accepted, received, caller, resent, conn, socket, early>>
        /\ dead \subseteq dead'
    BY <1>5 DEF BeginTermination, TerminatingThread, StopBuffer, BufferStopped, CloseSocket,
       Join, Terminate0, Cleanup0, bufferVars, wireVars
  <2> QED BY <2>1, <2>2, NoGapsAside
<1>6. ASSUME NEW k \in Connections, Break(k)
      PROVE  NoGaps'
  BY <1>6, NoGapsAside DEF Break, bufferVars, SameNumbers
<1> QED BY <1>2, <1>3, <1>4, <1>5, <1>6 DEF WireNext

----------------------------------------------------------------------------
(***************************************************************************)
(* As long as no end has had a second connection, what is on the way is in *)
(* order and new to its reader, for an end does not resend before it has   *)
(* sent, nor send before it has resumed.                                   *)
(***************************************************************************)
Unused(e) ==
  \/ socket[e] = 0
  \/ caller[e] \in {"resuming", "resending"}
  \/ caller[e] = "paused" /\ conn[e] = "open"

Idle(e) == Unused(e) => MaxSent(e) = 0 /\ sender[e] \notin {"taken", "processing"}

\* The packages of a stream are new to one that has got those up to last, and in order.
Fresh(s, last) ==
  \A i \in 1 .. Len(s) : s[i].kind = "package" =>
    /\ last < s[i].seqn
    /\ \A j \in 1 .. i - 1 : s[j].kind = "package" => s[j].seqn < s[i].seqn

InOrder(e) ==
  /\ inFrame[e] /\ ~early[e]
  /\ Holds(accepted[e], 1, received[e])
  /\ Fresh(net[1][e], received[Peer(e)])

First == socket[Client] <= 1 => \A e \in Ends : InOrder(e) /\ Idle(e)

\* An end that is idle stays so,
LEMMA IdleStays ==
  ASSUME NEW d \in Ends, Idle(d), MaxSent(d)' = MaxSent(d), Unused(d)' => Unused(d),
         sender'[d] \in {"taken", "processing"} => sender[d] \in {"taken", "processing"}
  PROVE  Idle(d)'
<1>1. Unused(d)' => MaxSent(d)' = 0 /\ sender'[d] \notin {"taken", "processing"}
  BY DEF Idle
<1> QED BY <1>1 DEF Idle

\* as does one to which nothing happens.
LEMMA IdleAside ==
  ASSUME NEW d \in Ends, Idle(d), MaxSent(d)' = MaxSent(d),
         sender'[d] \in {"taken", "processing"} => sender[d] \in {"taken", "processing"},
         socket'[d] = socket[d], caller'[d] = caller[d], conn'[d] = conn[d]
  PROVE  Idle(d)'
<1>1. Unused(d)' => Unused(d)
  BY DEF Unused
<1> QED BY <1>1, IdleStays

\* The sender thread of an end begins with the first resume.
LEMMA SenderThreadIdle ==
  ASSUME Inv, WireTypes, Places, \A d \in Ends : Idle(d), NEW e \in Ends,
         SenderThread(e) \/ (WakeUp(e) /\ UNCHANGED wireVars)
  PROVE  \A d \in Ends : Idle(d)'
<1>1. sender \in [Ends -> SenderPlaces] /\ Place(e)
  BY DEF Inv, TypeOK, SenderPlaces, Places
<1>2. UNCHANGED <<caller, conn, socket, dead>>
  BY DEF SenderThread, SendNew, Process, ThreadProc, ReturnFromThread, Wait, TakeData,
     BeginProcess, EndProcess, WakeUp, Notified, wireVars
<1>3. \A d \in Ends \ {e} : MaxSent(d)' = MaxSent(d)
  <2>1. CASE ThreadProc(e) \/ WakeUp(e)
    BY <2>1, ThreadNumbers, SameMax
  <2>2. CASE SendNew(e)
    BY <2>2, SendNewSends, SameMax DEF Numbers, MaxSent
  <2> QED BY <2>1, <2>2 DEF SenderThread
<1>4. \A d \in Ends \ {e} : sender'[d] = sender[d]
  BY <1>1 DEF SenderThread, SendNew, Process, ThreadProc, ReturnFromThread, Wait, TakeData,
     BeginProcess, EndProcess, WakeUp, Notified, wireVars
<1>5. ASSUME ~Unused(e)
      PROVE  Idle(e)'
  BY <1>2, <1>5 DEF Idle, Unused
<1>6. CASE SendNew(e)
  <2>1. ~Unused(e)
    BY <1>6 DEF SendNew, Process, Idle
  <2> QED BY <1>2, <1>3, <1>4, <1>5, <2>1, IdleAside
<1>7. CASE TakeData(e)
  <2>1. caller[e] = "resumed"
    BY <1>7, OneEnd DEF TakeData, NothingToDo
  <2>2. ~Unused(e)
    BY <1>1, <2>1 DEF Unused, Place
  <2> QED BY <1>2, <1>3, <1>4, <1>5, <2>2, IdleAside
<1>8. CASE (ThreadProc(e) \/ WakeUp(e)) /\ ~TakeData(e)
  <2>1. sender'[e] \in {"taken", "processing"} => sender[e] \in {"taken", "processing"}
    BY <1>1, <1>8 DEF ThreadProc, ReturnFromThread, Wait, BeginProcess, EndProcess,
       WakeUp, Notified
  <2>2. MaxSent(e)' = MaxSent(e)
    BY <1>8, ThreadNumbers, SameMax
  <2>3. Unused(e)' <=> Unused(e)
    BY <1>2 DEF Unused
  <2> QED BY <1>2, <1>3, <1>4, <2>1, <2>2, <2>3, IdleAside, IdleStays
<1> QED BY <1>6, <1>7, <1>8 DEF SenderThread

\* The thread of a first connection leaves an end idle until it has resumed.
LEMMA ConnectionThreadIdle ==
  ASSUME Inv, WireTypes, Frames, Places, \A d \in Ends : Idle(d), socket'[Client] <= 1,
         NEW e \in Ends, ConnectionThread(e)
  PROVE  \A d \in Ends : Idle(d)'
<1>1. /\ caller \in [Ends -> {"paused", "resuming", "resending", "resumed", "pausing"}]
      /\ conn \in [Ends -> ConnPlaces] /\ socket \in [Ends -> 0 .. MaxConnections]
      /\ Place(e) /\ \A d \in Ends : socket[d] \in Nat
  BY NumbersAreNatural DEF Inv, TypeOK, WireTypes, Places
<1>2. \A d \in Ends : sender'[d] \in {"taken", "processing"} => sender[d] \in {"taken", "processing"}
  <2>1. sender \in [Ends -> SenderPlaces]
    BY DEF Inv, TypeOK, SenderPlaces
  <2>2. sender' \in {sender, Notified(e)}
    BY DEF ConnectionThread, GoOn, Expire, Connect, FailToConnect, Resume, BeginResume, Resend,
       Reprocess, ResumeOrPause, BeginReprocess, EndResume, EndPause, ReceivePackage, ReceiveAck,
       Acknowledge, HangUp, PauseDisconnected, BeginPause, Shutdown, bufferVars
  <2> QED BY <2>1, <2>2, NotifiedPlaces
<1>3. ASSUME \A d \in Ends : MaxSent(d)' = MaxSent(d),
             \A d \in Ends \ {e} : /\ socket'[d] = socket[d] /\ caller'[d] = caller[d]
                                   /\ conn'[d] = conn[d],
             Unused(e)' => Unused(e)
      PROVE  \A d \in Ends : Idle(d)'
  BY <1>2, <1>3, IdleAside, IdleStays
<1>4. ASSUME UNCHANGED bufferVars
      PROVE  (\A d \in Ends : MaxSent(d)' = MaxSent(d)) /\ caller' = caller
  BY <1>4 DEF bufferVars, MaxSent
<1>5. CASE Connect(e)
  <2>1. /\ socket'[e] = socket[e] + 1 /\ UNCHANGED bufferVars
        /\ \A d \in Ends \ {e} : socket'[d] = socket[d] /\ conn'[d] = conn[d]
    BY <1>1, <1>5 DEF Connect
  <2>2. socket[e] = 0
    <3>1. CASE e = Client
      BY <1>1, <2>1, <3>1
    <3>2. CASE e # Client
      <4>1. socket[e] < socket[Client] /\ socket'[Client] = socket[Client] /\ Client \in Ends
        BY <1>5, <2>1, <3>2, WireAssumption DEF Connect, CanConnect, WireAssumption
      <4> QED BY <1>1, <4>1
    <3> QED BY <3>1, <3>2
  <2>3. Unused(e)
    BY <2>2 DEF Unused
  <2> QED BY <1>3, <1>4, <2>1, <2>3
<1>6. CASE Resume(e) \/ PauseDisconnected(e) \/ ResumeOrPause(e)
  <2>1. UNCHANGED <<conn, socket>> /\ \A d \in Ends \ {e} : caller'[d] = caller[d]
    BY <1>1, <1>6 DEF Resume, BeginResume, PauseDisconnected, BeginPause, ResumeOrPause,
       BeginReprocess, EndResume, EndPause, wireVars
  <2>2. \A d \in Ends : MaxSent(d)' = MaxSent(d)
    BY <1>6, ResumeNumbers, BalanceNumbers, SameMax DEF Resume, PauseDisconnected, ResumeOrPause
  <2>3. Unused(e)' => Unused(e)
    <3>1. CASE Resume(e)
      BY <3>1 DEF Resume, BeginResume, Unused
    <3>2. CASE BeginReprocess(e) \/ EndResume(e)
      BY <3>2 DEF BeginReprocess, EndResume, Unused
    <3>3. CASE PauseDisconnected(e) \/ EndPause(e)
      <4>1. conn[e] = "hungup" /\ caller'[e] \in {"pausing", "paused"}
        BY <1>1, <3>3 DEF PauseDisconnected, BeginPause, EndPause, Place
      <4> QED BY <2>1, <4>1 DEF Unused
    <3> QED BY <1>6, <3>1, <3>2, <3>3 DEF ResumeOrPause
  <2> QED BY <1>3, <2>1, <2>2, <2>3
<1>7. CASE Resend(e)
  <2>1. UNCHANGED <<conn, socket>> /\ \A d \in Ends \ {e} : caller'[d] = caller[d]
    BY <1>1, <1>7 DEF Resend, Reprocess
  <2>2. Unused(e)
    BY <1>7 DEF Resend, Reprocess, Unused
  <2>3. \A d \in Ends : MaxSent(d)' = MaxSent(d)
    BY <1>7, BalanceNumbers, SameMax DEF Resend
  <2> QED BY <1>3, <2>1, <2>2, <2>3
<1>8. CASE ReceivePackage(e)
  <2>1. UNCHANGED bufferVars /\ UNCHANGED <<conn, socket>>
    BY <1>8 DEF ReceivePackage
  <2>2. Unused(e)' => Unused(e)
    BY <1>4, <2>1 DEF Unused
  <2> QED BY <1>3, <1>4, <2>1, <2>2
<1>9. CASE ReceiveAck(e)
  <2>1. PICK n \in Nat : Acknowledge(e, n)
    BY <1>9, AckArrives
  <2>2. (\A d \in Ends : MaxSent(d)' = MaxSent(d)) /\ UNCHANGED <<caller, socket, conn>>
    BY <1>9, <2>1, AcknowledgeNumbers, AckArrives DEF Acknowledge
  <2>3. Unused(e)' => Unused(e)
    BY <2>2 DEF Unused
  <2> QED BY <1>3, <2>2, <2>3
<1>10. CASE GoOn(e) \/ Expire(e) \/ FailToConnect(e) \/ HangUp(e) \/ Shutdown(e)
  <2>1. /\ UNCHANGED bufferVars /\ UNCHANGED socket /\ conn'[e] # "open"
        /\ \A d \in Ends \ {e} : conn'[d] = conn[d]
    BY <1>1, <1>10 DEF GoOn, Expire, FailToConnect, HangUp, Shutdown
  <2>2. Unused(e)' => Unused(e)
    BY <1>4, <2>1 DEF Unused
  <2> QED BY <1>3, <1>4, <2>1, <2>2
<1> QED BY <1>5, <1>6, <1>7, <1>8, <1>9, <1>10 DEF ConnectionThread

\* So do the other steps.
LEMMA IdleStep ==
  ASSUME Inv, WireTypes, Frames, Places, \A d \in Ends : Idle(d), socket'[Client] <= 1, WireNext
  PROVE  \A d \in Ends : Idle(d)'
<1>1. ASSUME NEW e \in Ends, SameNumbers, sender' \in {sender, Notified(e)},
             UNCHANGED <<caller, socket, conn>>
      PROVE  \A d \in Ends : Idle(d)'
  <2>1. sender \in [Ends -> SenderPlaces]
    BY DEF Inv, TypeOK, SenderPlaces
  <2>2. \A d \in Ends :
          sender'[d] \in {"taken", "processing"} => sender[d] \in {"taken", "processing"}
    BY <1>1, <2>1, NotifiedPlaces
  <2> QED BY <1>1, <2>2, SameMax, IdleAside
<1>2. ASSUME NEW e \in Ends, Put(e) /\ UNCHANGED wireVars
      PROVE  \A d \in Ends : Idle(d)'
  BY <1>1, <1>2, PutNumbers DEF Put, wireVars
<1>3. ASSUME NEW e \in Ends, BeginTermination(e) \/ TerminatingThread(e)
      PROVE  \A d \in Ends : Idle(d)'
  <2>1. SameNumbers
    <3>1. CASE BeginTermination(e) \/ CloseSocket(e) \/ Join(e)
      BY <3>1 DEF BeginTermination, CloseSocket, Join, bufferVars, SameNumbers
    <3>2. CASE StopBuffer(e) \/ BufferStopped(e)
      BY <3>2, StateNumbers DEF StopBuffer, BufferStopped
    <3> QED BY <1>3, <3>1, <3>2 DEF TerminatingThread
  <2>2. UNCHANGED <<caller, socket, conn>> /\ sender' \in {sender, Notified(e)}
    BY <1>3 DEF BeginTermination, TerminatingThread, StopBuffer, BufferStopped, CloseSocket,
       Join, Terminate0, Cleanup0, bufferVars, wireVars
  <2> QED BY <1>1, <2>1, <2>2
<1>4. ASSUME NEW k \in Connections, Break(k)
      PROVE  \A d \in Ends : Idle(d)'
  BY <1>4, IdleAside DEF Break, bufferVars, MaxSent
<1> QED BY <1>2, <1>3, <1>4, SenderThreadIdle, ConnectionThreadIdle DEF WireNext

----------------------------------------------------------------------------
\* What is sent last and has the greatest number is fresh,
LEMMA FreshAppend ==
  ASSUME NEW s \in Seq(Frame), NEW f \in Frame, NEW last \in Nat, Fresh(s, last),
         f.kind = "package" =>
           /\ last < f.seqn
           /\ \A i \in 1 .. Len(s) : s[i].kind = "package" => s[i].seqn < f.seqn
  PROVE  Fresh(Append(s, f), last)
<1>1. PICK t : t = Append(s, f)
  OBVIOUS
<1>2. /\ Len(t) = Len(s) + 1 /\ Len(s) \in Nat /\ t[Len(s) + 1] = f
      /\ \A i \in 1 .. Len(s) : t[i] = s[i]
  BY <1>1, CarriesAppend
<1>3. ASSUME NEW i \in 1 .. Len(t), t[i].kind = "package"
      PROVE  /\ last < t[i].seqn
             /\ \A j \in 1 .. i - 1 : t[j].kind = "package" => t[j].seqn < t[i].seqn
  <2>1. CASE i = Len(s) + 1
    BY <1>2, <1>3, <2>1
  <2>2. CASE i \in 1 .. Len(s)
    <3>1. \A j \in 1 .. i - 1 : j \in 1 .. Len(s) /\ t[j] = s[j]
      BY <1>2, <2>2
    <3>2. t[i] = s[i]
      BY <1>2, <2>2
    <3> QED BY <1>3, <2>2, <3>1, <3>2 DEF Fresh
  <2> QED BY <1>2, <2>1, <2>2
<1> QED BY <1>1, <1>3 DEF Fresh

\* and what is behind the first is fresh to who has read this.
LEMMA FreshTail ==
  ASSUME NEW s \in Seq(Frame), s # <<>>, NEW last \in Nat, Fresh(s, last)
  PROVE  /\ Head(s).kind = "package" => last < Head(s).seqn /\ Fresh(Tail(s), Head(s).seqn)
         /\ Fresh(Tail(s), last)
<1>1. PICK t : t = Tail(s)
  OBVIOUS
<1>2. /\ Len(s) \in Nat \ {0} /\ Head(s) = s[1] /\ Len(t) = Len(s) - 1
      /\ \A i \in 1 .. Len(t) : t[i] = s[i + 1]
  BY <1>1, EmptySeq, HeadTailProperties
<1>3. ASSUME NEW i \in 1 .. Len(t), t[i].kind = "package"
      PROVE  /\ last < t[i].seqn
             /\ s[1].kind = "package" => s[1].seqn < t[i].seqn
             /\ \A j \in 1 .. i - 1 : t[j].kind = "package" => t[j].seqn < t[i].seqn
  <2>1. i + 1 \in 1 .. Len(s) /\ t[i] = s[i + 1] /\ 1 \in 1 .. (i + 1) - 1
    BY <1>2
  <2>2. \A j \in 1 .. i - 1 : j + 1 \in 1 .. (i + 1) - 1 /\ t[j] = s[j + 1]
    BY SMTT(30), <1>2
  <2>3. /\ last < s[i + 1].seqn
        /\ \A j \in 1 .. (i + 1) - 1 : s[j].kind = "package" => s[j].seqn < s[i + 1].seqn
    BY <1>3, <2>1 DEF Fresh
  <2> QED BY <2>1, <2>2, <2>3
<1>4. s[1].kind = "package" => last < s[1].seqn
  BY <1>2 DEF Fresh
<1> QED BY <1>1, <1>2, <1>3, <1>4 DEF Fresh

\* The end that counts to a number has got 1 to this number.
LEMMA HoldsGot ==
  ASSUME WireTypes, NEW e \in Ends, Holds(accepted[e], 1, received[e])
  PROVE  Got(e) = 1 .. received[e] /\ Len(accepted[e]) = received[e] /\ received[e] \in Nat
<1>1. accepted[e] \in Seq(Nat) /\ received[e] \in Nat
  BY DEF WireTypes
<1>2. Len(accepted[e]) = received[e] /\ \A i \in 1 .. Len(accepted[e]) : accepted[e][i] = i
  BY <1>1 DEF Holds
<1> QED BY <1>1, <1>2 DEF Got

\* On a first connection each package comes once, after the one before it.
LEMMA NextInOrder ==
  ASSUME Inv, WireTypes, Frames, Places, NoGaps, \A d \in Ends : InOrder(d),
         NEW e \in Ends, socket[e] = 1, ReceivePackage(e)
  PROVE  Head(Arrived(e)).seqn = received[e] + 1
<1> DEFINE p == Peer(e)
           s == net[1][p]
<1>1. /\ p \in Ends /\ Peer(p) = e /\ Arrived(e) = s /\ s # <<>> /\ 1 \in Connections
      /\ s \in Seq(Frame) /\ received[e] \in Nat
  BY LinesRead, NumbersAreNatural
<1>2. PICK m \in Nat \ {0} : m = Head(s).seqn
  BY <1>1, GotRead
<1>3. Head(s).kind = "package"
  BY <1>1, PackageArrives
<1> HIDE DEF p, s
<1>4. received[e] < m
  <2>1. Fresh(s, received[e])
    BY <1>1 DEF InOrder, s
  <2> QED BY <1>1, <1>2, <1>3, <2>1, FreshTail
<1>5. \A n \in 1 .. m - 1 : n \in Got(e)
  <2>1. Follow(s, Got(e))
    BY <1>1 DEF InOrder, NoGaps, NoGap, s
  <2> QED BY <1>1, <1>2, <1>3, <2>1, FirstSays
<1>6. Got(e) = 1 .. received[e]
  BY HoldsGot DEF InOrder
<1>7. m - 1 = received[e]
  <2>1. CASE m = 1
    BY <1>1, <1>4, <2>1
  <2>2. CASE m # 1
    <3>1. m - 1 \in 1 .. received[e]
      BY <1>5, <1>6, <2>2
    <3> QED BY <1>1, <1>4, <3>1
  <2> QED BY <2>1, <2>2
<1> QED BY <1>1, <1>2, <1>7

\* Reading keeps the order,
LEMMA InOrderReceived ==
  ASSUME Inv, WireTypes, Frames, Places, NoGaps, \A d \in Ends : InOrder(d),
         NEW e \in Ends, socket[e] = 1, ReceivePackage(e)
  PROVE  \A d \in Ends : InOrder(d)'
<1> DEFINE p == Peer(e)
           s == net[1][p]
<1>1. /\ p \in Ends /\ p # e /\ Peer(p) = e /\ \A d \in Ends : d = e \/ d = p
      /\ Arrived(e) = s /\ s # <<>> /\ 1 \in Connections /\ net'[1][p] = Tail(s)
      /\ net'[1][e] = net[1][e] \/ net'[1][e] = Append(net[1][e], Ack(Head(s).seqn))
  BY SMTT(30), LinesRead
<1>2. /\ s \in Seq(Frame) /\ net[1][e] \in Seq(Frame)
      /\ received \in [Ends -> Nat] /\ accepted \in [Ends -> Seq(Nat)]
  BY <1>1, NumbersAreNatural DEF WireTypes
<1>3. PICK m \in Nat : m = received[e] + 1
  BY <1>2
<1>4. Head(s).seqn = m /\ Head(s).kind = "package"
  BY <1>1, <1>3, NextInOrder, PackageArrives
<1>5. /\ received' = [received EXCEPT ![e] = m]
      /\ accepted' = [accepted EXCEPT ![e] = Append(@, m)]
      /\ UNCHANGED <<early, inFrame>>
  <2>1. ~(m <= received[e])
    BY <1>2, <1>3
  <2> QED BY <1>1, <1>4, <2>1, PackageArrives
<1> HIDE DEF p, s
<1>6. /\ received'[e] = m /\ received'[p] = received[p] /\ received[p] \in Nat
      /\ accepted'[e] = Append(accepted[e], m) /\ accepted'[p] = accepted[p]
  BY <1>1, <1>2, <1>5
<1>7. Holds(accepted'[e], 1, m)
  <2>1. PICK a \in Seq(Nat), r \in Nat : a = accepted[e] /\ r = received[e]
    BY <1>2
  <2>2. Holds(a, 1, r) /\ m = r + 1
    BY <1>3, <2>1 DEF InOrder
  <2>3. Holds(Append(a, m), 1, m)
    BY <2>2, HoldsAppend
  <2> QED BY <1>6, <2>1, <2>3
<1>8. Fresh(net'[1][p], m)
  <2>1. Fresh(s, received[e])
    BY <1>1 DEF InOrder, s
  <2> QED BY <1>1, <1>2, <1>4, <2>1, FreshTail
<1>9. Fresh(net'[1][e], received[p])
  <2>1. Fresh(net[1][e], received[p])
    BY <1>1 DEF InOrder, p
  <2>2. Ack(m) \in Frame /\ Ack(m).kind = "ack"
    BY FrameSorts
  <2>3. Fresh(Append(net[1][e], Ack(m)), received[p])
    BY <1>2, <1>6, <2>1, <2>2, FreshAppend
  <2> QED BY <1>1, <1>4, <2>1, <2>3
<1>10. InOrder(e)'
  <2>1. inFrame[e] /\ ~early[e]
    BY DEF InOrder
  <2> QED BY <1>5, <1>6, <1>7, <1>9, <2>1 DEF InOrder, p
<1>11. InOrder(p)'
  <2>1. inFrame[p] /\ ~early[p] /\ Holds(accepted[p], 1, received[p])
    BY <1>1 DEF InOrder
  <2> QED BY <1>1, <1>5, <1>6, <1>8, <2>1 DEF InOrder
<1> QED BY <1>1, <1>10, <1>11

\* of acknowledgements as well,
LEMMA InOrderAcked ==
  ASSUME Inv, WireTypes, Frames, Places, \A d \in Ends : InOrder(d),
         NEW e \in Ends, socket[e] = 1, ReceiveAck(e)
  PROVE  \A d \in Ends : InOrder(d)'
<1>1. ASSUME NEW d \in Ends
      PROVE  Fresh(net'[1][d], received[Peer(d)])
  <2>1. /\ Arrived(e) = net[1][Peer(e)] /\ net[1][Peer(e)] # <<>> /\ 1 \in Connections
        /\ net'[1][Peer(e)] = Tail(net[1][Peer(e)]) /\ (d = e \/ d = Peer(e))
        /\ ~ReceivePackage(e) => net'[1][e] = net[1][e]
    BY LinesRead
  <2>2. ~ReceivePackage(e)
    BY AckArrives, PackageArrives
  <2>3. /\ Fresh(net[1][d], received[Peer(d)]) /\ net[1][d] \in Seq(Frame)
        /\ received[Peer(d)] \in Nat
    BY <2>1, NumbersAreNatural DEF InOrder
  <2> QED BY <2>1, <2>2, <2>3, FreshTail
<1>2. UNCHANGED <<received, accepted, inFrame, early>>
  BY AckArrives
<1> QED BY <1>1, <1>2 DEF InOrder

\* and so does sending.
LEMMA InOrderSent ==
  ASSUME Inv, WireTypes, Frames, Places, \A d \in Ends : InOrder(d) /\ Idle(d),
         NEW e \in Ends, socket[e] <= 1, SendNew(e)
  PROVE  \A d \in Ends : InOrder(d)'
<1>1. sender[e] = "processing" /\ UNCHANGED <<received, accepted, inFrame>>
  BY DEF SendNew, Process
<1>2. ~Unused(e) /\ Place(e)
  BY <1>1 DEF Idle, Places
<1>3. socket[e] = 1 /\ 1 \in Connections /\ MaxSent(e) \in Nat
  BY <1>2, NumbersAreNatural DEF Unused
<1>4. CASE net' = net /\ \A d \in Ends : early'[d] <=> early[d]
  BY <1>1, <1>4 DEF InOrder
<1>5. CASE /\ net' = Sent(e, Package(MaxSent(e) + 1, MaxSent(e) + 1))
           /\ \A d \in Ends \ {e} : early'[d] <=> early[d]
           /\ early'[e] <=>
                \/ early[e]
                \/ caller[e] \in {"paused", "resuming"} /\ socket[e] \notin dead
  <2>1. ~early'[e]
    <3>1. ~early[e] /\ conn[e] \in ConnPlaces
      BY DEF InOrder, WireTypes
    <3> QED BY <1>2, <1>5, <3>1 DEF Unused, Place, ConnPlaces
  <2>2. PICK n \in Nat : n = MaxSent(e) + 1
    BY <1>3
  <2>3. Package(n, n) \in Frame /\ Package(n, n).seqn = n
    BY FrameSorts
  <2>4. PICK f \in Frame : f = Package(n, n)
    BY <2>3
  <2>5. ASSUME NEW d \in Ends
        PROVE  Fresh(net'[1][d], received[Peer(d)])
    <3>1. /\ Fresh(net[1][d], received[Peer(d)]) /\ net[1][d] \in Seq(Frame)
          /\ received[Peer(d)] \in Nat
      BY <1>3, NumbersAreNatural DEF InOrder
    <3>2. /\ net'[1][e] \in {net[1][e], Append(net[1][e], f)}
          /\ d # e => net'[1][d] = net[1][d]
      <4>1. net' = Sent(e, f) /\ socket[e] # 0
        BY <1>3, <1>5, <2>2, <2>4
      <4>2. /\ net'[socket[e]][e] \in {net[socket[e]][e], Append(net[socket[e]][e], f)}
            /\ \A c \in Ends : c # e => net'[1][c] = net[1][c]
        BY <1>3, <4>1, SentNet
      <4> QED BY <1>3, <4>2
    <3>3. CASE d = e
      <4>1. received[Peer(e)] <= MaxSent(e)
        <5>1. received[Peer(e)] <= MaxSent(Peer(Peer(e)))
          BY PeerIs DEF Frames
        <5> QED BY <5>1, PeerIs
      <4>2. received[Peer(e)] < f.seqn
        BY <1>3, <2>2, <2>3, <2>4, <3>1, <3>3, <4>1
      <4>3. \A i \in 1 .. Len(net[1][e]) :
              net[1][e][i].kind = "package" => net[1][e][i].seqn < f.seqn
        <5>1. Stream(net[1][e], MaxSent(e), MaxSent(Peer(e)))
          BY <1>3 DEF Frames
        <5> QED BY SMTT(30), <1>3, <2>2, <2>3, <2>4, <5>1 DEF Stream, Genuine
      <4>4. Fresh(Append(net[1][e], f), received[Peer(e)])
        BY <3>1, <3>3, <4>2, <4>3, FreshAppend
      <4> QED BY <3>1, <3>2, <3>3, <4>4
    <3> QED BY <3>1, <3>2, <3>3
  <2> QED BY <1>1, <1>5, <2>1, <2>5 DEF InOrder
<1> QED BY <1>4, <1>5, SendNewSends

\* All steps keep what holds of a first connection.
LEMMA FirstStep ==
  ASSUME Inv, WireTypes, Frames, Places, NoGaps, First, WireNext
  PROVE  First'
<1> SUFFICES ASSUME socket'[Client] <= 1
             PROVE  \A d \in Ends : InOrder(d)' /\ Idle(d)'
  BY DEF First
<1>1. \A d \in Ends : socket[d] <= 1
  <2>1. Client \in Ends /\ Server \in Ends /\ \A d \in Ends : d = Client \/ d = Server
    BY WireAssumption DEF WireAssumption
  <2>2. socket[Server] <= socket[Client] /\ socket[Server] \in Nat /\ socket[Client] \in Nat
    BY <2>1, NumbersAreNatural DEF Places
  <2>3. socket[Client] <= socket'[Client]
    <3>1. CASE socket' = socket
      BY <2>2, <3>1
    <3>2. ASSUME NEW e \in Ends, Connect(e)
          PROVE  socket[Client] <= socket'[Client]
      <4>1. socket' = [socket EXCEPT ![e] = @ + 1] /\ socket \in [Ends -> 0 .. MaxConnections]
        BY <3>2 DEF Connect, WireTypes
      <4> QED BY <2>1, <2>2, <4>1
    <3>3. socket' = socket \/ \E e \in Ends : Connect(e)
      BY ZenonT(30) DEF WireNext, SenderThread, SendNew, ConnectionThread, GoOn, Expire,
         FailToConnect, Resume, ResumeOrPause, Resend, ReceivePackage, ReceiveAck, HangUp,
         PauseDisconnected, Shutdown, BeginTermination, TerminatingThread, StopBuffer,
         BufferStopped, CloseSocket, Join, Break, wireVars
    <3> QED BY <3>1, <3>2, <3>3
  <2>4. socket'[Client] \in Nat
    BY <2>1, TypesStep DEF WireTypes
  <2> QED BY <2>1, <2>2, <2>3, <2>4
<1>2. \A d \in Ends : InOrder(d) /\ Idle(d)
  BY <1>1, WireAssumption DEF First, WireAssumption
<1>3. \A d \in Ends : Idle(d)'
  BY <1>2, IdleStep
<1>4. ASSUME UNCHANGED <<net, received, accepted, inFrame, early>>
      PROVE  \A d \in Ends : InOrder(d)'
  BY <1>2, <1>4 DEF InOrder
<1>5. ASSUME NEW e \in Ends, ReceivePackage(e) \/ ReceiveAck(e)
      PROVE  \A d \in Ends : InOrder(d)'
  <2>1. socket[e] = 1
    BY <1>1, <1>5, NumbersAreNatural, PackageArrives, AckArrives
  <2> QED BY <1>2, <1>5, <2>1, InOrderReceived, InOrderAcked
<1>6. ASSUME NEW e \in Ends, Resend(e)
      PROVE  \A d \in Ends : InOrder(d)'
  <2>1. caller[e] = "resending" /\ UNCHANGED <<received, accepted, inFrame, early>>
    BY <1>6 DEF Resend, Reprocess
  <2>2. MaxSent(e) = 0
    BY <1>2, <2>1 DEF Idle, Unused
  <2>3. net' = net
    BY <1>6, <2>2, ResendSends
  <2> QED BY <1>4, <2>1, <2>3
<1>7. ASSUME NEW e \in Ends, SendNew(e)
      PROVE  \A d \in Ends : InOrder(d)'
  BY <1>1, <1>2, <1>7, InOrderSent
<1>8. \/ UNCHANGED <<net, received, accepted, inFrame, early>>
      \/ \E e \in Ends : ReceivePackage(e) \/ ReceiveAck(e) \/ Resend(e) \/ SendNew(e)
  BY DEF WireNext, SenderThread, ConnectionThread, GoOn, Expire, Connect, FailToConnect, Resume,
     ResumeOrPause, HangUp, PauseDisconnected, Shutdown, BeginTermination, TerminatingThread,
     StopBuffer, BufferStopped, CloseSocket, Join, Break, wireVars
<1> QED BY <1>3, <1>4, <1>5, <1>6, <1>7, <1>8

----------------------------------------------------------------------------
\* All parts of the invariant together.
WireInv == Inv /\ WireTypes /\ Places /\ Frames /\ NoGaps /\ First

\* The wires begin with empty buffers and lines,
LEMMA InitWire == WireInit => WireInv
<1> SUFFICES ASSUME WireInit PROVE WireInv
  OBVIOUS
<1>1. PICK z \in Seq(Nat) : z = <<>>
  BY EmptySeq
<1>2. PICK y \in Seq(Frame) : y = <<>>
  BY EmptySeq
<1>3. PICK b : b = [PausedBuffer EXCEPT !.state = "AsyncProcessing"]
  OBVIOUS
<1>4. /\ b \in Buffer /\ b.data = z /\ b.queue = z /\ b.pending_queue = z
      /\ b.max_sent_seqn = 0 /\ b.current_seqn = 1 /\ b.acknowledged_seqn = 0
      /\ b.interrupt_balance = 1
  <2>1. b = [state |-> "AsyncProcessing", data |-> z, queue |-> z, pending_queue |-> z,
             max_sent_seqn |-> 0, current_seqn |-> 1, acknowledged_seqn |-> 0,
             interrupt_balance |-> 1]
    BY <1>1, <1>3 DEF PausedBuffer
  <2> QED BY <2>1 DEF Buffer, StateKind
<1>5. buffer = [e \in Ends |-> b]
  BY <1>3 DEF WireInit
<1>6. Inv
  <2>1. Len(z) = 0 /\ z \o z = z
    BY <1>1
  <2>2. Kept(b, 0)
    BY <1>4, <2>1 DEF Kept, Holds
  <2>3. \A e \in Ends : /\ buffer[e] = b /\ puts[e] = 0 /\ caller[e] = "paused"
                         /\ MaxPuts[e] \in Nat
    BY <1>5, PutsAssumption DEF WireInit, PutsAssumption
  <2>4. EveryPutIsKept
    BY <2>2, <2>3 DEF EveryPutIsKept, Kept
  <2>5. buffer \in [Ends -> Buffer]
    BY <1>4, <1>5
  <2>6. ASSUME NEW e \in Ends
        PROVE  puts[e] <= MaxPuts[e] /\ buffer[e].interrupt_balance = 1
    <3>1. PICK n \in Nat : n = MaxPuts[e]
      BY <2>3
    <3> QED BY <1>4, <2>3, <3>1
  <2>7. TypeOK
    BY SMTT(30), <2>3, <2>5, <2>6 DEF WireInit, TypeOK
  <2> QED BY <2>4, <2>7 DEF Inv
<1>7. WireTypes
  <2>1. net \in Nets
    BY <1>2 DEF WireInit, Nets
  <2>2. accepted \in [Ends -> Seq(Nat)]
    BY <1>1 DEF WireInit
  <2> QED BY <2>1, <2>2, WireAssumption
          DEF WireInit, WireTypes, ConnPlaces, LifetimePlaces, WireAssumption
<1>8. Places
  BY WireAssumption DEF WireInit, Places, Place, WireAssumption
<1>9. /\ \A k \in Connections, e \in Ends : net[k][e] = <<>>
      /\ \A e \in Ends : /\ MaxSent(e) = 0 /\ received[e] = 0 /\ accepted[e] = <<>>
                         /\ buffer[e].acknowledged_seqn = 0 /\ caller[e] = "paused"
                         /\ conn[e] = "closed" /\ sender[e] = "top" /\ inFrame[e] /\ ~early[e]
                         /\ Peer(e) \in Ends
  BY <1>4, <1>5, PeerIs DEF WireInit, MaxSent
<1>10. Frames
  BY <1>9, WireAssumption DEF Frames, Stream, WireAssumption
<1>11. NoGaps
  <2>1. ASSUME NEW e \in Ends
        PROVE  NoGap(e)
    <3>1. Got(Peer(e)) = {}
      BY <1>9 DEF Got
    <3> QED BY <1>9, <3>1 DEF NoGap, Follow, AcksHold, OnTheLine
  <2> QED BY <2>1 DEF NoGaps
<1>12. First
  <2>1. 1 \in Connections
    BY WireAssumption DEF Connections, WireAssumption
  <2>2. ASSUME NEW e \in Ends
        PROVE  InOrder(e) /\ Idle(e)
    BY <1>9, <2>1 DEF InOrder, Idle, Holds, Fresh
  <2> QED BY <2>2 DEF First
<1> QED BY <1>6, <1>7, <1>8, <1>10, <1>11, <1>12 DEF WireInv

\* and every step keeps the invariant.
LEMMA StepWire == WireInv /\ [WireNext]_vars => WireInv'
<1> SUFFICES ASSUME WireInv, [WireNext]_vars PROVE WireInv'
  OBVIOUS
<1>1. CASE WireNext
  BY <1>1, BuffersStep, TypesStep, PlacesStep, FramesStep, NoGapsStep, FirstStep DEF WireInv
<1>2. CASE UNCHANGED vars
  <2>1. UNCHANGED <<buffer, puts, sender, caller, resent, closer, socket, conn, net, dead,
                    received, accepted, inFrame, early, lifetime>>
    BY <1>2 DEF vars, bufferVars, wireVars
  <2>2. Inv' /\ WireTypes' /\ Places'
    BY <2>1 DEF WireInv, Inv, TypeOK, EveryPutIsKept, WireTypes, Places, Place
  <2>3. Frames'
    BY <2>1 DEF WireInv, Frames, MaxSent
  <2>4. NoGaps'
    BY <2>1, NoGapsAside DEF WireInv, SameNumbers
  <2>5. First'
    BY <2>1 DEF WireInv, First, InOrder, Idle, Unused, MaxSent
  <2> QED BY <2>2, <2>3, <2>4, <2>5 DEF WireInv
<1> QED BY <1>1, <1>2

\* What the parts of the invariant say together.
LEMMA WhatIsLost == WireInv => WireTypeOK /\ EveryPutIsKept /\ NothingLost
<1> SUFFICES ASSUME WireInv PROVE WireTypeOK /\ EveryPutIsKept /\ NothingLost
  OBVIOUS
<1> USE DEF WireInv
<1>1. WireTypeOK
  <2>1. TypeOK
    BY DEF Inv
  <2>2. \A k \in Connections, e \in Ends :
          Len(net[k][e]) <= Capacity /\ (socket[e] < k => net[k][e] = <<>>)
    BY DEF Frames, Stream
  <2>3. \A e \in Ends :
          \/ caller[e] = "paused"
          \/ conn[e] = "open" /\ caller[e] # "pausing"
          \/ conn[e] = "hungup" /\ caller[e] \in {"resumed", "pausing"}
    BY DEF Places, Place
  <2> QED BY <2>1, <2>2, <2>3 DEF WireTypeOK, WireTypes, ConnPlaces, LifetimePlaces
<1>2. NumberNamesPackage
  BY DEF NumberNamesPackage, Frames, Stream, Genuine
<1>3. NothingForgotten
  BY DEF NothingForgotten, NoGaps, NoGap
<1>4. NothingSkipped
  <2>1. ASSUME NEW e \in Ends, ~early[Peer(e)]
        PROVE  \A n \in Got(e) : 1 .. n \subseteq Got(e)
    <3>1. Peer(e) \in Ends /\ Peer(Peer(e)) = e
      BY PeerIs
    <3> QED BY <2>1, <3>1 DEF NoGaps, NoGap
  <2> QED BY <2>1 DEF NothingSkipped
<1>5. FirstConnectionIsInFrame
  <2>1. ASSUME NEW e \in Ends, socket[Client] = 1
        PROVE  inFrame[e] /\ Cardinality(Got(e)) = Len(accepted[e])
    <3>1. InOrder(e)
      BY <2>1 DEF First
    <3>2. Got(e) = 1 .. received[e] /\ Len(accepted[e]) = received[e] /\ received[e] \in Nat
      BY <3>1, HoldsGot DEF InOrder
    <3>3. Cardinality(1 .. received[e]) = received[e]
      BY <3>2, FS_Interval
    <3> QED BY <3>1, <3>2, <3>3 DEF InOrder
  <2> QED BY <2>1 DEF FirstConnectionIsInFrame
<1> QED BY <1>1, <1>2, <1>3, <1>4, <1>5 DEF NothingLost, Inv

(***************************************************************************)
(* The wires keep their types and places: no connection holds more frames  *)
(* than it buffers, nor frames of an end that has not got to it, and an    *)
(* end that is not paused has its socket open or has just hung up.         *)
(***************************************************************************)
THEOREM WireTypeCorrect == WireSpec => []WireTypeOK
BY InitWire, StepWire, WhatIsLost, PTL DEF WireSpec

(***************************************************************************)
(* What PutsAreKept says of a send buffer by itself holds between wires,   *)
(* where acknowledgements are what the other end answers, old and new.     *)
(***************************************************************************)
THEOREM WirePutsAreKept == WireSpec => []EveryPutIsKept
BY InitWire, StepWire, WhatIsLost, PTL DEF WireSpec

(***************************************************************************)
(* Between two wires no package is lost, for any number of packages and of *)
(* connections and wherever a connection breaks: its number means one      *)
(* package, it is let go only when the other end has it, and that end      *)
(* accepts none before those that were put before; with the exception of   *)
(* what is sent before its resume.  On a first connection none is doubled. *)
(***************************************************************************)
THEOREM WiresLoseNothing == WireSpec => []NothingLost
BY InitWire, StepWire, WhatIsLost, PTL DEF WireSpec

----------------------------------------------------------------------------
(***************************************************************************)
(* From here on: two wires implement the ordered channel up to the first   *)
(* package that is sent before its resume.                                 *)
(*                                                                         *)
(* What an end counts as received lies in a window: no less than what the  *)
(* other end knows to be acknowledged, no more than what that end has      *)
(* sent.  The packages on a line follow each other by one, from inside     *)
(* the window on, and the last one sent is the last one on the line.  So   *)
(* an end that reads a package already has it, or gets the very next; and  *)
(* what it handed on since it last began with 1 are the numbers from 1 to  *)
(* the one it counts, each once.                                           *)
(***************************************************************************)
(***************************************************************************)
(* The order of the packages on a line.  Those of a stream are in a chain  *)
(* behind number r when each has the number after that of one before it,   *)
(* or is the first and not beyond the number after r; the acknowledgements *)
(* of the stream back are of packages that have been read from it.         *)
(***************************************************************************)
NoPackage(s) == \A i \in 1 .. Len(s) : s[i].kind # "package"
NoAck(s) == \A i \in 1 .. Len(s) : s[i].kind # "ack"
PackagesUpTo(s, n) == \A i \in 1 .. Len(s) : s[i].kind = "package" => s[i].seqn <= n
PackagesAfter(s, n) == \A i \in 1 .. Len(s) : s[i].kind = "package" => n < s[i].seqn
AcksUpTo(s, n) == \A i \in 1 .. Len(s) : s[i].kind = "ack" => s[i].seqn <= n
AcksBefore(t, s) == \A i \in 1 .. Len(t) : t[i].kind = "ack" => PackagesAfter(s, t[i].seqn)

Chain(s, r) ==
  \A i \in 1 .. Len(s) : s[i].kind = "package" =>
    /\ \A j \in 1 .. i - 1 : s[j].kind = "package" => s[j].seqn < s[i].seqn
    /\ \/ \E j \in 1 .. i - 1 : s[j].kind = "package" /\ s[j].seqn + 1 = s[i].seqn
       \/ s[i].seqn <= r + 1 /\ \A j \in 1 .. i - 1 : s[j].kind # "package"

\* The stream s of one that knows a to be acknowledged to one that counts r, which answers t.
Line(s, t, a, r) == Chain(s, r) /\ PackagesAfter(s, a) /\ AcksBefore(t, s)

\* The last number of the packages that were sent on s.
Edge(s, t, n) ==
  /\ PackagesUpTo(s, n) /\ AcksUpTo(t, n)
  /\ NoPackage(s) \/ Carries(s, Len(s), n)

\* Numbers are numbers.
LEMMA SeqnIsNatural ==
  ASSUME NEW s \in Seq(Frame)
  PROVE  Len(s) \in Nat /\ \A i \in 1 .. Len(s) : s[i] \in Frame /\ s[i].seqn \in Nat
<1>1. Len(s) \in Nat /\ \A i \in 1 .. Len(s) : s[i] \in Frame
  BY LenProperties, ElementOfSeq
<1>2. \A f \in Frame : f.seqn \in Nat
  BY DEF Frame
<1> QED BY <1>1, <1>2

\* A chain is one behind a higher number, too.
LEMMA ChainMore ==
  ASSUME NEW s \in Seq(Frame), NEW r \in Nat, NEW more \in Nat, r <= more, Chain(s, r)
  PROVE  Chain(s, more)
BY SeqnIsNatural DEF Chain

\* The next package makes a chain longer,
LEMMA ChainSent ==
  ASSUME NEW s \in Seq(Frame), NEW t \in Seq(Frame), NEW a \in Nat, NEW r \in Nat, NEW n \in Nat,
         NEW f \in Frame, f.kind = "package", f.seqn = n + 1, a <= n,
         Line(s, t, a, r), Edge(s, t, n), NoPackage(s) => n <= r
  PROVE  Line(Append(s, f), t, a, r)
<1>1. PICK q \in Seq(Frame) : q = Append(s, f)
  BY CarriesAppend
<1>2. /\ Len(q) = Len(s) + 1 /\ Len(s) \in Nat /\ q[Len(s) + 1] = f
      /\ \A i \in 1 .. Len(s) : q[i] = s[i]
  BY <1>1, CarriesAppend
<1>3. \A i \in 1 .. Len(s) : s[i].seqn \in Nat /\ (s[i].kind = "package" => s[i].seqn <= n)
  BY SeqnIsNatural DEF Edge, PackagesUpTo
<1>4. ASSUME NEW i \in 1 .. Len(s), q[i].kind = "package"
      PROVE  /\ \A j \in 1 .. i - 1 : q[j].kind = "package" => q[j].seqn < q[i].seqn
             /\ \/ \E j \in 1 .. i - 1 : q[j].kind = "package" /\ q[j].seqn + 1 = q[i].seqn
                \/ q[i].seqn <= r + 1 /\ \A j \in 1 .. i - 1 : q[j].kind # "package"
  <2>1. q[i] = s[i] /\ \A j \in 1 .. i - 1 : q[j] = s[j]
    BY <1>2
  <2> QED BY <1>4, <2>1 DEF Line, Chain
<1>5. /\ \A j \in 1 .. Len(s) : q[j].kind = "package" => q[j].seqn < f.seqn
      /\ \/ \E j \in 1 .. Len(s) : q[j].kind = "package" /\ q[j].seqn + 1 = f.seqn
         \/ f.seqn <= r + 1 /\ \A j \in 1 .. Len(s) : q[j].kind # "package"
  <2>1. \A j \in 1 .. Len(s) : q[j].kind = "package" => q[j].seqn < f.seqn
    BY <1>2, <1>3
  <2>2. CASE NoPackage(s)
    BY <1>2, <2>1, <2>2 DEF NoPackage
  <2>3. CASE Carries(s, Len(s), n)
    <3>1. PICK j \in 1 .. Len(s) : s[j].kind = "package" /\ s[j].seqn = n
      BY <2>3 DEF Carries
    <3>2. q[j].kind = "package" /\ q[j].seqn + 1 = f.seqn
      BY <1>2, <3>1
    <3> QED BY <2>1, <3>2
  <2> QED BY <2>2, <2>3 DEF Edge
<1>6. Chain(q, r)
  <2>1. ASSUME NEW i \in 1 .. Len(q), q[i].kind = "package"
        PROVE  /\ \A j \in 1 .. i - 1 : q[j].kind = "package" => q[j].seqn < q[i].seqn
               /\ \/ \E j \in 1 .. i - 1 : q[j].kind = "package" /\ q[j].seqn + 1 = q[i].seqn
                  \/ q[i].seqn <= r + 1 /\ \A j \in 1 .. i - 1 : q[j].kind # "package"
    <3>1. CASE i \in 1 .. Len(s)
      BY <1>4, <2>1, <3>1
    <3>2. CASE i = Len(s) + 1
      <4>1. i - 1 = Len(s) /\ q[i] = f
        BY <1>2, <3>2
      <4> QED BY <1>5, <4>1
    <3> QED BY <1>2, <3>1, <3>2
  <2> QED BY <2>1 DEF Chain
<1>7. ASSUME NEW m \in Nat, m <= n, PackagesAfter(s, m)
      PROVE  PackagesAfter(q, m)
  BY SMTT(30), <1>2, <1>7 DEF PackagesAfter
<1>8. AcksBefore(t, q)
  <2>1. \A i \in 1 .. Len(t) : t[i].seqn \in Nat
    BY SeqnIsNatural
  <2> QED BY <1>7, <2>1 DEF Line, AcksBefore, Edge, AcksUpTo
<1> QED BY <1>1, <1>6, <1>7, <1>8 DEF Line

\* and is its edge then.
LEMMA EdgeSent ==
  ASSUME NEW s \in Seq(Frame), NEW t \in Seq(Frame), NEW n \in Nat, Edge(s, t, n),
         NEW f \in Frame, f.kind = "package", f.seqn = n + 1
  PROVE  Edge(Append(s, f), t, n + 1) /\ ~NoPackage(Append(s, f))
<1>1. PICK q \in Seq(Frame) : q = Append(s, f)
  BY CarriesAppend
<1>2. /\ Len(q) = Len(s) + 1 /\ Len(s) \in Nat /\ q[Len(s) + 1] = f
      /\ \A i \in 1 .. Len(s) : q[i] = s[i]
      /\ Carries(q, Len(s) + 1, f.seqn)
  BY <1>1, CarriesAppend
<1>3. PackagesUpTo(q, n + 1)
  <2>1. ASSUME NEW i \in 1 .. Len(q), q[i].kind = "package"
        PROVE  q[i].seqn <= n + 1
    <3>1. CASE i = Len(s) + 1
      BY <1>2, <3>1
    <3>2. CASE i \in 1 .. Len(s)
      <4>1. q[i] = s[i] /\ s[i].seqn \in Nat
        BY <1>2, <3>2, SeqnIsNatural
      <4> QED BY <2>1, <3>2, <4>1 DEF Edge, PackagesUpTo
    <3> QED BY <1>2, <3>1, <3>2
  <2> QED BY <2>1 DEF PackagesUpTo
<1>4. AcksUpTo(t, n + 1)
  BY SeqnIsNatural DEF Edge, AcksUpTo
<1>5. ~NoPackage(q)
  BY <1>2 DEF NoPackage
<1> QED BY <1>1, <1>2, <1>3, <1>4, <1>5 DEF Edge

\* Acknowledgements do not count in a chain, whether they are sent
LEMMA ChainAcked ==
  ASSUME NEW s \in Seq(Frame), NEW f \in Frame, f.kind = "ack"
  PROVE  /\ \A n : Chain(s, n) => Chain(Append(s, f), n)
         /\ \A n : PackagesAfter(s, n) => PackagesAfter(Append(s, f), n)
         /\ \A n : PackagesUpTo(s, n) => PackagesUpTo(Append(s, f), n)
         /\ NoPackage(Append(s, f)) <=> NoPackage(s)
         /\ \A n : Carries(s, Len(s), n) => Carries(Append(s, f), Len(Append(s, f)), n)
<1>1. PICK q \in Seq(Frame) : q = Append(s, f)
  BY CarriesAppend
<1>2. /\ Len(q) = Len(s) + 1 /\ Len(s) \in Nat /\ q[Len(s) + 1] = f
      /\ \A i \in 1 .. Len(s) : q[i] = s[i]
      /\ \A n : Carries(s, Len(s), n) => Carries(q, Len(s) + 1, n)
  BY <1>1, CarriesAppend
<1>3. \A i \in 1 .. Len(q) : q[i].kind = "package" => i \in 1 .. Len(s)
  BY <1>2
<1>4. ASSUME NEW n, Chain(s, n), NEW i \in 1 .. Len(q), q[i].kind = "package"
      PROVE  /\ \A j \in 1 .. i - 1 : q[j].kind = "package" => q[j].seqn < q[i].seqn
             /\ \/ \E j \in 1 .. i - 1 : q[j].kind = "package" /\ q[j].seqn + 1 = q[i].seqn
                \/ q[i].seqn <= n + 1 /\ \A j \in 1 .. i - 1 : q[j].kind # "package"
  <2>1. i \in 1 .. Len(s) /\ q[i] = s[i] /\ \A j \in 1 .. i - 1 : q[j] = s[j]
    BY <1>2, <1>3, <1>4
  <2> QED BY <1>4, <2>1 DEF Chain
<1>5. \A n : Chain(s, n) => Chain(q, n)
  BY <1>4 DEF Chain
<1>6. /\ \A n : PackagesAfter(s, n) => PackagesAfter(q, n)
      /\ \A n : PackagesUpTo(s, n) => PackagesUpTo(q, n)
      /\ NoPackage(q) <=> NoPackage(s)
  BY <1>2, <1>3 DEF PackagesAfter, PackagesUpTo, NoPackage
<1> QED BY <1>1, <1>2, <1>5, <1>6

\* or read,
LEMMA ChainTail ==
  ASSUME NEW s \in Seq(Frame), s # <<>>
  PROVE  /\ \A n : PackagesAfter(s, n) => PackagesAfter(Tail(s), n)
         /\ \A n : PackagesUpTo(s, n) => PackagesUpTo(Tail(s), n)
         /\ \A n : AcksUpTo(s, n) => AcksUpTo(Tail(s), n)
         /\ NoPackage(s) => NoPackage(Tail(s))
         /\ NoAck(s) => NoAck(Tail(s)) /\ Head(s).kind # "ack"
         /\ \A t : AcksBefore(s, t) => AcksBefore(Tail(s), t)
         /\ \A n : Carries(s, Len(s), n) =>
              \/ Carries(Tail(s), Len(Tail(s)), n)
              \/ Head(s).kind = "package" /\ Head(s).seqn = n
<1>1. PICK q : q = Tail(s)
  OBVIOUS
<1>2. /\ Len(s) \in Nat \ {0} /\ Head(s) = s[1] /\ Len(q) = Len(s) - 1
      /\ \A i \in 1 .. Len(q) : q[i] = s[i + 1] /\ i + 1 \in 1 .. Len(s)
  BY <1>1, EmptySeq, HeadTailProperties
<1>3. ASSUME NEW n, Carries(s, Len(s), n)
      PROVE  Carries(q, Len(q), n) \/ (Head(s).kind = "package" /\ Head(s).seqn = n)
  <2>1. PICK i \in 1 .. Len(s) : s[i].kind = "package" /\ s[i].seqn = n
    BY <1>3 DEF Carries
  <2>2. CASE i = 1
    BY <1>2, <2>1, <2>2
  <2>3. CASE i # 1
    <3>1. i - 1 \in 1 .. Len(q) /\ q[i - 1] = s[i]
      BY <1>2, <2>3
    <3> QED BY <2>1, <3>1 DEF Carries
  <2> QED BY <2>2, <2>3
<1>4. /\ \A n : PackagesAfter(s, n) => PackagesAfter(q, n)
      /\ \A n : PackagesUpTo(s, n) => PackagesUpTo(q, n)
      /\ \A n : AcksUpTo(s, n) => AcksUpTo(q, n)
      /\ NoPackage(s) => NoPackage(q)
      /\ NoAck(s) => NoAck(q) /\ Head(s).kind # "ack"
      /\ \A t : AcksBefore(s, t) => AcksBefore(q, t)
  <2>1. ASSUME NEW i \in 1 .. Len(q)
        PROVE  i + 1 \in 1 .. Len(s) /\ q[i] = s[i + 1]
    BY <1>2, <2>1
  <2>2. 1 \in 1 .. Len(s) /\ Head(s) = s[1]
    BY <1>2
  <2>3. \A n : PackagesAfter(s, n) => PackagesAfter(q, n)
    BY <2>1 DEF PackagesAfter
  <2>4. \A n : PackagesUpTo(s, n) => PackagesUpTo(q, n)
    BY <2>1 DEF PackagesUpTo
  <2>5. \A n : AcksUpTo(s, n) => AcksUpTo(q, n)
    BY <2>1 DEF AcksUpTo
  <2>6. /\ NoPackage(s) => NoPackage(q)
        /\ NoAck(s) => NoAck(q) /\ Head(s).kind # "ack"
    BY <2>1, <2>2 DEF NoPackage, NoAck
  <2>7. \A t : AcksBefore(s, t) => AcksBefore(q, t)
    BY <2>1 DEF AcksBefore
  <2> QED BY <2>3, <2>4, <2>5, <2>6, <2>7
<1> QED BY <1>1, <1>3, <1>4

\* and the chain behind the one that is read is one behind its number.
LEMMA ChainRead ==
  ASSUME NEW s \in Seq(Frame), s # <<>>, NEW r \in Nat, Chain(s, r)
  PROVE  /\ Head(s).kind = "package" =>
              /\ Head(s).seqn <= r + 1 /\ PackagesAfter(Tail(s), Head(s).seqn)
              /\ Chain(Tail(s), Head(s).seqn)
         /\ Head(s).kind = "ack" => Chain(Tail(s), r)
<1>1. PICK q : q = Tail(s)
  OBVIOUS
<1>2. /\ Len(s) \in Nat \ {0} /\ Head(s) = s[1] /\ Len(q) = Len(s) - 1
      /\ \A i \in 1 .. Len(q) : q[i] = s[i + 1] /\ i + 1 \in 1 .. Len(s)
  BY <1>1, EmptySeq, HeadTailProperties
<1>3. \A i \in 1 .. Len(s) : s[i].seqn \in Nat
  BY SeqnIsNatural
<1>4. s[1].kind = "package" => s[1].seqn <= r + 1
  BY <1>2 DEF Chain
<1>5. s[1].kind = "package" => PackagesAfter(q, s[1].seqn)
  <2>1. ASSUME s[1].kind = "package", NEW i \in 1 .. Len(q), q[i].kind = "package"
        PROVE  s[1].seqn < q[i].seqn
    <3>1. 1 \in 1 .. (i + 1) - 1 /\ s[i + 1].kind = "package" /\ i + 1 \in 1 .. Len(s)
      BY <1>2, <2>1
    <3> QED BY <1>2, <2>1, <3>1 DEF Chain
  <2> QED BY <2>1 DEF PackagesAfter
<1>6. ASSUME NEW i \in 1 .. Len(q), q[i].kind = "package", NEW m \in Nat,
             s[1].kind = "package" => m = s[1].seqn, s[1].kind # "package" => m = r
      PROVE  /\ \A j \in 1 .. i - 1 : q[j].kind = "package" => q[j].seqn < q[i].seqn
             /\ \/ \E j \in 1 .. i - 1 : q[j].kind = "package" /\ q[j].seqn + 1 = q[i].seqn
                \/ q[i].seqn <= m + 1 /\ \A j \in 1 .. i - 1 : q[j].kind # "package"
  <2>1. i + 1 \in 1 .. Len(s) /\ q[i] = s[i + 1] /\ s[i + 1].kind = "package"
    BY <1>2, <1>6
  <2>2. /\ \A j \in 1 .. (i + 1) - 1 : s[j].kind = "package" => s[j].seqn < s[i + 1].seqn
        /\ \/ \E j \in 1 .. (i + 1) - 1 : s[j].kind = "package" /\ s[j].seqn + 1 = s[i + 1].seqn
           \/ s[i + 1].seqn <= r + 1 /\ \A j \in 1 .. (i + 1) - 1 : s[j].kind # "package"
    BY <2>1 DEF Chain
  <2>3. \A j \in 1 .. i - 1 : j + 1 \in 1 .. (i + 1) - 1 /\ q[j] = s[j + 1]
    BY <1>2
  <2>4. \A j \in 1 .. i - 1 : q[j].kind = "package" => q[j].seqn < q[i].seqn
    BY <2>1, <2>2, <2>3
  <2>5. ASSUME NEW j \in 1 .. (i + 1) - 1, s[j].kind = "package", s[j].seqn + 1 = s[i + 1].seqn
        PROVE  \/ \E l \in 1 .. i - 1 : q[l].kind = "package" /\ q[l].seqn + 1 = q[i].seqn
               \/ q[i].seqn <= m + 1 /\ \A l \in 1 .. i - 1 : q[l].kind # "package"
    <3>1. CASE j # 1
      <4>1. j - 1 \in 1 .. i - 1 /\ q[j - 1] = s[j]
        BY <1>2, <3>1
      <4> QED BY <2>1, <2>5, <4>1
    <3>2. CASE j = 1
      <4>1. q[i].seqn = m + 1
        BY <1>6, <2>1, <2>5, <3>2
      <4>2. ASSUME NEW l \in 1 .. i - 1, q[l].kind = "package"
            PROVE  FALSE
        <5>1. l \in 1 .. Len(q) /\ l + 1 \in 1 .. Len(s) /\ q[l] = s[l + 1]
          BY <1>2
        <5>2. m < q[l].seqn
          BY <1>5, <1>6, <2>5, <3>2, <4>2, <5>1 DEF PackagesAfter
        <5>3. q[l].seqn < m + 1 /\ q[l].seqn \in Nat
          BY <1>3, <2>4, <4>1, <4>2, <5>1
        <5> QED BY <5>2, <5>3
      <4> QED BY <4>1, <4>2
    <3> QED BY <3>1, <3>2
  <2>6. ASSUME s[i + 1].seqn <= r + 1, \A j \in 1 .. (i + 1) - 1 : s[j].kind # "package"
        PROVE  q[i].seqn <= m + 1 /\ \A j \in 1 .. i - 1 : q[j].kind # "package"
    <3>1. m = r
      BY <1>2, <1>6, <2>6
    <3> QED BY <2>1, <2>3, <2>6, <3>1
  <2> QED BY <2>2, <2>4, <2>5, <2>6
<1>7. s[1].kind = "package" => Chain(q, s[1].seqn)
  <2>1. 1 \in 1 .. Len(s)
    BY <1>2
  <2>2. PICK m \in Nat : m = s[1].seqn
    BY <1>3, <2>1
  <2> QED BY <1>6, <2>2 DEF Chain
<1>8. s[1].kind = "ack" => Chain(q, r)
  BY <1>6 DEF Chain
<1> QED BY <1>1, <1>2, <1>4, <1>5, <1>7, <1>8

----------------------------------------------------------------------------
(***************************************************************************)
(* The window between what an end knows to be acknowledged and what its    *)
(* peer counts: the line the peer reads is in a chain behind what the peer *)
(* counts, those it has not come to behind what is acknowledged.           *)
(***************************************************************************)
Acked(e) == buffer[e].acknowledged_seqn

\* What is acknowledged has been counted; resuming begins with what is not.
Counted(e, p) ==
  /\ Acked(e) <= received[p]
  /\ caller[e] = "resending" => buffer[e].current_seqn = Acked(e) + 1

LinesInOrder(e, p) ==
  \A k \in Connections :
    /\ socket[p] = k => Line(net[k][e], net[k][p], Acked(e), received[p])
    /\ socket[p] < k => Line(net[k][e], net[k][p], Acked(e), Acked(e))

\* The acknowledgements e may still read.
Answers(e, p) ==
  \A k \in Connections :
    /\ socket[e] <= k => AcksUpTo(net[k][p], received[p])
    /\ socket[e] < k => NoAck(net[k][p])

\* Nothing is sent on a connection before its resume.
Unsent(e, p) ==
  conn[e] = "open" /\ caller[e] \in {"paused", "resuming"} =>
    NoPackage(net[socket[e]][e]) /\ NoAck(net[socket[e]][p])

AtEdge(e, p) ==
  OnTheLine(e) =>
    /\ Edge(net[socket[e]][e], net[socket[e]][p], UpTo(e))
    /\ NoPackage(net[socket[e]][e]) =>
         /\ socket[p] < socket[e] => UpTo(e) <= Acked(e)
         /\ socket[p] = socket[e] => UpTo(e) <= received[p]

Window(e) ==
  /\ Counted(e, Peer(e)) /\ LinesInOrder(e, Peer(e)) /\ Answers(e, Peer(e))
  /\ Unsent(e, Peer(e)) /\ AtEdge(e, Peer(e))

Windows == \A e \in Ends : ~early[e] => Window(e)

\* An end that neither sends nor hears, nor begins a resume, keeps its window.
LEMMA WindowAside ==
  ASSUME NEW d \in Ends, Window(d), UNCHANGED <<net, received, socket>>,
         Acked(d)' = Acked(d),
         caller'[d] = "resending" =>
           caller[d] = "resending" /\ buffer'[d].current_seqn = buffer[d].current_seqn,
         conn'[d] = "open" /\ caller'[d] \in {"paused", "resuming"} =>
           conn[d] = "open" /\ caller[d] \in {"paused", "resuming"},
         OnTheLine(d)' => OnTheLine(d) /\ UpTo(d)' = UpTo(d)
  PROVE  Window(d)'
<1> DEFINE p == Peer(d)
<1>1. /\ Counted(d, p) /\ LinesInOrder(d, p) /\ Answers(d, p) /\ Unsent(d, p) /\ AtEdge(d, p)
  BY DEF Window
<1> HIDE DEF p
<1>2. Counted(d, p)'
  BY <1>1 DEF Counted
<1>3. LinesInOrder(d, p)'
  BY <1>1 DEF LinesInOrder
<1>4. Answers(d, p)'
  BY <1>1 DEF Answers
<1>5. Unsent(d, p)'
  BY <1>1 DEF Unsent
<1>6. AtEdge(d, p)'
  <2>1. CASE OnTheLine(d)'
    <3>1. PICK u, s, t : u = UpTo(d) /\ s = net[socket[d]][d] /\ t = net[socket[d]][p]
      OBVIOUS
    <3>2. /\ Edge(s, t, u)
          /\ NoPackage(s) => /\ socket[p] < socket[d] => u <= Acked(d)
                             /\ socket[p] = socket[d] => u <= received[p]
      BY <1>1, <2>1, <3>1 DEF AtEdge
    <3>3. UpTo(d)' = u /\ net'[socket'[d]][d] = s /\ net'[socket'[d]][p] = t
      BY <2>1, <3>1
    <3> QED BY <3>2, <3>3 DEF AtEdge
  <2>2. CASE ~OnTheLine(d)'
    BY <2>2 DEF AtEdge
  <2> QED BY <2>1, <2>2
<1> QED BY <1>2, <1>3, <1>4, <1>5, <1>6 DEF Window, p

\* When one end moves and the lines stay, the other keeps its window.
LEMMA WindowsMoved ==
  ASSUME Windows, NEW e \in Ends, UNCHANGED <<net, received, socket>>, dead \subseteq dead',
         \A d \in Ends : early[d] => early'[d],
         \A d \in Ends \ {e} : /\ Numbers(buffer'[d]) = Numbers(buffer[d])
                               /\ caller'[d] = caller[d] /\ conn'[d] = conn[d]
                               /\ resent'[d] = resent[d],
         Window(e) => Window(e)'
  PROVE  Windows'
<1>1. ASSUME NEW d \in Ends, ~early'[d]
      PROVE  Window(d)'
  <2>1. Window(d)
    BY <1>1 DEF Windows
  <2>2. CASE d = e
    BY <2>1, <2>2
  <2>3. CASE d # e
    <3>1. /\ Acked(d)' = Acked(d) /\ buffer'[d].current_seqn = buffer[d].current_seqn
          /\ UpTo(d)' = UpTo(d)
      BY <2>3 DEF Numbers, Acked, UpTo, ResentSeqn, MaxSent
    <3>2. OnTheLine(d)' => OnTheLine(d)
      BY <2>3 DEF OnTheLine
    <3> QED BY <2>1, <2>3, <3>1, <3>2, WindowAside
  <2> QED BY <2>2, <2>3
<1> QED BY <1>1 DEF Windows

\* The same when neither moves.
LEMMA WindowsAside ==
  ASSUME Windows, SameNumbers, UNCHANGED <<net, received, socket, caller, conn, resent>>,
         dead \subseteq dead', \A d \in Ends : early[d] => early'[d]
  PROVE  Windows'
<1>1. ASSUME NEW d \in Ends, Window(d)
      PROVE  Window(d)'
  <2>1. /\ Acked(d)' = Acked(d) /\ buffer'[d].current_seqn = buffer[d].current_seqn
        /\ UpTo(d)' = UpTo(d)
    BY DEF SameNumbers, Numbers, Acked, UpTo, ResentSeqn, MaxSent
  <2>2. OnTheLine(d)' => OnTheLine(d)
    BY DEF OnTheLine
  <2> QED BY <1>1, <2>1, <2>2, WindowAside
<1> QED BY <1>1 DEF Windows

----------------------------------------------------------------------------
\* Nothing is out of order on an empty line.
LEMMA EmptyLine ==
  ASSUME NEW s, s = <<>>
  PROVE  \A t, a, r : Line(s, t, a, r)
BY DEF Line, Chain, PackagesAfter, AcksBefore

\* A package does not count among the acknowledgements.
LEMMA PackageSent ==
  ASSUME NEW t \in Seq(Frame), NEW f \in Frame, f.kind = "package"
  PROVE  /\ \A n : AcksUpTo(t, n) => AcksUpTo(Append(t, f), n)
         /\ NoAck(t) => NoAck(Append(t, f))
         /\ \A s : AcksBefore(t, s) => AcksBefore(Append(t, f), s)
<1>1. PICK q \in Seq(Frame) : q = Append(t, f)
  BY CarriesAppend
<1>2. /\ Len(q) = Len(t) + 1 /\ Len(t) \in Nat /\ q[Len(t) + 1] = f
      /\ \A i \in 1 .. Len(t) : q[i] = t[i]
  BY <1>1, CarriesAppend
<1>3. \A i \in 1 .. Len(q) : q[i].kind = "ack" => i \in 1 .. Len(t)
  BY <1>2
<1> QED BY <1>1, <1>2, <1>3 DEF AcksUpTo, NoAck, AcksBefore

\* What an end hears may lose and gain what is not an acknowledgement.
LEMMA WindowBeside ==
  ASSUME NEW d \in Ends, Window(d), UNCHANGED <<received, socket>>,
         NEW p, p = Peer(d),
         \A k \in Connections :
           /\ net'[k][d] = net[k][d]
           /\ \A n : AcksUpTo(net[k][p], n) => AcksUpTo(net'[k][p], n)
           /\ NoAck(net[k][p]) => NoAck(net'[k][p])
           /\ \A s : AcksBefore(net[k][p], s) => AcksBefore(net'[k][p], s),
         Acked(d)' = Acked(d),
         buffer'[d].current_seqn = buffer[d].current_seqn,
         caller'[d] = caller[d], conn'[d] = conn[d],
         conn[d] = "open" \/ OnTheLine(d) => socket[d] \in Connections,
         OnTheLine(d)' => OnTheLine(d) /\ UpTo(d)' = UpTo(d)
  PROVE  Window(d)'
<1>1. /\ Counted(d, p) /\ LinesInOrder(d, p) /\ Answers(d, p) /\ Unsent(d, p) /\ AtEdge(d, p)
  BY DEF Window
<1>2. Counted(d, p)'
  BY <1>1 DEF Counted
<1>3. LinesInOrder(d, p)'
  <2>1. ASSUME NEW k \in Connections, NEW a, NEW r, Line(net[k][d], net[k][p], a, r)
        PROVE  Line(net'[k][d], net'[k][p], a, r)
    BY <2>1 DEF Line
  <2> QED BY <1>1, <2>1 DEF LinesInOrder
<1>4. Answers(d, p)'
  BY <1>1 DEF Answers
<1>5. Unsent(d, p)'
  BY <1>1 DEF Unsent
<1>6. AtEdge(d, p)'
  <2>1. CASE OnTheLine(d)'
    <3>1. PICK u, s, t, v : u = UpTo(d) /\ s = net[socket[d]][d] /\ t = net[socket[d]][p]
                            /\ v = net'[socket[d]][p]
      OBVIOUS
    <3>2. /\ Edge(s, t, u)
          /\ NoPackage(s) => /\ socket[p] < socket[d] => u <= Acked(d)
                             /\ socket[p] = socket[d] => u <= received[p]
      BY <1>1, <2>1, <3>1 DEF AtEdge
    <3>3. /\ UpTo(d)' = u /\ net'[socket'[d]][d] = s /\ net'[socket'[d]][p] = v
          /\ AcksUpTo(t, u) => AcksUpTo(v, u)
      BY <2>1, <3>1
    <3>4. Edge(s, v, u)
      BY <3>2, <3>3 DEF Edge
    <3> QED BY <3>2, <3>3, <3>4 DEF AtEdge
  <2>2. CASE ~OnTheLine(d)'
    BY <2>2 DEF AtEdge
  <2> QED BY <2>1, <2>2
<1> QED BY <1>2, <1>3, <1>4, <1>5, <1>6 DEF Window

\* A package that is the next on its line keeps the windows of both ends.
LEMMA WindowsPackage ==
  ASSUME Inv, WireTypes, Places, Frames, Windows, NEW e \in Ends, socket[e] # 0,
         NEW f \in Frame, f.kind = "package", net' = Sent(e, f),
         UNCHANGED <<received, conn, socket, dead, caller>>,
         \A d \in Ends : /\ Acked(d)' = Acked(d)
                         /\ buffer'[d].current_seqn = buffer[d].current_seqn,
         \A d \in Ends \ {e} : UpTo(d)' = UpTo(d),
         f.seqn - 1 = UpTo(e), UpTo(e)' = f.seqn,
         Window(e) => Acked(e) <= UpTo(e),
         \A d \in Ends : early[d] => early'[d],
         ~early'[e] /\ socket[e] \notin dead => OnTheLine(e)
  PROVE  Windows'
<1> DEFINE k == socket[e]
           p == Peer(e)
<1>1. /\ k \in Connections /\ p \in Ends /\ p # e /\ Peer(p) = e /\ \A d \in Ends : d = e \/ d = p
      /\ net'[k][e] = IF k \in dead THEN net[k][e] ELSE Append(net[k][e], f)
      /\ \A j \in Connections, d \in Ends : j # k \/ d # e => net'[j][d] = net[j][d]
  BY SentNet, NumbersAreNatural, PeerIs
<1>2. /\ \A j \in Connections, d \in Ends : net[j][d] \in Seq(Frame)
      /\ \A d \in Ends : conn[d] = "open" \/ OnTheLine(d) => socket[d] \in Connections
      /\ \A d \in Ends : OnTheLine(d)' <=> OnTheLine(d)
  BY NumbersAreNatural DEF OnTheLine, Places, Place
<1>3. k = socket[e] /\ p = Peer(e)
  OBVIOUS
<1> HIDE DEF k, p
<1>4. ASSUME ~early'[p]
      PROVE  Window(p)'
  <2>1. Window(p)
    BY <1>1, <1>4 DEF Windows
  <2>2. ASSUME NEW j \in Connections
        PROVE  /\ net'[j][p] = net[j][p]
               /\ \A n : AcksUpTo(net[j][e], n) => AcksUpTo(net'[j][e], n)
               /\ NoAck(net[j][e]) => NoAck(net'[j][e])
               /\ \A s : AcksBefore(net[j][e], s) => AcksBefore(net'[j][e], s)
    <3>1. net'[j][e] = net[j][e] \/ net'[j][e] = Append(net[j][e], f)
      BY <1>1
    <3> QED BY <1>1, <1>2, <3>1, PackageSent
  <2> QED BY <1>1, <1>2, <2>1, <2>2, WindowBeside
<1>5. ASSUME ~early'[e], k \in dead
      PROVE  Window(e)'
  <2>1. Window(e)
    BY <1>5 DEF Windows
  <2>2. ~OnTheLine(e)'
    BY <1>2, <1>3, <1>5 DEF OnTheLine
  <2>3. \A j \in Connections, d \in Ends : net'[j][d] = net[j][d]
    BY <1>1, <1>5
  <2> QED BY <1>1, <1>2, <1>3, <2>1, <2>2, <2>3, WindowBeside
<1>6. ASSUME ~early'[e], k \notin dead
      PROVE  Window(e)'
  <2>1. /\ Counted(e, p) /\ LinesInOrder(e, p) /\ Answers(e, p) /\ AtEdge(e, p)
        /\ OnTheLine(e) /\ Acked(e) <= UpTo(e)
    BY <1>3, <1>6 DEF Windows, Window
  <2>2. PICK s, t : s = net[k][e] /\ t = net[k][p]
    OBVIOUS
  <2>3. s \in Seq(Frame) /\ t \in Seq(Frame) /\ net'[k][e] = Append(s, f) /\ net'[k][p] = t
    BY <1>1, <1>2, <1>6, <2>2
  <2>4. PICK a \in Nat, r \in Nat, n \in Nat, b \in Nat :
          a = Acked(e) /\ r = received[p] /\ n = UpTo(e) /\ b = socket[p]
    BY <1>1, OneEnd, Members, NumbersAreNatural, UpToIsNatural DEF Acked
  <2>5. /\ f.seqn = n + 1 /\ a <= n /\ UpTo(e)' = n + 1
        /\ Edge(s, t, n) /\ Edge(Append(s, f), t, n + 1) /\ ~NoPackage(Append(s, f))
        /\ NoPackage(s) => (b < k => n <= a) /\ (b = k => n <= r)
    <3>1. f.seqn = n + 1
      BY <2>4 DEF Frame
    <3>2. /\ Edge(s, t, n)
          /\ NoPackage(s) => (b < k => n <= a) /\ (b = k => n <= r)
      BY <1>3, <2>1, <2>2, <2>4 DEF AtEdge
    <3> QED BY <2>1, <2>3, <2>4, <3>1, <3>2, EdgeSent
  <2>6. /\ b = k => Line(Append(s, f), t, a, r)
        /\ b < k => Line(Append(s, f), t, a, a)
    <3>1. /\ b = k => Line(s, t, a, r)
          /\ b < k => Line(s, t, a, a)
      BY <1>1, <2>1, <2>2, <2>4 DEF LinesInOrder
    <3> QED BY <2>3, <2>4, <2>5, <3>1, ChainSent
  <2>7. Counted(e, p)' /\ Answers(e, p)'
    BY <1>1, <2>1 DEF Counted, Answers
  <2>8. LinesInOrder(e, p)'
    BY ZenonT(30), <1>1, <2>1, <2>3, <2>4, <2>6 DEF LinesInOrder
  <2>9. Unsent(e, p)'
    BY <2>1 DEF Unsent, OnTheLine
  <2>10. AtEdge(e, p)'
    BY <1>3, <2>3, <2>5 DEF AtEdge
  <2> QED BY <1>3, <2>7, <2>8, <2>9, <2>10 DEF Window
<1> QED BY <1>1, <1>4, <1>5, <1>6 DEF Windows

\* So do a new one,
LEMMA WindowsSent ==
  ASSUME Inv, WireTypes, Places, Frames, Windows, NEW e \in Ends, SendNew(e)
  PROVE  Windows'
<1>1. UNCHANGED <<received, conn, socket, dead>>
  BY DEF SendNew
<1>2. CASE /\ net' = net /\ SameNumbers /\ UNCHANGED <<caller, resent>>
           /\ \A d \in Ends : early'[d] <=> early[d]
  BY <1>1, <1>2, WindowsAside
<1>3. CASE /\ net' = Sent(e, Package(MaxSent(e) + 1, MaxSent(e) + 1))
           /\ MaxSent(e)' = MaxSent(e) + 1
           /\ buffer'[e].current_seqn = buffer[e].current_seqn
           /\ buffer'[e].acknowledged_seqn = buffer[e].acknowledged_seqn
           /\ \A d \in Ends \ {e} : Numbers(buffer'[d]) = Numbers(buffer[d])
           /\ UNCHANGED <<caller, resent>>
           /\ \A d \in Ends \ {e} : early'[d] <=> early[d]
           /\ early'[e] <=>
                \/ early[e]
                \/ caller[e] \in {"paused", "resuming"} /\ socket[e] \notin dead
  <2>1. PICK n \in Nat : n = MaxSent(e) + 1 /\ MaxSent(e) \in Nat
    BY NumbersAreNatural
  <2>2. Package(n, n) \in Frame /\ Package(n, n).kind = "package" /\ Package(n, n).seqn = n
    BY FrameSorts
  <2>3. UpTo(e) = n - 1 /\ UpTo(e)' = n
    <3>1. caller[e] # "resending"
      BY DEF SendNew, Process, Places, Place
    <3> QED BY <1>3, <2>1, <3>1 DEF UpTo
  <2>4. \A d \in Ends : /\ Acked(d)' = Acked(d)
                        /\ buffer'[d].current_seqn = buffer[d].current_seqn
    BY <1>3 DEF Numbers, Acked
  <2>5. \A d \in Ends \ {e} : UpTo(d)' = UpTo(d)
    BY <1>3 DEF Numbers, UpTo, ResentSeqn, MaxSent
  <2>6. ~early'[e] /\ socket[e] \notin dead => OnTheLine(e)
    BY <1>3 DEF OnTheLine
  <2>7. socket[e] # 0 /\ \A d \in Ends : early[d] => early'[d]
    BY <1>3, SendersFrame
  <2>8. Window(e) => Acked(e) <= UpTo(e)
    <3>1. Peer(e) \in Ends /\ Peer(Peer(e)) = e
      BY PeerIs
    <3>2. PICK a \in Nat, r \in Nat : a = Acked(e) /\ r = received[Peer(e)]
      BY <3>1, OneEnd, Members, NumbersAreNatural DEF Acked
    <3>3. r <= MaxSent(e)
      BY <3>1, <3>2 DEF Frames
    <3>4. Window(e) => a <= r
      BY <3>2 DEF Window, Counted
    <3> QED BY <2>1, <2>3, <3>2, <3>3, <3>4
  <2> QED BY <1>1, <1>3, <2>1, <2>2, <2>3, <2>4, <2>5, <2>6, <2>7, <2>8, WindowsPackage
<1> QED BY <1>2, <1>3, SendNewSends

\* and one that is sent again.
LEMMA WindowsResent ==
  ASSUME Inv, WireTypes, Places, Frames, Windows, NEW e \in Ends, Resend(e)
  PROVE  Windows'
<1>1. UNCHANGED <<received, early, conn, socket, dead>> /\ caller[e] = "resending"
  BY DEF Resend, Reprocess
<1>2. /\ caller \in [Ends -> {"paused", "resuming", "resending", "resumed", "pausing"}]
      /\ resent \in [Ends -> Nat]
  BY DEF Inv, TypeOK
<1>3. CASE /\ net' = net /\ SameNumbers /\ socket[e] \in dead
           /\ caller' = [caller EXCEPT ![e] = "resumed"] /\ UNCHANGED resent
  <2>1. ~OnTheLine(e)' /\ caller'[e] = "resumed"
    BY <1>1, <1>2, <1>3 DEF OnTheLine
  <2>2. \A d \in Ends \ {e} : caller'[d] = caller[d]
    BY <1>2, <1>3
  <2>3. \A d \in Ends : Numbers(buffer'[d]) = Numbers(buffer[d]) /\ Acked(d)' = Acked(d)
    BY <1>3 DEF SameNumbers, Numbers, Acked
  <2>4. Window(e) => Window(e)'
    BY <1>1, <1>3, <2>1, <2>3, WindowAside
  <2> QED BY <1>1, <1>3, <2>2, <2>3, <2>4, WindowsMoved
<1>4. CASE /\ ResentSeqn(e) \in 1 .. MaxSent(e)
           /\ net' = Sent(e, Package(ResentSeqn(e), ResentSeqn(e)))
           /\ resent' = [resent EXCEPT ![e] = @ + 1]
           /\ UNCHANGED <<buffer, caller>>
  <2>1. PICK n \in Nat : n = ResentSeqn(e)
    BY <1>4
  <2>2. Package(n, n) \in Frame /\ Package(n, n).kind = "package" /\ Package(n, n).seqn = n
    BY FrameSorts
  <2>3. PICK c \in Nat, r \in Nat : /\ c = buffer[e].current_seqn /\ r = resent[e]
                                    /\ resent'[e] = r + 1
    BY <1>2, <1>4, OneEnd, Members
  <2>4. UpTo(e) = n - 1 /\ UpTo(e)' = n /\ n = c + r
    BY <1>1, <1>4, <2>1, <2>3 DEF UpTo, ResentSeqn
  <2>5. \A d \in Ends \ {e} : UpTo(d)' = UpTo(d)
    BY <1>2, <1>4 DEF UpTo, ResentSeqn, MaxSent
  <2>6. socket[e] \notin dead => OnTheLine(e)
    BY <1>1 DEF OnTheLine
  <2>7. socket[e] # 0
    BY SendersFrame
  <2>8. Window(e) => Acked(e) <= UpTo(e)
    <3>1. PICK a \in Nat : a = Acked(e)
      BY OneEnd, Members DEF Acked
    <3>2. Window(e) => c = a + 1
      BY <1>1, <2>3, <3>1 DEF Window, Counted
    <3> QED BY <2>3, <2>4, <3>1, <3>2
  <2>9. \A d \in Ends : /\ Acked(d)' = Acked(d)
                        /\ buffer'[d].current_seqn = buffer[d].current_seqn
    BY <1>4 DEF Acked
  <2> QED BY <1>1, <1>4, <2>1, <2>2, <2>4, <2>5, <2>6, <2>7, <2>8, <2>9, WindowsPackage
<1> QED BY <1>3, <1>4, ResendSends

----------------------------------------------------------------------------
\* A new connection: its line is empty, and the peer's is read behind what is counted.
LEMMA WindowsConnect ==
  ASSUME Inv, WireTypes, Places, Frames, Windows, NEW e \in Ends, Connect(e)
  PROVE  Windows'
<1> DEFINE p == Peer(e)
<1>1. p \in Ends /\ p # e /\ Peer(p) = e /\ \A d \in Ends : d = e \/ d = p
  BY PeerIs
<1>2. /\ UNCHANGED <<bufferVars, net, received, early>> /\ dead \subseteq dead'
      /\ socket'[e] = socket[e] + 1 /\ socket'[p] = socket[p]
      /\ conn'[p] = conn[p] /\ caller[e] = "paused"
      /\ socket'[e] \in Connections /\ socket[e] \in Nat
  <2>1. /\ socket \in [Ends -> 0 .. MaxConnections] /\ conn \in [Ends -> ConnPlaces]
        /\ Place(e)
    BY DEF WireTypes, Places
  <2>2. PICK place \in {"open", "expired"} :
          /\ UNCHANGED <<bufferVars, net, received, early>> /\ dead \subseteq dead'
          /\ socket' = [socket EXCEPT ![e] = @ + 1] /\ conn' = [conn EXCEPT ![e] = place]
          /\ conn[e] = "connecting"
    BY DEF Connect
  <2>3. caller[e] = "paused"
    BY <2>1, <2>2 DEF Place
  <2>4. socket'[e] = socket[e] + 1 /\ socket[e] \in Nat
    BY <2>1, <2>2, WireAssumption DEF WireAssumption
  <2>5. socket'[e] \in 0 .. MaxConnections
    BY TypesAside DEF WireTypes
  <2>6. socket'[e] \in Connections
    BY <2>4, <2>5, WireAssumption DEF Connections, WireAssumption
  <2> QED BY <1>1, <2>1, <2>2, <2>3, <2>4, <2>6
<1>3. /\ \A d \in Ends : /\ Acked(d)' = Acked(d) /\ UpTo(d)' = UpTo(d)
                         /\ buffer'[d].current_seqn = buffer[d].current_seqn
                         /\ caller'[d] = caller[d] /\ Acked(d) \in Nat
                         /\ socket[d] \in Nat /\ received[d] \in Nat
      /\ \A j \in Connections : j \in Nat /\ \A d \in Ends : net[j][d] \in Seq(Frame)
  BY <1>2, NumbersAreNatural, OneEnd, Members DEF bufferVars, Acked, UpTo, ResentSeqn, MaxSent
<1>4. p = Peer(e)
  OBVIOUS
<1> HIDE DEF p
<1>5. ASSUME ~early[e]
      PROVE  Window(e)'
  <2>1. Counted(e, p) /\ LinesInOrder(e, p) /\ Answers(e, p)
    BY <1>4, <1>5 DEF Windows, Window
  <2>2. Counted(e, p)'
    BY <1>2, <1>3, <2>1 DEF Counted
  <2>3. LinesInOrder(e, p)'
    BY <1>2, <1>3, <2>1 DEF LinesInOrder
  <2>4. \A j \in Connections : socket'[e] <= j => socket[e] < j
    BY <1>2, <1>3
  <2>5. Answers(e, p)'
    <3>1. ASSUME NEW j \in Connections, socket'[e] <= j
          PROVE  AcksUpTo(net'[j][p], received'[p]) /\ NoAck(net'[j][p])
      <4>1. socket[e] < j /\ socket[e] <= j
        BY <1>2, <1>3, <2>4, <3>1
      <4> QED BY <1>2, <2>1, <4>1 DEF Answers
    <3> QED BY <1>2, <1>3, <3>1 DEF Answers
  <2>6. NoPackage(net'[socket'[e]][e]) /\ NoAck(net'[socket'[e]][p])
    <3>1. socket[e] < socket'[e]
      BY <1>2
    <3>2. net[socket'[e]][e] = <<>> /\ NoAck(net[socket'[e]][p])
      BY <1>2, <2>1, <3>1 DEF Frames, Answers
    <3> QED BY <1>2, <3>2 DEF NoPackage
  <2>7. Unsent(e, p)'
    BY <2>6 DEF Unsent
  <2>8. AtEdge(e, p)'
    BY <1>2, <1>3 DEF AtEdge, OnTheLine
  <2> QED BY <1>4, <2>2, <2>3, <2>5, <2>7, <2>8 DEF Window
<1>6. ASSUME ~early[p]
      PROVE  Window(p)'
  <2>1. /\ Counted(p, e) /\ LinesInOrder(p, e) /\ Answers(p, e) /\ Unsent(p, e) /\ AtEdge(p, e)
    BY <1>1, <1>6 DEF Windows, Window
  <2>2. PICK a \in Nat, r \in Nat : a = Acked(p) /\ r = received[e] /\ a <= r
    BY <1>1, <1>3, <2>1 DEF Counted
  <2>3. Counted(p, e)'
    BY <1>1, <1>2, <1>3, <2>1 DEF Counted
  <2>4. LinesInOrder(p, e)'
    <3>1. ASSUME NEW j \in Connections, socket'[e] <= j
          PROVE  Line(net[j][p], net[j][e], a, a) /\ Line(net[j][p], net[j][e], a, r)
      <4>1. Line(net[j][p], net[j][e], a, a)
        BY <1>2, <1>3, <2>1, <2>2, <3>1 DEF LinesInOrder
      <4>2. Chain(net[j][p], r)
        BY <1>1, <1>3, <2>2, <4>1, ChainMore DEF Line
      <4> QED BY <4>1, <4>2 DEF Line
    <3>2. \A j \in Connections :
            (socket'[e] = j => socket'[e] <= j) /\ (socket'[e] < j => socket'[e] <= j)
      BY <1>2, <1>3
    <3> QED BY <1>1, <1>2, <1>3, <2>2, <3>1, <3>2 DEF LinesInOrder
  <2>5. Answers(p, e)'
    BY <1>2, <2>1 DEF Answers
  <2>6. Unsent(p, e)'
    BY <1>1, <1>2, <1>3, <2>1 DEF Unsent
  <2>7. AtEdge(p, e)'
    <3>1. CASE OnTheLine(p)'
      <4>1. OnTheLine(p)
        BY <1>1, <1>2, <1>3, <3>1 DEF OnTheLine
      <4>2a. PICK u \in Nat, b \in Nat : u = UpTo(p) /\ b = socket[p]
        BY <1>1, <1>3, UpToIsNatural
      <4>2b. PICK s, t : s = net[b][p] /\ t = net[b][e]
        OBVIOUS
      <4>2. /\ u = UpTo(p) /\ u \in Nat /\ b = socket[p] /\ b \in Nat
            /\ s = net[b][p] /\ t = net[b][e]
        BY <4>2a, <4>2b
      <4>3. Edge(s, t, u) /\ (NoPackage(s) /\ socket[e] < b => u <= a)
        BY <2>1, <2>2, <4>1, <4>2 DEF AtEdge
      <4>4. NoPackage(s) /\ socket'[e] <= b => u <= a /\ u <= r
        BY <1>2, <2>2, <4>2, <4>3
      <4>5. /\ UpTo(p)' = u /\ socket'[p] = b /\ net'[b][p] = s /\ net'[b][e] = t
            /\ Acked(p)' = a /\ received'[e] = r
        BY <1>1, <1>2, <1>3, <2>2, <4>2
      <4>6. socket'[e] < b \/ socket'[e] = b => socket'[e] <= b
        BY <1>2, <4>2
      <4> QED BY <4>3, <4>4, <4>5, <4>6 DEF AtEdge
    <3>2. CASE ~OnTheLine(p)'
      BY <3>2 DEF AtEdge
    <3> QED BY <3>1, <3>2
  <2> QED BY <1>1, <2>3, <2>4, <2>5, <2>6, <2>7 DEF Window
<1> QED BY <1>1, <1>2, <1>5, <1>6 DEF Windows

\* Resuming begins behind what is acknowledged.
LEMMA WindowsResume ==
  ASSUME Inv, WireTypes, Places, Windows, NEW e \in Ends,
         BeginReprocess(e), UNCHANGED wireVars
  PROVE  Windows'
<1> DEFINE p == Peer(e)
<1>1. /\ UNCHANGED <<net, received, early, dead, conn, socket>>
      /\ conn[e] = "open" /\ caller[e] = "resuming" /\ caller'[e] = "resending" /\ resent'[e] = 0
      /\ \A d \in Ends \ {e} : caller'[d] = caller[d] /\ resent'[d] = resent[d]
  <2>1. /\ caller \in [Ends -> {"paused", "resuming", "resending", "resumed", "pausing"}]
        /\ resent \in [Ends -> Nat] /\ Place(e)
    BY DEF Inv, TypeOK, Places
  <2> QED BY <2>1 DEF BeginReprocess, wireVars, Place
<1>2. /\ Acked(e)' = Acked(e) /\ Acked(e) \in Nat
      /\ buffer'[e].current_seqn = Acked(e) + 1
      /\ \A d \in Ends \ {e} : Numbers(buffer'[d]) = Numbers(buffer[d])
  BY ResumeNumbers, OneEnd, Members DEF Acked
<1>3. UpTo(e)' = Acked(e)
  BY <1>1, <1>2 DEF UpTo, ResentSeqn
<1>4. p = Peer(e) /\ p \in Ends
  BY PeerIs
<1> HIDE DEF p
<1>5. ASSUME Window(e)
      PROVE  Window(e)'
  <2>1. Counted(e, p) /\ LinesInOrder(e, p) /\ Answers(e, p) /\ Unsent(e, p)
    BY <1>4, <1>5 DEF Window
  <2>2. Counted(e, p)' /\ LinesInOrder(e, p)' /\ Answers(e, p)'
    BY <1>1, <1>2, <2>1 DEF Counted, LinesInOrder, Answers
  <2>3. Unsent(e, p)'
    BY <1>1 DEF Unsent
  <2>4. AtEdge(e, p)'
    <3>1. NoPackage(net[socket[e]][e]) /\ NoAck(net[socket[e]][p])
      BY <1>1, <2>1 DEF Unsent
    <3>2. Edge(net[socket[e]][e], net[socket[e]][p], Acked(e))
      BY <3>1 DEF NoPackage, NoAck, Edge, PackagesUpTo, AcksUpTo
    <3>3. Acked(e) <= received[p] /\ Acked(e) <= Acked(e)
      BY <1>2, <2>1 DEF Counted
    <3> QED BY <1>1, <1>2, <1>3, <3>2, <3>3 DEF AtEdge
  <2> QED BY <1>4, <2>2, <2>3, <2>4 DEF Window
<1> QED BY <1>1, <1>2, <1>5, WindowsMoved

\* The other steps of the connection's thread that neither send nor read.
LEMMA WindowsConnection ==
  ASSUME Inv, WireTypes, Places, Frames, Windows, NEW e \in Ends,
         \/ GoOn(e) \/ Expire(e) \/ Connect(e) \/ FailToConnect(e) \/ HangUp(e) \/ Shutdown(e)
         \/ Resume(e) \/ PauseDisconnected(e) \/ ResumeOrPause(e)
  PROVE  Windows'
<1>1. /\ caller \in [Ends -> {"paused", "resuming", "resending", "resumed", "pausing"}]
      /\ resent \in [Ends -> Nat] /\ conn \in [Ends -> ConnPlaces] /\ Place(e)
  BY DEF Inv, TypeOK, WireTypes, Places
<1>2. ASSUME SameNumbers
      PROVE  /\ \A d \in Ends : Numbers(buffer'[d]) = Numbers(buffer[d])
             /\ Acked(e)' = Acked(e) /\ MaxSent(e)' = MaxSent(e)
             /\ buffer'[e].current_seqn = buffer[e].current_seqn
  BY <1>2, SameMax DEF SameNumbers, Numbers, Acked
<1>3. ASSUME UNCHANGED bufferVars
      PROVE  SameNumbers /\ UNCHANGED <<caller, resent>>
  BY <1>3 DEF bufferVars, SameNumbers
<1>4. CASE EndResume(e) /\ UNCHANGED wireVars
  <2>1. /\ caller[e] = "resending" /\ resent[e] = Len(buffer[e].pending_queue)
        /\ caller'[e] = "resumed"
        /\ UNCHANGED <<net, received, early, dead, conn, socket, resent>>
        /\ \A d \in Ends \ {e} : caller'[d] = caller[d]
    BY <1>1, <1>4 DEF EndResume, wireVars
  <2>2. SameNumbers
    BY <1>4, BalanceNumbers
  <2>3. UpTo(e)' = UpTo(e)
    <3>1. Len(buffer[e].pending_queue) = MaxSent(e) + 1 - buffer[e].current_seqn
      BY DEF Inv, EveryPutIsKept, Holds, MaxSent
    <3>2. MaxSent(e) \in Nat /\ buffer[e].current_seqn \in Nat
      BY OneEnd, Members DEF MaxSent
    <3> QED BY <1>2, <2>1, <2>2, <3>1, <3>2 DEF UpTo, ResentSeqn
  <2>4. OnTheLine(e)' => OnTheLine(e)
    BY <2>1 DEF OnTheLine
  <2>5. Window(e) => Window(e)'
    BY <1>2, <2>1, <2>2, <2>3, <2>4, WindowAside
  <2> QED BY <1>2, <2>1, <2>2, <2>5, WindowsMoved
<1>5. CASE GoOn(e) \/ Expire(e) \/ FailToConnect(e) \/ HangUp(e) \/ Shutdown(e)
  <2>1. /\ UNCHANGED bufferVars /\ UNCHANGED <<net, received, early, socket>>
        /\ dead \subseteq dead' /\ \A d \in Ends \ {e} : conn'[d] = conn[d]
        /\ conn'[e] # "open"
    BY <1>1, <1>5 DEF GoOn, Expire, FailToConnect, HangUp, Shutdown
  <2>2. caller[e] = "paused" \/ socket[e] \in dead'
    BY <1>1, <1>5 DEF GoOn, Expire, FailToConnect, HangUp, Shutdown, Place
  <2>3. ~OnTheLine(e)'
    BY <2>1, <2>2 DEF OnTheLine, bufferVars
  <2>4. Window(e) => Window(e)'
    BY <1>2, <1>3, <2>1, <2>3, WindowAside
  <2> QED BY <1>2, <1>3, <2>1, <2>4, WindowsMoved
<1>6. CASE Resume(e) \/ PauseDisconnected(e) \/ (EndPause(e) /\ UNCHANGED wireVars)
  <2>1. /\ UNCHANGED <<net, received, early, dead, socket, resent, conn>>
        /\ \A d \in Ends \ {e} : caller'[d] = caller[d]
    BY <1>1, <1>6 DEF Resume, BeginResume, PauseDisconnected, BeginPause, EndPause, wireVars
  <2>2. SameNumbers
    BY <1>6, BalanceNumbers DEF Resume, PauseDisconnected
  <2>3. /\ caller'[e] \in {"paused", "resuming"} \/ socket[e] \in dead
        /\ conn[e] # "open" \/ caller[e] = "paused"
        /\ caller'[e] # "resending"
    BY <1>1, <1>6
       DEF Resume, BeginResume, PauseDisconnected, BeginPause, EndPause, Place
  <2>4. ~OnTheLine(e)'
    BY <2>1, <2>3 DEF OnTheLine
  <2>5. Window(e) => Window(e)'
    BY <1>2, <2>1, <2>2, <2>3, <2>4, WindowAside
  <2> QED BY <1>2, <2>1, <2>2, <2>5, WindowsMoved
<1> QED BY <1>4, <1>5, <1>6, WindowsConnect, WindowsResume DEF ResumeOrPause

----------------------------------------------------------------------------
\* The first acknowledgement on a line says what the others of its kind say.
LEMMA FirstBounds ==
  ASSUME NEW s \in Seq(Frame), s # <<>>
  PROVE  /\ \A n : AcksUpTo(s, n) /\ Head(s).kind = "ack" => Head(s).seqn <= n
         /\ \A n : PackagesUpTo(s, n) /\ Head(s).kind = "package" => Head(s).seqn <= n
         /\ \A n : PackagesAfter(s, n) /\ Head(s).kind = "package" => n < Head(s).seqn
         /\ \A t : AcksBefore(s, t) /\ Head(s).kind = "ack" => PackagesAfter(t, Head(s).seqn)
         /\ NoPackage(s) => Head(s).kind # "package"
         /\ Head(s).kind # "package" /\ NoPackage(Tail(s)) => NoPackage(s)
<1>1. PICK q : q = Tail(s)
  OBVIOUS
<1>2. /\ Len(s) \in Nat \ {0} /\ Head(s) = s[1] /\ Len(q) = Len(s) - 1
      /\ \A i \in 1 .. Len(q) : q[i] = s[i + 1] /\ i + 1 \in 1 .. Len(s)
  BY <1>1, EmptySeq, HeadTailProperties
<1>3. 1 \in 1 .. Len(s)
  BY <1>2
<1>4. ASSUME s[1].kind # "package", NoPackage(q)
      PROVE  NoPackage(s)
  <2>1. ASSUME NEW i \in 1 .. Len(s), i # 1
        PROVE  s[i].kind # "package"
    <3>1. i - 1 \in 1 .. Len(q) /\ q[i - 1] = s[i]
      BY <1>2, <2>1
    <3> QED BY <1>4, <3>1 DEF NoPackage
  <2> QED BY <1>4, <2>1 DEF NoPackage
<1>5. /\ \A n : AcksUpTo(s, n) /\ s[1].kind = "ack" => s[1].seqn <= n
      /\ \A n : PackagesUpTo(s, n) /\ s[1].kind = "package" => s[1].seqn <= n
      /\ \A n : PackagesAfter(s, n) /\ s[1].kind = "package" => n < s[1].seqn
      /\ \A t : AcksBefore(s, t) /\ s[1].kind = "ack" => PackagesAfter(t, s[1].seqn)
      /\ NoPackage(s) => s[1].kind # "package"
  BY <1>3 DEF AcksUpTo, PackagesUpTo, PackagesAfter, AcksBefore, NoPackage
<1> QED BY <1>1, <1>2, <1>4, <1>5

\* An acknowledgement that is read is of what the peer counts, and moves the window up.
LEMMA WindowsAcked ==
  ASSUME Inv, WireTypes, Frames, Places, Windows, NEW e \in Ends, ReceiveAck(e)
  PROVE  Windows'
<1> DEFINE k == socket[e]
           p == Peer(e)
           t == net[k][p]
<1>1. /\ k \in Connections /\ p \in Ends /\ p # e /\ Peer(p) = e /\ \A d \in Ends : d = e \/ d = p
      /\ Arrived(e) = t /\ t # <<>> /\ net'[k][p] = Tail(t)
      /\ \A j \in Connections, d \in Ends : j # k => net'[j][d] = net[j][d]
  BY LinesRead
<1>2. net'[k][e] = net[k][e]
  <2>1. ~ReceivePackage(e)
    BY AckArrives, PackageArrives
  <2> QED BY <2>1, LinesRead
<1>3. /\ t \in Seq(Frame) /\ \A j \in Connections : j \in Nat
      /\ \A d \in Ends : socket[d] \in Nat /\ received[d] \in Nat
      /\ \A d \in Ends : conn[d] = "open" \/ OnTheLine(d) => socket[d] \in Connections
  BY <1>1, NumbersAreNatural DEF OnTheLine, Places, Place
<1>4. PICK n \in Nat : n = Head(t).seqn
  BY <1>1, AckArrives
<1>5. /\ Head(t).kind = "ack" /\ Acknowledge(e, n) /\ caller[e] = "resumed"
      /\ UNCHANGED <<socket, conn, dead, received, early, caller, resent>>
  BY <1>1, <1>4, AckArrives DEF Acknowledge, ReceiveAck, Receiving
<1>6. /\ \A d \in Ends : /\ MaxSent(d)' = MaxSent(d)
                         /\ buffer'[d].current_seqn = buffer[d].current_seqn
      /\ Acked(e)' \in {Acked(e), n} /\ Acked(p)' = Acked(p) /\ Acked(e) \in Nat /\ Acked(p) \in Nat
  BY <1>1, <1>5, AcknowledgeNumbers, OneEnd, Members DEF Numbers, Acked
<1>7. \A d \in Ends : UpTo(d)' = UpTo(d) /\ (OnTheLine(d)' <=> OnTheLine(d))
  BY <1>5, <1>6 DEF UpTo, ResentSeqn, OnTheLine
<1>8. k <= socket[p]
  BY <1>1, <1>3 DEF Frames
<1>9. k = socket[e] /\ p = Peer(e) /\ t = net[k][p]
  OBVIOUS
<1> HIDE DEF k, p, t
<1>10. ASSUME ~early[e]
       PROVE  Window(e)'
  <2>1. Counted(e, p) /\ LinesInOrder(e, p) /\ Answers(e, p) /\ AtEdge(e, p)
    BY <1>9, <1>10 DEF Windows, Window
  <2>2. PICK a \in Nat, b \in Nat, r \in Nat, x \in Nat :
          a = Acked(e) /\ b = Acked(e)' /\ r = received[p] /\ x = socket[p]
    BY <1>1, <1>3, <1>6
  <2>3. AcksUpTo(t, r) /\ n <= r /\ a <= r
    <3>1. AcksUpTo(t, r) /\ a <= r
      BY <1>1, <1>3, <1>9, <2>1, <2>2 DEF Answers, Counted
    <3> QED BY <1>1, <1>3, <1>4, <1>5, <3>1, FirstBounds
  <2>4. b \in {a, n} /\ b <= r
    BY <1>6, <2>2, <2>3
  <2>5. Counted(e, p)'
    BY <1>5, <2>2, <2>4 DEF Counted
  <2>6. ASSUME NEW j \in Connections, x <= j
        PROVE  /\ x = j => Line(net'[j][e], net'[j][p], b, r)
               /\ x < j => Line(net'[j][e], net'[j][p], b, b)
    <3>1. CASE j = k
      <4>1. x = k
        BY <1>3, <1>8, <2>2, <2>6, <3>1
      <4>2. PICK s : s = net[k][e]
        OBVIOUS
      <4>3. Line(s, t, a, r)
        BY <1>9, <1>1, <2>1, <2>2, <4>1, <4>2 DEF LinesInOrder
      <4>4. PackagesAfter(s, n) /\ AcksBefore(Tail(t), s)
        BY <1>1, <1>3, <1>4, <1>5, <4>3, FirstBounds, ChainTail DEF Line
      <4>5. Line(s, Tail(t), b, r)
        BY <2>4, <4>3, <4>4 DEF Line
      <4>6. net'[j][e] = s /\ net'[j][p] = Tail(t) /\ ~(x < j)
        BY <1>1, <1>2, <1>3, <3>1, <4>1, <4>2
      <4> QED BY <4>5, <4>6
    <3>2. CASE j # k
      <4>1. net[j][e] = <<>>
        <5>1. socket[e] < j
          BY <1>1, <1>3, <1>8, <1>9, <2>2, <2>6, <3>2
        <5> QED BY <5>1 DEF Frames
      <4> QED BY <1>1, <3>2, <4>1, EmptyLine
    <3> QED BY <3>1, <3>2
  <2>7. LinesInOrder(e, p)'
    <3>1. \A j \in Connections : (x = j => x <= j) /\ (x < j => x <= j)
      BY <1>3, <2>2
    <3> QED BY <1>5, <2>2, <2>6, <3>1 DEF LinesInOrder
  <2>8. Answers(e, p)'
    <3>1. AcksUpTo(Tail(t), r) /\ (NoAck(t) => NoAck(Tail(t)))
      <4>1. t # <<>> /\ t \in Seq(Frame)
        BY <1>1, <1>3
      <4> QED BY <2>3, <4>1, ChainTail
    <3>2. ASSUME NEW j \in Connections
          PROVE  /\ AcksUpTo(net[j][p], r) => AcksUpTo(net'[j][p], r)
                 /\ NoAck(net[j][p]) => NoAck(net'[j][p])
      BY <1>1, <1>9, <3>1
    <3> QED BY <1>5, <2>1, <2>2, <3>2 DEF Answers
  <2>9. Unsent(e, p)'
    BY <1>5 DEF Unsent
  <2>10. AtEdge(e, p)'
    <3>1. CASE OnTheLine(e)'
      <4>1. PICK u, s : u = UpTo(e) /\ s = net[k][e]
        OBVIOUS
      <4>2. Edge(s, t, u) /\ (NoPackage(s) => (x = k => u <= r))
        BY <1>7, <1>9, <2>1, <2>2, <3>1, <4>1 DEF AtEdge
      <4>3. Edge(s, Tail(t), u)
        BY <1>1, <1>3, <4>2, ChainTail DEF Edge
      <4>4. ~(x < k)
        BY <1>1, <1>3, <1>8, <2>2
      <4> QED BY <1>1, <1>2, <1>5, <1>7, <1>9, <2>2, <4>1, <4>2, <4>3, <4>4 DEF AtEdge
    <3>2. CASE ~OnTheLine(e)'
      BY <3>2 DEF AtEdge
    <3> QED BY <3>1, <3>2
  <2> QED BY <1>9, <2>5, <2>7, <2>8, <2>9, <2>10 DEF Window
<1>11. ASSUME ~early[p]
       PROVE  Window(p)'
  <2>1. /\ Counted(p, e) /\ LinesInOrder(p, e) /\ Answers(p, e) /\ Unsent(p, e) /\ AtEdge(p, e)
    BY <1>1, <1>11 DEF Windows, Window
  <2>2. PICK a \in Nat, r \in Nat, x \in Nat :
          a = Acked(p) /\ r = received[e] /\ x = socket[p]
    BY <1>1, <1>3, <1>6
  <2>3. Counted(p, e)'
    BY <1>1, <1>5, <1>6, <2>1 DEF Counted
  <2>4. /\ NoPackage(Tail(t)) <=> NoPackage(t)
        /\ \A m : /\ PackagesUpTo(t, m) => PackagesUpTo(Tail(t), m)
                  /\ PackagesAfter(t, m) => PackagesAfter(Tail(t), m)
                  /\ Carries(t, Len(t), m) => Carries(Tail(t), Len(Tail(t)), m)
        /\ Chain(t, r) => Chain(Tail(t), r)
    BY <1>1, <1>3, <1>5, <2>2, ChainTail, ChainRead, FirstBounds
  <2>5. LinesInOrder(p, e)'
    <3>1. Line(Tail(t), net[k][e], a, r)
      <4>1. Line(t, net[k][e], a, r)
        BY <1>1, <1>9, <2>1, <2>2 DEF LinesInOrder
      <4> QED BY <2>4, <4>1 DEF Line, AcksBefore
    <3>2. ~(k < k)
      BY <1>1, <1>3
    <3> QED BY <1>1, <1>2, <1>5, <1>6, <1>9, <2>1, <2>2, <3>1, <3>2 DEF LinesInOrder
  <2>6. Answers(p, e)'
    <3>1. \A j \in Connections : net'[j][e] = net[j][e]
      BY <1>1, <1>2
    <3> QED BY <1>5, <2>1, <3>1 DEF Answers
  <2>7. Unsent(p, e)'
    <3>1. conn[p] = "open" => x \in Connections
      BY <1>1, <1>3, <2>2
    <3>2. ASSUME NoPackage(net[x][p]), NoAck(net[x][e]), x \in Connections
          PROVE  NoPackage(net'[x][p]) /\ NoAck(net'[x][e])
      BY <1>1, <1>2, <1>9, <2>4, <3>2
    <3> QED BY <1>5, <2>1, <2>2, <3>1, <3>2 DEF Unsent
  <2>8. AtEdge(p, e)'
    <3>1. CASE OnTheLine(p)'
      <4>1. PICK u, s, v : u = UpTo(p) /\ s = net[x][p] /\ v = net[x][e]
        OBVIOUS
      <4>2. /\ Edge(s, v, u)
            /\ NoPackage(s) => (socket[e] < x => u <= a) /\ (socket[e] = x => u <= r)
        BY <1>1, <1>7, <2>1, <2>2, <3>1, <4>1 DEF AtEdge
      <4>3. x \in Connections
        BY <1>1, <1>3, <1>7, <2>2, <3>1
      <4>4. net'[x][e] = v
        BY <1>1, <1>2, <4>1, <4>3
      <4>5. Edge(net'[x][p], v, u) /\ (NoPackage(net'[x][p]) => NoPackage(s))
        <5>1. CASE x = k
          <6>1. s = t /\ net'[x][p] = Tail(t)
            BY <1>1, <1>9, <4>1, <5>1
          <6> QED BY <2>4, <4>2, <6>1 DEF Edge
        <5>2. CASE x # k
          BY <1>1, <4>1, <4>2, <4>3, <5>2
        <5> QED BY <5>1, <5>2
      <4> QED BY <1>1, <1>5, <1>6, <1>7, <2>2, <4>1, <4>2, <4>4, <4>5 DEF AtEdge
    <3>2. CASE ~OnTheLine(p)'
      BY <3>2 DEF AtEdge
    <3> QED BY <3>1, <3>2
  <2> QED BY <1>1, <2>3, <2>5, <2>6, <2>7, <2>8 DEF Window
<1> QED BY <1>1, <1>5, <1>10, <1>11 DEF Windows

\* An acknowledgement that is sent is the highest, behind those before it.
LEMMA AckSent ==
  ASSUME NEW t \in Seq(Frame), NEW f \in Frame, f.kind = "ack"
  PROVE  /\ \A n : AcksUpTo(t, n) /\ f.seqn <= n => AcksUpTo(Append(t, f), n)
         /\ \A s : AcksBefore(t, s) /\ PackagesAfter(s, f.seqn) => AcksBefore(Append(t, f), s)
<1>1. PICK q \in Seq(Frame) : q = Append(t, f)
  BY CarriesAppend
<1>2. /\ Len(q) = Len(t) + 1 /\ Len(t) \in Nat /\ q[Len(t) + 1] = f
      /\ \A i \in 1 .. Len(t) : q[i] = t[i]
  BY <1>1, CarriesAppend
<1>3. \A i \in 1 .. Len(q) : i \in 1 .. Len(t) \/ i = Len(t) + 1
  BY <1>2
<1> QED BY <1>1, <1>2, <1>3 DEF AcksUpTo, AcksBefore

\* The stream of the end that reads a package gets an acknowledgement at most.
LEMMA WindowAnswers ==
  ASSUME Inv, WireTypes, Frames, Places, NEW e \in Ends, ReceivePackage(e), Window(e)
  PROVE  Window(e)'
<1> DEFINE k == socket[e]
           p == Peer(e)
           t == net[k][p]
           s == net[k][e]
<1>1. /\ k \in Connections /\ p \in Ends /\ p # e /\ Peer(p) = e
      /\ Arrived(e) = t /\ t # <<>> /\ net'[k][p] = Tail(t)
      /\ net'[k][e] = s \/ net'[k][e] = Append(s, Ack(Head(t).seqn))
      /\ \A j \in Connections, d \in Ends : j # k => net'[j][d] = net[j][d]
  BY LinesRead
<1>2. PICK m \in Nat \ {0} : m = Head(t).seqn
  BY <1>1, GotRead
<1>3. /\ UNCHANGED <<buffer, caller, resent, socket, dead>>
      /\ received'[p] = received[p] /\ caller[e] = "resumed"
  <2>1. received \in [Ends -> Nat]
    BY DEF WireTypes
  <2>2. UNCHANGED <<bufferVars, socket, dead>>
    BY PackageArrives
  <2>3. caller[e] = "resumed"
    BY DEF ReceivePackage, Receiving
  <2>4. UNCHANGED received \/ received' = [received EXCEPT ![e] = m]
    BY <1>1, <1>2, GotRead
  <2> QED BY <1>1, <2>1, <2>2, <2>3, <2>4 DEF bufferVars
<1>4. /\ t \in Seq(Frame) /\ s \in Seq(Frame)
      /\ Ack(m) \in Frame /\ Ack(m).kind = "ack" /\ Ack(m).seqn = m
  BY <1>1, <1>2, NumbersAreNatural, FrameSorts
<1>5. k = socket[e] /\ p = Peer(e) /\ t = net[k][p] /\ s = net[k][e]
  OBVIOUS
<1> HIDE DEF k, p, t, s
<1>6. PICK v : v = net'[k][e]
  OBVIOUS
<1>7. /\ v = s \/ v = Append(s, Ack(m))
      /\ \A n : Chain(s, n) => Chain(v, n)
      /\ \A n : PackagesAfter(s, n) => PackagesAfter(v, n)
      /\ \A n : PackagesUpTo(s, n) => PackagesUpTo(v, n)
      /\ NoPackage(v) <=> NoPackage(s)
      /\ \A n : Carries(s, Len(s), n) => Carries(v, Len(v), n)
  <2>1. CASE v = s
    BY <2>1
  <2>2. CASE v = Append(s, Ack(m))
    BY <1>4, <2>2, ChainAcked
  <2> QED BY <1>1, <1>2, <1>6, <2>1, <2>2
<1>8. /\ \A n : AcksUpTo(t, n) => AcksUpTo(Tail(t), n)
      /\ NoAck(t) => NoAck(Tail(t))
      /\ \A x : AcksBefore(t, x) => AcksBefore(Tail(t), x)
  <2>1. t # <<>> /\ t \in Seq(Frame)
    BY <1>1, <1>4
  <2> QED BY <2>1, ChainTail
<1>9. /\ Counted(e, p) /\ LinesInOrder(e, p) /\ Answers(e, p) /\ AtEdge(e, p)
  BY <1>5 DEF Window
<1>10. Acked(e)' = Acked(e) /\ UpTo(e)' = UpTo(e)
       /\ (OnTheLine(e)' <=> OnTheLine(e))
  BY <1>3 DEF Acked, UpTo, ResentSeqn, MaxSent, OnTheLine
<1>11. Counted(e, p)'
  BY <1>3, <1>9, <1>10 DEF Counted
<1>12. ASSUME NEW a, NEW r, Line(s, t, a, r)
       PROVE  Line(v, Tail(t), a, r)
  <2>1. Chain(v, r) /\ PackagesAfter(v, a) /\ AcksBefore(Tail(t), s)
    BY <1>7, <1>8, <1>12 DEF Line
  <2>2. AcksBefore(Tail(t), v)
    BY <1>7, <2>1 DEF AcksBefore
  <2> QED BY <2>1, <2>2 DEF Line
<1>13. LinesInOrder(e, p)'
  BY <1>1, <1>3, <1>5, <1>6, <1>9, <1>10, <1>12 DEF LinesInOrder
<1>14. Answers(e, p)'
  <2>1. \A j \in Connections :
          /\ \A n : AcksUpTo(net[j][p], n) => AcksUpTo(net'[j][p], n)
          /\ NoAck(net[j][p]) => NoAck(net'[j][p])
    BY <1>1, <1>5, <1>8
  <2> QED BY <1>3, <1>9, <2>1 DEF Answers
<1>15. Unsent(e, p)'
  BY <1>3 DEF Unsent
<1>16. AtEdge(e, p)'
  <2>1. CASE OnTheLine(e)'
    <3>1. PICK u : u = UpTo(e)
      OBVIOUS
    <3>2. /\ Edge(s, t, u)
          /\ NoPackage(s) => /\ socket[p] < k => u <= Acked(e)
                             /\ socket[p] = k => u <= received[p]
      BY <1>5, <1>9, <1>10, <2>1, <3>1 DEF AtEdge
    <3>3. Edge(v, Tail(t), u)
      BY <1>7, <1>8, <3>2 DEF Edge
    <3> QED BY <1>1, <1>3, <1>5, <1>6, <1>7, <1>10, <3>1, <3>2, <3>3 DEF AtEdge
  <2>2. CASE ~OnTheLine(e)'
    BY <2>2 DEF AtEdge
  <2> QED BY SMTT(30), <2>1, <2>2
<1> QED BY <1>5, <1>11, <1>13, <1>14, <1>15, <1>16 DEF Window

\* A package that is read is the next to what is counted or one of those before.
LEMMA WindowReads ==
  ASSUME Inv, WireTypes, Frames, Places, NEW e \in Ends, ReceivePackage(e), Window(Peer(e))
  PROVE  Window(Peer(e))'
<1> DEFINE k == socket[e]
           p == Peer(e)
           s == net[k][p]
           t == net[k][e]
<1>1. /\ k \in Connections /\ p \in Ends /\ p # e /\ Peer(p) = e
      /\ Arrived(e) = s /\ s # <<>> /\ net'[k][p] = Tail(s)
      /\ net'[k][e] = t \/ net'[k][e] = Append(t, Ack(Head(s).seqn))
      /\ \A j \in Connections, d \in Ends : j # k => net'[j][d] = net[j][d]
  BY LinesRead
<1>2. /\ s \in Seq(Frame) /\ t \in Seq(Frame) /\ Head(s).kind = "package"
      /\ socket[p] \in Nat /\ received[e] \in Nat /\ \A j \in Connections : j \in Nat
      /\ conn[p] = "open" \/ OnTheLine(p) => socket[p] \in Connections
  BY <1>1, NumbersAreNatural, PackageArrives DEF OnTheLine, Places, Place
<1>3. PICK m \in Nat \ {0} : m = Head(s).seqn
  BY <1>1, GotRead
<1>4. PICK a \in Nat, r \in Nat, x \in Nat :
        a = Acked(p) /\ r = received[e] /\ x = socket[p]
  BY <1>1, <1>2, OneEnd, Members DEF Acked
<1>5. PICK q \in Nat : /\ received'[e] = q /\ q \in {r, m} /\ m <= q
                       /\ UNCHANGED <<buffer, caller, resent, socket, dead>>
                       /\ UNCHANGED conn
  <2>1. received \in [Ends -> Nat]
    BY DEF WireTypes
  <2>2. UNCHANGED <<bufferVars, socket, conn, dead>>
    BY PackageArrives
  <2>3. \/ m <= r /\ UNCHANGED received
        \/ received' = [received EXCEPT ![e] = m]
    BY <1>1, <1>3, <1>4, GotRead
  <2> QED BY <1>1, <1>4, <2>1, <2>2, <2>3 DEF bufferVars
<1>6. Ack(m) \in Frame /\ Ack(m).kind = "ack" /\ Ack(m).seqn = m
  BY FrameSorts
<1>7. k <= x
  BY <1>1, <1>2, <1>4 DEF Frames
<1>8. k = socket[e] /\ p = Peer(e) /\ s = net[k][p] /\ t = net[k][e]
  OBVIOUS
<1> HIDE DEF k, p, s, t
<1>9. PICK v : v = net'[k][e]
  OBVIOUS
<1>10. /\ Counted(p, e) /\ LinesInOrder(p, e) /\ Answers(p, e) /\ Unsent(p, e) /\ AtEdge(p, e)
       /\ Line(s, t, a, r)
  <2>1. Counted(p, e) /\ LinesInOrder(p, e) /\ Answers(p, e) /\ Unsent(p, e) /\ AtEdge(p, e)
    BY <1>1, <1>8 DEF Window
  <2> QED BY <1>1, <1>4, <1>8, <2>1 DEF LinesInOrder
<1>11. /\ m <= r + 1 /\ a < m /\ PackagesAfter(Tail(s), m) /\ PackagesAfter(Tail(s), a)
       /\ Chain(Tail(s), m) /\ Tail(s) \in Seq(Frame) /\ AcksBefore(t, Tail(s))
  <2>1. s # <<>> /\ s \in Seq(Frame)
    BY <1>1, <1>2
  <2>2. Chain(s, r) /\ PackagesAfter(s, a) /\ AcksBefore(t, s)
    BY <1>10 DEF Line
  <2>3. a < m /\ PackagesAfter(Tail(s), a)
    BY <1>2, <1>3, <2>1, <2>2, FirstBounds, ChainTail
  <2>4. m <= r + 1 /\ PackagesAfter(Tail(s), m) /\ Chain(Tail(s), m)
    BY <1>2, <1>3, <2>1, <2>2, ChainRead
  <2>5. Tail(s) \in Seq(Frame)
    BY <2>1, HeadTailProperties
  <2>6. AcksBefore(t, Tail(s))
    BY <2>1, <2>2, ChainTail DEF AcksBefore
  <2> QED BY <2>3, <2>4, <2>5, <2>6
<1>12. AcksBefore(v, Tail(s))
  <2>1. CASE v = t
    BY <1>11, <2>1
  <2>2. CASE v = Append(t, Ack(m))
    BY <1>2, <1>6, <1>11, <2>2, AckSent
  <2> QED BY <1>1, <1>3, <1>9, <2>1, <2>2
<1>13. AcksUpTo(v, m)
  <2>1. AcksUpTo(t, m)
    <3>1. ASSUME NEW i \in 1 .. Len(t), t[i].kind = "ack"
          PROVE  t[i].seqn <= m
      <4>1. PackagesAfter(s, t[i].seqn)
        BY <1>10, <3>1 DEF Line, AcksBefore
      <4>2. s # <<>> /\ s \in Seq(Frame)
        BY <1>1, <1>2
      <4>3. t[i].seqn < m
        BY <1>2, <1>3, <4>1, <4>2, FirstBounds
      <4>4. t[i].seqn \in Nat
        BY <1>2, SeqnIsNatural
      <4> QED BY <4>3, <4>4
    <3> QED BY <3>1 DEF AcksUpTo
  <2>2. CASE v = t
    BY <2>1, <2>2
  <2>3. CASE v = Append(t, Ack(m))
    BY <1>2, <1>6, <2>1, <2>3, AckSent
  <2> QED BY <1>1, <1>3, <1>9, <2>2, <2>3
<1>14. Acked(p)' = a /\ UpTo(p)' = UpTo(p) /\ (OnTheLine(p)' <=> OnTheLine(p))
  BY <1>4, <1>5 DEF Acked, UpTo, ResentSeqn, MaxSent, OnTheLine
<1>15. Counted(p, e)'
  <2>1. a <= q /\ (caller[p] = "resending" => buffer[p].current_seqn = a + 1)
    BY <1>4, <1>5, <1>10, <1>11 DEF Counted
  <2> QED BY <1>5, <1>14, <2>1 DEF Counted
<1>16. LinesInOrder(p, e)'
  <2>1. Line(Tail(s), v, a, q)
    <3>1. Chain(Tail(s), q)
      BY <1>5, <1>11, ChainMore
    <3> QED BY <1>11, <1>12, <3>1 DEF Line
  <2>2. ~(k < k)
    BY <1>1, <1>2
  <2> QED BY <1>1, <1>4, <1>5, <1>8, <1>9, <1>10, <1>14, <2>1, <2>2 DEF LinesInOrder
<1>17. Answers(p, e)'
  <2>1. ASSUME NEW j \in Connections, x <= j
        PROVE  AcksUpTo(net'[j][e], q)
    <3>1. CASE j = k
      <4>1. \A i \in 1 .. Len(v) : v[i].kind = "ack" => v[i].seqn <= m
        BY <1>13 DEF AcksUpTo
      <4>2. v \in Seq(Frame)
        BY ZenonT(30), <1>1, <1>2, <1>3, <1>6, <1>9, CarriesAppend
      <4>3. \A i \in 1 .. Len(v) : v[i].kind = "ack" => v[i].seqn <= q
        BY <1>5, <4>1, <4>2, SeqnIsNatural
      <4> QED BY <1>9, <3>1, <4>3 DEF AcksUpTo
    <3>2. CASE j # k
      <4>1. socket[e] < j
        BY <1>1, <1>2, <1>7, <1>8, <2>1, <3>2
      <4>2. net'[j][e] = <<>>
        BY <1>1, <3>2, <4>1 DEF Frames
      <4> QED BY <4>2 DEF AcksUpTo
    <3> QED BY <3>1, <3>2
  <2>2. ASSUME NEW j \in Connections, x < j
        PROVE  NoAck(net'[j][e])
    <3>1. j # k
      BY <1>1, <1>2, <1>7, <2>2
    <3>2. NoAck(net[j][e])
      BY <1>4, <1>10, <2>2 DEF Answers
    <3> QED BY <1>1, <3>1, <3>2
  <2> QED BY <1>4, <1>5, <2>1, <2>2 DEF Answers
<1>18. Unsent(p, e)'
  <2>1. ASSUME conn[p] = "open", caller[p] \in {"paused", "resuming"}
        PROVE  NoPackage(net'[x][p]) /\ NoAck(net'[x][e])
    <3>1. NoPackage(net[x][p]) /\ NoAck(net[x][e]) /\ x \in Connections
      BY <1>2, <1>4, <1>10, <2>1 DEF Unsent
    <3>2. x # k
      <4>1. s # <<>> /\ s \in Seq(Frame)
        BY <1>1, <1>2
      <4>2. ~NoPackage(s)
        BY <1>2, <4>1, FirstBounds
      <4> QED BY <1>8, <3>1, <4>2
    <3> QED BY <1>1, <3>1, <3>2
  <2> QED BY <1>4, <1>5, <2>1 DEF Unsent
<1>19. AtEdge(p, e)'
  <2>1. CASE OnTheLine(p)'
    <3>1. PICK u \in Nat : u = UpTo(p)
      BY <1>1, UpToIsNatural
    <3>2. /\ Edge(net[x][p], net[x][e], u) /\ x \in Connections
          /\ NoPackage(net[x][p]) => (k < x => u <= a)
      BY <1>2, <1>4, <1>8, <1>10, <1>14, <2>1, <3>1 DEF AtEdge
    <3>3. CASE x = k
      <4>1. PackagesUpTo(s, u) /\ (NoPackage(s) \/ Carries(s, Len(s), u))
        BY <1>8, <3>2, <3>3 DEF Edge
      <4>2. s # <<>> /\ s \in Seq(Frame)
        BY <1>1, <1>2
      <4>3. m <= u /\ Carries(s, Len(s), u) /\ PackagesUpTo(Tail(s), u)
        BY <1>2, <1>3, <4>1, <4>2, FirstBounds, ChainTail
      <4>4. Carries(Tail(s), Len(Tail(s)), u) \/ m = u
        BY <1>3, <4>2, <4>3, ChainTail
      <4>5. m = u => NoPackage(Tail(s))
        <5>1. \A i \in 1 .. Len(Tail(s)) : Tail(s)[i].seqn \in Nat
          BY <1>11, SeqnIsNatural
        <5> QED BY <1>11, <4>3, <5>1 DEF PackagesAfter, PackagesUpTo, NoPackage
      <4>6. Edge(Tail(s), v, u)
        <5>1. AcksUpTo(v, u)
          <6>1. v \in Seq(Frame)
            BY ZenonT(30), <1>1, <1>2, <1>3, <1>6, <1>9, CarriesAppend
          <6> QED BY <1>13, <4>3, <6>1, SeqnIsNatural DEF AcksUpTo
        <5> QED BY <4>3, <4>4, <4>5, <5>1 DEF Edge
      <4>7. NoPackage(Tail(s)) => u <= q
        <5>1. NoPackage(Tail(s)) => ~Carries(Tail(s), Len(Tail(s)), u)
          BY DEF NoPackage, Carries
        <5> QED BY <1>5, <4>4, <5>1
      <4>8. ~(k < x)
        BY <1>1, <1>2, <3>3
      <4> QED BY <1>1, <1>4, <1>5, <1>8, <1>9, <1>14, <3>1, <3>3, <4>6, <4>7, <4>8 DEF AtEdge
    <3>4. CASE x # k
      <4>1. net'[x][p] = net[x][p] /\ net'[x][e] = net[x][e]
        BY <1>1, <3>2, <3>4
      <4> QED BY <1>4, <1>5, <1>8, <1>14, <3>1, <3>2, <3>4, <4>1 DEF AtEdge
    <3> QED BY <3>3, <3>4
  <2>2. CASE ~OnTheLine(p)'
    BY <2>2 DEF AtEdge
  <2> QED BY <2>1, <2>2
<1> QED BY <1>1, <1>8, <1>15, <1>16, <1>17, <1>18, <1>19 DEF Window

\* What arrives keeps the windows of both ends.
LEMMA WindowsReceived ==
  ASSUME Inv, WireTypes, Frames, Places, Windows, NEW e \in Ends, ReceivePackage(e)
  PROVE  Windows'
<1>1. UNCHANGED early
  BY PackageArrives
<1>2. ASSUME NEW d \in Ends, ~early'[d]
      PROVE  Window(d)'
  <2>1. Window(d) /\ Peer(e) \in Ends /\ (d = e \/ d = Peer(e))
    BY <1>1, <1>2, PeerIs DEF Windows
  <2>2. CASE d = e
    BY <2>1, <2>2, WindowAnswers
  <2>3. CASE d = Peer(e)
    <3>1. Window(Peer(e))'
      BY <2>1, <2>3, WindowReads
    <3> QED BY <2>3, <3>1
  <2> QED BY <2>1, <2>2, <2>3
<1> QED BY <1>2 DEF Windows

\* Every step keeps them.
LEMMA WindowsStep ==
  ASSUME Inv, WireTypes, Frames, Places, Windows, WireNext
  PROVE  Windows'
<1>1. ASSUME UNCHANGED wireVars, SameNumbers, UNCHANGED <<caller, resent>>
      PROVE  Windows'
  BY <1>1, WindowsAside DEF wireVars
<1>2. ASSUME NEW e \in Ends, (Put(e) \/ WakeUp(e)) /\ UNCHANGED wireVars
      PROVE  Windows'
  BY <1>1, <1>2, PutNumbers, ThreadNumbers DEF Put, WakeUp
<1>3. ASSUME NEW e \in Ends, SenderThread(e)
      PROVE  Windows'
  <2>1. CASE ThreadProc(e) /\ UNCHANGED wireVars
    <3>1. UNCHANGED <<caller, resent>>
      BY <2>1 DEF ThreadProc, ReturnFromThread, Wait, TakeData, BeginProcess, EndProcess
    <3> QED BY <1>1, <2>1, <3>1, ThreadNumbers
  <2> QED BY <1>3, <2>1, WindowsSent DEF SenderThread
<1>4. ASSUME NEW e \in Ends, ConnectionThread(e)
      PROVE  Windows'
  BY <1>4, WindowsConnection, WindowsResent, WindowsReceived, WindowsAcked DEF ConnectionThread
<1>5. ASSUME NEW e \in Ends, BeginTermination(e) \/ TerminatingThread(e)
      PROVE  Windows'
  <2>1. SameNumbers
    <3>1. CASE BeginTermination(e) \/ CloseSocket(e) \/ Join(e)
      BY <3>1 DEF BeginTermination, CloseSocket, Join, bufferVars, SameNumbers
    <3>2. CASE StopBuffer(e) \/ BufferStopped(e)
      BY <3>2, StateNumbers DEF StopBuffer, BufferStopped
    <3> QED BY <1>5, <3>1, <3>2 DEF TerminatingThread
  <2>2. /\ UNCHANGED <<net, received, caller, resent, conn, socket, early>>
        /\ dead \subseteq dead'
    BY <1>5 DEF BeginTermination, TerminatingThread, StopBuffer, BufferStopped, CloseSocket,
       Join, Terminate0, Cleanup0, bufferVars, wireVars
  <2> QED BY <2>1, <2>2, WindowsAside
<1>6. ASSUME NEW k \in Connections, Break(k)
      PROVE  Windows'
  BY <1>6, WindowsAside DEF Break, bufferVars, SameNumbers
<1> QED BY <1>2, <1>3, <1>4, <1>5, <1>6 DEF WireNext

----------------------------------------------------------------------------
(***************************************************************************)
(* What an end has accepted since package 1 came last: the numbers from 1  *)
(* to what it counts.                                                      *)
(***************************************************************************)
Ones(a) == {i \in 1 .. Len(a) : a[i] = 1}

FromOne(a) ==
  IF Ones(a) = {} THEN a
  ELSE SubSeq(a, CHOOSE i \in Ones(a) : \A j \in Ones(a) : j <= i, Len(a))

IsLastOne(a, i) == i \in Ones(a) /\ \A j \in Ones(a) : j <= i

LastOneIs(a) == Ones(a) = {} \/ \E i \in Ones(a) : IsLastOne(a, i)

\* SinceOne is a function of the sequence.
LEMMA SinceIsFromOne ==
  ASSUME NEW e \in Ends
  PROVE  SinceOne(e) = FromOne(accepted[e])
BY DEF SinceOne, FromOne, Ones

\* It begins at the last 1.
LEMMA FromLastOne ==
  ASSUME NEW a \in Seq(Nat), NEW i, IsLastOne(a, i)
  PROVE  /\ FromOne(a) = SubSeq(a, i, Len(a)) /\ i \in 1 .. Len(a) /\ Len(a) \in Nat
         /\ FromOne(a) \in Seq(Nat) /\ Len(FromOne(a)) = Len(a) - i + 1
         /\ \A j \in 1 .. Len(a) - i + 1 : FromOne(a)[j] = a[i + j - 1]
<1>1. Len(a) \in Nat /\ i \in 1 .. Len(a) /\ \A j \in 1 .. Len(a) : a[j] \in Nat
  BY LenProperties, ElementOfSeq DEF IsLastOne, Ones
<1>2. PICK S : S = Ones(a)
  OBVIOUS
<1>3. S \subseteq Nat /\ i \in S /\ \A j \in S : j <= i
  BY <1>1, <1>2 DEF IsLastOne, Ones
<1>4. PICK c : c = CHOOSE x \in S : \A j \in S : j <= x
  OBVIOUS
<1>5. c \in S /\ \A j \in S : j <= c
  BY <1>3, <1>4
<1>6. c = i
  BY <1>3, <1>5
<1>7. FromOne(a) = SubSeq(a, i, Len(a))
  BY <1>2, <1>3, <1>4, <1>6 DEF FromOne
<1>8. /\ SubSeq(a, i, Len(a)) \in Seq(Nat)
      /\ Len(SubSeq(a, i, Len(a))) = Len(a) - i + 1
      /\ \A j \in 1 .. Len(a) - i + 1 : SubSeq(a, i, Len(a))[j] = a[i + j - 1]
  <2>1. i \in Int /\ Len(a) \in Int /\ i <= Len(a) /\ \A j \in i .. Len(a) : a[j] \in Nat
    BY <1>1
  <2> QED BY <2>1, SubSeqProperties
<1> QED BY <1>1, <1>7, <1>8

\* With 1 it begins again, with another number it goes on.
LEMMA FromOneAppend ==
  ASSUME NEW a \in Seq(Nat), LastOneIs(a), NEW m \in Nat
  PROVE  /\ LastOneIs(Append(a, m)) /\ FromOne(a) \in Seq(Nat)
         /\ m = 1 => FromOne(Append(a, m)) = <<1>>
         /\ m # 1 => FromOne(Append(a, m)) = Append(FromOne(a), m)
<1>1. PICK b \in Seq(Nat) : b = Append(a, m)
  BY AppendProperties
<1>2. /\ Len(a) \in Nat /\ Len(b) = Len(a) + 1 /\ b[Len(a) + 1] = m
      /\ \A i \in 1 .. Len(a) : b[i] = a[i]
  BY <1>1, AppendProperties, LenProperties
<1>3. FromOne(a) \in Seq(Nat)
  BY FromLastOne DEF LastOneIs, FromOne
<1>4. CASE m = 1
  <2>1. IsLastOne(b, Len(a) + 1)
    BY <1>2, <1>4 DEF IsLastOne, Ones
  <2>2. PICK s \in Seq(Nat) : s = FromOne(b)
    BY <2>1, FromLastOne
  <2>3. Len(s) = 1 /\ s[1] = 1
    <3>1. Len(s) = Len(b) - (Len(a) + 1) + 1
      BY <2>1, <2>2, FromLastOne
    <3>2. Len(s) = 1
      BY <1>2, <3>1
    <3>3. PICK l \in Nat : l = Len(a) + 1
      BY <1>2
    <3>4. \A j \in 1 .. Len(b) - l + 1 : FromOne(b)[j] = b[l + j - 1]
      <4>1. IsLastOne(b, l)
        BY <2>1, <3>3
      <4> QED BY ZenonT(30), <4>1, FromLastOne
    <3>5. 1 \in 1 .. Len(b) - l + 1 /\ l + 1 - 1 = l /\ b[l] = 1
      BY <1>2, <1>4, <3>3
    <3> QED BY <2>2, <3>2, <3>4, <3>5
  <2>4. s = <<1>>
    BY <2>3
  <2> QED BY <1>1, <1>3, <1>4, <2>1, <2>2, <2>4 DEF LastOneIs, IsLastOne
<1>5. CASE m # 1
  <2>1. Ones(b) = Ones(a)
    BY <1>2, <1>5 DEF Ones
  <2>2. CASE Ones(a) = {}
    BY <1>1, <1>3, <1>5, <2>1, <2>2 DEF FromOne, LastOneIs
  <2>3. ASSUME NEW i \in Ones(a), IsLastOne(a, i)
        PROVE  LastOneIs(b) /\ FromOne(b) = Append(FromOne(a), m)
    <3>1. IsLastOne(b, i)
      BY <2>1, <2>3 DEF IsLastOne
    <3>2. PICK s \in Seq(Nat) : s = FromOne(a)
      BY <1>3
    <3>3. PICK t \in Seq(Nat) : t = FromOne(b)
      BY <3>1, FromLastOne
    <3>4. PICK u \in Seq(Nat) : u = Append(s, m)
      BY AppendProperties
    <3>5. /\ Len(s) = Len(a) - i + 1 /\ i \in 1 .. Len(a)
          /\ \A j \in 1 .. Len(a) - i + 1 : s[j] = a[i + j - 1]
      <4>1. /\ Len(FromOne(a)) = Len(a) - i + 1 /\ i \in 1 .. Len(a)
            /\ \A j \in 1 .. Len(a) - i + 1 : FromOne(a)[j] = a[i + j - 1]
        <5>1. IsLastOne(a, i)
          BY <2>3
        <5>2. Len(FromOne(a)) = Len(a) - i + 1 /\ i \in 1 .. Len(a)
          BY <5>1, FromLastOne
        <5>3. \A j \in 1 .. Len(a) - i + 1 : FromOne(a)[j] = a[i + j - 1]
          BY <5>1, FromLastOne
        <5> QED BY <5>2, <5>3
      <4> QED BY <3>2, <4>1
    <3>6. /\ Len(t) = Len(b) - i + 1
          /\ \A j \in 1 .. Len(b) - i + 1 : t[j] = b[i + j - 1]
      <4>1. /\ Len(FromOne(b)) = Len(b) - i + 1
            /\ \A j \in 1 .. Len(b) - i + 1 : FromOne(b)[j] = b[i + j - 1]
        BY <3>1, FromLastOne
      <4> QED BY <3>3, <4>1
    <3>7. Len(u) = Len(s) + 1 /\ u[Len(s) + 1] = m /\ \A j \in 1 .. Len(s) : u[j] = s[j]
      BY <3>4, AppendProperties
    <3>8. Len(t) = Len(u) /\ Len(u) \in Nat
      BY <1>2, <3>5, <3>6, <3>7
    <3>9. ASSUME NEW j \in 1 .. Len(u)
          PROVE  t[j] = u[j]
      <4>1. t[j] = b[i + j - 1]
        BY <3>6, <3>8
      <4>2. CASE j = Len(s) + 1
        <5>1. i + j - 1 = Len(a) + 1
          BY <1>2, <3>5, <4>2
        <5> QED BY <1>2, <3>7, <4>1, <4>2, <5>1
      <4>3. CASE j \in 1 .. Len(s)
        <5>1. i + j - 1 \in 1 .. Len(a) /\ j \in 1 .. Len(a) - i + 1
          BY <1>2, <3>5, <4>3
        <5> QED BY <1>2, <3>5, <3>7, <4>1, <4>3, <5>1
      <4>4. Len(s) \in Nat /\ Len(u) = Len(s) + 1
        BY <1>2, <3>5, <3>7
      <4> QED BY <4>2, <4>3, <4>4
    <3>10. t = u
      BY <3>8, <3>9, SeqEqual
    <3> QED BY <3>1, <3>2, <3>3, <3>4, <3>10 DEF LastOneIs, IsLastOne
  <2> QED BY <1>1, <1>3, <1>5, <2>2, <2>3 DEF LastOneIs
<1> QED BY <1>4, <1>5

Turns ==
  \A e \in Ends :
    /\ LastOneIs(accepted[e])
    /\ ~early[Peer(e)] => Holds(FromOne(accepted[e]), 1, received[e])

\* A package that arrives is the next or one of those before, if none was early.
LEMMA NextCounted ==
  ASSUME Inv, WireTypes, Frames, Places, NEW e \in Ends, ReceivePackage(e), Window(Peer(e))
  PROVE  Head(Arrived(e)).seqn <= received[e] + 1
<1> DEFINE k == socket[e]
           p == Peer(e)
           s == net[k][p]
<1>1. k \in Connections /\ p \in Ends /\ Peer(p) = e /\ Arrived(e) = s /\ s # <<>>
  BY LinesRead
<1>2. PICK r \in Nat : r = received[e]
  BY NumbersAreNatural
<1>3. s \in Seq(Frame) /\ Head(s).kind = "package"
  BY <1>1, NumbersAreNatural, PackageArrives
<1>4. Chain(s, r)
  BY <1>1, <1>2 DEF Window, LinesInOrder, Line
<1> HIDE DEF k, p, s
<1> QED BY <1>1, <1>2, <1>3, <1>4, ChainRead

\* What the acceptance of a package makes of what came since package 1.
LEMMA SinceAccepted ==
  ASSUME WireTypes, Turns, NEW e \in Ends, NEW m \in Nat \ {0},
         accepted' = [accepted EXCEPT ![e] = Append(@, m)]
  PROVE  /\ \A d \in Ends \ {e} : accepted'[d] = accepted[d] /\ SinceOne(d)' = SinceOne(d)
         /\ LastOneIs(accepted'[e])
         /\ m = 1 => SinceOne(e)' = <<1>>
         /\ m # 1 => SinceOne(e)' = Append(SinceOne(e), m)
         /\ SinceOne(e)' = FromOne(accepted'[e])
<1>1. accepted \in [Ends -> Seq(Nat)]
  BY DEF WireTypes
<1>2. PICK a \in Seq(Nat) : a = accepted[e]
  BY <1>1
<1>9. PICK b : b = Append(a, m)
  OBVIOUS
<1>3. accepted'[e] = b /\ \A d \in Ends \ {e} : accepted'[d] = accepted[d]
  BY <1>1, <1>2, <1>9
<1>4. LastOneIs(a)
  BY <1>2 DEF Turns
<1>5. /\ LastOneIs(b)
      /\ m = 1 => FromOne(b) = <<1>>
      /\ m # 1 => FromOne(b) = Append(FromOne(a), m)
  BY <1>2, <1>4, <1>9, FromOneAppend
<1>6. SinceOne(e) = FromOne(a)
  BY <1>2, SinceIsFromOne
<1>7. SinceOne(e)' = FromOne(b)
  <2>1. SinceOne(e)' = FromOne(accepted'[e])
    BY DEF SinceOne, FromOne, Ones
  <2> QED BY <1>3, <2>1
<1>8. \A d \in Ends \ {e} : SinceOne(d)' = SinceOne(d)
  BY <1>3 DEF SinceOne
<1> QED BY <1>3, <1>5, <1>6, <1>7, <1>8

\* Every step keeps the turns.
LEMMA TurnsStep ==
  ASSUME Inv, WireTypes, Frames, Places, Windows, Turns, WireNext
  PROVE  Turns'
<1>1. ASSUME UNCHANGED <<accepted, received>>, \A d \in Ends : early[d] => early'[d]
      PROVE  Turns'
  BY <1>1, PeerIs DEF Turns
<1>2. ASSUME NEW e \in Ends, ReceivePackage(e)
      PROVE  Turns'
  <2>1. PICK m \in Nat \ {0} : m = Head(Arrived(e)).seqn
    BY <1>2, GotRead
  <2>2. UNCHANGED early /\ Peer(e) \in Ends
    BY <1>2, PackageArrives, PeerIs
  <2>3. CASE UNCHANGED <<received, accepted>>
    BY <1>1, <2>2, <2>3
  <2>4. CASE /\ ~(m <= received[e] /\ m # 1)
             /\ received' = [received EXCEPT ![e] = m]
             /\ accepted' = [accepted EXCEPT ![e] = Append(@, m)]
    <3>1. received \in [Ends -> Nat] /\ accepted \in [Ends -> Seq(Nat)]
      BY DEF WireTypes
    <3>2. /\ \A d \in Ends \ {e} : accepted'[d] = accepted[d]
          /\ LastOneIs(accepted'[e])
          /\ m = 1 => SinceOne(e)' = <<1>>
          /\ m # 1 => SinceOne(e)' = Append(SinceOne(e), m)
          /\ SinceOne(e)' = FromOne(accepted'[e])
      BY <2>4, SinceAccepted
    <3>3. received'[e] = m /\ \A d \in Ends \ {e} : received'[d] = received[d]
      BY <2>4, <3>1
    <3>4. ASSUME ~early[Peer(e)]
          PROVE  Holds(FromOne(accepted'[e]), 1, m)
      <4>1. CASE m = 1
        <5>1. Holds(<<1>>, 1, 1)
          BY DEF Holds
        <5> QED BY <3>2, <4>1, <5>1
      <4>2. CASE m # 1
        <5>1. PICK r \in Nat : r = received[e]
          BY <3>1
        <5>2. m <= r + 1
          <6>1. Window(Peer(e))
            BY <2>2, <3>4 DEF Windows
          <6> QED BY <1>2, <2>1, <5>1, <6>1, NextCounted
        <5>3. m = r + 1
          BY <2>4, <4>2, <5>1, <5>2
        <5>4. PICK s \in Seq(Nat) : s = FromOne(accepted[e])
          <6>1. PICK a \in Seq(Nat) : a = accepted[e]
            BY <3>1
          <6>2. LastOneIs(a)
            BY <6>1 DEF Turns
          <6>3. FromOne(a) \in Seq(Nat)
            BY <6>1, <6>2, FromOneAppend
          <6> QED BY <6>1, <6>3
        <5>5. Holds(s, 1, r)
          BY <3>4, <5>1, <5>4 DEF Turns
        <5>6. Holds(Append(s, r + 1), 1, r + 1)
          BY <5>5, HoldsAppend
        <5>7. FromOne(accepted'[e]) = Append(s, m)
          BY <3>2, <4>2, <5>4, SinceIsFromOne
        <5> QED BY <5>3, <5>6, <5>7
      <4> QED BY <4>1, <4>2
    <3>5. ASSUME NEW d \in Ends
          PROVE  /\ LastOneIs(accepted'[d])
                 /\ ~early'[Peer(d)] => Holds(FromOne(accepted'[d]), 1, received'[d])
      <4>1. CASE d = e
        BY <2>2, <3>2, <3>3, <3>4, <4>1
      <4>2. CASE d # e
        BY <2>2, <3>2, <3>3, <4>2 DEF Turns
      <4> QED BY <4>1, <4>2
    <3> QED BY <3>5 DEF Turns
  <2> QED BY <1>2, <2>1, <2>3, <2>4, PackageArrives
<1>3. ASSUME NEW e \in Ends, SendNew(e)
      PROVE  \A d \in Ends : early[d] => early'[d]
  BY <1>3, SendNewSends
<1>4. ASSUME NEW e \in Ends, SendNew(e)
      PROVE  Turns'
  <2>1. UNCHANGED <<accepted, received>>
    BY <1>4 DEF SendNew
  <2> QED BY <1>1, <1>3, <1>4, <2>1
<1>5. ASSUME UNCHANGED <<accepted, received, early>>
      PROVE  Turns'
  BY <1>1, <1>5
<1>6. \/ UNCHANGED <<accepted, received, early>>
      \/ \E e \in Ends : ReceivePackage(e) \/ SendNew(e)
  <2>1. ASSUME NEW e \in Ends, ConnectionThread(e), ~ReceivePackage(e)
        PROVE  UNCHANGED <<accepted, received, early>>
    BY <2>1 DEF ConnectionThread, GoOn, Expire, Connect, FailToConnect, Resume, ResumeOrPause,
       Resend, ReceiveAck, HangUp, PauseDisconnected, Shutdown, wireVars
  <2>2. ASSUME NEW e \in Ends, BeginTermination(e) \/ TerminatingThread(e)
        PROVE  UNCHANGED <<accepted, received, early>>
    BY <2>2 DEF BeginTermination, TerminatingThread, StopBuffer, BufferStopped, CloseSocket,
       Join, wireVars
  <2>3. ASSUME NEW e \in Ends, SenderThread(e), ~SendNew(e)
        PROVE  UNCHANGED <<accepted, received, early>>
    BY <2>3 DEF SenderThread, wireVars
  <2>4. ASSUME NEW k \in Connections, Break(k)
        PROVE  UNCHANGED <<accepted, received, early>>
    BY <2>4 DEF Break
  <2>5. UNCHANGED wireVars => UNCHANGED <<accepted, received, early>>
    BY DEF wireVars
  <2> QED BY <2>1, <2>2, <2>3, <2>4, <2>5 DEF WireNext
<1> QED BY <1>2, <1>4, <1>5, <1>6

----------------------------------------------------------------------------
\* Each end has put what it has sent.
LEMMA SentIsPut ==
  ASSUME Inv, NEW e \in Ends
  PROVE  MaxSent(e) <= puts[e] /\ puts[e] \in Nat
<1>1. /\ buffer[e].queue \in Seq(Nat) /\ buffer[e].data \in Seq(Nat) /\ puts[e] \in Nat
      /\ MaxSent(e) \in Nat
  BY OneEnd, Members DEF MaxSent, Inv, TypeOK
<1>2. PICK s \in Seq(Nat) : s = buffer[e].queue \o buffer[e].data
  BY <1>1, QueueThenData
<1>3. Len(s) = puts[e] + 1 - (MaxSent(e) + 1) /\ Len(s) \in Nat
  BY <1>1, <1>2, LenProperties DEF Inv, EveryPutIsKept, Holds, MaxSent
<1> QED BY <1>1, <1>3

\* A package that is accepted arrives on the channel.
LEMMA ArrivesOnChannel ==
  ASSUME WireInv, Windows, Turns, NEW e \in Ends, ReceivePackage(e)
  PROVE  \/ Channel!Next \/ BeginsAgain \/ \E d \in Ends : early'[d]
         \/ UNCHANGED <<puts, accepted>>
<1> USE DEF WireInv
<1>1. PICK m \in Nat \ {0} : m = Head(Arrived(e)).seqn
  BY GotRead
<1>2. UNCHANGED early /\ puts' = puts /\ Peer(e) \in Ends
  BY PackageArrives, PeerIs DEF bufferVars
<1>3. CASE accepted' = accepted
  BY <1>2, <1>3
<1>4. CASE early[Peer(e)]
  BY <1>2, <1>4
<1>5. CASE /\ ~early[Peer(e)] /\ ~(m <= received[e] /\ m # 1)
           /\ accepted' = [accepted EXCEPT ![e] = Append(@, m)]
  <2>1. /\ \A d \in Ends \ {e} : SinceOne(d)' = SinceOne(d)
        /\ m = 1 => SinceOne(e)' = <<1>>
        /\ m # 1 => SinceOne(e)' = Append(SinceOne(e), m)
    BY <1>5, SinceAccepted
  <2>2. CASE m = 1
    <3>1. Delivered' = [Delivered EXCEPT ![e] = <<1>>]
      BY <2>1, <2>2 DEF Delivered
    <3> QED BY <3>1 DEF BeginsAgain
  <2>3. CASE m # 1
    <3>1. PICK r \in Nat : r = received[e]
      BY NumbersAreNatural
    <3>2. m = r + 1
      <4>1. Window(Peer(e))
        BY <1>2, <1>5 DEF Windows
      <4>2. m <= r + 1
        BY <1>1, <3>1, <4>1, NextCounted
      <4> QED BY <1>5, <2>3, <3>1, <4>2
    <3>3. PICK s : s = SinceOne(e)
      OBVIOUS
    <3>4. Len(s) = r
      <4>1. Holds(s, 1, r)
        BY <1>5, <3>1, <3>3, SinceIsFromOne DEF Turns
      <4> QED BY <3>1, <4>1 DEF Holds
    <3>5. Delivered' = [Delivered EXCEPT ![e] = Append(s, Len(s) + 1)] /\ Delivered[e] = s
      BY <2>1, <2>3, <3>2, <3>3, <3>4 DEF Delivered
    <3>6. Len(s) < puts[Peer(e)]
      <4>1. m <= MaxSent(Peer(e))
        BY <1>1, PackageArrives
      <4>2. MaxSent(Peer(e)) <= puts[Peer(e)] /\ puts[Peer(e)] \in Nat /\ MaxSent(Peer(e)) \in Nat
        BY <1>2, SentIsPut, NumbersAreNatural
      <4> QED BY <3>2, <3>4, <4>1, <4>2
    <3>7. Channel!Arrive(e)
      BY <1>2, <3>5, <3>6 DEF Channel!Arrive
    <3> QED BY <3>7 DEF Channel!Next
  <2> QED BY <2>2, <2>3
<1>6. \/ accepted' = accepted
      \/ /\ ~(m <= received[e] /\ m # 1)
         /\ accepted' = [accepted EXCEPT ![e] = Append(@, m)]
  BY <1>1, PackageArrives
<1> QED BY <1>3, <1>4, <1>5, <1>6

\* So every step is one of the channel, begins again, or comes after something early.
LEMMA StepOnChannel ==
  ASSUME WireInv, Windows, Turns, [WireNext]_vars
  PROVE  [Channel!Next \/ BeginsAgain \/ \E e \in Ends : early'[e]]_<<puts, accepted>>
<1>1. ASSUME NEW e \in Ends, Put(e), UNCHANGED wireVars
      PROVE  Channel!Next
  <2>1. puts' = [puts EXCEPT ![e] = @ + 1] /\ accepted' = accepted
    BY <1>1 DEF Put, wireVars
  <2>2. Delivered' = Delivered
    BY <2>1 DEF Delivered, SinceOne
  <2>3. Channel!Put(e)
    BY <2>1, <2>2 DEF Channel!Put
  <2> QED BY <2>3 DEF Channel!Next
<1>2. \/ UNCHANGED <<puts, accepted>>
      \/ \E e \in Ends : ReceivePackage(e) \/ (Put(e) /\ UNCHANGED wireVars)
  <2>1. ASSUME NEW e \in Ends, SenderThread(e)
        PROVE  UNCHANGED <<puts, accepted>>
    BY <2>1 DEF SenderThread, SendNew, Process, ThreadProc, ReturnFromThread, Wait, TakeData,
       BeginProcess, EndProcess, wireVars
  <2>2. ASSUME NEW e \in Ends, ConnectionThread(e), ~ReceivePackage(e)
        PROVE  UNCHANGED <<puts, accepted>>
    <3>1. CASE GoOn(e) \/ Expire(e) \/ Connect(e) \/ FailToConnect(e) \/ HangUp(e) \/ Shutdown(e)
      BY <3>1 DEF GoOn, Expire, Connect, FailToConnect, HangUp, Shutdown, bufferVars
    <3>2. CASE Resume(e) \/ PauseDisconnected(e)
      BY <3>2 DEF Resume, BeginResume, PauseDisconnected, BeginPause, wireVars
    <3>3. CASE Resend(e) \/ ResumeOrPause(e)
      BY <3>3 DEF Resend, Reprocess, ResumeOrPause, BeginReprocess, EndResume, EndPause, wireVars
    <3>4. CASE ReceiveAck(e)
      BY <3>4 DEF ReceiveAck, Acknowledge
    <3> QED BY <2>2, <3>1, <3>2, <3>3, <3>4 DEF ConnectionThread
  <2>3. ASSUME NEW e \in Ends, BeginTermination(e) \/ TerminatingThread(e)
        PROVE  UNCHANGED <<puts, accepted>>
    BY <2>3 DEF BeginTermination, TerminatingThread, StopBuffer, Terminate0, BufferStopped,
       Cleanup0, CloseSocket, Join, wireVars, bufferVars
  <2>4. ASSUME NEW k \in Connections, Break(k)
        PROVE  UNCHANGED <<puts, accepted>>
    BY <2>4 DEF Break, bufferVars
  <2>5. UNCHANGED vars => UNCHANGED <<puts, accepted>>
    BY DEF vars, wireVars, bufferVars
  <2>6. ASSUME NEW e \in Ends, WakeUp(e), UNCHANGED wireVars
        PROVE  UNCHANGED <<puts, accepted>>
    BY <2>6 DEF WakeUp, wireVars
  <2> QED BY <2>1, <2>2, <2>3, <2>4, <2>5, <2>6 DEF WireNext
<1> QED BY <1>1, <1>2, ArrivesOnChannel

----------------------------------------------------------------------------
\* The invariant of the wires and their windows.
ChannelInv == WireInv /\ Windows /\ Turns

\* It holds at the beginning
LEMMA InitChannel == WireInit => ChannelInv
<1> SUFFICES ASSUME WireInit PROVE ChannelInv
  OBVIOUS
<1>1. WireInv
  BY InitWire
<1>2. /\ \A k \in Connections, e \in Ends : net[k][e] = <<>>
      /\ \A e \in Ends : /\ received[e] = 0 /\ accepted[e] = <<>> /\ socket[e] = 0
                         /\ caller[e] = "paused" /\ conn[e] = "closed"
                         /\ Peer(e) \in Ends /\ Acked(e) = 0
  <2>1. \A e \in Ends : buffer[e].acknowledged_seqn = 0
    BY DEF WireInit, PausedBuffer
  <2> QED BY <2>1, PeerIs DEF WireInit, Acked
<1>3. ASSUME NEW e \in Ends, NEW p \in Ends, p = Peer(e)
      PROVE  Window(e)
  <2>1. Counted(e, p) /\ Unsent(e, p) /\ AtEdge(e, p)
    BY <1>2 DEF Counted, Unsent, AtEdge, OnTheLine
  <2>2. LinesInOrder(e, p)
    BY <1>2, EmptyLine DEF LinesInOrder
  <2>3. Answers(e, p)
    BY <1>2 DEF Answers, AcksUpTo, NoAck
  <2> QED BY <1>3, <2>1, <2>2, <2>3 DEF Window
<1>4. Windows
  BY <1>3, PeerIs DEF Windows
<1>5. Turns
  <2>1. ASSUME NEW z, z = <<>>
        PROVE  LastOneIs(z) /\ Holds(FromOne(z), 1, 0)
    <3>1. Ones(z) = {}
      BY <2>1 DEF Ones
    <3>2. FromOne(z) = z
      BY <3>1 DEF FromOne
    <3> QED BY <2>1, <3>1, <3>2 DEF LastOneIs, Holds
  <2> QED BY <1>2, <2>1 DEF Turns
<1> QED BY <1>1, <1>4, <1>5 DEF ChannelInv

\* and every step keeps it.
LEMMA StepChannel == ChannelInv /\ [WireNext]_vars => ChannelInv'
<1> SUFFICES ASSUME ChannelInv, [WireNext]_vars PROVE ChannelInv'
  OBVIOUS
<1>1. WireInv'
  BY StepWire DEF ChannelInv
<1>2. CASE WireNext
  BY <1>1, <1>2, WindowsStep, TurnsStep DEF ChannelInv, WireInv
<1>3. CASE UNCHANGED vars
  <2>1. UNCHANGED <<buffer, caller, resent, socket, conn, net, dead, received, accepted, early>>
    BY <1>3 DEF vars, bufferVars, wireVars
  <2>2. Windows'
    BY <2>1, WindowsAside DEF ChannelInv, SameNumbers
  <2>3. Turns'
    BY <2>1 DEF ChannelInv, Turns
  <2> QED BY <1>1, <2>2, <2>3 DEF ChannelInv
<1> QED BY <1>2, <1>3

(***************************************************************************)
(* Two wires are a channel that delivers each package once and in order,   *)
(* over any number of connections, as long as no package is sent before    *)
(* its resume; only the number 1 is taken for a new beginning whenever it  *)
(* is resent.                                                              *)
(***************************************************************************)
THEOREM WiresAreAChannel == WireSpec => IsChannelUntilEarly
<1>1. WireInit => ChannelInv
  BY InitChannel
<1>2. ChannelInv /\ [WireNext]_vars => ChannelInv'
  BY StepChannel
<1>3. ChannelInv /\ [WireNext]_vars =>
        [Channel!Next \/ BeginsAgain \/ \E e \in Ends : early'[e]]_<<puts, accepted>>
  BY StepOnChannel DEF ChannelInv
<1> QED BY <1>1, <1>2, <1>3, PTL DEF WireSpec, IsChannelUntilEarly
=============================================================================
