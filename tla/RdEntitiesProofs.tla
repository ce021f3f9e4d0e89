--------------------------- MODULE RdEntitiesProofs ---------------------------
(***************************************************************************)
(* What holds of the entities of a protocol for any values, keys and       *)
(* numbers of changes, calls, messages and bindings.  Each kind of entity  *)
(* has an inductive invariant of its own, which says where everything is   *)
(* that is under way and what it will do when it comes:                    *)
(*                                                                         *)
(*   PropertyInv  the master's last change is the last thing under way to  *)
(*                the slave; once it is there, what counts is the last     *)
(*                thing under way to the master.                           *)
(*   MapInv       a key with an entry in pendingForAck has one change, or  *)
(*                one acknowledgement, under way, and no other key has;    *)
(*                the master follows what comes behind.                    *)
(*   CallInv      a task that waits has the first answer to it ahead of    *)
(*                it, queued or under way, if there is one.                *)
(*   RootInv      whatever has an index is told before the index is used:  *)
(*                it is there, being inserted, queued or under way.        *)
(*   ExtInv       messages are in order from the sender's queue to the     *)
(*                receiver, and the last thing an end hears of one that    *)
(*                has left is that it has.                                 *)
(*                                                                         *)
(* Lemmas on single tasks, messages and indices come first, and then one   *)
(* for each action.                                                        *)
(***************************************************************************)
EXTENDS RdEntities, SequenceTheorems, FiniteSetTheorems, TLAPS

----------------------------------------------------------------------------
(***************************************************************************)
(* Sequences.                                                              *)
(***************************************************************************)
\* R is N with W behind it.
Joined(R, N, W) ==
  /\ Len(R) = Len(N) + Len(W)
  /\ \A i \in 1 .. Len(N) : R[i] = N[i]
  /\ \A i \in 1 .. Len(W) : R[Len(N) + i] = W[i]

\* What is concatenated or appended is joined.
LEMMA JoinedIs ==
  ASSUME NEW S, NEW N \in Seq(S)
  PROVE  /\ \A W \in Seq(S) : N \o W \in Seq(S) /\ Joined(N \o W, N, W)
         /\ \A x \in S : /\ Append(N, x) \in Seq(S) /\ Joined(Append(N, x), N, <<x>>)
                         /\ <<x>> \in Seq(S) /\ Len(<<x>>) = 1 /\ <<x>>[1] = x
<1>1. ASSUME NEW W \in Seq(S)
      PROVE  N \o W \in Seq(S) /\ Joined(N \o W, N, W)
  <2>1. /\ N \o W \in Seq(S) /\ Len(N \o W) = Len(N) + Len(W)
        /\ Len(N) \in Nat /\ Len(W) \in Nat
        /\ \A i \in 1 .. Len(N) + Len(W) :
             (N \o W)[i] = IF i <= Len(N) THEN N[i] ELSE W[i - Len(N)]
    BY ConcatProperties
  <2>2. \A i \in 1 .. Len(W) : /\ Len(N) + i \in 1 .. Len(N) + Len(W) /\ ~(Len(N) + i <= Len(N))
                               /\ (Len(N) + i) - Len(N) = i
    BY <2>1
  <2>3. \A i \in 1 .. Len(W) : (N \o W)[Len(N) + i] = W[i]
    BY <2>1, <2>2
  <2>4. \A i \in 1 .. Len(N) : (N \o W)[i] = N[i]
    BY <2>1
  <2> QED BY <2>1, <2>3, <2>4 DEF Joined
<1>2. ASSUME NEW x \in S
      PROVE  /\ Append(N, x) \in Seq(S) /\ Joined(Append(N, x), N, <<x>>)
             /\ <<x>> \in Seq(S) /\ Len(<<x>>) = 1 /\ <<x>>[1] = x
  <2>1. <<x>> \in Seq(S) /\ Len(<<x>>) = 1 /\ <<x>>[1] = x
    OBVIOUS
  <2>2. /\ Append(N, x) \in Seq(S) /\ Len(Append(N, x)) = Len(N) + 1
        /\ \A i \in 1 .. Len(N) : Append(N, x)[i] = N[i]
        /\ Append(N, x)[Len(N) + 1] = x
    BY AppendProperties
  <2>3. \A i \in 1 .. Len(<<x>>) : i = 1
    BY <2>1
  <2> QED BY <2>1, <2>2, <2>3 DEF Joined
<1> QED BY <1>1, <1>2

\* Each of what is joined is in one of the two.
LEMMA JoinedAt ==
  ASSUME NEW S, NEW N \in Seq(S), NEW T, NEW W \in Seq(T), NEW R, Joined(R, N, W)
  PROVE  /\ Len(N) \in Nat /\ Len(W) \in Nat /\ Len(R) = Len(N) + Len(W)
         /\ \A i \in 1 .. Len(R) : \/ i \in 1 .. Len(N) /\ R[i] = N[i]
                                   \/ i - Len(N) \in 1 .. Len(W) /\ R[i] = W[i - Len(N)]
<1>1. Len(N) \in Nat /\ Len(W) \in Nat /\ Len(R) = Len(N) + Len(W)
  BY DEF Joined
<1>2. ASSUME NEW i \in 1 .. Len(R)
      PROVE  \/ i \in 1 .. Len(N) /\ R[i] = N[i]
             \/ i - Len(N) \in 1 .. Len(W) /\ R[i] = W[i - Len(N)]
  <2>1. CASE i <= Len(N)
    BY <1>1, <2>1 DEF Joined
  <2>2. CASE ~(i <= Len(N))
    <3>1. i - Len(N) \in 1 .. Len(W) /\ Len(N) + (i - Len(N)) = i
      BY <1>1, <2>2
    <3> QED BY <3>1 DEF Joined
  <2> QED BY <2>1, <2>2
<1> QED BY <1>1, <1>2

\* What is left when the first is taken.
LEMMA TailAt ==
  ASSUME NEW S, NEW N \in Seq(S), N # <<>>
  PROVE  /\ Head(N) = N[1] /\ Head(N) \in S /\ Tail(N) \in Seq(S)
         /\ Len(N) \in Nat /\ Len(N) > 0 /\ Len(Tail(N)) = Len(N) - 1
         /\ \A i \in 1 .. Len(Tail(N)) : Tail(N)[i] = N[i + 1] /\ i + 1 \in 1 .. Len(N)
         /\ \A i \in 2 .. Len(N) : N[i] = Tail(N)[i - 1] /\ i - 1 \in 1 .. Len(Tail(N))
<1>1. /\ Head(N) = N[1] /\ Head(N) \in S /\ Tail(N) \in Seq(S)
      /\ Len(N) \in Nat /\ Len(N) > 0 /\ Len(Tail(N)) = Len(N) - 1
      /\ \A i \in 1 .. Len(Tail(N)) : Tail(N)[i] = N[i + 1]
  BY HeadTailProperties, EmptySeq
<1>2. \A i \in 2 .. Len(N) : i - 1 \in 1 .. Len(Tail(N)) /\ (i - 1) + 1 = i
  BY <1>1
<1>3. \A i \in 1 .. Len(Tail(N)) : i + 1 \in 1 .. Len(N)
  BY <1>1
<1> QED BY <1>1, <1>2, <1>3

----------------------------------------------------------------------------
(***************************************************************************)
(* Properties.  P is what is under way to the slave, which shows vs and    *)
(* has version m; Q is what is under way to the master, which shows vm and *)
(* has version n.                                                          *)
(***************************************************************************)
Item == [version : Nat, value : Values]

\* P is newer than what the slave has, and in order.
Rising(P, m, n) ==
  \A i \in 1 .. Len(P) :
    /\ m < P[i].version /\ P[i].version <= n
    /\ \A j \in 1 .. Len(P) : i < j => P[i].version < P[j].version

\* Q is no newer than what the slave has, and in order.
Late(Q, m) ==
  \A i \in 1 .. Len(Q) :
    /\ Q[i].version <= m
    /\ \A j \in 1 .. Len(Q) : i < j => Q[i].version <= Q[j].version

\* The last thing under way to the slave is what the master shows.
MastersLast(P, n, vm) ==
  Len(P) > 0 => P[Len(P)].version = n /\ P[Len(P)].value = vm

\* With nothing under way to the slave, the last thing under way to the master
\* is what the slave shows, if it is to be taken; otherwise the two agree.
SlavesLast(P, m, vs, Q, n, vm) ==
  Len(P) = 0 =>
    /\ m = n
    /\ IF Len(Q) > 0 /\ Q[Len(Q)].version = n THEN Q[Len(Q)].value = vs ELSE vm = vs

Coherent(P, m, vs, Q, n, vm) ==
  Rising(P, m, n) /\ Late(Q, m) /\ MastersLast(P, n, vm) /\ SlavesLast(P, m, vs, Q, n, vm)

PropertyInv ==
  /\ TypeOK
  /\ Coherent(net[Slave], masterVersion[Slave], value[Slave],
              net[Master], masterVersion[Master], value[Master])

----------------------------------------------------------------------------
\* A sequence of items, an item longer or an item shorter.
Items(s) == Len(s) \in Nat /\ \A i \in 1 .. Len(s) : s[i].version \in Nat
Longer(R, s, version, v) ==
  /\ Len(R) = Len(s) + 1 /\ \A i \in 1 .. Len(s) : R[i] = s[i]
  /\ R[Len(R)].version = version /\ R[Len(R)].value = v
Shorter(R, s) ==
  /\ Len(R) = Len(s) - 1 /\ \A i \in 1 .. Len(R) : R[i] = s[i + 1]

\* What Append and Tail do to what is under way.
LEMMA SeqItems ==
  ASSUME NEW s \in Seq(Item)
  PROVE  /\ Items(s)
         /\ \A version \in Nat, v \in Values :
              /\ Append(s, Update(version, v)) \in Seq(Item)
              /\ Longer(Append(s, Update(version, v)), s, version, v)
         /\ s # <<>> => /\ Len(s) > 0 /\ Head(s) = s[1] /\ s[1] \in Item
                        /\ Tail(s) \in Seq(Item) /\ Shorter(Tail(s), s)
         /\ s = <<>> <=> Len(s) = 0
<1>1. Len(s) \in Nat /\ \A i \in 1 .. Len(s) : s[i] \in Item
  OBVIOUS
<1>2. Items(s)
  BY <1>1 DEF Items, Item
<1>3. ASSUME NEW version \in Nat, NEW v \in Values
      PROVE  /\ Append(s, Update(version, v)) \in Seq(Item)
             /\ Longer(Append(s, Update(version, v)), s, version, v)
  <2>1. Update(version, v) \in Item
    BY DEF Update, Item
  <2>2. /\ Append(s, Update(version, v)) \in Seq(Item)
        /\ Len(Append(s, Update(version, v))) = Len(s) + 1
        /\ \A i \in 1 .. Len(s) : Append(s, Update(version, v))[i] = s[i]
        /\ Append(s, Update(version, v))[Len(s) + 1] = Update(version, v)
    BY <2>1, AppendProperties
  <2>3. Update(version, v).version = version /\ Update(version, v).value = v
    BY DEF Update
  <2> QED BY <2>2, <2>3 DEF Longer
<1>4. s # <<>> => /\ Len(s) > 0 /\ Head(s) = s[1] /\ s[1] \in Item
                  /\ Tail(s) \in Seq(Item) /\ Shorter(Tail(s), s)
  BY HeadTailProperties, <1>1 DEF Shorter
<1>5. s = <<>> <=> Len(s) = 0
  BY EmptySeq
<1> QED BY <1>2, <1>3, <1>4, <1>5

\* The master sets the property.
LEMMA CoherentMasterSets ==
  ASSUME NEW P, NEW Q, NEW R, NEW m \in Nat, NEW n \in Nat, NEW vs, NEW vm, NEW v,
         Items(P), m <= n, Coherent(P, m, vs, Q, n, vm), Longer(R, P, n + 1, v)
  PROVE  Coherent(R, m, vs, Q, n + 1, v)
<1>1. Rising(R, m, n + 1)
  BY DEF Coherent, Rising, Longer, Items
<1>2. MastersLast(R, n + 1, v) /\ SlavesLast(R, m, vs, Q, n + 1, v)
  BY DEF MastersLast, SlavesLast, Longer, Items
<1> QED BY <1>1, <1>2 DEF Coherent

\* The slave sets the property.
LEMMA CoherentSlaveSets ==
  ASSUME NEW P, NEW Q, NEW R, NEW m \in Nat, NEW n \in Nat, NEW vs, NEW vm, NEW v,
         Items(Q), Coherent(P, m, vs, Q, n, vm), Longer(R, Q, m, v)
  PROVE  Coherent(P, m, v, R, n, vm)
<1>1. Late(R, m)
  BY DEF Coherent, Late, Longer, Items
<1>2. SlavesLast(P, m, v, R, n, vm)
  BY DEF Coherent, SlavesLast, Longer, Items
<1> QED BY <1>1, <1>2 DEF Coherent

\* The slave takes what comes.
LEMMA CoherentSlaveReceives ==
  ASSUME NEW P, NEW Q, NEW R, NEW m \in Nat, NEW n \in Nat, NEW vs, NEW vm,
         Items(P), Items(Q), Len(P) > 0, Coherent(P, m, vs, Q, n, vm), Shorter(R, P)
  PROVE  /\ m < P[1].version /\ P[1].version <= n
         /\ Coherent(R, P[1].version, P[1].value, Q, n, vm)
<1>1. m < P[1].version /\ P[1].version <= n /\ P[1].version \in Nat
  BY DEF Coherent, Rising, Items
<1>2. Rising(R, P[1].version, n)
  <2>1. /\ 1 \in 1 .. Len(P)
        /\ \A i \in 1 .. Len(R) : i + 1 \in 1 .. Len(P) /\ 1 < i + 1 /\ R[i] = P[i + 1]
    BY DEF Shorter, Items
  <2>2. \A i \in 1 .. Len(R) :
          /\ P[1].version < P[i + 1].version /\ P[i + 1].version <= n
          /\ \A j \in 1 .. Len(R) : i < j => P[i + 1].version < P[j + 1].version
    BY <2>1 DEF Coherent, Rising, Items
  <2> QED BY <2>1, <2>2 DEF Rising
<1>3. \A i \in 1 .. Len(Q) : Q[i].version <= m /\ Q[i].version < P[1].version
  BY <1>1 DEF Coherent, Late, Items
<1>4. Late(Q, P[1].version)
  BY <1>1, <1>3 DEF Coherent, Late, Items
<1>5. MastersLast(R, n, vm)
  BY DEF Coherent, MastersLast, Shorter, Items
<1>6. SlavesLast(R, P[1].version, P[1].value, Q, n, vm)
  <2> SUFFICES ASSUME Len(R) = 0
               PROVE  /\ P[1].version = n /\ vm = P[1].value
                      /\ Len(Q) > 0 => Q[Len(Q)].version # n
    BY DEF SlavesLast
  <2>1. Len(P) = 1
    BY DEF Shorter, Items
  <2>2. P[1].version = n /\ vm = P[1].value
    BY <2>1 DEF Coherent, MastersLast
  <2> QED BY <1>1, <1>3, <2>2 DEF Items
<1> QED BY <1>1, <1>2, <1>4, <1>5, <1>6 DEF Coherent

\* The master takes what comes, or drops it.
LEMMA CoherentMasterReceives ==
  ASSUME NEW P, NEW Q, NEW R, NEW m \in Nat, NEW n \in Nat, NEW vs, NEW vm,
         Items(P), Items(Q), Len(Q) > 0, m <= n, Coherent(P, m, vs, Q, n, vm), Shorter(R, Q)
  PROVE  /\ Q[1].version <= n
         /\ Coherent(P, m, vs, R, n, IF Q[1].version < n THEN vm ELSE Q[1].value)
<1> DEFINE w == IF Q[1].version < n THEN vm ELSE Q[1].value
<1>1. Q[1].version \in Nat /\ Q[1].version <= m
  BY DEF Coherent, Late, Items
<1>2. Late(R, m)
  <2>1. \A i \in 1 .. Len(R) : i + 1 \in 1 .. Len(Q) /\ R[i] = Q[i + 1]
    BY DEF Shorter, Items
  <2>2. \A i \in 1 .. Len(R) :
          /\ Q[i + 1].version <= m
          /\ \A j \in 1 .. Len(R) : i < j => Q[i + 1].version <= Q[j + 1].version
    BY <2>1 DEF Coherent, Late, Items
  <2> QED BY <2>1, <2>2 DEF Late
<1>3. MastersLast(P, n, w)
  <2>1. Len(P) > 0 => m < n
    BY DEF Coherent, Rising, Items
  <2> QED BY <1>1, <2>1 DEF Coherent, MastersLast
<1>4. SlavesLast(P, m, vs, R, n, w)
  <2> SUFFICES ASSUME Len(P) = 0
               PROVE  /\ m = n
                      /\ IF Len(R) > 0 /\ R[Len(R)].version = n
                         THEN R[Len(R)].value = vs ELSE w = vs
    BY DEF SlavesLast
  <2>1. m = n /\ IF Q[Len(Q)].version = n THEN Q[Len(Q)].value = vs ELSE vm = vs
    BY DEF Coherent, SlavesLast
  <2>2. CASE Len(Q) = 1
    BY <1>1, <2>1, <2>2 DEF Shorter
  <2>3. CASE Len(Q) # 1
    <3>1. 1 < Len(Q) /\ Len(R) > 0 /\ R[Len(R)] = Q[Len(Q)]
      BY <2>3 DEF Shorter, Items
    <3>2. Q[1].version <= Q[Len(Q)].version /\ Q[Len(Q)].version <= m
      BY <3>1 DEF Coherent, Late, Items
    <3>3. Q[Len(Q)].version \in Nat
      BY DEF Items
    <3> QED BY <1>1, <2>1, <3>1, <3>2, <3>3
  <2> QED BY <2>2, <2>3
<1> QED BY <1>1, <1>2, <1>3, <1>4 DEF Coherent

----------------------------------------------------------------------------
\* The types of what the ends keep, one by one.
LEMMA PropertyAt ==
  ASSUME TypeOK
  PROVE  /\ masterVersion[Master] \in Nat /\ masterVersion[Slave] \in Nat
         /\ masterVersion[Slave] <= masterVersion[Master]
         /\ net[Master] \in Seq(Item) /\ net[Slave] \in Seq(Item)
BY DEF TypeOK, Ends, Item

\* A change of the users of end e, written out for both ends.
LEMMA PropertySet ==
  ASSUME TypeOK, NEW e \in Ends, NEW v \in Values, Set(e, v)
  PROVE  /\ value' = [value EXCEPT ![e] = v]
         /\ masterVersion' = [masterVersion EXCEPT ![e] = NextVersion(e)]
         /\ net'[e] = net[e]
         /\ net'[Other(e)] = Append(net[Other(e)], Update(NextVersion(e), v))
         /\ NextVersion(e) \in Nat /\ masterVersion[e] <= NextVersion(e)
         /\ masterVersion'[Slave] <= masterVersion'[Master]
         /\ TypeOK'
<1>1. /\ Other(e) \in Ends /\ Other(e) # e
      /\ NextVersion(e) \in Nat /\ masterVersion[e] <= NextVersion(e)
      /\ NextVersion(Slave) = masterVersion[Slave]
      /\ masterVersion[Master] <= NextVersion(Master)
  BY PropertyAt, PropertyAssumption DEF Other, Ends, NextVersion
<1>2. net[Other(e)] \in Seq(Item)
  BY <1>1, PropertyAt DEF Ends
<1>3. Append(net[Other(e)], Update(NextVersion(e), v)) \in Seq(Item)
  BY <1>1, <1>2, SeqItems
<1>4. net' \in [Ends -> Seq(Item)]
  BY <1>1, <1>3 DEF Set, TypeOK, Item
<1>5. /\ value' = [value EXCEPT ![e] = v]
      /\ masterVersion' = [masterVersion EXCEPT ![e] = NextVersion(e)]
      /\ net'[e] = net[e]
      /\ net'[Other(e)] = Append(net[Other(e)], Update(NextVersion(e), v))
  BY <1>1 DEF Set, TypeOK
<1>6. masterVersion' \in [Ends -> Nat] /\ value' \in [Ends -> Values \cup {Empty}]
  BY <1>1, <1>5 DEF TypeOK
<1>7. masterVersion'[Slave] <= masterVersion'[Master]
  <2>1. /\ Master \in DOMAIN masterVersion /\ Slave \in DOMAIN masterVersion
        /\ Master # Slave /\ e \in {Master, Slave}
    BY PropertyAssumption DEF TypeOK, Ends
  <2>2. CASE e = Master
    BY <1>1, <1>5, <2>1, <2>2, PropertyAt
  <2>3. CASE e = Slave
    BY <1>1, <1>5, <2>1, <2>3, PropertyAt
  <2> QED BY <2>1, <2>2, <2>3
<1>8. sets' \in [Ends -> 0 .. MaxSets]
  <2>1. sets' = [sets EXCEPT ![e] = sets[e] + 1] /\ sets[e] < MaxSets /\ sets[e] \in 0 .. MaxSets
    BY DEF Set, TypeOK
  <2>2. sets[e] + 1 \in 0 .. MaxSets
    BY <2>1, PropertyAssumption
  <2> QED BY <2>1, <2>2 DEF TypeOK
<1> QED BY <1>1, <1>4, <1>5, <1>6, <1>7, <1>8 DEF TypeOK, Item

\* The step of end e that takes or drops what comes, written out for both ends.
LEMMA PropertyReceive ==
  ASSUME TypeOK, NEW e \in Ends, OnWireReceived(e)
  PROVE  /\ net[e] # <<>> /\ net'[e] = Tail(net[e]) /\ net'[Other(e)] = net[Other(e)]
         /\ value'[Other(e)] = value[Other(e)]
         /\ masterVersion'[Other(e)] = masterVersion[Other(e)]
         /\ value'[e] = IF Rejected(e, net[e][1].version) THEN value[e] ELSE net[e][1].value
         /\ masterVersion'[e] = IF Rejected(e, net[e][1].version)
                                THEN masterVersion[e] ELSE net[e][1].version
         /\ value' \in [Ends -> Values \cup {Empty}] /\ masterVersion' \in [Ends -> Nat]
         /\ net' \in [Ends -> Seq(Item)] /\ sets' \in [Ends -> 0 .. MaxSets]
<1>1. Other(e) \in Ends /\ Other(e) # e
  BY PropertyAssumption DEF Other, Ends
<1>2. net[e] # <<>> /\ net[e] \in Seq(Item)
  BY DEF OnWireReceived, TypeOK, Item
<1>3. Head(net[e]) = net[e][1] /\ net[e][1] \in Item /\ Tail(net[e]) \in Seq(Item)
  BY <1>2, SeqItems
<1>4. net[e][1].version \in Nat /\ net[e][1].value \in Values
  BY <1>3 DEF Item
<1>5. net' = [net EXCEPT ![e] = Tail(net[e])] /\ sets' = sets
  BY DEF OnWireReceived
<1>6. IF Rejected(e, net[e][1].version)
      THEN value' = value /\ masterVersion' = masterVersion
      ELSE /\ masterVersion' = [masterVersion EXCEPT ![e] = net[e][1].version]
           /\ value' = [value EXCEPT ![e] = net[e][1].value]
  BY <1>3 DEF OnWireReceived
<1>7. net'[e] = Tail(net[e]) /\ net'[Other(e)] = net[Other(e)] /\ net' \in [Ends -> Seq(Item)]
  BY <1>1, <1>3, <1>5 DEF TypeOK, Item
<1> QED BY <1>1, <1>2, <1>4, <1>5, <1>6, <1>7 DEF TypeOK

\* The invariant holds at first.
LEMMA PropertyInit == Init => PropertyInv
<1> SUFFICES ASSUME Init PROVE PropertyInv
  OBVIOUS
<1>1. TypeOK
  BY PropertyAssumption DEF Init, TypeOK, Ends
<1>2. /\ net[Slave] = <<>> /\ net[Master] = <<>> /\ value[Slave] = value[Master]
      /\ masterVersion[Slave] = masterVersion[Master]
  BY DEF Init, Ends
<1> QED BY <1>1, <1>2 DEF PropertyInv, Coherent, Rising, Late, MastersLast, SlavesLast

\* Every change of the users keeps the invariant.
LEMMA PropertySetKeeps ==
  ASSUME PropertyInv, NEW e \in Ends, NEW v \in Values, Set(e, v)
  PROVE  PropertyInv'
<1>1. TypeOK
  BY DEF PropertyInv
<1>2. TypeOK'
  BY <1>1, PropertySet
<1>3. /\ Master \in Ends /\ Slave \in Ends /\ Master # Slave
      /\ Other(Master) = Slave /\ Other(Slave) = Master
      /\ Items(net[Master]) /\ Items(net[Slave])
      /\ DOMAIN value = Ends /\ DOMAIN masterVersion = Ends
  BY PropertyAssumption, <1>1, PropertyAt, SeqItems DEF Ends, Other, TypeOK
<1>4. CASE e = Master
  <2>1. /\ value'[Master] = v /\ value'[Slave] = value[Slave]
        /\ masterVersion'[Master] = masterVersion[Master] + 1
        /\ masterVersion'[Slave] = masterVersion[Slave]
    BY <1>1, <1>3, <1>4, PropertySet DEF NextVersion
  <2>2. /\ net'[Master] = net[Master]
        /\ net'[Slave] = Append(net[Slave], Update(masterVersion[Master] + 1, v))
    BY <1>1, <1>3, <1>4, PropertySet DEF NextVersion
  <2>3. Longer(net'[Slave], net[Slave], masterVersion[Master] + 1, v)
    <3>1. masterVersion[Master] + 1 \in Nat /\ net[Slave] \in Seq(Item)
      BY <1>1, PropertyAt
    <3>2. Longer(Append(net[Slave], Update(masterVersion[Master] + 1, v)), net[Slave], masterVersion[Master] + 1, v)
      BY <3>1, SeqItems
    <3> QED BY <3>2, <2>2
  <2>4. Coherent(net'[Slave], masterVersion[Slave], value[Slave],
                 net[Master], masterVersion[Master] + 1, v)
    BY <1>1, <1>3, <2>3, PropertyAt, CoherentMasterSets DEF PropertyInv
  <2> QED BY <1>2, <2>1, <2>2, <2>4 DEF PropertyInv
<1>5. CASE e = Slave
  <2>1. /\ value'[Slave] = v /\ value'[Master] = value[Master]
        /\ masterVersion'[Master] = masterVersion[Master]
        /\ masterVersion'[Slave] = masterVersion[Slave]
    BY <1>1, <1>3, <1>5, PropertySet DEF NextVersion
  <2>2. /\ net'[Slave] = net[Slave]
        /\ net'[Master] = Append(net[Master], Update(masterVersion[Slave], v))
    BY <1>1, <1>3, <1>5, PropertySet DEF NextVersion
  <2>3. Longer(net'[Master], net[Master], masterVersion[Slave], v)
    BY <1>1, <2>2, PropertyAt, SeqItems
  <2>4. Coherent(net[Slave], masterVersion[Slave], v,
                 net'[Master], masterVersion[Master], value[Master])
    BY <1>1, <1>3, <2>3, PropertyAt, CoherentSlaveSets DEF PropertyInv
  <2> QED BY <1>2, <2>1, <2>2, <2>4 DEF PropertyInv
<1> QED BY <1>4, <1>5 DEF Ends

\* Whatever comes, taken or dropped, keeps the invariant and no version is lost.
LEMMA PropertyReceiveKeeps ==
  ASSUME PropertyInv, NEW e \in Ends, OnWireReceived(e)
  PROVE  PropertyInv' /\ masterVersion[e] <= masterVersion'[e]
<1>1. TypeOK
  BY DEF PropertyInv
<1>2. /\ Master \in Ends /\ Slave \in Ends /\ Master # Slave
      /\ Other(Master) = Slave /\ Other(Slave) = Master
      /\ Items(net[Master]) /\ Items(net[Slave])
  BY PropertyAssumption, <1>1, PropertyAt, SeqItems DEF Ends, Other
<1>3. /\ net[e] # <<>> /\ net[e] \in Seq(Item) /\ Len(net[e]) > 0
      /\ Shorter(net'[e], net[e])
  BY <1>1, PropertyReceive, SeqItems DEF TypeOK, Item
<1>4. /\ value' \in [Ends -> Values \cup {Empty}] /\ masterVersion' \in [Ends -> Nat]
      /\ net' \in [Ends -> Seq(Item)] /\ sets' \in [Ends -> 0 .. MaxSets]
  BY <1>1, PropertyReceive
<1>5. CASE e = Slave
  <2>1. /\ net'[Master] = net[Master] /\ value'[Master] = value[Master]
        /\ masterVersion'[Master] = masterVersion[Master]
        /\ value'[Slave] = net[Slave][1].value
        /\ masterVersion'[Slave] = net[Slave][1].version
    BY <1>1, <1>2, <1>5, PropertyReceive DEF Rejected
  <2>2. /\ masterVersion[Slave] < net[Slave][1].version
        /\ net[Slave][1].version <= masterVersion[Master]
        /\ Coherent(net'[Slave], net[Slave][1].version, net[Slave][1].value,
                    net[Master], masterVersion[Master], value[Master])
    BY <1>1, <1>2, <1>3, <1>5, PropertyAt, CoherentSlaveReceives DEF PropertyInv
  <2>3. masterVersion'[Slave] <= masterVersion'[Master]
    BY <2>1, <2>2
  <2>4. TypeOK'
    BY <1>4, <2>3 DEF TypeOK, Item
  <2>5. masterVersion[Slave] <= masterVersion'[Slave]
    BY <1>1, <1>2, <1>4, <2>1, <2>2, PropertyAt
  <2> QED BY <1>5, <2>1, <2>2, <2>4, <2>5 DEF PropertyInv
<1>6. CASE e = Master
  <2>1. /\ net'[Slave] = net[Slave] /\ value'[Slave] = value[Slave]
        /\ masterVersion'[Slave] = masterVersion[Slave]
        /\ value'[Master] = IF net[Master][1].version < masterVersion[Master]
                            THEN value[Master] ELSE net[Master][1].value
        /\ masterVersion'[Master] = IF net[Master][1].version < masterVersion[Master]
                                    THEN masterVersion[Master] ELSE net[Master][1].version
    BY <1>1, <1>2, <1>6, PropertyReceive DEF Rejected
  <2>2. /\ net[Master][1].version <= masterVersion[Master]
        /\ Coherent(net[Slave], masterVersion[Slave], value[Slave], net'[Master],
                    masterVersion[Master],
                    IF net[Master][1].version < masterVersion[Master]
                    THEN value[Master] ELSE net[Master][1].value)
    BY <1>1, <1>2, <1>3, <1>6, PropertyAt, CoherentMasterReceives DEF PropertyInv
  <2>3. net[Master][1].version \in Nat
    BY <1>2, <1>3, <1>6 DEF Items
  <2>4. masterVersion'[Master] = masterVersion[Master]
    BY <1>1, <2>1, <2>2, <2>3, PropertyAt
  <2>5. TypeOK'
    BY <1>1, <1>4, <2>1, <2>4, PropertyAt DEF TypeOK, Item
  <2> QED BY <1>1, <1>6, <2>1, <2>2, <2>4, <2>5, PropertyAt DEF PropertyInv
<1> QED BY <1>5, <1>6 DEF Ends

----------------------------------------------------------------------------
(***************************************************************************)
(* Maps.                                                                   *)
(***************************************************************************)
\* What is under way to the ends of a map: numbered changes to the slave, changes without a
\* number and acknowledgements to the master.
MapValue == Mapped \cup {Absent}
ToSlave == [is : {"change"}, version : Nat \ {0}, key : Keys, value : MapValue]
ToMaster ==
  [is : {"change"}, version : {0}, key : Keys, value : MapValue] \cup
  [is : {"ack"}, version : Nat, key : Keys]

\* Whether m changes the key k, or acknowledges a change of it, and whether nothing in s does.
Changes(m, k) == m.is = "change" /\ m.key = k
Acknowledges(m, k) == m.is = "ack" /\ m.key = k
NoneChanges(s, k) == \A i \in 1 .. Len(s) : ~Changes(s[i], k)
NoneAcknowledges(s, k) == \A i \in 1 .. Len(s) : ~Acknowledges(s[i], k)

\* The slave shows y for the key k, and the master x.  What N, which is under way to the master,
\* says of k behind its first n messages makes the master show what the slave shows.
LeadsTo(N, k, n, x, y) ==
  /\ \A i \in n + 1 .. Len(N) :
       Changes(N[i], k) /\ (\A j \in i + 1 .. Len(N) : ~Changes(N[j], k)) => N[i].value = y
  /\ (\A i \in n + 1 .. Len(N) : ~Changes(N[i], k)) => x = y

\* The key k with the entries E in pendingForAck, when S is under way to the slave and N to the
\* master.  With no entry, the master follows the slave.  With one, p, the change of the master
\* is under way and will make the slave show x, or it has come and its acknowledgement is under
\* way, from where on the master follows the slave.
KeyFollows(k, E, S, N, x, y) ==
  E = {} /\ NoneChanges(S, k) /\ NoneAcknowledges(N, k) /\ LeadsTo(N, k, 0, x, y)
KeyChanges(k, p, S, N, x, i) ==
  /\ ~p.freed /\ NoneAcknowledges(N, k)
  /\ S[i].version = p.version /\ S[i].value = x
  /\ \A j \in 1 .. Len(S) : Changes(S[j], k) <=> j = i
KeyAcknowledges(k, p, S, N, x, y, i) ==
  /\ ~p.freed /\ NoneChanges(S, k)
  /\ N[i].version = p.version /\ LeadsTo(N, k, i, x, y)
  /\ \A j \in 1 .. Len(N) : Acknowledges(N[j], k) <=> j = i
KeyHolds(k, E, S, N, x, y) ==
  \/ KeyFollows(k, E, S, N, x, y)
  \/ \E p \in E : E = {p} /\ \E i \in 1 .. Len(S) : KeyChanges(k, p, S, N, x, i)
  \/ \E p \in E : E = {p} /\ \E i \in 1 .. Len(N) : KeyAcknowledges(k, p, S, N, x, y, i)

\* The types of the variables of maps.
MapTypes ==
  /\ map \in [Ends -> [Keys -> MapValue]]
  /\ mapVersion \in Nat
  /\ pendingForAck \subseteq [key : Keys, version : 1 .. mapVersion, freed : BOOLEAN]
  /\ mapNet[Slave] \in Seq(ToSlave) /\ mapNet[Master] \in Seq(ToMaster)
  /\ mapNet \in [Ends -> Seq(ToSlave \cup ToMaster)]
  /\ mapChanges \in [Ends -> Nat] /\ \A e \in Ends : mapChanges[e] <= MaxMapped[e]
  /\ hasty \subseteq Keys

\* An entry whose key is not freed is the only one of it, and the key is in the master's map.
MapEntries ==
  \A p \in pendingForAck : ~p.freed =>
    /\ map[Master][p.key] # Absent
    /\ \A q \in pendingForAck : q.key = p.key /\ ~q.freed => q = p

\* The inductive invariant of maps.
MapInv ==
  /\ MapTypes /\ MapEntries
  /\ \A k \in Keys \ hasty :
       KeyHolds(k, Map!EntriesOf(k), mapNet[Slave], mapNet[Master], map[Master][k], map[Slave][k])

\* What is joined to what is under way to the master does not change the key, or does.
LEMMA LeadsToGrown ==
  ASSUME NEW T, NEW N \in Seq(T), NEW W \in Seq(T), NEW R, Joined(R, N, W), NEW k, NEW n \in 0 .. Len(N),
         NEW x, NEW y
  PROVE  /\ LeadsTo(N, k, n, x, y) /\ NoneChanges(W, k) => LeadsTo(R, k, n, x, y)
         /\ \A z : /\ \A i \in 1 .. Len(W) : Changes(W[i], k) => W[i].value = z
                   /\ ~NoneChanges(W, k)
                   => LeadsTo(R, k, n, x, z)
<1>1. /\ Len(N) \in Nat /\ Len(W) \in Nat /\ Len(R) = Len(N) + Len(W)
      /\ \A i \in 1 .. Len(R) : \/ i \in 1 .. Len(N) /\ R[i] = N[i]
                                \/ i - Len(N) \in 1 .. Len(W) /\ R[i] = W[i - Len(N)]
  BY JoinedAt
<1>2. /\ \A i \in 1 .. Len(N) : R[i] = N[i] /\ i \in 1 .. Len(R)
      /\ \A i \in 1 .. Len(W) : R[Len(N) + i] = W[i] /\ Len(N) + i \in 1 .. Len(R)
  BY <1>1 DEF Joined
<1>3. ASSUME LeadsTo(N, k, n, x, y), NoneChanges(W, k)
      PROVE  LeadsTo(R, k, n, x, y)
  <2>1. ASSUME NEW i \in n + 1 .. Len(R), Changes(R[i], k), \A j \in i + 1 .. Len(R) : ~Changes(R[j], k)
        PROVE  R[i].value = y
    <3>1. i \in 1 .. Len(R)
      BY <1>1
    <3>2. i \in 1 .. Len(N) /\ R[i] = N[i]
      BY <3>1, <2>1, <1>1, <1>3 DEF NoneChanges
    <3>3. i \in n + 1 .. Len(N)
      BY <3>2
    <3>4. \A j \in i + 1 .. Len(N) : ~Changes(N[j], k)
      <4> TAKE j \in i + 1 .. Len(N)
      <4>1. j \in 1 .. Len(N) /\ j \in i + 1 .. Len(R)
        BY <1>1, <3>2
      <4> QED BY <4>1, <1>2, <2>1
    <3> QED BY <3>2, <3>3, <3>4, <2>1, <1>3 DEF LeadsTo
  <2>2. ASSUME \A i \in n + 1 .. Len(R) : ~Changes(R[i], k)
        PROVE  x = y
    <3>1. \A i \in n + 1 .. Len(N) : ~Changes(N[i], k)
      <4> TAKE i \in n + 1 .. Len(N)
      <4>1. i \in 1 .. Len(N) /\ i \in n + 1 .. Len(R)
        BY <1>1
      <4> QED BY <4>1, <1>2, <2>2
    <3> QED BY <3>1, <1>3 DEF LeadsTo
  <2> QED BY <2>1, <2>2 DEF LeadsTo
<1>4. ASSUME NEW z, \A i \in 1 .. Len(W) : Changes(W[i], k) => W[i].value = z, ~NoneChanges(W, k)
      PROVE  LeadsTo(R, k, n, x, z)
  <2>1. PICK w \in 1 .. Len(W) : Changes(W[w], k)
    BY <1>4 DEF NoneChanges
  <2>2. Changes(R[Len(N) + w], k) /\ Len(N) + w \in n + 1 .. Len(R)
    BY <2>1, <1>1, <1>2
  <2>3. ASSUME NEW i \in n + 1 .. Len(R), Changes(R[i], k), \A j \in i + 1 .. Len(R) : ~Changes(R[j], k)
        PROVE  R[i].value = z
    <3>1. i \in 1 .. Len(R)
      BY <1>1
    <3>2. ~(Len(N) + w \in i + 1 .. Len(R))
      BY <2>2, <2>3
    <3>3. ~(i \in 1 .. Len(N))
      BY <3>2, <2>2, <1>1
    <3>4. i - Len(N) \in 1 .. Len(W) /\ R[i] = W[i - Len(N)]
      BY <3>1, <3>3, <1>1
    <3> QED BY <3>4, <2>3, <1>4
  <2> QED BY <2>2, <2>3 DEF LeadsTo
<1> QED BY <1>3, <1>4

\* The first of what is under way to the master is taken.
LEMMA LeadsToTail ==
  ASSUME NEW T, NEW N \in Seq(T), N # <<>>, NEW k, NEW n \in 0 .. Len(N), NEW x, NEW y,
         LeadsTo(N, k, n, x, y)
  PROVE  /\ n > 0 => LeadsTo(Tail(N), k, n - 1, x, y)
         /\ n = 0 => LeadsTo(Tail(N), k, 0, IF Changes(Head(N), k) THEN Head(N).value ELSE x, y)
<1>1. /\ Head(N) = N[1] /\ Len(N) \in Nat /\ Len(N) > 0 /\ Len(Tail(N)) = Len(N) - 1
      /\ \A i \in 1 .. Len(Tail(N)) : Tail(N)[i] = N[i + 1] /\ i + 1 \in 1 .. Len(N)
      /\ \A i \in 2 .. Len(N) : N[i] = Tail(N)[i - 1] /\ i - 1 \in 1 .. Len(Tail(N))
  BY TailAt
<1>2. ASSUME NEW m \in Nat, m >= n - 1, NEW i \in m + 1 .. Len(Tail(N)), Changes(Tail(N)[i], k),
             \A j \in i + 1 .. Len(Tail(N)) : ~Changes(Tail(N)[j], k)
      PROVE  Tail(N)[i].value = y
  <2>1. i \in 1 .. Len(Tail(N)) /\ i + 1 \in n + 1 .. Len(N) /\ Tail(N)[i] = N[i + 1]
    BY <1>1, <1>2
  <2>2. \A j \in (i + 1) + 1 .. Len(N) : ~Changes(N[j], k)
    <3> TAKE j \in (i + 1) + 1 .. Len(N)
    <3>1. j \in 2 .. Len(N) /\ j - 1 \in i + 1 .. Len(Tail(N))
      BY <1>1, <2>1
    <3> QED BY <3>1, <1>1, <1>2
  <2> QED BY <2>1, <2>2, <1>2 DEF LeadsTo
<1>3. ASSUME n > 0
      PROVE  LeadsTo(Tail(N), k, n - 1, x, y)
  <2>1. n - 1 \in Nat
    BY <1>3
  <2>2. ASSUME \A i \in (n - 1) + 1 .. Len(Tail(N)) : ~Changes(Tail(N)[i], k)
        PROVE  x = y
    <3>1. \A i \in n + 1 .. Len(N) : ~Changes(N[i], k)
      <4> TAKE i \in n + 1 .. Len(N)
      <4>1. i \in 2 .. Len(N) /\ i - 1 \in (n - 1) + 1 .. Len(Tail(N))
        BY <1>1, <1>3
      <4> QED BY <4>1, <2>2, <1>1
    <3> QED BY <3>1 DEF LeadsTo
  <2>3. ASSUME NEW i \in (n - 1) + 1 .. Len(Tail(N)), Changes(Tail(N)[i], k),
               \A j \in i + 1 .. Len(Tail(N)) : ~Changes(Tail(N)[j], k)
        PROVE  Tail(N)[i].value = y
    <3>1. n - 1 >= n - 1
      BY <2>1
    <3> QED BY <2>1, <2>3, <3>1, <1>2
  <2> QED BY <2>2, <2>3 DEF LeadsTo
<1>4. ASSUME n = 0
      PROVE  LeadsTo(Tail(N), k, 0, IF Changes(N[1], k) THEN N[1].value ELSE x, y)
  <2>1. ASSUME \A i \in 0 + 1 .. Len(Tail(N)) : ~Changes(Tail(N)[i], k)
        PROVE  (IF Changes(N[1], k) THEN N[1].value ELSE x) = y
    <3>1. \A i \in 2 .. Len(N) : ~Changes(N[i], k)
      <4> TAKE i \in 2 .. Len(N)
      <4>1. i - 1 \in 0 + 1 .. Len(Tail(N)) /\ N[i] = Tail(N)[i - 1]
        BY <1>1
      <4> QED BY <4>1, <2>1
    <3>2. \A i \in 0 + 1 .. Len(N) : i = 1 \/ i \in 2 .. Len(N)
      BY <1>1
    <3>3. CASE Changes(N[1], k)
      <4>1. 1 \in 0 + 1 .. Len(N) /\ \A j \in 1 + 1 .. Len(N) : ~Changes(N[j], k)
        BY <3>1, <1>1
      <4> QED BY <4>1, <3>3, <1>4 DEF LeadsTo
    <3>4. CASE ~Changes(N[1], k)
      <4>1. \A i \in 0 + 1 .. Len(N) : ~Changes(N[i], k)
        BY <3>1, <3>2, <3>4
      <4> QED BY <4>1, <3>4, <1>4 DEF LeadsTo
    <3> QED BY <3>3, <3>4
  <2>2. ASSUME NEW i \in 0 + 1 .. Len(Tail(N)), Changes(Tail(N)[i], k),
               \A j \in i + 1 .. Len(Tail(N)) : ~Changes(Tail(N)[j], k)
        PROVE  Tail(N)[i].value = y
    <3>1. 0 \in Nat /\ 0 >= n - 1
      BY <1>4
    <3> QED BY <2>2, <3>1, <1>2
  <2> QED BY <2>1, <2>2 DEF LeadsTo
<1> QED BY <1>1, <1>3, <1>4

\* Nothing of what is joined, or left, is about the key.
LEMMA NoneJoined ==
  ASSUME NEW T, NEW N \in Seq(T), NEW W \in Seq(T), NEW R, Joined(R, N, W), NEW k
  PROVE  /\ NoneChanges(N, k) /\ NoneChanges(W, k) => NoneChanges(R, k)
         /\ NoneAcknowledges(N, k) /\ NoneAcknowledges(W, k) => NoneAcknowledges(R, k)
<1>1. \A i \in 1 .. Len(R) : \/ i \in 1 .. Len(N) /\ R[i] = N[i]
                             \/ i - Len(N) \in 1 .. Len(W) /\ R[i] = W[i - Len(N)]
  BY JoinedAt
<1> QED BY <1>1 DEF NoneChanges, NoneAcknowledges

\* The same of what is left.
LEMMA NoneLeft ==
  ASSUME NEW T, NEW N \in Seq(T), N # <<>>, NEW k
  PROVE  /\ NoneChanges(N, k) => NoneChanges(Tail(N), k) /\ ~Changes(Head(N), k)
         /\ NoneAcknowledges(N, k) => NoneAcknowledges(Tail(N), k) /\ ~Acknowledges(Head(N), k)
<1>1. /\ Head(N) = N[1] /\ 1 \in 1 .. Len(N)
      /\ \A i \in 1 .. Len(Tail(N)) : Tail(N)[i] = N[i + 1] /\ i + 1 \in 1 .. Len(N)
  BY TailAt
<1> QED BY <1>1 DEF NoneChanges, NoneAcknowledges

\* What is joined to what is under way to the slave is about other keys.
LEMMA KeyHoldsSlaveGrown ==
  ASSUME NEW k, NEW E, NEW T, NEW S \in Seq(T), NEW W \in Seq(T), NEW R, NEW N, NEW x, NEW y,
         KeyHolds(k, E, S, N, x, y), Joined(R, S, W), NoneChanges(W, k)
  PROVE  KeyHolds(k, E, R, N, x, y)
<1>1. NoneChanges(S, k) => NoneChanges(R, k)
  BY NoneJoined
<1>2. /\ Len(S) \in Nat /\ Len(W) \in Nat /\ Len(R) = Len(S) + Len(W)
      /\ \A i \in 1 .. Len(R) : \/ i \in 1 .. Len(S) /\ R[i] = S[i]
                                \/ i - Len(S) \in 1 .. Len(W) /\ R[i] = W[i - Len(S)]
      /\ \A i \in 1 .. Len(S) : R[i] = S[i]
  <2>1. \A i \in 1 .. Len(S) : R[i] = S[i]
    BY DEF Joined
  <2> QED BY <2>1, JoinedAt
<1>3. ASSUME NEW p, NEW i \in 1 .. Len(S), KeyChanges(k, p, S, N, x, i)
      PROVE  i \in 1 .. Len(R) /\ KeyChanges(k, p, R, N, x, i)
  <2>1. i \in 1 .. Len(R) /\ R[i] = S[i]
    BY <1>2, <1>3 DEF KeyChanges
  <2>2. \A j \in 1 .. Len(R) : Changes(R[j], k) <=> j = i
    <3> TAKE j \in 1 .. Len(R)
    <3>1. CASE j \in 1 .. Len(S) /\ R[j] = S[j]
      BY <3>1, <1>3 DEF KeyChanges
    <3>2. CASE j - Len(S) \in 1 .. Len(W) /\ R[j] = W[j - Len(S)]
      <4>1. j # i
        BY <3>2, <1>2, <1>3 DEF KeyChanges
      <4> QED BY <4>1, <3>2 DEF NoneChanges
    <3> QED BY <3>1, <3>2, <1>2
  <2> QED BY <2>1, <2>2, <1>3 DEF KeyChanges
<1> QED BY <1>1, <1>3 DEF KeyHolds, KeyFollows, KeyAcknowledges

\* The slave, which shows z now, tells the master so, or nothing of the key.
LEMMA KeyHoldsMasterGrown ==
  ASSUME NEW k, NEW E, NEW T, NEW N \in Seq(T), NEW W \in Seq(T), NEW R, NEW S, NEW x, NEW y, NEW z,
         KeyHolds(k, E, S, N, x, y), Joined(R, N, W), NoneAcknowledges(W, k),
         \A i \in 1 .. Len(W) : Changes(W[i], k) => W[i].value = z,
         NoneChanges(W, k) => z = y
  PROVE  KeyHolds(k, E, S, R, x, z)
<1>1. /\ NoneAcknowledges(N, k) => NoneAcknowledges(R, k)
      /\ \A n \in 0 .. Len(N) : LeadsTo(N, k, n, x, y) => LeadsTo(R, k, n, x, z)
  BY NoneJoined, LeadsToGrown
<1>2. /\ Len(N) \in Nat /\ Len(W) \in Nat /\ Len(R) = Len(N) + Len(W)
      /\ \A i \in 1 .. Len(R) : \/ i \in 1 .. Len(N) /\ R[i] = N[i]
                                \/ i - Len(N) \in 1 .. Len(W) /\ R[i] = W[i - Len(N)]
      /\ \A i \in 1 .. Len(N) : R[i] = N[i]
  <2>1. \A i \in 1 .. Len(N) : R[i] = N[i]
    BY DEF Joined
  <2> QED BY <2>1, JoinedAt
<1>3. ASSUME NEW p, NEW i \in 1 .. Len(N), KeyAcknowledges(k, p, S, N, x, y, i)
      PROVE  i \in 1 .. Len(R) /\ KeyAcknowledges(k, p, S, R, x, z, i)
  <2>1. i \in 1 .. Len(R) /\ R[i] = N[i] /\ i \in 0 .. Len(N)
    BY <1>2, <1>3 DEF KeyAcknowledges
  <2>2. \A j \in 1 .. Len(R) : Acknowledges(R[j], k) <=> j = i
    <3> TAKE j \in 1 .. Len(R)
    <3>1. CASE j \in 1 .. Len(N) /\ R[j] = N[j]
      BY <3>1, <1>3 DEF KeyAcknowledges
    <3>2. CASE j - Len(N) \in 1 .. Len(W) /\ R[j] = W[j - Len(N)]
      <4>1. j # i
        BY <3>2, <1>2, <1>3 DEF KeyAcknowledges
      <4> QED BY <4>1, <3>2 DEF NoneAcknowledges
    <3> QED BY <3>1, <3>2, <1>2
  <2> QED BY <2>1, <2>2, <1>1, <1>3 DEF KeyAcknowledges
<1>4. KeyFollows(k, E, S, N, x, y) => KeyFollows(k, E, S, R, x, z)
  BY <1>1, <1>2 DEF KeyFollows
<1>5. \A p, i : KeyChanges(k, p, S, N, x, i) => KeyChanges(k, p, S, R, x, i)
  BY <1>1 DEF KeyChanges
<1> QED BY <1>3, <1>4, <1>5 DEF KeyHolds

\* The slave takes a change of another key.
LEMMA KeyHoldsSlaveTail ==
  ASSUME NEW k, NEW E, NEW T, NEW S \in Seq(T), S # <<>>, NEW N, NEW x, NEW y,
         KeyHolds(k, E, S, N, x, y), ~Changes(Head(S), k)
  PROVE  KeyHolds(k, E, Tail(S), N, x, y)
<1>1. /\ Head(S) = S[1] /\ Len(S) \in Nat /\ Len(S) > 0 /\ Len(Tail(S)) = Len(S) - 1
      /\ \A i \in 1 .. Len(Tail(S)) : Tail(S)[i] = S[i + 1] /\ i + 1 \in 1 .. Len(S)
      /\ \A i \in 2 .. Len(S) : S[i] = Tail(S)[i - 1] /\ i - 1 \in 1 .. Len(Tail(S))
  BY TailAt
<1>2. NoneChanges(S, k) => NoneChanges(Tail(S), k)
  BY NoneLeft
<1>3. ASSUME NEW p, NEW i \in 1 .. Len(S), KeyChanges(k, p, S, N, x, i)
      PROVE  i - 1 \in 1 .. Len(Tail(S)) /\ KeyChanges(k, p, Tail(S), N, x, i - 1)
  <2>1. i \in 1 .. Len(S) /\ Changes(S[i], k)
    BY <1>3 DEF KeyChanges
  <2>2. i \in 2 .. Len(S)
    BY <2>1, <1>1
  <2>3. \A j \in 1 .. Len(Tail(S)) : Changes(Tail(S)[j], k) <=> j = i - 1
    <3> TAKE j \in 1 .. Len(Tail(S))
    <3>1. j + 1 = i <=> j = i - 1
      BY <1>1, <2>2
    <3> QED BY <3>1, <1>1, <1>3 DEF KeyChanges
  <2> QED BY <2>2, <2>3, <1>1, <1>3 DEF KeyChanges
<1> QED BY <1>2, <1>3 DEF KeyHolds, KeyFollows, KeyAcknowledges

\* The master takes a change of another key, drops one of this key, which waits, or takes one of
\* this key, and shows it.
LEMMA KeyHoldsMasterTail ==
  ASSUME NEW k, NEW E, NEW T, NEW N \in Seq(T), N # <<>>, NEW S, NEW x, NEW y, NEW z,
         KeyHolds(k, E, S, N, x, y), ~Acknowledges(Head(N), k),
         z = IF Changes(Head(N), k) /\ E = {} THEN Head(N).value ELSE x
  PROVE  KeyHolds(k, E, S, Tail(N), z, y)
<1>1. /\ Head(N) = N[1] /\ Len(N) \in Nat /\ Len(N) > 0 /\ Len(Tail(N)) = Len(N) - 1
      /\ \A i \in 1 .. Len(Tail(N)) : Tail(N)[i] = N[i + 1] /\ i + 1 \in 1 .. Len(N)
      /\ \A i \in 2 .. Len(N) : N[i] = Tail(N)[i - 1] /\ i - 1 \in 1 .. Len(Tail(N))
  BY TailAt
<1>2. NoneAcknowledges(N, k) => NoneAcknowledges(Tail(N), k)
  BY NoneLeft
<1>3. ASSUME NEW p, NEW i \in 1 .. Len(N), E = {p}, KeyAcknowledges(k, p, S, N, x, y, i)
      PROVE  i - 1 \in 1 .. Len(Tail(N)) /\ KeyAcknowledges(k, p, S, Tail(N), z, y, i - 1)
  <2>1. i \in 1 .. Len(N) /\ Acknowledges(N[i], k) /\ z = x
    BY <1>3 DEF KeyAcknowledges
  <2>2. i \in 2 .. Len(N) /\ i \in 0 .. Len(N) /\ i > 0
    BY <2>1, <1>1
  <2>3. \A j \in 1 .. Len(Tail(N)) : Acknowledges(Tail(N)[j], k) <=> j = i - 1
    <3> TAKE j \in 1 .. Len(Tail(N))
    <3>1. j + 1 = i <=> j = i - 1
      BY <1>1, <2>2
    <3> QED BY <3>1, <1>1, <1>3 DEF KeyAcknowledges
  <2>4. LeadsTo(Tail(N), k, i - 1, x, y)
    BY <2>2, <1>3, LeadsToTail DEF KeyAcknowledges
  <2> QED BY <2>1, <2>2, <2>3, <2>4, <1>1, <1>3 DEF KeyAcknowledges
<1>4. KeyFollows(k, E, S, N, x, y) => KeyFollows(k, E, S, Tail(N), z, y)
  <2> HAVE KeyFollows(k, E, S, N, x, y)
  <2>1. LeadsTo(N, k, 0, x, y) /\ E = {} /\ 0 \in 0 .. Len(N)
    BY <1>1 DEF KeyFollows
  <2>2. LeadsTo(Tail(N), k, 0, IF Changes(Head(N), k) THEN Head(N).value ELSE x, y)
    BY <2>1, LeadsToTail
  <2>3. z = IF Changes(Head(N), k) THEN Head(N).value ELSE x
    BY <2>1
  <2> QED BY <2>1, <2>2, <2>3, <1>2 DEF KeyFollows
<1>5. \A p, i : E = {p} /\ KeyChanges(k, p, S, N, x, i) => KeyChanges(k, p, S, Tail(N), z, i)
  BY <1>2 DEF KeyChanges
<1> QED BY <1>3, <1>4, <1>5 DEF KeyHolds

\* The master changes a key that waits for nothing.
LEMMA KeyHoldsChanged ==
  ASSUME NEW k, NEW T, NEW S \in Seq(T), NEW R, NEW N, NEW x, NEW y, NEW p, NEW c \in T,
         KeyHolds(k, {}, S, N, x, y), <<c>> \in Seq(T), Len(<<c>>) = 1, <<c>>[1] = c,
         Joined(R, S, <<c>>), Changes(c, k), c.version = p.version, ~p.freed
  PROVE  KeyHolds(k, {p}, R, N, c.value, y)
<1>1. NoneChanges(S, k) /\ NoneAcknowledges(N, k)
  BY DEF KeyHolds, KeyFollows
<1>2. /\ Len(S) \in Nat /\ Len(R) = Len(S) + 1
      /\ \A i \in 1 .. Len(R) : (i \in 1 .. Len(S) /\ R[i] = S[i]) \/ i - Len(S) \in 1 .. 1
      /\ R[Len(S) + 1] = c
  BY JoinedAt DEF Joined
<1>3. Len(R) \in 1 .. Len(R) /\ R[Len(R)] = c
  BY <1>2
<1>4. \A j \in 1 .. Len(R) : Changes(R[j], k) <=> j = Len(R)
  <2> TAKE j \in 1 .. Len(R)
  <2>1. CASE j = Len(R)
    BY <2>1, <1>3
  <2>2. CASE j # Len(R)
    <3>1. j \in 1 .. Len(S) /\ R[j] = S[j]
      BY <2>2, <1>2
    <3> QED BY <3>1, <2>2, <1>1 DEF NoneChanges
  <2> QED BY <2>1, <2>2
<1> QED BY <1>1, <1>3, <1>4 DEF KeyHolds, KeyChanges

\* The slave takes a change of the key, and acknowledges it.
LEMMA KeyHoldsTaken ==
  ASSUME NEW k, NEW E, NEW T, NEW S \in Seq(T), S # <<>>, NEW N \in Seq(T), NEW R, NEW x, NEW y,
         NEW a \in T, KeyHolds(k, E, S, N, x, y), Changes(Head(S), k),
         <<a>> \in Seq(T), Len(<<a>>) = 1, <<a>>[1] = a,
         Joined(R, N, <<a>>), Acknowledges(a, k), a.version = Head(S).version
  PROVE  KeyHolds(k, E, Tail(S), R, x, Head(S).value)
<1>1. /\ Head(S) = S[1] /\ 1 \in 1 .. Len(S) /\ Len(S) \in Nat
      /\ \A i \in 1 .. Len(Tail(S)) : Tail(S)[i] = S[i + 1] /\ i + 1 \in 1 .. Len(S) /\ i + 1 # 1
  <2>1. /\ Head(S) = S[1] /\ Len(S) \in Nat /\ Len(S) > 0 /\ Len(Tail(S)) = Len(S) - 1
        /\ \A i \in 1 .. Len(Tail(S)) : Tail(S)[i] = S[i + 1] /\ i + 1 \in 1 .. Len(S)
    BY TailAt
  <2> QED BY <2>1
<1>2. PICK p \in E, i \in 1 .. Len(S) : E = {p} /\ KeyChanges(k, p, S, N, x, i)
  <2>1. ~NoneChanges(S, k)
    BY <1>1 DEF NoneChanges
  <2> QED BY <2>1 DEF KeyHolds, KeyFollows, KeyAcknowledges
<1>3. i = 1 /\ NoneChanges(Tail(S), k) /\ NoneAcknowledges(N, k)
  <2>1. i = 1
    BY <1>1, <1>2 DEF KeyChanges
  <2> QED BY <2>1, <1>1, <1>2 DEF KeyChanges, NoneChanges
<1>4. /\ Len(N) \in Nat /\ Len(R) = Len(N) + 1
      /\ \A j \in 1 .. Len(R) : (j \in 1 .. Len(N) /\ R[j] = N[j]) \/ j - Len(N) \in 1 .. 1
      /\ R[Len(N) + 1] = a
  BY JoinedAt DEF Joined
<1>5. Len(R) \in 1 .. Len(R) /\ R[Len(R)] = a
  BY <1>4
<1>6. \A j \in 1 .. Len(R) : Acknowledges(R[j], k) <=> j = Len(R)
  <2> TAKE j \in 1 .. Len(R)
  <2>1. CASE j = Len(R)
    BY <2>1, <1>5
  <2>2. CASE j # Len(R)
    <3>1. j \in 1 .. Len(N) /\ R[j] = N[j]
      BY <2>2, <1>4
    <3> QED BY <3>1, <2>2, <1>3 DEF NoneAcknowledges
  <2> QED BY <2>1, <2>2
<1>7. LeadsTo(R, k, Len(R), x, x)
  <2>1. \A j \in Len(R) + 1 .. Len(R) : FALSE
    BY <1>4
  <2> QED BY <2>1 DEF LeadsTo
<1>8. S[1].value = x /\ S[1].version = p.version /\ ~p.freed
  BY <1>2, <1>3 DEF KeyChanges
<1>9. KeyAcknowledges(k, p, Tail(S), R, x, x, Len(R))
  BY <1>1, <1>3, <1>5, <1>6, <1>7, <1>8 DEF KeyAcknowledges
<1>10. KeyHolds(k, E, Tail(S), R, x, x)
  BY <1>2, <1>5, <1>9 DEF KeyHolds
<1> QED BY <1>1, <1>8, <1>10

\* The master takes the acknowledgement.
LEMMA KeyHoldsAcknowledged ==
  ASSUME NEW k, NEW E, NEW T, NEW S, NEW N \in Seq(T), N # <<>>, NEW x, NEW y,
         KeyHolds(k, E, S, N, x, y), Acknowledges(Head(N), k)
  PROVE  /\ \E p : E = {p} /\ p.version = Head(N).version /\ ~p.freed
         /\ KeyHolds(k, {}, S, Tail(N), x, y)
<1>1. /\ Head(N) = N[1] /\ 1 \in 1 .. Len(N) /\ Len(N) \in Nat /\ 1 \in 0 .. Len(N)
      /\ \A i \in 1 .. Len(Tail(N)) : Tail(N)[i] = N[i + 1] /\ i + 1 \in 1 .. Len(N) /\ i + 1 # 1
  <2>1. /\ Head(N) = N[1] /\ Len(N) \in Nat /\ Len(N) > 0 /\ Len(Tail(N)) = Len(N) - 1
        /\ \A i \in 1 .. Len(Tail(N)) : Tail(N)[i] = N[i + 1] /\ i + 1 \in 1 .. Len(N)
    BY TailAt
  <2> QED BY <2>1
<1>2. PICK p \in E, i \in 1 .. Len(N) : E = {p} /\ KeyAcknowledges(k, p, S, N, x, y, i)
  <2>1. ~NoneAcknowledges(N, k)
    BY <1>1 DEF NoneAcknowledges
  <2> QED BY <2>1 DEF KeyHolds, KeyFollows, KeyChanges
<1>3. i = 1
  BY <1>1, <1>2 DEF KeyAcknowledges
<1>4. NoneAcknowledges(Tail(N), k)
  BY <1>1, <1>2, <1>3 DEF KeyAcknowledges, NoneAcknowledges
<1>5. LeadsTo(Tail(N), k, 0, x, y)
  <2>1. LeadsTo(N, k, 1, x, y)
    BY <1>2, <1>3 DEF KeyAcknowledges
  <2>2. LeadsTo(Tail(N), k, 1 - 1, x, y)
    BY <2>1, <1>1, LeadsToTail
  <2> QED BY <2>2
<1> QED BY <1>1, <1>2, <1>3, <1>4, <1>5 DEF KeyAcknowledges, KeyFollows, KeyHolds

\* The ends of a map, and the variables at them.
LEMMA MapAt ==
  ASSUME MapInv
  PROVE  /\ Master # Slave /\ Ends = {Master, Slave} /\ Map!Ends = Ends
         /\ Map!Other(Master) = Slave /\ Map!Other(Slave) = Master
         /\ mapNet[Slave] \in Seq(ToSlave) /\ mapNet[Master] \in Seq(ToMaster)
         /\ mapNet \in [Ends -> Seq(ToSlave \cup ToMaster)]
         /\ mapNet[Slave] \in Seq(ToSlave \cup ToMaster) /\ mapNet[Master] \in Seq(ToSlave \cup ToMaster)
         /\ map \in [Ends -> [Keys -> MapValue]] /\ mapVersion \in Nat
         /\ mapChanges \in [Ends -> Nat] /\ \A e \in Ends : MaxMapped[e] \in Nat
         /\ Absent \in MapValue /\ Mapped \subseteq MapValue /\ Absent \notin Mapped
BY EntitiesAssumption, PropertyAssumption
   DEF Map!MapAssumption, MapInv, MapTypes, MapValue, Map!Ends, Ends, Map!Other

\* A change is of its key, and says what it says.
LEMMA MapChangeIs ==
  \A n, k, v, j : /\ Changes(Map!Change(n, k, v), j) <=> k = j
                  /\ ~Acknowledges(Map!Change(n, k, v), j)
                  /\ Map!Change(n, k, v).value = v /\ Map!Change(n, k, v).version = n
BY DEF Map!Change, Changes, Acknowledges

\* The changes of the keys ks, to v, are sent by the master, or by the slave.
LEMMA MapMasterSends ==
  ASSUME MapInv, NEW ks \in Seq(Keys), NEW v \in MapValue, Map!SendChanges(Master, ks, v)
  PROVE  /\ mapNet' \in [Ends -> Seq(ToSlave \cup ToMaster)] /\ mapNet'[Slave] \in Seq(ToSlave)
         /\ mapNet'[Master] = mapNet[Master]
         /\ mapVersion' = mapVersion + Len(ks)
         /\ mapChanges' \in [Ends -> Nat] /\ \A e \in Ends : mapChanges'[e] <= MaxMapped[e]
         /\ \E W \in Seq(ToSlave) :
              /\ Joined(mapNet'[Slave], mapNet[Slave], W) /\ Len(W) = Len(ks)
              /\ \A n \in 1 .. Len(ks) : W[n] = Map!Change(mapVersion + n, ks[n], v)
<1> DEFINE W == [n \in DOMAIN ks |-> Map!Change(Map!Version(Master, n), ks[n], v)]
<1>1. /\ Master # Slave /\ Ends = {Master, Slave} /\ Map!Other(Master) = Slave
      /\ mapNet[Slave] \in Seq(ToSlave) /\ mapNet \in [Ends -> Seq(ToSlave \cup ToMaster)]
      /\ mapVersion \in Nat /\ mapChanges \in [Ends -> Nat] /\ \A e \in Ends : MaxMapped[e] \in Nat
  BY MapAt
<1>2. /\ DOMAIN ks = 1 .. Len(ks) /\ Len(ks) \in Nat /\ \A n \in 1 .. Len(ks) : ks[n] \in Keys
  BY LenProperties
<1>3. \A n \in 1 .. Len(ks) : /\ W[n] = Map!Change(mapVersion + n, ks[n], v)
                              /\ Map!Change(mapVersion + n, ks[n], v) \in ToSlave
  <2> TAKE n \in 1 .. Len(ks)
  <2>1. W[n] = Map!Change(mapVersion + n, ks[n], v)
    BY <1>2 DEF Map!Version
  <2>2. mapVersion + n \in Nat \ {0}
    BY <1>1
  <2> QED BY <2>1, <2>2, <1>2 DEF Map!Change, ToSlave
<1>4. W \in Seq(ToSlave) /\ Len(W) = Len(ks)
  <2>1. W \in [1 .. Len(ks) -> ToSlave]
    <3>1. DOMAIN W = 1 .. Len(ks) /\ W = [n \in DOMAIN W |-> W[n]]
      BY <1>2
    <3> HIDE DEF W
    <3> QED BY <3>1, <1>3
  <2> HIDE DEF W
  <2> QED BY <2>1, <1>2, SeqDef, LenProperties
<1>5. /\ mapNet' = [mapNet EXCEPT ![Slave] = @ \o W]
      /\ mapVersion' = mapVersion + Len(ks) /\ mapChanges[Master] < MaxMapped[Master]
      /\ mapChanges' = [mapChanges EXCEPT ![Master] = @ + 1]
  BY <1>1 DEF Map!SendChanges
<1> HIDE DEF W
<1>6. /\ mapNet[Slave] \o W \in Seq(ToSlave) /\ Joined(mapNet[Slave] \o W, mapNet[Slave], W)
  BY <1>1, <1>4, JoinedIs
<1>7. mapNet[Slave] \o W \in Seq(ToSlave \cup ToMaster)
  <2>1. mapNet[Slave] \in Seq(ToSlave \cup ToMaster) /\ W \in Seq(ToSlave \cup ToMaster)
    BY <1>1, <1>4, SeqDef
  <2> QED BY <2>1, JoinedIs
<1>8. /\ mapNet' \in [Ends -> Seq(ToSlave \cup ToMaster)] /\ mapNet'[Slave] = mapNet[Slave] \o W
      /\ mapNet'[Master] = mapNet[Master]
  BY <1>1, <1>5, <1>7
<1>9. mapChanges' \in [Ends -> Nat] /\ \A e \in Ends : mapChanges'[e] <= MaxMapped[e]
  <2>1. \A e \in Ends : mapChanges[e] <= MaxMapped[e]
    BY DEF MapInv, MapTypes
  <2> QED BY <2>1, <1>1, <1>5
<1> QED BY <1>3, <1>4, <1>5, <1>6, <1>8, <1>9

\* The same of the slave.
LEMMA MapSlaveSends ==
  ASSUME MapInv, NEW ks \in Seq(Keys), NEW v \in MapValue, Map!SendChanges(Slave, ks, v)
  PROVE  /\ mapNet' \in [Ends -> Seq(ToSlave \cup ToMaster)] /\ mapNet'[Master] \in Seq(ToMaster)
         /\ mapNet'[Slave] = mapNet[Slave]
         /\ mapVersion' = mapVersion
         /\ mapChanges' \in [Ends -> Nat] /\ \A e \in Ends : mapChanges'[e] <= MaxMapped[e]
         /\ \E W \in Seq(ToMaster) :
              /\ Joined(mapNet'[Master], mapNet[Master], W) /\ Len(W) = Len(ks)
              /\ \A n \in 1 .. Len(ks) : W[n] = Map!Change(0, ks[n], v)
<1> DEFINE W == [n \in DOMAIN ks |-> Map!Change(Map!Version(Slave, n), ks[n], v)]
<1>1. /\ Master # Slave /\ Ends = {Master, Slave} /\ Map!Other(Slave) = Master
      /\ mapNet[Master] \in Seq(ToMaster) /\ mapNet \in [Ends -> Seq(ToSlave \cup ToMaster)]
      /\ mapVersion \in Nat /\ mapChanges \in [Ends -> Nat] /\ \A e \in Ends : MaxMapped[e] \in Nat
  BY MapAt
<1>2. /\ DOMAIN ks = 1 .. Len(ks) /\ Len(ks) \in Nat /\ \A n \in 1 .. Len(ks) : ks[n] \in Keys
  BY LenProperties
<1>3. \A n \in 1 .. Len(ks) : /\ W[n] = Map!Change(0, ks[n], v)
                              /\ Map!Change(0, ks[n], v) \in ToMaster
  <2> TAKE n \in 1 .. Len(ks)
  <2>1. W[n] = Map!Change(0, ks[n], v)
    BY <1>1, <1>2 DEF Map!Version, Map!Unversioned
  <2> QED BY <2>1, <1>2 DEF Map!Change, ToMaster
<1>4. W \in Seq(ToMaster) /\ Len(W) = Len(ks)
  <2>1. W \in [1 .. Len(ks) -> ToMaster]
    <3>1. DOMAIN W = 1 .. Len(ks) /\ W = [n \in DOMAIN W |-> W[n]]
      BY <1>2
    <3> HIDE DEF W
    <3> QED BY <3>1, <1>3
  <2> HIDE DEF W
  <2> QED BY <2>1, <1>2, SeqDef, LenProperties
<1>5. /\ mapNet' = [mapNet EXCEPT ![Master] = @ \o W]
      /\ mapVersion' = mapVersion /\ mapChanges[Slave] < MaxMapped[Slave]
      /\ mapChanges' = [mapChanges EXCEPT ![Slave] = @ + 1]
  BY <1>1 DEF Map!SendChanges
<1> HIDE DEF W
<1>6. /\ mapNet[Master] \o W \in Seq(ToMaster) /\ Joined(mapNet[Master] \o W, mapNet[Master], W)
  BY <1>1, <1>4, JoinedIs
<1>7. mapNet[Master] \o W \in Seq(ToSlave \cup ToMaster)
  <2>1. mapNet[Master] \in Seq(ToSlave \cup ToMaster) /\ W \in Seq(ToSlave \cup ToMaster)
    BY <1>1, <1>4, SeqDef
  <2> QED BY <2>1, JoinedIs
<1>8. /\ mapNet' \in [Ends -> Seq(ToSlave \cup ToMaster)] /\ mapNet'[Master] = mapNet[Master] \o W
      /\ mapNet'[Slave] = mapNet[Slave]
  BY <1>1, <1>5, <1>7
<1>9. mapChanges' \in [Ends -> Nat] /\ \A e \in Ends : mapChanges'[e] <= MaxMapped[e]
  <2>1. \A e \in Ends : mapChanges[e] <= MaxMapped[e]
    BY DEF MapInv, MapTypes
  <2> QED BY <2>1, <1>1, <1>5
<1> QED BY <1>3, <1>4, <1>5, <1>6, <1>8, <1>9

\* Whether key k is one of ks.
Has(ks, k) == \E n \in 1 .. Len(ks) : ks[n] = k

\* The slave changes the keys ks to v.
LEMMA MapSlaveChanges ==
  ASSUME MapInv, NEW ks \in Seq(Keys), NEW v \in MapValue, Map!SendChanges(Slave, ks, v),
         map' \in [Ends -> [Keys -> MapValue]], map'[Master] = map[Master],
         \A k \in Keys : map'[Slave][k] = IF Has(ks, k) THEN v ELSE map[Slave][k],
         UNCHANGED <<pendingForAck, hasty>>
  PROVE  MapInv'
<1>1. /\ mapNet' \in [Ends -> Seq(ToSlave \cup ToMaster)] /\ mapNet'[Master] \in Seq(ToMaster)
      /\ mapNet'[Slave] = mapNet[Slave]
      /\ mapVersion' = mapVersion
      /\ mapChanges' \in [Ends -> Nat] /\ \A e \in Ends : mapChanges'[e] <= MaxMapped[e]
  BY MapSlaveSends
<1>2. PICK W \in Seq(ToMaster) :
        /\ Joined(mapNet'[Master], mapNet[Master], W) /\ Len(W) = Len(ks)
        /\ \A n \in 1 .. Len(ks) : W[n] = Map!Change(0, ks[n], v)
  BY MapSlaveSends
<1>3. MapTypes'
  BY <1>1 DEF MapInv, MapTypes
<1>4. MapEntries'
  BY DEF MapInv, MapEntries
<1>5. ASSUME NEW k \in Keys \ hasty
      PROVE  KeyHolds(k, Map!EntriesOf(k)', mapNet'[Slave], mapNet'[Master],
                      map'[Master][k], map'[Slave][k])
  <2>1. \A n \in 1 .. Len(W) : /\ Changes(W[n], k) <=> ks[n] = k
                               /\ ~Acknowledges(W[n], k) /\ W[n].value = v
    BY <1>2, MapChangeIs
  <2>2. NoneAcknowledges(W, k) /\ (NoneChanges(W, k) => ~Has(ks, k))
    BY <2>1, <1>2 DEF NoneAcknowledges, NoneChanges, Has
  <2>3. \A n \in 1 .. Len(W) : Changes(W[n], k) => W[n].value = map'[Slave][k]
    <3> TAKE n \in 1 .. Len(W)
    <3> HAVE Changes(W[n], k)
    <3>1. Has(ks, k)
      BY <2>1, <1>2 DEF Has
    <3> QED BY <3>1, <2>1
  <2>4. NoneChanges(W, k) => map'[Slave][k] = map[Slave][k]
    BY <2>2
  <2>5. KeyHolds(k, Map!EntriesOf(k), mapNet[Slave], mapNet[Master], map[Master][k], map[Slave][k])
    BY DEF MapInv
  <2>6. KeyHolds(k, Map!EntriesOf(k), mapNet[Slave], mapNet'[Master], map[Master][k], map'[Slave][k])
    BY <2>2, <2>3, <2>4, <2>5, <1>2, MapAt, KeyHoldsMasterGrown
  <2>7. Map!EntriesOf(k)' = Map!EntriesOf(k)
    BY DEF Map!EntriesOf
  <2> QED BY <2>6, <2>7, <1>1
<1> QED BY <1>3, <1>4, <1>5 DEF MapInv

\* The master changes the keys ks to v: all of them are hasty, but for one alone that waits
\* for nothing.
LEMMA MapMasterChanges ==
  ASSUME MapInv, NEW ks \in Seq(Keys), NEW v \in MapValue, Map!SendChanges(Master, ks, v),
         map' \in [Ends -> [Keys -> MapValue]], map'[Slave] = map[Slave],
         \A k \in Keys : map'[Master][k] = IF Has(ks, k) THEN v ELSE map[Master][k],
         pendingForAck' \subseteq [key : Keys, version : 1 .. mapVersion + Len(ks), freed : BOOLEAN],
         hasty \subseteq hasty', hasty' \subseteq Keys, MapEntries',
         \A k \in Keys : ~Has(ks, k) => Map!EntriesOf(k)' = Map!EntriesOf(k),
         \A k \in Keys : Has(ks, k) =>
           \/ k \in hasty'
           \/ /\ Len(ks) = 1 /\ ks[1] = k /\ Map!EntriesOf(k) = {}
              /\ Map!EntriesOf(k)' = {Map!Pending(k, mapVersion + 1, FALSE)}
  PROVE  MapInv'
<1>1. /\ mapNet' \in [Ends -> Seq(ToSlave \cup ToMaster)] /\ mapNet'[Slave] \in Seq(ToSlave)
      /\ mapNet'[Master] = mapNet[Master]
      /\ mapVersion' = mapVersion + Len(ks)
      /\ mapChanges' \in [Ends -> Nat] /\ \A e \in Ends : mapChanges'[e] <= MaxMapped[e]
  BY MapMasterSends
<1>2. PICK W \in Seq(ToSlave) :
        /\ Joined(mapNet'[Slave], mapNet[Slave], W) /\ Len(W) = Len(ks)
        /\ \A n \in 1 .. Len(ks) : W[n] = Map!Change(mapVersion + n, ks[n], v)
  BY MapMasterSends
<1>3. MapTypes'
  <2>1. Len(ks) \in Nat /\ mapVersion \in Nat
    BY MapAt
  <2> QED BY <2>1, <1>1 DEF MapInv, MapTypes
<1>4. ASSUME NEW k \in Keys, k \notin hasty'
      PROVE  KeyHolds(k, Map!EntriesOf(k)', mapNet'[Slave], mapNet'[Master],
                      map'[Master][k], map'[Slave][k])
  <2>1. KeyHolds(k, Map!EntriesOf(k), mapNet[Slave], mapNet[Master], map[Master][k], map[Slave][k])
    BY <1>4 DEF MapInv
  <2>2. CASE ~Has(ks, k)
    <3>1. NoneChanges(W, k)
      BY <2>2, <1>2, MapChangeIs DEF NoneChanges, Has
    <3>2. KeyHolds(k, Map!EntriesOf(k), mapNet'[Slave], mapNet[Master], map[Master][k], map[Slave][k])
      BY <2>1, <3>1, <1>2, MapAt, KeyHoldsSlaveGrown
    <3> QED BY <3>2, <2>2, <1>1
  <2>3. CASE Has(ks, k)
    <3> DEFINE c == Map!Change(mapVersion + 1, k, v)
               p == Map!Pending(k, mapVersion + 1, FALSE)
    <3>1. /\ Len(ks) = 1 /\ ks[1] = k /\ Map!EntriesOf(k) = {} /\ Map!EntriesOf(k)' = {p}
          /\ map'[Master][k] = v /\ map'[Slave][k] = map[Slave][k]
      BY <2>3, <1>4
    <3>2. Changes(c, k) /\ c.version = p.version /\ ~p.freed /\ c.value = v
      BY DEF Changes, Map!Change, Map!Pending
    <3>3. Len(W) = 1 /\ W[1] = c
      BY <3>1, <1>2
    <3> HIDE DEF c, p
    <3>4. Joined(mapNet'[Slave], mapNet[Slave], <<c>>) /\ c \in ToSlave
      <4>1. \A i \in 1 .. 1 : W[i] = c /\ <<c>>[i] = c
        BY <3>3
      <4>2. c \in ToSlave
        <5>1. 1 \in 1 .. Len(W)
          BY <3>3
        <5>2. W[1] \in ToSlave
          BY <5>1
        <5> QED BY <5>2, <3>3
      <4>3. Len(<<c>>) = 1
        OBVIOUS
      <4>4. /\ Len(mapNet'[Slave]) = Len(mapNet[Slave]) + 1
            /\ \A i \in 1 .. Len(mapNet[Slave]) : mapNet'[Slave][i] = mapNet[Slave][i]
            /\ \A i \in 1 .. 1 : mapNet'[Slave][Len(mapNet[Slave]) + i] = W[i]
        BY <3>3, <1>2 DEF Joined
      <4> QED BY <4>1, <4>2, <4>3, <4>4 DEF Joined
    <3>5. <<c>> \in Seq(ToSlave) /\ Len(<<c>>) = 1 /\ <<c>>[1] = c
      BY <3>4
    <3>6. KeyHolds(k, {}, mapNet[Slave], mapNet[Master], map[Master][k], map[Slave][k])
      BY <2>1, <3>1
    <3>7. KeyHolds(k, {p}, mapNet'[Slave], mapNet[Master], c.value, map[Slave][k])
      BY <3>2, <3>4, <3>5, <3>6, MapAt, KeyHoldsChanged
    <3> QED BY <3>1, <3>2, <3>7, <1>1
  <2> QED BY <2>2, <2>3
<1> QED BY <1>3, <1>4 DEF MapInv

\* Looking a key up finds one of its entries, or none, when all are freed.
LEMMA FoundIs ==
  ASSUME NEW k, NEW found \in Map!Found(k)
  PROVE  \/ found = {} /\ \A p \in pendingForAck : p.key = k => p.freed
         \/ \E p \in pendingForAck : found = {p} /\ p.key = k
BY DEF Map!Found, Map!EntriesOf

\* The keys in an order are those keys.
LEMMA KeysInOrder ==
  ASSUME NEW S \in SUBSET Keys, NEW ks \in Map!SetToSeqs(S)
  PROVE  ks \in Seq(Keys) /\ \A k \in Keys : Has(ks, k) <=> k \in S
<1>1. IsFiniteSet(Keys)
  BY EntitiesAssumption DEF Map!MapAssumption, Map!IsFiniteSet, IsFiniteSet
<1>2. IsFiniteSet(S) /\ Cardinality(S) \in Nat
  BY <1>1, FS_Subset, FS_CardinalityType
<1>3. Map!Cardinality(S) = Cardinality(S)
  BY DEF Map!Cardinality, Cardinality, Map!IsFiniteSet, IsFiniteSet
<1> DEFINE n == Cardinality(S)
<1>4. ks \in [1 .. n -> S] /\ \A i, j \in 1 .. n : i # j => ks[i] # ks[j]
  BY <1>3 DEF Map!SetToSeqs
<1>5. ks \in Injection(1 .. n, S)
  BY <1>4 DEF Injection, IsInjective
<1>6. Cardinality(1 .. n) = n
  BY <1>2, FS_Interval
<1> HIDE DEF n
<1>7. ks \in Surjection(1 .. n, S)
  BY <1>2, <1>5, <1>6, FS_Injection DEF n
<1>8. ks \in Seq(Keys) /\ Len(ks) = n
  <2>1. ks \in [1 .. n -> Keys] /\ n \in Nat
    BY <1>2, <1>4 DEF n
  <2> QED BY <2>1, SeqDef, LenProperties
<1> QED BY <1>4, <1>7, <1>8 DEF Has, Surjection

\* One key in an order.
LEMMA OneKey ==
  ASSUME NEW k \in Keys
  PROVE  /\ <<k>> \in Seq(Keys) /\ Len(<<k>>) = 1 /\ <<k>>[1] = k
         /\ \A j : Has(<<k>>, j) <=> j = k
<1>1. <<k>> \in Seq(Keys) /\ Len(<<k>>) = 1 /\ <<k>>[1] = k
  OBVIOUS
<1>2. \A n \in 1 .. 1 : n = 1
  OBVIOUS
<1> QED BY <1>1, <1>2 DEF Has

\* The users of an end set a key.
LEMMA MapPutStep == ASSUME MapInv, NEW e \in Ends, NEW k \in Keys, NEW v \in Mapped, Map!Put(e, k, v)
                    PROVE  MapInv'
<1>1. /\ <<k>> \in Seq(Keys) /\ Len(<<k>>) = 1 /\ <<k>>[1] = k
      /\ \A j : Has(<<k>>, j) <=> j = k
  BY OneKey
<1>2. /\ Master # Slave /\ Ends = {Master, Slave} /\ map \in [Ends -> [Keys -> MapValue]]
      /\ v \in MapValue /\ v # Absent /\ mapVersion \in Nat
  BY MapAt
<1>3. Map!SendChanges(e, <<k>>, v) /\ map' = [map EXCEPT ![e][k] = v]
  BY DEF Map!Put
<1>4. /\ map' \in [Ends -> [Keys -> MapValue]]
      /\ \A f \in Ends \ {e} : map'[f] = map[f]
      /\ \A j \in Keys : map'[e][j] = IF j = k THEN v ELSE map[e][j]
  BY <1>2, <1>3
<1>5. \A j \in Keys : map'[e][j] = IF Has(<<k>>, j) THEN v ELSE map[e][j]
  BY <1>1, <1>4
<1>6. CASE e = Slave
  <2>1. UNCHANGED <<pendingForAck, hasty>> /\ map'[Master] = map[Master]
    BY <1>2, <1>4, <1>6 DEF Map!Put
  <2> QED BY <2>1, <1>1, <1>2, <1>3, <1>4, <1>5, <1>6, MapSlaveChanges
<1>7. CASE e = Master
  <2> DEFINE q == Map!Pending(k, mapVersion + 1, FALSE)
  <2>1. Map!Version(Master, 1) = mapVersion + 1
    BY DEF Map!Version
  <2>2. PICK found \in Map!Found(k) : pendingForAck' = Map!Emplace(k, mapVersion + 1, found)
    BY <2>1, <1>7 DEF Map!Put
  <2>3. hasty' = IF Map!EntriesOf(k) # {} THEN hasty \cup {k} ELSE hasty
    BY <1>7 DEF Map!Put
  <2>4. \/ /\ found = {} /\ \A p \in pendingForAck : p.key = k => p.freed
           /\ pendingForAck' = pendingForAck \cup {q}
        \/ pendingForAck' = pendingForAck /\ \E p \in pendingForAck : p.key = k
    <3>1. CASE found = {} /\ \A p \in pendingForAck : p.key = k => p.freed
      BY <3>1, <2>2 DEF Map!Emplace
    <3>2. CASE \E p \in pendingForAck : found = {p} /\ p.key = k
      <4>1. found # {}
        BY <3>2
      <4> QED BY <4>1, <3>2, <2>2 DEF Map!Emplace
    <3> QED BY <3>1, <3>2, <2>2, FoundIs
  <2>5. q.key = k /\ q.version = mapVersion + 1 /\ ~q.freed
        /\ q \in [key : Keys, version : 1 .. mapVersion + 1, freed : BOOLEAN]
    BY <1>2 DEF Map!Pending
  <2> HIDE DEF q
  <2>6. pendingForAck' \subseteq [key : Keys, version : 1 .. mapVersion + 1, freed : BOOLEAN]
    <3>1. pendingForAck \subseteq [key : Keys, version : 1 .. mapVersion, freed : BOOLEAN]
      BY DEF MapInv, MapTypes
    <3>2. 1 .. mapVersion \subseteq 1 .. mapVersion + 1
      BY <1>2
    <3>3. pendingForAck \subseteq [key : Keys, version : 1 .. mapVersion + 1, freed : BOOLEAN]
      BY <3>1, <3>2
    <3> QED BY <3>3, <2>4, <2>5
  <2>7. MapEntries'
    <3>1. ASSUME NEW p \in pendingForAck', ~p.freed
          PROVE  /\ map'[Master][p.key] # Absent
                 /\ \A r \in pendingForAck' : r.key = p.key /\ ~r.freed => r = p
      <4>1. MapEntries /\ p.key \in Keys
        BY <2>6 DEF MapInv
      <4>2. CASE p \in pendingForAck
        <5>1. map[Master][p.key] # Absent
          BY <4>1, <4>2, <3>1 DEF MapEntries
        <5>2. map'[Master][p.key] # Absent
          BY <5>1, <4>1, <1>2, <1>4, <1>7
        <5>3. \A r \in pendingForAck' : r.key = p.key /\ ~r.freed => r = p
          BY <4>1, <4>2, <3>1, <2>4, <2>5 DEF MapEntries
        <5> QED BY <5>2, <5>3
      <4>3. CASE p \notin pendingForAck
        <5>1. p = q /\ \A r \in pendingForAck : r.key = k => r.freed
          BY <4>3, <3>1, <2>4
        <5>2. map'[Master][k] # Absent
          BY <1>2, <1>4, <1>7
        <5> QED BY <5>1, <5>2, <2>4, <2>5
      <4> QED BY <4>2, <4>3
    <3> QED BY <3>1 DEF MapEntries
  <2>8. \A j \in Keys : ~Has(<<k>>, j) => Map!EntriesOf(j)' = Map!EntriesOf(j)
    <3> TAKE j \in Keys
    <3> HAVE ~Has(<<k>>, j)
    <3>1. j # k
      BY <1>1
    <3> QED BY <3>1, <2>4, <2>5 DEF Map!EntriesOf
  <2>9. k \in hasty' \/ (Map!EntriesOf(k) = {} /\ Map!EntriesOf(k)' = {q})
    <3>1. CASE Map!EntriesOf(k) = {}
      <4>1. pendingForAck' = pendingForAck \cup {q}
        BY <3>1, <2>4 DEF Map!EntriesOf
      <4> QED BY <4>1, <3>1, <2>5 DEF Map!EntriesOf
    <3> QED BY <3>1, <2>3
  <2>10. \A j \in Keys : Has(<<k>>, j) =>
           \/ j \in hasty'
           \/ /\ Len(<<k>>) = 1 /\ <<k>>[1] = j /\ Map!EntriesOf(j) = {}
              /\ Map!EntriesOf(j)' = {Map!Pending(j, mapVersion + 1, FALSE)}
    <3> TAKE j \in Keys
    <3> HAVE Has(<<k>>, j)
    <3>1. j = k
      BY <1>1
    <3> QED BY <3>1, <2>9, <1>1 DEF q
  <2>11. hasty \subseteq hasty' /\ hasty' \subseteq Keys
    BY <2>3 DEF MapInv, MapTypes
  <2>12. map'[Slave] = map[Slave]
    BY <1>2, <1>4, <1>7
  <2>13. pendingForAck' \subseteq [key : Keys, version : 1 .. mapVersion + Len(<<k>>), freed : BOOLEAN]
    BY <2>6, <1>1
  <2>14. /\ Map!SendChanges(Master, <<k>>, v)
         /\ \A j \in Keys : map'[Master][j] = IF Has(<<k>>, j) THEN v ELSE map[Master][j]
    BY <1>3, <1>5, <1>7
  <2>15. <<k>> \in Seq(Keys) /\ v \in MapValue /\ map' \in [Ends -> [Keys -> MapValue]]
    BY <1>1, <1>2, <1>4
  <2> HIDE DEF q
  <2> QED BY <2>7, <2>8, <2>10, <2>11, <2>12, <2>13, <2>14, <2>15, MapMasterChanges
<1> QED BY <1>2, <1>6, <1>7

\* The entries P, those of the keys of ks freed.
Freed(P, ks) == {[p EXCEPT !.freed = @ \/ Has(ks, p.key)] : p \in P}

\* The master lets go of the keys of ks: the entries there were, and some more of them, are freed.
LEMMA MapMasterErases ==
  ASSUME MapInv, NEW ks \in Seq(Keys), Map!SendChanges(Master, ks, Absent),
         map' \in [Ends -> [Keys -> MapValue]], map'[Slave] = map[Slave],
         \A k \in Keys : map'[Master][k] = IF Has(ks, k) THEN Absent ELSE map[Master][k],
         NEW P, pendingForAck \subseteq P,
         P \subseteq [key : Keys, version : 1 .. mapVersion + Len(ks), freed : BOOLEAN],
         \A p \in P \ pendingForAck : Has(ks, p.key),
         pendingForAck' = Freed(P, ks),
         hasty \subseteq hasty', hasty' \subseteq Keys, \A k \in Keys : Has(ks, k) => k \in hasty'
  PROVE  MapInv'
<1>1. Absent \in MapValue /\ mapVersion + Len(ks) \in Nat
  BY MapAt
<1>2. \A p \in P : /\ p.key \in Keys /\ p.version \in 1 .. mapVersion + Len(ks) /\ p.freed \in BOOLEAN
                   /\ p \in [key : Keys, version : Nat, freed : BOOLEAN]
  BY <1>1
<1>3. \A p \in pendingForAck' : \E r \in P : p = [r EXCEPT !.freed = @ \/ Has(ks, r.key)]
  BY DEF Freed
<1>4. \A r \in P : LET p == [r EXCEPT !.freed = @ \/ Has(ks, r.key)]
                    IN  /\ p \in [key : Keys, version : 1 .. mapVersion + Len(ks), freed : BOOLEAN]
                        /\ p.key = r.key /\ (Has(ks, r.key) => p.freed) /\ (~Has(ks, r.key) => p = r)
  <2> TAKE r \in P
  <2>1. r \in [key : Keys, version : 1 .. mapVersion + Len(ks), freed : BOOLEAN]
    OBVIOUS
  <2>2. CASE Has(ks, r.key)
    BY <2>1, <2>2
  <2>3. CASE ~Has(ks, r.key)
    BY <2>1, <2>3
  <2> QED BY <2>2, <2>3
<1>5. pendingForAck' \subseteq [key : Keys, version : 1 .. mapVersion + Len(ks), freed : BOOLEAN]
  BY <1>3, <1>4
<1>6. \A p \in pendingForAck' : ~Has(ks, p.key) => p \in pendingForAck
  BY <1>3, <1>4
<1>7. \A p \in pendingForAck : ~Has(ks, p.key) => p \in pendingForAck'
  <2> TAKE p \in pendingForAck
  <2> HAVE ~Has(ks, p.key)
  <2>1. p = [p EXCEPT !.freed = @ \/ Has(ks, p.key)]
    BY <1>4
  <2> QED BY <2>1 DEF Freed
<1>8. \A p \in pendingForAck' : Has(ks, p.key) => p.freed
  BY <1>3, <1>4
<1>9. MapEntries'
  <2>1. ASSUME NEW p \in pendingForAck', ~p.freed
        PROVE  /\ map'[Master][p.key] # Absent
               /\ \A r \in pendingForAck' : r.key = p.key /\ ~r.freed => r = p
    <3>1. ~Has(ks, p.key) /\ p \in pendingForAck /\ p.key \in Keys /\ MapEntries
      BY <2>1, <1>5, <1>6, <1>8 DEF MapInv
    <3> QED BY <3>1, <2>1, <1>6 DEF MapEntries
  <2> QED BY <2>1 DEF MapEntries
<1>10. \A k \in Keys : ~Has(ks, k) => Map!EntriesOf(k)' = Map!EntriesOf(k)
  BY <1>6, <1>7 DEF Map!EntriesOf
<1> QED BY <1>1, <1>5, <1>9, <1>10, MapMasterChanges

\* The users of an end remove a key.
LEMMA MapRemoveStep ==
  ASSUME MapInv, NEW e \in Ends, NEW k \in Keys, Map!RemoveKey(e, k) PROVE MapInv'
<1>1. /\ <<k>> \in Seq(Keys) /\ Len(<<k>>) = 1 /\ <<k>>[1] = k
      /\ \A j : Has(<<k>>, j) <=> j = k
  BY OneKey
<1>2. /\ Master # Slave /\ Ends = {Master, Slave} /\ map \in [Ends -> [Keys -> MapValue]]
      /\ Absent \in MapValue /\ mapVersion \in Nat
  BY MapAt
<1>3. Map!SendChanges(e, <<k>>, Absent) /\ map' = [map EXCEPT ![e][k] = Absent]
  BY DEF Map!RemoveKey
<1>4. /\ map' \in [Ends -> [Keys -> MapValue]]
      /\ \A f \in Ends \ {e} : map'[f] = map[f]
      /\ \A j \in Keys : map'[e][j] = IF j = k THEN Absent ELSE map[e][j]
  BY <1>2, <1>3
<1>5. \A j \in Keys : map'[e][j] = IF Has(<<k>>, j) THEN Absent ELSE map[e][j]
  BY <1>1, <1>4
<1>6. CASE e = Slave
  <2>1. UNCHANGED <<pendingForAck, hasty>> /\ map'[Master] = map[Master]
    BY <1>2, <1>4, <1>6 DEF Map!RemoveKey
  <2> QED BY <2>1, <1>1, <1>2, <1>3, <1>4, <1>5, <1>6, MapSlaveChanges
<1>7. CASE e = Master
  <2> DEFINE q == Map!Pending(k, mapVersion + 1, FALSE)
  <2>1. Map!Version(Master, 1) = mapVersion + 1
    BY DEF Map!Version
  <2>2. PICK found \in Map!Found(k) :
          pendingForAck' = Map!WithFreed(Map!Emplace(k, mapVersion + 1, found), k)
    BY <2>1, <1>7 DEF Map!RemoveKey
  <2> DEFINE P == Map!Emplace(k, mapVersion + 1, found)
  <2>3. hasty' = hasty \cup {k}
    BY <1>7 DEF Map!RemoveKey
  <2>4. q.key = k /\ q \in [key : Keys, version : 1 .. mapVersion + 1, freed : BOOLEAN]
    BY <1>2 DEF Map!Pending
  <2>5. pendingForAck \subseteq P /\ \A p \in P \ pendingForAck : p = q
    BY DEF Map!Emplace
  <2> HIDE DEF q, P
  <2>6. P \subseteq [key : Keys, version : 1 .. mapVersion + 1, freed : BOOLEAN]
    <3>1. pendingForAck \subseteq [key : Keys, version : 1 .. mapVersion, freed : BOOLEAN]
      BY DEF MapInv, MapTypes
    <3>2. 1 .. mapVersion \subseteq 1 .. mapVersion + 1
      BY <1>2
    <3>3. pendingForAck \subseteq [key : Keys, version : 1 .. mapVersion + 1, freed : BOOLEAN]
      BY <3>1, <3>2
    <3> QED BY <3>3, <2>4, <2>5
  <2>7. pendingForAck' = Freed(P, <<k>>)
    <3>1. \A p \in P : (IF p.key = k THEN [p EXCEPT !.freed = TRUE] ELSE p)
                       = [p EXCEPT !.freed = @ \/ Has(<<k>>, p.key)]
      <4> TAKE p \in P
      <4>1. p \in [key : Keys, version : 1 .. mapVersion + 1, freed : BOOLEAN]
        BY <2>6
      <4>2. CASE p.key = k
        <5>1. Has(<<k>>, p.key)
          BY <4>2, <1>1
        <5> QED BY <5>1, <4>1, <4>2
      <4>3. CASE p.key # k
        <5>1. ~Has(<<k>>, p.key)
          BY <4>3, <1>1
        <5> QED BY <5>1, <4>1, <4>3
      <4> QED BY <4>2, <4>3
    <3>2. pendingForAck' = {IF p.key = k THEN [p EXCEPT !.freed = TRUE] ELSE p : p \in P}
      BY <2>2 DEF Map!WithFreed, P
    <3>3. ASSUME NEW x \in pendingForAck' PROVE x \in Freed(P, <<k>>)
      <4>1. PICK p \in P : x = IF p.key = k THEN [p EXCEPT !.freed = TRUE] ELSE p
        BY <3>2
      <4>2. x = [p EXCEPT !.freed = @ \/ Has(<<k>>, p.key)]
        BY <4>1, <3>1
      <4> QED BY <4>2 DEF Freed
    <3>4. ASSUME NEW x \in Freed(P, <<k>>) PROVE x \in pendingForAck'
      <4>1. PICK p \in P : x = [p EXCEPT !.freed = @ \/ Has(<<k>>, p.key)]
        BY DEF Freed
      <4>2. x = IF p.key = k THEN [p EXCEPT !.freed = TRUE] ELSE p
        BY <4>1, <3>1
      <4> QED BY <4>2, <3>2
    <3> QED BY <3>3, <3>4
  <2>8. \A p \in P \ pendingForAck : Has(<<k>>, p.key)
    BY <2>4, <2>5, <1>1
  <2>9. /\ hasty \subseteq hasty' /\ hasty' \subseteq Keys
        /\ \A j \in Keys : Has(<<k>>, j) => j \in hasty'
    BY <2>3, <1>1 DEF MapInv, MapTypes
  <2>10. map'[Slave] = map[Slave]
    BY <1>2, <1>4, <1>7
  <2>11. P \subseteq [key : Keys, version : 1 .. mapVersion + Len(<<k>>), freed : BOOLEAN]
    BY <2>6, <1>1
  <2>12. /\ Map!SendChanges(Master, <<k>>, Absent)
         /\ \A j \in Keys : map'[Master][j] = IF Has(<<k>>, j) THEN Absent ELSE map[Master][j]
    BY <1>3, <1>5, <1>7
  <2>13. pendingForAck \subseteq P /\ <<k>> \in Seq(Keys) /\ map' \in [Ends -> [Keys -> MapValue]]
    BY <2>5, <1>1, <1>4
  <2> QED BY <2>7, <2>8, <2>9, <2>10, <2>11, <2>12, <2>13, MapMasterErases
<1> QED BY <1>2, <1>6, <1>7

\* The users of an end clear the map.
LEMMA MapClearStep == ASSUME MapInv, NEW e \in Ends, Map!Clear(e) PROVE MapInv'
<1> DEFINE There == {k \in Keys : map[e][k] # Absent}
<1>1. /\ Master # Slave /\ Ends = {Master, Slave} /\ map \in [Ends -> [Keys -> MapValue]]
      /\ Absent \in MapValue /\ mapVersion \in Nat
  BY MapAt
<1>2. PICK ks \in Map!SetToSeqs(There) :
        /\ ks # <<>>
        /\ map' = [map EXCEPT ![e] = [k \in Keys |-> Absent]]
        /\ Map!SendChanges(e, ks, Absent)
        /\ IF e = Master
           THEN /\ \E found \in [DOMAIN ks -> UNION {Map!Found(k) : k \in Keys}] :
                     /\ \A n \in DOMAIN ks : found[n] \in Map!Found(ks[n])
                     /\ pendingForAck' =
                          {[p EXCEPT !.freed = @ \/ Map!Contains(ks, p.key)] :
                             p \in UNION {Map!Emplace(ks[n], Map!Version(e, n), found[n]) : n \in DOMAIN ks}}
                /\ hasty' = hasty \cup Map!ToSet(ks)
           ELSE UNCHANGED <<pendingForAck, hasty>>
  BY DEF Map!Clear
<1>3. ks \in Seq(Keys) /\ \A k \in Keys : Has(ks, k) <=> map[e][k] # Absent
  <2>1. There \in SUBSET Keys
    OBVIOUS
  <2>2. ks \in Seq(Keys) /\ \A k \in Keys : Has(ks, k) <=> k \in There
    BY <2>1, KeysInOrder
  <2> QED BY <2>2
<1>4. /\ map' \in [Ends -> [Keys -> MapValue]]
      /\ \A f \in Ends \ {e} : map'[f] = map[f]
      /\ \A k \in Keys : map'[e][k] = IF Has(ks, k) THEN Absent ELSE map[e][k]
  <2>1. \A k \in Keys : map'[e][k] = Absent
    BY <1>1, <1>2
  <2>2. map' \in [Ends -> [Keys -> MapValue]] /\ \A f \in Ends \ {e} : map'[f] = map[f]
    BY <1>1, <1>2
  <2> QED BY <2>1, <2>2, <1>3
<1>5. CASE e = Slave
  <2>1. UNCHANGED <<pendingForAck, hasty>> /\ map'[Master] = map[Master]
    BY <1>1, <1>2, <1>4, <1>5
  <2> QED BY <2>1, <1>1, <1>2, <1>3, <1>4, <1>5, MapSlaveChanges
<1>6. CASE e = Master
  <2>1. DOMAIN ks = 1 .. Len(ks) /\ Len(ks) \in Nat /\ Len(ks) > 0 /\ \A n \in 1 .. Len(ks) : ks[n] \in Keys
    BY <1>2, <1>3, LenProperties, EmptySeq
  <2>2. PICK found \in [DOMAIN ks -> UNION {Map!Found(k) : k \in Keys}] :
          pendingForAck' =
            {[p EXCEPT !.freed = @ \/ Map!Contains(ks, p.key)] :
               p \in UNION {Map!Emplace(ks[n], Map!Version(e, n), found[n]) : n \in DOMAIN ks}}
    BY <1>2, <1>6, Zenon
  <2> DEFINE Added(n) == Map!Emplace(ks[n], Map!Version(e, n), found[n])
             P == UNION {Added(n) : n \in DOMAIN ks}
  <2>3. \A n \in 1 .. Len(ks) :
          /\ pendingForAck \subseteq Added(n)
          /\ \A p \in Added(n) \ pendingForAck : p = Map!Pending(ks[n], mapVersion + n, FALSE)
    BY <1>6 DEF Map!Emplace, Map!Version
  <2> HIDE DEF Added
  <2>4. pendingForAck \subseteq P
    <3>1. 1 \in 1 .. Len(ks)
      BY <2>1
    <3>2. 1 \in DOMAIN ks
      BY <3>1, <2>1
    <3>3. pendingForAck \subseteq Added(1)
      BY <3>1, <2>3
    <3> QED BY <3>2, <3>3
  <2>5. \A p \in P \ pendingForAck : \E n \in 1 .. Len(ks) : p = Map!Pending(ks[n], mapVersion + n, FALSE)
    BY <2>1, <2>3
  <2>6. pendingForAck' = Freed(P, ks)
    <3>1. \A k : Map!Contains(ks, k) <=> Has(ks, k)
      BY DEF Map!Contains, Has
    <3> QED BY <3>1, <2>2 DEF Freed, Added
  <2> HIDE DEF P
  <2>7. \A n \in 1 .. Len(ks) :
          /\ Map!Pending(ks[n], mapVersion + n, FALSE) \in
               [key : Keys, version : 1 .. mapVersion + Len(ks), freed : BOOLEAN]
          /\ Map!Pending(ks[n], mapVersion + n, FALSE).key = ks[n]
    <3> TAKE n \in 1 .. Len(ks)
    <3>1. mapVersion + n \in 1 .. mapVersion + Len(ks)
      BY <1>1, <2>1
    <3> QED BY <3>1, <2>1 DEF Map!Pending
  <2>8. P \subseteq [key : Keys, version : 1 .. mapVersion + Len(ks), freed : BOOLEAN]
    <3>1. pendingForAck \subseteq [key : Keys, version : 1 .. mapVersion, freed : BOOLEAN]
      BY DEF MapInv, MapTypes
    <3>2. 1 .. mapVersion \subseteq 1 .. mapVersion + Len(ks)
      BY <1>1, <2>1
    <3>3. pendingForAck \subseteq [key : Keys, version : 1 .. mapVersion + Len(ks), freed : BOOLEAN]
      BY <3>1, <3>2
    <3>4. ASSUME NEW p \in P, p \notin pendingForAck
          PROVE  p \in [key : Keys, version : 1 .. mapVersion + Len(ks), freed : BOOLEAN]
      <4>1. PICK n \in 1 .. Len(ks) : p = Map!Pending(ks[n], mapVersion + n, FALSE)
        BY <3>4, <2>5
      <4>2. Map!Pending(ks[n], mapVersion + n, FALSE) \in
              [key : Keys, version : 1 .. mapVersion + Len(ks), freed : BOOLEAN]
        BY <2>7
      <4> QED BY <4>1, <4>2
    <3> QED BY <3>3, <3>4
  <2>9. \A p \in P \ pendingForAck : Has(ks, p.key)
    BY <2>5, <2>7 DEF Has
  <2>10. hasty' = hasty \cup {ks[n] : n \in 1 .. Len(ks)}
    BY <1>2, <1>6, <2>1 DEF Map!ToSet
  <2>11. /\ hasty \subseteq hasty' /\ hasty' \subseteq Keys
         /\ \A k \in Keys : Has(ks, k) => k \in hasty'
    BY <2>1, <2>10 DEF Has, MapInv, MapTypes
  <2>12. /\ Map!SendChanges(Master, ks, Absent) /\ map'[Slave] = map[Slave]
         /\ \A k \in Keys : map'[Master][k] = IF Has(ks, k) THEN Absent ELSE map[Master][k]
    BY <1>1, <1>2, <1>4, <1>6
  <2> QED BY <2>4, <2>6, <2>8, <2>9, <2>11, <2>12, <1>3, <1>4, MapMasterErases
<1> QED BY <1>1, <1>5, <1>6

\* The slave takes a change, and acknowledges it.
LEMMA MapSlaveReceives == ASSUME MapInv, Map!ReceiveChange(Slave) PROVE MapInv'
<1> DEFINE change == Head(mapNet[Slave])
           a == Map!Ack(change.version, change.key)
<1>1. /\ Master # Slave /\ Ends = {Master, Slave} /\ Map!Other(Slave) = Master
      /\ mapNet[Slave] \in Seq(ToSlave) /\ mapNet[Master] \in Seq(ToMaster)
      /\ mapNet \in [Ends -> Seq(ToSlave \cup ToMaster)]
      /\ mapNet[Slave] \in Seq(ToSlave \cup ToMaster) /\ mapNet[Master] \in Seq(ToSlave \cup ToMaster)
      /\ map \in [Ends -> [Keys -> MapValue]]
  BY MapAt
<1>2. mapNet[Slave] # <<>> /\ UNCHANGED <<mapVersion, mapChanges, hasty>>
  BY DEF Map!ReceiveChange
<1>3. change \in ToSlave /\ Tail(mapNet[Slave]) \in Seq(ToSlave)
  BY <1>1, <1>2, TailAt
<1>4. /\ change.is = "change" /\ change.version \in Nat \ {0} /\ change.key \in Keys
      /\ change.value \in MapValue
  BY <1>3 DEF ToSlave
<1>5. a \in ToMaster /\ a.is = "ack" /\ a.version = change.version /\ a.key = change.key
  BY <1>4 DEF Map!Ack, ToMaster
<1>6. /\ map' = [map EXCEPT ![Slave][change.key] = change.value]
      /\ pendingForAck' = pendingForAck
      /\ mapNet' = [[mapNet EXCEPT ![Slave] = Tail(mapNet[Slave])] EXCEPT ![Master] = Append(@, a)]
  BY <1>1, <1>4 DEF Map!ReceiveChange, Map!Accepts, Map!Unversioned
<1> HIDE DEF change, a
<1>7. /\ mapNet' \in [Ends -> Seq(ToSlave \cup ToMaster)] /\ mapNet'[Slave] = Tail(mapNet[Slave])
      /\ mapNet'[Master] = Append(mapNet[Master], a) /\ Append(mapNet[Master], a) \in Seq(ToMaster)
      /\ Joined(mapNet'[Master], mapNet[Master], <<a>>)
      /\ <<a>> \in Seq(ToMaster) /\ Len(<<a>>) = 1 /\ <<a>>[1] = a
  <2>1. /\ Append(mapNet[Master], a) \in Seq(ToMaster) /\ <<a>> \in Seq(ToMaster)
        /\ Joined(Append(mapNet[Master], a), mapNet[Master], <<a>>)
        /\ Len(<<a>>) = 1 /\ <<a>>[1] = a
    BY <1>1, <1>5, JoinedIs
  <2>2. /\ Append(mapNet[Master], a) \in Seq(ToSlave \cup ToMaster)
        /\ Tail(mapNet[Slave]) \in Seq(ToSlave \cup ToMaster)
    BY <1>1, <1>2, <1>5, JoinedIs, TailAt
  <2> QED BY <2>1, <2>2, <1>1, <1>6
<1>8. /\ map' \in [Ends -> [Keys -> MapValue]] /\ map'[Master] = map[Master]
      /\ \A k \in Keys : map'[Slave][k] = IF k = change.key THEN change.value ELSE map[Slave][k]
  BY <1>1, <1>4, <1>6
<1>9. MapTypes'
  BY <1>2, <1>3, <1>6, <1>7, <1>8 DEF MapInv, MapTypes
<1>10. MapEntries'
  BY <1>6, <1>8 DEF MapInv, MapEntries
<1>11. ASSUME NEW k \in Keys \ hasty
       PROVE  KeyHolds(k, Map!EntriesOf(k)', mapNet'[Slave], mapNet'[Master],
                       map'[Master][k], map'[Slave][k])
  <2>1. KeyHolds(k, Map!EntriesOf(k), mapNet[Slave], mapNet[Master], map[Master][k], map[Slave][k])
    BY DEF MapInv
  <2>2. Map!EntriesOf(k)' = Map!EntriesOf(k)
    BY <1>6 DEF Map!EntriesOf
  <2>3. CASE k = change.key
    <3>1. Changes(Head(mapNet[Slave]), k) /\ Acknowledges(a, k) /\ a.version = Head(mapNet[Slave]).version
      BY <2>3, <1>4, <1>5 DEF Changes, Acknowledges, change
    <3>2. a \in ToSlave \cup ToMaster /\ <<a>> \in Seq(ToSlave \cup ToMaster)
      BY <1>5
    <3>3. KeyHolds(k, Map!EntriesOf(k), Tail(mapNet[Slave]), mapNet'[Master], map[Master][k],
                   Head(mapNet[Slave]).value)
      BY <3>1, <3>2, <2>1, <1>1, <1>2, <1>7, KeyHoldsTaken
    <3>4. Head(mapNet[Slave]).value = map'[Slave][k]
      BY <2>3, <1>8 DEF change
    <3> QED BY <3>3, <3>4, <2>2, <1>7, <1>8
  <2>4. CASE k # change.key
    <3>1. ~Changes(Head(mapNet[Slave]), k)
      BY <2>4 DEF Changes, change
    <3>2. NoneChanges(<<a>>, k) /\ NoneAcknowledges(<<a>>, k)
      <4>1. \A i \in 1 .. 1 : <<a>>[i] = a
        OBVIOUS
      <4> QED BY <4>1, <2>4, <1>5, <1>7 DEF NoneChanges, NoneAcknowledges, Changes, Acknowledges
    <3>3. KeyHolds(k, Map!EntriesOf(k), Tail(mapNet[Slave]), mapNet[Master], map[Master][k], map[Slave][k])
      BY <3>1, <2>1, <1>1, <1>2, KeyHoldsSlaveTail
    <3>4. \A i \in 1 .. Len(<<a>>) : Changes(<<a>>[i], k) => <<a>>[i].value = map[Slave][k]
      BY <3>2 DEF NoneChanges
    <3>5. KeyHolds(k, Map!EntriesOf(k), Tail(mapNet[Slave]), mapNet'[Master], map[Master][k], map[Slave][k])
      BY <3>2, <3>3, <3>4, <1>1, <1>7, KeyHoldsMasterGrown
    <3>6. map'[Slave][k] = map[Slave][k]
      BY <2>4, <1>8
    <3> QED BY <3>5, <3>6, <2>2, <1>7, <1>8
  <2> QED BY <2>3, <2>4
<1> QED BY <1>2, <1>9, <1>10, <1>11 DEF MapInv

\* What comes first to the master is taken from the net.
LEMMA MapMasterTakes ==
  ASSUME MapInv, mapNet[Master] # <<>>, mapNet' = [mapNet EXCEPT ![Master] = Tail(@)]
  PROVE  /\ mapNet' \in [Ends -> Seq(ToSlave \cup ToMaster)] /\ mapNet'[Slave] = mapNet[Slave]
         /\ mapNet'[Master] = Tail(mapNet[Master]) /\ mapNet'[Master] \in Seq(ToMaster)
         /\ Head(mapNet[Master]) \in ToMaster
<1>1. /\ Master # Slave /\ Ends = {Master, Slave}
      /\ mapNet[Master] \in Seq(ToMaster) /\ mapNet[Master] \in Seq(ToSlave \cup ToMaster)
      /\ mapNet \in [Ends -> Seq(ToSlave \cup ToMaster)]
  BY MapAt
<1>2. /\ Tail(mapNet[Master]) \in Seq(ToMaster) /\ Head(mapNet[Master]) \in ToMaster
      /\ Tail(mapNet[Master]) \in Seq(ToSlave \cup ToMaster)
  BY <1>1, TailAt
<1> QED BY <1>1, <1>2

\* The master takes a change, or drops it.
LEMMA MapMasterReceives == ASSUME MapInv, Map!ReceiveChange(Master) PROVE MapInv'
<1> DEFINE change == Head(mapNet[Master])
<1>1. /\ Master # Slave /\ Ends = {Master, Slave}
      /\ mapNet[Master] \in Seq(ToMaster) /\ map \in [Ends -> [Keys -> MapValue]]
  BY MapAt
<1>2. mapNet[Master] # <<>> /\ change.is = "change" /\ UNCHANGED <<mapVersion, mapChanges, hasty>>
  BY DEF Map!ReceiveChange
<1>3. change \in ToMaster
  BY <1>1, <1>2, TailAt
<1>4. change.version = 0 /\ change.key \in Keys /\ change.value \in MapValue
  BY <1>2, <1>3 DEF ToMaster
<1>5. mapNet' = [mapNet EXCEPT ![Master] = Tail(@)]
  BY <1>4 DEF Map!ReceiveChange, Map!Unversioned
<1>6. /\ mapNet' \in [Ends -> Seq(ToSlave \cup ToMaster)] /\ mapNet'[Slave] = mapNet[Slave]
      /\ mapNet'[Master] = Tail(mapNet[Master]) /\ mapNet'[Master] \in Seq(ToMaster)
  BY <1>2, <1>5, MapMasterTakes
<1>7. PICK found \in Map!Found(change.key) :
        IF found = {}
        THEN /\ map' = [map EXCEPT ![Master][change.key] = change.value]
             /\ pendingForAck' = IF change.value = Absent
                                 THEN Map!WithFreed(pendingForAck, change.key) ELSE pendingForAck
        ELSE UNCHANGED <<map, pendingForAck>>
  BY <1>1, <1>4 DEF Map!ReceiveChange, Map!Accepts, Map!Unversioned
<1> HIDE DEF change
<1>8. found = {} => \A p \in pendingForAck : p.key = change.key => p.freed
  BY FoundIs
<1>9. \A p \in pendingForAck : p \in [key : Keys, version : 1 .. mapVersion, freed : BOOLEAN]
  BY DEF MapInv, MapTypes
<1>10. pendingForAck' = pendingForAck
  <2>1. CASE found = {}
    <3>1. \A p \in pendingForAck :
            (IF p.key = change.key THEN [p EXCEPT !.freed = TRUE] ELSE p) = p
      BY <2>1, <1>8, <1>9
    <3>2. Map!WithFreed(pendingForAck, change.key) \subseteq pendingForAck
      BY <3>1 DEF Map!WithFreed
    <3>3. pendingForAck \subseteq Map!WithFreed(pendingForAck, change.key)
      BY <3>1 DEF Map!WithFreed
    <3> QED BY <3>2, <3>3, <2>1, <1>7
  <2>2. CASE found # {}
    BY <2>2, <1>7
  <2> QED BY <2>1, <2>2
<1>11. /\ map' \in [Ends -> [Keys -> MapValue]] /\ map'[Slave] = map[Slave]
       /\ \A k \in Keys : map'[Master][k] = IF k = change.key /\ found = {} THEN change.value
                                            ELSE map[Master][k]
  <2>1. CASE found = {}
    BY <2>1, <1>1, <1>4, <1>7
  <2>2. CASE found # {}
    BY <2>2, <1>1, <1>7
  <2> QED BY <2>1, <2>2
<1>12. MapTypes'
  BY <1>2, <1>6, <1>10, <1>11 DEF MapInv, MapTypes
<1>13. MapEntries'
  <2>1. ASSUME NEW p \in pendingForAck, ~p.freed
        PROVE  map'[Master][p.key] # Absent
    <3>1. map[Master][p.key] # Absent /\ p.key \in Keys
      BY <2>1, <1>9 DEF MapInv, MapEntries
    <3> QED BY <3>1, <2>1, <1>8, <1>11
  <2> QED BY <2>1, <1>10 DEF MapInv, MapEntries
<1>14. ASSUME NEW k \in Keys \ hasty
       PROVE  KeyHolds(k, Map!EntriesOf(k)', mapNet'[Slave], mapNet'[Master],
                       map'[Master][k], map'[Slave][k])
  <2>1. KeyHolds(k, Map!EntriesOf(k), mapNet[Slave], mapNet[Master], map[Master][k], map[Slave][k])
    BY DEF MapInv
  <2>2. Map!EntriesOf(k)' = Map!EntriesOf(k)
    BY <1>10 DEF Map!EntriesOf
  <2>3. /\ ~Acknowledges(Head(mapNet[Master]), k)
        /\ Changes(Head(mapNet[Master]), k) <=> k = change.key
    BY <1>2 DEF Acknowledges, Changes, change
  <2>4. k = change.key => (found = {} <=> Map!EntriesOf(k) = {})
    <3> HAVE k = change.key
    <3>1. CASE found = {}
      <4>1. \A p \in Map!EntriesOf(k) : p.freed
        BY <3>1, <1>8 DEF Map!EntriesOf
      <4>2. Map!EntriesOf(k) = {}
        BY <4>1, <2>1 DEF KeyHolds, KeyFollows, KeyChanges, KeyAcknowledges
      <4> QED BY <4>2, <3>1
    <3>2. CASE found # {}
      BY <3>2, FoundIs DEF Map!EntriesOf
    <3> QED BY <3>1, <3>2
  <2>5. map'[Master][k] = IF Changes(Head(mapNet[Master]), k) /\ Map!EntriesOf(k) = {}
                          THEN Head(mapNet[Master]).value ELSE map[Master][k]
    BY <2>3, <2>4, <1>11 DEF change
  <2>6. KeyHolds(k, Map!EntriesOf(k), mapNet[Slave], Tail(mapNet[Master]), map'[Master][k], map[Slave][k])
    BY <2>1, <2>3, <2>5, <1>1, <1>2, KeyHoldsMasterTail
  <2> QED BY <2>2, <2>6, <1>6, <1>11
<1> QED BY <1>2, <1>12, <1>13, <1>14 DEF MapInv

\* The master takes an acknowledgement.
LEMMA MapAckStep == ASSUME MapInv, Map!ReceiveAck PROVE MapInv'
<1> DEFINE ack == Head(mapNet[Master])
<1>1. /\ Master # Slave /\ Ends = {Master, Slave} /\ mapNet[Master] \in Seq(ToMaster)
  BY MapAt
<1>2. /\ mapNet[Master] # <<>> /\ ack.is = "ack"
      /\ UNCHANGED <<map, mapVersion, mapChanges, hasty>>
      /\ mapNet' = [mapNet EXCEPT ![Master] = Tail(@)]
  BY DEF Map!ReceiveAck
<1>3. /\ mapNet' \in [Ends -> Seq(ToSlave \cup ToMaster)] /\ mapNet'[Slave] = mapNet[Slave]
      /\ mapNet'[Master] = Tail(mapNet[Master]) /\ mapNet'[Master] \in Seq(ToMaster)
  BY <1>2, MapMasterTakes
<1>4. PICK found \in Map!Found(ack.key) :
        pendingForAck' = IF Map!Settled(found, ack.version) THEN pendingForAck \ found ELSE pendingForAck
  BY DEF Map!ReceiveAck
<1> HIDE DEF ack
<1>5. pendingForAck' \subseteq pendingForAck /\ \A p \in pendingForAck \ pendingForAck' : p.key = ack.key
  <2>1. \A p \in found : p.key = ack.key
    BY FoundIs
  <2> QED BY <2>1, <1>4
<1>6. MapTypes'
  BY <1>2, <1>3, <1>5 DEF MapInv, MapTypes
<1>7. MapEntries'
  BY <1>2, <1>5 DEF MapInv, MapEntries
<1>8. ASSUME NEW k \in Keys \ hasty
      PROVE  KeyHolds(k, Map!EntriesOf(k)', mapNet'[Slave], mapNet'[Master],
                      map'[Master][k], map'[Slave][k])
  <2>1. KeyHolds(k, Map!EntriesOf(k), mapNet[Slave], mapNet[Master], map[Master][k], map[Slave][k])
    BY DEF MapInv
  <2>2. CASE k = ack.key
    <3>1. Acknowledges(Head(mapNet[Master]), k)
      BY <2>2, <1>2 DEF Acknowledges, ack
    <3>2. /\ \E p : Map!EntriesOf(k) = {p} /\ p.version = Head(mapNet[Master]).version /\ ~p.freed
          /\ KeyHolds(k, {}, mapNet[Slave], Tail(mapNet[Master]), map[Master][k], map[Slave][k])
      BY <3>1, <2>1, <1>1, <1>2, KeyHoldsAcknowledged
    <3>3. PICK p : Map!EntriesOf(k) = {p} /\ p.version = ack.version /\ ~p.freed
      BY <3>2 DEF ack
    <3>4. found = {p}
      BY <3>3, <2>2, FoundIs DEF Map!EntriesOf
    <3>5. pendingForAck' = pendingForAck \ {p}
      BY <3>3, <3>4, <1>4 DEF Map!Settled
    <3>6. Map!EntriesOf(k)' = {}
      BY <3>3, <3>5 DEF Map!EntriesOf
    <3> QED BY <3>2, <3>6, <1>2, <1>3
  <2>3. CASE k # ack.key
    <3>1. ~Acknowledges(Head(mapNet[Master]), k) /\ ~Changes(Head(mapNet[Master]), k)
      BY <2>3, <1>2 DEF Acknowledges, Changes, ack
    <3>2. Map!EntriesOf(k)' = Map!EntriesOf(k)
      BY <2>3, <1>5 DEF Map!EntriesOf
    <3>3. KeyHolds(k, Map!EntriesOf(k), mapNet[Slave], Tail(mapNet[Master]), map[Master][k], map[Slave][k])
      BY <3>1, <2>1, <1>1, <1>2, KeyHoldsMasterTail
    <3> QED BY <3>2, <3>3, <1>2, <1>3
  <2> QED BY <2>2, <2>3
<1> QED BY <1>2, <1>6, <1>7, <1>8 DEF MapInv

\* The beginning: nothing is in the maps and nothing under way.
LEMMA MapInit == ASSUME Map!Init PROVE MapInv
<1>1. /\ Master # Slave /\ Ends = {Master, Slave} /\ Map!Ends = Ends
      /\ \A e \in Ends : MaxMapped[e] \in Nat
  BY EntitiesAssumption, PropertyAssumption DEF Map!MapAssumption, Map!Ends, Ends
<1>2. map = [e \in Ends |-> [k \in Keys |-> Absent]] /\ mapNet = [e \in Ends |-> <<>>]
  BY <1>1 DEF Map!Init
<1>3. MapTypes
  <2>1. <<>> \in Seq(ToSlave) /\ <<>> \in Seq(ToMaster) /\ <<>> \in Seq(ToSlave \cup ToMaster)
    BY EmptySeq
  <2>2. mapVersion = 0 /\ pendingForAck = {} /\ hasty = {} /\ mapChanges = [e \in Ends |-> 0]
    BY <1>1 DEF Map!Init
  <2>3. map \in [Ends -> [Keys -> MapValue]]
    BY <1>2 DEF MapValue
  <2>4. mapChanges \in [Ends -> Nat] /\ \A e \in Ends : mapChanges[e] <= MaxMapped[e]
    BY <2>2, <1>1
  <2> QED BY <2>1, <2>2, <2>3, <2>4, <1>1, <1>2 DEF MapTypes
<1>4. MapEntries
  BY DEF Map!Init, MapEntries
<1>5. ASSUME NEW k \in Keys
      PROVE  KeyHolds(k, Map!EntriesOf(k), mapNet[Slave], mapNet[Master], map[Master][k], map[Slave][k])
  <2>1. /\ Len(mapNet[Slave]) = 0 /\ Len(mapNet[Master]) = 0
        /\ map[Master][k] = map[Slave][k] /\ Map!EntriesOf(k) = {}
    BY <1>1, <1>2 DEF Map!Init, Map!EntriesOf
  <2>2. NoneChanges(mapNet[Slave], k) /\ NoneAcknowledges(mapNet[Master], k)
    BY <2>1 DEF NoneChanges, NoneAcknowledges
  <2>3. LeadsTo(mapNet[Master], k, 0, map[Master][k], map[Slave][k])
    BY <2>1 DEF LeadsTo
  <2> QED BY <2>1, <2>2, <2>3 DEF KeyHolds, KeyFollows
<1> QED BY <1>3, <1>4, <1>5 DEF MapInv

\* Every step of maps.
LEMMA MapStep == ASSUME MapInv, [Map!Next]_(Map!mapVars) PROVE MapInv'
<1>1. CASE UNCHANGED Map!mapVars
  BY <1>1 DEF MapInv, MapTypes, MapEntries, Map!EntriesOf, Map!mapVars
<1>2. ASSUME NEW e \in Ends, NEW k \in Keys, Map!RemoveKey(e, k)
      PROVE  MapInv'
  BY <1>2, MapRemoveStep
<1>3. ASSUME NEW e \in Ends, NEW k \in Keys, NEW v \in Mapped, Map!Put(e, k, v)
      PROVE  MapInv'
  BY <1>3, MapPutStep
<1>4. ASSUME NEW e \in Ends, Map!Clear(e)
      PROVE  MapInv'
  BY <1>4, MapClearStep
<1>5. ASSUME NEW e \in Ends, Map!ReceiveChange(e)
      PROVE  MapInv'
  BY <1>5, MapSlaveReceives, MapMasterReceives, MapAt
<1>6. CASE Map!ReceiveAck
  BY <1>6, MapAckStep
<1> QED BY <1>1, <1>2, <1>3, <1>4, <1>5, <1>6, MapAt DEF Map!Next

\* What follows for whoever looks a key up at the two ends.
LEMMA MapMeans == ASSUME MapInv PROVE Map!TypeOK /\ Map!Converges /\ Map!NothingPends
<1>1. Map!Ends = Ends /\ Ends = {Master, Slave} /\ mapVersion \in Nat /\ MapValue = Mapped \cup {Absent}
  BY MapAt DEF MapValue
<1>2. ASSUME NEW p \in pendingForAck
      PROVE  /\ p.key \in Keys /\ p.version \in 1 .. mapVersion /\ p.freed \in BOOLEAN
             /\ ~p.freed => /\ map[Master][p.key] # Absent
                            /\ \A q \in Map!EntriesOf(p.key) : ~q.freed => q = p
  <2>1. p \in [key : Keys, version : 1 .. mapVersion, freed : BOOLEAN]
    BY DEF MapInv, MapTypes
  <2>2. ~p.freed => /\ map[Master][p.key] # Absent
                    /\ \A q \in Map!EntriesOf(p.key) : ~q.freed => q = p
    BY DEF MapInv, MapEntries, Map!EntriesOf
  <2> QED BY <2>1, <2>2
<1>3. ASSUME NEW e \in Ends PROVE mapChanges[e] \in 0 .. MaxMapped[e]
  BY MapAt DEF MapInv, MapTypes
<1>4. Map!TypeOK
  BY <1>1, <1>2, <1>3 DEF Map!TypeOK, MapInv, MapTypes
<1>5. ASSUME \A e \in Ends : mapNet[e] = <<>>, NEW k \in Keys \ hasty
      PROVE  map[Master][k] = map[Slave][k] /\ Map!EntriesOf(k) = {}
  <2>1. Len(mapNet[Slave]) = 0 /\ Len(mapNet[Master]) = 0
    BY <1>1, <1>5
  <2>2. KeyHolds(k, Map!EntriesOf(k), mapNet[Slave], mapNet[Master], map[Master][k], map[Slave][k])
    BY DEF MapInv
  <2>3. KeyFollows(k, Map!EntriesOf(k), mapNet[Slave], mapNet[Master], map[Master][k], map[Slave][k])
    BY <2>1, <2>2 DEF KeyHolds
  <2> QED BY <2>1, <2>3 DEF KeyFollows, LeadsTo
<1>6. Map!Converges
  BY <1>1, <1>5 DEF Map!Converges
<1>7. Map!NothingPends
  BY <1>1, <1>2, <1>5 DEF Map!NothingPends, Map!EntriesOf
<1> QED BY <1>4, <1>6, <1>7

\* What a step of the entities is for maps.
LEMMA EntityStepOfMap == [EntityNext]_entityVars => [Map!Next]_(Map!mapVars)
BY DEF EntityNext, entityVars, Only, mapRest, Map!mapVars


----------------------------------------------------------------------------
(***************************************************************************)
(* Calls.                                                                  *)
(***************************************************************************)
\* What is in the tasks, queues and nets of calls.
CallTask ==
  [alive : BOOLEAN, subscribed : BOOLEAN, sync : BOOLEAN, result : Call!Results \cup {Call!NoResult}]
CallMessage ==
  [is : {"request"}, task : Nat] \cup [is : {"response"}, task : Nat, result : Call!Results]

\* Whether m answers the n-th call, whether nothing in s does, and whether the first that
\* does has the result r.
Replies(m, n) == m.is = "response" /\ m.task = n
NoneReplies(s, n) == \A i \in 1 .. Len(s) : ~Replies(s[i], n)
FirstReply(s, n, r) ==
  \A i \in 1 .. Len(s) :
    Replies(s[i], n) /\ (\A j \in 1 .. i - 1 : ~Replies(s[j], n)) => s[i].result = r

\* The n-th task t of an end whose lifetime is alive or not: r is the first answer to it, Q
\* and N what is queued and under way to the end.  A task that waits has the first answer
\* ahead of it if there is one, and nothing otherwise.
TaskHolds(t, n, Q, N, r, alive) ==
  /\ t.result \in {Call!NoResult, r} \/ (t.result = "Cancelled" /\ ~alive)
  /\ t.sync => NoneReplies(Q, n)
  /\ t.alive /\ t.result = Call!NoResult =>
       /\ alive /\ t.subscribed
       /\ r = Call!NoResult <=> NoneReplies(Q, n) /\ NoneReplies(N, n)
       /\ FirstReply(Q, n, r)
       /\ NoneReplies(Q, n) => FirstReply(N, n, r)

\* Messages are about tasks there are: T are the tasks of the end, O those of the other end.
AboutTasks(s, T, O) ==
  \A i \in 1 .. Len(s) :
    s[i].task \in 1 .. IF s[i].is = "response" THEN Len(T) ELSE Len(O)

\* What an end has done is about tasks of the other end, and what is answered has an answer.
AboutServed(serves, first, O) ==
  \A n \in Call!Numbers :
    /\ serves[n] # "no" \/ first[n] # Call!NoResult => n \in 1 .. Len(O)
    /\ serves[n] = "answered" => first[n] # Call!NoResult

\* The types of the variables of calls.
CallTypes ==
  /\ callBound \in [Ends -> BOOLEAN]
  /\ main \in [Ends -> Call!Numbers \cup {Call!NoTask}]
  /\ syncTask \in [Ends -> Call!Numbers \cup {Call!NoTask}]
  /\ task \in [Ends -> Seq(CallTask)]
  /\ callQueue \in [Ends -> Seq(CallMessage)]
  /\ callNet \in [Ends -> Seq(CallMessage)]
  /\ serving \in [Ends -> [Call!Numbers -> {"no", "pending", "answered", "finished"}]]
  /\ firstAnswer \in [Ends -> [Call!Numbers -> Call!Results \cup {Call!NoResult}]]

\* What main waits for is there; what is queued, under way and served is about tasks there
\* are; and the tasks hold.
CallMain(e) ==
  /\ Len(task[e]) <= MaxCalls[e]
  /\ syncTask[e] \in 1 .. Len(task[e]) \cup {Call!NoTask}
  /\ main[e] # Call!NoTask =>
       main[e] = syncTask[e] /\ task[e][main[e]].alive /\ task[e][main[e]].sync
CallAbout(e) ==
  /\ AboutTasks(callQueue[e], task[e], task[Other(e)])
  /\ AboutTasks(callNet[e], task[e], task[Other(e)])
  /\ AboutServed(serving[e], firstAnswer[e], task[Other(e)])
CallHolds(e) ==
  \A n \in 1 .. Len(task[e]) :
    TaskHolds(task[e][n], n, callQueue[e], callNet[e], firstAnswer[Other(e)][n], callBound[e])

\* The inductive invariant of calls.
CallInv == CallTypes /\ \A e \in Ends : CallMain(e) /\ CallAbout(e) /\ CallHolds(e)

\* Every action keeps the ends apart from one another.
LEMMA CallEnds ==
  /\ \A e \in Ends : Other(e) \in Ends /\ Other(e) # e /\ Other(Other(e)) = e
  /\ \A e \in Ends : Call!Other(e) = Other(e)
  /\ \A e, f \in Ends : f = e \/ f = Other(e)
<1>1. Ends = {Master, Slave} /\ Master # Slave
  BY PropertyAssumption DEF Ends
<1>2. \A e \in Ends : Call!Other(e) = Other(e)
  <2> TAKE e \in Ends
  <2>1. Other(e) \in Ends /\ Other(e) # e /\ \A f \in Ends : f # e => f = Other(e)
    BY <1>1 DEF Other
  <2> QED BY <2>1 DEF Call!Other
<1> QED BY <1>1, <1>2 DEF Other

\* One message more.
LEMMA ReplyAppend ==
  ASSUME NEW s \in Seq(CallMessage), NEW m \in CallMessage, NEW n, NEW r
  PROVE  /\ Append(s, m) \in Seq(CallMessage)
         /\ NoneReplies(Append(s, m), n) <=> NoneReplies(s, n) /\ ~Replies(m, n)
         /\ FirstReply(Append(s, m), n, r) <=>
              /\ FirstReply(s, n, r)
              /\ NoneReplies(s, n) /\ Replies(m, n) => m.result = r
<1> DEFINE a == Append(s, m)
<1>1. /\ a \in Seq(CallMessage) /\ Len(s) \in Nat /\ Len(a) = Len(s) + 1
      /\ \A i \in 1 .. Len(s) : a[i] = s[i]
      /\ a[Len(s) + 1] = m
  BY AppendProperties
<1> HIDE DEF a
<1>2. NoneReplies(a, n) <=> NoneReplies(s, n) /\ ~Replies(m, n)
  BY <1>1 DEF NoneReplies
<1>3. FirstReply(s, n, r) => \A i \in 1 .. Len(s) :
        Replies(a[i], n) /\ (\A j \in 1 .. i - 1 : ~Replies(a[j], n)) => a[i].result = r
  BY <1>1 DEF FirstReply
<1>4. FirstReply(a, n, r) => FirstReply(s, n, r)
  BY <1>1 DEF FirstReply
<1>5. (\A j \in 1 .. Len(s) + 1 - 1 : ~Replies(a[j], n)) <=> NoneReplies(s, n)
  BY <1>1 DEF NoneReplies
<1>6. FirstReply(a, n, r) => (NoneReplies(s, n) /\ Replies(m, n) => m.result = r)
  BY <1>1, <1>5 DEF FirstReply
<1>7. FirstReply(s, n, r) /\ (NoneReplies(s, n) /\ Replies(m, n) => m.result = r)
        => FirstReply(a, n, r)
  <2> SUFFICES ASSUME FirstReply(s, n, r), NoneReplies(s, n) /\ Replies(m, n) => m.result = r,
                      NEW i \in 1 .. Len(s) + 1, Replies(a[i], n),
                      \A j \in 1 .. i - 1 : ~Replies(a[j], n)
               PROVE  a[i].result = r
    BY <1>1 DEF FirstReply
  <2>1. CASE i \in 1 .. Len(s)
    BY <2>1, <1>3
  <2>2. CASE i = Len(s) + 1
    BY <2>2, <1>1, <1>5
  <2> QED BY <2>1, <2>2, <1>1
<1> QED BY <1>1, <1>2, <1>4, <1>6, <1>7 DEF a

\* One message less.
LEMMA ReplyTail ==
  ASSUME NEW s \in Seq(CallMessage), s # <<>>, NEW n, NEW r
  PROVE  /\ Tail(s) \in Seq(CallMessage) /\ Head(s) \in CallMessage
         /\ NoneReplies(s, n) <=> ~Replies(Head(s), n) /\ NoneReplies(Tail(s), n)
         /\ FirstReply(s, n, r) <=> IF Replies(Head(s), n) THEN Head(s).result = r
                                    ELSE FirstReply(Tail(s), n, r)
<1> DEFINE t == Tail(s)
<1>1. /\ t \in Seq(CallMessage) /\ Head(s) = s[1] /\ Head(s) \in CallMessage
      /\ Len(s) \in Nat /\ Len(s) > 0 /\ Len(t) = Len(s) - 1
      /\ \A i \in 1 .. Len(t) : t[i] = s[i + 1]
  BY HeadTailProperties, EmptySeq
<1> HIDE DEF t
<1>2. \A i \in 1 .. Len(s) : i = 1 \/ (i - 1 \in 1 .. Len(t) /\ s[i] = t[i - 1])
  BY <1>1
<1>3. \A i \in 1 .. Len(t) : i + 1 \in 1 .. Len(s) /\ t[i] = s[i + 1]
  BY <1>1
<1>4. NoneReplies(s, n) <=> ~Replies(s[1], n) /\ NoneReplies(t, n)
  BY <1>1, <1>2, <1>3 DEF NoneReplies
<1>5. CASE Replies(s[1], n)
  <2>1. FirstReply(s, n, r) => s[1].result = r
    BY <1>1, <1>5 DEF FirstReply
  <2>2. ASSUME s[1].result = r, NEW i \in 1 .. Len(s), Replies(s[i], n),
               \A j \in 1 .. i - 1 : ~Replies(s[j], n)
        PROVE  s[i].result = r
    <3>1. i = 1
      BY <2>2, <1>5, <1>1
    <3> QED BY <3>1, <2>2
  <2> QED BY <2>1, <2>2, <1>1, <1>4, <1>5 DEF FirstReply, t
<1>6. CASE ~Replies(s[1], n)
  <2>1. ASSUME FirstReply(s, n, r), NEW i \in 1 .. Len(t), Replies(t[i], n),
               \A j \in 1 .. i - 1 : ~Replies(t[j], n)
        PROVE  t[i].result = r
    <3>1. \A j \in 1 .. (i + 1) - 1 : ~Replies(s[j], n)
      <4> TAKE j \in 1 .. (i + 1) - 1
      <4>1. j = 1 \/ (j - 1 \in 1 .. i - 1 /\ s[j] = t[j - 1])
        BY <1>1, <1>2
      <4> QED BY <4>1, <2>1, <1>6
    <3> QED BY <3>1, <2>1, <1>3 DEF FirstReply
  <2>2. ASSUME FirstReply(t, n, r), NEW i \in 1 .. Len(s), Replies(s[i], n),
               \A j \in 1 .. i - 1 : ~Replies(s[j], n)
        PROVE  s[i].result = r
    <3>1. i # 1 /\ i - 1 \in 1 .. Len(t) /\ s[i] = t[i - 1]
      BY <2>2, <1>2, <1>6
    <3>2. \A j \in 1 .. (i - 1) - 1 : j + 1 \in 1 .. i - 1 /\ t[j] = s[j + 1]
      BY <3>1, <1>1, <1>3
    <3> QED BY <3>1, <3>2, <2>2 DEF FirstReply
  <2>3. FirstReply(s, n, r) <=> FirstReply(t, n, r)
    BY <2>1, <2>2 DEF FirstReply
  <2> QED BY <2>3, <1>1, <1>4, <1>6 DEF t
<1> QED BY <1>5, <1>6

\* Messages stay about tasks there are while the tasks of the two ends get more.
LEMMA AboutLonger ==
  ASSUME NEW s \in Seq(CallMessage), NEW T, NEW O, NEW U, NEW V,
         AboutTasks(s, T, O), Len(T) \in Nat, Len(O) \in Nat, Len(U) \in Nat, Len(V) \in Nat,
         Len(T) <= Len(U), Len(O) <= Len(V)
  PROVE  AboutTasks(s, U, V)
BY DEF AboutTasks

\* One message more, and one less.
LEMMA AboutChanged ==
  ASSUME NEW s \in Seq(CallMessage), NEW T, NEW O, AboutTasks(s, T, O)
  PROVE  /\ \A m \in CallMessage :
              m.task \in 1 .. (IF m.is = "response" THEN Len(T) ELSE Len(O))
                => AboutTasks(Append(s, m), T, O)
         /\ s # <<>> => AboutTasks(Tail(s), T, O)
         /\ s # <<>> => Head(s).task \in 1 .. IF Head(s).is = "response" THEN Len(T) ELSE Len(O)
<1>1. ASSUME NEW m \in CallMessage,
             m.task \in 1 .. IF m.is = "response" THEN Len(T) ELSE Len(O)
      PROVE  AboutTasks(Append(s, m), T, O)
  <2>1. /\ Len(s) \in Nat /\ Len(Append(s, m)) = Len(s) + 1
        /\ \A i \in 1 .. Len(s) : Append(s, m)[i] = s[i]
        /\ Append(s, m)[Len(s) + 1] = m
    BY AppendProperties
  <2>2. \A i \in 1 .. Len(s) + 1 : i \in 1 .. Len(s) \/ i = Len(s) + 1
    BY <2>1
  <2> QED BY <2>1, <2>2, <1>1 DEF AboutTasks
<1>2. ASSUME s # <<>>
      PROVE  /\ AboutTasks(Tail(s), T, O)
             /\ Head(s).task \in 1 .. IF Head(s).is = "response" THEN Len(T) ELSE Len(O)
  <2>1. /\ Head(s) = s[1] /\ Len(s) \in Nat /\ Len(s) > 0 /\ Len(Tail(s)) = Len(s) - 1
        /\ \A i \in 1 .. Len(Tail(s)) : Tail(s)[i] = s[i + 1]
    BY <1>2, HeadTailProperties, EmptySeq
  <2>2. 1 \in 1 .. Len(s) /\ \A i \in 1 .. Len(Tail(s)) : i + 1 \in 1 .. Len(s)
    BY <2>1
  <2> QED BY <2>1, <2>2 DEF AboutTasks
<1> QED BY <1>1, <1>2

\* What is queued or comes for a task, and what becomes of it, keeps what TaskHolds says.
LEMMA HoldsNetGrows ==
  ASSUME NEW t, NEW n, NEW Q, NEW N \in Seq(CallMessage), NEW r, NEW alive, NEW m \in CallMessage,
         TaskHolds(t, n, Q, N, r, alive),
         Replies(m, n) => m.result # Call!NoResult
  PROVE  TaskHolds(t, n, Q, Append(N, m),
                   IF Replies(m, n) /\ r = Call!NoResult THEN m.result ELSE r, alive)
<1> DEFINE a == Append(N, m)
           w == IF Replies(m, n) /\ r = Call!NoResult THEN m.result ELSE r
<1>1. /\ NoneReplies(a, n) <=> NoneReplies(N, n) /\ ~Replies(m, n)
      /\ FirstReply(a, n, w) <=>
           FirstReply(N, n, w) /\ (NoneReplies(N, n) /\ Replies(m, n) => m.result = w)
  BY ReplyAppend
<1>2. \A s : NoneReplies(s, n) => FirstReply(s, n, w)
  BY DEF NoneReplies, FirstReply
<1> HIDE DEF a
<1>3. t.result \in {Call!NoResult, w} \/ (t.result = "Cancelled" /\ ~alive)
  BY DEF TaskHolds
<1>4. ASSUME t.alive, t.result = Call!NoResult
      PROVE  /\ w = Call!NoResult <=> NoneReplies(Q, n) /\ NoneReplies(a, n)
             /\ FirstReply(Q, n, w)
             /\ NoneReplies(Q, n) => FirstReply(a, n, w)
  <2>1. CASE r = Call!NoResult
    BY <2>1, <1>1, <1>2, <1>4 DEF TaskHolds
  <2>2. CASE r # Call!NoResult
    BY <2>2, <1>1, <1>2, <1>4 DEF TaskHolds
  <2> QED BY <2>1, <2>2
<1> QED BY <1>3, <1>4 DEF TaskHolds, a

\* A task when the first that is under way is taken: it is dropped, queued, or the answer to it.
LEMMA HoldsNetTail ==
  ASSUME NEW t \in CallTask, NEW n, NEW Q \in Seq(CallMessage), NEW N \in Seq(CallMessage), NEW r,
         NEW alive, N # <<>>, TaskHolds(t, n, Q, N, r, alive)
  PROVE  /\ ~Replies(Head(N), n) \/ ~t.subscribed => TaskHolds(t, n, Q, Tail(N), r, alive)
         /\ ~Replies(Head(N), n) \/ ~t.sync
              => TaskHolds(t, n, Append(Q, Head(N)), Tail(N), r, alive)
         /\ Replies(Head(N), n) /\ t.sync
              => TaskHolds(Call!WithResult(t, Head(N).result), n, Q, Tail(N), r, alive)
<1> DEFINE m == Head(N)
           a == Append(Q, m)
           o == Tail(N)
<1>1. /\ m \in CallMessage
      /\ NoneReplies(N, n) <=> ~Replies(m, n) /\ NoneReplies(o, n)
      /\ FirstReply(N, n, r) <=> IF Replies(m, n) THEN m.result = r ELSE FirstReply(o, n, r)
  BY ReplyTail
<1>2. /\ NoneReplies(a, n) <=> NoneReplies(Q, n) /\ ~Replies(m, n)
      /\ FirstReply(a, n, r) <=>
           FirstReply(Q, n, r) /\ (NoneReplies(Q, n) /\ Replies(m, n) => m.result = r)
  BY <1>1, ReplyAppend
<1>3. Replies(m, n) => m.result \in Call!Results /\ m.result # Call!NoResult
  BY <1>1 DEF CallMessage, Replies, Call!Results, Call!NoResult
<1> HIDE DEF m, a, o
<1>4. ~Replies(m, n) \/ ~t.subscribed => TaskHolds(t, n, Q, o, r, alive)
  BY <1>1 DEF TaskHolds
<1>5. ~Replies(m, n) \/ ~t.sync => TaskHolds(t, n, a, o, r, alive)
  <2>1. CASE t.alive /\ t.result = Call!NoResult
    BY <2>1, <1>1, <1>2 DEF TaskHolds
  <2>2. CASE ~(t.alive /\ t.result = Call!NoResult)
    BY <2>2, <1>2 DEF TaskHolds
  <2> QED BY <2>1, <2>2
<1>6. ASSUME Replies(m, n), t.sync
      PROVE  TaskHolds(Call!WithResult(t, m.result), n, Q, o, r, alive)
  <2>1. CASE t.alive /\ t.result = Call!NoResult
    <3>1. m.result = r /\ r # Call!NoResult /\ NoneReplies(Q, n)
      BY <2>1, <1>1, <1>3, <1>6 DEF TaskHolds
    <3>2. Call!WithResult(t, m.result).result = r
      BY <2>1, <3>1 DEF Call!WithResult, CallTask
    <3> QED BY <3>1, <3>2 DEF TaskHolds
  <2>2. CASE ~(t.alive /\ t.result = Call!NoResult)
    <3>1. Call!WithResult(t, m.result) = t
      BY <2>2 DEF Call!WithResult
    <3> QED BY <3>1, <2>2 DEF TaskHolds
  <2> QED BY <2>1, <2>2
<1> QED BY <1>4, <1>5, <1>6 DEF m, a, o

\* A task when something else is queued, and when the first that is queued is run.
LEMMA HoldsQueue ==
  ASSUME NEW t \in CallTask, NEW n, NEW Q \in Seq(CallMessage), NEW N, NEW r, NEW alive,
         TaskHolds(t, n, Q, N, r, alive)
  PROVE  /\ \A m \in CallMessage : ~Replies(m, n) => TaskHolds(t, n, Append(Q, m), N, r, alive)
         /\ Q # <<>> /\ ~Replies(Head(Q), n) => TaskHolds(t, n, Tail(Q), N, r, alive)
         /\ Q # <<>> /\ Replies(Head(Q), n)
              => TaskHolds(Call!WithResult(t, Head(Q).result), n, Tail(Q), N, r, alive)
<1>1. ASSUME NEW m \in CallMessage, ~Replies(m, n)
      PROVE  TaskHolds(t, n, Append(Q, m), N, r, alive)
  <2>1. /\ NoneReplies(Append(Q, m), n) <=> NoneReplies(Q, n)
        /\ FirstReply(Append(Q, m), n, r) <=> FirstReply(Q, n, r)
    BY <1>1, ReplyAppend
  <2> QED BY <2>1 DEF TaskHolds
<1>2. ASSUME Q # <<>>
      PROVE  /\ Head(Q) \in CallMessage
             /\ NoneReplies(Q, n) <=> ~Replies(Head(Q), n) /\ NoneReplies(Tail(Q), n)
             /\ FirstReply(Q, n, r) <=> IF Replies(Head(Q), n) THEN Head(Q).result = r
                                        ELSE FirstReply(Tail(Q), n, r)
  BY <1>2, ReplyTail
<1>3. ASSUME Q # <<>>, ~Replies(Head(Q), n)
      PROVE  TaskHolds(t, n, Tail(Q), N, r, alive)
  BY <1>2, <1>3 DEF TaskHolds
<1>4. ASSUME Q # <<>>, Replies(Head(Q), n)
      PROVE  TaskHolds(Call!WithResult(t, Head(Q).result), n, Tail(Q), N, r, alive)
  <2>1. ~t.sync
    BY <1>2, <1>4 DEF TaskHolds
  <2>2. Head(Q).result # Call!NoResult
    BY <1>2, <1>4 DEF CallMessage, Replies, Call!Results, Call!NoResult
  <2>3. CASE t.alive /\ t.result = Call!NoResult
    <3>1. Head(Q).result = r
      BY <2>3, <1>2, <1>4 DEF TaskHolds
    <3>2. /\ Call!WithResult(t, Head(Q).result).result = r
          /\ ~Call!WithResult(t, Head(Q).result).sync
      BY <2>3, <3>1, <2>1 DEF Call!WithResult, CallTask
    <3> QED BY <3>1, <3>2, <2>2 DEF TaskHolds
  <2>4. CASE ~(t.alive /\ t.result = Call!NoResult)
    <3>1. Call!WithResult(t, Head(Q).result) = t
      BY <2>4 DEF Call!WithResult
    <3> QED BY <3>1, <2>4, <2>1 DEF TaskHolds
  <2> QED BY <2>3, <2>4
<1> QED BY <1>1, <1>3, <1>4

\* A task when its lifetime ends, and when somebody lets go of it or takes its result.
LEMMA HoldsTask ==
  ASSUME NEW t \in CallTask, NEW n, NEW Q, NEW N, NEW r, NEW alive,
         TaskHolds(t, n, Q, N, r, alive)
  PROVE  /\ TaskHolds(Call!Ended(t), n, Q, N, r, FALSE)
         /\ \A x \in BOOLEAN : (x => t.result # Call!NoResult)
              => TaskHolds([t EXCEPT !.alive = x], n, Q, N, r, alive)
<1>1. TaskHolds(Call!Ended(t), n, Q, N, r, FALSE)
  <2> DEFINE w == Call!Ended(t)
  <2>1. /\ w.sync = t.sync /\ w.alive = t.alive
        /\ w.result = IF t.alive /\ t.result = Call!NoResult THEN "Cancelled" ELSE t.result
    BY DEF Call!Ended, Call!WithResult, CallTask
  <2>2. "Cancelled" # Call!NoResult
    BY DEF Call!NoResult
  <2> HIDE DEF w
  <2>3. TaskHolds(w, n, Q, N, r, FALSE)
    BY <2>1, <2>2 DEF TaskHolds
  <2> QED BY <2>3 DEF w
<1>2. ASSUME NEW x \in BOOLEAN, x => t.result # Call!NoResult
      PROVE  TaskHolds([t EXCEPT !.alive = x], n, Q, N, r, alive)
  <2> DEFINE w == [t EXCEPT !.alive = x]
  <2>1. w.sync = t.sync /\ w.alive = x /\ w.result = t.result
    BY DEF CallTask
  <2> HIDE DEF w
  <2>2. TaskHolds(w, n, Q, N, r, alive)
    BY <2>1, <1>2 DEF TaskHolds
  <2> QED BY <2>2 DEF w
<1> QED BY <1>1, <1>2

\* What CallInv says of an end, in the types of the members.
LEMMA CallAt ==
  ASSUME CallInv, NEW e \in Ends
  PROVE  /\ callBound[e] \in BOOLEAN /\ main[e] \in Call!Numbers \cup {0}
         /\ syncTask[e] \in Call!Numbers \cup {0}
         /\ task[e] \in Seq(CallTask) /\ Len(task[e]) \in Nat /\ DOMAIN task[e] = 1 .. Len(task[e])
         /\ \A n \in 1 .. Len(task[e]) : task[e][n] \in CallTask
         /\ callQueue[e] \in Seq(CallMessage) /\ callNet[e] \in Seq(CallMessage)
         /\ serving[e] \in [Call!Numbers -> {"no", "pending", "answered", "finished"}]
         /\ firstAnswer[e] \in [Call!Numbers -> Call!Results \cup {Call!NoResult}]
         /\ CallMain(e) /\ CallAbout(e) /\ CallHolds(e)
         /\ MaxCalls[e] \in Nat /\ 1 .. MaxCalls[e] \subseteq Call!Numbers
<1>1. MaxCalls[e] \in Nat /\ 1 .. MaxCalls[e] \subseteq Call!Numbers
  BY EntitiesAssumption DEF Call!CallAssumption, Call!Numbers
<1>2. task[e] \in Seq(CallTask)
  BY DEF CallInv, CallTypes
<1>3. Len(task[e]) \in Nat /\ DOMAIN task[e] = 1 .. Len(task[e])
      /\ \A n \in 1 .. Len(task[e]) : task[e][n] \in CallTask
  BY <1>2
<1> QED BY <1>1, <1>2, <1>3 DEF CallInv, CallTypes, Call!NoTask

\* A call of end e, with a task of its own and a request to the other end.
LEMMA CallBegins ==
  ASSUME CallInv, NEW e \in Ends, NEW sync \in BOOLEAN, Call!CanCall(e), Call!Begin(e, sync),
         UNCHANGED <<callBound, callQueue, serving, firstAnswer>>
  PROVE  /\ task' \in [Ends -> Seq(CallTask)] /\ callNet' \in [Ends -> Seq(CallMessage)]
         /\ \A g \in Ends \ {e} : task'[g] = task[g]
         /\ Len(task'[e]) = Len(task[e]) + 1 /\ Len(task'[e]) <= MaxCalls[e]
         /\ \A n \in 1 .. Len(task[e]) : task'[e][n] = task[e][n]
         /\ task'[e][Len(task[e]) + 1] = Call!NewTask(sync, TRUE)
         /\ \A g \in Ends : CallAbout(g)' /\ CallHolds(g)'
<1> DEFINE f == Other(e)
           k == Len(task[e]) + 1
           t == Call!NewTask(sync, TRUE)
           m == Call!Request(k)
<1>0. f \in Ends /\ f # e /\ Other(f) = e /\ Call!Other(e) = f /\ \A g \in Ends : g = e \/ g = f
  BY CallEnds
<1> HIDE DEF f
<1>1. /\ callBound[e] /\ Len(task[e]) < MaxCalls[e]
      /\ task' = [task EXCEPT ![e] = Append(task[e], t)]
      /\ callNet' = [callNet EXCEPT ![f] = Append(callNet[f], m)]
  BY <1>0 DEF Call!CanCall, Call!Begin
<1>2. /\ task[e] \in Seq(CallTask) /\ Len(task[e]) \in Nat /\ task[f] \in Seq(CallTask)
      /\ Len(task[f]) \in Nat /\ k \in Nat /\ MaxCalls[e] \in Nat /\ k \in Call!Numbers
      /\ callQueue[e] \in Seq(CallMessage) /\ callNet[e] \in Seq(CallMessage)
      /\ callQueue[f] \in Seq(CallMessage) /\ callNet[f] \in Seq(CallMessage)
      /\ CallAbout(e) /\ CallHolds(e) /\ CallAbout(f) /\ CallHolds(f)
  <2>1. k \in 1 .. MaxCalls[e]
    BY <1>0, <1>1, CallAt
  <2> QED BY <2>1, <1>0, CallAt
<1>3. t \in CallTask /\ m \in CallMessage /\ m.is = "request" /\ m.task = k
  BY <1>2 DEF Call!NewTask, Call!Request, CallTask, CallMessage
<1> HIDE DEF t, m
<1>4. /\ task' \in [Ends -> Seq(CallTask)] /\ task'[e] = Append(task[e], t)
      /\ \A g \in Ends \ {e} : task'[g] = task[g]
      /\ callNet' \in [Ends -> Seq(CallMessage)] /\ callNet'[f] = Append(callNet[f], m)
      /\ callNet'[e] = callNet[e]
  BY <1>0, <1>1, <1>2, <1>3, AppendProperties DEF CallInv, CallTypes
<1>5. /\ Len(task'[e]) = k /\ \A n \in 1 .. Len(task[e]) : task'[e][n] = task[e][n]
      /\ task'[e][k] = t
  BY <1>2, <1>3, <1>4, AppendProperties
<1>6. CallAbout(e)'
  <2>1. AboutTasks(callQueue[e], task'[e], task[f]) /\ AboutTasks(callNet[e], task'[e], task[f])
    BY <1>2, <1>5, AboutLonger DEF CallAbout, f
  <2> QED BY <2>1, <1>0, <1>2, <1>4 DEF CallAbout, f
<1>7. CallAbout(f)'
  <2>1. AboutTasks(callQueue[f], task[f], task'[e]) /\ AboutTasks(callNet[f], task[f], task'[e])
    BY <1>0, <1>2, <1>5, AboutLonger DEF CallAbout
  <2>2. AboutTasks(Append(callNet[f], m), task[f], task'[e])
    <3>1. m.task \in 1 .. IF m.is = "response" THEN Len(task[f]) ELSE Len(task'[e])
      BY <1>2, <1>3, <1>5
    <3> QED BY <2>1, <3>1, <1>2, <1>3, AboutChanged
  <2>3. AboutServed(serving[f], firstAnswer[f], task'[e])
    BY <1>0, <1>2, <1>5 DEF CallAbout, AboutServed
  <2> QED BY <2>1, <2>2, <2>3, <1>0, <1>4 DEF CallAbout
<1>8. CallHolds(e)'
  <2>1. ASSUME NEW n \in 1 .. Len(task[e])
        PROVE  TaskHolds(task'[e][n], n, callQueue[e], callNet[e], firstAnswer[f][n], callBound[e])
    BY <1>2, <1>5 DEF CallHolds, f
  <2>2. NoneReplies(callQueue[e], k) /\ NoneReplies(callNet[e], k)
    BY <1>2 DEF CallAbout, AboutTasks, NoneReplies, Replies
  <2>3. firstAnswer[f][k] = Call!NoResult
    BY <1>0, <1>2 DEF CallAbout, AboutServed
  <2>4. TaskHolds(t, k, callQueue[e], callNet[e], firstAnswer[f][k], callBound[e])
    <3>1. FirstReply(callQueue[e], k, firstAnswer[f][k]) /\ FirstReply(callNet[e], k, firstAnswer[f][k])
      BY <2>2 DEF NoneReplies, FirstReply
    <3> QED BY <2>2, <2>3, <3>1, <1>1 DEF TaskHolds, t, Call!NewTask
  <2>5. \A n \in 1 .. k : n \in 1 .. Len(task[e]) \/ n = k
    BY <1>2
  <2> QED BY <2>1, <2>4, <2>5, <1>4, <1>5 DEF CallHolds, f
<1>9. CallHolds(f)'
  <2>1. ASSUME NEW n \in 1 .. Len(task[f])
        PROVE  TaskHolds(task[f][n], n, callQueue[f], callNet'[f], firstAnswer[e][n], callBound[f])
    <3>1. TaskHolds(task[f][n], n, callQueue[f], callNet[f], firstAnswer[e][n], callBound[f])
      BY <1>0, <1>2 DEF CallHolds
    <3>2. ~Replies(m, n)
      BY <1>3 DEF Replies
    <3> QED BY <3>1, <3>2, <1>2, <1>3, <1>4, HoldsNetGrows
  <2> QED BY <2>1, <1>0, <1>4 DEF CallHolds
<1>10. \A g \in Ends : CallAbout(g)' /\ CallHolds(g)'
  BY <1>0, <1>6, <1>7, <1>8, <1>9
<1>11. Len(task'[e]) = Len(task[e]) + 1 /\ Len(task'[e]) <= MaxCalls[e]
  BY <1>1, <1>2, <1>5
<1>12. task'[e][Len(task[e]) + 1] = Call!NewTask(sync, TRUE)
  BY <1>5 DEF t
<1> QED BY <1>4, <1>5, <1>10, <1>11, <1>12

\* An asynchronous call begins.
LEMMA CallStartStep ==
  ASSUME CallInv, NEW e \in Ends, Call!Start(e)
  PROVE  CallInv'
<1>1. Call!CanCall(e) /\ Call!Begin(e, FALSE)
      /\ UNCHANGED <<callBound, main, syncTask, callQueue, serving, firstAnswer>>
  BY DEF Call!Start
<1>2. /\ task' \in [Ends -> Seq(CallTask)] /\ callNet' \in [Ends -> Seq(CallMessage)]
      /\ \A g \in Ends \ {e} : task'[g] = task[g]
      /\ Len(task'[e]) = Len(task[e]) + 1 /\ Len(task'[e]) <= MaxCalls[e]
      /\ \A n \in 1 .. Len(task[e]) : task'[e][n] = task[e][n]
      /\ \A g \in Ends : CallAbout(g)' /\ CallHolds(g)'
  BY <1>1, CallBegins
<1>3. ASSUME NEW g \in Ends
      PROVE  CallMain(g)'
  <2>1. CallMain(g) /\ Len(task[g]) \in Nat /\ Len(task[e]) \in Nat
        /\ main[g] = main'[g] /\ syncTask[g] = syncTask'[g]
    BY <1>1, CallAt
  <2>2. CASE g # e
    BY <2>1, <2>2, <1>2 DEF CallMain
  <2>3. CASE g = e
    BY <2>1, <2>3, <1>2 DEF CallMain, Call!NoTask
  <2> QED BY <2>2, <2>3
<1>4. CallTypes'
  BY <1>1, <1>2 DEF CallInv, CallTypes
<1> QED BY <1>2, <1>3, <1>4 DEF CallInv

\* A synchronous call begins.
LEMMA CallSyncStep ==
  ASSUME CallInv, NEW e \in Ends, Call!Sync(e)
  PROVE  CallInv'
<1>1. Call!CanCall(e) /\ Call!Begin(e, TRUE)
      /\ syncTask' = [syncTask EXCEPT ![e] = Len(task[e]) + 1]
      /\ main' = [main EXCEPT ![e] = Len(task[e]) + 1]
      /\ UNCHANGED <<callBound, callQueue, serving, firstAnswer>>
  BY DEF Call!Sync
<1>2. /\ task' \in [Ends -> Seq(CallTask)] /\ callNet' \in [Ends -> Seq(CallMessage)]
      /\ \A g \in Ends \ {e} : task'[g] = task[g]
      /\ Len(task'[e]) = Len(task[e]) + 1 /\ Len(task'[e]) <= MaxCalls[e]
      /\ task'[e][Len(task[e]) + 1] = Call!NewTask(TRUE, TRUE)
      /\ \A g \in Ends : CallAbout(g)' /\ CallHolds(g)'
  BY <1>1, CallBegins
<1>3. /\ Len(task[e]) \in Nat /\ MaxCalls[e] \in Nat /\ Len(task[e]) + 1 \in Call!Numbers
      /\ main \in [Ends -> Call!Numbers \cup {Call!NoTask}]
      /\ syncTask \in [Ends -> Call!Numbers \cup {Call!NoTask}]
  <2>1. Len(task[e]) \in Nat /\ MaxCalls[e] \in Nat /\ 1 .. MaxCalls[e] \subseteq Call!Numbers
    BY CallAt
  <2>2. Len(task[e]) + 1 \in 1 .. MaxCalls[e]
    BY <2>1, <1>2
  <2> QED BY <2>1, <2>2 DEF CallInv, CallTypes
<1>4. ASSUME NEW g \in Ends
      PROVE  CallMain(g)'
  <2>1. CallMain(g) /\ Len(task[g]) \in Nat
    BY CallAt
  <2>2. CASE g # e
    <3>1. main'[g] = main[g] /\ syncTask'[g] = syncTask[g]
      BY <2>2, <1>1, <1>3
    <3> QED BY <2>1, <2>2, <3>1, <1>2 DEF CallMain
  <2>3. CASE g = e
    <3>1. main'[e] = Len(task[e]) + 1 /\ syncTask'[e] = Len(task[e]) + 1
      BY <1>1, <1>3
    <3>2. task'[e][Len(task[e]) + 1].alive /\ task'[e][Len(task[e]) + 1].sync
      BY <1>2 DEF Call!NewTask
    <3> QED BY <2>3, <3>1, <3>2, <1>2, <1>3 DEF CallMain
  <2> QED BY <2>2, <2>3
<1>5. CallTypes'
  BY <1>1, <1>2, <1>3 DEF CallInv, CallTypes
<1> QED BY <1>2, <1>4, <1>5 DEF CallInv

\* What a step makes of a task is a task, and one of the same sort.
LEMMA TaskBecomes ==
  ASSUME NEW t \in CallTask
  PROVE  /\ \A r \in Call!Results :
              /\ Call!WithResult(t, r) \in CallTask
              /\ Call!WithResult(t, r).alive = t.alive /\ Call!WithResult(t, r).sync = t.sync
         /\ Call!Ended(t) \in CallTask
         /\ Call!Ended(t).alive = t.alive /\ Call!Ended(t).sync = t.sync
         /\ \A x \in BOOLEAN : /\ [t EXCEPT !.alive = x] \in CallTask
                               /\ [t EXCEPT !.alive = x].alive = x
                               /\ [t EXCEPT !.alive = x].sync = t.sync
<1>1. \A r \in Call!Results :
        /\ Call!WithResult(t, r) \in CallTask
        /\ Call!WithResult(t, r).alive = t.alive /\ Call!WithResult(t, r).sync = t.sync
  BY DEF CallTask, Call!WithResult
<1>2. "Cancelled" \in Call!Results
  BY DEF Call!Results
<1>3. /\ Call!Ended(t) \in CallTask
      /\ Call!Ended(t).alive = t.alive /\ Call!Ended(t).sync = t.sync
  BY <1>1, <1>2 DEF CallTask, Call!Ended
<1>4. \A x \in BOOLEAN : /\ [t EXCEPT !.alive = x] \in CallTask
                         /\ [t EXCEPT !.alive = x].alive = x
                         /\ [t EXCEPT !.alive = x].sync = t.sync
  BY DEF CallTask
<1> QED BY <1>1, <1>3, <1>4

\* One task of end e becomes another one, or all of them do, and there are as many as before.
LEMMA TasksBecome ==
  ASSUME CallInv, NEW e \in Ends, NEW T \in [1 .. Len(task[e]) -> CallTask],
         task' = [task EXCEPT ![e] = T]
  PROVE  /\ task' \in [Ends -> Seq(CallTask)]
         /\ task'[e] = T /\ Len(T) = Len(task[e])
         /\ \A g \in Ends : Len(task'[g]) = Len(task[g])
         /\ \A g \in Ends \ {e} : task'[g] = task[g]
<1>1. /\ task \in [Ends -> Seq(CallTask)] /\ Len(task[e]) \in Nat
  BY CallAt DEF CallInv, CallTypes
<1>2. T \in Seq(CallTask) /\ Len(T) = Len(task[e])
  BY <1>1, LenProperties, SeqDef
<1> QED BY <1>1, <1>2

\* A task is let go of, or is answered and handed to whoever called.
LEMMA CallTasksStep ==
  ASSUME CallInv, NEW e \in Ends, NEW n \in 1 .. Len(task[e]), NEW x \in BOOLEAN,
         x => task[e][n].result # Call!NoResult,
         task' = [task EXCEPT ![e] = [task[e] EXCEPT ![n] = [task[e][n] EXCEPT !.alive = x]]],
         UNCHANGED <<callBound, callQueue, callNet, serving, firstAnswer>>
  PROVE  /\ task' \in [Ends -> Seq(CallTask)]
         /\ \A g \in Ends \ {e} : task'[g] = task[g]
         /\ Len(task'[e]) = Len(task[e])
         /\ \A i \in 1 .. Len(task[e]) \ {n} : task'[e][i] = task[e][i]
         /\ \A g \in Ends : CallAbout(g)' /\ CallHolds(g)'
<1> DEFINE w == [task[e][n] EXCEPT !.alive = x]
           T == [task[e] EXCEPT ![n] = w]
<1>1. /\ task[e] \in Seq(CallTask) /\ DOMAIN task[e] = 1 .. Len(task[e]) /\ Len(task[e]) \in Nat
      /\ \A i \in 1 .. Len(task[e]) : task[e][i] \in CallTask
      /\ CallAbout(e) /\ CallHolds(e)
  BY CallAt
<1>2. w \in CallTask
  BY <1>1, TaskBecomes
<1> HIDE DEF w
<1>3. /\ T \in [1 .. Len(task[e]) -> CallTask] /\ T[n] = w
      /\ \A i \in 1 .. Len(task[e]) \ {n} : T[i] = task[e][i]
  <2>1. task[e] \in [1 .. Len(task[e]) -> CallTask]
    BY <1>1, LenProperties
  <2> QED BY <2>1, <1>2
<1>4. task' = [task EXCEPT ![e] = T]
  BY DEF w
<1> HIDE DEF T
<1>5. /\ task' \in [Ends -> Seq(CallTask)]
      /\ task'[e] = T /\ Len(T) = Len(task[e])
      /\ \A g \in Ends : Len(task'[g]) = Len(task[g])
      /\ \A g \in Ends \ {e} : task'[g] = task[g]
  BY <1>3, <1>4, TasksBecome
<1>6. ASSUME NEW g \in Ends
      PROVE  CallAbout(g)'
  <2>1. Other(g) \in Ends /\ CallAbout(g)
    BY CallEnds, CallAt
  <2> QED BY <2>1, <1>5 DEF CallAbout, AboutTasks, AboutServed
<1>7. ASSUME NEW g \in Ends, NEW i \in 1 .. Len(task'[g])
      PROVE  TaskHolds(task'[g][i], i, callQueue[g], callNet[g], firstAnswer[Other(g)][i],
                       callBound[g])
  <2>1. TaskHolds(task[g][i], i, callQueue[g], callNet[g], firstAnswer[Other(g)][i], callBound[g])
    BY <1>5, <1>7, CallAt DEF CallHolds
  <2>2. CASE g = e /\ i = n
    <3>1. TaskHolds(w, i, callQueue[g], callNet[g], firstAnswer[Other(g)][i], callBound[g])
      BY <2>1, <2>2, <1>1, HoldsTask DEF w
    <3> QED BY <3>1, <2>2, <1>3, <1>5
  <2>3. CASE ~(g = e /\ i = n)
    BY <2>1, <2>3, <1>3, <1>5
  <2> QED BY <2>2, <2>3
<1>8. \A g \in Ends : CallHolds(g)'
  BY <1>7 DEF CallHolds
<1> QED BY <1>3, <1>5, <1>6, <1>8

\* A synchronous call is refused while another one waits.
LEMMA CallRefusedStep ==
  ASSUME CallInv, NEW e \in Ends, Call!SyncRefused(e)
  PROVE  CallInv'
<1> DEFINE k == Len(task[e]) + 1
           t == Call!NewTask(TRUE, FALSE)
<1>1. /\ Call!CanCall(e) /\ task' = [task EXCEPT ![e] = Append(task[e], t)]
      /\ UNCHANGED <<callBound, main, syncTask, callQueue, callNet, serving, firstAnswer>>
  BY DEF Call!SyncRefused
<1>2. /\ task[e] \in Seq(CallTask) /\ Len(task[e]) \in Nat /\ k \in Nat /\ MaxCalls[e] \in Nat
      /\ Len(task[e]) < MaxCalls[e] /\ CallAbout(e) /\ CallHolds(e)
  BY <1>1, CallAt DEF Call!CanCall
<1>3. t \in CallTask /\ ~t.alive /\ t.result = Call!NoResult
  BY DEF CallTask, Call!NewTask
<1> HIDE DEF t
<1>4. /\ task' \in [Ends -> Seq(CallTask)] /\ task'[e] = Append(task[e], t)
      /\ \A g \in Ends \ {e} : task'[g] = task[g]
  BY <1>1, <1>2, <1>3, AppendProperties DEF CallInv, CallTypes
<1>5. /\ Len(task'[e]) = k /\ \A n \in 1 .. Len(task[e]) : task'[e][n] = task[e][n]
      /\ task'[e][k] = t
  BY <1>2, <1>3, <1>4, AppendProperties
<1>6. ASSUME NEW g \in Ends
      PROVE  Len(task[g]) \in Nat /\ Len(task'[g]) \in Nat /\ Len(task[g]) <= Len(task'[g])
  <2>1. Len(task[g]) \in Nat
    BY CallAt
  <2>2. CASE g = e
    BY <2>1, <2>2, <1>5
  <2>3. CASE g # e
    BY <2>1, <2>3, <1>4
  <2> QED BY <2>2, <2>3
<1>7. ASSUME NEW g \in Ends
      PROVE  CallMain(g)' /\ CallAbout(g)' /\ CallHolds(g)'
  <2>1. /\ CallMain(g) /\ CallAbout(g) /\ CallHolds(g) /\ Other(g) \in Ends
        /\ callQueue[g] \in Seq(CallMessage) /\ callNet[g] \in Seq(CallMessage)
    BY CallAt, CallEnds
  <2>2. CallMain(g)'
    <3>1. CASE g = e
      BY <3>1, <2>1, <1>1, <1>2, <1>5 DEF CallMain, Call!NoTask
    <3>2. CASE g # e
      BY <3>2, <2>1, <1>1, <1>4 DEF CallMain
    <3> QED BY <3>1, <3>2
  <2>3. CallAbout(g)'
    <3>1. /\ AboutTasks(callQueue[g], task'[g], task'[Other(g)])
          /\ AboutTasks(callNet[g], task'[g], task'[Other(g)])
      BY <2>1, <1>6, AboutLonger DEF CallAbout
    <3>2. AboutServed(serving[g], firstAnswer[g], task'[Other(g)])
      BY <2>1, <1>6 DEF CallAbout, AboutServed
    <3> QED BY <3>1, <3>2, <1>1 DEF CallAbout
  <2>4. CallHolds(g)'
    <3>1. CASE g # e
      BY <3>1, <2>1, <1>1, <1>4 DEF CallHolds
    <3>2. CASE g = e
      <4>1. NoneReplies(callQueue[e], k)
        BY <1>2 DEF CallAbout, AboutTasks, NoneReplies, Replies
      <4>2. TaskHolds(t, k, callQueue[e], callNet[e], firstAnswer[Other(e)][k], callBound[e])
        BY <4>1, <1>3 DEF TaskHolds
      <4>3. \A n \in 1 .. k : n \in 1 .. Len(task[e]) \/ n = k
        BY <1>2
      <4> QED BY <3>2, <4>2, <4>3, <2>1, <1>1, <1>5 DEF CallHolds
    <3> QED BY <3>1, <3>2
  <2> QED BY <2>2, <2>3, <2>4
<1>8. CallTypes'
  BY <1>1, <1>4 DEF CallInv, CallTypes
<1> QED BY <1>7, <1>8 DEF CallInv

\* A user lets go of a task.
LEMMA CallReleaseStep ==
  ASSUME CallInv, NEW e \in Ends, NEW n, Call!Release(e, n)
  PROVE  CallInv'
<1>1. /\ n \in 1 .. Len(task[e]) /\ n # main[e]
      /\ task' = [task EXCEPT ![e] = [task[e] EXCEPT ![n] = [task[e][n] EXCEPT !.alive = FALSE]]]
      /\ UNCHANGED <<callBound, main, syncTask, callQueue, callNet, serving, firstAnswer>>
  BY CallAt DEF Call!Release
<1>2. /\ task' \in [Ends -> Seq(CallTask)]
      /\ \A g \in Ends \ {e} : task'[g] = task[g]
      /\ Len(task'[e]) = Len(task[e])
      /\ \A i \in 1 .. Len(task[e]) \ {n} : task'[e][i] = task[e][i]
      /\ \A g \in Ends : CallAbout(g)' /\ CallHolds(g)'
  BY <1>1, CallTasksStep
<1>3. ASSUME NEW g \in Ends
      PROVE  CallMain(g)'
  <2>1. CallMain(g)
    BY CallAt
  <2>2. CASE g # e
    BY <2>1, <2>2, <1>1, <1>2 DEF CallMain
  <2>3. CASE g = e
    BY <2>1, <2>3, <1>1, <1>2 DEF CallMain, Call!NoTask
  <2> QED BY <2>2, <2>3
<1>4. CallTypes'
  BY <1>1, <1>2 DEF CallInv, CallTypes
<1> QED BY <1>2, <1>3, <1>4 DEF CallInv

\* A synchronous call returns or has waited for too long.
LEMMA CallSyncThreadStep ==
  ASSUME CallInv, NEW e \in Ends, Call!SyncThread(e)
  PROVE  CallInv'
<1> DEFINE n == main[e]
<1>1. CASE Call!SyncReturns(e) \/ Call!SyncTimesOut(e)
  <2>1. PICK x \in BOOLEAN :
          /\ n # Call!NoTask
          /\ x => task[e][n].result = "Success"
          /\ task' = [task EXCEPT ![e] = [task[e] EXCEPT ![n] = [task[e][n] EXCEPT !.alive = x]]]
          /\ syncTask' = [syncTask EXCEPT ![e] = Call!NoTask] \/ syncTask' = syncTask
          /\ main' = [main EXCEPT ![e] = Call!NoTask]
          /\ UNCHANGED <<callBound, callQueue, callNet, serving, firstAnswer>>
    <3>1. CASE Call!SyncReturns(e)
      BY <3>1 DEF Call!SyncReturns
    <3>2. CASE Call!SyncTimesOut(e)
      BY <3>2 DEF Call!SyncTimesOut
    <3> QED BY <1>1, <3>1, <3>2
  <2>2. n \in 1 .. Len(task[e]) /\ Len(task[e]) \in Nat
    BY <2>1, CallAt DEF CallMain
  <2>3. x => task[e][n].result # Call!NoResult
    BY <2>1 DEF Call!NoResult
  <2>4. /\ task' \in [Ends -> Seq(CallTask)]
        /\ \A g \in Ends \ {e} : task'[g] = task[g]
        /\ Len(task'[e]) = Len(task[e])
        /\ \A g \in Ends : CallAbout(g)' /\ CallHolds(g)'
    BY <2>1, <2>2, <2>3, CallTasksStep
  <2>5. /\ main \in [Ends -> Call!Numbers \cup {Call!NoTask}]
        /\ syncTask \in [Ends -> Call!Numbers \cup {Call!NoTask}]
    BY DEF CallInv, CallTypes
  <2>6. ASSUME NEW g \in Ends
        PROVE  CallMain(g)'
    <3>1. CallMain(g)
      BY CallAt
    <3>2. CASE g # e
      BY <3>1, <3>2, <2>1, <2>4, <2>5 DEF CallMain
    <3>3. CASE g = e
      BY <3>1, <3>3, <2>1, <2>4, <2>5 DEF CallMain
    <3> QED BY <3>2, <3>3
  <2>7. CallTypes'
    BY <2>1, <2>4, <2>5 DEF CallInv, CallTypes
  <2> QED BY <2>4, <2>6, <2>7 DEF CallInv
<1> QED BY <1>1 DEF Call!SyncThread

\* The lifetime of an end's calls ends, and with it all the tasks that wait.
LEMMA CallTerminateStep ==
  ASSUME CallInv, NEW e \in Ends, Call!Terminate(e)
  PROVE  CallInv'
<1> DEFINE T == [n \in 1 .. Len(task[e]) |-> Call!Ended(task[e][n])]
<1>1. /\ callBound' = [callBound EXCEPT ![e] = FALSE]
      /\ task' = [task EXCEPT ![e] = T]
      /\ UNCHANGED <<main, syncTask, callQueue, callNet, serving, firstAnswer>>
  BY CallAt DEF Call!Terminate
<1>2. \A n \in 1 .. Len(task[e]) :
        T[n] \in CallTask /\ T[n].alive = task[e][n].alive /\ T[n].sync = task[e][n].sync
  BY CallAt, TaskBecomes
<1>3. T \in [1 .. Len(task[e]) -> CallTask]
  BY <1>2
<1>4. \A n \in 1 .. Len(task[e]) : T[n] = Call!Ended(task[e][n])
  OBVIOUS
<1> HIDE DEF T
<1>5. /\ task' \in [Ends -> Seq(CallTask)]
      /\ task'[e] = T /\ Len(T) = Len(task[e])
      /\ \A g \in Ends : Len(task'[g]) = Len(task[g])
      /\ \A g \in Ends \ {e} : task'[g] = task[g]
  BY <1>1, <1>3, TasksBecome
<1>6. callBound' \in [Ends -> BOOLEAN] /\ ~callBound'[e]
      /\ \A g \in Ends \ {e} : callBound'[g] = callBound[g]
  BY <1>1 DEF CallInv, CallTypes
<1>7. ASSUME NEW g \in Ends
      PROVE  CallMain(g)' /\ CallAbout(g)' /\ CallHolds(g)'
  <2>1. /\ CallMain(g) /\ CallAbout(g) /\ CallHolds(g) /\ Other(g) \in Ends
    BY CallAt, CallEnds
  <2>2. CallMain(g)'
    <3>1. CASE g = e
      <4>1. main[e] # Call!NoTask => main[e] \in 1 .. Len(task[e])
        BY CallAt DEF CallMain
      <4> QED BY <3>1, <4>1, <2>1, <1>1, <1>2, <1>5 DEF CallMain
    <3>2. CASE g # e
      BY <3>2, <2>1, <1>1, <1>5 DEF CallMain
    <3> QED BY <3>1, <3>2
  <2>3. CallAbout(g)'
    BY <2>1, <1>1, <1>5 DEF CallAbout, AboutTasks, AboutServed
  <2>4. CallHolds(g)'
    <3>1. CASE g # e
      BY <3>1, <2>1, <1>1, <1>5, <1>6 DEF CallHolds
    <3>2. CASE g = e
      <4> SUFFICES ASSUME NEW n \in 1 .. Len(task[e])
                   PROVE  TaskHolds(T[n], n, callQueue[e], callNet[e], firstAnswer[Other(e)][n], FALSE)
        BY <3>2, <1>1, <1>5, <1>6 DEF CallHolds
      <4>1. TaskHolds(task[e][n], n, callQueue[e], callNet[e], firstAnswer[Other(e)][n], callBound[e])
        BY CallAt DEF CallHolds
      <4>2. task[e][n] \in CallTask
        BY CallAt
      <4> QED BY <4>1, <4>2, <1>4, HoldsTask
    <3> QED BY <3>1, <3>2
  <2> QED BY <2>2, <2>3, <2>4
<1>8. CallTypes'
  BY <1>1, <1>5, <1>6 DEF CallInv, CallTypes
<1> QED BY <1>7, <1>8 DEF CallInv

\* A task of end e gets the result r, if it waits, while messages come and go.
LEMMA CallAssigned ==
  ASSUME CallInv, NEW e \in Ends, NEW n \in 1 .. Len(task[e]), NEW r \in Call!Results,
         task' = [task EXCEPT ![e][n] = Call!WithResult(@, r)],
         UNCHANGED <<main, syncTask>>
  PROVE  /\ task' \in [Ends -> Seq(CallTask)]
         /\ \A g \in Ends \ {e} : task'[g] = task[g]
         /\ \A g \in Ends : Len(task'[g]) = Len(task[g]) /\ CallMain(g)'
         /\ task'[e][n] = Call!WithResult(task[e][n], r)
         /\ \A i \in 1 .. Len(task[e]) \ {n} : task'[e][i] = task[e][i]
<1> DEFINE w == Call!WithResult(task[e][n], r)
           T == [task[e] EXCEPT ![n] = w]
<1>1. /\ task[e] \in Seq(CallTask) /\ DOMAIN task[e] = 1 .. Len(task[e]) /\ Len(task[e]) \in Nat
      /\ \A i \in 1 .. Len(task[e]) : task[e][i] \in CallTask
  BY CallAt
<1>2. w \in CallTask /\ w.alive = task[e][n].alive /\ w.sync = task[e][n].sync
  BY <1>1, TaskBecomes
<1> HIDE DEF w
<1>3. /\ T \in [1 .. Len(task[e]) -> CallTask] /\ T[n] = w
      /\ \A i \in 1 .. Len(task[e]) \ {n} : T[i] = task[e][i]
  <2>1. task[e] \in [1 .. Len(task[e]) -> CallTask]
    BY <1>1, LenProperties
  <2> QED BY <2>1, <1>2
<1>4. task' = [task EXCEPT ![e] = T]
  BY DEF w
<1> HIDE DEF T
<1>5. /\ task' \in [Ends -> Seq(CallTask)]
      /\ task'[e] = T /\ Len(T) = Len(task[e])
      /\ \A g \in Ends : Len(task'[g]) = Len(task[g])
      /\ \A g \in Ends \ {e} : task'[g] = task[g]
  BY <1>3, <1>4, TasksBecome
<1>6. ASSUME NEW g \in Ends
      PROVE  CallMain(g)'
  <2>1. CallMain(g)
    BY CallAt
  <2>2. CASE g # e
    BY <2>1, <2>2, <1>5 DEF CallMain
  <2>3. CASE g = e
    <3>1. main[e] # Call!NoTask => main[e] \in 1 .. Len(task[e])
      BY CallAt DEF CallMain
    <3>2. \A i \in 1 .. Len(task[e]) : T[i].alive = task[e][i].alive /\ T[i].sync = task[e][i].sync
      BY <1>2, <1>3
    <3> QED BY <2>1, <2>3, <3>1, <3>2, <1>5 DEF CallMain
  <2> QED BY <2>2, <2>3
<1> QED BY <1>3, <1>5, <1>6 DEF w

\* The wire's thread takes an answer.
LEMMA CallOnResponseStep ==
  ASSUME CallInv, NEW e \in Ends, Call!OnResponse(e)
  PROVE  CallInv'
<1> DEFINE m == Head(callNet[e])
           n == m.task
           t == task[e][n]
<1>1. /\ callNet[e] # <<>> /\ m.is = "response"
      /\ callNet' = [callNet EXCEPT ![e] = Tail(callNet[e])]
      /\ UNCHANGED <<callBound, main, syncTask, serving, firstAnswer>>
      /\ \/ /\ t.subscribed /\ t.sync /\ callQueue' = callQueue
            /\ task' = [task EXCEPT ![e][n] = Call!WithResult(@, m.result)]
         \/ /\ t.subscribed /\ ~t.sync /\ task' = task
            /\ callQueue' = [callQueue EXCEPT ![e] = Append(callQueue[e], m)]
         \/ ~t.subscribed /\ task' = task /\ callQueue' = callQueue
  BY DEF Call!OnResponse
<1>2. /\ callNet[e] \in Seq(CallMessage) /\ callQueue[e] \in Seq(CallMessage)
      /\ CallAbout(e) /\ CallHolds(e) /\ CallMain(e)
      /\ \A i \in 1 .. Len(task[e]) : task[e][i] \in CallTask
  BY CallAt
<1>3. Tail(callNet[e]) \in Seq(CallMessage) /\ m \in CallMessage /\ m.result \in Call!Results
  BY <1>1, <1>2, ReplyTail DEF CallMessage
<1>4. n \in 1 .. Len(task[e]) /\ AboutTasks(Tail(callNet[e]), task[e], task[Other(e)])
  BY <1>1, <1>2, AboutChanged DEF CallAbout
<1>5. \A i : Replies(m, i) <=> i = n
  BY <1>1 DEF Replies
<1>6. callNet' \in [Ends -> Seq(CallMessage)] /\ callNet'[e] = Tail(callNet[e])
      /\ \A g \in Ends \ {e} : callNet'[g] = callNet[g]
  BY <1>1, <1>3 DEF CallInv, CallTypes
<1>7. \A i \in 1 .. Len(task[e]) :
        TaskHolds(task[e][i], i, callQueue[e], callNet[e], firstAnswer[Other(e)][i], callBound[e])
  BY <1>2 DEF CallHolds
<1> HIDE DEF m, n
<1>8. CASE /\ t.subscribed /\ t.sync /\ callQueue' = callQueue
           /\ task' = [task EXCEPT ![e][n] = Call!WithResult(@, m.result)]
  <2>1. /\ task' \in [Ends -> Seq(CallTask)]
        /\ \A g \in Ends \ {e} : task'[g] = task[g]
        /\ \A g \in Ends : Len(task'[g]) = Len(task[g]) /\ CallMain(g)'
        /\ task'[e][n] = Call!WithResult(task[e][n], m.result)
        /\ \A i \in 1 .. Len(task[e]) \ {n} : task'[e][i] = task[e][i]
    BY <1>1, <1>3, <1>4, <1>8, CallAssigned
  <2>2. ASSUME NEW g \in Ends
        PROVE  CallAbout(g)'
    <3>1. CallAbout(g) /\ Other(g) \in Ends
      BY CallAt, CallEnds
    <3>2. AboutTasks(callNet'[g], task[g], task[Other(g)])
      BY <3>1, <1>4, <1>6 DEF CallAbout
    <3> QED BY <3>1, <3>2, <2>1, <1>1, <1>8 DEF CallAbout, AboutTasks, AboutServed
  <2>3. ASSUME NEW i \in 1 .. Len(task[e])
        PROVE  TaskHolds(task'[e][i], i, callQueue[e], Tail(callNet[e]),
                         firstAnswer[Other(e)][i], callBound[e])
    <3>1. CASE i = n
      <4>1. TaskHolds(Call!WithResult(task[e][n], m.result), n, callQueue[e], Tail(callNet[e]),
                      firstAnswer[Other(e)][n], callBound[e])
        BY <1>1, <1>2, <1>4, <1>5, <1>7, <1>8, HoldsNetTail DEF m
      <4> QED BY <4>1, <3>1, <2>1
    <3>2. CASE i # n
      BY <3>2, <2>1, <1>1, <1>2, <1>5, <1>7, HoldsNetTail DEF m
    <3> QED BY <3>1, <3>2
  <2>4. ASSUME NEW g \in Ends
        PROVE  CallHolds(g)'
    <3>1. CASE g = e
      BY <3>1, <2>1, <2>3, <1>1, <1>6, <1>8 DEF CallHolds
    <3>2. CASE g # e
      BY <3>2, <2>1, <1>1, <1>6, <1>8, CallAt DEF CallHolds
    <3> QED BY <3>1, <3>2
  <2>5. CallTypes'
    BY <2>1, <1>1, <1>6, <1>8 DEF CallInv, CallTypes
  <2> QED BY <2>1, <2>2, <2>4, <2>5 DEF CallInv
<1>9. CASE /\ t.subscribed /\ ~t.sync /\ task' = task
           /\ callQueue' = [callQueue EXCEPT ![e] = Append(callQueue[e], m)]
  <2>1. /\ callQueue' \in [Ends -> Seq(CallMessage)] /\ callQueue'[e] = Append(callQueue[e], m)
        /\ \A g \in Ends \ {e} : callQueue'[g] = callQueue[g]
    BY <1>2, <1>3, <1>9, AppendProperties DEF CallInv, CallTypes
  <2>2. AboutTasks(Append(callQueue[e], m), task[e], task[Other(e)])
    BY <1>1, <1>2, <1>3, <1>4, AboutChanged DEF CallAbout, n, m
  <2>3. ASSUME NEW i \in 1 .. Len(task[e])
        PROVE  TaskHolds(task[e][i], i, Append(callQueue[e], m), Tail(callNet[e]),
                         firstAnswer[Other(e)][i], callBound[e])
    BY <1>1, <1>2, <1>5, <1>7, <1>9, HoldsNetTail DEF m
  <2>4. ASSUME NEW g \in Ends
        PROVE  CallMain(g)' /\ CallAbout(g)' /\ CallHolds(g)'
    <3>1. CallMain(g) /\ CallAbout(g) /\ CallHolds(g)
      BY CallAt
    <3>2. CASE g = e
      BY <3>1, <3>2, <2>1, <2>2, <2>3, <1>1, <1>4, <1>6, <1>9 DEF CallMain, CallAbout, CallHolds
    <3>3. CASE g # e
      BY <3>1, <3>3, <2>1, <1>1, <1>6, <1>9 DEF CallMain, CallAbout, CallHolds
    <3> QED BY <3>2, <3>3
  <2>5. CallTypes'
    BY <2>1, <1>1, <1>6, <1>9 DEF CallInv, CallTypes
  <2> QED BY <2>4, <2>5 DEF CallInv
<1>10. CASE ~t.subscribed /\ task' = task /\ callQueue' = callQueue
  <2>1. ASSUME NEW i \in 1 .. Len(task[e])
        PROVE  TaskHolds(task[e][i], i, callQueue[e], Tail(callNet[e]),
                         firstAnswer[Other(e)][i], callBound[e])
    BY <1>1, <1>2, <1>5, <1>7, <1>10, HoldsNetTail DEF m
  <2>2. ASSUME NEW g \in Ends
        PROVE  CallMain(g)' /\ CallAbout(g)' /\ CallHolds(g)'
    <3>1. CallMain(g) /\ CallAbout(g) /\ CallHolds(g)
      BY CallAt
    <3>2. CASE g = e
      BY <3>1, <3>2, <2>1, <1>1, <1>4, <1>6, <1>10 DEF CallMain, CallAbout, CallHolds
    <3>3. CASE g # e
      BY <3>1, <3>3, <1>1, <1>6, <1>10 DEF CallMain, CallAbout, CallHolds
    <3> QED BY <3>2, <3>3
  <2>3. CallTypes'
    BY <1>1, <1>6, <1>10 DEF CallInv, CallTypes
  <2> QED BY <2>2, <2>3 DEF CallInv
<1> QED BY <1>1, <1>8, <1>9, <1>10 DEF m, n

\* The wire's thread takes a request.
LEMMA CallOnRequestStep ==
  ASSUME CallInv, NEW e \in Ends, Call!OnRequest(e)
  PROVE  CallInv'
<1> DEFINE m == Head(callNet[e])
<1>1. /\ callNet[e] # <<>> /\ m.is = "request"
      /\ callNet' = [callNet EXCEPT ![e] = Tail(callNet[e])]
      /\ UNCHANGED <<callBound, main, syncTask, task, serving, firstAnswer>>
      /\ \/ callQueue' = [callQueue EXCEPT ![e] = Append(callQueue[e], m)]
         \/ callQueue' = callQueue
  BY DEF Call!OnRequest
<1>2. /\ callNet[e] \in Seq(CallMessage) /\ callQueue[e] \in Seq(CallMessage)
      /\ CallAbout(e) /\ CallHolds(e)
      /\ \A i \in 1 .. Len(task[e]) : task[e][i] \in CallTask
  BY CallAt
<1>3. Tail(callNet[e]) \in Seq(CallMessage) /\ m \in CallMessage
  BY <1>1, <1>2, ReplyTail
<1>4. /\ AboutTasks(Tail(callNet[e]), task[e], task[Other(e)])
      /\ AboutTasks(Append(callQueue[e], m), task[e], task[Other(e)])
  BY <1>1, <1>2, <1>3, AboutChanged DEF CallAbout
<1>5. \A i : ~Replies(m, i)
  BY <1>1 DEF Replies
<1>6. /\ callNet' \in [Ends -> Seq(CallMessage)] /\ callNet'[e] = Tail(callNet[e])
      /\ \A g \in Ends \ {e} : callNet'[g] = callNet[g]
  BY <1>1, <1>3 DEF CallInv, CallTypes
<1>7. /\ callQueue' \in [Ends -> Seq(CallMessage)]
      /\ callQueue'[e] = Append(callQueue[e], m) \/ callQueue'[e] = callQueue[e]
      /\ \A g \in Ends \ {e} : callQueue'[g] = callQueue[g]
  <2>1. Append(callQueue[e], m) \in Seq(CallMessage)
    BY <1>2, <1>3, AppendProperties
  <2>2. callQueue \in [Ends -> Seq(CallMessage)]
    BY DEF CallInv, CallTypes
  <2>3. CASE callQueue' = [callQueue EXCEPT ![e] = Append(callQueue[e], m)]
    BY <2>1, <2>2, <2>3
  <2>4. CASE callQueue' = callQueue
    BY <2>2, <2>4
  <2> QED BY <2>3, <2>4, <1>1
<1>8. ASSUME NEW i \in 1 .. Len(task[e])
      PROVE  TaskHolds(task[e][i], i, callQueue'[e], Tail(callNet[e]),
                       firstAnswer[Other(e)][i], callBound[e])
  <2>1. TaskHolds(task[e][i], i, callQueue[e], callNet[e], firstAnswer[Other(e)][i], callBound[e])
    BY <1>2 DEF CallHolds
  <2>2. /\ TaskHolds(task[e][i], i, callQueue[e], Tail(callNet[e]), firstAnswer[Other(e)][i],
                     callBound[e])
        /\ TaskHolds(task[e][i], i, Append(callQueue[e], m), Tail(callNet[e]),
                     firstAnswer[Other(e)][i], callBound[e])
    BY <2>1, <1>1, <1>2, <1>5, HoldsNetTail
  <2>3. CASE callQueue'[e] = callQueue[e]
    BY <2>2, <2>3
  <2>4. CASE callQueue'[e] = Append(callQueue[e], m)
    BY <2>2, <2>4
  <2> QED BY <2>3, <2>4, <1>7
<1>9. ASSUME NEW g \in Ends
      PROVE  CallMain(g)' /\ CallAbout(g)' /\ CallHolds(g)'
  <2>1. CallMain(g) /\ CallAbout(g) /\ CallHolds(g)
    BY CallAt
  <2>2. CASE g = e
    <3>1. CallMain(g)'
      BY <2>1, <1>1 DEF CallMain
    <3>2. CallAbout(g)'
      BY <2>1, <2>2, <1>1, <1>4, <1>6, <1>7 DEF CallAbout
    <3>3. CallHolds(g)'
      BY <2>2, <1>1, <1>6, <1>8 DEF CallHolds
    <3> QED BY <3>1, <3>2, <3>3
  <2>3. CASE g # e
    BY <2>1, <2>3, <1>1, <1>6, <1>7 DEF CallMain, CallAbout, CallHolds
  <2> QED BY <2>2, <2>3
<1>10. CallTypes'
  BY <1>1, <1>6, <1>7 DEF CallInv, CallTypes
<1> QED BY <1>9, <1>10 DEF CallInv

\* The default scheduler's thread hands an answer to its task.
LEMMA CallRunResponseStep ==
  ASSUME CallInv, NEW e \in Ends, Call!RunResponse(e)
  PROVE  CallInv'
<1> DEFINE m == Head(callQueue[e])
           n == m.task
<1>1. /\ callQueue[e] # <<>> /\ m.is = "response"
      /\ callQueue' = [callQueue EXCEPT ![e] = Tail(callQueue[e])]
      /\ task' = [task EXCEPT ![e][n] = Call!WithResult(@, m.result)]
      /\ UNCHANGED <<callBound, main, syncTask, callNet, serving, firstAnswer>>
  BY DEF Call!RunResponse
<1>2. /\ callQueue[e] \in Seq(CallMessage) /\ CallAbout(e) /\ CallHolds(e)
      /\ \A i \in 1 .. Len(task[e]) : task[e][i] \in CallTask
  BY CallAt
<1>3. Tail(callQueue[e]) \in Seq(CallMessage) /\ m \in CallMessage /\ m.result \in Call!Results
  BY <1>1, <1>2, ReplyTail DEF CallMessage
<1>4. n \in 1 .. Len(task[e]) /\ AboutTasks(Tail(callQueue[e]), task[e], task[Other(e)])
  BY <1>1, <1>2, AboutChanged DEF CallAbout
<1>5. \A i : Replies(m, i) <=> i = n
  BY <1>1 DEF Replies
<1>6. /\ callQueue' \in [Ends -> Seq(CallMessage)] /\ callQueue'[e] = Tail(callQueue[e])
      /\ \A g \in Ends \ {e} : callQueue'[g] = callQueue[g]
  BY <1>1, <1>3 DEF CallInv, CallTypes
<1>7. \A i \in 1 .. Len(task[e]) :
        TaskHolds(task[e][i], i, callQueue[e], callNet[e], firstAnswer[Other(e)][i], callBound[e])
  BY <1>2 DEF CallHolds
<1> HIDE DEF m, n
<1>8. /\ task' \in [Ends -> Seq(CallTask)]
      /\ \A g \in Ends \ {e} : task'[g] = task[g]
      /\ \A g \in Ends : Len(task'[g]) = Len(task[g]) /\ CallMain(g)'
      /\ task'[e][n] = Call!WithResult(task[e][n], m.result)
      /\ \A i \in 1 .. Len(task[e]) \ {n} : task'[e][i] = task[e][i]
  BY <1>1, <1>3, <1>4, CallAssigned
<1>9. ASSUME NEW g \in Ends
      PROVE  CallAbout(g)'
  <2>1. CallAbout(g) /\ Other(g) \in Ends
    BY CallAt, CallEnds
  <2>2. AboutTasks(callQueue'[g], task[g], task[Other(g)])
    BY <2>1, <1>4, <1>6 DEF CallAbout
  <2> QED BY <2>1, <2>2, <1>1, <1>8 DEF CallAbout, AboutTasks, AboutServed
<1>10. ASSUME NEW i \in 1 .. Len(task[e])
       PROVE  TaskHolds(task'[e][i], i, Tail(callQueue[e]), callNet[e],
                        firstAnswer[Other(e)][i], callBound[e])
  <2>1. CASE i = n
    <3>1. TaskHolds(Call!WithResult(task[e][n], m.result), n, Tail(callQueue[e]), callNet[e],
                    firstAnswer[Other(e)][n], callBound[e])
      BY <1>1, <1>2, <1>4, <1>5, <1>7, HoldsQueue DEF m
    <3> QED BY <3>1, <2>1, <1>8
  <2>2. CASE i # n
    BY <2>2, <1>1, <1>2, <1>5, <1>7, <1>8, HoldsQueue DEF m
  <2> QED BY <2>1, <2>2
<1>11. ASSUME NEW g \in Ends
       PROVE  CallHolds(g)'
  <2>1. CASE g = e
    BY <2>1, <1>1, <1>6, <1>8, <1>10 DEF CallHolds
  <2>2. CASE g # e
    BY <2>2, <1>1, <1>6, <1>8, CallAt DEF CallHolds
  <2> QED BY <2>1, <2>2
<1>12. CallTypes'
  BY <1>1, <1>6, <1>8 DEF CallInv, CallTypes
<1> QED BY <1>8, <1>9, <1>11, <1>12 DEF CallInv

\* End e answers the k-th call of the other end.
LEMMA CallAnswered ==
  ASSUME CallInv, NEW e \in Ends, NEW k \in 1 .. Len(task[Other(e)]), NEW r \in Call!Results,
         NEW s \in {"answered", "finished"},
         callNet' = [callNet EXCEPT ![Other(e)] = Append(@, Call!Response(k, r))],
         firstAnswer' = IF firstAnswer[e][k] = Call!NoResult
                        THEN [firstAnswer EXCEPT ![e][k] = r] ELSE firstAnswer,
         serving' = [serving EXCEPT ![e][k] = s],
         UNCHANGED <<callBound, task>>, callQueue'[Other(e)] = callQueue[Other(e)]
  PROVE  /\ callNet' \in [Ends -> Seq(CallMessage)] /\ callNet'[e] = callNet[e]
         /\ firstAnswer' \in [Ends -> [Call!Numbers -> Call!Results \cup {Call!NoResult}]]
         /\ serving' \in [Ends -> [Call!Numbers -> {"no", "pending", "answered", "finished"}]]
         /\ firstAnswer'[Other(e)] = firstAnswer[Other(e)]
         /\ AboutServed(serving'[e], firstAnswer'[e], task[Other(e)])
         /\ CallAbout(Other(e))' /\ CallHolds(Other(e))'
<1> DEFINE f == Other(e)
           m == Call!Response(k, r)
<1>1. f \in Ends /\ f # e /\ Other(f) = e
  BY CallEnds
<1> HIDE DEF f
<1>2. /\ callNet[f] \in Seq(CallMessage) /\ callQueue[f] \in Seq(CallMessage)
      /\ CallAbout(f) /\ CallHolds(f) /\ CallAbout(e) /\ Len(task[f]) \in Nat
      /\ serving[e] \in [Call!Numbers -> {"no", "pending", "answered", "finished"}]
      /\ firstAnswer[e] \in [Call!Numbers -> Call!Results \cup {Call!NoResult}]
  BY <1>1, CallAt
<1>3. k \in Nat /\ k \in 1 .. Len(task[f]) /\ k \in Call!Numbers
  <2>1. k \in 1 .. Len(task[f])
    BY DEF f
  <2>2. Len(task[f]) <= MaxCalls[f] /\ MaxCalls[f] \in Nat /\ 1 .. MaxCalls[f] \subseteq Call!Numbers
    BY <1>1, CallAt DEF CallMain
  <2> QED BY <2>1, <2>2, <1>2
<1>4. /\ m \in CallMessage /\ m.is = "response" /\ m.task = k /\ m.result = r
      /\ r # Call!NoResult
  BY <1>3 DEF Call!Response, CallMessage, Call!Results, Call!NoResult
<1>5. callNet' = [callNet EXCEPT ![f] = Append(callNet[f], m)]
  BY DEF f
<1> HIDE DEF m
<1>6. callNet' \in [Ends -> Seq(CallMessage)] /\ callNet'[e] = callNet[e]
      /\ callNet'[f] = Append(callNet[f], m)
  BY <1>1, <1>2, <1>4, <1>5, AppendProperties DEF CallInv, CallTypes
<1>7. /\ firstAnswer' \in [Ends -> [Call!Numbers -> Call!Results \cup {Call!NoResult}]]
      /\ firstAnswer'[f] = firstAnswer[f]
      /\ \A n \in Call!Numbers : firstAnswer'[e][n] =
           IF n = k /\ firstAnswer[e][n] = Call!NoResult THEN r ELSE firstAnswer[e][n]
  BY <1>1, <1>2, <1>3 DEF CallInv, CallTypes
<1>8. /\ serving' \in [Ends -> [Call!Numbers -> {"no", "pending", "answered", "finished"}]]
      /\ serving'[f] = serving[f]
      /\ \A n \in Call!Numbers : serving'[e][n] = IF n = k THEN s ELSE serving[e][n]
  BY <1>1, <1>2, <1>3 DEF CallInv, CallTypes
<1>9. AboutServed(serving'[e], firstAnswer'[e], task[f])
  <2>1. AboutServed(serving[e], firstAnswer[e], task[f])
    BY <1>2 DEF CallAbout, f
  <2> QED BY <2>1, <1>3, <1>4, <1>7, <1>8 DEF AboutServed
<1>10. CallAbout(f)'
  <2>1. k \in 1 .. IF m.is = "response" THEN Len(task[f]) ELSE Len(task[e])
    BY <1>3, <1>4
  <2>2. AboutTasks(Append(callNet[f], m), task[f], task[e])
    BY <2>1, <1>1, <1>2, <1>4, AboutChanged DEF CallAbout
  <2> QED BY <2>2, <1>1, <1>2, <1>6, <1>7, <1>8 DEF CallAbout, f
<1>11. CallHolds(f)'
  <2>1. ASSUME NEW n \in 1 .. Len(task[f])
        PROVE  TaskHolds(task[f][n], n, callQueue[f], callNet'[f], firstAnswer'[e][n], callBound[f])
    <3>1. TaskHolds(task[f][n], n, callQueue[f], callNet[f], firstAnswer[e][n], callBound[f])
      BY <1>1, <1>2 DEF CallHolds
    <3>2. Replies(m, n) <=> n = k
      BY <1>4 DEF Replies
    <3>3. TaskHolds(task[f][n], n, callQueue[f], Append(callNet[f], m),
                    IF Replies(m, n) /\ firstAnswer[e][n] = Call!NoResult THEN m.result
                    ELSE firstAnswer[e][n], callBound[f])
      BY <3>1, <1>2, <1>4, HoldsNetGrows
    <3>4. n \in Call!Numbers
      <4>1. Len(task[f]) <= MaxCalls[f] /\ MaxCalls[f] \in Nat
            /\ 1 .. MaxCalls[f] \subseteq Call!Numbers
        BY <1>1, CallAt DEF CallMain
      <4> QED BY <4>1, <1>2
    <3>5. firstAnswer'[e][n] = IF Replies(m, n) /\ firstAnswer[e][n] = Call!NoResult THEN m.result
                               ELSE firstAnswer[e][n]
      BY <3>2, <3>4, <1>4, <1>7
    <3> QED BY <3>3, <3>5, <1>6
  <2> QED BY <2>1, <1>1 DEF CallHolds, f
<1> QED BY <1>6, <1>7, <1>8, <1>9, <1>10, <1>11 DEF f

\* The default scheduler's thread runs the handler of a request.
LEMMA CallRunRequestStep ==
  ASSUME CallInv, NEW e \in Ends, Call!RunRequest(e)
  PROVE  CallInv'
<1> DEFINE m == Head(callQueue[e])
           k == m.task
           f == Other(e)
<1>0. f \in Ends /\ f # e /\ Other(f) = e /\ Call!Other(e) = f /\ \A g \in Ends : g = e \/ g = f
  BY CallEnds
<1> HIDE DEF f
<1>1. /\ callQueue[e] # <<>> /\ m.is = "request"
      /\ callQueue' = [callQueue EXCEPT ![e] = Tail(callQueue[e])]
      /\ UNCHANGED <<callBound, main, syncTask, task>>
      /\ \/ UNCHANGED <<serving, callNet, firstAnswer>>
         \/ \E r \in Call!Results : Call!Answer(e, k, r)
         \/ /\ serving' = [serving EXCEPT ![e][k] = "pending"]
            /\ UNCHANGED <<callNet, firstAnswer>>
  BY DEF Call!RunRequest
<1>2. /\ callQueue[e] \in Seq(CallMessage) /\ CallMain(e) /\ CallAbout(e) /\ CallHolds(e)
      /\ \A i \in 1 .. Len(task[e]) : task[e][i] \in CallTask
      /\ CallMain(f) /\ CallAbout(f) /\ CallHolds(f)
      /\ Len(task[f]) \in Nat /\ MaxCalls[f] \in Nat /\ 1 .. MaxCalls[f] \subseteq Call!Numbers
  BY <1>0, CallAt
<1>3. Tail(callQueue[e]) \in Seq(CallMessage) /\ m \in CallMessage
  BY <1>1, <1>2, ReplyTail
<1>4. /\ k \in 1 .. Len(task[f]) /\ AboutTasks(Tail(callQueue[e]), task[e], task[f])
      /\ k \in Call!Numbers
  <2>1. k \in 1 .. Len(task[f]) /\ AboutTasks(Tail(callQueue[e]), task[e], task[f])
    BY <1>1, <1>2, AboutChanged DEF CallAbout, f
  <2> QED BY <2>1, <1>2 DEF CallMain
<1>5. \A i : ~Replies(m, i)
  BY <1>1 DEF Replies
<1>6. /\ callQueue' \in [Ends -> Seq(CallMessage)] /\ callQueue'[e] = Tail(callQueue[e])
      /\ callQueue'[f] = callQueue[f]
  BY <1>0, <1>1, <1>3 DEF CallInv, CallTypes
<1>7. ASSUME NEW i \in 1 .. Len(task[e])
      PROVE  TaskHolds(task[e][i], i, callQueue'[e], callNet[e], firstAnswer[f][i], callBound[e])
  <2>1. TaskHolds(task[e][i], i, callQueue[e], callNet[e], firstAnswer[f][i], callBound[e])
    BY <1>2 DEF CallHolds, f
  <2> QED BY <2>1, <1>1, <1>2, <1>5, <1>6, HoldsQueue
<1> HIDE DEF m, k
<1>8. /\ callNet' \in [Ends -> Seq(CallMessage)] /\ callNet'[e] = callNet[e]
      /\ firstAnswer' \in [Ends -> [Call!Numbers -> Call!Results \cup {Call!NoResult}]]
      /\ serving' \in [Ends -> [Call!Numbers -> {"no", "pending", "answered", "finished"}]]
      /\ firstAnswer'[f] = firstAnswer[f]
      /\ AboutServed(serving'[e], firstAnswer'[e], task[f])
      /\ CallAbout(f)' /\ CallHolds(f)'
  <2>1. CASE \E r \in Call!Results : Call!Answer(e, k, r)
    <3>1. PICK r \in Call!Results : Call!Answer(e, k, r)
      BY <2>1
    <3>2. /\ serving' = [serving EXCEPT ![e][k] = "answered"]
          /\ callNet' = [callNet EXCEPT ![f] = Append(@, Call!Response(k, r))]
          /\ firstAnswer' = IF firstAnswer[e][k] = Call!NoResult
                            THEN [firstAnswer EXCEPT ![e][k] = r] ELSE firstAnswer
      BY <3>1, <1>0 DEF Call!Answer
    <3> QED BY <3>2, <1>1, <1>4, <1>6, CallAnswered DEF f
  <2>2. CASE UNCHANGED <<callNet, firstAnswer>>
             /\ (serving' = serving \/ serving' = [serving EXCEPT ![e][k] = "pending"])
    <3>1. /\ serving' \in [Ends -> [Call!Numbers -> {"no", "pending", "answered", "finished"}]]
          /\ serving'[f] = serving[f]
          /\ \A n \in Call!Numbers : serving'[e][n] = serving[e][n]
                                     \/ (n = k /\ serving'[e][n] = "pending")
      <4>1. serving \in [Ends -> [Call!Numbers -> {"no", "pending", "answered", "finished"}]]
        BY DEF CallInv, CallTypes
      <4>2. CASE serving' = serving
        BY <4>1, <4>2
      <4>3. CASE serving' = [serving EXCEPT ![e][k] = "pending"]
        BY <4>1, <4>3, <1>0, <1>4
      <4> QED BY <4>2, <4>3, <2>2
    <3>2. AboutServed(serving[e], firstAnswer[e], task[f])
      BY <1>2 DEF CallAbout, f
    <3>3. AboutServed(serving'[e], firstAnswer'[e], task[f])
      BY <3>1, <3>2, <2>2, <1>4 DEF AboutServed
    <3>4. CallAbout(f)' /\ CallHolds(f)'
      BY <3>1, <2>2, <1>0, <1>1, <1>2, <1>6 DEF CallAbout, CallHolds
    <3> QED BY <3>1, <3>3, <3>4, <2>2 DEF CallInv, CallTypes
  <2> QED BY <2>1, <2>2, <1>1
<1>9. CallMain(e)' /\ CallMain(f)'
  BY <1>1, <1>2 DEF CallMain
<1>10. CallAbout(e)'
  BY <1>1, <1>2, <1>4, <1>6, <1>8 DEF CallAbout, f
<1>11. CallHolds(e)'
  BY <1>1, <1>7, <1>8 DEF CallHolds, f
<1>12. CallTypes'
  BY <1>1, <1>6, <1>8 DEF CallInv, CallTypes
<1> QED BY <1>0, <1>8, <1>9, <1>10, <1>11, <1>12 DEF CallInv

\* A handler's task finishes, for the first time or again.
LEMMA CallFinishStep ==
  ASSUME CallInv, NEW e \in Ends, NEW k \in Call!Numbers, Call!Finish(e, k) \/ Call!FinishAgain(e, k)
  PROVE  CallInv'
<1> DEFINE f == Other(e)
<1>0. f \in Ends /\ f # e /\ Other(f) = e /\ Call!Other(e) = f /\ \A g \in Ends : g = e \/ g = f
  BY CallEnds
<1> HIDE DEF f
<1>1. /\ serving[e][k] \in {"pending", "answered"}
      /\ UNCHANGED <<callBound, main, syncTask, task, callQueue>>
  BY DEF Call!Finish, Call!FinishAgain
<1>2. /\ CallMain(e) /\ CallAbout(e) /\ CallHolds(e)
      /\ CallMain(f) /\ CallAbout(f) /\ CallHolds(f)
      /\ AboutServed(serving[e], firstAnswer[e], task[f])
  BY <1>0, CallAt DEF CallAbout, f
<1>3. k \in 1 .. Len(task[f])
  BY <1>1, <1>2 DEF AboutServed
<1>4. /\ callNet' \in [Ends -> Seq(CallMessage)] /\ callNet'[e] = callNet[e]
      /\ firstAnswer' \in [Ends -> [Call!Numbers -> Call!Results \cup {Call!NoResult}]]
      /\ serving' \in [Ends -> [Call!Numbers -> {"no", "pending", "answered", "finished"}]]
      /\ firstAnswer'[f] = firstAnswer[f]
      /\ AboutServed(serving'[e], firstAnswer'[e], task[f])
      /\ CallAbout(f)' /\ CallHolds(f)'
  <2>1. CASE \E r \in Call!Results : Call!Answer(e, k, r)
    <3>1. PICK r \in Call!Results : Call!Answer(e, k, r)
      BY <2>1
    <3>2. /\ serving' = [serving EXCEPT ![e][k] = "answered"]
          /\ callNet' = [callNet EXCEPT ![f] = Append(@, Call!Response(k, r))]
          /\ firstAnswer' = IF firstAnswer[e][k] = Call!NoResult
                            THEN [firstAnswer EXCEPT ![e][k] = r] ELSE firstAnswer
      BY <3>1, <1>0 DEF Call!Answer
    <3> QED BY <3>2, <1>1, <1>3, CallAnswered DEF f
  <2>2. CASE Call!FinishAgain(e, k)
    <3>1. PICK r \in Call!Results : callNet' = [callNet EXCEPT ![f] = Append(@, Call!Response(k, r))]
      BY <2>2, <1>0 DEF Call!FinishAgain
    <3>2. firstAnswer[e][k] # Call!NoResult
      BY <2>2, <1>2 DEF AboutServed, Call!FinishAgain
    <3>3. /\ serving' = [serving EXCEPT ![e][k] = "finished"]
          /\ firstAnswer' = IF firstAnswer[e][k] = Call!NoResult
                            THEN [firstAnswer EXCEPT ![e][k] = r] ELSE firstAnswer
      BY <3>2, <2>2 DEF Call!FinishAgain
    <3> QED BY <3>1, <3>3, <1>1, <1>3, CallAnswered DEF f
  <2>3. CASE serving' = [serving EXCEPT ![e][k] = "finished"] /\ UNCHANGED <<callNet, firstAnswer>>
    <3>1. /\ serving' \in [Ends -> [Call!Numbers -> {"no", "pending", "answered", "finished"}]]
          /\ serving'[f] = serving[f]
          /\ \A n \in Call!Numbers : serving'[e][n] = IF n = k THEN "finished" ELSE serving[e][n]
      BY <2>3, <1>0 DEF CallInv, CallTypes
    <3>2. AboutServed(serving'[e], firstAnswer'[e], task[f])
      BY <3>1, <2>3, <1>2, <1>3 DEF AboutServed
    <3>3. CallAbout(f)' /\ CallHolds(f)'
      BY <3>1, <2>3, <1>0, <1>1, <1>2 DEF CallAbout, CallHolds
    <3> QED BY <3>1, <3>2, <3>3, <2>3 DEF CallInv, CallTypes
  <2> QED BY <2>1, <2>2, <2>3 DEF Call!Finish
<1>5. CallMain(e)' /\ CallMain(f)'
  BY <1>1, <1>2 DEF CallMain
<1>6. CallAbout(e)'
  BY <1>1, <1>2, <1>4 DEF CallAbout, f
<1>7. CallHolds(e)'
  BY <1>1, <1>2, <1>4 DEF CallHolds, f
<1>8. CallTypes'
  BY <1>1, <1>4 DEF CallInv, CallTypes
<1> QED BY <1>0, <1>4, <1>5, <1>6, <1>7, <1>8 DEF CallInv

\* The beginning, and every step, of calls.
LEMMA CallInit == ASSUME Call!Init PROVE CallInv
<1>1. CallTypes
  <2>1. <<>> \in Seq(CallTask) /\ <<>> \in Seq(CallMessage)
    BY EmptySeq
  <2> QED BY <2>1 DEF CallTypes, Call!Init
<1>2. ASSUME NEW e \in Ends
      PROVE  CallMain(e) /\ CallAbout(e) /\ CallHolds(e)
  <2>1. /\ Len(task[e]) = 0 /\ Len(callQueue[e]) = 0 /\ Len(callNet[e]) = 0
        /\ MaxCalls[e] \in Nat
    BY EntitiesAssumption DEF Call!Init, Call!CallAssumption
  <2>2. CallMain(e)
    BY <2>1 DEF CallMain, Call!Init
  <2>3. CallAbout(e)
    BY <2>1 DEF CallAbout, AboutTasks, AboutServed, Call!Init
  <2>4. CallHolds(e)
    BY <2>1 DEF CallHolds
  <2> QED BY <2>2, <2>3, <2>4
<1> QED BY <1>1, <1>2 DEF CallInv

\* Every step of calls.
LEMMA CallStep ==
  ASSUME CallInv, [Call!Next]_(Call!callVars)
  PROVE  CallInv'
<1>1. CASE UNCHANGED Call!callVars
  BY <1>1 DEF CallInv, CallTypes, CallMain, CallAbout, CallHolds, Call!callVars
<1>2. ASSUME NEW e \in Ends,
             \/ Call!Start(e) \/ Call!Sync(e) \/ Call!SyncRefused(e) \/ Call!Terminate(e)
             \/ Call!SyncThread(e) \/ Call!WireThread(e) \/ Call!DefaultThread(e)
             \/ \E n \in Call!Numbers :
                  Call!Release(e, n) \/ Call!Finish(e, n) \/ Call!FinishAgain(e, n)
      PROVE  CallInv'
  <2>1. CASE Call!Start(e)
    BY <2>1, CallStartStep
  <2>2. CASE Call!Sync(e)
    BY <2>2, CallSyncStep
  <2>3. CASE Call!SyncRefused(e)
    BY <2>3, CallRefusedStep
  <2>4. CASE Call!Terminate(e)
    BY <2>4, CallTerminateStep
  <2>5. CASE Call!SyncThread(e)
    BY <2>5, CallSyncThreadStep
  <2>6. CASE Call!OnResponse(e)
    BY <2>6, CallOnResponseStep
  <2>7. CASE Call!OnRequest(e)
    BY <2>7, CallOnRequestStep
  <2>8. CASE Call!RunResponse(e)
    BY <2>8, CallRunResponseStep
  <2>9. CASE Call!RunRequest(e)
    BY <2>9, CallRunRequestStep
  <2>10. ASSUME NEW n \in Call!Numbers,
                Call!Release(e, n) \/ Call!Finish(e, n) \/ Call!FinishAgain(e, n)
         PROVE  CallInv'
    BY <2>10, CallReleaseStep, CallFinishStep
  <2> QED BY <1>2, <2>1, <2>2, <2>3, <2>4, <2>5, <2>6, <2>7, <2>8, <2>9, <2>10
          DEF Call!WireThread, Call!DefaultThread
<1> QED BY <1>1, <1>2 DEF Call!Next

\* What follows for whoever calls.
LEMMA CallMeans == ASSUME CallInv PROVE Call!TypeOK /\ AnsweredOnce
<1>1. Call!TypeOK
  <2>1. /\ callBound \in [Ends -> BOOLEAN]
        /\ syncTask \in [Ends -> Call!Numbers \cup {Call!NoTask}]
        /\ serving \in [Ends -> [Call!Numbers -> {"no", "pending", "answered", "finished"}]]
        /\ firstAnswer \in [Ends -> [Call!Numbers -> Call!Results \cup {Call!NoResult}]]
    BY DEF CallInv, CallTypes
  <2>2. ASSUME NEW e \in Ends
        PROVE  /\ task[e] \in Seq([alive : BOOLEAN, subscribed : BOOLEAN, sync : BOOLEAN,
                                   result : Call!Results \cup {Call!NoResult}])
               /\ Len(task[e]) <= MaxCalls[e]
               /\ main[e] # Call!NoTask => /\ main[e] = syncTask[e]
                                           /\ task[e][main[e]].alive /\ task[e][main[e]].sync
               /\ syncTask[e] \in DOMAIN task[e] \cup {Call!NoTask}
               /\ \A i \in DOMAIN callQueue[e] : callQueue[e][i].is = "response" =>
                                                   ~task[e][callQueue[e][i].task].sync
    <3>1. /\ task[e] \in Seq(CallTask) /\ CallMain(e) /\ CallAbout(e) /\ CallHolds(e)
          /\ DOMAIN task[e] = 1 .. Len(task[e]) /\ callQueue[e] \in Seq(CallMessage)
      BY CallAt
    <3>2. ASSUME NEW i \in DOMAIN callQueue[e], callQueue[e][i].is = "response"
          PROVE  ~task[e][callQueue[e][i].task].sync
      <4>1. i \in 1 .. Len(callQueue[e])
        BY <3>1, LenProperties
      <4>2. callQueue[e][i].task \in 1 .. Len(task[e]) /\ Replies(callQueue[e][i], callQueue[e][i].task)
        BY <4>1, <3>1, <3>2 DEF CallAbout, AboutTasks, Replies
      <4> QED BY <4>1, <4>2, <3>1 DEF CallHolds, TaskHolds, NoneReplies
    <3> QED BY <3>1, <3>2 DEF CallMain, CallTask
  <2> QED BY <2>1, <2>2 DEF Call!TypeOK
<1>2. AnsweredOnce
  <2>1. ASSUME NEW e \in Ends, NEW n \in DOMAIN task[e]
        PROVE  /\ \/ task[e][n].result \in {Call!NoResult, firstAnswer[Other(e)][n]}
                  \/ task[e][n].result = "Cancelled" /\ ~callBound[e]
               /\ ~callBound[e] /\ task[e][n].alive => task[e][n].result # Call!NoResult
               /\ Call!Other(e) = Other(e)
    <3>1. n \in 1 .. Len(task[e]) /\ CallHolds(e) /\ Call!Other(e) = Other(e)
      BY CallAt, CallEnds
    <3>2. TaskHolds(task[e][n], n, callQueue[e], callNet[e], firstAnswer[Other(e)][n], callBound[e])
      BY <3>1 DEF CallHolds
    <3>3. ~callBound[e] /\ task[e][n].alive => task[e][n].result # Call!NoResult
      BY <3>2 DEF TaskHolds
    <3> QED BY <3>1, <3>2, <3>3 DEF TaskHolds
  <2> QED BY <2>1 DEF AnsweredOnce, Call!HoldsFirstAnswer, Call!NoTaskIsLeft
<1> QED BY <1>1, <1>2

\* What a step of the entities is for calls.
LEMMA EntityStepOfCall == [EntityNext]_entityVars => [Call!Next]_(Call!callVars)
BY DEF EntityNext, entityVars, Only, callRest, Call!callVars

----------------------------------------------------------------------------
(***************************************************************************)
(* Interning.                                                              *)
(***************************************************************************)
\* What is sent for a root, what a thread inserts, and what it reads.
RootIntern == [is : {"intern"}, id : Nat, value : Interned]
RootRead == [is : {"message"}, id : Nat, value : Interned, answer : BOOLEAN]
RootMessage == {Root!Owner} \cup RootIntern \cup RootRead
RootInsert ==
  {Root!Nothing} \cup [by : {"writer"}, into : {"mine"}, value : Interned] \cup
  [by : Root!Threads, into : {"others"}, id : Nat, value : Interned]

\* The index k of the list s stands for v.
Stands(s, k, v) == k < Len(s) /\ s[k + 1] = v

\* What an end that has listed a has sent to one that has listed b: a value it has taken into its
\* list, or an index of its own or of the other end's with the value it stands for.
Tells(m, a, b) ==
  /\ m.is = "intern" => \E k \in Nat : m.id = 2 * k /\ Stands(a, k, m.value)
  /\ m.is = "message" => \E k \in Nat : \/ m.id = 2 * k /\ Stands(a, k, m.value)
                                        \/ m.id = 2 * k + 1 /\ Stands(b, k, m.value)

\* Whether one of the first n messages of s tells what the index stands for; whether the end that
\* has the others' values O finds it, it being one of its own or one it has been told; and
\* whether it is being told.
Teaches(m, id) == m.is = "intern" /\ m.id = id
Taught(s, n, id) == \E j \in 1 .. n : Teaches(s[j], id)
Finds(O, id) == (\E k \in Nat : id = 2 * k + 1) \/ (\E k \in DOMAIN O : id = 2 * k)
Takes(ins, id) == ins.into = "others" /\ ins.id = id + 1

\* With N under way to an end, Q queued there and ins being inserted, it finds an index when it
\* comes to a message that is queued, or to one behind the first n of N.
QueueFinds(Q, i, id, O, ins) ==
  Finds(O, id) \/ (Takes(ins, id) /\ ins.by = "default") \/ Taught(Q, i - 1, id)
NetFinds(N, n, id, Q, O, ins) ==
  Finds(O, id) \/ Takes(ins, id) \/ Taught(Q, Len(Q), id) \/ Taught(N, n, id)

\* So it does for each message, and for all that the other end, with the list a, may yet write.
QueueInformed(Q, O, ins) ==
  \A i \in 1 .. Len(Q) : Q[i].is = "message" => QueueFinds(Q, i, Q[i].id, O, ins)
NetInformed(N, Q, O, ins) ==
  \A i \in 1 .. Len(N) : N[i].is = "message" => NetFinds(N, i - 1, N[i].id, Q, O, ins)
ListInformed(a, N, Q, O, ins) ==
  \A k \in Nat : k < Len(a) => NetFinds(N, Len(N), 2 * k, Q, O, ins)
Informed(a, N, Q, O, ins) ==
  QueueInformed(Q, O, ins) /\ NetInformed(N, Q, O, ins) /\ ListInformed(a, N, Q, O, ins)

\* The owner comes to an end that is not bound first and once, and to one that is not at all.
NoOwner(s, n) == \A i \in n + 1 .. Len(s) : s[i].is # "owner"
OwnerComes(b, N, Q) ==
  \/ b /\ NoOwner(N, 0) /\ NoOwner(Q, 0)
  \/ ~b /\ Len(Q) = 0 /\ Len(N) > 0 /\ N[1].is = "owner" /\ NoOwner(N, 1)
  \/ ~b /\ NoOwner(N, 0) /\ Len(Q) > 0 /\ Q[1].is = "owner" /\ NoOwner(Q, 1)

\* The lists of an end: a its own, b the other's, O what it has of b, I its indices.
OwnList(a, I) ==
  /\ \A i, j \in 1 .. Len(a) : a[i] = a[j] => i = j
  /\ \A i \in 1 .. Len(a) : a[i] \in DOMAIN I
Indices(a, O, I) ==
  \A v \in DOMAIN I : \E k \in Nat : \/ I[v] = 2 * k /\ Stands(a, k, v)
                                     \/ I[v] = 2 * k + 1 /\ k \in DOMAIN O /\ O[k] = v
OthersList(b, O) == DOMAIN O \subseteq Nat /\ \A k \in DOMAIN O : Stands(b, k, O[k])
Inserts(ins, b, I) ==
  /\ ins.into = "mine" => ins.value \notin DOMAIN I
  /\ ins.into = "others" => \E k \in Nat : ins.id = 2 * k + 1 /\ Stands(b, k, ins.value)
Lists(a, b, O, I, ins) ==
  OwnList(a, I) /\ Indices(a, O, I) /\ OthersList(b, O) /\ Inserts(ins, b, I)

\* All that is told to an end with the list b by the other end, with the list a.
AllTell(s, a, b) == \A i \in 1 .. Len(s) : Tells(s[i], a, b)

\* What the default scheduler's thread reads is found.
Reads(m, a, b, O) == m # Root!Nothing => Tells(m, a, b) /\ Finds(O, m.id)

\* The types of the variables of interning.
RootTypes ==
  /\ rootBound \in [Ends -> BOOLEAN]
  /\ mine \in [Ends -> Seq(Interned)]
  /\ DOMAIN others = Ends
  /\ DOMAIN inverse = Ends /\ \A e \in Ends : DOMAIN inverse[e] \subseteq Interned
  /\ inserting \in [Ends -> RootInsert]
  /\ rootNet \in [Ends -> Seq(RootMessage)] /\ rootQueue \in [Ends -> Seq(RootMessage)]
  /\ reading \in [Ends -> [Root!Threads -> {Root!Nothing} \cup RootRead]]
  /\ written \in [Ends -> 0 .. MaxMessages]

\* What holds of an end, whose other end is o.
RootEnd(e, o) ==
  /\ Lists(mine[e], mine[o], others[e], inverse[e], inserting[e])
  /\ AllTell(rootNet[e], mine[o], mine[e]) /\ AllTell(rootQueue[e], mine[o], mine[e])
  /\ Informed(mine[o], rootNet[e], rootQueue[e], others[e], inserting[e])
  /\ Reads(reading[e]["default"], mine[o], mine[e], others[e])
  /\ OwnerComes(rootBound[e], rootNet[e], rootQueue[e])
  /\ ~rootBound[e] => /\ mine[e] = <<>> /\ others[e] = Root!EmptyMap
                      /\ inverse[e] = Root!EmptyMap /\ inserting[e] = Root!Nothing

\* The inductive invariant of interning.
RootInv == RootTypes /\ \A e \in Ends : RootEnd(e, Other(e))

\* An index, and the index that the other end has for it.
LEMMA IndexIs ==
  \A k \in Nat : /\ Root!IsIndexOwned(2 * k) /\ ~Root!IsIndexOwned(2 * k + 1)
                 /\ (2 * k) \div 2 = k /\ (2 * k + 1) \div 2 = k
                 /\ Root!Flip(2 * k) = 2 * k + 1 /\ Root!Flip(2 * k + 1) = 2 * k
<1> TAKE k \in Nat
<1>1. (2 * k) % 2 = 0 /\ (2 * k + 1) % 2 = 1
  OBVIOUS
<1>2. (2 * k) \div 2 = k /\ (2 * k + 1) \div 2 = k
  OBVIOUS
<1>3. (2 * k + 1) - 1 = 2 * k
  OBVIOUS
<1> QED BY <1>1, <1>2, <1>3 DEF Root!IsIndexOwned, Root!Flip

\* Two indices of two ends are not the same, and neither are two of one.
LEMMA IndexApart ==
  \A j \in Nat, k \in Nat : 2 * j # 2 * k + 1 /\ (2 * j = 2 * k => j = k) /\ (2 * j + 1 = 2 * k + 1 => j = k)
OBVIOUS

\* The function f with x mapped to y.
LEMMA WithIs ==
  ASSUME NEW f, NEW x, NEW y
  PROVE  /\ DOMAIN Root!With(f, x, y) = DOMAIN f \cup {x}
         /\ Root!With(f, x, y)[x] = y
         /\ \A z \in DOMAIN f : z # x => Root!With(f, x, y)[z] = f[z]
BY DEF Root!With

\* What a list stands for stays, whatever is appended to it.
Continues(b, a) == \A k \in Nat, v \in Interned : Stands(a, k, v) => Stands(b, k, v)

\* What is appended to a list.
LEMMA StandsGrown ==
  ASSUME NEW a \in Seq(Interned), NEW v \in Interned
  PROVE  /\ Continues(Append(a, v), a) /\ Stands(Append(a, v), Len(a), v)
         /\ Len(a) \in Nat /\ Len(Append(a, v)) = Len(a) + 1 /\ Append(a, v) \in Seq(Interned)
         /\ \A i \in 1 .. Len(a) : Append(a, v)[i] = a[i]
         /\ Append(a, v)[Len(a) + 1] = v
<1>1. /\ Len(a) \in Nat /\ Len(Append(a, v)) = Len(a) + 1 /\ Append(a, v) \in Seq(Interned)
      /\ \A i \in 1 .. Len(a) : Append(a, v)[i] = a[i]
      /\ Append(a, v)[Len(a) + 1] = v
  BY AppendProperties, LenProperties
<1>2. Continues(Append(a, v), a)
  <2> SUFFICES ASSUME NEW k \in Nat, NEW w \in Interned, Stands(a, k, w)
               PROVE  Stands(Append(a, v), k, w)
    BY DEF Continues
  <2>1. k < Len(a) /\ k + 1 \in 1 .. Len(a) /\ a[k + 1] = w
    BY <1>1 DEF Stands
  <2> QED BY <2>1, <1>1 DEF Stands
<1>3. Stands(Append(a, v), Len(a), v)
  BY <1>1 DEF Stands
<1> QED BY <1>1, <1>2, <1>3

\* Messages tell the same of lists that have grown.
LEMMA TellsGrown ==
  ASSUME NEW m \in RootMessage, NEW a, NEW b, NEW a2, NEW b2, Continues(a2, a), Continues(b2, b),
         Tells(m, a, b)
  PROVE  Tells(m, a2, b2)
<1>1. m.is = "intern" => m.value \in Interned
  BY DEF RootMessage, RootIntern, RootRead, Root!Owner
<1>2. m.is = "message" => m.value \in Interned
  BY DEF RootMessage, RootIntern, RootRead, Root!Owner
<1>3. ASSUME m.is = "intern"
      PROVE  \E k \in Nat : m.id = 2 * k /\ Stands(a2, k, m.value)
  <2>1. PICK k \in Nat : m.id = 2 * k /\ Stands(a, k, m.value)
    BY <1>3 DEF Tells
  <2> QED BY <2>1, <1>1, <1>3 DEF Continues
<1>4. ASSUME m.is = "message"
      PROVE  \E k \in Nat : \/ m.id = 2 * k /\ Stands(a2, k, m.value)
                            \/ m.id = 2 * k + 1 /\ Stands(b2, k, m.value)
  <2>1. PICK k \in Nat : \/ m.id = 2 * k /\ Stands(a, k, m.value)
                         \/ m.id = 2 * k + 1 /\ Stands(b, k, m.value)
    BY <1>4 DEF Tells
  <2>2. (Stands(a, k, m.value) => Stands(a2, k, m.value)) /\ (Stands(b, k, m.value) => Stands(b2, k, m.value))
    BY <1>2, <1>4 DEF Continues
  <2> QED BY <2>1, <2>2
<1> QED BY <1>3, <1>4 DEF Tells

\* A list goes on itself.
LEMMA ContinuesItself == \A a : Continues(a, a)
BY DEF Continues

\* The same of all that is under way, of what is read, and of what an end has of the other's.
LEMMA AllTellGrown ==
  ASSUME NEW s \in Seq(RootMessage), NEW a, NEW b, NEW a2, NEW b2, Continues(a2, a), Continues(b2, b),
         AllTell(s, a, b)
  PROVE  AllTell(s, a2, b2)
<1>1. \A i \in 1 .. Len(s) : s[i] \in RootMessage
  BY ElementOfSeq
<1> QED BY <1>1, TellsGrown DEF AllTell

\* The same of what is read.
LEMMA ReadsGrown ==
  ASSUME NEW m \in {Root!Nothing} \cup RootRead, NEW a, NEW b, NEW a2, NEW b2,
         Continues(a2, a), Continues(b2, b), NEW O, Reads(m, a, b, O)
  PROVE  Reads(m, a2, b2, O)
<1>1. m # Root!Nothing => m \in RootMessage
  BY DEF RootMessage
<1> QED BY <1>1, TellsGrown DEF Reads

\* The lists of an end when the other end's goes on.
LEMMA ListsGrown ==
  ASSUME NEW a, NEW b, NEW b2, Continues(b2, b), NEW O, NEW I, NEW ins \in RootInsert,
         Lists(a, b, O, I, ins), \A k \in DOMAIN O : O[k] \in Interned
  PROVE  Lists(a, b2, O, I, ins)
<1>1. OthersList(b2, O)
  BY DEF Lists, OthersList, Continues
<1>2. Inserts(ins, b2, I)
  <2>1. ins.into = "others" => ins.value \in Interned
    BY DEF RootInsert, Root!Nothing
  <2> QED BY <2>1 DEF Lists, Inserts, Continues
<1> QED BY <1>1, <1>2 DEF Lists

\* What a message appended to the others, or taken from them, changes.
LEMMA TaughtGrown ==
  ASSUME NEW T, NEW s \in Seq(T), NEW m \in T, NEW id
  PROVE  /\ \A n \in 0 .. Len(s) : Taught(Append(s, m), n, id) <=> Taught(s, n, id)
         /\ Taught(Append(s, m), Len(s) + 1, id) <=> Taught(s, Len(s), id) \/ Teaches(m, id)
<1>1. /\ Len(s) \in Nat /\ \A i \in 1 .. Len(s) : Append(s, m)[i] = s[i]
      /\ Append(s, m)[Len(s) + 1] = m
  BY AppendProperties, LenProperties
<1>2. \A n \in 0 .. Len(s) : \A j \in 1 .. n : Append(s, m)[j] = s[j]
  BY <1>1
<1>3. \A n \in 0 .. Len(s) : Taught(Append(s, m), n, id) <=> Taught(s, n, id)
  BY <1>2 DEF Taught
<1>4. 1 .. Len(s) + 1 = 1 .. Len(s) \cup {Len(s) + 1}
  BY <1>1
<1>5. Taught(Append(s, m), Len(s) + 1, id) <=> Taught(s, Len(s), id) \/ Teaches(m, id)
  BY <1>1, <1>4 DEF Taught
<1> QED BY <1>3, <1>5

\* What is told by what is left when the first is taken.
LEMMA TaughtTail ==
  ASSUME NEW T, NEW s \in Seq(T), s # <<>>, NEW id, NEW n \in 1 .. Len(s)
  PROVE  Taught(s, n, id) <=> Teaches(Head(s), id) \/ Taught(Tail(s), n - 1, id)
<1>1. /\ Head(s) = s[1] /\ Len(s) \in Nat
      /\ Len(Tail(s)) = Len(s) - 1
      /\ \A i \in 1 .. Len(Tail(s)) : Tail(s)[i] = s[i + 1] /\ i + 1 \in 1 .. Len(s)
      /\ \A i \in 2 .. Len(s) : s[i] = Tail(s)[i - 1] /\ i - 1 \in 1 .. Len(Tail(s))
  BY TailAt
<1>2. ASSUME Taught(s, n, id)
      PROVE  Teaches(Head(s), id) \/ Taught(Tail(s), n - 1, id)
  <2>1. PICK j \in 1 .. n : Teaches(s[j], id)
    BY <1>2 DEF Taught
  <2>2. CASE j = 1
    BY <2>1, <2>2, <1>1
  <2>3. CASE j # 1
    <3>1. j \in 2 .. Len(s) /\ j - 1 \in 1 .. n - 1
      BY <2>3, <1>1
    <3> QED BY <3>1, <2>1, <1>1 DEF Taught
  <2> QED BY <2>2, <2>3
<1>3. ASSUME Teaches(Head(s), id)
      PROVE  Taught(s, n, id)
  <2>1. 1 \in 1 .. n
    OBVIOUS
  <2> QED BY <2>1, <1>1, <1>3 DEF Taught
<1>4. ASSUME Taught(Tail(s), n - 1, id)
      PROVE  Taught(s, n, id)
  <2>1. PICK j \in 1 .. n - 1 : Teaches(Tail(s)[j], id)
    BY <1>4 DEF Taught
  <2>2. j + 1 \in 1 .. n /\ j \in 1 .. Len(Tail(s))
    BY <1>1
  <2> QED BY <2>1, <2>2, <1>1 DEF Taught
<1> QED BY <1>2, <1>3, <1>4

\* The index of a message is a number.
LEMMA MessageId == \A m \in RootMessage : m.is \in {"intern", "message"} => m.id \in Nat
BY DEF RootMessage, RootIntern, RootRead, Root!Owner

\* What an end finds when another thread begins or ends what does not concern the other's list.
LEMMA InformedSame ==
  ASSUME NEW a, NEW N, NEW Q, NEW O, NEW ins, NEW ins2, Informed(a, N, Q, O, ins),
         ins.into # "others", ins2.into # "others"
  PROVE  Informed(a, N, Q, O, ins2)
BY DEF Informed, QueueInformed, NetInformed, ListInformed, QueueFinds, NetFinds, Takes

\* What is sent: a message whose index is found behind all the others, or a value and its index.
LEMMA InformedSent ==
  ASSUME NEW a, NEW a2, NEW N \in Seq(RootMessage), NEW Q, NEW O, NEW ins, NEW m \in RootMessage,
         Informed(a, N, Q, O, ins),
         m.is = "message" => NetFinds(N, Len(N), m.id, Q, O, ins),
         \A k \in Nat : k < Len(a2) => k < Len(a) \/ Teaches(m, 2 * k)
  PROVE  Informed(a2, Append(N, m), Q, O, ins)
<1>1. /\ Len(N) \in Nat /\ \A i \in 1 .. Len(N) : Append(N, m)[i] = N[i]
      /\ Append(N, m)[Len(N) + 1] = m /\ Len(Append(N, m)) = Len(N) + 1
  BY AppendProperties, LenProperties
<1>2. \A n \in 0 .. Len(N) : \A id : NetFinds(Append(N, m), n, id, Q, O, ins) <=> NetFinds(N, n, id, Q, O, ins)
  BY TaughtGrown DEF NetFinds
<1>3. \A id : NetFinds(Append(N, m), Len(N) + 1, id, Q, O, ins)
                <=> NetFinds(N, Len(N), id, Q, O, ins) \/ Teaches(m, id)
  BY TaughtGrown DEF NetFinds
<1>4. NetInformed(Append(N, m), Q, O, ins)
  <2> SUFFICES ASSUME NEW i \in 1 .. Len(N) + 1, Append(N, m)[i].is = "message"
               PROVE  NetFinds(Append(N, m), i - 1, Append(N, m)[i].id, Q, O, ins)
    BY <1>1 DEF NetInformed
  <2>1. i - 1 \in 0 .. Len(N)
    BY <1>1
  <2>2. CASE i \in 1 .. Len(N)
    BY <2>1, <2>2, <1>1, <1>2 DEF Informed, NetInformed
  <2>3. CASE i = Len(N) + 1
    <3>1. Append(N, m)[i] = m /\ i - 1 = Len(N)
      BY <2>3, <1>1
    <3> QED BY <3>1, <2>1, <1>2
  <2> QED BY <2>2, <2>3, <1>1
<1>5. ListInformed(a2, Append(N, m), Q, O, ins)
  <2> SUFFICES ASSUME NEW k \in Nat, k < Len(a2)
               PROVE  NetFinds(Append(N, m), Len(N) + 1, 2 * k, Q, O, ins)
    BY <1>1 DEF ListInformed
  <2> QED BY <1>3 DEF Informed, ListInformed
<1> QED BY <1>4, <1>5 DEF Informed

\* What has been inserted for an index is found.
LEMMA InformedLearnt ==
  ASSUME NEW a, NEW N \in Seq(RootMessage), NEW Q \in Seq(RootMessage), NEW O, NEW ins,
         Informed(a, N, Q, O, ins), ins.into = "others",
         NEW k \in Nat, ins.id = 2 * k + 1, NEW O2, DOMAIN O2 = DOMAIN O \cup {k}, NEW ins2
  PROVE  Informed(a, N, Q, O2, ins2)
<1>1. \A id : Finds(O, id) => Finds(O2, id)
  BY DEF Finds
<1>2. \A id \in Nat : Takes(ins, id) => Finds(O2, id)
  <2> SUFFICES ASSUME NEW id \in Nat, Takes(ins, id) PROVE Finds(O2, id)
    OBVIOUS
  <2>1. id = 2 * k
    BY DEF Takes
  <2> QED BY <2>1 DEF Finds
<1>3. (\A i \in 1 .. Len(Q) : Q[i] \in RootMessage) /\ (\A i \in 1 .. Len(N) : N[i] \in RootMessage)
  BY ElementOfSeq
<1>4. QueueInformed(Q, O2, ins2)
  <2> SUFFICES ASSUME NEW i \in 1 .. Len(Q), Q[i].is = "message"
               PROVE  QueueFinds(Q, i, Q[i].id, O2, ins2)
    BY DEF QueueInformed
  <2>1. Q[i].id \in Nat /\ QueueFinds(Q, i, Q[i].id, O, ins)
    BY <1>3, MessageId DEF Informed, QueueInformed
  <2> QED BY <2>1, <1>1, <1>2 DEF QueueFinds
<1>5. NetInformed(N, Q, O2, ins2)
  <2> SUFFICES ASSUME NEW i \in 1 .. Len(N), N[i].is = "message"
               PROVE  NetFinds(N, i - 1, N[i].id, Q, O2, ins2)
    BY DEF NetInformed
  <2>1. N[i].id \in Nat /\ NetFinds(N, i - 1, N[i].id, Q, O, ins)
    BY <1>3, MessageId DEF Informed, NetInformed
  <2> QED BY <2>1, <1>1, <1>2 DEF NetFinds
<1>6. ListInformed(a, N, Q, O2, ins2)
  <2> SUFFICES ASSUME NEW j \in Nat, j < Len(a)
               PROVE  NetFinds(N, Len(N), 2 * j, Q, O2, ins2)
    BY DEF ListInformed
  <2>1. 2 * j \in Nat /\ NetFinds(N, Len(N), 2 * j, Q, O, ins)
    BY DEF Informed, ListInformed
  <2> QED BY <2>1, <1>1, <1>2 DEF NetFinds
<1> QED BY <1>4, <1>5, <1>6 DEF Informed

\* When the first that is under way is taken, what was found behind it still is, provided that
\* it is what is being inserted or queued if it is a value.
LEMMA InformedTaken ==
  ASSUME NEW a, NEW N \in Seq(RootMessage), N # <<>>, NEW Q, NEW Q2, NEW O, NEW ins, NEW ins2,
         Informed(a, N, Q, O, ins), QueueInformed(Q2, O, ins2),
         \A id : Takes(ins, id) => Takes(ins2, id),
         \A id : Taught(Q, Len(Q), id) => Taught(Q2, Len(Q2), id),
         \A id : Teaches(Head(N), id) => Takes(ins2, id) \/ Taught(Q2, Len(Q2), id)
  PROVE  Informed(a, Tail(N), Q2, O, ins2)
<1>1. /\ Len(N) \in Nat /\ Len(N) > 0 /\ Len(Tail(N)) = Len(N) - 1
      /\ \A i \in 1 .. Len(Tail(N)) : Tail(N)[i] = N[i + 1] /\ i + 1 \in 1 .. Len(N)
  BY TailAt
<1>2. ASSUME NEW n \in 1 .. Len(N), NEW id, NetFinds(N, n, id, Q, O, ins)
      PROVE  NetFinds(Tail(N), n - 1, id, Q2, O, ins2)
  BY <1>2, TaughtTail DEF NetFinds
<1>3. NetInformed(Tail(N), Q2, O, ins2)
  <2> SUFFICES ASSUME NEW i \in 1 .. Len(Tail(N)), Tail(N)[i].is = "message"
               PROVE  NetFinds(Tail(N), i - 1, Tail(N)[i].id, Q2, O, ins2)
    BY DEF NetInformed
  <2>1. i \in 1 .. Len(N) /\ (i + 1) - 1 = i
    BY <1>1
  <2>2. NetFinds(N, (i + 1) - 1, N[i + 1].id, Q, O, ins)
    BY <1>1 DEF Informed, NetInformed
  <2> QED BY <2>1, <2>2, <1>1, <1>2
<1>4. ListInformed(a, Tail(N), Q2, O, ins2)
  <2> SUFFICES ASSUME NEW k \in Nat, k < Len(a)
               PROVE  NetFinds(Tail(N), Len(N) - 1, 2 * k, Q2, O, ins2)
    BY <1>1 DEF ListInformed
  <2>1. NetFinds(N, Len(N), 2 * k, Q, O, ins) /\ Len(N) \in 1 .. Len(N)
    BY <1>1 DEF Informed, ListInformed
  <2> QED BY <2>1, <1>2
<1> QED BY <1>3, <1>4 DEF Informed

\* What is first under way is queued, and the wire's thread inserts nothing.
LEMMA InformedQueued ==
  ASSUME NEW a, NEW N \in Seq(RootMessage), N # <<>>, NEW Q \in Seq(RootMessage), NEW O, NEW ins,
         Informed(a, N, Q, O, ins), ins.into = "others" => ins.by = "default"
  PROVE  Informed(a, Tail(N), Append(Q, Head(N)), O, ins)
<1>1. Head(N) = N[1] /\ Head(N) \in RootMessage /\ Len(N) \in Nat /\ 1 \in 1 .. Len(N)
  BY TailAt
<1>2. /\ Len(Q) \in Nat /\ \A i \in 1 .. Len(Q) : Append(Q, Head(N))[i] = Q[i]
      /\ Append(Q, Head(N))[Len(Q) + 1] = Head(N) /\ Len(Append(Q, Head(N))) = Len(Q) + 1
  BY <1>1, AppendProperties, LenProperties
<1>3. \A n \in 0 .. Len(Q) : \A id : Taught(Append(Q, Head(N)), n, id) <=> Taught(Q, n, id)
  BY <1>1, TaughtGrown
<1>4. \A id : Taught(Append(Q, Head(N)), Len(Q) + 1, id) <=> Taught(Q, Len(Q), id) \/ Teaches(Head(N), id)
  BY <1>1, TaughtGrown
<1>5. QueueInformed(Append(Q, Head(N)), O, ins)
  <2> SUFFICES ASSUME NEW i \in 1 .. Len(Q) + 1, Append(Q, Head(N))[i].is = "message"
               PROVE  QueueFinds(Append(Q, Head(N)), i, Append(Q, Head(N))[i].id, O, ins)
    BY <1>2 DEF QueueInformed
  <2>1. i - 1 \in 0 .. Len(Q)
    BY <1>2
  <2>2. CASE i \in 1 .. Len(Q)
    <3>1. QueueFinds(Q, i, Q[i].id, O, ins)
      BY <2>2, <1>2 DEF Informed, QueueInformed
    <3> QED BY <3>1, <2>1, <2>2, <1>2, <1>3 DEF QueueFinds
  <2>3. CASE i = Len(Q) + 1
    <3>1. Append(Q, Head(N))[i] = Head(N) /\ i - 1 = Len(Q)
      BY <2>3, <1>2
    <3>2. NetFinds(N, 1 - 1, Head(N).id, Q, O, ins)
      BY <3>1, <1>1 DEF Informed, NetInformed
    <3>3. ~Taught(N, 1 - 1, Head(N).id)
      BY DEF Taught
    <3> QED BY <3>1, <3>2, <3>3, <2>1, <1>3 DEF NetFinds, QueueFinds, Takes
  <2> QED BY <2>2, <2>3, <1>2
<1>6. \A id : Taught(Q, Len(Q), id) => Taught(Append(Q, Head(N)), Len(Append(Q, Head(N))), id)
  BY <1>2, <1>4
<1>7. \A id : Teaches(Head(N), id) => Taught(Append(Q, Head(N)), Len(Append(Q, Head(N))), id)
  BY <1>2, <1>4
<1> QED BY <1>5, <1>6, <1>7, InformedTaken

\* The wire's thread begins to insert the value that is first under way.
LEMMA InformedBegins ==
  ASSUME NEW a, NEW N \in Seq(RootMessage), N # <<>>, NEW Q, NEW O, NEW ins, NEW ins2,
         Informed(a, N, Q, O, ins), ins.into # "others",
         ins2.into = "others", ins2.id = Head(N).id + 1
  PROVE  Informed(a, Tail(N), Q, O, ins2)
<1>1. QueueInformed(Q, O, ins2)
  BY DEF Informed, QueueInformed, QueueFinds, Takes
<1>2. \A id : Takes(ins, id) => Takes(ins2, id)
  BY DEF Takes
<1>3. \A id : Teaches(Head(N), id) => Takes(ins2, id)
  BY DEF Takes, Teaches
<1> QED BY <1>1, <1>2, <1>3, InformedTaken

\* The wire's thread takes a message.
LEMMA InformedPassed ==
  ASSUME NEW a, NEW N \in Seq(RootMessage), N # <<>>, NEW Q, NEW O, NEW ins,
         Informed(a, N, Q, O, ins), Head(N).is # "intern"
  PROVE  Informed(a, Tail(N), Q, O, ins)
<1>1. \A id : ~Teaches(Head(N), id)
  BY DEF Teaches
<1> QED BY <1>1, InformedTaken DEF Informed

\* The default scheduler's thread takes what is first in its queue; if it is a value, it begins
\* to insert it.
LEMMA InformedRun ==
  ASSUME NEW a, NEW N, NEW Q \in Seq(RootMessage), Q # <<>>, NEW O, NEW ins, NEW ins2,
         Informed(a, N, Q, O, ins),
         \A id : Takes(ins, id) => Takes(ins2, id) /\ (ins.by = "default" => ins2.by = "default"),
         \A id : Teaches(Head(Q), id) => Takes(ins2, id) /\ ins2.by = "default"
  PROVE  Informed(a, N, Tail(Q), O, ins2)
<1>1. /\ Len(Q) \in Nat /\ Len(Q) > 0 /\ Len(Tail(Q)) = Len(Q) - 1
      /\ \A i \in 1 .. Len(Tail(Q)) : Tail(Q)[i] = Q[i + 1] /\ i + 1 \in 1 .. Len(Q)
  BY TailAt
<1>2. QueueInformed(Tail(Q), O, ins2)
  <2> SUFFICES ASSUME NEW i \in 1 .. Len(Tail(Q)), Tail(Q)[i].is = "message"
               PROVE  QueueFinds(Tail(Q), i, Tail(Q)[i].id, O, ins2)
    BY DEF QueueInformed
  <2>1. i \in 1 .. Len(Q) /\ (i + 1) - 1 = i
    BY <1>1
  <2>2. QueueFinds(Q, i + 1, Q[i + 1].id, O, ins)
    BY <1>1 DEF Informed, QueueInformed
  <2>3. Taught(Q, i, Q[i + 1].id) =>
          Teaches(Head(Q), Q[i + 1].id) \/ Taught(Tail(Q), i - 1, Q[i + 1].id)
    BY <2>1, TaughtTail
  <2> QED BY <2>1, <2>2, <2>3, <1>1 DEF QueueFinds
<1>3. \A id : Taught(Q, Len(Q), id) => Teaches(Head(Q), id) \/ Taught(Tail(Q), Len(Tail(Q)), id)
  <2>1. Len(Q) \in 1 .. Len(Q)
    BY <1>1
  <2> QED BY <2>1, <1>1, TaughtTail
<1>4. \A n, id : NetFinds(N, n, id, Q, O, ins) => NetFinds(N, n, id, Tail(Q), O, ins2)
  BY <1>3 DEF NetFinds
<1>5. NetInformed(N, Tail(Q), O, ins2) /\ ListInformed(a, N, Tail(Q), O, ins2)
  BY <1>4 DEF Informed, NetInformed, ListInformed
<1> QED BY <1>2, <1>5 DEF Informed

\* The message that it comes to has an index that is found.
LEMMA InformedRead ==
  ASSUME NEW a, NEW N, NEW Q \in Seq(RootMessage), Q # <<>>, NEW O, NEW ins,
         Informed(a, N, Q, O, ins), Head(Q).is = "message", ins.by # "default"
  PROVE  Finds(O, Head(Q).id)
<1>1. Head(Q) = Q[1] /\ 1 \in 1 .. Len(Q)
  BY TailAt
<1>2. QueueFinds(Q, 1, Q[1].id, O, ins)
  BY <1>1 DEF Informed, QueueInformed
<1>3. ~Taught(Q, 1 - 1, Q[1].id)
  BY DEF Taught
<1> QED BY <1>1, <1>2, <1>3 DEF QueueFinds

\* The owner comes as it did when something else is sent.
LEMMA OwnerSent ==
  ASSUME NEW b \in BOOLEAN, NEW N \in Seq(RootMessage), NEW Q, NEW m \in RootMessage, m.is # "owner",
         OwnerComes(b, N, Q)
  PROVE  OwnerComes(b, Append(N, m), Q)
<1>1. /\ Len(N) \in Nat /\ \A i \in 1 .. Len(N) : Append(N, m)[i] = N[i]
      /\ Append(N, m)[Len(N) + 1] = m /\ Len(Append(N, m)) = Len(N) + 1
  BY AppendProperties, LenProperties
<1>2. \A n \in Nat : NoOwner(N, n) => NoOwner(Append(N, m), n)
  <2> SUFFICES ASSUME NEW n \in Nat, NoOwner(N, n), NEW i \in n + 1 .. Len(N) + 1
               PROVE  Append(N, m)[i].is # "owner"
    BY <1>1 DEF NoOwner
  <2>1. CASE i = Len(N) + 1
    BY <2>1, <1>1
  <2>2. CASE i # Len(N) + 1
    <3>1. i \in n + 1 .. Len(N) /\ i \in 1 .. Len(N)
      BY <2>2, <1>1
    <3> QED BY <3>1, <1>1 DEF NoOwner
  <2> QED BY <2>1, <2>2
<1>3. Len(N) > 0 => Len(Append(N, m)) > 0 /\ Append(N, m)[1] = N[1]
  BY <1>1
<1> QED BY <1>2, <1>3 DEF OwnerComes

\* The first that is under way is queued, or to an end that is bound is not.
LEMMA OwnerReceived ==
  ASSUME NEW b \in BOOLEAN, NEW N \in Seq(RootMessage), NEW Q \in Seq(RootMessage), N # <<>>,
         OwnerComes(b, N, Q)
  PROVE  /\ OwnerComes(b, Tail(N), Append(Q, Head(N)))
         /\ b => OwnerComes(b, Tail(N), Q)
<1>1. /\ Head(N) = N[1] /\ Head(N) \in RootMessage /\ Len(N) \in Nat /\ Len(N) > 0
      /\ Len(Tail(N)) = Len(N) - 1
      /\ \A i \in 1 .. Len(Tail(N)) : Tail(N)[i] = N[i + 1] /\ i + 1 \in 1 .. Len(N)
  BY TailAt
<1>2. /\ Len(Q) \in Nat /\ \A i \in 1 .. Len(Q) : Append(Q, Head(N))[i] = Q[i]
      /\ Append(Q, Head(N))[Len(Q) + 1] = Head(N) /\ Len(Append(Q, Head(N))) = Len(Q) + 1
  BY <1>1, AppendProperties, LenProperties
<1>3. (NoOwner(N, 0) => NoOwner(Tail(N), 0) /\ N[1].is # "owner") /\ (NoOwner(N, 1) => NoOwner(Tail(N), 0))
  <2>1. NoOwner(N, 0) => N[1].is # "owner" /\ NoOwner(N, 1)
    BY <1>1 DEF NoOwner
  <2>2. ASSUME NoOwner(N, 1), NEW i \in 1 .. Len(Tail(N))
        PROVE  Tail(N)[i].is # "owner"
    <3>1. i + 1 \in 1 + 1 .. Len(N)
      BY <1>1
    <3> QED BY <3>1, <2>2, <1>1 DEF NoOwner
  <2> QED BY <2>1, <2>2 DEF NoOwner
<1>4. \A n \in Nat : NoOwner(Q, n) /\ N[1].is # "owner" => NoOwner(Append(Q, Head(N)), n)
  <2> SUFFICES ASSUME NEW n \in Nat, NoOwner(Q, n), N[1].is # "owner", NEW i \in n + 1 .. Len(Q) + 1
               PROVE  Append(Q, Head(N))[i].is # "owner"
    BY <1>2 DEF NoOwner
  <2>1. CASE i = Len(Q) + 1
    BY <2>1, <1>1, <1>2
  <2>2. CASE i # Len(Q) + 1
    <3>1. i \in n + 1 .. Len(Q) /\ i \in 1 .. Len(Q)
      BY <2>2, <1>2
    <3> QED BY <3>1, <1>2 DEF NoOwner
  <2> QED BY <2>1, <2>2
<1>5. CASE b
  BY <1>5, <1>3, <1>4 DEF OwnerComes
<1>6. CASE ~b /\ Len(Q) = 0 /\ N[1].is = "owner" /\ NoOwner(N, 1)
  <2>1. /\ Len(Append(Q, Head(N))) > 0 /\ Append(Q, Head(N))[1] = Head(N)
        /\ \A i \in 1 + 1 .. Len(Append(Q, Head(N))) : FALSE
    BY <1>2, <1>6
  <2> QED BY <2>1, <1>1, <1>3, <1>6 DEF OwnerComes, NoOwner
<1>7. CASE ~b /\ NoOwner(N, 0) /\ Len(Q) > 0 /\ Q[1].is = "owner" /\ NoOwner(Q, 1)
  <2>1. Len(Append(Q, Head(N))) > 0 /\ Append(Q, Head(N))[1] = Q[1]
    BY <1>2, <1>7
  <2> QED BY <2>1, <1>3, <1>4, <1>7 DEF OwnerComes
<1> QED BY <1>5, <1>6, <1>7 DEF OwnerComes

\* The first that is queued is run: it is the owner unless the end is bound.
LEMMA OwnerRun ==
  ASSUME NEW b \in BOOLEAN, NEW N, NEW Q \in Seq(RootMessage), Q # <<>>, OwnerComes(b, N, Q)
  PROVE  /\ Head(Q).is = "owner" <=> ~b
         /\ OwnerComes(TRUE, N, Tail(Q))
<1>1. /\ Head(Q) = Q[1] /\ Len(Q) \in Nat /\ Len(Q) > 0 /\ Len(Tail(Q)) = Len(Q) - 1
      /\ \A i \in 1 .. Len(Tail(Q)) : Tail(Q)[i] = Q[i + 1] /\ i + 1 \in 1 .. Len(Q)
  BY TailAt
<1>2. NoOwner(Q, 0) => Q[1].is # "owner" /\ NoOwner(Q, 1)
  BY <1>1 DEF NoOwner
<1>3. ASSUME NoOwner(Q, 1), NEW i \in 1 .. Len(Tail(Q))
      PROVE  Tail(Q)[i].is # "owner"
  <2>1. i + 1 \in 1 + 1 .. Len(Q)
    BY <1>1
  <2> QED BY <2>1, <1>1, <1>3 DEF NoOwner
<1>4. NoOwner(Q, 1) => NoOwner(Tail(Q), 0)
  BY <1>3 DEF NoOwner
<1> QED BY <1>1, <1>2, <1>4 DEF OwnerComes

\* An end takes a value into its own list, with the next of its indices.
LEMMA ListsOwn ==
  ASSUME NEW a \in Seq(Interned), NEW b, NEW O, NEW I, NEW ins, Lists(a, b, O, I, ins),
         NEW v \in Interned, v \notin DOMAIN I
  PROVE  Lists(Append(a, v), b, O, Root!With(I, v, 2 * Len(a)), Root!Nothing)
<1> DEFINE a2 == Append(a, v)
           I2 == Root!With(I, v, 2 * Len(a))
<1>1. /\ Continues(a2, a) /\ Stands(a2, Len(a), v) /\ Len(a) \in Nat /\ Len(a2) = Len(a) + 1
      /\ \A i \in 1 .. Len(a) : a2[i] = a[i] /\ a[i] \in Interned
      /\ a2[Len(a) + 1] = v
  BY StandsGrown, ElementOfSeq
<1>2. /\ DOMAIN I2 = DOMAIN I \cup {v} /\ I2[v] = 2 * Len(a)
      /\ \A w \in DOMAIN I : I2[w] = I[w]
  BY DEF Root!With
<1> HIDE DEF a2, I2
<1>3. OwnList(a, I) /\ Indices(a, O, I)
  BY DEF Lists
<1>4. OwnList(a2, I2)
  <2>1. ASSUME NEW i \in 1 .. Len(a2)
        PROVE  \/ i = Len(a) + 1 /\ a2[i] = v
               \/ i \in 1 .. Len(a) /\ a2[i] = a[i] /\ a[i] \in DOMAIN I /\ a2[i] # v
    <3>1. CASE i = Len(a) + 1
      BY <3>1, <1>1
    <3>2. CASE i # Len(a) + 1
      <4>1. i \in 1 .. Len(a)
        BY <3>2, <1>1
      <4> QED BY <4>1, <1>1, <1>3 DEF OwnList
    <3> QED BY <3>1, <3>2
  <2>2. \A i, j \in 1 .. Len(a) : a[i] = a[j] => i = j
    BY <1>3 DEF OwnList
  <2>3. \A i, j \in 1 .. Len(a2) : a2[i] = a2[j] => i = j
    BY <2>1, <2>2
  <2>4. \A i \in 1 .. Len(a2) : a2[i] \in DOMAIN I2
    BY <2>1, <1>2
  <2> QED BY <2>3, <2>4 DEF OwnList
<1>5. ASSUME NEW w \in DOMAIN I2
      PROVE  \E k \in Nat : \/ I2[w] = 2 * k /\ Stands(a2, k, w)
                            \/ I2[w] = 2 * k + 1 /\ k \in DOMAIN O /\ O[k] = w
  <2>1. CASE w = v
    BY <2>1, <1>1, <1>2
  <2>2. CASE w # v
    <3>1. w \in DOMAIN I /\ I2[w] = I[w]
      BY <2>2, <1>2
    <3>2. PICK k \in Nat : \/ I[w] = 2 * k /\ Stands(a, k, w)
                           \/ I[w] = 2 * k + 1 /\ k \in DOMAIN O /\ O[k] = w
      BY <3>1, <1>3 DEF Indices
    <3>3. Stands(a, k, w) => Stands(a2, k, w)
      <4> HAVE Stands(a, k, w)
      <4>1. k + 1 \in 1 .. Len(a) /\ a[k + 1] = w
        BY <1>1 DEF Stands
      <4> QED BY <4>1, <1>1 DEF Stands
    <3> QED BY <3>1, <3>2, <3>3
  <2> QED BY <2>1, <2>2
<1>6. OthersList(b, O) /\ Inserts(Root!Nothing, b, I2)
  BY DEF Lists, Inserts, Root!Nothing
<1> QED BY <1>4, <1>5, <1>6 DEF Lists, Indices, a2, I2

\* It takes a value of the other end's in.
LEMMA ListsOthers ==
  ASSUME NEW a, NEW b, NEW O, NEW I, NEW ins, Lists(a, b, O, I, ins),
         NEW k \in Nat, ins.id = 2 * k + 1, Stands(b, k, ins.value)
  PROVE  Lists(a, b, Root!With(O, k, ins.value), Root!With(I, ins.value, ins.id), Root!Nothing)
<1> DEFINE O2 == Root!With(O, k, ins.value)
           I2 == Root!With(I, ins.value, ins.id)
<1>1. /\ DOMAIN O2 = DOMAIN O \cup {k} /\ O2[k] = ins.value
      /\ \A j \in DOMAIN O : j # k => O2[j] = O[j]
  BY DEF Root!With
<1>2. /\ DOMAIN I2 = DOMAIN I \cup {ins.value} /\ I2[ins.value] = ins.id
      /\ \A w \in DOMAIN I : w # ins.value => I2[w] = I[w]
  BY DEF Root!With
<1> HIDE DEF O2, I2
<1>3. OwnList(a, I) /\ Indices(a, O, I) /\ OthersList(b, O)
  BY DEF Lists
<1>4. OwnList(a, I2)
  BY <1>2, <1>3 DEF OwnList
<1>5. OthersList(b, O2)
  BY <1>1, <1>3 DEF OthersList
<1>6. ASSUME NEW w \in DOMAIN I2
      PROVE  \E j \in Nat : \/ I2[w] = 2 * j /\ Stands(a, j, w)
                            \/ I2[w] = 2 * j + 1 /\ j \in DOMAIN O2 /\ O2[j] = w
  <2>1. CASE w = ins.value
    BY <2>1, <1>1, <1>2
  <2>2. CASE w # ins.value
    <3>1. w \in DOMAIN I /\ I2[w] = I[w]
      BY <2>2, <1>2
    <3>2. PICK j \in Nat : \/ I[w] = 2 * j /\ Stands(a, j, w)
                           \/ I[w] = 2 * j + 1 /\ j \in DOMAIN O /\ O[j] = w
      BY <3>1, <1>3 DEF Indices
    <3>3. j \in DOMAIN O /\ O[j] = w => j # k
      BY <2>2, <1>3 DEF OthersList, Stands
    <3> QED BY <3>1, <3>2, <3>3, <1>1
  <2> QED BY <2>1, <2>2
<1>7. Inserts(Root!Nothing, b, I2)
  BY DEF Inserts, Root!Nothing
<1> QED BY <1>4, <1>5, <1>6, <1>7 DEF Lists, Indices, O2, I2

\* What is told by all that is under way when something is sent, or taken.
LEMMA AllTellSent ==
  ASSUME NEW s \in Seq(RootMessage), NEW m \in RootMessage, NEW a, NEW b, AllTell(s, a, b), Tells(m, a, b)
  PROVE  AllTell(Append(s, m), a, b)
<1>1. /\ Len(s) \in Nat /\ \A i \in 1 .. Len(s) : Append(s, m)[i] = s[i]
      /\ Append(s, m)[Len(s) + 1] = m /\ Len(Append(s, m)) = Len(s) + 1
  BY AppendProperties, LenProperties
<1>2. ASSUME NEW i \in 1 .. Len(s) + 1
      PROVE  Tells(Append(s, m)[i], a, b)
  <2>1. CASE i = Len(s) + 1
    BY <2>1, <1>1
  <2>2. CASE i # Len(s) + 1
    <3>1. i \in 1 .. Len(s)
      BY <2>2, <1>1
    <3> QED BY <3>1, <1>1 DEF AllTell
  <2> QED BY <2>1, <2>2
<1> QED BY <1>1, <1>2 DEF AllTell

\* What is told by all that is left, and by the first.
LEMMA AllTellTaken ==
  ASSUME NEW s \in Seq(RootMessage), s # <<>>, NEW a, NEW b, AllTell(s, a, b)
  PROVE  AllTell(Tail(s), a, b) /\ Tells(Head(s), a, b)
<1>1. /\ Head(s) = s[1] /\ 1 \in 1 .. Len(s)
      /\ \A i \in 1 .. Len(Tail(s)) : Tail(s)[i] = s[i + 1] /\ i + 1 \in 1 .. Len(s)
  BY TailAt
<1> QED BY <1>1 DEF AllTell

\* The ends of a root, and the variables at them.
LEMMA RootAt ==
  ASSUME RootInv
  PROVE  /\ Root!Ends = Ends /\ MaxMessages \in Nat
         /\ \A e \in Ends : /\ Other(e) \in Ends /\ Other(e) # e /\ Other(Other(e)) = e
                            /\ Root!Other(e) = Other(e)
                            /\ \A f \in Ends : f = e \/ f = Other(e)
                            /\ RootEnd(e, Other(e)) /\ RootEnd(Other(e), e)
         /\ \A e \in Ends :
              /\ rootBound[e] \in BOOLEAN /\ mine[e] \in Seq(Interned)
              /\ DOMAIN inverse[e] \subseteq Interned
              /\ inserting[e] \in RootInsert
              /\ rootNet[e] \in Seq(RootMessage) /\ rootQueue[e] \in Seq(RootMessage)
              /\ reading[e] \in [Root!Threads -> {Root!Nothing} \cup RootRead]
              /\ written[e] \in 0 .. MaxMessages
<1>1. Root!Ends = Ends /\ MaxMessages \in Nat
  BY EntitiesAssumption DEF Root!InternAssumption, Root!Ends, Ends
<1>2. ASSUME NEW e \in Ends
      PROVE  /\ Other(e) \in Ends /\ Other(e) # e /\ Other(Other(e)) = e
             /\ Root!Other(e) = Other(e)
             /\ \A f \in Ends : f = e \/ f = Other(e)
  BY EntitiesAssumption DEF Root!InternAssumption, Ends, Other, Root!Other
<1>3. RootTypes /\ \A e \in Ends : RootEnd(e, Other(e))
  BY DEF RootInv
<1> QED BY <1>1, <1>2, <1>3 DEF RootTypes

\* The end that a step leaves alone.
LEMMA RootOther ==
  ASSUME RootInv, NEW e \in Ends, mine' = mine,
         others'[e] = others[e], inverse'[e] = inverse[e], inserting'[e] = inserting[e],
         rootNet'[e] = rootNet[e], rootQueue'[e] = rootQueue[e],
         reading'[e]["default"] = reading[e]["default"], rootBound'[e] = rootBound[e]
  PROVE  RootEnd(e, Other(e))'
BY RootAt DEF RootEnd

\* What is inserted.
LEMMA InsertIs ==
  /\ Root!Nothing \in RootInsert /\ Root!Nothing.into = "nothing" /\ Root!Nothing.by = "nobody"
  /\ \A ins \in RootInsert : /\ ins.into \in {"nothing", "mine", "others"}
                             /\ ins.into \in {"mine", "others"} => ins.value \in Interned
                             /\ ins.into = "others" => ins.id \in Nat /\ ins.by \in {"wire", "default"}
  /\ \A v \in Interned : [by |-> "writer", into |-> "mine", value |-> v] \in RootInsert
  /\ \A t \in Root!Threads, id \in Nat, v \in Interned :
       [by |-> t, into |-> "others", id |-> id, value |-> v] \in RootInsert
BY DEF RootInsert, Root!Nothing, Root!Threads

\* A thread begins to intern a value.
LEMMA RootBeginStep ==
  ASSUME RootInv, NEW e \in Ends, NEW v \in Interned, Root!BeginIntern(e, v) PROVE RootInv'
<1> DEFINE o == Other(e)
           ins == [by |-> "writer", into |-> "mine", value |-> v]
<1>1. /\ rootBound[e] /\ inserting[e] = Root!Nothing /\ v \notin DOMAIN inverse[e]
      /\ inserting' = [inserting EXCEPT ![e] = ins]
      /\ UNCHANGED <<rootBound, mine, others, inverse, rootNet, rootQueue, reading, written>>
  BY DEF Root!BeginIntern, Root!LockIsFree
<1>2. ins \in RootInsert /\ ins.into = "mine" /\ ins.value = v
  BY InsertIs
<1> HIDE DEF ins
<1>3. /\ inserting \in [Ends -> RootInsert] /\ inserting' \in [Ends -> RootInsert]
      /\ inserting'[e] = ins /\ \A f \in Ends : f # e => inserting'[f] = inserting[f]
  BY <1>1, <1>2 DEF RootInv, RootTypes
<1>4. RootTypes'
  BY <1>1, <1>3 DEF RootInv, RootTypes
<1>5. RootEnd(e, o)'
  <2>1. RootEnd(e, o) /\ Root!Nothing.into # "others"
    BY InsertIs DEF RootInv
  <2>2. Lists(mine[e], mine[o], others[e], inverse[e], ins)
    BY <1>1, <1>2, <2>1 DEF RootEnd, Lists, Inserts
  <2>3. Informed(mine[o], rootNet[e], rootQueue[e], others[e], ins)
    BY <1>1, <1>2, <2>1, InformedSame DEF RootEnd
  <2> QED BY <1>1, <1>3, <2>1, <2>2, <2>3 DEF RootEnd
<1>6. RootEnd(o, e)'
  BY <1>1, <1>3, RootAt, RootOther
<1> QED BY <1>4, <1>5, <1>6, RootAt DEF RootInv

\* It has sent the value with its index, and lists it.
LEMMA RootEndInternStep ==
  ASSUME RootInv, NEW e \in Ends, Root!EndIntern(e) PROVE RootInv'
<1> DEFINE o == Other(e)
           v == inserting[e].value
           a == mine[e]
           a2 == Append(mine[e], inserting[e].value)
           m == Root!Intern(2 * Len(mine[e]), inserting[e].value)
<1>1. /\ inserting[e].into = "mine"
      /\ mine' = [mine EXCEPT ![e] = a2]
      /\ rootNet' = [rootNet EXCEPT ![o] = Append(@, m)]
      /\ inverse' = [inverse EXCEPT ![e] = Root!With(@, v, 2 * Len(a))]
      /\ inserting' = [inserting EXCEPT ![e] = Root!Nothing]
      /\ UNCHANGED <<rootBound, others, rootQueue, reading, written>>
  BY RootAt DEF Root!EndIntern
<1>2. /\ v \in Interned /\ a \in Seq(Interned) /\ o \in Ends /\ o # e /\ Root!Nothing \in RootInsert
      /\ Root!Nothing.into = "nothing" /\ RootEnd(e, o) /\ RootEnd(o, e) /\ rootBound[o] \in BOOLEAN
      /\ rootNet[e] \in Seq(RootMessage) /\ rootQueue[e] \in Seq(RootMessage)
      /\ rootNet[o] \in Seq(RootMessage) /\ rootQueue[o] \in Seq(RootMessage)
      /\ inserting[o] \in RootInsert
      /\ reading[e]["default"] \in {Root!Nothing} \cup RootRead
      /\ reading[o]["default"] \in {Root!Nothing} \cup RootRead
  BY <1>1, RootAt, InsertIs DEF Root!Threads
<1>3. /\ Continues(a2, a) /\ Stands(a2, Len(a), v) /\ Len(a) \in Nat /\ Len(a2) = Len(a) + 1
      /\ a2 \in Seq(Interned) /\ Continues(mine[o], mine[o])
  BY <1>2, StandsGrown, ContinuesItself
<1>4. m \in RootMessage /\ m.is = "intern" /\ m.id = 2 * Len(a) /\ m.value = v
  BY <1>2, <1>3 DEF Root!Intern, RootMessage, RootIntern
<1>5. rootBound[e]
  BY <1>1, <1>2 DEF RootEnd
<1>6. v \notin DOMAIN inverse[e]
  BY <1>1, <1>2 DEF RootEnd, Lists, Inserts
<1> HIDE DEF o, v, a, a2, m
<1>7. /\ mine \in [Ends -> Seq(Interned)] /\ mine' \in [Ends -> Seq(Interned)]
      /\ mine'[e] = a2 /\ mine'[o] = mine[o]
  BY <1>1, <1>2, <1>3 DEF RootInv, RootTypes
<1>8. /\ Append(rootNet[o], m) \in Seq(RootMessage) /\ rootNet' \in [Ends -> Seq(RootMessage)]
      /\ rootNet'[e] = rootNet[e] /\ rootNet'[o] = Append(rootNet[o], m)
  BY <1>1, <1>2, <1>4, AppendProperties DEF RootInv, RootTypes
<1>9. /\ DOMAIN inverse' = Ends /\ inverse'[e] = Root!With(inverse[e], v, 2 * Len(a))
      /\ inverse'[o] = inverse[o] /\ \A f \in Ends : f # e => inverse'[f] = inverse[f]
  BY <1>1, <1>2 DEF RootInv, RootTypes
<1>10. \A f \in Ends : DOMAIN inverse'[f] \subseteq Interned
  <2>1. DOMAIN inverse'[e] = DOMAIN inverse[e] \cup {v}
    BY <1>9 DEF Root!With
  <2> QED BY <2>1, <1>2, <1>9, RootAt
<1>11. /\ inserting' \in [Ends -> RootInsert] /\ inserting'[e] = Root!Nothing
       /\ inserting'[o] = inserting[o]
  BY <1>1, <1>2 DEF RootInv, RootTypes
<1>12. RootTypes'
  BY <1>1, <1>7, <1>8, <1>9, <1>10, <1>11 DEF RootInv, RootTypes
<1>13. RootEnd(e, o)'
  <2>1. Lists(a2, mine[o], others[e], inverse'[e], Root!Nothing)
    BY <1>2, <1>6, <1>9, ListsOwn DEF RootEnd, a, a2, v
  <2>2. AllTell(rootNet[e], mine[o], a2) /\ AllTell(rootQueue[e], mine[o], a2)
    BY <1>2, <1>3, AllTellGrown DEF RootEnd, a
  <2>3. Informed(mine[o], rootNet[e], rootQueue[e], others[e], Root!Nothing)
    BY <1>1, <1>2, InformedSame DEF RootEnd
  <2>4. Reads(reading[e]["default"], mine[o], a2, others[e])
    BY <1>2, <1>3, ReadsGrown DEF RootEnd, a
  <2> QED BY <1>1, <1>2, <1>5, <1>7, <1>8, <1>9, <1>11, <2>1, <2>2, <2>3, <2>4 DEF RootEnd
<1>14. RootEnd(o, e)'
  <2>1. Lists(mine[o], a2, others[o], inverse[o], inserting[o])
    <3>1. \A k \in DOMAIN others[o] : others[o][k] \in Interned
      <4> TAKE k \in DOMAIN others[o]
      <4>1. k \in Nat /\ Stands(a, k, others[o][k])
        BY <1>2 DEF RootEnd, Lists, OthersList, a
      <4>2. k + 1 \in 1 .. Len(a) /\ a[k + 1] = others[o][k]
        BY <4>1, <1>3 DEF Stands
      <4> QED BY <4>2, <1>2, ElementOfSeq
    <3> QED BY <3>1, <1>2, <1>3, ListsGrown DEF RootEnd, a
  <2>2. AllTell(Append(rootNet[o], m), a2, mine[o]) /\ AllTell(rootQueue[o], a2, mine[o])
    <3>1. AllTell(rootNet[o], a2, mine[o]) /\ AllTell(rootQueue[o], a2, mine[o])
      BY <1>2, <1>3, AllTellGrown DEF RootEnd, a
    <3>2. Tells(m, a2, mine[o])
      BY <1>3, <1>4 DEF Tells
    <3> QED BY <3>1, <3>2, <1>2, <1>4, AllTellSent
  <2>3. Informed(a2, Append(rootNet[o], m), rootQueue[o], others[o], inserting[o])
    <3>1. \A k \in Nat : k < Len(a2) => k < Len(a) \/ Teaches(m, 2 * k)
      <4> SUFFICES ASSUME NEW k \in Nat, k < Len(a2), ~(k < Len(a)) PROVE Teaches(m, 2 * k)
        OBVIOUS
      <4>1. k = Len(a)
        BY <1>3
      <4> QED BY <4>1, <1>4 DEF Teaches
    <3>2. m.is # "message"
      BY <1>4
    <3>3. Informed(a, rootNet[o], rootQueue[o], others[o], inserting[o])
      BY <1>2 DEF RootEnd, a
    <3> QED BY <3>1, <3>2, <3>3, <1>2, <1>4, InformedSent
  <2>4. Reads(reading[o]["default"], a2, mine[o], others[o])
    BY <1>2, <1>3, ReadsGrown DEF RootEnd, a
  <2>5. OwnerComes(rootBound[o], Append(rootNet[o], m), rootQueue[o])
    BY <1>2, <1>4, OwnerSent DEF RootEnd
  <2> QED BY <1>1, <1>2, <1>7, <1>8, <1>9, <1>11, <2>1, <2>2, <2>3, <2>4, <2>5 DEF RootEnd
<1> QED BY <1>12, <1>13, <1>14, RootAt DEF RootInv, o

\* A message with an index is sent.
LEMMA RootWriteStep ==
  ASSUME RootInv, NEW e \in Ends, NEW v \in Interned, NEW answer \in BOOLEAN, Root!Write(e, v, answer)
  PROVE  RootInv'
<1> DEFINE o == Other(e)
           m == Root!Message(inverse[e][v], v, answer)
<1>1. /\ v \in DOMAIN inverse[e] /\ written[e] < MaxMessages
      /\ written' = [written EXCEPT ![e] = @ + 1]
      /\ rootNet' = [rootNet EXCEPT ![o] = Append(@, m)]
      /\ UNCHANGED <<rootBound, mine, others, inverse, inserting, rootQueue, reading>>
  BY RootAt DEF Root!Write
<1>2. /\ o \in Ends /\ o # e /\ RootEnd(e, o) /\ RootEnd(o, e) /\ rootBound[o] \in BOOLEAN
      /\ rootNet[o] \in Seq(RootMessage) /\ MaxMessages \in Nat
  BY RootAt
<1>3. PICK k \in Nat : \/ inverse[e][v] = 2 * k /\ Stands(mine[e], k, v)
                       \/ inverse[e][v] = 2 * k + 1 /\ k \in DOMAIN others[e] /\ others[e][k] = v
  BY <1>1, <1>2 DEF RootEnd, Lists, Indices
<1>4. /\ m \in RootMessage /\ m.is = "message" /\ m.id = inverse[e][v] /\ m.value = v
  <2>1. inverse[e][v] \in Nat
    BY <1>3
  <2> QED BY <2>1 DEF Root!Message, RootMessage, RootRead
<1> HIDE DEF m, o
<1>5. k \in DOMAIN others[e] /\ others[e][k] = v => Stands(mine[o], k, v)
  BY <1>2 DEF RootEnd, Lists, OthersList
<1>6. Tells(m, mine[e], mine[o])
  BY <1>3, <1>4, <1>5 DEF Tells
<1>7. NetFinds(rootNet[o], Len(rootNet[o]), m.id, rootQueue[o], others[o], inserting[o])
  <2>1. CASE m.id = 2 * k /\ Stands(mine[e], k, v)
    <3>1. k < Len(mine[e])
      BY <2>1 DEF Stands
    <3> QED BY <3>1, <2>1, <1>2 DEF RootEnd, Informed, ListInformed
  <2>2. CASE m.id = 2 * k + 1
    BY <2>2 DEF NetFinds, Finds
  <2> QED BY <2>1, <2>2, <1>3, <1>4
<1>8. /\ Append(rootNet[o], m) \in Seq(RootMessage) /\ rootNet' \in [Ends -> Seq(RootMessage)]
      /\ rootNet'[e] = rootNet[e] /\ rootNet'[o] = Append(rootNet[o], m)
  BY <1>1, <1>2, <1>4, AppendProperties DEF RootInv, RootTypes
<1>9. written' \in [Ends -> 0 .. MaxMessages]
  BY <1>1, <1>2 DEF RootInv, RootTypes
<1>10. RootTypes'
  BY <1>1, <1>8, <1>9 DEF RootInv, RootTypes
<1>11. RootEnd(e, o)'
  BY <1>1, <1>8, RootOther DEF o
<1>12. RootEnd(o, e)'
  <2>1. AllTell(Append(rootNet[o], m), mine[e], mine[o])
    BY <1>2, <1>4, <1>6, AllTellSent DEF RootEnd
  <2>2. Informed(mine[e], Append(rootNet[o], m), rootQueue[o], others[o], inserting[o])
    BY <1>2, <1>4, <1>7, InformedSent DEF RootEnd
  <2>3. OwnerComes(rootBound[o], Append(rootNet[o], m), rootQueue[o])
    BY <1>2, <1>4, OwnerSent DEF RootEnd
  <2> QED BY <1>1, <1>2, <1>8, <2>1, <2>2, <2>3 DEF RootEnd
<1> QED BY <1>10, <1>11, <1>12, RootAt DEF RootInv, o

\* A value of the other end's, with its index, is inserted.
LEMMA RootEndSetStep ==
  ASSUME RootInv, NEW e \in Ends, Root!EndSet(e) PROVE RootInv'
<1> DEFINE o == Other(e)
           ins == inserting[e]
<1>1. /\ ins.into = "others"
      /\ others' = [others EXCEPT ![e] = Root!With(@, ins.id \div 2, ins.value)]
      /\ inverse' = [inverse EXCEPT ![e] = Root!With(@, ins.value, ins.id)]
      /\ inserting' = [inserting EXCEPT ![e] = Root!Nothing]
      /\ UNCHANGED <<rootBound, mine, rootNet, rootQueue, reading, written>>
  BY DEF Root!EndSet
<1>2. /\ ins.value \in Interned /\ o \in Ends /\ o # e /\ Root!Nothing \in RootInsert
      /\ Root!Nothing.into = "nothing" /\ RootEnd(e, o)
      /\ rootNet[e] \in Seq(RootMessage) /\ rootQueue[e] \in Seq(RootMessage)
  BY <1>1, RootAt, InsertIs
<1>3. PICK k \in Nat : ins.id = 2 * k + 1 /\ Stands(mine[o], k, ins.value)
  BY <1>1, <1>2 DEF RootEnd, Lists, Inserts
<1>4. rootBound[e]
  BY <1>1, <1>2 DEF RootEnd
<1> HIDE DEF o, ins
<1>5. ins.id \div 2 = k
  BY <1>3, IndexIs
<1>6. /\ DOMAIN others' = Ends /\ others'[e] = Root!With(others[e], k, ins.value)
      /\ others'[o] = others[o]
  BY <1>1, <1>2, <1>5 DEF RootInv, RootTypes
<1>7. /\ DOMAIN inverse' = Ends /\ inverse'[e] = Root!With(inverse[e], ins.value, ins.id)
      /\ inverse'[o] = inverse[o] /\ \A f \in Ends : f # e => inverse'[f] = inverse[f]
  BY <1>1, <1>2 DEF RootInv, RootTypes
<1>8. \A f \in Ends : DOMAIN inverse'[f] \subseteq Interned
  <2>1. DOMAIN inverse'[e] = DOMAIN inverse[e] \cup {ins.value}
    BY <1>7 DEF Root!With
  <2> QED BY <2>1, <1>2, <1>7, RootAt
<1>9. /\ inserting' \in [Ends -> RootInsert] /\ inserting'[e] = Root!Nothing
      /\ inserting'[o] = inserting[o]
  BY <1>1, <1>2 DEF RootInv, RootTypes
<1>10. RootTypes'
  BY <1>1, <1>6, <1>7, <1>8, <1>9 DEF RootInv, RootTypes
<1>11. RootEnd(e, o)'
  <2>1. Lists(mine[e], mine[o], others'[e], inverse'[e], Root!Nothing)
    BY <1>2, <1>3, <1>6, <1>7, ListsOthers DEF RootEnd, ins
  <2>2. DOMAIN others'[e] = DOMAIN others[e] \cup {k}
    BY <1>6 DEF Root!With
  <2>3. Informed(mine[o], rootNet[e], rootQueue[e], others'[e], Root!Nothing)
    <3>1. Informed(mine[o], rootNet[e], rootQueue[e], others[e], ins)
      BY <1>2 DEF RootEnd, ins
    <3> QED BY <3>1, <2>2, <1>1, <1>2, <1>3, InformedLearnt
  <2>4. Reads(reading[e]["default"], mine[o], mine[e], others'[e])
    BY <2>2, <1>2 DEF RootEnd, Reads, Finds
  <2> QED BY <1>1, <1>2, <1>4, <1>9, <2>1, <2>3, <2>4 DEF RootEnd
<1>12. RootEnd(o, e)'
  BY <1>1, <1>2, <1>6, <1>7, <1>9, RootOther, RootAt DEF o
<1> QED BY <1>10, <1>11, <1>12, RootAt DEF RootInv, o

\* What a thread begins to insert when it comes to a value, and the lock.
LEMMA RootBeginSet ==
  ASSUME RootInv, NEW e \in Ends, NEW t \in Root!Threads, NEW m \in RootMessage, m.is = "intern",
         Tells(m, mine[Other(e)], mine[e]), Root!BeginSet(e, t, m)
  PROVE  /\ inserting[e] = Root!Nothing /\ inserting' \in [Ends -> RootInsert]
         /\ inserting'[Other(e)] = inserting[Other(e)]
         /\ inserting'[e].into = "others" /\ inserting'[e].by = t /\ inserting'[e].id = m.id + 1
         /\ Inserts(inserting'[e], mine[Other(e)], inverse[e])
<1>1. PICK k \in Nat : m.id = 2 * k /\ Stands(mine[Other(e)], k, m.value)
  BY DEF Tells
<1>2. Root!Flip(m.id) = 2 * k + 1 /\ m.value \in Interned
  BY <1>1, IndexIs DEF RootMessage, RootIntern, RootRead, Root!Owner
<1> DEFINE ins == [by |-> t, into |-> "others", id |-> 2 * k + 1, value |-> m.value]
<1>3. inserting[e] = Root!Nothing /\ inserting' = [inserting EXCEPT ![e] = ins]
  BY <1>2 DEF Root!BeginSet, Root!LockIsFree
<1>4. ins \in RootInsert
  <2>1. 2 * k + 1 \in Nat
    OBVIOUS
  <2> QED BY <2>1, <1>2, InsertIs
<1>5. ins.into = "others" /\ ins.by = t /\ ins.id = 2 * k + 1 /\ ins.value = m.value
  OBVIOUS
<1> HIDE DEF ins
<1>6. /\ inserting' \in [Ends -> RootInsert] /\ inserting'[e] = ins
      /\ inserting'[Other(e)] = inserting[Other(e)]
  BY <1>3, <1>4, RootAt DEF RootInv, RootTypes
<1>7. Inserts(ins, mine[Other(e)], inverse[e])
  BY <1>1, <1>5 DEF Inserts
<1> QED BY <1>1, <1>3, <1>5, <1>6, <1>7

\* The wire's thread takes what comes.
LEMMA RootReceiveStep ==
  ASSUME RootInv, NEW e \in Ends, Root!Receive(e) PROVE RootInv'
<1> DEFINE o == Other(e)
           m == Head(rootNet[e])
<1>1. /\ rootNet[e] # <<>> /\ inserting[e].by # "wire"
      /\ rootNet' = [rootNet EXCEPT ![e] = Tail(@)]
      /\ UNCHANGED <<rootBound, mine, others, inverse, written>>
  BY DEF Root!Receive, Root!IsIdle
<1>2. /\ o \in Ends /\ o # e /\ RootEnd(e, o) /\ rootBound[e] \in BOOLEAN
      /\ rootNet[e] \in Seq(RootMessage) /\ rootQueue[e] \in Seq(RootMessage)
      /\ inserting[e] \in RootInsert /\ Root!Nothing.into = "nothing"
  BY RootAt, InsertIs
<1>3. m \in RootMessage /\ Tail(rootNet[e]) \in Seq(RootMessage)
  BY <1>1, <1>2, TailAt
<1>4. AllTell(Tail(rootNet[e]), mine[o], mine[e]) /\ Tells(m, mine[o], mine[e])
  BY <1>1, <1>2, AllTellTaken DEF RootEnd
<1>5. \/ /\ rootBound[e] /\ m.is = "intern" /\ Root!BeginSet(e, "wire", m)
         /\ UNCHANGED <<rootQueue, reading>>
      \/ /\ rootBound[e] /\ m.is = "message" /\ reading' = [reading EXCEPT ![e]["wire"] = m]
         /\ UNCHANGED <<rootQueue, inserting>>
      \/ /\ rootQueue' = [rootQueue EXCEPT ![e] = Append(@, m)]
         /\ UNCHANGED <<reading, inserting>>
  <2>1. CASE Root!AtOnce(e, m) /\ m.is = "intern"
    BY <2>1 DEF Root!Receive, Root!AtOnce
  <2>2. CASE Root!AtOnce(e, m) /\ m.is = "message"
    BY <2>2 DEF Root!Receive, Root!AtOnce
  <2>3. CASE ~(Root!AtOnce(e, m) /\ m.is = "intern") /\ ~(Root!AtOnce(e, m) /\ m.is = "message")
    BY <2>3 DEF Root!Receive
  <2> QED BY <2>1, <2>2, <2>3
<1>6. /\ rootNet' \in [Ends -> Seq(RootMessage)] /\ rootNet'[e] = Tail(rootNet[e])
      /\ rootNet'[o] = rootNet[o]
  BY <1>1, <1>2, <1>3 DEF RootInv, RootTypes
<1>7. CASE /\ rootBound[e] /\ m.is = "intern" /\ Root!BeginSet(e, "wire", m)
           /\ UNCHANGED <<rootQueue, reading>>
  <2>1. /\ inserting[e] = Root!Nothing /\ inserting' \in [Ends -> RootInsert]
        /\ inserting'[o] = inserting[o]
        /\ inserting'[e].into = "others" /\ inserting'[e].id = m.id + 1
        /\ Inserts(inserting'[e], mine[o], inverse[e])
    <3>1. "wire" \in Root!Threads
      BY DEF Root!Threads
    <3> QED BY <3>1, <1>3, <1>4, <1>7, RootBeginSet
  <2>2. RootTypes'
    BY <2>1, <1>1, <1>6, <1>7 DEF RootInv, RootTypes
  <2> HIDE DEF m, o
  <2>3. RootEnd(e, o)'
    <3>1. Informed(mine[o], Tail(rootNet[e]), rootQueue[e], others[e], inserting'[e])
      BY <2>1, <1>1, <1>2, InformedBegins DEF RootEnd, m
    <3>2. Lists(mine[e], mine[o], others[e], inverse[e], inserting'[e])
      BY <2>1, <1>2 DEF RootEnd, Lists
    <3>3. OwnerComes(rootBound[e], Tail(rootNet[e]), rootQueue[e])
      BY <1>1, <1>2, <1>7, OwnerReceived DEF RootEnd
    <3> QED BY <3>1, <3>2, <3>3, <2>1, <1>1, <1>2, <1>4, <1>6, <1>7 DEF RootEnd
  <2>4. RootEnd(o, e)'
    BY <2>1, <1>1, <1>2, <1>6, <1>7, RootOther, RootAt DEF o
  <2> QED BY <2>2, <2>3, <2>4, RootAt DEF RootInv, o
<1>8. CASE /\ rootBound[e] /\ m.is = "message" /\ reading' = [reading EXCEPT ![e]["wire"] = m]
           /\ UNCHANGED <<rootQueue, inserting>>
  <2>1. m \in RootRead
    BY <1>3, <1>8 DEF RootMessage, RootIntern, Root!Owner
  <2> HIDE DEF m, o
  <2>2. /\ reading' \in [Ends -> [Root!Threads -> {Root!Nothing} \cup RootRead]]
        /\ \A f \in Ends : reading'[f]["default"] = reading[f]["default"]
    BY <2>1, <1>8 DEF RootInv, RootTypes, Root!Threads
  <2>3. RootTypes'
    BY <2>2, <1>1, <1>6, <1>8 DEF RootInv, RootTypes
  <2>4. RootEnd(e, o)'
    <3>1. Informed(mine[o], Tail(rootNet[e]), rootQueue[e], others[e], inserting[e])
      <4>1. Head(rootNet[e]).is # "intern"
        BY <1>8 DEF m
      <4> QED BY <4>1, <1>1, <1>2, InformedPassed DEF RootEnd
    <3>2. OwnerComes(rootBound[e], Tail(rootNet[e]), rootQueue[e])
      BY <1>1, <1>2, <1>8, OwnerReceived DEF RootEnd
    <3> QED BY <3>1, <3>2, <2>2, <1>1, <1>2, <1>4, <1>6, <1>8 DEF RootEnd
  <2>5. RootEnd(o, e)'
    BY <2>2, <1>1, <1>2, <1>6, <1>8, RootOther, RootAt DEF o
  <2> QED BY <2>3, <2>4, <2>5, RootAt DEF RootInv, o
<1>9. CASE /\ rootQueue' = [rootQueue EXCEPT ![e] = Append(@, m)]
           /\ UNCHANGED <<reading, inserting>>
  <2>1. /\ Append(rootQueue[e], m) \in Seq(RootMessage) /\ rootQueue' \in [Ends -> Seq(RootMessage)]
        /\ rootQueue'[e] = Append(rootQueue[e], m) /\ rootQueue'[o] = rootQueue[o]
    BY <1>2, <1>3, <1>9, AppendProperties DEF RootInv, RootTypes
  <2>2. RootTypes'
    BY <2>1, <1>1, <1>6, <1>9 DEF RootInv, RootTypes
  <2>3. RootEnd(e, o)'
    <3>1. Informed(mine[o], Tail(rootNet[e]), Append(rootQueue[e], m), others[e], inserting[e])
      <4>1. inserting[e].into = "others" => inserting[e].by = "default"
        BY <1>1, <1>2, InsertIs
      <4> QED BY <4>1, <1>1, <1>2, InformedQueued DEF RootEnd
    <3>2. OwnerComes(rootBound[e], Tail(rootNet[e]), Append(rootQueue[e], m))
      BY <1>1, <1>2, OwnerReceived DEF RootEnd
    <3>3. AllTell(Append(rootQueue[e], m), mine[o], mine[e])
      BY <1>2, <1>3, <1>4, AllTellSent DEF RootEnd
    <3> HIDE DEF m, o
    <3> QED BY <3>1, <3>2, <3>3, <2>1, <1>1, <1>2, <1>4, <1>6, <1>9 DEF RootEnd
  <2> HIDE DEF m, o
  <2>4. RootEnd(o, e)'
    BY <2>1, <1>1, <1>2, <1>6, <1>9, RootOther, RootAt DEF o
  <2> QED BY <2>2, <2>3, <2>4, RootAt DEF RootInv, o
<1> QED BY <1>5, <1>7, <1>8, <1>9

\* The default scheduler's thread runs what is first in its queue.
LEMMA RootRunStep ==
  ASSUME RootInv, NEW e \in Ends, Root!Run(e) PROVE RootInv'
<1> DEFINE o == Other(e)
           m == Head(rootQueue[e])
<1>1. /\ rootQueue[e] # <<>> /\ inserting[e].by # "default"
      /\ rootQueue' = [rootQueue EXCEPT ![e] = Tail(@)]
      /\ UNCHANGED <<rootNet, written>>
  BY DEF Root!Run, Root!IsIdle
<1>2. /\ o \in Ends /\ o # e /\ RootEnd(e, o) /\ RootEnd(o, e) /\ rootBound[e] \in BOOLEAN
      /\ rootNet[e] \in Seq(RootMessage) /\ rootQueue[e] \in Seq(RootMessage)
      /\ inserting[e] \in RootInsert
  BY RootAt
<1>3. m \in RootMessage /\ Tail(rootQueue[e]) \in Seq(RootMessage)
  BY <1>1, <1>2, TailAt
<1>4. AllTell(Tail(rootQueue[e]), mine[o], mine[e]) /\ Tells(m, mine[o], mine[e])
  BY <1>1, <1>2, AllTellTaken DEF RootEnd
<1>5. /\ rootQueue' \in [Ends -> Seq(RootMessage)] /\ rootQueue'[e] = Tail(rootQueue[e])
      /\ rootQueue'[o] = rootQueue[o]
  BY <1>1, <1>2, <1>3 DEF RootInv, RootTypes
<1>6. /\ m.is = "owner" <=> ~rootBound[e]
      /\ OwnerComes(TRUE, rootNet[e], Tail(rootQueue[e]))
  BY <1>1, <1>2, OwnerRun DEF RootEnd
<1>7. m.is # "intern" =>
        Informed(mine[o], rootNet[e], Tail(rootQueue[e]), others[e], inserting[e])
  <2> HAVE m.is # "intern"
  <2>1. \A id : ~Teaches(m, id)
    BY DEF Teaches
  <2> QED BY <2>1, <1>1, <1>2, InformedRun DEF RootEnd
<1>8. CASE m.is = "owner"
  <2>1. /\ rootBound' = [rootBound EXCEPT ![e] = TRUE]
        /\ mine' = [mine EXCEPT ![e] = <<>>]
        /\ others' = [others EXCEPT ![e] = Root!EmptyMap]
        /\ inverse' = [inverse EXCEPT ![e] = Root!EmptyMap]
        /\ UNCHANGED <<inserting, reading>>
    BY <1>8 DEF Root!Run
  <2>2. /\ mine[e] = <<>> /\ others[e] = Root!EmptyMap /\ inverse[e] = Root!EmptyMap
    BY <1>2, <1>6, <1>8 DEF RootEnd
  <2> HIDE DEF m, o
  <2>3. /\ mine' = mine /\ others'[e] = others[e] /\ inverse'[e] = inverse[e]
        /\ others'[o] = others[o] /\ inverse'[o] = inverse[o]
        /\ DOMAIN others' = Ends /\ DOMAIN inverse' = Ends
        /\ \A f \in Ends : inverse'[f] = inverse[f]
    BY <2>1, <2>2, <1>2 DEF RootInv, RootTypes
  <2>4. rootBound' \in [Ends -> BOOLEAN] /\ rootBound'[e] /\ rootBound'[o] = rootBound[o]
    BY <2>1, <1>2 DEF RootInv, RootTypes
  <2>5. RootTypes'
    BY <2>1, <2>3, <2>4, <1>1, <1>5 DEF RootInv, RootTypes
  <2>6. RootEnd(e, o)'
    <3>1. OwnerComes(rootBound'[e], rootNet[e], Tail(rootQueue[e]))
      BY <1>6, <2>4 DEF OwnerComes
    <3>2. Informed(mine[o], rootNet[e], Tail(rootQueue[e]), others[e], inserting[e])
      BY <1>7, <1>8
    <3> QED BY <3>1, <3>2, <2>1, <2>3, <2>4, <1>1, <1>2, <1>4, <1>5 DEF RootEnd
  <2>7. RootEnd(o, e)'
    <3>1. /\ mine' = mine /\ inserting'[o] = inserting[o] /\ rootNet'[o] = rootNet[o]
          /\ others'[o] = others[o] /\ inverse'[o] = inverse[o] /\ rootQueue'[o] = rootQueue[o]
          /\ reading'[o]["default"] = reading[o]["default"] /\ rootBound'[o] = rootBound[o]
      BY <2>1, <2>3, <2>4, <1>1, <1>5
    <3>2. Other(o) = e
      BY RootAt DEF o
    <3> QED BY <3>1, <3>2, <1>2, RootOther
  <2> QED BY <2>5, <2>6, <2>7, RootAt DEF RootInv, o
<1>9. CASE m.is = "intern"
  <2>1. Root!BeginSet(e, "default", m) /\ UNCHANGED <<rootBound, mine, others, inverse, reading>>
    BY <1>9 DEF Root!Run
  <2>2. /\ inserting[e] = Root!Nothing /\ inserting' \in [Ends -> RootInsert]
        /\ inserting'[o] = inserting[o] /\ inserting'[e].by = "default"
        /\ inserting'[e].into = "others" /\ inserting'[e].id = m.id + 1
        /\ Inserts(inserting'[e], mine[o], inverse[e])
    <3>1. "default" \in Root!Threads
      BY DEF Root!Threads
    <3> QED BY <3>1, <2>1, <1>3, <1>4, <1>9, RootBeginSet
  <2>3. Root!Nothing.into = "nothing"
    BY InsertIs
  <2>4. RootTypes'
    BY <2>1, <2>2, <1>1, <1>5 DEF RootInv, RootTypes
  <2>5. Informed(mine[o], rootNet[e], Tail(rootQueue[e]), others[e], inserting'[e])
    <3>1. \A id : ~Takes(inserting[e], id)
      BY <2>2, <2>3 DEF Takes
    <3>2. \A id : Teaches(m, id) => Takes(inserting'[e], id)
      BY <2>2 DEF Takes, Teaches
    <3> QED BY <3>1, <3>2, <2>2, <1>1, <1>2, InformedRun DEF RootEnd
  <2> HIDE DEF m, o
  <2>6. RootEnd(e, o)'
    <3>1. Lists(mine[e], mine[o], others[e], inverse[e], inserting'[e])
      BY <2>2, <1>2 DEF RootEnd, Lists
    <3>2. rootBound[e]
      BY <1>2, <1>6, <1>9
    <3>3. OwnerComes(rootBound[e], rootNet[e], Tail(rootQueue[e]))
      BY <3>2, <1>6 DEF OwnerComes
    <3> QED BY <3>1, <3>2, <3>3, <2>1, <2>2, <2>5, <1>1, <1>2, <1>4, <1>5 DEF RootEnd
  <2>7. RootEnd(o, e)'
    BY <2>1, <2>2, <1>1, <1>2, <1>5, RootOther, RootAt DEF o
  <2> QED BY <2>4, <2>6, <2>7, RootAt DEF RootInv, o
<1>10. CASE m.is # "owner" /\ m.is # "intern"
  <2>1. reading' = [reading EXCEPT ![e]["default"] = m] /\ UNCHANGED <<rootBound, mine, others, inverse, inserting>>
    BY <1>10 DEF Root!Run
  <2>2. m \in RootRead /\ m.is = "message"
    BY <1>3, <1>10 DEF RootMessage, RootIntern, RootRead, Root!Owner
  <2>3. Finds(others[e], m.id)
    BY <2>2, <1>1, <1>2, InformedRead DEF RootEnd
  <2> HIDE DEF m, o
  <2>4. /\ reading' \in [Ends -> [Root!Threads -> {Root!Nothing} \cup RootRead]]
        /\ reading'[e]["default"] = m /\ reading'[o] = reading[o]
    BY <2>1, <2>2, <1>2 DEF RootInv, RootTypes, Root!Threads
  <2>5. RootTypes'
    BY <2>1, <2>4, <1>1, <1>5 DEF RootInv, RootTypes
  <2>6. RootEnd(e, o)'
    <3>1. rootBound[e]
      BY <1>2, <1>6, <1>10
    <3>2. OwnerComes(rootBound[e], rootNet[e], Tail(rootQueue[e]))
      BY <3>1, <1>6 DEF OwnerComes
    <3>3. Reads(m, mine[o], mine[e], others[e])
      BY <2>3, <1>4 DEF Reads
    <3> QED BY <3>1, <3>2, <3>3, <2>1, <2>4, <1>1, <1>2, <1>4, <1>5, <1>7, <1>10 DEF RootEnd
  <2>7. RootEnd(o, e)'
    BY <2>1, <2>4, <1>1, <1>2, <1>5, RootOther, RootAt DEF o
  <2> QED BY <2>5, <2>6, <2>7, RootAt DEF RootInv, o
<1> QED BY <1>8, <1>9, <1>10

\* A thread has read.
LEMMA RootEndReadStep ==
  ASSUME RootInv, NEW e \in Ends, NEW t \in Root!Threads, Root!EndRead(e, t) PROVE RootInv'
<1>1. /\ reading' = [reading EXCEPT ![e][t] = Root!Nothing]
      /\ UNCHANGED <<rootBound, mine, others, inverse, inserting, rootNet, rootQueue, written>>
  BY DEF Root!EndRead
<1>2. /\ reading' \in [Ends -> [Root!Threads -> {Root!Nothing} \cup RootRead]]
      /\ \A f \in Ends : \/ reading'[f]["default"] = reading[f]["default"]
                         \/ reading'[f]["default"] = Root!Nothing
  BY <1>1 DEF RootInv, RootTypes, Root!Threads
<1>3. RootTypes'
  BY <1>1, <1>2 DEF RootInv, RootTypes
<1>4. ASSUME NEW f \in Ends
      PROVE  RootEnd(f, Other(f))'
  <2>1. RootEnd(f, Other(f))
    BY DEF RootInv
  <2>2. Reads(reading'[f]["default"], mine[Other(f)], mine[f], others[f])
    BY <2>1, <1>2 DEF RootEnd, Reads
  <2> QED BY <2>1, <2>2, <1>1 DEF RootEnd
<1> QED BY <1>3, <1>4 DEF RootInv

\* The beginning: nothing is listed, and only the owner is under way.
LEMMA RootInit == ASSUME Root!Init PROVE RootInv
<1>1. /\ Master # Slave /\ Ends = {Master, Slave} /\ Root!Ends = Ends /\ MaxMessages \in Nat
      /\ \A e \in Ends : Other(e) \in Ends
  BY EntitiesAssumption DEF Root!InternAssumption, Root!Ends, Ends, Other
<1>2. /\ rootBound = [e \in Ends |-> e = Master] /\ mine = [e \in Ends |-> <<>>]
      /\ others = [e \in Ends |-> Root!EmptyMap] /\ inverse = [e \in Ends |-> Root!EmptyMap]
      /\ inserting = [e \in Ends |-> Root!Nothing]
      /\ rootNet = [e \in Ends |-> IF e = Slave THEN <<Root!Owner>> ELSE <<>>]
      /\ rootQueue = [e \in Ends |-> <<>>]
      /\ reading = [e \in Ends |-> [t \in Root!Threads |-> Root!Nothing]]
      /\ written = [e \in Ends |-> 0]
  BY <1>1 DEF Root!Init
<1>3. /\ <<Root!Owner>> \in Seq(RootMessage) /\ Len(<<Root!Owner>>) = 1
      /\ <<Root!Owner>>[1] = Root!Owner /\ Root!Owner.is = "owner"
  BY DEF RootMessage, Root!Owner
<1>4. DOMAIN Root!EmptyMap = {}
  BY DEF Root!EmptyMap
<1>5. RootTypes
  <2>1. rootNet \in [Ends -> Seq(RootMessage)]
    BY <1>2, <1>3
  <2>2. <<>> \in Seq(Interned) /\ <<>> \in Seq(RootMessage) /\ Root!Nothing \in RootInsert
    BY EmptySeq, InsertIs
  <2>3. written \in [Ends -> 0 .. MaxMessages]
    BY <1>1, <1>2
  <2>4. \A e \in Ends : DOMAIN inverse[e] = {}
    BY <1>2, <1>4
  <2> QED BY <2>1, <2>2, <2>3, <2>4, <1>2 DEF RootTypes
<1>6. ASSUME NEW e \in Ends
      PROVE  RootEnd(e, Other(e))
  <2>1. /\ Len(mine[e]) = 0 /\ Len(mine[Other(e)]) = 0 /\ Len(rootQueue[e]) = 0
        /\ DOMAIN others[e] = {} /\ DOMAIN inverse[e] = {} /\ inserting[e] = Root!Nothing
        /\ reading[e]["default"] = Root!Nothing
    BY <1>1, <1>2, <1>4 DEF Root!Threads
  <2>2. Lists(mine[e], mine[Other(e)], others[e], inverse[e], inserting[e])
    BY <2>1, InsertIs DEF Lists, OwnList, Indices, OthersList, Inserts
  <2>3. \A i \in 1 .. Len(rootNet[e]) : rootNet[e][i].is = "owner"
    BY <1>2, <1>3
  <2>4. AllTell(rootNet[e], mine[Other(e)], mine[e]) /\ AllTell(rootQueue[e], mine[Other(e)], mine[e])
    BY <2>1, <2>3 DEF AllTell, Tells
  <2>5. Informed(mine[Other(e)], rootNet[e], rootQueue[e], others[e], inserting[e])
    BY <2>1, <2>3 DEF Informed, QueueInformed, NetInformed, ListInformed
  <2>6. Reads(reading[e]["default"], mine[Other(e)], mine[e], others[e])
    BY <2>1 DEF Reads
  <2>7. OwnerComes(rootBound[e], rootNet[e], rootQueue[e])
    <3>1. CASE e = Master
      <4>1. rootBound[e] /\ Len(rootNet[e]) = 0
        BY <3>1, <1>1, <1>2
      <4> QED BY <4>1, <2>1 DEF OwnerComes, NoOwner
    <3>2. CASE e = Slave
      <4>1. rootNet[e] = <<Root!Owner>> /\ ~rootBound[e]
        BY <3>2, <1>1, <1>2
      <4> QED BY <4>1, <2>1, <1>3 DEF OwnerComes, NoOwner
    <3> QED BY <3>1, <3>2, <1>1
  <2> QED BY <2>2, <2>4, <2>5, <2>6, <2>7, <1>2 DEF RootEnd
<1> QED BY <1>5, <1>6 DEF RootInv

\* Every step of interning.
LEMMA RootStep == ASSUME RootInv, [Root!Next]_(Root!internVars) PROVE RootInv'
<1>1. CASE UNCHANGED Root!internVars
  BY <1>1 DEF RootInv, RootTypes, RootEnd, Root!internVars
<1>2. ASSUME NEW e \in Ends,
             \/ \E v \in Interned :
                  Root!BeginIntern(e, v) \/ \E answer \in BOOLEAN : Root!Write(e, v, answer)
             \/ Root!EndIntern(e) \/ Root!EndSet(e) \/ Root!Receive(e) \/ Root!Run(e)
             \/ \E t \in Root!Threads : Root!EndRead(e, t)
      PROVE  RootInv'
  <2>1. ASSUME NEW v \in Interned, Root!BeginIntern(e, v) PROVE RootInv'
    BY <2>1, RootBeginStep
  <2>2. ASSUME NEW v \in Interned, NEW answer \in BOOLEAN, Root!Write(e, v, answer) PROVE RootInv'
    BY <2>2, RootWriteStep
  <2>3. ASSUME NEW t \in Root!Threads, Root!EndRead(e, t) PROVE RootInv'
    BY <2>3, RootEndReadStep
  <2> QED BY <1>2, <2>1, <2>2, <2>3, RootEndInternStep, RootEndSetStep, RootReceiveStep, RootRunStep
<1> QED BY <1>1, <1>2, RootAt DEF Root!Next

\* What follows for whoever writes and reads.
LEMMA RootMeans == ASSUME RootInv PROVE Root!TypeOK /\ Root!IndexStandsForValue
<1>1. ASSUME NEW e \in Ends
      PROVE  /\ mine[e] \in Seq(Interned) /\ Root!IsInjective(mine[e])
             /\ \A i \in DOMAIN others[e] : others[e][i] = mine[Other(e)][i + 1]
             /\ DOMAIN inverse[e] \subseteq Interned
             /\ written[e] \in 0 .. MaxMessages
             /\ inserting[e].into \in {"nothing", "mine", "others"}
  <2>1. /\ mine[e] \in Seq(Interned) /\ DOMAIN mine[e] = 1 .. Len(mine[e])
        /\ RootEnd(e, Other(e)) /\ inserting[e] \in RootInsert
    BY RootAt, LenProperties
  <2>2. Root!IsInjective(mine[e])
    BY <2>1 DEF Root!IsInjective, RootEnd, Lists, OwnList
  <2>3. \A i \in DOMAIN others[e] : others[e][i] = mine[Other(e)][i + 1]
    BY <2>1 DEF RootEnd, Lists, OthersList, Stands
  <2> QED BY <2>1, <2>2, <2>3, RootAt, InsertIs
<1>2. Root!TypeOK
  BY <1>1, RootAt DEF Root!TypeOK, RootInv, RootTypes
<1>3. ASSUME NEW e \in Ends, NEW k \in Nat, NEW v
      PROVE  /\ Stands(mine[e], k, v) => Root!UnInterned(e, 2 * k) = {v}
             /\ k \in DOMAIN others[e] /\ others[e][k] = v => Root!UnInterned(e, 2 * k + 1) = {v}
  <2>1. /\ Root!IsIndexOwned(2 * k) /\ ~Root!IsIndexOwned(2 * k + 1)
        /\ (2 * k) \div 2 = k /\ (2 * k + 1) \div 2 = k
    BY IndexIs
  <2>2. ASSUME Stands(mine[e], k, v)
        PROVE  Root!UnInterned(e, 2 * k) = {v}
    <3>1. DOMAIN mine[e] = 1 .. Len(mine[e]) /\ Len(mine[e]) \in Nat
      BY RootAt, LenProperties
    <3>2. k + 1 \in DOMAIN mine[e] /\ mine[e][k + 1] = v
      BY <3>1, <2>2 DEF Stands
    <3>3. Root!UnInterned(e, 2 * k) = {mine[e][i] : i \in DOMAIN mine[e] \cap {k + 1}}
      BY <2>1 DEF Root!UnInterned
    <3> QED BY <3>2, <3>3
  <2>3. ASSUME k \in DOMAIN others[e], others[e][k] = v
        PROVE  Root!UnInterned(e, 2 * k + 1) = {v}
    <3>1. Root!UnInterned(e, 2 * k + 1) = {others[e][i] : i \in DOMAIN others[e] \cap {k}}
      BY <2>1 DEF Root!UnInterned
    <3> QED BY <3>1, <2>3
  <2> QED BY <2>2, <2>3
<1>4. ASSUME NEW e \in Ends, NEW v \in DOMAIN inverse[e]
      PROVE  Root!UnInterned(e, inverse[e][v]) = {v}
  <2>1. PICK k \in Nat : \/ inverse[e][v] = 2 * k /\ Stands(mine[e], k, v)
                         \/ inverse[e][v] = 2 * k + 1 /\ k \in DOMAIN others[e] /\ others[e][k] = v
    BY DEF RootInv, RootEnd, Lists, Indices
  <2> QED BY <2>1, <1>3
<1>5. ASSUME NEW e \in Ends, reading[e]["default"] # Root!Nothing
      PROVE  Root!UnInterned(e, Root!Flip(reading[e]["default"].id)) = {reading[e]["default"].value}
  <2> DEFINE m == reading[e]["default"]
  <2>1. m.is = "message"
    BY <1>5, RootAt DEF RootRead, Root!Threads
  <2>2. /\ Tells(m, mine[Other(e)], mine[e]) /\ Finds(others[e], m.id)
        /\ OthersList(mine[Other(e)], others[e])
    BY <1>5 DEF RootInv, RootEnd, Reads, Lists
  <2> HIDE DEF m
  <2>3. PICK k \in Nat : \/ m.id = 2 * k /\ Stands(mine[Other(e)], k, m.value)
                         \/ m.id = 2 * k + 1 /\ Stands(mine[e], k, m.value)
    BY <2>1, <2>2 DEF Tells
  <2>4. CASE m.id = 2 * k /\ Stands(mine[Other(e)], k, m.value)
    <3>1. k \in DOMAIN others[e]
      <4>1. PICK j \in Nat : m.id = 2 * j + 1 \/ (m.id = 2 * j /\ j \in DOMAIN others[e])
        BY <2>2 DEF Finds, OthersList
      <4> QED BY <4>1, <2>4, IndexApart
    <3>2. others[e][k] = m.value
      BY <3>1, <2>2, <2>4 DEF OthersList, Stands
    <3>3. Root!Flip(m.id) = 2 * k + 1
      BY <2>4, IndexIs
    <3> QED BY <3>1, <3>2, <3>3, <1>3 DEF m
  <2>5. CASE m.id = 2 * k + 1 /\ Stands(mine[e], k, m.value)
    <3>1. Root!Flip(m.id) = 2 * k
      BY <2>5, IndexIs
    <3> QED BY <3>1, <2>5, <1>3 DEF m
  <2> QED BY <2>3, <2>4, <2>5
<1>6. Root!IndexStandsForValue
  BY <1>4, <1>5, RootAt DEF Root!IndexStandsForValue
<1> QED BY <1>2, <1>6

\* What a step of the entities is for interning.
LEMMA EntityStepOfRoot == [EntityNext]_entityVars => [Root!Next]_(Root!internVars)
BY DEF EntityNext, entityVars, Only, rootRest, Root!internVars

----------------------------------------------------------------------------
(***************************************************************************)
(* Extensions.                                                             *)
(***************************************************************************)
\* What is under way between the ends of an extension.
ExtFrame == [is : {"state"}, state : Ext!ExtState] \cup [is : {"message"}, number : Nat]

\* What has arrived, A, and what is under way, N, was sent before the message x.
Before(A, N, x) ==
  /\ \A j \in 1 .. Len(A) : A[j] < x
  /\ \A j \in 1 .. Len(N) : N[j].is = "message" => N[j].number < x

\* The way of the messages of an end, of which k have been sent: what has arrived, A, what is
\* under way, N, what it hands to the wire, s, or else what it keeps, Q, is in order.
InOrder(A, N, s, Q, k) ==
  /\ \A j \in 1 .. Len(A) : \A i \in 1 .. j - 1 : A[i] < A[j]
  /\ \A j \in 1 .. Len(N) : N[j].is = "message" =>
       /\ \A i \in 1 .. Len(A) : A[i] < N[j].number
       /\ \A i \in 1 .. j - 1 : N[i].is = "message" => N[i].number < N[j].number
  /\ Before(A, N, k + 1)
  /\ s # 0 => Q = <<>> /\ Before(A, N, s) /\ s <= k
  /\ \A j \in 1 .. Len(Q) : Before(A, N, Q[j]) /\ Q[j] <= k /\ \A i \in 1 .. j - 1 : Q[i] < Q[j]

\* The last an end hears of the other one is that it leaves: N is under way to it, P parked,
\* and c whether it takes the other end for connected.
Denies(N, P, c) ==
  \/ \E i \in 1 .. Len(N) :
       /\ N[i].is = "state" /\ N[i].state = "Disconnected"
       /\ \A j \in i + 1 .. Len(N) : N[j].is = "message"
  \/ /\ \A j \in 1 .. Len(N) : N[j].is = "message"
     /\ IF Len(P) > 0 THEN P[Len(P)] = "Disconnected" ELSE ~c

\* The types of the variables of extensions.
ExtTypes ==
  /\ binding \in [Ends -> {"unbound", "advised", "bound", "leaving"}]
  /\ subscribed \in [Ends -> BOOLEAN] /\ connected \in [Ends -> BOOLEAN]
  /\ sendQ \in [Ends -> Seq(Nat \ {0})] /\ sending \in [Ends -> Nat]
  /\ flushing \in [Ends -> SUBSET Ext!Threads]
  /\ extNet \in [Ends -> Seq(ExtFrame)] /\ parked \in [Ends -> Seq(Ext!ExtState)]
  /\ binds \in [Ends -> Nat] /\ sent \in [Ends -> Nat]
  /\ arrived \in [Ends -> Seq(Nat)] /\ crossed \in [Ends -> BOOLEAN]

\* The threads of end e do one thing at a time.
ExtThreads(e) ==
  /\ subscribed[e] = (binding[e] # "unbound")
  /\ sending[e] # 0 => "default" \notin flushing[e]
  /\ binds[e] + sent[e] <= Budget[e]

\* While end e has not been bound, it does and is sent nothing.
ExtFresh(e) ==
  binds[e] = 0 =>
    /\ binding[e] = "unbound" /\ ~connected[e] /\ flushing[e] = {} /\ sending[e] = 0
    /\ extNet[Other(e)] = <<>> /\ parked[Other(e)] = <<>> /\ ~connected[Other(e)]
    /\ flushing[Other(e)] = {} /\ sending[Other(e)] = 0
    /\ arrived[e] = <<>> /\ \A j \in 1 .. Len(extNet[e]) : extNet[e][j].is = "state"

\* The messages of end e are on their way in order.
ExtOrder(e) == InOrder(arrived[Other(e)], extNet[Other(e)], sending[e], sendQ[e], sent[e])

\* End e is bound for the first time, or is to be, and the other one is not bound, unless the
\* two have crossed: the last it hears then is that the other one has left.
ExtParted(e) ==
  /\ binds[e] = 0 \/ (binds[e] = 1 /\ binding[e] \in {"advised", "bound"})
  /\ binding[Other(e)] \in {"leaving", "unbound"} /\ ~crossed[e]
ExtDenies(e) == ExtParted(e) => Denies(extNet[e], parked[e], connected[e])

\* The inductive invariant of extensions.
ExtInv ==
  /\ ExtTypes
  /\ \A e \in Ends : ExtThreads(e) /\ ExtFresh(e) /\ ExtOrder(e) /\ ExtDenies(e)

\* The two ends of an extension.
LEMMA ExtEnds ==
  /\ \A e \in Ends : Other(e) \in Ends /\ Other(e) # e /\ Other(Other(e)) = e
  /\ \A e \in Ends : Ext!Other(e) = Other(e)
  /\ \A e, f \in Ends : f = e \/ f = Other(e)
<1>1. Ends = {Master, Slave} /\ Master # Slave
  BY PropertyAssumption DEF Ends
<1>2. \A e \in Ends : Ext!Other(e) = Other(e)
  <2> TAKE e \in Ends
  <2>1. Other(e) \in Ends /\ Other(e) # e /\ \A f \in Ends : f # e => f = Other(e)
    BY <1>1 DEF Other
  <2> QED BY <2>1 DEF Ext!Other
<1> QED BY <1>1, <1>2 DEF Other

\* R is what is under way once W has been sent behind N.
Sent(R, N, W) ==
  /\ R \in Seq(ExtFrame) /\ Len(R) = Len(N) + Len(W)
  /\ \A i \in 1 .. Len(N) : R[i] = N[i]
  /\ \A i \in 1 .. Len(W) : R[Len(N) + i] = W[i]

LEMMA FramesSent ==
  ASSUME NEW N \in Seq(ExtFrame)
  PROVE  /\ \A W \in Seq(ExtFrame) : Sent(N \o W, N, W)
         /\ \A x \in ExtFrame : /\ Sent(Append(N, x), N, <<x>>) /\ <<x>> \in Seq(ExtFrame)
                                /\ Len(<<x>>) = 1 /\ <<x>>[1] = x
<1>1. ASSUME NEW W \in Seq(ExtFrame)
      PROVE  Sent(N \o W, N, W)
  <2>1. /\ N \o W \in Seq(ExtFrame) /\ Len(N \o W) = Len(N) + Len(W)
        /\ Len(N) \in Nat /\ Len(W) \in Nat
        /\ \A i \in 1 .. Len(N) + Len(W) :
             (N \o W)[i] = IF i <= Len(N) THEN N[i] ELSE W[i - Len(N)]
    BY ConcatProperties
  <2>2. \A i \in 1 .. Len(W) : /\ Len(N) + i \in 1 .. Len(N) + Len(W) /\ ~(Len(N) + i <= Len(N))
                               /\ (Len(N) + i) - Len(N) = i
    BY <2>1
  <2>3. \A i \in 1 .. Len(W) : (N \o W)[Len(N) + i] = W[i]
    BY <2>1, <2>2
  <2>4. \A i \in 1 .. Len(N) : (N \o W)[i] = N[i]
    BY <2>1
  <2> QED BY <2>1, <2>3, <2>4 DEF Sent
<1>2. ASSUME NEW x \in ExtFrame
      PROVE  /\ Sent(Append(N, x), N, <<x>>) /\ <<x>> \in Seq(ExtFrame)
             /\ Len(<<x>>) = 1 /\ <<x>>[1] = x
  <2>1. <<x>> \in Seq(ExtFrame) /\ Len(<<x>>) = 1 /\ <<x>>[1] = x
    OBVIOUS
  <2>2. /\ Append(N, x) \in Seq(ExtFrame) /\ Len(Append(N, x)) = Len(N) + 1
        /\ \A i \in 1 .. Len(N) : Append(N, x)[i] = N[i]
        /\ Append(N, x)[Len(N) + 1] = x
    BY AppendProperties
  <2>3. \A i \in 1 .. Len(<<x>>) : i = 1
    BY <2>1
  <2> QED BY <2>1, <2>2, <2>3 DEF Sent
<1> QED BY <1>1, <1>2

\* Nothing but states is sent behind N.
LEMMA OrderStatesSent ==
  ASSUME NEW A \in Seq(Nat), NEW N \in Seq(ExtFrame), NEW R, NEW W \in Seq(ExtFrame), NEW s, NEW Q,
         NEW k, InOrder(A, N, s, Q, k), Sent(R, N, W), \A i \in 1 .. Len(W) : W[i].is = "state"
  PROVE  InOrder(A, R, s, Q, k)
<1>1. Len(N) \in Nat /\ Len(W) \in Nat
  OBVIOUS
<1>2. \A i \in 1 .. Len(R) : R[i].is = "message" => i \in 1 .. Len(N) /\ R[i] = N[i]
  <2> TAKE i \in 1 .. Len(R)
  <2>1. CASE i <= Len(N)
    BY <1>1, <2>1 DEF Sent
  <2>2. CASE ~(i <= Len(N))
    <3>1. i - Len(N) \in 1 .. Len(W) /\ Len(N) + (i - Len(N)) = i
      BY <1>1, <2>2 DEF Sent
    <3> QED BY <3>1 DEF Sent
  <2> QED BY <2>1, <2>2
<1>3. \A x : Before(A, N, x) => Before(A, R, x)
  BY <1>2 DEF Before
<1>4. \A j \in 1 .. Len(R) : R[j].is = "message" =>
        /\ \A i \in 1 .. Len(A) : A[i] < R[j].number
        /\ \A i \in 1 .. j - 1 : R[i].is = "message" => R[i].number < R[j].number
  <2> TAKE j \in 1 .. Len(R)
  <2> HAVE R[j].is = "message"
  <2>1. \A i \in 1 .. j - 1 : i \in 1 .. Len(R)
    BY DEF Sent
  <2> QED BY <2>1, <1>2 DEF InOrder
<1> QED BY <1>3, <1>4 DEF InOrder

\* What the end keeps is sent, all of it.
LEMMA OrderFlushed ==
  ASSUME NEW A \in Seq(Nat), NEW N \in Seq(ExtFrame), NEW R, NEW W \in Seq(ExtFrame), NEW s \in Nat,
         NEW Q \in Seq(Nat), NEW k \in Nat, InOrder(A, N, s, Q, k), Sent(R, N, W),
         Len(W) = Len(Q), \A i \in 1 .. Len(Q) : W[i].is = "message" /\ W[i].number = Q[i]
  PROVE  InOrder(A, R, s, <<>>, k)
<1>1. /\ Len(N) \in Nat /\ Len(Q) \in Nat /\ Len(A) \in Nat
      /\ \A i \in 1 .. Len(Q) : Q[i] \in Nat
      /\ \A i \in 1 .. Len(A) : A[i] \in Nat
      /\ \A i \in 1 .. Len(N) : N[i].is = "message" => N[i].number \in Nat
  <2>1. \A i \in 1 .. Len(N) : N[i] \in ExtFrame
    OBVIOUS
  <2>2. \A i \in 1 .. Len(N) : N[i].is = "message" => N[i].number \in Nat
    BY <2>1 DEF ExtFrame
  <2>3. /\ Len(N) \in Nat /\ Len(Q) \in Nat /\ Len(A) \in Nat
        /\ \A i \in 1 .. Len(Q) : Q[i] \in Nat
    OBVIOUS
  <2>4. \A i \in 1 .. Len(A) : A[i] \in Nat
    OBVIOUS
  <2> QED BY <2>2, <2>3, <2>4
<1>2. /\ Len(R) = Len(N) + Len(Q)
      /\ \A i \in 1 .. Len(R) : \/ i \in 1 .. Len(N) /\ R[i] = N[i]
                                \/ /\ i - Len(N) \in 1 .. Len(Q) /\ R[i].is = "message"
                                   /\ R[i].number = Q[i - Len(N)]
  <2>1. Len(R) = Len(N) + Len(Q)
    BY DEF Sent
  <2>2. ASSUME NEW i \in 1 .. Len(R), ~(i <= Len(N))
        PROVE  i - Len(N) \in 1 .. Len(Q) /\ R[i] = W[i - Len(N)]
    <3>1. i - Len(N) \in 1 .. Len(Q) /\ Len(N) + (i - Len(N)) = i
      BY <1>1, <2>1, <2>2
    <3> QED BY <3>1 DEF Sent
  <2>3. ASSUME NEW i \in 1 .. Len(R), i <= Len(N)
        PROVE  i \in 1 .. Len(N) /\ R[i] = N[i]
    BY <1>1, <2>1, <2>3 DEF Sent
  <2> QED BY <2>1, <2>2, <2>3, <1>1
<1>3. \A j \in 1 .. Len(Q) : Before(A, N, Q[j]) /\ Q[j] <= k /\ \A i \in 1 .. j - 1 : Q[i] < Q[j]
  BY DEF InOrder
<1>4. Before(A, R, k + 1)
  <2>1. Before(A, N, k + 1)
    BY DEF InOrder
  <2>2. ASSUME NEW i \in 1 .. Len(R), R[i].is = "message"
        PROVE  R[i].number < k + 1
    <3>1. CASE i \in 1 .. Len(N) /\ R[i] = N[i]
      BY <3>1, <2>1, <2>2 DEF Before
    <3>2. CASE i - Len(N) \in 1 .. Len(Q) /\ R[i].number = Q[i - Len(N)]
      <4>1. Q[i - Len(N)] <= k /\ Q[i - Len(N)] \in Nat
        BY <3>2, <1>1, <1>3
      <4> QED BY <4>1, <3>2
    <3> QED BY <3>1, <3>2, <1>2
  <2> QED BY <2>1, <2>2 DEF Before
<1>5. s # 0 => <<>> = <<>> /\ Before(A, R, s) /\ s <= k
  <2> HAVE s # 0
  <2>1. Len(Q) = 0 /\ Before(A, N, s) /\ s <= k
    BY DEF InOrder
  <2> QED BY <2>1, <1>1, <1>2 DEF Before
<1>6. ASSUME NEW j \in 1 .. Len(R), R[j].is = "message"
      PROVE  /\ \A i \in 1 .. Len(A) : A[i] < R[j].number
             /\ \A i \in 1 .. j - 1 : R[i].is = "message" => R[i].number < R[j].number
  <2>1. CASE j \in 1 .. Len(N) /\ R[j] = N[j]
    <3>1. \A i \in 1 .. j - 1 : i \in 1 .. Len(N) /\ R[i] = N[i]
      BY <2>1, <1>1, <1>2
    <3> QED BY <2>1, <3>1, <1>6 DEF InOrder
  <2>2. CASE j - Len(N) \in 1 .. Len(Q) /\ R[j].number = Q[j - Len(N)]
    <3>1. Before(A, N, R[j].number) /\ \A i \in 1 .. (j - Len(N)) - 1 : Q[i] < R[j].number
      BY <2>2, <1>3
    <3>2. ASSUME NEW i \in 1 .. j - 1, R[i].is = "message"
          PROVE  R[i].number < R[j].number
      <4>1. i \in 1 .. Len(R)
        BY <1>1, <1>2
      <4>2. CASE i \in 1 .. Len(N) /\ R[i] = N[i]
        BY <4>2, <3>1, <3>2 DEF Before
      <4>3. CASE i - Len(N) \in 1 .. Len(Q) /\ R[i].number = Q[i - Len(N)]
        <5>1. i - Len(N) \in 1 .. (j - Len(N)) - 1
          BY <4>3, <1>1, <1>2
        <5> QED BY <5>1, <4>3, <3>1
      <4> QED BY <4>1, <4>2, <4>3, <1>2
    <3> QED BY <3>1, <3>2 DEF Before
  <2> QED BY <2>1, <2>2, <1>2
<1>7. \A j \in 1 .. Len(<<>>) :
        Before(A, R, <<>>[j]) /\ <<>>[j] <= k /\ \A i \in 1 .. j - 1 : <<>>[i] < <<>>[j]
  OBVIOUS
<1>8. \A j \in 1 .. Len(A) : \A i \in 1 .. j - 1 : A[i] < A[j]
  BY DEF InOrder
<1> QED BY <1>4, <1>5, <1>6, <1>7, <1>8 DEF InOrder

\* The message that was to be sent without the queue is sent.
LEMMA OrderSentReal ==
  ASSUME NEW A \in Seq(Nat), NEW N \in Seq(ExtFrame), NEW R, NEW s \in Nat \ {0},
         NEW Q \in Seq(Nat), NEW k \in Nat, InOrder(A, N, s, Q, k),
         NEW x \in ExtFrame, x.is = "message", x.number = s, Sent(R, N, <<x>>), Len(<<x>>) = 1,
         <<x>>[1] = x
  PROVE  InOrder(A, R, 0, Q, k)
<1>1. Q = <<>> /\ Before(A, N, s) /\ s <= k /\ Before(A, N, k + 1) /\ Len(N) \in Nat
  BY DEF InOrder
<1>2. /\ Len(R) = Len(N) + 1
      /\ \A i \in 1 .. Len(R) : \/ i \in 1 .. Len(N) /\ R[i] = N[i]
                                \/ i = Len(N) + 1 /\ R[i] = x
  <2>1. Len(R) = Len(N) + 1 /\ R[Len(N) + 1] = x
    BY DEF Sent
  <2> QED BY <2>1, <1>1 DEF Sent
<1>3. Before(A, R, k + 1)
  BY <1>1, <1>2 DEF Before
<1>4. ASSUME NEW j \in 1 .. Len(R), R[j].is = "message"
      PROVE  /\ \A i \in 1 .. Len(A) : A[i] < R[j].number
             /\ \A i \in 1 .. j - 1 : R[i].is = "message" => R[i].number < R[j].number
  <2>1. \A i \in 1 .. j - 1 : i \in 1 .. Len(N) /\ R[i] = N[i]
    BY <1>1, <1>2
  <2>2. CASE j \in 1 .. Len(N) /\ R[j] = N[j]
    BY <2>1, <2>2, <1>4 DEF InOrder
  <2>3. CASE R[j] = x
    BY <2>1, <2>3, <1>1 DEF Before
  <2> QED BY <2>2, <2>3, <1>2
<1>5. \A j \in 1 .. Len(A) : \A i \in 1 .. j - 1 : A[i] < A[j]
  BY DEF InOrder
<1> QED BY <1>1, <1>3, <1>4, <1>5 DEF InOrder

\* The users send one message more.
LEMMA OrderNumbered ==
  ASSUME NEW A \in Seq(Nat), NEW N \in Seq(ExtFrame), NEW Q \in Seq(Nat), NEW k \in Nat,
         InOrder(A, N, 0, Q, k)
  PROVE  /\ InOrder(A, N, 0, Append(Q, k + 1), k + 1)
         /\ Q = <<>> => InOrder(A, N, k + 1, Q, k + 1)
<1>1. /\ \A i \in 1 .. Len(A) : A[i] \in Nat
      /\ \A i \in 1 .. Len(N) : N[i].is = "message" => N[i].number \in Nat
      /\ Len(Q) \in Nat /\ \A i \in 1 .. Len(Q) : Q[i] \in Nat
  <2>1. \A i \in 1 .. Len(N) : N[i] \in ExtFrame
    OBVIOUS
  <2> QED BY <2>1 DEF ExtFrame
<1>2. Before(A, N, k + 1) /\ Before(A, N, (k + 1) + 1)
  BY <1>1 DEF InOrder, Before
<1>3. ASSUME NEW j \in 1 .. Len(Append(Q, k + 1))
      PROVE  /\ Before(A, N, Append(Q, k + 1)[j]) /\ Append(Q, k + 1)[j] <= k + 1
             /\ \A i \in 1 .. j - 1 : Append(Q, k + 1)[i] < Append(Q, k + 1)[j]
  <2>1. /\ Len(Append(Q, k + 1)) = Len(Q) + 1 /\ Append(Q, k + 1)[Len(Q) + 1] = k + 1
        /\ \A i \in 1 .. Len(Q) : Append(Q, k + 1)[i] = Q[i]
    BY AppendProperties
  <2>2. \A i \in 1 .. j - 1 : i \in 1 .. Len(Q)
    BY <2>1, <1>1
  <2>3. CASE j \in 1 .. Len(Q)
    BY <2>1, <2>2, <2>3, <1>1 DEF InOrder
  <2>4. CASE j = Len(Q) + 1
    <3>1. \A i \in 1 .. Len(Q) : Q[i] <= k
      BY DEF InOrder
    <3>2. Append(Q, k + 1)[j] = k + 1
      BY <2>1, <2>4
    <3>3. Before(A, N, Append(Q, k + 1)[j]) /\ Append(Q, k + 1)[j] <= k + 1
      BY <3>2, <1>2
    <3>4. ASSUME NEW i \in 1 .. j - 1
          PROVE  Append(Q, k + 1)[i] < Append(Q, k + 1)[j]
      <4>1. i \in 1 .. Len(Q)
        BY <2>2
      <4>2. Append(Q, k + 1)[i] = Q[i]
        BY <4>1, <2>1
      <4>3. Q[i] < k + 1
        BY <4>1, <3>1, <1>1
      <4> QED BY <4>2, <4>3, <3>2
    <3> QED BY <3>3, <3>4
  <2> QED BY <2>1, <2>3, <2>4, <1>1
<1>4. InOrder(A, N, 0, Append(Q, k + 1), k + 1)
  BY <1>2, <1>3 DEF InOrder
<1>5. Q = <<>> => InOrder(A, N, k + 1, Q, k + 1)
  BY <1>2 DEF InOrder
<1> QED BY <1>4, <1>5

\* The first of what is under way has arrived.
LEMMA OrderArrived ==
  ASSUME NEW A \in Seq(Nat), NEW N \in Seq(ExtFrame), N # <<>>, NEW s, NEW Q, NEW k,
         InOrder(A, N, s, Q, k)
  PROVE  /\ InOrder(A, Tail(N), s, Q, k)
         /\ Head(N).is = "message" => InOrder(Append(A, Head(N).number), Tail(N), s, Q, k)
<1>1. /\ Head(N) = N[1] /\ Len(N) \in Nat /\ Len(N) > 0 /\ Len(Tail(N)) = Len(N) - 1
      /\ \A i \in 1 .. Len(Tail(N)) : Tail(N)[i] = N[i + 1]
  BY HeadTailProperties, EmptySeq
<1>2. 1 \in 1 .. Len(N) /\ \A i \in 1 .. Len(Tail(N)) : i + 1 \in 1 .. Len(N)
  BY <1>1
<1>3. \A x : Before(A, N, x) => Before(A, Tail(N), x)
  BY <1>1, <1>2 DEF Before
<1>4. ASSUME NEW j \in 1 .. Len(Tail(N)), Tail(N)[j].is = "message"
      PROVE  /\ \A i \in 1 .. Len(A) : A[i] < Tail(N)[j].number
             /\ N[1].is = "message" => N[1].number < Tail(N)[j].number
             /\ \A i \in 1 .. j - 1 : Tail(N)[i].is = "message" => Tail(N)[i].number < Tail(N)[j].number
  <2>1. /\ j + 1 \in 1 .. Len(N) /\ Tail(N)[j] = N[j + 1] /\ 1 \in 1 .. (j + 1) - 1
        /\ \A i \in 1 .. j - 1 : i + 1 \in 1 .. (j + 1) - 1 /\ Tail(N)[i] = N[i + 1]
    BY <1>1, <1>2
  <2> QED BY <2>1, <1>4 DEF InOrder
<1>5. InOrder(A, Tail(N), s, Q, k)
  BY <1>3, <1>4 DEF InOrder
<1>6. ASSUME N[1].is = "message"
      PROVE  InOrder(Append(A, N[1].number), Tail(N), s, Q, k)
  <2> DEFINE n == N[1].number
             B == Append(A, n)
  <2>1. n \in Nat
    <3>1. N[1] \in ExtFrame
      BY <1>1
    <3> QED BY <3>1, <1>6 DEF ExtFrame
  <2>2. /\ Len(A) \in Nat /\ Len(B) = Len(A) + 1 /\ B[Len(A) + 1] = n
        /\ \A i \in 1 .. Len(A) : B[i] = A[i]
    BY <2>1, AppendProperties
  <2>3. \A i \in 1 .. Len(A) : A[i] < n
    BY <1>2, <1>6 DEF InOrder
  <2> HIDE DEF n, B
  <2>4. \A i \in 1 .. Len(B) : i \in 1 .. Len(A) \/ i = Len(A) + 1
    BY <2>2
  <2>5. \A x : Before(A, N, x) => Before(B, Tail(N), x)
    BY <2>2, <2>4, <1>2, <1>3, <1>6 DEF Before, n
  <2>6. \A j \in 1 .. Len(B) : \A i \in 1 .. j - 1 : B[i] < B[j]
    <3> TAKE j \in 1 .. Len(B)
    <3>1. \A i \in 1 .. j - 1 : i \in 1 .. Len(A)
      BY <2>2
    <3>2. CASE j \in 1 .. Len(A)
      BY <3>1, <3>2, <2>2 DEF InOrder
    <3>3. CASE j = Len(A) + 1
      BY <3>1, <3>3, <2>2, <2>3
    <3> QED BY <3>2, <3>3, <2>4
  <2>7. \A j \in 1 .. Len(Tail(N)) : Tail(N)[j].is = "message" =>
          \A i \in 1 .. Len(B) : B[i] < Tail(N)[j].number
    BY <2>2, <2>4, <1>4, <1>6 DEF n
  <2>8. InOrder(B, Tail(N), s, Q, k)
    BY <2>5, <2>6, <2>7, <1>4 DEF InOrder
  <2> QED BY <2>8 DEF B, n
<1> QED BY <1>1, <1>5, <1>6

\* What is sent behind a farewell does not take it back if it is but messages.
LEMMA DeniesMessages ==
  ASSUME NEW N \in Seq(ExtFrame), NEW R, NEW W \in Seq(ExtFrame), NEW P, NEW c, Denies(N, P, c),
         Sent(R, N, W), \A i \in 1 .. Len(W) : W[i].is = "message"
  PROVE  Denies(R, P, c)
<1>1. Len(N) \in Nat /\ Len(W) \in Nat /\ Len(R) = Len(N) + Len(W)
  BY DEF Sent
<1>2. \A i \in 1 .. Len(R) : (i \in 1 .. Len(N) /\ R[i] = N[i]) \/ R[i].is = "message"
  <2> TAKE i \in 1 .. Len(R)
  <2>1. CASE i <= Len(N)
    BY <1>1, <2>1 DEF Sent
  <2>2. CASE ~(i <= Len(N))
    <3>1. i - Len(N) \in 1 .. Len(W) /\ Len(N) + (i - Len(N)) = i
      BY <1>1, <2>2
    <3> QED BY <3>1 DEF Sent
  <2> QED BY <2>1, <2>2
<1>3. ASSUME NEW i \in 1 .. Len(N), N[i].is = "state", N[i].state = "Disconnected",
             \A j \in i + 1 .. Len(N) : N[j].is = "message"
      PROVE  Denies(R, P, c)
  <2>1. i \in 1 .. Len(R) /\ R[i] = N[i]
    BY <1>1 DEF Sent
  <2>2. \A j \in i + 1 .. Len(R) : R[j].is = "message"
    <3> TAKE j \in i + 1 .. Len(R)
    <3>1. j \in 1 .. Len(R) /\ (j \in 1 .. Len(N) => j \in i + 1 .. Len(N))
      BY <1>1
    <3> QED BY <3>1, <1>2, <1>3
  <2> QED BY <2>1, <2>2, <1>3 DEF Denies
<1>4. CASE /\ \A j \in 1 .. Len(N) : N[j].is = "message"
           /\ IF Len(P) > 0 THEN P[Len(P)] = "Disconnected" ELSE ~c
  BY <1>2, <1>4 DEF Denies
<1> QED BY <1>3, <1>4 DEF Denies

\* A farewell has been sent.
LEMMA DeniesFarewell ==
  ASSUME NEW N \in Seq(ExtFrame), NEW R, NEW P, NEW c, NEW x, x.is = "state",
         x.state = "Disconnected", Sent(R, N, <<x>>), Len(<<x>>) = 1, <<x>>[1] = x
  PROVE  Denies(R, P, c)
<1>1. Len(R) = Len(N) + 1 /\ Len(N) \in Nat /\ R[Len(N) + 1] = x
  BY DEF Sent
<1>2. Len(R) \in 1 .. Len(R) /\ \A j \in Len(R) + 1 .. Len(R) : FALSE
  BY <1>1
<1> QED BY <1>1, <1>2 DEF Denies

\* The first of what is under way is taken to where it is for, parked, or handled when
\* nothing is parked.
LEMMA DeniesTaken ==
  ASSUME NEW N \in Seq(ExtFrame), N # <<>>, NEW P \in Seq(Ext!ExtState), NEW c, Denies(N, P, c)
  PROVE  /\ Head(N).is = "message" => Denies(Tail(N), P, c)
         /\ Head(N).is = "state" => Denies(Tail(N), Append(P, Head(N).state), c)
         /\ Head(N).is = "state" /\ P = <<>> => Denies(Tail(N), P, Head(N).state # "Disconnected")
<1>1. /\ Head(N) = N[1] /\ Len(N) \in Nat /\ Len(N) > 0 /\ Len(Tail(N)) = Len(N) - 1
      /\ \A i \in 1 .. Len(Tail(N)) : Tail(N)[i] = N[i + 1] /\ i + 1 \in 1 .. Len(N)
      /\ N[1] \in ExtFrame
  BY HeadTailProperties, EmptySeq
<1>2. ASSUME NEW i \in 1 .. Len(N), N[i].is = "state", N[i].state = "Disconnected",
             \A j \in i + 1 .. Len(N) : N[j].is = "message", i # 1
      PROVE  \A Q, d : Denies(Tail(N), Q, d)
  <2>1. i - 1 \in 1 .. Len(Tail(N)) /\ Tail(N)[i - 1] = N[i]
    BY <1>1, <1>2
  <2>2. \A j \in (i - 1) + 1 .. Len(Tail(N)) : Tail(N)[j].is = "message"
    <3> TAKE j \in (i - 1) + 1 .. Len(Tail(N))
    <3>1. j + 1 \in i + 1 .. Len(N) /\ j \in 1 .. Len(Tail(N))
      BY <1>1
    <3> QED BY <3>1, <1>1, <1>2
  <2> QED BY <2>1, <2>2, <1>2 DEF Denies
<1>3. ASSUME N[1].is = "state", N[1].state = "Disconnected",
             \A j \in 2 .. Len(N) : N[j].is = "message"
      PROVE  /\ Denies(Tail(N), Append(P, N[1].state), c)
             /\ P = <<>> => Denies(Tail(N), P, N[1].state # "Disconnected")
  <2>1. \A j \in 1 .. Len(Tail(N)) : Tail(N)[j].is = "message"
    <3> TAKE j \in 1 .. Len(Tail(N))
    <3>1. j + 1 \in 2 .. Len(N)
      BY <1>1
    <3> QED BY <3>1, <1>1, <1>3
  <2>2. N[1].state \in Ext!ExtState
    BY <1>3 DEF Ext!ExtState
  <2>3. /\ Len(Append(P, N[1].state)) = Len(P) + 1 /\ Len(P) \in Nat
        /\ Append(P, N[1].state)[Len(P) + 1] = N[1].state
    BY <2>2, AppendProperties
  <2>4. P = <<>> => ~(Len(P) > 0)
    BY EmptySeq
  <2> QED BY <2>1, <2>3, <2>4, <1>3 DEF Denies
<1>4. ASSUME \A j \in 1 .. Len(N) : N[j].is = "message",
             IF Len(P) > 0 THEN P[Len(P)] = "Disconnected" ELSE ~c
      PROVE  N[1].is = "message" /\ Denies(Tail(N), P, c)
  <2>1. 1 \in 1 .. Len(N)
    BY <1>1
  <2> QED BY <2>1, <1>1, <1>4 DEF Denies
<1>5. CASE \E i \in 1 .. Len(N) :
             /\ N[i].is = "state" /\ N[i].state = "Disconnected"
             /\ \A j \in i + 1 .. Len(N) : N[j].is = "message"
  <2>1. PICK i \in 1 .. Len(N) :
             /\ N[i].is = "state" /\ N[i].state = "Disconnected"
             /\ \A j \in i + 1 .. Len(N) : N[j].is = "message"
    BY <1>5
  <2>2. CASE i = 1
    <3>1. \A j \in 2 .. Len(N) : N[j].is = "message"
      BY <2>1, <2>2
    <3> QED BY <3>1, <2>1, <2>2, <1>3, <1>1
  <2>3. CASE i # 1
    BY <2>1, <2>3, <1>1, <1>2
  <2> QED BY <2>2, <2>3
<1>6. CASE /\ \A j \in 1 .. Len(N) : N[j].is = "message"
           /\ IF Len(P) > 0 THEN P[Len(P)] = "Disconnected" ELSE ~c
  BY <1>6, <1>4, <1>1
<1> QED BY <1>5, <1>6 DEF Denies

\* The first of what is parked is handled, or dropped.
LEMMA DeniesRun ==
  ASSUME NEW N \in Seq(ExtFrame), NEW P \in Seq(Ext!ExtState), P # <<>>, NEW c, NEW d,
         Denies(N, P, c), Head(P) = "Disconnected" => ~d
  PROVE  Denies(N, Tail(P), d)
<1>1. /\ Head(P) = P[1] /\ Len(P) \in Nat /\ Len(P) > 0 /\ Len(Tail(P)) = Len(P) - 1
      /\ \A i \in 1 .. Len(Tail(P)) : Tail(P)[i] = P[i + 1]
  BY HeadTailProperties, EmptySeq
<1>2. Len(P) = 1 \/ Tail(P)[Len(Tail(P))] = P[Len(P)]
  <2>1. CASE Len(P) > 1
    <3>1. Len(Tail(P)) \in 1 .. Len(Tail(P)) /\ Len(Tail(P)) + 1 = Len(P)
      BY <2>1, <1>1
    <3> QED BY <3>1, <1>1
  <2> QED BY <2>1, <1>1
<1> QED BY <1>1, <1>2 DEF Denies

\* The variables at an end.
LEMMA ExtAt ==
  ASSUME ExtInv, NEW e \in Ends
  PROVE  /\ Other(e) \in Ends /\ Other(e) # e /\ Other(Other(e)) = e /\ Ext!Other(e) = Other(e)
         /\ \A g \in Ends : g = e \/ g = Other(e)
         /\ ExtThreads(e) /\ ExtFresh(e) /\ ExtOrder(e) /\ ExtDenies(e)
         /\ ExtThreads(Other(e)) /\ ExtFresh(Other(e)) /\ ExtOrder(Other(e)) /\ ExtDenies(Other(e))
         /\ extNet[e] \in Seq(ExtFrame) /\ extNet[Other(e)] \in Seq(ExtFrame)
         /\ parked[e] \in Seq(Ext!ExtState) /\ sendQ[e] \in Seq(Nat \ {0}) /\ sendQ[e] \in Seq(Nat)
         /\ arrived[e] \in Seq(Nat) /\ arrived[Other(e)] \in Seq(Nat)
         /\ sending[e] \in Nat /\ sent[e] \in Nat /\ binds[e] \in Nat
<1>1. Other(e) \in Ends /\ Other(e) # e /\ Other(Other(e)) = e /\ Ext!Other(e) = Other(e)
  BY ExtEnds
<1>2. \A g \in Ends : g = e \/ g = Other(e)
  BY ExtEnds
<1>3. sendQ[e] \in Seq(Nat \ {0}) => sendQ[e] \in Seq(Nat)
  <2> HAVE sendQ[e] \in Seq(Nat \ {0})
  <2>1. sendQ[e] \in [1 .. Len(sendQ[e]) -> Nat \ {0}] /\ Len(sendQ[e]) \in Nat
    BY LenProperties
  <2> QED BY <2>1, SeqDef
<1> QED BY <1>1, <1>2, <1>3 DEF ExtInv, ExtTypes

\* W is sent by end e.
LEMMA ExtSends ==
  ASSUME ExtInv, NEW e \in Ends, NEW W \in Seq(ExtFrame),
         extNet' = [extNet EXCEPT ![Other(e)] = @ \o W]
  PROVE  /\ extNet' \in [Ends -> Seq(ExtFrame)] /\ extNet'[e] = extNet[e]
         /\ Sent(extNet'[Other(e)], extNet[Other(e)], W)
<1>1. /\ Other(e) \in Ends /\ Other(e) # e /\ extNet \in [Ends -> Seq(ExtFrame)]
      /\ extNet[Other(e)] \in Seq(ExtFrame)
  BY ExtAt DEF ExtInv, ExtTypes
<1>2. Sent(extNet[Other(e)] \o W, extNet[Other(e)], W)
  BY <1>1, FramesSent
<1>3. extNet[Other(e)] \o W \in Seq(ExtFrame)
  BY <1>2 DEF Sent
<1> QED BY <1>1, <1>2, <1>3

\* An end subscribes.
LEMMA ExtAdviseStep == ASSUME ExtInv, NEW e \in Ends, Ext!Advise(e) PROVE ExtInv'
<1>1. ExtTypes'
  BY DEF ExtInv, ExtTypes, Ext!Advise
<1>2. /\ binding[e] = "unbound" /\ binds'[e] = binds[e] + 1 /\ binding'[e] = "advised"
      /\ subscribed'[e] /\ binds[e] + sent[e] < Budget[e] /\ Budget[e] \in Nat
      /\ \A g \in Ends \ {e} : /\ binds'[g] = binds[g] /\ binding'[g] = binding[g]
                               /\ subscribed'[g] = subscribed[g]
      /\ UNCHANGED <<connected, sendQ, sending, flushing, extNet, parked, sent, arrived, crossed>>
  BY EntitiesAssumption DEF Ext!ExtAssumption, ExtInv, ExtTypes, Ext!Advise, Ext!Affords
<1>3. ASSUME NEW g \in Ends
      PROVE  ExtThreads(g)' /\ ExtFresh(g)' /\ ExtOrder(g)' /\ ExtDenies(g)'
  <2>1. /\ ExtThreads(g) /\ ExtFresh(g) /\ ExtOrder(g) /\ ExtDenies(g)
        /\ binds[e] \in Nat /\ sent[e] \in Nat /\ Other(g) \in Ends
        /\ Other(g) # g /\ Other(e) \in Ends
    BY ExtAt
  <2>2. ExtOrder(g)'
    BY <1>2, <2>1 DEF ExtOrder
  <2>3. ExtThreads(g)'
    <3>1. CASE g = e
      <4>1. subscribed'[g] = (binding'[g] # "unbound")
        BY <3>1, <1>2, ExtAt DEF ExtInv, ExtTypes, Ext!Advise, Ext!Unsubscribe
      <4>2. binds'[g] + sent'[g] <= Budget[g]
        BY <3>1, <1>2, <2>1, ExtAt DEF ExtThreads
      <4> QED BY <4>1, <4>2, <1>2, <2>1 DEF ExtThreads
    <3>2. CASE g # e
      BY <3>2, <1>2, <2>1 DEF ExtThreads
    <3> QED BY <3>1, <3>2
  <2>4. ExtFresh(g)'
    BY <1>2, <2>1 DEF ExtFresh
  <2>5. ExtDenies(g)'
    <3>1. CASE g = e
      BY <3>1, <1>2, <2>1 DEF ExtDenies, ExtParted
    <3>2. CASE g # e
      <4>1. Other(g) = e
        BY <3>2, ExtAt
      <4> QED BY <3>2, <4>1, <1>2 DEF ExtDenies, ExtParted
    <3> QED BY <3>1, <3>2
  <2> QED BY <2>2, <2>3, <2>4, <2>5
<1> QED BY <1>1, <1>3 DEF ExtInv

\* What is kept of the order and of the threads when end e sends but states.
LEMMA ExtSendsState ==
  ASSUME ExtInv, NEW e \in Ends, NEW x \in ExtFrame, x.is = "state",
         extNet' = [extNet EXCEPT ![Other(e)] = @ \o <<x>>],
         UNCHANGED <<sendQ, sending, sent, arrived>>
  PROVE  \A g \in Ends : ExtOrder(g)'
<1>1. /\ extNet[Other(e)] \in Seq(ExtFrame) /\ arrived[Other(e)] \in Seq(Nat)
      /\ ExtOrder(e) /\ ExtOrder(Other(e)) /\ Other(Other(e)) = e
      /\ \A g \in Ends : g = e \/ g = Other(e)
  BY ExtAt
<1>2. <<x>> \in Seq(ExtFrame) /\ Len(<<x>>) = 1 /\ <<x>>[1] = x
  BY <1>1, FramesSent
<1>3. extNet'[e] = extNet[e] /\ Sent(extNet'[Other(e)], extNet[Other(e)], <<x>>)
  BY <1>2, ExtSends
<1>4. \A i \in 1 .. Len(<<x>>) : <<x>>[i].is = "state"
  BY <1>2
<1>5. ExtOrder(e)'
  BY <1>1, <1>2, <1>3, <1>4, OrderStatesSent DEF ExtOrder
<1>6. ExtOrder(Other(e))'
  BY <1>1, <1>3 DEF ExtOrder
<1> QED BY <1>1, <1>5, <1>6

\* An end that has subscribed says that it is ready.
LEMMA ExtSendReadyStep == ASSUME ExtInv, NEW e \in Ends, Ext!SendReady(e) PROVE ExtInv'
<1> DEFINE x == Ext!State("Ready")
<1>1. x \in ExtFrame /\ x.is = "state"
  BY DEF ExtFrame, Ext!State, Ext!ExtState
<1>2. /\ Other(e) \in Ends /\ Other(e) # e /\ Other(Other(e)) = e /\ Ext!Other(e) = Other(e)
      /\ \A g \in Ends : g = e \/ g = Other(e)
      /\ extNet[Other(e)] \in Seq(ExtFrame)
  BY ExtAt
<1>3. /\ binding[e] = "advised" /\ binding'[e] = "bound"
      /\ extNet' = [extNet EXCEPT ![Other(e)] = @ \o <<x>>]
      /\ binding' \in [Ends -> {"unbound", "advised", "bound", "leaving"}]
      /\ \A g \in Ends \ {e} : binding'[g] = binding[g]
      /\ UNCHANGED <<subscribed, connected, sendQ, sending, flushing, parked, binds, sent, arrived,
                     crossed>>
  BY <1>2 DEF Ext!SendReady, Ext!Carry, ExtInv, ExtTypes
<1> HIDE DEF x
<1>4. /\ <<x>> \in Seq(ExtFrame) /\ Len(<<x>>) = 1 /\ <<x>>[1] = x
  BY <1>1, <1>2, FramesSent
<1>5. /\ extNet' \in [Ends -> Seq(ExtFrame)] /\ extNet'[e] = extNet[e]
      /\ Sent(extNet'[Other(e)], extNet[Other(e)], <<x>>)
  BY <1>3, <1>4, ExtSends
<1>6. \A g \in Ends : ExtOrder(g)'
  BY <1>1, <1>3, ExtSendsState
<1>7. ExtTypes'
  BY <1>3, <1>5 DEF ExtInv, ExtTypes
<1>8. binds[e] # 0
  BY <1>3, ExtAt DEF ExtFresh
<1>9. ASSUME NEW g \in Ends
      PROVE  ExtThreads(g)'
  <2>1. ExtThreads(g) /\ subscribed'[g] = subscribed[g] /\ sending'[g] = sending[g]
    BY <1>3, ExtAt
  <2>2. CASE g = e
    BY <2>1, <2>2, <1>3 DEF ExtThreads
  <2>3. CASE g # e
    <3>1. binding'[g] = binding[g]
      BY <2>3, <1>3
    <3> QED BY <2>1, <3>1, <1>3 DEF ExtThreads
  <2> QED BY <2>2, <2>3
<1>10. ASSUME NEW g \in Ends
       PROVE  ExtFresh(g)'
  <2>1. CASE g = e
    BY <2>1, <1>3, <1>8 DEF ExtFresh
  <2>2. CASE g = Other(e)
    <3>1. \A j \in 1 .. Len(extNet'[g]) : \/ j \in 1 .. Len(extNet[g]) /\ extNet'[g][j] = extNet[g][j]
                                         \/ extNet'[g][j] = x
      <4>1. /\ Len(extNet'[g]) = Len(extNet[g]) + 1 /\ Len(extNet[g]) \in Nat
            /\ extNet'[g][Len(extNet[g]) + 1] = x
        BY <1>2, <1>4, <1>5, <2>2 DEF Sent
      <4> QED BY <4>1, <1>5, <2>2 DEF Sent
    <3>2. ExtFresh(g)
      BY ExtAt
    <3> QED BY <3>1, <3>2, <2>2, <1>1, <1>2, <1>3, <1>5 DEF ExtFresh
  <2> QED BY <2>1, <2>2, <1>2
<1>11. ASSUME NEW g \in Ends
       PROVE  ExtDenies(g)'
  <2>1. CASE g = e
    BY <2>1, <1>2, <1>3, <1>5, <1>8, ExtAt DEF ExtDenies, ExtParted
  <2>2. CASE g = Other(e)
    BY <2>2, <1>2, <1>3 DEF ExtDenies, ExtParted
  <2> QED BY <2>1, <2>2, <1>2
<1> QED BY <1>6, <1>7, <1>9, <1>10, <1>11 DEF ExtInv

\* An end says that it leaves.
LEMMA ExtSendDisconnectedStep ==
  ASSUME ExtInv, NEW e \in Ends, Ext!SendDisconnected(e) PROVE ExtInv'
<1> DEFINE x == Ext!State("Disconnected")
<1>1. x \in ExtFrame /\ x.is = "state" /\ x.state = "Disconnected"
  BY DEF ExtFrame, Ext!State, Ext!ExtState
<1>2. /\ Other(e) \in Ends /\ Other(e) # e /\ Other(Other(e)) = e /\ Ext!Other(e) = Other(e)
      /\ \A g \in Ends : g = e \/ g = Other(e)
      /\ extNet[Other(e)] \in Seq(ExtFrame)
  BY ExtAt
<1>3. /\ binding[e] = "bound" /\ binding'[e] = "leaving"
      /\ extNet' = [extNet EXCEPT ![Other(e)] = @ \o <<x>>]
      /\ binding' \in [Ends -> {"unbound", "advised", "bound", "leaving"}]
      /\ \A g \in Ends \ {e} : binding'[g] = binding[g]
      /\ UNCHANGED <<subscribed, connected, sendQ, sending, flushing, parked, binds, sent, arrived,
                     crossed>>
  BY <1>2 DEF Ext!SendDisconnected, Ext!Carry, ExtInv, ExtTypes
<1> HIDE DEF x
<1>4. /\ <<x>> \in Seq(ExtFrame) /\ Len(<<x>>) = 1 /\ <<x>>[1] = x
  BY <1>1, <1>2, FramesSent
<1>5. /\ extNet' \in [Ends -> Seq(ExtFrame)] /\ extNet'[e] = extNet[e]
      /\ Sent(extNet'[Other(e)], extNet[Other(e)], <<x>>)
  BY <1>3, <1>4, ExtSends
<1>6. \A g \in Ends : ExtOrder(g)'
  BY <1>1, <1>3, ExtSendsState
<1>7. ExtTypes'
  BY <1>3, <1>5 DEF ExtInv, ExtTypes
<1>8. binds[e] # 0
  BY <1>3, ExtAt DEF ExtFresh
<1>9. ASSUME NEW g \in Ends
      PROVE  ExtThreads(g)'
  <2>1. ExtThreads(g) /\ subscribed'[g] = subscribed[g] /\ sending'[g] = sending[g]
    BY <1>3, ExtAt
  <2>2. CASE g = e
    BY <2>1, <2>2, <1>3 DEF ExtThreads
  <2>3. CASE g # e
    <3>1. binding'[g] = binding[g]
      BY <2>3, <1>3
    <3> QED BY <2>1, <3>1, <1>3 DEF ExtThreads
  <2> QED BY <2>2, <2>3
<1>10. ASSUME NEW g \in Ends
       PROVE  ExtFresh(g)'
  <2>1. CASE g = e
    BY <2>1, <1>3, <1>8 DEF ExtFresh
  <2>2. CASE g = Other(e)
    <3>1. \A j \in 1 .. Len(extNet'[g]) : \/ j \in 1 .. Len(extNet[g]) /\ extNet'[g][j] = extNet[g][j]
                                         \/ extNet'[g][j] = x
      <4>1. /\ Len(extNet'[g]) = Len(extNet[g]) + 1 /\ Len(extNet[g]) \in Nat
            /\ extNet'[g][Len(extNet[g]) + 1] = x
        BY <1>2, <1>4, <1>5, <2>2 DEF Sent
      <4> QED BY <4>1, <1>5, <2>2 DEF Sent
    <3>2. ExtFresh(g)
      BY ExtAt
    <3> QED BY <3>1, <3>2, <2>2, <1>1, <1>2, <1>3, <1>5 DEF ExtFresh
  <2> QED BY <2>1, <2>2, <1>2
<1>11. ASSUME NEW g \in Ends
       PROVE  ExtDenies(g)'
  <2>1. CASE g = e
    BY <2>1, <1>2, <1>3, <1>8 DEF ExtDenies, ExtParted
  <2>2. CASE g = Other(e)
    BY <2>2, <1>1, <1>2, <1>4, <1>5, DeniesFarewell DEF ExtDenies, ExtParted
  <2> QED BY <2>1, <2>2, <1>2
<1> QED BY <1>6, <1>7, <1>9, <1>10, <1>11 DEF ExtInv

\* ... and does.
LEMMA ExtUnsubscribeStep == ASSUME ExtInv, NEW e \in Ends, Ext!Unsubscribe(e) PROVE ExtInv'
<1>1. ExtTypes'
  BY DEF ExtInv, ExtTypes, Ext!Unsubscribe
<1>2. /\ binding[e] = "leaving" /\ binding'[e] = "unbound" /\ ~subscribed'[e]
      /\ \A g \in Ends \ {e} : binding'[g] = binding[g] /\ subscribed'[g] = subscribed[g]
      /\ UNCHANGED <<connected, sendQ, sending, flushing, extNet, parked, binds, sent, arrived, crossed>>
  BY DEF ExtInv, ExtTypes, Ext!Unsubscribe
<1>3. binds[e] # 0
  BY <1>2, ExtAt DEF ExtFresh
<1>4. ASSUME NEW g \in Ends
      PROVE  ExtThreads(g)' /\ ExtFresh(g)' /\ ExtOrder(g)' /\ ExtDenies(g)'
  <2>1. /\ ExtThreads(g) /\ ExtFresh(g) /\ ExtOrder(g) /\ ExtDenies(g)
        /\ Other(g) \in Ends /\ Other(g) # g
    BY ExtAt
  <2>2. ExtOrder(g)'
    BY <1>2, <2>1 DEF ExtOrder
  <2>3. ExtThreads(g)'
    <3>1. CASE g = e
      <4>1. subscribed'[g] = (binding'[g] # "unbound")
        BY <3>1, <1>2, ExtAt DEF ExtInv, ExtTypes, Ext!Advise, Ext!Unsubscribe
      <4>2. binds'[g] + sent'[g] <= Budget[g]
        BY <3>1, <1>2, <2>1, ExtAt DEF ExtThreads
      <4> QED BY <4>1, <4>2, <1>2, <2>1 DEF ExtThreads
    <3>2. CASE g # e
      BY <3>2, <1>2, <2>1 DEF ExtThreads
    <3> QED BY <3>1, <3>2
  <2>4. ExtFresh(g)'
    BY <1>2, <1>3, <2>1 DEF ExtFresh
  <2>5. ExtDenies(g)'
    <3>1. CASE g = e
      BY <3>1, <1>2, <1>3, <2>1 DEF ExtDenies, ExtParted
    <3>2. CASE g # e
      <4>1. Other(g) = e
        BY <3>2, ExtAt
      <4> QED BY <3>2, <4>1, <1>2, <2>1 DEF ExtDenies, ExtParted
    <3> QED BY <3>1, <3>2
  <2> QED BY <2>2, <2>3, <2>4, <2>5
<1> QED BY <1>1, <1>4 DEF ExtInv

\* End e, which is subscribed, handles a state: under is what is under way without it.
LEMMA ExtHandles ==
  ASSUME ExtInv, NEW e \in Ends, NEW state \in Ext!ExtState, NEW thread \in Ext!Threads,
         NEW under \in [Ends -> Seq(ExtFrame)], under[Other(e)] = extNet[Other(e)],
         subscribed[e], binds[Other(e)] # 0, thread = "default" => sending[e] = 0,
         Ext!OnWireReceived(e, state, thread, under),
         parked' \in [Ends -> Seq(Ext!ExtState)], parked'[Other(e)] = parked[Other(e)],
         UNCHANGED <<binding, subscribed, sendQ, sending, binds, sent, arrived>>,
         InOrder(arrived[e], under[e], sending[Other(e)], sendQ[Other(e)], sent[Other(e)]),
         ExtParted(e) => Denies(under[e], parked'[e], state # "Disconnected")
  PROVE  ExtInv'
<1> DEFINE x == Ext!State("ReceivedCounterpart")
           o == Other(e)
<1>1. x \in ExtFrame /\ x.is = "state"
  BY DEF ExtFrame, Ext!State, Ext!ExtState
<1>2. /\ o \in Ends /\ o # e /\ Other(o) = e /\ Ext!Other(e) = o
      /\ \A g \in Ends : g = e \/ g = o
      /\ extNet[o] \in Seq(ExtFrame) /\ arrived[o] \in Seq(Nat)
      /\ ExtThreads(e) /\ ExtThreads(o) /\ ExtOrder(e) /\ ExtFresh(e) /\ ExtDenies(o)
  BY ExtAt
<1>3. binds[e] # 0 /\ binding[e] # "unbound"
  BY <1>2 DEF ExtThreads, ExtFresh
<1>4. /\ Sent(Append(extNet[o], x), extNet[o], <<x>>) /\ <<x>> \in Seq(ExtFrame)
      /\ Len(<<x>>) = 1 /\ <<x>>[1] = x
  BY <1>1, <1>2, FramesSent
<1>5. /\ connected' \in [Ends -> BOOLEAN] /\ connected'[e] = (state # "Disconnected")
      /\ connected'[o] = connected[o]
      /\ flushing' \in [Ends -> SUBSET Ext!Threads]
      /\ flushing'[o] = flushing[o] /\ (flushing'[e] = flushing[e] \/ flushing'[e] = flushing[e] \cup {thread})
      /\ crossed' \in [Ends -> BOOLEAN] /\ crossed'[e] = crossed[e]
      /\ crossed[o] => crossed'[o]
      /\ state = "Ready" /\ binding[e] = "leaving" => crossed'[o]
  <2>1. /\ connected' = [connected EXCEPT ![e] = state # "Disconnected"]
        /\ flushing' = [flushing EXCEPT ![e] = IF state # "Disconnected" /\ ~connected[e]
                                               THEN @ \cup {thread} ELSE @]
        /\ crossed' = [crossed EXCEPT ![o] = @ \/ (state = "Ready" /\ binding[e] = "leaving")]
    BY <1>2 DEF Ext!OnWireReceived, Ext!SetConnected
  <2>2. /\ connected \in [Ends -> BOOLEAN] /\ flushing \in [Ends -> SUBSET Ext!Threads]
        /\ crossed \in [Ends -> BOOLEAN]
    BY DEF ExtInv, ExtTypes
  <2> HIDE DEF o
  <2>3. connected' \in [Ends -> BOOLEAN] /\ connected'[e] = (state # "Disconnected") /\ connected'[o] = connected[o]
    BY <2>1, <2>2, <1>2
  <2>4. /\ flushing' \in [Ends -> SUBSET Ext!Threads] /\ flushing'[o] = flushing[o]
        /\ (flushing'[e] = flushing[e] \/ flushing'[e] = flushing[e] \cup {thread})
    BY <2>1, <2>2, <1>2
  <2>5. crossed' \in [Ends -> BOOLEAN] /\ crossed'[e] = crossed[e]
    BY <2>1, <2>2, <1>2
  <2>6. crossed'[o] = (crossed[o] \/ (state = "Ready" /\ binding[e] = "leaving"))
    BY <2>1, <2>2, <1>2
  <2> QED BY <2>3, <2>4, <2>5, <2>6
<1>6. /\ extNet' \in [Ends -> Seq(ExtFrame)] /\ extNet'[e] = under[e]
      /\ \/ extNet'[o] = extNet[o]
         \/ state = "Ready" /\ Sent(extNet'[o], extNet[o], <<x>>)
  <2>1. CASE state = "Ready"
    <3>1. extNet' = [under EXCEPT ![o] = Append(@, x)]
      BY <2>1, <1>2 DEF Ext!OnWireReceived, Ext!Answered
    <3>2. Append(under[o], x) \in Seq(ExtFrame) /\ under[o] = extNet[o]
      BY <1>1, <1>2, AppendProperties
    <3> HIDE DEF o, x
    <3> QED BY <3>1, <3>2, <2>1, <1>2, <1>4
  <2>2. CASE state # "Ready"
    BY <2>2, <1>2 DEF Ext!OnWireReceived, Ext!Answered
  <2> QED BY <2>1, <2>2
<1> HIDE DEF x
<1>7. ExtTypes'
  BY <1>5, <1>6 DEF ExtInv, ExtTypes
<1>8. ExtThreads(e)' /\ ExtThreads(o)'
  <2>1. ExtThreads(o)'
    BY <1>2, <1>5 DEF ExtThreads
  <2>2. ExtThreads(e)'
    <3>1. sending'[e] # 0 => "default" \notin flushing'[e]
      BY <1>2, <1>5 DEF ExtThreads
    <3> QED BY <3>1, <1>2 DEF ExtThreads
  <2> QED BY <2>1, <2>2
<1>9. ExtFresh(e)' /\ ExtFresh(o)'
  BY <1>3 DEF ExtFresh
<1>10. ExtOrder(e)' /\ ExtOrder(o)'
  <2>1. arrived' = arrived /\ sending' = sending /\ sendQ' = sendQ /\ sent' = sent
    OBVIOUS
  <2>2. /\ InOrder(arrived[e], under[e], sending[o], sendQ[o], sent[o])
        /\ InOrder(arrived[o], extNet[o], sending[e], sendQ[e], sent[e])
    BY <1>2 DEF ExtOrder
  <2>3. InOrder(arrived[o], extNet'[o], sending[e], sendQ[e], sent[e])
    <3>1. CASE extNet'[o] = extNet[o]
      BY <3>1, <2>2
    <3>2. CASE Sent(extNet'[o], extNet[o], <<x>>)
      <4>1. \A i \in 1 .. Len(<<x>>) : <<x>>[i].is = "state"
        BY <1>1, <1>4
      <4>2. extNet[o] \in Seq(ExtFrame) /\ arrived[o] \in Seq(Nat) /\ <<x>> \in Seq(ExtFrame)
        BY <1>2, <1>4
      <4> HIDE DEF o
      <4> QED BY <3>2, <4>1, <4>2, <2>2, OrderStatesSent
    <3> QED BY <3>1, <3>2, <1>6
  <2>4. /\ InOrder(arrived'[e], extNet'[e], sending'[o], sendQ'[o], sent'[o])
        /\ InOrder(arrived'[o], extNet'[o], sending'[e], sendQ'[e], sent'[e])
    BY <2>1, <2>2, <2>3, <1>6
  <2>5. Other(o) = e
    BY <1>2
  <2> QED BY <2>4, <2>5 DEF ExtOrder
<1>11. ExtDenies(e)'
  <2>1. ExtParted(e)' => ExtParted(e)
    BY <1>5 DEF ExtParted
  <2>2. extNet'[e] = under[e] /\ connected'[e] = (state # "Disconnected")
    BY <1>5, <1>6
  <2> QED BY <2>1, <2>2 DEF ExtDenies
<1>12. ExtDenies(o)'
  <2>1. ExtParted(o)' => ExtParted(o) /\ state # "Ready"
    BY <1>2, <1>3, <1>5 DEF ExtParted
  <2> QED BY <2>1, <1>2, <1>5, <1>6 DEF ExtDenies
<1> QED BY <1>2, <1>7, <1>8, <1>9, <1>10, <1>11, <1>12 DEF ExtInv

\* The wire's thread takes what comes first.
LEMMA ExtReceiveStep == ASSUME ExtInv, NEW e \in Ends, Ext!Receive(e) PROVE ExtInv'
<1> DEFINE o == Other(e)
           frame == Head(extNet[e])
           rest == [extNet EXCEPT ![e] = Tail(extNet[e])]
<1>1. /\ o \in Ends /\ o # e /\ Other(o) = e
      /\ \A g \in Ends : g = e \/ g = o
      /\ extNet[e] \in Seq(ExtFrame) /\ extNet[o] \in Seq(ExtFrame)
      /\ arrived[e] \in Seq(Nat) /\ parked[e] \in Seq(Ext!ExtState)
      /\ ExtThreads(e) /\ ExtThreads(o) /\ ExtOrder(e) /\ ExtOrder(o) /\ ExtFresh(e) /\ ExtFresh(o)
      /\ ExtDenies(e) /\ ExtDenies(o)
  BY ExtAt
<1>2. /\ extNet[e] # <<>> /\ "wire" \notin flushing[e]
      /\ UNCHANGED <<binding, subscribed, sendQ, sending, binds, sent>>
  BY DEF Ext!Receive
<1>3. /\ frame \in ExtFrame /\ Len(extNet[e]) > 0 /\ frame = extNet[e][1]
      /\ 1 \in 1 .. Len(extNet[e])
      /\ Tail(extNet[e]) \in Seq(ExtFrame) /\ Len(Tail(extNet[e])) = Len(extNet[e]) - 1
      /\ Len(extNet[e]) \in Nat
      /\ \A j \in 1 .. Len(Tail(extNet[e])) : Tail(extNet[e])[j] = extNet[e][j + 1]
  BY <1>1, <1>2, HeadTailProperties, EmptySeq
<1>4. /\ rest \in [Ends -> Seq(ExtFrame)] /\ rest[e] = Tail(extNet[e]) /\ rest[o] = extNet[o]
  BY <1>1, <1>3 DEF ExtInv, ExtTypes
<1>5. binds[o] # 0
  <2>1. extNet[e] # <<>>
    BY <1>2
  <2>2. Other(o) = e
    BY <1>1
  <2> QED BY <2>1, <2>2, <1>1 DEF ExtFresh
<1>6. binds[e] = 0 => /\ frame.is = "state"
                      /\ \A j \in 1 .. Len(Tail(extNet[e])) : Tail(extNet[e])[j].is = "state"
  <2>1. \A j \in 1 .. Len(Tail(extNet[e])) : j + 1 \in 1 .. Len(extNet[e])
    BY <1>3
  <2> QED BY <2>1, <1>1, <1>3 DEF ExtFresh
<1>7. /\ InOrder(arrived[e], extNet[e], sending[o], sendQ[o], sent[o])
      /\ InOrder(arrived[o], extNet[o], sending[e], sendQ[e], sent[e])
  BY <1>1 DEF ExtOrder
<1> HIDE DEF rest
<1>8. CASE frame.is = "message"
  <2>1. /\ arrived' = [arrived EXCEPT ![e] = Append(@, frame.number)] /\ extNet' = rest
        /\ UNCHANGED <<connected, flushing, parked, crossed>>
    BY <1>8 DEF Ext!Receive, rest
  <2>2. frame.number \in Nat
    BY <1>3, <1>8 DEF ExtFrame
  <2>3. /\ arrived' \in [Ends -> Seq(Nat)] /\ arrived'[e] = Append(arrived[e], frame.number)
        /\ arrived'[o] = arrived[o]
    <3>1. Append(arrived[e], frame.number) \in Seq(Nat)
      BY <1>1, <2>2, AppendProperties
    <3> QED BY <2>1, <3>1, <1>1 DEF ExtInv, ExtTypes
  <2>4. ExtTypes'
    BY <2>1, <2>3, <1>2, <1>4 DEF ExtInv, ExtTypes
  <2>5. ExtThreads(e)' /\ ExtThreads(o)'
    BY <2>1, <1>1, <1>2 DEF ExtThreads
  <2>6. ExtFresh(e)' /\ ExtFresh(o)'
    BY <1>2, <1>5, <1>6, <1>8 DEF ExtFresh
  <2>7. ExtOrder(e)' /\ ExtOrder(o)'
    <3>1. InOrder(Append(arrived[e], frame.number), Tail(extNet[e]), sending[o], sendQ[o], sent[o])
      BY <1>1, <1>2, <1>7, <1>8, OrderArrived
    <3>2. /\ InOrder(arrived'[e], extNet'[e], sending'[o], sendQ'[o], sent'[o])
          /\ InOrder(arrived'[o], extNet'[o], sending'[e], sendQ'[e], sent'[e])
      BY <3>1, <2>1, <2>3, <1>2, <1>4, <1>7
    <3>3. Other(o) = e
      BY <1>1
    <3> QED BY <3>2, <3>3 DEF ExtOrder
  <2>8. ExtDenies(e)' /\ ExtDenies(o)'
    <3>1. \A g \in Ends : ExtParted(g)' => ExtParted(g)
      BY <2>1, <1>2 DEF ExtParted
    <3>2. Denies(extNet[e], parked[e], connected[e]) =>
            Denies(Tail(extNet[e]), parked[e], connected[e])
      BY <1>1, <1>2, <1>8, DeniesTaken
    <3>3. extNet'[e] = Tail(extNet[e]) /\ extNet'[o] = extNet[o]
      BY <2>1, <1>4
    <3> QED BY <3>1, <3>2, <3>3, <2>1, <1>1 DEF ExtDenies
  <2> QED BY <2>4, <2>5, <2>6, <2>7, <2>8, <1>1 DEF ExtInv
<1>9. CASE frame.is = "state" /\ subscribed[e] /\ parked[e] = <<>>
  <2>1. /\ Ext!OnWireReceived(e, frame.state, "wire", rest)
        /\ UNCHANGED <<parked, arrived>>
    BY <1>9 DEF Ext!Receive, rest
  <2>2. frame.state \in Ext!ExtState /\ "wire" \in Ext!Threads /\ "wire" # "default"
    BY <1>3, <1>9 DEF ExtFrame, Ext!Threads
  <2>3. InOrder(arrived[e], rest[e], sending[o], sendQ[o], sent[o])
    BY <1>1, <1>2, <1>4, <1>7, OrderArrived
  <2>4. ExtParted(e) => Denies(rest[e], parked'[e], frame.state # "Disconnected")
    <3>1. Denies(extNet[e], parked[e], connected[e]) =>
            Denies(Tail(extNet[e]), parked[e], frame.state # "Disconnected")
      BY <1>1, <1>2, <1>9, DeniesTaken
    <3> QED BY <3>1, <2>1, <1>1, <1>4 DEF ExtDenies
  <2>5. parked' \in [Ends -> Seq(Ext!ExtState)] /\ parked'[o] = parked[o]
    BY <2>1 DEF ExtInv, ExtTypes
  <2> HIDE DEF frame
  <2> QED BY <2>1, <2>2, <2>3, <2>4, <2>5, <1>2, <1>4, <1>5, <1>9, ExtHandles
<1>10. CASE frame.is # "message" /\ ~(frame.is = "state" /\ subscribed[e] /\ parked[e] = <<>>)
  <2>1. /\ parked' = [parked EXCEPT ![e] = Append(@, frame.state)] /\ extNet' = rest
        /\ UNCHANGED <<connected, flushing, arrived, crossed>>
    BY <1>10 DEF Ext!Receive, rest
  <2>2. frame.is = "state" /\ frame.state \in Ext!ExtState
    BY <1>3, <1>10 DEF ExtFrame
  <2>3. /\ parked' \in [Ends -> Seq(Ext!ExtState)] /\ parked'[e] = Append(parked[e], frame.state)
        /\ parked'[o] = parked[o]
    <3>1. Append(parked[e], frame.state) \in Seq(Ext!ExtState)
      BY <1>1, <2>2, AppendProperties
    <3> QED BY <2>1, <3>1, <1>1 DEF ExtInv, ExtTypes
  <2>4. ExtTypes'
    BY <2>1, <2>3, <1>2, <1>4 DEF ExtInv, ExtTypes
  <2>5. ExtThreads(e)' /\ ExtThreads(o)'
    BY <2>1, <1>1, <1>2 DEF ExtThreads
  <2>6. ExtFresh(e)' /\ ExtFresh(o)'
    <3>1. extNet'[e] = Tail(extNet[e]) /\ extNet'[o] = extNet[o]
      BY <2>1, <1>4
    <3>2. ExtFresh(o)'
      BY <1>2, <1>5 DEF ExtFresh
    <3>3. binds'[e] = 0 => binds[e] = 0
      BY <1>2
    <3> QED BY <3>1, <3>2, <3>3, <2>1, <2>3, <1>1, <1>2, <1>6 DEF ExtFresh
  <2>7. ExtOrder(e)' /\ ExtOrder(o)'
    <3>1. InOrder(arrived[e], Tail(extNet[e]), sending[o], sendQ[o], sent[o])
      BY <1>1, <1>2, <1>7, OrderArrived
    <3>2. /\ InOrder(arrived'[e], extNet'[e], sending'[o], sendQ'[o], sent'[o])
          /\ InOrder(arrived'[o], extNet'[o], sending'[e], sendQ'[e], sent'[e])
      BY <3>1, <2>1, <1>2, <1>4, <1>7
    <3>3. Other(o) = e
      BY <1>1
    <3> QED BY <3>2, <3>3 DEF ExtOrder
  <2>8. ExtDenies(e)' /\ ExtDenies(o)'
    <3>1. \A g \in Ends : ExtParted(g)' => ExtParted(g)
      BY <2>1, <1>2 DEF ExtParted
    <3>2. Denies(extNet[e], parked[e], connected[e]) =>
            Denies(Tail(extNet[e]), Append(parked[e], frame.state), connected[e])
      BY <1>1, <1>2, <2>2, DeniesTaken
    <3>3. extNet'[e] = Tail(extNet[e]) /\ extNet'[o] = extNet[o]
      BY <2>1, <1>4
    <3> QED BY <3>1, <3>2, <3>3, <2>1, <2>3, <1>1 DEF ExtDenies
  <2> QED BY <2>4, <2>5, <2>6, <2>7, <2>8, <1>1 DEF ExtInv
<1> QED BY <1>8, <1>9, <1>10

\* The default scheduler's thread takes what is parked first.
LEMMA ExtRunParkedStep == ASSUME ExtInv, NEW e \in Ends, Ext!RunParked(e) PROVE ExtInv'
<1> DEFINE o == Other(e)
           state == Head(parked[e])
<1>1. /\ o \in Ends /\ o # e /\ Other(o) = e
      /\ \A g \in Ends : g = e \/ g = o
      /\ extNet[e] \in Seq(ExtFrame) /\ parked[e] \in Seq(Ext!ExtState)
      /\ ExtThreads(e) /\ ExtThreads(o) /\ ExtOrder(e) /\ ExtOrder(o) /\ ExtFresh(e) /\ ExtFresh(o)
      /\ ExtDenies(e) /\ ExtDenies(o)
  BY ExtAt
<1>2. /\ parked[e] # <<>> /\ sending[e] = 0
      /\ parked' = [parked EXCEPT ![e] = Tail(@)]
      /\ UNCHANGED <<binding, subscribed, sendQ, sending, binds, sent, arrived>>
  BY DEF Ext!RunParked, Ext!NoMessage
<1>3. state \in Ext!ExtState /\ Tail(parked[e]) \in Seq(Ext!ExtState)
  BY <1>1, <1>2, HeadTailProperties
<1>4. /\ parked' \in [Ends -> Seq(Ext!ExtState)] /\ parked'[e] = Tail(parked[e])
      /\ parked'[o] = parked[o]
  BY <1>1, <1>2, <1>3 DEF ExtInv, ExtTypes
<1>5. binds[o] # 0
  <2>1. Other(o) = e
    BY <1>1
  <2> QED BY <2>1, <1>1, <1>2 DEF ExtFresh
<1>6. \A d : (state = "Disconnected" => ~d) /\ ExtParted(e) => Denies(extNet[e], Tail(parked[e]), d)
  BY <1>1, <1>2, DeniesRun DEF ExtDenies
<1> HIDE DEF state
<1>7. CASE subscribed[e]
  <2>1. Ext!OnWireReceived(e, state, "default", extNet)
    BY <1>7 DEF Ext!RunParked, state
  <2>2. InOrder(arrived[e], extNet[e], sending[o], sendQ[o], sent[o])
    BY <1>1 DEF ExtOrder
  <2>3. extNet \in [Ends -> Seq(ExtFrame)] /\ "default" \in Ext!Threads
    BY DEF ExtInv, ExtTypes, Ext!Threads
  <2>4. ExtParted(e) => Denies(extNet[e], parked'[e], state # "Disconnected")
    BY <1>4, <1>6
  <2> QED BY <2>1, <2>2, <2>3, <2>4, <1>2, <1>3, <1>4, <1>5, <1>7, ExtHandles
<1>8. CASE ~subscribed[e]
  <2>1. UNCHANGED <<connected, flushing, extNet, crossed>>
    BY <1>8 DEF Ext!RunParked
  <2>2. ExtTypes'
    BY <2>1, <1>2, <1>4 DEF ExtInv, ExtTypes
  <2>3. \A g \in Ends : ExtThreads(g)' /\ ExtOrder(g)'
    BY <2>1, <1>2, ExtAt DEF ExtThreads, ExtOrder
  <2>4. ExtFresh(e)' /\ ExtFresh(o)'
    BY <2>1, <1>1, <1>2, <1>4, <1>5 DEF ExtFresh
  <2>5. ExtDenies(o)'
    BY <2>1, <1>1, <1>2, <1>4 DEF ExtDenies, ExtParted
  <2>6. ExtDenies(e)'
    <3>1. binding[e] = "unbound"
      BY <1>1, <1>8 DEF ExtThreads
    <3>2. ExtParted(e)' => ExtParted(e) /\ binds[e] = 0
      BY <2>1, <3>1, <1>2 DEF ExtParted
    <3>3. ExtParted(e)' => ~connected[e]
      BY <3>2, <1>1 DEF ExtFresh
    <3> QED BY <3>2, <3>3, <2>1, <1>4, <1>6 DEF ExtDenies
  <2> QED BY <2>2, <2>3, <2>4, <2>5, <2>6, <1>1 DEF ExtInv
<1> QED BY <1>7, <1>8

\* End e, which sends or flushes, has been bound, and so has the other one.
LEMMA ExtBusy ==
  ASSUME ExtInv, NEW e \in Ends, flushing[e] # {} \/ sending[e] # 0
  PROVE  binds[e] # 0 /\ binds[Other(e)] # 0
<1>1. /\ ExtFresh(e) /\ ExtFresh(Other(e)) /\ Other(Other(e)) = e
  BY ExtAt
<1> QED BY <1>1 DEF ExtFresh

\* End e sends the messages W.
LEMMA ExtSendsMessages ==
  ASSUME ExtInv, NEW e \in Ends, NEW W \in Seq(ExtFrame), \A i \in 1 .. Len(W) : W[i].is = "message",
         extNet' = [extNet EXCEPT ![Other(e)] = @ \o W],
         sendQ' \in [Ends -> Seq(Nat \ {0})], sendQ'[Other(e)] = sendQ[Other(e)],
         sending' \in [Ends -> Nat], sending'[Other(e)] = sending[Other(e)],
         flushing' \in [Ends -> SUBSET Ext!Threads], flushing'[Other(e)] = flushing[Other(e)],
         flushing'[e] \subseteq flushing[e], sending'[e] \in {0, sending[e]},
         flushing[e] # {} \/ sending[e] # 0,
         UNCHANGED <<binding, subscribed, connected, parked, binds, sent, arrived, crossed>>,
         InOrder(arrived[Other(e)], extNet'[Other(e)], sending'[e], sendQ'[e], sent[e])
  PROVE  ExtInv'
<1> DEFINE o == Other(e)
<1>1. /\ o \in Ends /\ o # e /\ Other(o) = e
      /\ \A g \in Ends : g = e \/ g = o
      /\ extNet[o] \in Seq(ExtFrame)
      /\ ExtThreads(e) /\ ExtThreads(o) /\ ExtOrder(e) /\ ExtOrder(o) /\ ExtFresh(e) /\ ExtFresh(o)
      /\ ExtDenies(e) /\ ExtDenies(o)
  BY ExtAt
<1>2. binds[e] # 0 /\ binds[o] # 0
  BY ExtBusy
<1>3. /\ extNet' \in [Ends -> Seq(ExtFrame)] /\ extNet'[e] = extNet[e]
      /\ Sent(extNet'[o], extNet[o], W)
  BY ExtSends
<1>4. ExtTypes'
  BY <1>3 DEF ExtInv, ExtTypes
<1>5. ExtThreads(e)' /\ ExtThreads(o)'
  BY <1>1 DEF ExtThreads
<1>6. ExtFresh(e)' /\ ExtFresh(o)'
  BY <1>2 DEF ExtFresh
<1>7. ExtOrder(e)' /\ ExtOrder(o)'
  <2>1. arrived' = arrived /\ sent' = sent /\ sendQ'[o] = sendQ[o] /\ sending'[o] = sending[o]
    OBVIOUS
  <2>2. InOrder(arrived[e], extNet[e], sending[o], sendQ[o], sent[o])
    BY <1>1 DEF ExtOrder
  <2>3. /\ InOrder(arrived'[e], extNet'[e], sending'[o], sendQ'[o], sent'[o])
        /\ InOrder(arrived'[o], extNet'[o], sending'[e], sendQ'[e], sent'[e])
    BY <2>1, <2>2, <1>3
  <2>4. Other(o) = e
    BY <1>1
  <2> QED BY <2>3, <2>4 DEF ExtOrder
<1>8. ExtDenies(e)' /\ ExtDenies(o)'
  <2>1. \A g \in Ends : ExtParted(g)' => ExtParted(g)
    BY DEF ExtParted
  <2>2. Denies(extNet[o], parked[o], connected[o]) => Denies(extNet'[o], parked[o], connected[o])
    BY <1>1, <1>3, DeniesMessages
  <2> QED BY <2>1, <2>2, <1>1, <1>3 DEF ExtDenies
<1> QED BY <1>1, <1>4, <1>5, <1>6, <1>7, <1>8 DEF ExtInv

\* An end that has come to take the other one for connected sends what it has kept.
LEMMA ExtFlushStep ==
  ASSUME ExtInv, NEW e \in Ends, NEW thread, Ext!Flush(e, thread) PROVE ExtInv'
<1> DEFINE o == Other(e)
           W == [n \in DOMAIN sendQ[e] |-> Ext!Message(sendQ[e][n])]
<1>1. /\ o \in Ends /\ o # e /\ Ext!Other(e) = o /\ extNet[o] \in Seq(ExtFrame)
      /\ sendQ[e] \in Seq(Nat \ {0}) /\ sendQ[e] \in Seq(Nat) /\ arrived[o] \in Seq(Nat)
      /\ sending[e] \in Nat /\ sent[e] \in Nat /\ ExtOrder(e)
  BY ExtAt
<1>2. /\ DOMAIN sendQ[e] = 1 .. Len(sendQ[e]) /\ Len(sendQ[e]) \in Nat
      /\ \A i \in 1 .. Len(sendQ[e]) : sendQ[e][i] \in Nat
  BY <1>1, LenProperties
<1>3. /\ W \in Seq(ExtFrame) /\ Len(W) = Len(sendQ[e])
      /\ \A i \in 1 .. Len(W) : W[i].is = "message" /\ W[i].number = sendQ[e][i]
  <2>1. \A i \in 1 .. Len(sendQ[e]) : /\ Ext!Message(sendQ[e][i]) \in ExtFrame
                                      /\ Ext!Message(sendQ[e][i]).is = "message"
                                      /\ Ext!Message(sendQ[e][i]).number = sendQ[e][i]
    BY <1>2 DEF Ext!Message, ExtFrame
  <2>2. W \in [1 .. Len(sendQ[e]) -> ExtFrame]
    BY <2>1, <1>2
  <2>3. W \in Seq(ExtFrame) /\ Len(W) = Len(sendQ[e])
    <3> HIDE DEF W
    <3> QED BY <2>2, <1>2, SeqDef, LenProperties
  <2>4. \A i \in 1 .. Len(sendQ[e]) : W[i] = Ext!Message(sendQ[e][i])
    BY <1>2
  <2> HIDE DEF W
  <2> QED BY <2>1, <2>3, <2>4
<1>4. /\ thread \in flushing[e] /\ flushing' = [flushing EXCEPT ![e] = @ \ {thread}]
      /\ extNet' = [extNet EXCEPT ![o] = @ \o W]
      /\ sendQ' = [sendQ EXCEPT ![e] = <<>>]
      /\ UNCHANGED <<binding, subscribed, connected, sending, parked, binds, sent, arrived, crossed>>
  BY <1>1 DEF Ext!Flush, Ext!Carry
<1> HIDE DEF W
<1>5. Sent(extNet'[o], extNet[o], W)
  BY <1>3, <1>4, ExtSends
<1>6. InOrder(arrived[o], extNet'[o], sending[e], <<>>, sent[e])
  <2>1. InOrder(arrived[o], extNet[o], sending[e], sendQ[e], sent[e])
    BY <1>1 DEF ExtOrder
  <2>2. /\ Len(W) = Len(sendQ[e])
        /\ \A i \in 1 .. Len(sendQ[e]) : W[i].is = "message" /\ W[i].number = sendQ[e][i]
    BY <1>3
  <2>3. W \in Seq(ExtFrame) /\ extNet[o] \in Seq(ExtFrame) /\ arrived[o] \in Seq(Nat)
    BY <1>1, <1>3
  <2> HIDE DEF o
  <2> QED BY <2>1, <2>2, <2>3, <1>1, <1>5, OrderFlushed
<1>7. /\ sendQ' \in [Ends -> Seq(Nat \ {0})] /\ sendQ'[o] = sendQ[o] /\ sendQ'[e] = <<>>
  BY <1>1, <1>4, EmptySeq DEF ExtInv, ExtTypes
<1>8. /\ flushing' \in [Ends -> SUBSET Ext!Threads] /\ flushing'[o] = flushing[o]
      /\ flushing'[e] \subseteq flushing[e] /\ flushing[e] # {}
  BY <1>1, <1>4 DEF ExtInv, ExtTypes
<1>9. sending' = sending /\ sending \in [Ends -> Nat]
  BY <1>4 DEF ExtInv, ExtTypes
<1>10. InOrder(arrived[o], extNet'[o], sending'[e], sendQ'[e], sent[e])
  BY <1>6, <1>7, <1>9
<1>11. \A i \in 1 .. Len(W) : W[i].is = "message"
  BY <1>3
<1>12. W \in Seq(ExtFrame)
  BY <1>3
<1> QED BY <1>4, <1>7, <1>8, <1>9, <1>10, <1>11, <1>12, ExtSendsMessages

\* The users send a message: it is kept, or is to go without the queue.
LEMMA ExtSendStep == ASSUME ExtInv, NEW e \in Ends, Ext!Send(e) PROVE ExtInv'
<1> DEFINE o == Other(e)
           k == sent[e] + 1
<1>1. /\ o \in Ends /\ o # e /\ Other(o) = e
      /\ \A g \in Ends : g = e \/ g = o
      /\ extNet[o] \in Seq(ExtFrame) /\ arrived[o] \in Seq(Nat)
      /\ sendQ[e] \in Seq(Nat \ {0}) /\ sendQ[e] \in Seq(Nat) /\ sent[e] \in Nat /\ binds[e] \in Nat
      /\ ExtThreads(e) /\ ExtThreads(o) /\ ExtOrder(e) /\ ExtOrder(o) /\ ExtFresh(e) /\ ExtFresh(o)
      /\ ExtDenies(e) /\ ExtDenies(o)
  BY ExtAt
<1>2. /\ binding[e] = "bound" /\ sending[e] = 0 /\ "default" \notin flushing[e]
      /\ binds[e] + sent[e] < Budget[e] /\ Budget[e] \in Nat
      /\ sent' = [sent EXCEPT ![e] = k]
      /\ UNCHANGED <<binding, subscribed, connected, flushing, extNet, parked, binds, arrived, crossed>>
  BY EntitiesAssumption DEF Ext!ExtAssumption, Ext!Send, Ext!NoMessage, Ext!Affords
<1>3. sent' \in [Ends -> Nat] /\ sent'[e] = k /\ sent'[o] = sent[o]
  BY <1>1, <1>2 DEF ExtInv, ExtTypes
<1>4. \/ /\ sendQ' = [sendQ EXCEPT ![e] = Append(@, k)] /\ sending' = sending
      \/ /\ sendQ[e] = <<>> /\ connected[e] /\ sending' = [sending EXCEPT ![e] = k] /\ sendQ' = sendQ
  BY <1>3 DEF Ext!Send, Ext!MustQueue
<1>5. InOrder(arrived[o], extNet[o], 0, sendQ[e], sent[e])
  BY <1>1, <1>2 DEF ExtOrder
<1>6. /\ sendQ' \in [Ends -> Seq(Nat \ {0})] /\ sendQ'[o] = sendQ[o]
      /\ sending' \in [Ends -> Nat] /\ sending'[o] = sending[o]
      /\ sending'[e] = 0 \/ connected[e]
      /\ InOrder(arrived[o], extNet[o], sending'[e], sendQ'[e], k)
  <2>1. /\ InOrder(arrived[o], extNet[o], 0, Append(sendQ[e], k), k)
        /\ sendQ[e] = <<>> => InOrder(arrived[o], extNet[o], k, sendQ[e], k)
    BY <1>1, <1>5, OrderNumbered
  <2>2. Append(sendQ[e], k) \in Seq(Nat \ {0}) /\ k \in Nat
    <3>1. k \in Nat \ {0}
      BY <1>1
    <3> QED BY <3>1, <1>1, AppendProperties
  <2>3. sendQ \in [Ends -> Seq(Nat \ {0})] /\ sending \in [Ends -> Nat]
    BY DEF ExtInv, ExtTypes
  <2> HIDE DEF k, o
  <2>4. CASE sendQ' = [sendQ EXCEPT ![e] = Append(@, k)] /\ sending' = sending
    BY <2>1, <2>2, <2>3, <2>4, <1>1, <1>2
  <2>5. CASE sendQ[e] = <<>> /\ connected[e] /\ sending' = [sending EXCEPT ![e] = k] /\ sendQ' = sendQ
    BY <2>1, <2>2, <2>3, <2>5, <1>1, <1>2
  <2> QED BY <2>4, <2>5, <1>4
<1>7. ExtTypes'
  BY <1>2, <1>3, <1>6 DEF ExtInv, ExtTypes
<1>8. ExtThreads(e)' /\ ExtThreads(o)'
  <2>1. binds[e] + k <= Budget[e]
    BY <1>1, <1>2
  <2> HIDE DEF k
  <2>2. ExtThreads(e)'
    BY <2>1, <1>1, <1>2, <1>3 DEF ExtThreads
  <2>3. ExtThreads(o)'
    BY <1>1, <1>2, <1>3, <1>6 DEF ExtThreads
  <2> QED BY <2>2, <2>3
<1>9. ExtFresh(e)' /\ ExtFresh(o)'
  <2>1. binds'[e] # 0
    BY <1>1, <1>2 DEF ExtFresh
  <2>2. binds[o] = 0 => ~connected[e]
    <3>1. Other(o) = e
      BY <1>1
    <3> QED BY <3>1, <1>1 DEF ExtFresh
  <2>3. ExtFresh(o)'
    <3>1. Other(o) = e
      BY <1>1
    <3> HIDE DEF o
    <3> QED BY <3>1, <2>2, <1>1, <1>2, <1>6 DEF ExtFresh
  <2> QED BY <2>1, <2>3 DEF ExtFresh
<1>10. ExtOrder(e)' /\ ExtOrder(o)'
  <2>1. InOrder(arrived[e], extNet[e], sending[o], sendQ[o], sent[o])
    BY <1>1 DEF ExtOrder
  <2>2. /\ InOrder(arrived'[e], extNet'[e], sending'[o], sendQ'[o], sent'[o])
        /\ InOrder(arrived'[o], extNet'[o], sending'[e], sendQ'[e], sent'[e])
    BY <2>1, <1>2, <1>3, <1>6
  <2>3. Other(o) = e
    BY <1>1
  <2> QED BY <2>2, <2>3 DEF ExtOrder
<1>11. ExtDenies(e)' /\ ExtDenies(o)'
  BY <1>1, <1>2 DEF ExtDenies, ExtParted
<1> QED BY <1>1, <1>7, <1>8, <1>9, <1>10, <1>11 DEF ExtInv

\* The message goes.
LEMMA ExtSendRealStep == ASSUME ExtInv, NEW e \in Ends, Ext!SendReal(e) PROVE ExtInv'
<1> DEFINE o == Other(e)
           x == Ext!Message(sending[e])
<1>1. /\ o \in Ends /\ o # e /\ Ext!Other(e) = o /\ extNet[o] \in Seq(ExtFrame)
      /\ sendQ[e] \in Seq(Nat) /\ arrived[o] \in Seq(Nat)
      /\ sending[e] \in Nat /\ sent[e] \in Nat /\ ExtOrder(e)
  BY ExtAt
<1>2. /\ sending[e] # 0 /\ sending' = [sending EXCEPT ![e] = 0]
      /\ extNet' = [extNet EXCEPT ![o] = @ \o <<x>>]
      /\ UNCHANGED <<binding, subscribed, connected, sendQ, flushing, parked, binds, sent, arrived,
                     crossed>>
  BY <1>1 DEF Ext!SendReal, Ext!Carry, Ext!NoMessage
<1>3. x \in ExtFrame /\ x.is = "message" /\ x.number = sending[e]
  BY <1>1 DEF ExtFrame, Ext!Message
<1> HIDE DEF x
<1>4. <<x>> \in Seq(ExtFrame) /\ Len(<<x>>) = 1 /\ <<x>>[1] = x
  BY <1>1, <1>3, FramesSent
<1>5. Sent(extNet'[o], extNet[o], <<x>>)
  BY <1>2, <1>4, ExtSends
<1>6. InOrder(arrived[o], extNet'[o], 0, sendQ[e], sent[e])
  <2>1. InOrder(arrived[o], extNet[o], sending[e], sendQ[e], sent[e]) /\ sending[e] \in Nat \ {0}
    BY <1>1, <1>2 DEF ExtOrder
  <2> HIDE DEF o
  <2> QED BY <2>1, <1>1, <1>3, <1>4, <1>5, OrderSentReal
<1>7. sending' \in [Ends -> Nat] /\ sending'[o] = sending[o] /\ sending'[e] = 0
  BY <1>1, <1>2 DEF ExtInv, ExtTypes
<1>8. /\ sendQ' \in [Ends -> Seq(Nat \ {0})] /\ flushing' \in [Ends -> SUBSET Ext!Threads]
      /\ sendQ' = sendQ /\ flushing' = flushing
  BY <1>2 DEF ExtInv, ExtTypes
<1>9. InOrder(arrived[o], extNet'[o], sending'[e], sendQ'[e], sent[e])
  BY <1>6, <1>7, <1>8
<1>10. \A i \in 1 .. Len(<<x>>) : <<x>>[i].is = "message"
  BY <1>3, <1>4
<1> QED BY <1>2, <1>4, <1>7, <1>8, <1>9, <1>10, ExtSendsMessages

\* The beginning, and every step, of extensions.
LEMMA ExtInit == ASSUME Ext!Init PROVE ExtInv
<1>1. /\ binding = [e \in Ends |-> "unbound"] /\ subscribed = [e \in Ends |-> FALSE]
      /\ connected = [e \in Ends |-> FALSE] /\ sendQ = [e \in Ends |-> <<>>]
      /\ sending = [e \in Ends |-> 0] /\ flushing = [e \in Ends |-> {}]
      /\ extNet = [e \in Ends |-> <<>>] /\ parked = [e \in Ends |-> <<>>]
      /\ binds = [e \in Ends |-> 0] /\ sent = [e \in Ends |-> 0]
      /\ arrived = [e \in Ends |-> <<>>] /\ crossed = [e \in Ends |-> FALSE]
  BY DEF Ext!Init, Ext!NoMessage
<1>2. /\ <<>> \in Seq(ExtFrame) /\ <<>> \in Seq(Ext!ExtState) /\ <<>> \in Seq(Nat)
      /\ <<>> \in Seq(Nat \ {0})
  BY EmptySeq
<1>3. ExtTypes
  BY <1>1, <1>2 DEF ExtTypes
<1>4. ASSUME NEW e \in Ends
      PROVE  ExtThreads(e) /\ ExtFresh(e) /\ ExtOrder(e) /\ ExtDenies(e)
  <2>1. Other(e) \in Ends /\ Budget[e] \in Nat /\ Len(<<>>) = 0
    BY EntitiesAssumption, ExtEnds DEF Ext!ExtAssumption
  <2>2. ExtThreads(e)
    <3>1. binding[e] = "unbound" /\ subscribed[e] = FALSE /\ flushing[e] = {}
      BY <1>1
    <3>2. binds[e] + sent[e] <= Budget[e]
      BY <1>1, <2>1
    <3> QED BY <3>1, <3>2 DEF ExtThreads
  <2>3. ExtFresh(e)
    BY <1>1, <2>1 DEF ExtFresh
  <2>4. ExtOrder(e)
    <3>1. InOrder(<<>>, <<>>, 0, <<>>, 0)
      BY <2>1 DEF InOrder, Before
    <3> QED BY <3>1, <1>1, <2>1 DEF ExtOrder
  <2>5. ExtDenies(e)
    <3>1. Denies(<<>>, <<>>, FALSE)
      BY <2>1 DEF Denies
    <3> QED BY <3>1, <1>1, <2>1 DEF ExtDenies
  <2> QED BY <2>2, <2>3, <2>4, <2>5
<1> QED BY <1>3, <1>4 DEF ExtInv

\* Every step of extensions keeps the invariant.
LEMMA ExtStep == ASSUME ExtInv, [Ext!Next]_(Ext!extVars) PROVE ExtInv'
<1>1. CASE UNCHANGED Ext!extVars
  BY <1>1 DEF ExtInv, ExtTypes, ExtThreads, ExtFresh, ExtOrder, ExtDenies, ExtParted, Ext!extVars
<1>2. ASSUME NEW e \in Ends,
             \/ Ext!Advise(e) \/ Ext!SendReady(e) \/ Ext!SendDisconnected(e) \/ Ext!Unsubscribe(e)
             \/ Ext!Receive(e) \/ Ext!RunParked(e) \/ Ext!Flush(e, "wire") \/ Ext!Flush(e, "default")
             \/ Ext!Send(e) \/ Ext!SendReal(e)
      PROVE  ExtInv'
  BY <1>2, ExtAdviseStep, ExtSendReadyStep, ExtSendDisconnectedStep, ExtUnsubscribeStep,
     ExtReceiveStep, ExtRunParkedStep, ExtFlushStep, ExtSendStep, ExtSendRealStep
<1> QED BY <1>1, <1>2 DEF Ext!Next

\* What follows for whoever uses the extension.
LEMMA ExtMeans == ASSUME ExtInv PROVE Ext!TypeOK /\ MessagesInOrder
<1>1. ASSUME NEW e \in Ends
      PROVE  /\ DOMAIN arrived[e] = 1 .. Len(arrived[e]) /\ DOMAIN extNet[e] = 1 .. Len(extNet[e])
             /\ DOMAIN sendQ[e] = 1 .. Len(sendQ[e]) /\ DOMAIN parked[e] = 1 .. Len(parked[e])
             /\ Len(extNet[e]) \in Nat /\ Len(arrived[e]) \in Nat
  BY ExtAt, LenProperties
<1>2. Ext!TypeOK
  <2>1. ASSUME NEW e \in Ends
        PROVE  /\ binds[e] \in Nat /\ sent[e] \in Nat /\ binds[e] + sent[e] <= Budget[e]
               /\ subscribed[e] = (binding[e] # "unbound")
               /\ flushing[e] \subseteq Ext!Threads
               /\ Ext!Range(sendQ[e]) \subseteq 1 .. sent[e]
               /\ sending[e] \in 0 .. sent[e]
               /\ Ext!Range(parked[e]) \subseteq Ext!ExtState
               /\ sending[e] # Ext!NoMessage => "default" \notin flushing[e]
    <3>1. /\ ExtThreads(e) /\ ExtOrder(e) /\ sending[e] \in Nat /\ binds[e] \in Nat /\ sent[e] \in Nat
          /\ sendQ[e] \in Seq(Nat \ {0}) /\ parked[e] \in Seq(Ext!ExtState)
      BY ExtAt
    <3>2. Ext!Range(sendQ[e]) \subseteq 1 .. sent[e]
      <4>1. ASSUME NEW i \in 1 .. Len(sendQ[e])
            PROVE  sendQ[e][i] \in 1 .. sent[e]
        <5>1. sendQ[e][i] \in Nat \ {0}
          BY <3>1
        <5>2. sendQ[e][i] <= sent[e]
          BY <3>1 DEF ExtOrder, InOrder
        <5> QED BY <5>1, <5>2, <3>1
      <4> QED BY <4>1, <1>1 DEF Ext!Range
    <3>3. Ext!Range(parked[e]) \subseteq Ext!ExtState
      BY <3>1, <1>1 DEF Ext!Range
    <3>4. sending[e] \in 0 .. sent[e]
      BY <3>1 DEF ExtOrder, InOrder
    <3>5. flushing[e] \subseteq Ext!Threads
      BY DEF ExtInv, ExtTypes
    <3> QED BY <3>1, <3>2, <3>3, <3>4, <3>5 DEF ExtThreads, Ext!NoMessage
  <2>2. /\ binding \in [Ends -> {"unbound", "advised", "bound", "leaving"}]
        /\ subscribed \in [Ends -> BOOLEAN] /\ connected \in [Ends -> BOOLEAN]
    BY DEF ExtInv, ExtTypes
  <2> QED BY <2>1, <2>2 DEF Ext!TypeOK
<1>3. Ext!NoMessageBeforeBound
  <2>1. ASSUME NEW e \in Ends, binds[e] = 0
        PROVE  arrived[e] = <<>> /\ \A n \in DOMAIN extNet[e] : extNet[e][n].is # "message"
    <3>1. ExtFresh(e)
      BY ExtAt
    <3> QED BY <3>1, <2>1, <1>1 DEF ExtFresh
  <2> QED BY <2>1, ExtAt DEF Ext!NoMessageBeforeBound
<1>4. Ext!ArrivesInOrder
  <2>1. ASSUME NEW e \in Ends
        PROVE  /\ \A j, k \in DOMAIN arrived[e] : j < k => arrived[e][j] < arrived[e][k]
               /\ \A k \in DOMAIN extNet[e] : extNet[e][k].is = "message" =>
                    /\ \A j \in DOMAIN arrived[e] : arrived[e][j] < extNet[e][k].number
                    /\ \A j \in 1 .. k - 1 : extNet[e][j].is = "message" =>
                                               extNet[e][j].number < extNet[e][k].number
    <3>1. InOrder(arrived[e], extNet[e], sending[Other(e)], sendQ[Other(e)], sent[Other(e)])
      <4>1. ExtOrder(Other(e)) /\ Other(Other(e)) = e
        BY ExtAt
      <4> QED BY <4>1 DEF ExtOrder
    <3>2. ASSUME NEW j \in 1 .. Len(arrived[e]), NEW k \in 1 .. Len(arrived[e]), j < k
          PROVE  arrived[e][j] < arrived[e][k]
      <4>1. j \in 1 .. k - 1
        BY <3>2, <1>1
      <4> QED BY <4>1, <3>1 DEF InOrder
    <3>3. \A k \in 1 .. Len(extNet[e]) : extNet[e][k].is = "message" =>
            /\ \A j \in 1 .. Len(arrived[e]) : arrived[e][j] < extNet[e][k].number
            /\ \A j \in 1 .. k - 1 : extNet[e][j].is = "message" =>
                                       extNet[e][j].number < extNet[e][k].number
      BY <3>1 DEF InOrder
    <3> QED BY <3>2, <3>3, <1>1
  <2> QED BY <2>1 DEF Ext!ArrivesInOrder
<1>5. Ext!ConnectedToBound
  <2>1. ASSUME NEW e \in Ends, connected[e], extNet[e] = <<>>, parked[e] = <<>>,
               ~crossed[e], binds[e] = 1, binding[e] = "bound"
        PROVE  subscribed[Ext!Other(e)]
    <3>1. /\ ExtDenies(e) /\ Other(e) \in Ends /\ ExtThreads(Other(e)) /\ Ext!Other(e) = Other(e)
      BY ExtAt
    <3>2. Len(extNet[e]) = 0 /\ Len(parked[e]) = 0
      BY <2>1
    <3>3. ~Denies(extNet[e], parked[e], connected[e])
      BY <2>1, <3>2 DEF Denies
    <3>4. binding[Other(e)] \notin {"leaving", "unbound"}
      BY <3>1, <3>3, <2>1 DEF ExtDenies, ExtParted
    <3> QED BY <3>1, <3>4 DEF ExtThreads
  <2> QED BY <2>1 DEF Ext!ConnectedToBound
<1> QED BY <1>2, <1>3, <1>4, <1>5 DEF MessagesInOrder

\* What a step of the entities is for extensions.
LEMMA EntityStepOfExt == [EntityNext]_entityVars => [Ext!Next]_(Ext!extVars)
BY DEF EntityNext, entityVars, Only, extRest, Ext!extVars

----------------------------------------------------------------------------
(***************************************************************************)
(* The theorems.                                                           *)
(***************************************************************************)
\* What a step of the entities is for properties.
LEMMA EntityStepOfProperty == [EntityNext]_entityVars => [Next]_propertyVars
BY DEF EntityNext, entityVars, Only

\* A step of properties keeps their invariant.
LEMMA PropertyStep == ASSUME PropertyInv, [Next]_propertyVars PROVE PropertyInv'
<1>1. CASE UNCHANGED propertyVars
  BY <1>1 DEF propertyVars, PropertyInv, TypeOK
<1>2. CASE Next
  BY <1>2, PropertySetKeeps, PropertyReceiveKeeps DEF Next
<1> QED BY <1>1, <1>2

\* The invariant of properties holds in every state.
LEMMA PropertiesKeepInv == EntitySpec => []PropertyInv
<1>1. EntityInit => PropertyInv
  BY PropertyInit DEF EntityInit
<1>2. PropertyInv /\ [EntityNext]_entityVars => PropertyInv'
  BY PropertyStep, EntityStepOfProperty
<1> QED BY <1>1, <1>2, PTL DEF EntitySpec

\* The invariant of maps holds in every state.
LEMMA MapsKeepInv == EntitySpec => []MapInv
<1>1. EntityInit => MapInv
  BY MapInit DEF EntityInit
<1>2. MapInv /\ [EntityNext]_entityVars => MapInv'
  BY MapStep, EntityStepOfMap
<1> QED BY <1>1, <1>2, PTL DEF EntitySpec

\* The invariant of calls holds in every state.
LEMMA CallsKeepInv == EntitySpec => []CallInv
<1>1. EntityInit => CallInv
  BY CallInit DEF EntityInit
<1>2. CallInv /\ [EntityNext]_entityVars => CallInv'
  BY CallStep, EntityStepOfCall
<1> QED BY <1>1, <1>2, PTL DEF EntitySpec

\* The invariant of interning holds in every state.
LEMMA RootsKeepInv == EntitySpec => []RootInv
<1>1. EntityInit => RootInv
  BY RootInit DEF EntityInit
<1>2. RootInv /\ [EntityNext]_entityVars => RootInv'
  BY RootStep, EntityStepOfRoot
<1> QED BY <1>1, <1>2, PTL DEF EntitySpec

\* The invariant of extensions holds in every state.
LEMMA ExtensionsKeepInv == EntitySpec => []ExtInv
<1>1. EntityInit => ExtInv
  BY ExtInit DEF EntityInit
<1>2. ExtInv /\ [EntityNext]_entityVars => ExtInv'
  BY ExtStep, EntityStepOfExt
<1> QED BY <1>1, <1>2, PTL DEF EntitySpec

\* Types, and that nobody is ahead of the master of a property: for any number of changes,
\* calls, messages and bindings.
THEOREM TypesAreKept == EntitySpec => []EntitiesTypeOK
<1>1. PropertyInv /\ MapInv /\ CallInv /\ RootInv /\ ExtInv => EntitiesTypeOK
  BY MapMeans, CallMeans, RootMeans, ExtMeans DEF PropertyInv, EntitiesTypeOK
<1> QED BY PropertiesKeepInv, MapsKeepInv, CallsKeepInv, RootsKeepInv, ExtensionsKeepInv, <1>1, PTL

\* Wherever the changes cross, once all is still the ends of a property agree, and those of a
\* map on every key that the master gave the slave time to acknowledge, with nothing waiting for
\* an acknowledgement; and an index stands for one value at both ends (on_wire_received and the
\* listeners of init of RdPropertyBase.h and RdMap.h, and InternRoot.cpp).
THEOREM CopiesComeToAgree == EntitySpec => []CopiesAgree
<1>1. PropertyInv => Converges
  BY DEF PropertyInv, Coherent, SlavesLast, Converges, Ends
<1>2. PropertyInv /\ MapInv /\ RootInv => CopiesAgree
  BY <1>1, MapMeans, RootMeans DEF CopiesAgree
<1> QED BY PropertiesKeepInv, MapsKeepInv, RootsKeepInv, <1>2, PTL

\* A task holds the first answer to it, for good, and none that somebody holds outlasts its
\* lifetime without a result, whatever else the handlers send (RdCall.h, WiredRdTask.h and
\* RdEndpoint.h).
THEOREM TasksAreAnsweredOnce == EntitySpec => []AnsweredOnce
<1>1. CallInv => AnsweredOnce
  BY CallMeans
<1> QED BY CallsKeepInv, <1>1, PTL

\* The messages of an extension leave when it has once been bound, and arrive in order and none
\* twice, and an end that is bound for the first time takes the other one for connected only if
\* it is bound, however often the ends are bound and whatever their users send (RdExtBase.cpp
\* and ExtWire.cpp).
THEOREM MessagesComeInOrder == EntitySpec => []MessagesInOrder
<1>1. ExtInv => MessagesInOrder
  BY ExtMeans
<1> QED BY ExtensionsKeepInv, <1>1, PTL

\* No end of a property goes back to an earlier version.
THEOREM NoVersionLost == EntitySpec => VersionsGrow
<1>1. PropertyInv /\ [Next]_propertyVars =>
        [\A e \in Ends : masterVersion[e] <= masterVersion'[e]]_propertyVars
  <2> SUFFICES ASSUME PropertyInv, Next, NEW e \in Ends
               PROVE  masterVersion[e] <= masterVersion'[e]
    OBVIOUS
  <2>1. masterVersion[e] \in Nat /\ e \in DOMAIN masterVersion /\ TypeOK
    BY DEF PropertyInv, TypeOK
  <2>2. ASSUME NEW d \in Ends, OnWireReceived(d)
        PROVE  masterVersion[e] <= masterVersion'[e]
    <3>1. CASE d = e
      BY <2>2, <3>1, PropertyReceiveKeeps
    <3>2. CASE d # e
      <4>1. e = Other(d)
        BY <3>2 DEF Ends, Other
      <4> QED BY <2>1, <2>2, <4>1, PropertyReceive
    <3> QED BY <3>1, <3>2
  <2>3. ASSUME NEW d \in Ends, NEW v \in Values, Set(d, v)
        PROVE  masterVersion[e] <= masterVersion'[e]
    <3>1. /\ masterVersion' = [masterVersion EXCEPT ![d] = NextVersion(d)]
          /\ masterVersion[d] <= NextVersion(d)
      BY <2>1, <2>3, PropertySet
    <3> QED BY <2>1, <3>1
  <2> QED BY <2>2, <2>3 DEF Next
<1>2. [EntityNext]_entityVars => [Next]_propertyVars
  BY EntityStepOfProperty
<1> QED BY PropertiesKeepInv, <1>1, <1>2, PTL DEF EntitySpec, VersionsGrow
============================================================================
