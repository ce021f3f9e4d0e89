--------------------------- MODULE ProtocolProofs ---------------------------
(***************************************************************************)
(* The parts of the protocol and of RiderLink: lifetimes, the buffers,     *)
(* RiderLink's model and the play mode, each with an inductive invariant,  *)
(* and what these say together with that of MessageBrokerProofs.           *)
(***************************************************************************)
EXTENDS MessageBrokerProofs

(***************************************************************************)
(* Lifetimes.                                                              *)
(*                                                                         *)
(* That no action of a lifetime disappears, runs twice or runs before one  *)
(* that was added later, and that nested lifetimes end before what was     *)
(* added earlier, for any tree of lifetimes, any number of threads and     *)
(* calls.  An action is waiting in its lifetime, in the hands of a call    *)
(* that has taken it, or spent.  The keys of what waits rise, and a        *)
(* call has in hand what is left of one lifetime; what has run of it came  *)
(* after all that is left.  The action that detaches a nested lifetime     *)
(* names the key under which its parent knows it, so that it takes that    *)
(* one and no other; and whoever has taken up the actions of a lifetime    *)
(* has to end what is nested there before it goes on.                      *)
(***************************************************************************)
\* The keys of a lifetime's actions rise, as ordered_map keeps what is added.
Increasing(s) == \A m, n \in 1 .. Len(s) : m < n => s[m].key < s[n].key

\* Adding an action with a higher key.
LEMMA AppendedActions ==
  ASSUME NEW S, NEW s \in Seq(S), NEW a \in S
  PROVE  /\ Append(s, a) \in Seq(S) /\ Append(s, a) # <<>>
         /\ ToSet(Append(s, a)) = ToSet(s) \cup {a}
         /\ Increasing(s) /\ (\A b \in ToSet(s) : b.key < a.key) => Increasing(Append(s, a))
<1>1. PICK t : t = Append(s, a)
  OBVIOUS
<1>2. PICK n \in Nat : n = Len(s)
  BY LenProperties
<1>3. t \in Seq(S) /\ Len(t) = n + 1 /\ t[n + 1] = a /\ \A m \in 1 .. n : t[m] = s[m]
  BY <1>1, <1>2, AppendProperties
<1>4. DOMAIN s = 1 .. n /\ DOMAIN t = 1 .. (n + 1)
  BY <1>2, <1>3, LenProperties
<1>5. ToSet(t) = ToSet(s) \cup {a}
  BY <1>3, <1>4 DEF ToSet
<1>6. ASSUME Increasing(s), \A b \in ToSet(s) : b.key < a.key PROVE Increasing(t)
  <2>1. \A m \in 1 .. n : s[m] \in ToSet(s)
    BY <1>4 DEF ToSet
  <2>2. ASSUME NEW l \in 1 .. n + 1, NEW m \in 1 .. n + 1, l < m PROVE t[l].key < t[m].key
    <3>1. l \in 1 .. n /\ t[l] = s[l] /\ (m \in 1 .. n \/ m = n + 1)
      BY <1>3, <2>2
    <3>2. CASE m \in 1 .. n
      <4>1. s[l].key < s[m].key
        BY <1>2, <1>6, <2>2, <3>1, <3>2 DEF Increasing
      <4> QED BY <1>3, <3>1, <3>2, <4>1
    <3>3. CASE m = n + 1
      BY <1>3, <1>6, <2>1, <3>1, <3>3
    <3> QED BY <3>1, <3>2, <3>3
  <2> QED BY <1>3, <2>2 DEF Increasing
<1>7. t # <<>>
  BY <1>3, EmptySeq
<1> QED BY <1>1, <1>3, <1>5, <1>6, <1>7

\* The last action of a copy has the highest key, and Front leaves it out.
LEMMA FrontActions ==
  ASSUME NEW S, NEW s \in Seq(S), s # <<>>
  PROVE  /\ Front(s) \in Seq(S) /\ Last(s) \in S
         /\ ToSet(s) = ToSet(Front(s)) \cup {Last(s)}
         /\ (\A b \in S : b.key \in Int) /\ Increasing(s) =>
              Increasing(Front(s)) /\ \A b \in ToSet(Front(s)) : b.key < Last(s).key
<1>1. PICK n \in Nat : n = Len(s) /\ n > 0
  BY LenProperties, EmptySeq
<1>2. PICK t : t = Front(s)
  OBVIOUS
<1>3. PICK a : a = Last(s) /\ a = s[n]
  BY <1>1 DEF Last
<1>4. DOMAIN s = 1 .. n /\ \A m \in 1 .. n : s[m] \in S
  BY <1>1, LenProperties, ElementOfSeq
<1>5. t = SubSeq(s, 1, n - 1)
  BY <1>1, <1>2 DEF Front
<1>6. t \in Seq(S) /\ Len(t) = n - 1 /\ \A m \in 1 .. (n - 1) : t[m] = s[m]
  <2>1. \A m \in 1 .. (n - 1) : s[m] \in S
    BY <1>1, <1>4
  <2>2. /\ SubSeq(s, 1, n - 1) \in Seq(S)
        /\ Len(SubSeq(s, 1, n - 1)) = IF 1 <= n - 1 THEN (n - 1) - 1 + 1 ELSE 0
        /\ \A i \in 1 .. (n - 1) - 1 + 1 : SubSeq(s, 1, n - 1)[i] = s[1 + i - 1]
    BY <1>1, <2>1, SubSeqProperties
  <2> QED BY <1>1, <1>5, <2>2
<1>7. DOMAIN t = 1 .. (n - 1)
  BY <1>1, <1>6, LenProperties
<1>8. a \in S /\ ToSet(s) = ToSet(t) \cup {a}
  BY <1>1, <1>3, <1>4, <1>6, <1>7 DEF ToSet
<1>9. ASSUME Increasing(s)
      PROVE  Increasing(t) /\ \A b \in ToSet(t) : b.key < a.key
  <2>1. Increasing(t)
    BY <1>1, <1>6, <1>9 DEF Increasing
  <2>2. \A m \in 1 .. (n - 1) : s[m].key < s[n].key
    BY <1>1, <1>9 DEF Increasing
  <2>3. \A b \in ToSet(t) : b.key < a.key
    BY <1>3, <1>6, <1>7, <2>2 DEF ToSet
  <2> QED BY <2>1, <2>3
<1> QED BY <1>2, <1>3, <1>6, <1>8, <1>9

\* The actions of a sequence are those at its places.
LEMMA ActionsOf ==
  ASSUME NEW S, NEW s \in Seq(S)
  PROVE  /\ \A m \in 1 .. Len(s) : s[m] \in ToSet(s)
         /\ \A a \in ToSet(s) : a \in S /\ \E m \in 1 .. Len(s) : a = s[m]
         /\ (s = <<>> <=> ToSet(s) = {})
<1>1. PICK n \in Nat : n = Len(s) /\ DOMAIN s = 1 .. n /\ \A m \in 1 .. n : s[m] \in S
  BY LenProperties, ElementOfSeq
<1>2. \A m \in 1 .. n : s[m] \in ToSet(s)
  BY <1>1 DEF ToSet
<1>3. \A a \in ToSet(s) : a \in S /\ \E m \in 1 .. n : a = s[m]
  BY <1>1 DEF ToSet
<1>4. s = <<>> => n = 0
  BY <1>1, EmptySeq
<1>5. s # <<>> => 1 \in 1 .. n
  BY <1>1, EmptySeq
<1>6. n = 0 => ToSet(s) = {}
  BY <1>3
<1> QED BY <1>1, <1>2, <1>3, <1>4, <1>5, <1>6

\* ordered_map's erase takes the action with that key, and no other.
LEMMA ErasedActions ==
  ASSUME NEW S, NEW s \in Seq(S), NEW key,
         \A b \in S : b.key \in Int, Increasing(s)
  PROVE  /\ Erased(s, key) \in Seq(S) /\ Increasing(Erased(s, key))
         /\ ToSet(Erased(s, key)) = {b \in ToSet(s) : b.key # key}
<1>1. PICK n \in Nat : n = Len(s) /\ DOMAIN s = 1 .. n /\ \A m \in 1 .. n : s[m] \in S
  BY LenProperties, ElementOfSeq
<1>2. CASE ~ \E m \in 1 .. n : s[m].key = key
  <2>1. Erased(s, key) = s
    BY <1>1, <1>2 DEF Erased
  <2>2. \A b \in ToSet(s) : b.key # key
    BY <1>1, <1>2 DEF ToSet
  <2> QED BY <2>1, <2>2
<1>3. CASE \E m \in 1 .. n : s[m].key = key
  <2>1. PICK m : m \in 1 .. n /\ s[m].key = key /\ Erased(s, key) = RemoveAt(s, m)
    BY <1>1, <1>3 DEF Erased
  <2>2. PICK t : t = Erased(s, key)
    OBVIOUS
  <2>3. PICK x : x = SubSeq(s, 1, m - 1)
    OBVIOUS
  <2>4. PICK y : y = SubSeq(s, m + 1, n)
    OBVIOUS
  <2>5. t = x \o y
    BY <1>1, <2>1, <2>2, <2>3, <2>4 DEF RemoveAt
  <2>6. x \in Seq(S) /\ Len(x) = m - 1 /\ \A i \in 1 .. (m - 1) : x[i] = s[i]
    <3>1. \A i \in 1 .. (m - 1) : s[i] \in S
      BY <1>1, <2>1
    <3>2. /\ SubSeq(s, 1, m - 1) \in Seq(S)
          /\ Len(SubSeq(s, 1, m - 1)) = IF 1 <= m - 1 THEN (m - 1) - 1 + 1 ELSE 0
          /\ \A i \in 1 .. (m - 1) - 1 + 1 : SubSeq(s, 1, m - 1)[i] = s[1 + i - 1]
      BY <1>1, <2>1, <3>1, SubSeqProperties
    <3> QED BY <2>1, <2>3, <3>2
  <2>7. y \in Seq(S) /\ Len(y) = n - m /\ \A i \in 1 .. (n - m) : y[i] = s[m + i]
    <3>1. \A i \in (m + 1) .. n : s[i] \in S
      BY <1>1, <2>1
    <3>2. /\ SubSeq(s, m + 1, n) \in Seq(S)
          /\ Len(SubSeq(s, m + 1, n)) = IF m + 1 <= n THEN n - (m + 1) + 1 ELSE 0
          /\ \A i \in 1 .. n - (m + 1) + 1 : SubSeq(s, m + 1, n)[i] = s[(m + 1) + i - 1]
      BY <1>1, <2>1, <3>1, SubSeqProperties
    <3> QED BY <1>1, <2>1, <2>4, <3>2
  <2>8. /\ t \in Seq(S) /\ Len(t) = n - 1
        /\ \A i \in 1 .. (n - 1) : t[i] = IF i <= m - 1 THEN x[i] ELSE y[i - (m - 1)]
    <3>1. /\ x \o y \in Seq(S) /\ Len(x \o y) = Len(x) + Len(y)
          /\ \A i \in 1 .. Len(x) + Len(y) :
               (x \o y)[i] = IF i <= Len(x) THEN x[i] ELSE y[i - Len(x)]
      BY <2>6, <2>7, ConcatProperties
    <3>2. Len(x) + Len(y) = n - 1 /\ Len(x) = m - 1
      BY <1>1, <2>1, <2>6, <2>7
    <3> QED BY <2>5, <3>1, <3>2
  <2>9. \A i \in 1 .. (n - 1) : t[i] = IF i < m THEN s[i] ELSE s[i + 1]
    BY <1>1, <2>1, <2>6, <2>7, <2>8
  <2>10. DOMAIN t = 1 .. (n - 1)
    BY <1>1, <2>8, LenProperties
  <2>11. \A i, k \in 1 .. n : i < k => s[i].key < s[k].key
    BY <1>1 DEF Increasing
  <2>12. Increasing(t)
    <3>1. SUFFICES ASSUME NEW i \in 1 .. (n - 1), NEW k \in 1 .. (n - 1), i < k
                   PROVE  t[i].key < t[k].key
      BY <1>1, <2>8 DEF Increasing
    <3>2. PICK i2 \in 1 .. n : t[i] = s[i2] /\ i2 = IF i < m THEN i ELSE i + 1
      BY <1>1, <2>1, <2>9
    <3>3. PICK k2 \in 1 .. n : t[k] = s[k2] /\ k2 = IF k < m THEN k ELSE k + 1
      BY <1>1, <2>1, <2>9
    <3>4. i2 < k2
      BY <1>1, <2>1, <3>1, <3>2, <3>3
    <3> QED BY <2>11, <3>2, <3>3, <3>4
  <2>13. \A i \in 1 .. n : i # m => s[i].key # key
    BY <1>1, <2>1, <2>11
  <2>14. ASSUME NEW b \in ToSet(t) PROVE b \in ToSet(s) /\ b.key # key
    <3>1. PICK i \in 1 .. (n - 1) : b = t[i]
      BY <2>10 DEF ToSet
    <3>2. PICK j \in 1 .. n : b = s[j] /\ j # m
      BY <1>1, <2>1, <2>9, <3>1
    <3> QED BY <1>1, <2>13, <3>2 DEF ToSet
  <2>15. ASSUME NEW b \in ToSet(s), b.key # key PROVE b \in ToSet(t)
    <3>1. PICK i \in 1 .. n : b = s[i] /\ i # m
      BY <1>1, <2>1, <2>15 DEF ToSet
    <3>2. PICK j \in 1 .. (n - 1) : b = t[j]
      <4>1. CASE i < m
        <5>1. i \in 1 .. (n - 1) /\ t[i] = s[i]
          BY <1>1, <2>1, <2>9, <4>1
        <5> QED BY <3>1, <5>1
      <4>2. CASE i > m
        <5>1. i - 1 \in 1 .. (n - 1) /\ t[i - 1] = s[i]
          BY <1>1, <2>1, <2>9, <4>2
        <5> QED BY <3>1, <5>1
      <4>3. i < m \/ i > m
        BY <1>1, <2>1, <3>1
      <4> QED BY <4>1, <4>2, <4>3
    <3> QED BY <2>10, <3>2 DEF ToSet
  <2>16. ToSet(t) = {b \in ToSet(s) : b.key # key}
    BY <2>14, <2>15
  <2> QED BY <2>2, <2>8, <2>12, <2>16
<1> QED BY <1>2, <1>3

----------------------------------------------------------------------------
(***************************************************************************)
(* The values of the variables, and what a call does to a thread's stack.  *)
(***************************************************************************)
\* What add_action takes, by what it does.
Action ==
  [key : Nat, of : Lifetimes, does : {"run"}]
    \cup [key : Nat, of : Lifetimes, does : {"terminate"}, nested : Lifetimes]
    \cup [key : Nat, of : Lifetimes, does : {"erase"}, outer : Nat]

\* A call, one that runs actions, and an attach_nested that has the key the parent gave it.
Frame ==
  [call : {"opening", "attaching", "taking"}, of : Lifetimes, left : {<<>>}]
    \cup [call : {"running"}, of : Lifetimes, left : Seq(Action)]
    \cup [call : {"attached"}, of : Lifetimes, left : {<<>>}, key : Nat]

\* The values of the variables.
LTypes ==
  /\ created \in SUBSET Lifetimes /\ Roots \subseteq created
  /\ terminated \in [Lifetimes -> BOOLEAN]
  /\ actions \in [Lifetimes -> Seq(Action)]
  /\ nextKey \in [Lifetimes -> Nat]
  /\ stack \in [Threads -> Seq(Frame)]
  /\ attached \in [Lifetimes -> Nat \cup {NotAttached}]
  /\ added \in SUBSET (Lifetimes \X Nat)
  /\ ran \in Seq(Lifetimes \X Nat)

\* The places of a thread's calls, the innermost the first.
Pos(t) == 1 .. Len(stack[t])

\* A thread's stack with p calls less and k new ones on top.
Move(t, k, p) ==
  /\ Len(stack[t]) \in Nat /\ p <= Len(stack[t])
  /\ stack' \in [Threads -> Seq(Frame)]
  /\ \A u \in Threads : u # t => stack'[u] = stack[u]
  /\ Len(stack'[t]) = (Len(stack[t]) - p) + k
  /\ \A i \in 1 .. Len(stack'[t]) : i > k => stack'[t][i] = stack[t][(i - k) + p]

\* What the records hold.
LEMMA RecordFields ==
  /\ \A a \in Action : a.key \in Nat /\ a.of \in Lifetimes /\ a.does \in {"run", "terminate", "erase"}
  /\ \A a \in Action : a.does = "terminate" => a.nested \in Lifetimes
  /\ \A a \in Action : a.does = "erase" => a.outer \in Nat
  /\ \A f \in Frame : f.of \in Lifetimes /\ f.left \in Seq(Action)
  /\ \A f \in Frame : f.call \in {"opening", "attaching", "taking", "running", "attached"}
  /\ \A f \in Frame : f.call = "attached" => f.key \in Nat
  /\ \A f \in Frame : f.call # "running" => f.left = <<>>
<1>1. <<>> \in Seq(Action)
  BY EmptySeq
<1> QED BY <1>1 DEF Action, Frame

\* A stack with a call more, and one with a call less.
LEMMA Stacked ==
  ASSUME NEW F, NEW s \in Seq(F)
  PROVE  /\ \A f \in F : /\ <<f>> \o s \in Seq(F) /\ Len(<<f>> \o s) = Len(s) + 1
                         /\ (<<f>> \o s)[1] = f
                         /\ \A i \in 1 .. Len(s) + 1 : i > 1 => (<<f>> \o s)[i] = s[i - 1]
         /\ s # <<>> => /\ Tail(s) \in Seq(F) /\ Len(Tail(s)) = Len(s) - 1 /\ Len(s) > 0
                        /\ Head(s) = s[1] /\ s[1] \in F
                        /\ \A i \in 1 .. Len(s) - 1 : Tail(s)[i] = s[i + 1]
<1>1. PICK n \in Nat : n = Len(s)
  BY LenProperties
<1>2. ASSUME NEW f \in F
      PROVE  /\ <<f>> \o s \in Seq(F) /\ Len(<<f>> \o s) = n + 1
             /\ (<<f>> \o s)[1] = f
             /\ \A i \in 1 .. n + 1 : i > 1 => (<<f>> \o s)[i] = s[i - 1]
  <2>1. PICK o : o = <<f>>
    OBVIOUS
  <2>2. o \in Seq(F) /\ Len(o) = 1 /\ o[1] = f
    BY <2>1
  <2>3. /\ o \o s \in Seq(F) /\ Len(o \o s) = Len(o) + Len(s)
        /\ \A i \in 1 .. Len(o) + Len(s) : (o \o s)[i] = IF i <= Len(o) THEN o[i] ELSE s[i - Len(o)]
    BY <2>2, ConcatProperties
  <2>4. /\ o \o s \in Seq(F) /\ Len(o \o s) = n + 1
        /\ \A i \in 1 .. n + 1 : (o \o s)[i] = IF i <= 1 THEN o[i] ELSE s[i - 1]
    BY <1>1, <2>2, <2>3
  <2>5. (o \o s)[1] = f /\ \A i \in 1 .. n + 1 : i > 1 => (o \o s)[i] = s[i - 1]
    BY <1>1, <2>2, <2>4
  <2> QED BY <2>1, <2>4, <2>5
<1>3. ASSUME s # <<>>
      PROVE  /\ Tail(s) \in Seq(F) /\ Len(Tail(s)) = n - 1 /\ n > 0
             /\ Head(s) = s[1] /\ s[1] \in F
             /\ \A i \in 1 .. n - 1 : Tail(s)[i] = s[i + 1]
  <2>1. n > 0 /\ s[1] \in F
    BY <1>1, <1>3, EmptySeq, ElementOfSeq
  <2>2. Head(s) = s[1]
    BY <1>3
  <2>3. Tail(s) \in Seq(F) /\ Len(Tail(s)) = n - 1 /\ \A i \in 1 .. n - 1 : Tail(s)[i] = s[i + 1]
    BY <1>1, <1>3, HeadTailProperties
  <2> QED BY <2>1, <2>2, <2>3
<1> QED BY <1>1, <1>2, <1>3

\* A thread's new stack, the others' as they were.
LEMMA NewStack ==
  ASSUME LTypes, NEW t \in Threads, NEW s \in Seq(Frame), stack' = [stack EXCEPT ![t] = s]
  PROVE  /\ stack' \in [Threads -> Seq(Frame)] /\ stack'[t] = s
         /\ \A u \in Threads : u # t => stack'[u] = stack[u]
BY DEF LTypes

\* A call that begins.
LEMMA Pushed ==
  ASSUME LTypes, NEW t \in Threads, NEW f \in Frame, PushFrame(t, f)
  PROVE  Move(t, 1, 0) /\ Len(stack'[t]) > 0 /\ stack'[t][1] = f
<1>1. PICK s \in Seq(Frame) : s = stack[t]
  BY DEF LTypes
<1>2. PICK n \in Nat : n = Len(s)
  BY LenProperties
<1>3. PICK z : z = <<f>> \o s
  OBVIOUS
<1>4. z \in Seq(Frame) /\ Len(z) = n + 1 /\ z[1] = f /\ \A i \in 1 .. n + 1 : i > 1 => z[i] = s[i - 1]
  BY <1>2, <1>3, Stacked
<1>5. stack' = [stack EXCEPT ![t] = z]
  BY <1>1, <1>3 DEF PushFrame
<1>6. /\ stack' \in [Threads -> Seq(Frame)] /\ stack'[t] = z
      /\ \A u \in Threads : u # t => stack'[u] = stack[u]
  BY <1>4, <1>5, NewStack
<1>7. \A i \in 1 .. Len(z) : i > 1 => z[i] = s[(i - 1) + 0]
  BY <1>2, <1>4
<1> QED BY <1>1, <1>2, <1>4, <1>6, <1>7 DEF Move

\* A call that ends.
LEMMA Popped ==
  ASSUME LTypes, NEW t \in Threads, stack[t] # <<>>, PopFrame(t)
  PROVE  Move(t, 0, 1) /\ Len(stack[t]) > 0
<1>1. PICK s \in Seq(Frame) : s = stack[t] /\ s # <<>>
  BY DEF LTypes
<1>2. PICK n \in Nat : n = Len(s)
  BY LenProperties
<1>3. PICK z : z = Tail(s)
  OBVIOUS
<1>4. n > 0 /\ z \in Seq(Frame) /\ Len(z) = n - 1 /\ \A i \in 1 .. n - 1 : z[i] = s[i + 1]
  BY <1>1, <1>2, <1>3, Stacked
<1>5. stack' = [stack EXCEPT ![t] = z]
  BY <1>1, <1>3 DEF PopFrame
<1>6. /\ stack' \in [Threads -> Seq(Frame)] /\ stack'[t] = z
      /\ \A u \in Threads : u # t => stack'[u] = stack[u]
  BY <1>4, <1>5, NewStack
<1>7. \A i \in 1 .. Len(z) : i > 0 => z[i] = s[(i - 0) + 1]
  BY <1>2, <1>4
<1> QED BY <1>1, <1>2, <1>4, <1>6, <1>7 DEF Move

\* A call that goes on with another frame.
LEMMA Replaced ==
  ASSUME LTypes, NEW t \in Threads, stack[t] # <<>>, NEW f \in Frame,
         stack' = [stack EXCEPT ![t] = <<f>> \o Tail(@)]
  PROVE  Move(t, 1, 1) /\ Len(stack[t]) > 0 /\ Len(stack'[t]) > 0 /\ stack'[t][1] = f
<1>1. PICK s \in Seq(Frame) : s = stack[t] /\ s # <<>>
  BY DEF LTypes
<1>2. PICK n \in Nat : n = Len(s)
  BY LenProperties
<1>3. PICK r : r = Tail(s)
  OBVIOUS
<1>4. n > 0 /\ r \in Seq(Frame) /\ Len(r) = n - 1 /\ \A i \in 1 .. n - 1 : r[i] = s[i + 1]
  BY <1>1, <1>2, <1>3, Stacked
<1>5. PICK z : z = <<f>> \o r
  OBVIOUS
<1>6. /\ z \in Seq(Frame) /\ Len(z) = Len(r) + 1 /\ z[1] = f
      /\ \A i \in 1 .. Len(r) + 1 : i > 1 => z[i] = r[i - 1]
  BY <1>4, <1>5, Stacked
<1>7. stack' = [stack EXCEPT ![t] = z]
  BY <1>1, <1>3, <1>5
<1>8. /\ stack' \in [Threads -> Seq(Frame)] /\ stack'[t] = z
      /\ \A u \in Threads : u # t => stack'[u] = stack[u]
  BY <1>6, <1>7, NewStack
<1>9. \A i \in 1 .. Len(z) : i > 1 => z[i] = s[(i - 1) + 1]
  BY <1>2, <1>4, <1>6
<1> QED BY <1>1, <1>2, <1>4, <1>6, <1>8, <1>9 DEF Move

\* A call that goes on beneath a new one.
LEMMA ReplacedBeneath ==
  ASSUME LTypes, NEW t \in Threads, stack[t] # <<>>, NEW f \in Frame, NEW g \in Frame,
         NEW w, w = [stack EXCEPT ![t] = <<f>> \o Tail(@)],
         NEW z, z = <<g>> \o w[t], stack' = [w EXCEPT ![t] = z]
  PROVE  /\ Move(t, 2, 1) /\ Len(stack[t]) > 0 /\ Len(stack'[t]) > 1
         /\ stack'[t][1] = g /\ stack'[t][2] = f
<1>1. PICK s \in Seq(Frame) : s = stack[t] /\ s # <<>>
  BY DEF LTypes
<1>2. PICK n \in Nat : n = Len(s)
  BY LenProperties
<1>3. PICK r : r = Tail(s)
  OBVIOUS
<1>4. n > 0 /\ r \in Seq(Frame) /\ Len(r) = n - 1 /\ \A i \in 1 .. n - 1 : r[i] = s[i + 1]
  BY <1>1, <1>2, <1>3, Stacked
<1>5. PICK y : y = <<f>> \o r
  OBVIOUS
<1>6. /\ y \in Seq(Frame) /\ Len(y) = Len(r) + 1 /\ y[1] = f
      /\ \A i \in 1 .. Len(r) + 1 : i > 1 => y[i] = r[i - 1]
  BY <1>4, <1>5, Stacked
<1>7. z = <<g>> \o y
  <2>1. w = [stack EXCEPT ![t] = y]
    BY <1>1, <1>3, <1>5
  <2> QED BY <1>6, <2>1 DEF LTypes
<1>8. /\ z \in Seq(Frame) /\ Len(z) = Len(y) + 1 /\ z[1] = g
      /\ \A i \in 1 .. Len(y) + 1 : i > 1 => z[i] = y[i - 1]
  <2>1. PICK x : x = <<g>> \o y
    OBVIOUS
  <2>2. /\ x \in Seq(Frame) /\ Len(x) = Len(y) + 1 /\ x[1] = g
        /\ \A i \in 1 .. Len(y) + 1 : i > 1 => x[i] = y[i - 1]
    BY <1>6, <2>1, Stacked
  <2> QED BY <1>7, <2>1, <2>2
<1>9. stack' = [stack EXCEPT ![t] = z]
  <2>1. w = [stack EXCEPT ![t] = y]
    BY <1>1, <1>3, <1>5
  <2>2. w \in [Threads -> Seq(Frame)] /\ w[t] = y /\ \A u \in Threads : u # t => w[u] = stack[u]
    BY <1>6, <2>1 DEF LTypes
  <2>3. stack' = [w EXCEPT ![t] = z]
    BY <1>1, <1>3, <1>5, <1>7, <2>1, <2>2
  <2>4. [w EXCEPT ![t] = z] = [stack EXCEPT ![t] = z]
    BY <1>8, <2>1, <2>2 DEF LTypes
  <2> QED BY <2>3, <2>4
<1>10. /\ stack' \in [Threads -> Seq(Frame)] /\ stack'[t] = z
       /\ \A u \in Threads : u # t => stack'[u] = stack[u]
  BY <1>8, <1>9, NewStack
<1>11. \A i \in 1 .. Len(z) : i > 2 => z[i] = s[(i - 2) + 1]
  <2>1. SUFFICES ASSUME NEW i \in 1 .. Len(z), i > 2 PROVE z[i] = s[(i - 2) + 1]
    OBVIOUS
  <2>2. Len(z) = n + 1
    BY <1>2, <1>4, <1>6, <1>8
  <2>3. i \in Nat /\ z[i] = y[i - 1]
    BY <1>4, <1>6, <1>8, <2>1, <2>2
  <2>4. PICK j \in Int : j = i - 1
    BY <2>3
  <2>5. y[j] = r[j - 1]
    BY <1>4, <1>6, <2>1, <2>2, <2>4
  <2>6. PICK m \in Int : m = j - 1
    BY <2>4
  <2>7. m \in 1 .. n - 1
    BY <1>4, <2>1, <2>2, <2>4, <2>6
  <2>8. r[m] = s[m + 1]
    BY <1>4, <2>7
  <2>9. m + 1 = (i - 2) + 1
    BY <2>3, <2>4, <2>6
  <2> QED BY <2>3, <2>4, <2>5, <2>6, <2>8, <2>9
<1>12. z[2] = f /\ Len(z) > 1
  BY <1>4, <1>6, <1>8
<1> QED BY <1>1, <1>2, <1>4, <1>6, <1>8, <1>10, <1>11, <1>12 DEF Move

\* Where the calls of the new stacks come from.
Origins(t, k, p) ==
  \A u \in Threads : \A i \in 1 .. Len(stack'[u]) :
    \/ u = t /\ i <= k
    \/ \E j \in Pos(u) : /\ stack'[u][i] = stack[u][j]
                         /\ u = t => j > p /\ j = (i - k) + p
                         /\ u # t => j = i

\* Where the calls of the old stacks go.
Survivors(t, k, p) ==
  \A u \in Threads : \A j \in Pos(u) :
    \/ u = t /\ j <= p
    \/ \E i \in 1 .. Len(stack'[u]) : /\ stack'[u][i] = stack[u][j]
                                      /\ u = t => i > k /\ j = (i - k) + p
                                      /\ u # t => i = j

\* A step leaves the calls beneath those it changes.
LEMMA MovedCalls ==
  ASSUME NEW t \in Threads, NEW k \in {0, 1, 2}, NEW p \in {0, 1}, Move(t, k, p)
  PROVE  Origins(t, k, p) /\ Survivors(t, k, p)
<1>1. PICK n \in Nat : n = Len(stack[t]) /\ p <= n
  BY DEF Move
<1>2. Len(stack'[t]) = (n - p) + k
  BY <1>1 DEF Move
<1>3. ASSUME NEW u \in Threads, NEW i \in 1 .. Len(stack'[u]), ~(u = t /\ i <= k)
      PROVE  \E j \in Pos(u) : /\ stack'[u][i] = stack[u][j]
                               /\ u = t => j > p /\ j = (i - k) + p
                               /\ u # t => j = i
  <2>1. CASE u # t
    BY <1>3, <2>1 DEF Move, Pos
  <2>2. CASE u = t
    <3>1. i \in Nat /\ i > k /\ i <= (n - p) + k
      BY <1>1, <1>2, <1>3, <2>2
    <3>2. PICK j \in Int : j = (i - k) + p
      BY <3>1
    <3>3. j > p /\ j \in 1 .. n
      BY <1>1, <3>1, <3>2
    <3>4. stack'[t][i] = stack[t][j]
      BY <1>3, <2>2, <3>1, <3>2 DEF Move
    <3> QED BY <1>1, <2>2, <3>2, <3>3, <3>4 DEF Pos
  <2> QED BY <2>1, <2>2
<1>4. ASSUME NEW u \in Threads, NEW j \in Pos(u), ~(u = t /\ j <= p)
      PROVE  \E i \in 1 .. Len(stack'[u]) : /\ stack'[u][i] = stack[u][j]
                                            /\ u = t => i > k /\ j = (i - k) + p
                                            /\ u # t => i = j
  <2>1. CASE u # t
    BY <1>4, <2>1 DEF Move, Pos
  <2>2. CASE u = t
    <3>1. j \in Nat /\ j > p /\ j <= n
      BY <1>1, <1>4, <2>2 DEF Pos
    <3>2. PICK i \in Int : i = (j - p) + k
      BY <3>1
    <3>3. i > k /\ i \in 1 .. (n - p) + k /\ j = (i - k) + p
      BY <1>1, <3>1, <3>2
    <3>4. stack'[t][i] = stack[t][j]
      BY <1>2, <3>3 DEF Move
    <3> QED BY <1>2, <2>2, <3>3, <3>4
  <2> QED BY <2>1, <2>2
<1> QED BY <1>3, <1>4 DEF Origins, Survivors

----------------------------------------------------------------------------
(***************************************************************************)
(* What each action does, in terms of the calls and of the actions kept.   *)
(***************************************************************************)
\* A user's code runs: outside of every call or in an action of terminate.
AtCall(t) == stack[t] = <<>> \/ (Len(stack[t]) > 0 /\ stack[t][1].call = "running")

\* The innermost call of a thread.
Innermost(t, f) == Len(stack[t]) > 0 /\ f \in Frame /\ f = stack[t][1]

\* A call on top of the others.
OnTop(t, f) == Len(stack'[t]) > 0 /\ f \in Frame /\ f = stack'[t][1]

\* add_action keeps the action a.
Keeps(a) ==
  /\ a \in Action /\ ~terminated[a.of] /\ a.key = nextKey[a.of]
  /\ actions' \in [Lifetimes -> Seq(Action)] /\ nextKey' \in [Lifetimes -> Nat]
  /\ actions'[a.of] = Append(actions[a.of], a) /\ nextKey'[a.of] = nextKey[a.of] + 1
  /\ \A l \in Lifetimes : l # a.of => actions'[l] = actions[l] /\ nextKey'[l] = nextKey[l]

\* A user's action is added, at the end of a bracket's opening or not.
AddsRun(t, a) ==
  /\ Keeps(a) /\ a.does = "run" /\ added' = added \cup {<<a.of, a.key>>}
  /\ \/ a.of \in created /\ stack' = stack
     \/ \E f \in Frame : Innermost(t, f) /\ f.call = "opening" /\ f.of = a.of /\ Move(t, 0, 1)
  /\ UNCHANGED <<created, terminated, attached, ran, lost>>

\* attach_nested leaves the termination of f's lifetime in its parent.
AddsTerminate(t, f, g, a) ==
  /\ Innermost(t, f) /\ f.call = "attaching" /\ Keeps(a)
  /\ a.does = "terminate" /\ a.nested = f.of /\ a.of = Parent[f.of]
  /\ OnTop(t, g) /\ g.call = "attached" /\ g.of = f.of /\ g.key = a.key /\ Move(t, 1, 1)
  /\ UNCHANGED <<created, terminated, attached, added, ran, lost>>

\* attach_nested leaves the removal of that action in f's lifetime.
AddsErase(t, f, a) ==
  /\ Innermost(t, f) /\ f.call = "attached" /\ Keeps(a)
  /\ a.does = "erase" /\ a.of = f.of /\ a.outer = f.key
  /\ Move(t, 0, 1)
  /\ attached' \in [Lifetimes -> Nat \cup {NotAttached}] /\ attached'[f.of] = f.key
  /\ \A l \in Lifetimes : l # f.of => attached'[l] = attached[l]
  /\ UNCHANGED <<created, terminated, added, ran, lost>>

\* An exception leaves every call of the thread.
Throws(t) ==
  /\ stack[t] = <<>> \/ (Len(stack[t]) > 0 /\ stack[t][1].call # "taking")
  /\ stack' \in [Threads -> Seq(Frame)] /\ stack'[t] = <<>>
  /\ \A u \in Threads : u # t => stack'[u] = stack[u]
  /\ lost \subseteq lost' /\ \A i \in Pos(t) : ToSet(stack[t][i].left) \subseteq lost'
  /\ UNCHANGED <<created, terminated, actions, nextKey, attached, added, ran>>

\* A bracket begins.
Opens(t, f) ==
  /\ AtCall(t) /\ Move(t, 1, 0) /\ OnTop(t, f)
  /\ f.call = "opening" /\ f.left = <<>> /\ f.of \in created
  /\ UNCHANGED <<created, terminated, actions, nextKey, attached, added, ran, lost>>

\* A nested lifetime begins.
Creates(t, f) ==
  /\ AtCall(t) /\ Move(t, 1, 0) /\ OnTop(t, f)
  /\ f.call = "attaching" /\ f.left = <<>> /\ f.of \notin created /\ Parent[f.of] \in created
  /\ created' = created \cup {f.of}
  /\ UNCHANGED <<terminated, actions, nextKey, attached, added, ran, lost>>

\* The flag of a lifetime is set.
Flagged(l) ==
  /\ terminated' \in [Lifetimes -> BOOLEAN] /\ terminated'[l]
  /\ \A m \in Lifetimes : m # l => terminated'[m] = terminated[m]

\* terminate begins.
Ends(t, f) ==
  /\ AtCall(t) /\ Move(t, 1, 0) /\ OnTop(t, f)
  /\ f.call = "taking" /\ f.left = <<>> /\ f.of \in created /\ Flagged(f.of)
  /\ UNCHANGED <<created, actions, nextKey, attached, added, ran, lost>>

\* terminate takes the actions.
Takes(t, f, g) ==
  /\ Innermost(t, f) /\ f.call = "taking" /\ Move(t, 1, 1)
  /\ OnTop(t, g) /\ g.call = "running" /\ g.of = f.of /\ g.left = actions[f.of]
  /\ actions' \in [Lifetimes -> Seq(Action)] /\ actions'[f.of] = <<>>
  /\ \A l \in Lifetimes : l # f.of => actions'[l] = actions[l]
  /\ UNCHANGED <<created, terminated, nextKey, attached, added, ran, lost>>

\* terminate's loop comes to the action a.
Reaches(t, f, g, a) ==
  /\ Innermost(t, f) /\ f.call = "running" /\ f.left # <<>>
  /\ a \in Action /\ a = Last(f.left)
  /\ g \in Frame /\ g.call = "running" /\ g.of = f.of /\ g.left = Front(f.left)
  /\ UNCHANGED <<created, nextKey, attached, added, lost>>

\* A user's action runs.
RunsUser(t, f, g, a) ==
  /\ Reaches(t, f, g, a) /\ a.does = "run" /\ Move(t, 1, 1) /\ OnTop(t, g)
  /\ ran' = Append(ran, <<a.of, a.key>>)
  /\ UNCHANGED <<terminated, actions>>

\* The action that terminates a nested lifetime runs.
RunsTerminate(t, f, g, h, a) ==
  /\ Reaches(t, f, g, a) /\ a.does = "terminate" /\ Move(t, 2, 1) /\ OnTop(t, h)
  /\ Len(stack'[t]) > 1 /\ stack'[t][2] = g
  /\ h.call = "taking" /\ h.of = a.nested /\ h.left = <<>> /\ Flagged(a.nested)
  /\ UNCHANGED <<actions, ran>>

\* The action that takes a nested lifetime off its parent runs.
RunsErase(t, f, g, a) ==
  /\ Reaches(t, f, g, a) /\ a.does = "erase" /\ Move(t, 1, 1) /\ OnTop(t, g)
  /\ actions' = [actions EXCEPT ![Parent[a.of]] = Erased(@, a.outer)]
  /\ UNCHANGED <<terminated, ran>>

\* terminate returns.
Returns(t, f) ==
  /\ Innermost(t, f) /\ f.call = "running" /\ f.left = <<>> /\ Move(t, 0, 1)
  /\ UNCHANGED <<created, terminated, actions, nextKey, attached, added, ran, lost>>

\* add_action's lock covers the test, the new key and the addition.
LEMMA AddActionKeeps ==
  ASSUME LTypes, NEW a \in Action, a.key = nextKey[a.of], AddAction(a)
  PROVE  Keeps(a)
<1>1. a.of \in Lifetimes
  BY RecordFields
<1>2. PICK s \in Seq(Action) : s = actions[a.of]
  BY <1>1 DEF LTypes
<1>3. PICK z : z = Append(s, a) /\ z \in Seq(Action)
  BY AppendProperties
<1>4. PICK n \in Nat : n = nextKey[a.of]
  BY <1>1 DEF LTypes
<1>5. PICK m \in Nat : m = n + 1
  OBVIOUS
<1>6. actions' = [actions EXCEPT ![a.of] = z] /\ nextKey' = [nextKey EXCEPT ![a.of] = m]
  BY <1>2, <1>3, <1>4, <1>5 DEF AddAction
<1>7. /\ actions' \in [Lifetimes -> Seq(Action)] /\ actions'[a.of] = z
      /\ \A l \in Lifetimes : l # a.of => actions'[l] = actions[l]
  BY <1>1, <1>3, <1>6 DEF LTypes
<1>8. /\ nextKey' \in [Lifetimes -> Nat] /\ nextKey'[a.of] = m
      /\ \A l \in Lifetimes : l # a.of => nextKey'[l] = nextKey[l]
  BY <1>1, <1>6 DEF LTypes
<1> QED BY <1>2, <1>3, <1>4, <1>5, <1>7, <1>8 DEF Keeps, AddAction

\* The exception of add_action.
LEMMA ThrowThrows ==
  ASSUME LTypes, NEW t \in Threads, Throw(t),
         stack[t] = <<>> \/ (Len(stack[t]) > 0 /\ stack[t][1].call # "taking"),
         UNCHANGED <<created, terminated, actions, nextKey, attached, added, ran>>
  PROVE  Throws(t)
<1>1. <<>> \in Seq(Frame)
  BY EmptySeq
<1>2. stack' = [stack EXCEPT ![t] = <<>>]
  BY DEF Throw
<1>3. PICK s \in Seq(Frame) : s = stack[t]
  BY DEF LTypes
<1>4. DOMAIN s = 1 .. Len(s)
  BY LenProperties
<1>5. lost' = lost \cup UNION {ToSet(s[n].left) : n \in 1 .. Len(s)}
  BY <1>3, <1>4 DEF Throw
<1>6. lost \subseteq lost' /\ \A i \in 1 .. Len(s) : ToSet(s[i].left) \subseteq lost'
  BY <1>5
<1> QED BY <1>1, <1>2, <1>3, <1>6, NewStack DEF Throws, Pos

\* The call a thread is in.
LEMMA InCall ==
  ASSUME LTypes, NEW t \in Threads
  PROVE  /\ \A call : IsIn(t, call) => /\ stack[t] # <<>> /\ Innermost(t, Top(t))
                                       /\ Top(t).call = call /\ Top(t) = stack[t][1]
         /\ Call(t) => AtCall(t)
         /\ stack[t] = <<>> \/ Innermost(t, stack[t][1])
<1>1. PICK s \in Seq(Frame) : s = stack[t]
  BY DEF LTypes
<1>2. s # <<>> => Len(s) > 0 /\ Head(s) = s[1] /\ s[1] \in Frame
  BY Stacked
<1> QED BY <1>1, <1>2 DEF IsIn, Top, Innermost, Call, AtCall

\* What Add does.
LEMMA AddDoes ==
  ASSUME LTypes, NEW t \in Threads, NEW l \in Lifetimes, Add(t, l)
  PROVE  (\E a \in Action : AddsRun(t, a)) \/ Throws(t)
<1>1. AtCall(t) /\ l \in created
  BY InCall DEF Add
<1>2. UNCHANGED <<created, terminated, attached, ran>>
  BY DEF Add
<1>3. CASE AddAction(UserAction(l)) /\ Added(l) /\ UNCHANGED <<stack, lost>>
  <2>1. PICK n \in Nat : n = nextKey[l]
    BY DEF LTypes
  <2>2. PICK a : a = [key |-> n, of |-> l, does |-> "run"]
    OBVIOUS
  <2>3. a \in Action /\ a.key = n /\ a.of = l /\ a.does = "run"
    BY <2>2 DEF Action
  <2>4. Keeps(a)
    BY <1>3, <2>1, <2>2, <2>3, AddActionKeeps DEF UserAction
  <2>5. added' = added \cup {<<a.of, a.key>>}
    BY <1>3, <2>1, <2>3 DEF Added
  <2> QED BY <1>1, <1>2, <1>3, <2>3, <2>4, <2>5 DEF AddsRun
<1>4. CASE terminated[l] /\ Throw(t) /\ UNCHANGED <<actions, nextKey, added>>
  <2>1. stack[t] = <<>> \/ (Len(stack[t]) > 0 /\ stack[t][1].call # "taking")
    BY <1>1 DEF AtCall
  <2> QED BY <1>2, <1>4, <2>1, ThrowThrows
<1> QED BY <1>3, <1>4 DEF Add

\* What AddClosing does.
LEMMA AddClosingDoes ==
  ASSUME LTypes, NEW t \in Threads, AddClosing(t)
  PROVE  (\E a \in Action : AddsRun(t, a)) \/ Throws(t)
<1>1. PICK f : f = Top(t)
  OBVIOUS
<1>2. stack[t] # <<>> /\ Innermost(t, f) /\ f.call = "opening" /\ f = stack[t][1]
  BY <1>1, InCall DEF AddClosing
<1>3. PICK l \in Lifetimes : l = f.of
  BY <1>2, RecordFields DEF Innermost
<1>4. UNCHANGED <<created, terminated, attached, ran>>
  BY DEF AddClosing
<1>5. CASE AddAction(UserAction(l)) /\ Added(l) /\ PopFrame(t) /\ UNCHANGED lost
  <2>1. PICK n \in Nat : n = nextKey[l]
    BY DEF LTypes
  <2>2. PICK a : a = [key |-> n, of |-> l, does |-> "run"]
    OBVIOUS
  <2>3. a \in Action /\ a.key = n /\ a.of = l /\ a.does = "run"
    BY <2>2 DEF Action
  <2>4. Keeps(a)
    BY <1>5, <2>1, <2>2, <2>3, AddActionKeeps DEF UserAction
  <2>5. added' = added \cup {<<a.of, a.key>>}
    BY <1>5, <2>1, <2>3 DEF Added
  <2>6. Move(t, 0, 1)
    BY <1>2, <1>5, Popped
  <2>7. f \in Frame
    BY <1>2 DEF Innermost
  <2> QED BY <1>2, <1>3, <1>4, <1>5, <2>3, <2>4, <2>5, <2>6, <2>7 DEF AddsRun
<1>6. CASE terminated[l] /\ Throw(t) /\ UNCHANGED <<actions, nextKey, added>>
  <2>1. stack[t] = <<>> \/ (Len(stack[t]) > 0 /\ stack[t][1].call # "taking")
    BY <1>2 DEF Innermost
  <2> QED BY <1>4, <1>6, <2>1, ThrowThrows
<1> QED BY <1>1, <1>3, <1>5, <1>6 DEF AddClosing

\* What AttachToParent does.
LEMMA AttachToParentDoes ==
  ASSUME LifetimesAssumption, LTypes, NEW t \in Threads, AttachToParent(t)
  PROVE  (\E a \in Action, f \in Frame, g \in Frame : AddsTerminate(t, f, g, a)) \/ Throws(t)
<1>1. PICK f : f = Top(t)
  OBVIOUS
<1>2. stack[t] # <<>> /\ Innermost(t, f) /\ f.call = "attaching" /\ f = stack[t][1]
  BY <1>1, InCall DEF AttachToParent
<1>3. PICK m \in Lifetimes : m = f.of
  BY <1>2, RecordFields DEF Innermost
<1>4. PICK p \in Lifetimes : p = Parent[m]
  BY DEF LifetimesAssumption
<1>5. UNCHANGED <<created, terminated, attached, added, ran>>
  BY DEF AttachToParent
<1>6. PICK n \in Nat : n = nextKey[p]
  BY DEF LTypes
<1>7. CASE /\ AddAction(TerminateNested(p, m))
           /\ stack' = [stack EXCEPT ![t] =
                <<[call |-> "attached", of |-> m, left |-> <<>>, key |-> n]>> \o Tail(@)]
           /\ UNCHANGED lost
  <2>1. PICK a : a = [key |-> n, of |-> p, does |-> "terminate", nested |-> m]
    OBVIOUS
  <2>2. a \in Action /\ a.key = n /\ a.of = p /\ a.does = "terminate" /\ a.nested = m
    BY <2>1 DEF Action
  <2>3. Keeps(a)
    BY <1>6, <1>7, <2>1, <2>2, AddActionKeeps DEF TerminateNested
  <2>4. PICK g : g = [call |-> "attached", of |-> m, left |-> <<>>, key |-> n]
    OBVIOUS
  <2>5. g \in Frame /\ g.call = "attached" /\ g.of = m /\ g.key = n
    BY <2>4 DEF Frame
  <2>6. stack' = [stack EXCEPT ![t] = <<g>> \o Tail(@)]
    BY <1>7, <2>4
  <2>7. Move(t, 1, 1) /\ Len(stack'[t]) > 0 /\ stack'[t][1] = g
    BY <1>2, <2>5, <2>6, Replaced
  <2>8. AddsTerminate(t, f, g, a)
    BY <1>2, <1>3, <1>4, <1>5, <1>7, <2>2, <2>3, <2>5, <2>7 DEF AddsTerminate, OnTop
  <2>9. f \in Frame
    BY <1>2 DEF Innermost
  <2> QED BY <2>2, <2>5, <2>8, <2>9
<1>8. CASE terminated[p] /\ Throw(t) /\ UNCHANGED <<actions, nextKey>>
  <2>1. stack[t] = <<>> \/ (Len(stack[t]) > 0 /\ stack[t][1].call # "taking")
    BY <1>2 DEF Innermost
  <2> QED BY <1>5, <1>8, <2>1, ThrowThrows
<1> QED BY <1>1, <1>3, <1>4, <1>6, <1>7, <1>8 DEF AttachToParent

\* What AddErase does.
LEMMA AddEraseDoes ==
  ASSUME LTypes, NEW t \in Threads, AddErase(t)
  PROVE  (\E a \in Action, f \in Frame : AddsErase(t, f, a)) \/ Throws(t)
<1>1. PICK f : f = Top(t)
  OBVIOUS
<1>2. stack[t] # <<>> /\ Innermost(t, f) /\ f.call = "attached" /\ f = stack[t][1]
  BY <1>1, InCall DEF AddErase
<1>3. PICK m \in Lifetimes : m = f.of
  BY <1>2, RecordFields DEF Innermost
<1>4. PICK k \in Nat : k = f.key
  BY <1>2, RecordFields DEF Innermost
<1>5. UNCHANGED <<created, terminated, added, ran>>
  BY DEF AddErase
<1>6. PICK n \in Nat : n = nextKey[m]
  BY DEF LTypes
<1>7. CASE /\ AddAction(EraseFrom(m, k)) /\ PopFrame(t)
           /\ attached' = [attached EXCEPT ![m] = k] /\ UNCHANGED lost
  <2>1. PICK a : a = [key |-> n, of |-> m, does |-> "erase", outer |-> k]
    OBVIOUS
  <2>2. a \in Action /\ a.key = n /\ a.of = m /\ a.does = "erase" /\ a.outer = k
    BY <2>1 DEF Action
  <2>3. Keeps(a)
    BY <1>6, <1>7, <2>1, <2>2, AddActionKeeps DEF EraseFrom
  <2>4. /\ attached' \in [Lifetimes -> Nat \cup {NotAttached}] /\ attached'[m] = k
        /\ \A l \in Lifetimes : l # m => attached'[l] = attached[l]
    BY <1>7 DEF LTypes
  <2>5. Move(t, 0, 1) /\ f \in Frame
    BY <1>2, <1>7, Popped DEF Innermost
  <2>6. AddsErase(t, f, a)
    BY <1>2, <1>3, <1>4, <1>5, <1>7, <2>2, <2>3, <2>4, <2>5 DEF AddsErase
  <2> QED BY <2>2, <2>5, <2>6
<1>8. CASE terminated[m] /\ Throw(t) /\ UNCHANGED <<actions, nextKey, attached>>
  <2>1. stack[t] = <<>> \/ (Len(stack[t]) > 0 /\ stack[t][1].call # "taking")
    BY <1>2 DEF Innermost
  <2> QED BY <1>5, <1>8, <2>1, ThrowThrows
<1> QED BY <1>1, <1>3, <1>4, <1>7, <1>8 DEF AddErase

\* What Bracket, CreateNested and Terminate do.
LEMMA CallsDo ==
  ASSUME LTypes, NEW t \in Threads, NEW l \in Lifetimes
  PROVE  /\ Bracket(t, l) => \E f \in Frame : Opens(t, f)
         /\ CreateNested(t, l) => \E f \in Frame : Creates(t, f)
         /\ Terminate(t, l) => \E f \in Frame : Ends(t, f)
<1>1. <<>> \in Seq(Action)
  BY EmptySeq
<1>2. ASSUME Bracket(t, l) PROVE \E f \in Frame : Opens(t, f)
  <2>1. PICK f : f = [call |-> "opening", of |-> l, left |-> <<>>]
    OBVIOUS
  <2>2. f \in Frame /\ f.call = "opening" /\ f.of = l /\ f.left = <<>>
    BY <1>1, <2>1 DEF Frame
  <2>3. PushFrame(t, f)
    BY <1>2, <2>1 DEF Bracket
  <2>4. Move(t, 1, 0) /\ OnTop(t, f)
    BY <2>2, <2>3, Pushed DEF OnTop
  <2>5. AtCall(t)
    BY <1>2, InCall DEF Bracket
  <2>6. l \in created /\ UNCHANGED <<created, terminated, actions, nextKey, attached, added, ran, lost>>
    BY <1>2 DEF Bracket
  <2> QED BY <2>2, <2>4, <2>5, <2>6 DEF Opens
<1>3. ASSUME CreateNested(t, l) PROVE \E f \in Frame : Creates(t, f)
  <2>1. PICK f : f = [call |-> "attaching", of |-> l, left |-> <<>>]
    OBVIOUS
  <2>2. f \in Frame /\ f.call = "attaching" /\ f.of = l /\ f.left = <<>>
    BY <1>1, <2>1 DEF Frame
  <2>3. PushFrame(t, f)
    BY <1>3, <2>1 DEF CreateNested
  <2>4. Move(t, 1, 0) /\ OnTop(t, f)
    BY <2>2, <2>3, Pushed DEF OnTop
  <2>5. AtCall(t)
    BY <1>3, InCall DEF CreateNested
  <2>6. /\ l \notin created /\ Parent[l] \in created /\ created' = created \cup {l}
        /\ UNCHANGED <<terminated, actions, nextKey, attached, added, ran, lost>>
    BY <1>3 DEF CreateNested
  <2> QED BY <2>2, <2>4, <2>5, <2>6 DEF Creates
<1>4. ASSUME Terminate(t, l) PROVE \E f \in Frame : Ends(t, f)
  <2>1. PICK f : f = [call |-> "taking", of |-> l, left |-> <<>>]
    OBVIOUS
  <2>2. f \in Frame /\ f.call = "taking" /\ f.of = l /\ f.left = <<>>
    BY <1>1, <2>1 DEF Frame
  <2>3. PushFrame(t, f)
    BY <1>4, <2>1 DEF Terminate
  <2>4. Move(t, 1, 0) /\ OnTop(t, f)
    BY <2>2, <2>3, Pushed DEF OnTop
  <2>5. AtCall(t)
    BY <1>4, InCall DEF Terminate
  <2>6. l \in created /\ UNCHANGED <<created, actions, nextKey, attached, added, ran, lost>>
    BY <1>4 DEF Terminate
  <2>7. Flagged(l)
    BY <1>4 DEF Terminate, Flagged, LTypes
  <2> QED BY <2>2, <2>4, <2>5, <2>6, <2>7 DEF Ends
<1> QED BY <1>2, <1>3, <1>4

\* What TakeActions and Return do.
LEMMA TakingDoes ==
  ASSUME LTypes, NEW t \in Threads
  PROVE  /\ TakeActions(t) => \E f \in Frame, g \in Frame : Takes(t, f, g)
         /\ Return(t) => \E f \in Frame : Returns(t, f)
<1>1. PICK f : f = Top(t)
  OBVIOUS
<1>2. ASSUME TakeActions(t) PROVE \E g \in Frame : f \in Frame /\ Takes(t, f, g)
  <2>1. stack[t] # <<>> /\ Innermost(t, f) /\ f.call = "taking" /\ f \in Frame
    BY <1>1, <1>2, InCall DEF TakeActions, Innermost
  <2>2. PICK l \in Lifetimes : l = f.of
    BY <2>1, RecordFields
  <2>3. PICK s \in Seq(Action) : s = actions[l]
    BY DEF LTypes
  <2>4. PICK g : g = [call |-> "running", of |-> l, left |-> s]
    OBVIOUS
  <2>5. g \in Frame /\ g.call = "running" /\ g.of = l /\ g.left = s
    BY <2>4 DEF Frame
  <2>6. stack' = [stack EXCEPT ![t] = <<g>> \o Tail(@)]
    BY <1>1, <1>2, <2>2, <2>3, <2>4 DEF TakeActions
  <2>7. Move(t, 1, 1) /\ OnTop(t, g)
    BY <2>1, <2>5, <2>6, Replaced DEF OnTop
  <2>8. <<>> \in Seq(Action) /\ actions' = [actions EXCEPT ![l] = <<>>]
    BY <1>1, <1>2, <2>2, EmptySeq DEF TakeActions
  <2>9. /\ actions' \in [Lifetimes -> Seq(Action)] /\ actions'[l] = <<>>
        /\ \A m \in Lifetimes : m # l => actions'[m] = actions[m]
    BY <2>8 DEF LTypes
  <2>10. UNCHANGED <<created, terminated, nextKey, attached, added, ran, lost>>
    BY <1>2 DEF TakeActions
  <2> QED BY <2>1, <2>2, <2>3, <2>5, <2>7, <2>9, <2>10 DEF Takes
<1>3. ASSUME Return(t) PROVE f \in Frame /\ Returns(t, f)
  <2>1. stack[t] # <<>> /\ Innermost(t, f) /\ f.call = "running" /\ f \in Frame
    BY <1>1, <1>3, InCall DEF Return, Innermost
  <2>2. Move(t, 0, 1)
    BY <1>3, <2>1, Popped DEF Return
  <2> QED BY <1>1, <1>3, <2>1, <2>2 DEF Return, Returns
<1> QED BY <1>2, <1>3

\* The next action a of the call f, and the call as it then goes on.
Comes(t, does, f, g, a) ==
  /\ stack[t] # <<>> /\ Innermost(t, f) /\ f.call = "running" /\ f.left # <<>>
  /\ f = Top(t) /\ a = NextAction(t) /\ a = Last(f.left) /\ a.does = does
  /\ g.call = "running" /\ g.of = f.of /\ g.left = Front(f.left)
  /\ Rest(t) = [stack EXCEPT ![t] = <<g>> \o Tail(@)]

\* What the loop of terminate comes to.
LEMMA HasActionReaches ==
  ASSUME LTypes, NEW t \in Threads, NEW does, HasAction(t, does)
  PROVE  \E f \in Frame, g \in Frame, a \in Action : Comes(t, does, f, g, a)
<1>1. PICK f : f = Top(t)
  OBVIOUS
<1>2. stack[t] # <<>> /\ Innermost(t, f) /\ f.call = "running" /\ f \in Frame
  BY <1>1, InCall DEF HasAction, Innermost
<1>3. f.left # <<>> /\ Last(f.left).does = does /\ NextAction(t) = Last(f.left)
  BY <1>1 DEF HasAction, NextAction
<1>4. PICK s \in Seq(Action) : s = f.left
  BY <1>2, RecordFields
<1>5. PICK z \in Seq(Action) : z = Front(s)
  BY <1>3, <1>4, FrontActions
<1>6. PICK a \in Action : a = Last(s)
  BY <1>3, <1>4, FrontActions
<1>7. PICK g : g = [f EXCEPT !.left = z]
  OBVIOUS
<1>8. g \in Frame /\ g.call = "running" /\ g.of = f.of /\ g.left = z
  BY <1>2, <1>7 DEF Frame
<1>9. Rest(t) = [stack EXCEPT ![t] = <<g>> \o Tail(@)]
  BY <1>1, <1>4, <1>5, <1>7 DEF Rest
<1> QED BY <1>1, <1>2, <1>3, <1>4, <1>5, <1>6, <1>8, <1>9 DEF Comes

\* What the actions that terminate runs do.
LEMMA RunsDo ==
  ASSUME LTypes, NEW t \in Threads
  PROVE  /\ RunUserAction(t) => \E f \in Frame, g \in Frame, a \in Action : RunsUser(t, f, g, a)
         /\ RunTerminateNested(t) => \E f \in Frame, g \in Frame, h \in Frame, a \in Action :
              RunsTerminate(t, f, g, h, a)
         /\ RunErase(t) => \E f \in Frame, g \in Frame, a \in Action : RunsErase(t, f, g, a)
<1>1. ASSUME RunUserAction(t)
      PROVE  \E f \in Frame, g \in Frame, a \in Action : RunsUser(t, f, g, a)
  <2>0. PICK f \in Frame, g \in Frame, a \in Action : Comes(t, "run", f, g, a)
    BY <1>1, HasActionReaches DEF RunUserAction
  <2>1. /\ stack[t] # <<>> /\ Innermost(t, f) /\ f.call = "running" /\ f.left # <<>>
        /\ f = Top(t) /\ a = NextAction(t) /\ a = Last(f.left) /\ a.does = "run"
        /\ g.call = "running" /\ g.of = f.of /\ g.left = Front(f.left)
        /\ Rest(t) = [stack EXCEPT ![t] = <<g>> \o Tail(@)]
    BY <2>0 DEF Comes
  <2>2. Move(t, 1, 1) /\ OnTop(t, g)
    BY <1>1, <2>1, Replaced DEF RunUserAction, OnTop
  <2>3. ran' = Append(ran, <<a.of, a.key>>)
    BY <1>1, <2>1 DEF RunUserAction
  <2>4. UNCHANGED <<created, terminated, actions, nextKey, attached, added, lost>>
    BY <1>1 DEF RunUserAction
  <2> QED BY <2>1, <2>2, <2>3, <2>4 DEF RunsUser, Reaches
<1>2. ASSUME RunTerminateNested(t)
      PROVE  \E f \in Frame, g \in Frame, h \in Frame, a \in Action : RunsTerminate(t, f, g, h, a)
  <2>0. PICK f \in Frame, g \in Frame, a \in Action : Comes(t, "terminate", f, g, a)
    BY <1>2, HasActionReaches DEF RunTerminateNested
  <2>1. /\ stack[t] # <<>> /\ Innermost(t, f) /\ f.call = "running" /\ f.left # <<>>
        /\ f = Top(t) /\ a = NextAction(t) /\ a = Last(f.left) /\ a.does = "terminate"
        /\ g.call = "running" /\ g.of = f.of /\ g.left = Front(f.left)
        /\ Rest(t) = [stack EXCEPT ![t] = <<g>> \o Tail(@)]
    BY <2>0 DEF Comes
  <2>2. PICK n \in Lifetimes : n = a.nested
    BY <2>1, RecordFields
  <2>3. PICK h : h = [call |-> "taking", of |-> n, left |-> <<>>]
    OBVIOUS
  <2>4. h \in Frame /\ h.call = "taking" /\ h.of = n /\ h.left = <<>>
    <3>1. <<>> \in Seq(Action)
      BY EmptySeq
    <3> QED BY <2>3, <3>1 DEF Frame
  <2>9. PICK w : w = [stack EXCEPT ![t] = <<g>> \o Tail(@)]
    OBVIOUS
  <2>5. stack' = [w EXCEPT ![t] = <<h>> \o @]
    BY <1>2, <2>1, <2>2, <2>3, <2>9 DEF RunTerminateNested
  <2>10. stack[t] # <<>> /\ h \in Frame
    BY <2>1, <2>4
  <2>12. PICK z : z = <<h>> \o w[t]
    OBVIOUS
  <2>13. stack' = [w EXCEPT ![t] = z]
    BY <2>5, <2>12
  <2>11. /\ Move(t, 2, 1) /\ Len(stack[t]) > 0 /\ Len(stack'[t]) > 1
         /\ stack'[t][1] = h /\ stack'[t][2] = g
    BY <2>9, <2>10, <2>12, <2>13, ReplacedBeneath
  <2>6. Move(t, 2, 1) /\ OnTop(t, h) /\ Len(stack'[t]) > 1 /\ stack'[t][2] = g
    <3>1. Len(stack'[t]) \in Nat
      BY <2>11, LenProperties DEF Move
    <3> QED BY <2>4, <2>11, <3>1 DEF OnTop
  <2>7. Flagged(n)
    BY <1>2, <2>1, <2>2 DEF RunTerminateNested, Flagged, LTypes
  <2>8. UNCHANGED <<created, actions, nextKey, attached, added, ran, lost>>
    BY <1>2 DEF RunTerminateNested
  <2> QED BY <2>1, <2>2, <2>4, <2>6, <2>7, <2>8 DEF RunsTerminate, Reaches
<1>3. ASSUME RunErase(t)
      PROVE  \E f \in Frame, g \in Frame, a \in Action : RunsErase(t, f, g, a)
  <2>0. PICK f \in Frame, g \in Frame, a \in Action : Comes(t, "erase", f, g, a)
    BY <1>3, HasActionReaches DEF RunErase
  <2>1. /\ stack[t] # <<>> /\ Innermost(t, f) /\ f.call = "running" /\ f.left # <<>>
        /\ f = Top(t) /\ a = NextAction(t) /\ a = Last(f.left) /\ a.does = "erase"
        /\ g.call = "running" /\ g.of = f.of /\ g.left = Front(f.left)
        /\ Rest(t) = [stack EXCEPT ![t] = <<g>> \o Tail(@)]
    BY <2>0 DEF Comes
  <2>2. Move(t, 1, 1) /\ OnTop(t, g)
    BY <1>3, <2>1, Replaced DEF RunErase, OnTop
  <2>3. actions' = [actions EXCEPT ![Parent[a.of]] = Erased(@, a.outer)]
    BY <1>3, <2>1 DEF RunErase
  <2>4. UNCHANGED <<created, terminated, nextKey, attached, added, ran, lost>>
    BY <1>3 DEF RunErase
  <2> QED BY <2>1, <2>2, <2>3, <2>4 DEF RunsErase, Reaches
<1> QED BY <1>1, <1>2, <1>3

\* What a step of a thread may do.
Does(t) ==
  \/ \E a \in Action : AddsRun(t, a)
  \/ \E a \in Action, f \in Frame, g \in Frame : AddsTerminate(t, f, g, a)
  \/ \E a \in Action, f \in Frame : AddsErase(t, f, a)
  \/ Throws(t)
  \/ \E f \in Frame : Opens(t, f)
  \/ \E f \in Frame : Creates(t, f)
  \/ \E f \in Frame : Ends(t, f)
  \/ \E f \in Frame, g \in Frame : Takes(t, f, g)
  \/ \E f \in Frame, g \in Frame, a \in Action : RunsUser(t, f, g, a)
  \/ \E f \in Frame, g \in Frame, h \in Frame, a \in Action : RunsTerminate(t, f, g, h, a)
  \/ \E f \in Frame, g \in Frame, a \in Action : RunsErase(t, f, g, a)
  \/ \E f \in Frame : Returns(t, f)

\* Every step is one of these.
LEMMA NextDoes ==
  ASSUME LifetimesAssumption, LTypes, Next
  PROVE  \E t \in Threads : Does(t)
<1>1. PICK t \in Threads :
        \/ \E l \in Lifetimes : Add(t, l) \/ Bracket(t, l) \/ CreateNested(t, l) \/ Terminate(t, l)
        \/ AddClosing(t) \/ AttachToParent(t) \/ AddErase(t) \/ TakeActions(t)
        \/ RunUserAction(t) \/ RunTerminateNested(t) \/ RunErase(t) \/ Return(t)
  BY DEF Next
<1>2. CASE \E l \in Lifetimes : Add(t, l)
  BY <1>2, AddDoes DEF Does
<1>3. CASE \E l \in Lifetimes : Bracket(t, l)
  BY <1>3, CallsDo DEF Does
<1>4. CASE \E l \in Lifetimes : CreateNested(t, l)
  BY <1>4, CallsDo DEF Does
<1>5. CASE \E l \in Lifetimes : Terminate(t, l)
  BY <1>5, CallsDo DEF Does
<1>6. CASE AddClosing(t)
  BY <1>6, AddClosingDoes DEF Does
<1>7. CASE AttachToParent(t)
  BY <1>7, AttachToParentDoes DEF Does
<1>8. CASE AddErase(t)
  BY <1>8, AddEraseDoes DEF Does
<1>9. CASE TakeActions(t)
  BY <1>9, TakingDoes DEF Does
<1>10. CASE RunUserAction(t)
  BY <1>10, RunsDo DEF Does
<1>11. CASE RunTerminateNested(t)
  BY <1>11, RunsDo DEF Does
<1>12. CASE RunErase(t)
  BY <1>12, RunsDo DEF Does
<1>13. CASE Return(t)
  BY <1>13, TakingDoes DEF Does
<1> QED BY <1>1, <1>2, <1>3, <1>4, <1>5, <1>6, <1>7, <1>8, <1>9, <1>10, <1>11, <1>12, <1>13

----------------------------------------------------------------------------
(***************************************************************************)
(* The actions that wait in a lifetime or in a thread's calls.             *)
(***************************************************************************)
\* Those that a lifetime keeps.
Kept == {b \in Action : \E l \in Lifetimes : b \in ToSet(actions[l])}

\* Those that a terminate has taken.
InCalls == {b \in Action : \E u \in Threads : \E i \in Pos(u) : b \in ToSet(stack[u][i].left)}

\* An action waits.
Hands == Kept \cup InCalls

\* A step moves the actions in the calls that it changes, and no others.
LEMMA MovedActions ==
  ASSUME NEW t \in Threads, NEW k \in {0, 1, 2}, NEW p \in {0, 1}, Move(t, k, p)
  PROVE  /\ \A b \in InCalls' : b \in InCalls
              \/ \E i \in 1 .. Len(stack'[t]) : i <= k /\ b \in ToSet(stack'[t][i].left)
         /\ \A b \in InCalls : b \in InCalls' \/ (p = 1 /\ b \in ToSet(stack[t][1].left))
         /\ \A i \in 1 .. Len(stack'[t]) : \A b \in Action :
              b \in ToSet(stack'[t][i].left) => b \in InCalls'
         /\ \A i \in Pos(t) : \A b \in Action : b \in ToSet(stack[t][i].left) => b \in InCalls
<1>0. Origins(t, k, p) /\ Survivors(t, k, p)
  BY MovedCalls
<1>1. ASSUME NEW b \in InCalls', b \notin InCalls
      PROVE  \E i \in 1 .. Len(stack'[t]) : i <= k /\ b \in ToSet(stack'[t][i].left)
  <2>1. PICK u \in Threads, i \in Nat :
           b \in Action /\ i \in 1 .. Len(stack'[u]) /\ b \in ToSet(stack'[u][i].left)
    BY <1>1 DEF InCalls, Pos
  <2>2. ~ \E j \in Pos(u) : stack'[u][i] = stack[u][j]
    BY <1>1, <2>1 DEF InCalls
  <2>3. u = t /\ i <= k
    BY <1>0, <2>1, <2>2 DEF Origins, Survivors
  <2> QED BY <2>1, <2>3
<1>2. ASSUME NEW b \in InCalls, b \notin InCalls'
      PROVE  p = 1 /\ b \in ToSet(stack[t][1].left)
  <2>1. PICK u \in Threads, j \in Nat :
           b \in Action /\ j \in Pos(u) /\ b \in ToSet(stack[u][j].left)
    BY <1>2 DEF InCalls, Pos
  <2>2. ~ \E i \in 1 .. Len(stack'[u]) : stack'[u][i] = stack[u][j]
    BY <1>2, <2>1 DEF InCalls, Pos
  <2>3. u = t /\ j <= p
    BY <1>0, <2>1, <2>2 DEF Origins, Survivors
  <2>4. p = 1 /\ j = 1
    BY <2>1, <2>3 DEF Pos
  <2> QED BY <2>1, <2>3, <2>4
<1>3. \A i \in 1 .. Len(stack'[t]) : \A b \in Action : b \in ToSet(stack'[t][i].left) => b \in InCalls'
  BY DEF InCalls, Pos
<1>4. \A i \in Pos(t) : \A b \in Action : b \in ToSet(stack[t][i].left) => b \in InCalls
  BY DEF InCalls
<1> QED BY <1>1, <1>2, <1>3, <1>4

\* The empty sequence has no action.
LEMMA NoActions == ToSet(<<>>) = {}
<1>1. <<>> \in Seq(Action)
  BY EmptySeq
<1> QED BY <1>1, ActionsOf

\* What add_action keeps waits in its lifetime.
LEMMA KeepsAnAction ==
  ASSUME LTypes, NEW a \in Action, Keeps(a)
  PROVE  /\ Kept' = Kept \cup {a} /\ a.of \in Lifetimes
         /\ ToSet(actions'[a.of]) = ToSet(actions[a.of]) \cup {a}
<1>1. PICK l \in Lifetimes : l = a.of
  BY RecordFields
<1>2. PICK s \in Seq(Action) : s = actions[l]
  BY DEF LTypes
<1>3. PICK z : z = Append(s, a)
  OBVIOUS
<1>4. ToSet(z) = ToSet(s) \cup {a}
  BY <1>3, AppendedActions
<1>5. actions'[l] = z /\ \A m \in Lifetimes : m # l => actions'[m] = actions[m]
  BY <1>1, <1>2, <1>3 DEF Keeps
<1>6. Kept' = Kept \cup {a}
  BY <1>2, <1>4, <1>5 DEF Kept
<1> QED BY <1>1, <1>2, <1>4, <1>5, <1>6

\* Calls without actions come and go.
LEMMA CallsStay ==
  ASSUME NEW t \in Threads, NEW k \in {0, 1, 2}, NEW p \in {0, 1}, Move(t, k, p),
         \A i \in 1 .. Len(stack'[t]) : i <= k => stack'[t][i].left = <<>>,
         p = 1 => stack[t][1].left = <<>>
  PROVE  InCalls' = InCalls
<1>1. /\ \A b \in InCalls' : b \in InCalls
              \/ \E i \in 1 .. Len(stack'[t]) : i <= k /\ b \in ToSet(stack'[t][i].left)
      /\ \A b \in InCalls : b \in InCalls' \/ (p = 1 /\ b \in ToSet(stack[t][1].left))
  BY MovedActions
<1> QED BY <1>1, NoActions

\* The actions that wait after something was added.
LEMMA AddsAnAction ==
  ASSUME LTypes, NEW t \in Threads, NEW a \in Action
  PROVE  /\ AddsRun(t, a) => Kept' = Kept \cup {a} /\ InCalls' = InCalls
         /\ \A f \in Frame, g \in Frame : AddsTerminate(t, f, g, a) =>
              Kept' = Kept \cup {a} /\ InCalls' = InCalls
         /\ \A f \in Frame : AddsErase(t, f, a) => Kept' = Kept \cup {a} /\ InCalls' = InCalls
<1>1. ASSUME AddsRun(t, a) PROVE Kept' = Kept \cup {a} /\ InCalls' = InCalls
  <2>1. Kept' = Kept \cup {a}
    BY <1>1, KeepsAnAction DEF AddsRun
  <2>2. CASE stack' = stack
    BY <2>1, <2>2 DEF InCalls, Pos
  <2>3. CASE \E f \in Frame : Innermost(t, f) /\ f.call = "opening" /\ f.of = a.of /\ Move(t, 0, 1)
    <3>1. stack[t][1].left = <<>> /\ Move(t, 0, 1)
      BY <2>3, RecordFields DEF Innermost
    <3>2. \A i \in 1 .. Len(stack'[t]) : i <= 0 => stack'[t][i].left = <<>>
      OBVIOUS
    <3>3. InCalls' = InCalls
      BY <3>1, <3>2, CallsStay
    <3> QED BY <2>1, <3>3
  <2> QED BY <1>1, <2>2, <2>3 DEF AddsRun
<1>2. ASSUME NEW f \in Frame, NEW g \in Frame, AddsTerminate(t, f, g, a)
      PROVE  Kept' = Kept \cup {a} /\ InCalls' = InCalls
  <2>1. Kept' = Kept \cup {a}
    BY <1>2, KeepsAnAction DEF AddsTerminate
  <2>2. stack[t][1].left = <<>> /\ stack'[t][1].left = <<>> /\ Move(t, 1, 1)
    BY <1>2, RecordFields DEF AddsTerminate, Innermost, OnTop
  <2>3. \A i \in 1 .. Len(stack'[t]) : i <= 1 => stack'[t][i].left = <<>>
    BY <2>2
  <2> QED BY <2>1, <2>2, <2>3, CallsStay
<1>3. ASSUME NEW f \in Frame, AddsErase(t, f, a)
      PROVE  Kept' = Kept \cup {a} /\ InCalls' = InCalls
  <2>1. Kept' = Kept \cup {a}
    BY <1>3, KeepsAnAction DEF AddsErase
  <2>2. stack[t][1].left = <<>> /\ Move(t, 0, 1)
    BY <1>3, RecordFields DEF AddsErase, Innermost
  <2>3. \A i \in 1 .. Len(stack'[t]) : i <= 0 => stack'[t][i].left = <<>>
    OBVIOUS
  <2> QED BY <2>1, <2>2, <2>3, CallsStay
<1> QED BY <1>1, <1>2, <1>3

\* After an exception the other threads' calls are left.
LEMMA ThrownCalls ==
  ASSUME NEW t \in Threads, Throws(t)
  PROVE  \A u \in Threads : \A i \in 1 .. Len(stack'[u]) :
           u # t /\ i \in Pos(u) /\ stack'[u][i] = stack[u][i]
<1>1. Len(stack'[t]) = 0
  BY EmptySeq DEF Throws
<1>2. \A i \in 1 .. Len(stack'[t]) : FALSE
  BY <1>1
<1> QED BY <1>2 DEF Throws, Pos

\* Those that wait while calls begin and return.
LEMMA CallsWithoutActions ==
  ASSUME LTypes, NEW t \in Threads, NEW f \in Frame
  PROVE  Opens(t, f) \/ Creates(t, f) \/ Ends(t, f) \/ Returns(t, f) =>
           Kept' = Kept /\ InCalls' = InCalls
<1>1. ASSUME Opens(t, f) \/ Creates(t, f) \/ Ends(t, f) PROVE Kept' = Kept /\ InCalls' = InCalls
  <2>1. Move(t, 1, 0) /\ stack'[t][1].left = <<>> /\ actions' = actions
    BY <1>1 DEF Opens, Creates, Ends, OnTop
  <2>2. \A i \in 1 .. Len(stack'[t]) : i <= 1 => stack'[t][i].left = <<>>
    BY <2>1
  <2>3. InCalls' = InCalls
    BY <2>1, <2>2, CallsStay
  <2> QED BY <2>1, <2>3 DEF Kept
<1>2. ASSUME Returns(t, f) PROVE Kept' = Kept /\ InCalls' = InCalls
  <2>1. Move(t, 0, 1) /\ stack[t][1].left = <<>> /\ actions' = actions
    BY <1>2 DEF Returns, Innermost
  <2>2. \A i \in 1 .. Len(stack'[t]) : i <= 0 => stack'[t][i].left = <<>>
    OBVIOUS
  <2>3. InCalls' = InCalls
    BY <2>1, <2>2, CallsStay
  <2> QED BY <2>1, <2>3 DEF Kept
<1> QED BY <1>1, <1>2

\* Those that wait when an exception leaves the calls.
LEMMA ThrownActions ==
  ASSUME NEW t \in Threads, Throws(t)
  PROVE  /\ Kept' = Kept /\ \A b \in InCalls' : b \in InCalls
         /\ \A b \in InCalls : b \in InCalls' \/ b \in lost'
<1>1. Kept' = Kept
  BY DEF Throws, Kept
<1>2. \A u \in Threads : \A i \in 1 .. Len(stack'[u]) :
        u # t /\ i \in Pos(u) /\ stack'[u][i] = stack[u][i]
  BY ThrownCalls
<1>3. \A b \in InCalls' : b \in InCalls
  BY <1>2 DEF InCalls, Pos
<1>4. \A b \in InCalls : b \in InCalls' \/ b \in lost'
  BY DEF Throws, InCalls, Pos
<1> QED BY <1>1, <1>3, <1>4

\* Those that wait when terminate takes the actions of a lifetime.
LEMMA TakenActions ==
  ASSUME LTypes, NEW t \in Threads, NEW f \in Frame, NEW g \in Frame, Takes(t, f, g)
  PROVE  /\ \A b \in Kept' : b \in Kept
         /\ \A b \in Kept : b \in Kept' \/ b \in ToSet(g.left)
         /\ \A b \in ToSet(g.left) : b \in Kept /\ b \in InCalls'
         /\ \A b \in InCalls' : b \in InCalls \/ b \in ToSet(g.left)
         /\ \A b \in InCalls : b \in InCalls'
<1>1. PICK l \in Lifetimes : l = f.of
  BY RecordFields
<1>2. PICK s \in Seq(Action) : s = actions[l] /\ s = g.left
  BY <1>1 DEF LTypes, Takes
<1>3. actions'[l] = <<>> /\ \A m \in Lifetimes : m # l => actions'[m] = actions[m]
  BY <1>1 DEF Takes
<1>4. \A b \in Kept' : b \in Kept
  BY <1>3, NoActions DEF Kept
<1>5. \A b \in Kept : b \in Kept' \/ b \in ToSet(s)
  BY <1>2, <1>3 DEF Kept
<1>6. \A b \in ToSet(s) : b \in Action
  BY ActionsOf
<1>7. \A b \in ToSet(s) : b \in Kept
  BY <1>2, <1>6 DEF Kept
<1>8. Move(t, 1, 1) /\ stack[t][1].left = <<>> /\ stack'[t][1].left = s /\ 1 \in 1 .. Len(stack'[t])
  <2>1. Move(t, 1, 1) /\ stack[t][1].left = <<>> /\ stack'[t][1].left = s /\ Len(stack'[t]) > 0
    BY <1>2, RecordFields DEF Takes, Innermost, OnTop
  <2>2. Len(stack'[t]) \in Nat
    BY <2>1, LenProperties DEF Move
  <2> QED BY <2>1, <2>2
<1>9. /\ \A b \in InCalls' : b \in InCalls
              \/ \E i \in 1 .. Len(stack'[t]) : i <= 1 /\ b \in ToSet(stack'[t][i].left)
      /\ \A b \in InCalls : b \in InCalls' \/ (1 = 1 /\ b \in ToSet(stack[t][1].left))
      /\ \A i \in 1 .. Len(stack'[t]) : \A b \in Action :
              b \in ToSet(stack'[t][i].left) => b \in InCalls'
  BY <1>8, MovedActions
<1>10. \A i \in 1 .. Len(stack'[t]) : i <= 1 => i = 1
  OBVIOUS
<1>11. \A b \in InCalls' : b \in InCalls \/ b \in ToSet(s)
  BY <1>8, <1>9, <1>10
<1>12. \A b \in InCalls : b \in InCalls'
  BY <1>8, <1>9, NoActions
<1>13. \A b \in ToSet(s) : b \in InCalls'
  BY <1>6, <1>8, <1>9
<1> QED BY <1>2, <1>4, <1>5, <1>7, <1>11, <1>12, <1>13

\* What a terminate has yet to run when it comes to an action.
LEMMA ReachedActions ==
  ASSUME LTypes, NEW t \in Threads, NEW f \in Frame, NEW g \in Frame, NEW a \in Action,
         Reaches(t, f, g, a)
  PROVE  /\ ToSet(f.left) = ToSet(g.left) \cup {a} /\ stack[t][1] = f /\ 1 \in Pos(t)
         /\ Increasing(f.left) =>
              Increasing(g.left) /\ \A b \in ToSet(g.left) : b.key < a.key
<1>1. PICK s \in Seq(Action) : s = f.left /\ s # <<>>
  BY RecordFields DEF Reaches
<1>2. \A b \in Action : b.key \in Int
  BY RecordFields
<1>3. /\ ToSet(s) = ToSet(Front(s)) \cup {Last(s)}
      /\ (\A b \in Action : b.key \in Int) /\ Increasing(s) =>
           Increasing(Front(s)) /\ \A b \in ToSet(Front(s)) : b.key < Last(s).key
  BY <1>1, FrontActions
<1>4. stack[t][1] = f /\ Len(stack[t]) > 0
  BY DEF Reaches, Innermost
<1>5. Len(stack[t]) \in Nat
  BY LenProperties DEF LTypes
<1> QED BY <1>1, <1>2, <1>3, <1>4, <1>5 DEF Reaches, Pos

\* Those that wait when an action runs.
LEMMA RunActions ==
  ASSUME LTypes, NEW t \in Threads, NEW f \in Frame, NEW g \in Frame, NEW a \in Action,
         RunsUser(t, f, g, a) \/ RunsErase(t, f, g, a)
           \/ \E h \in Frame : RunsTerminate(t, f, g, h, a)
  PROVE  /\ a \in InCalls
         /\ \A b \in InCalls' : b \in InCalls
         /\ \A b \in InCalls : b \in InCalls' \/ b = a
<1>1. Reaches(t, f, g, a)
  BY DEF RunsUser, RunsErase, RunsTerminate
<1>2. ToSet(f.left) = ToSet(g.left) \cup {a} /\ stack[t][1] = f /\ 1 \in Pos(t)
  BY <1>1, ReachedActions
<1>3. a \in InCalls
  BY <1>2 DEF InCalls
<1>4. \A b \in ToSet(f.left) : b \in Action
  BY RecordFields, ActionsOf
<1>5. \A b \in ToSet(g.left) : b \in Action
  BY RecordFields, ActionsOf
<1>6. \A b \in ToSet(g.left) : b \in InCalls
  BY <1>2, <1>5 DEF InCalls
<1>7. CASE RunsUser(t, f, g, a) \/ RunsErase(t, f, g, a)
  <2>1. Move(t, 1, 1) /\ stack'[t][1] = g /\ Len(stack'[t]) > 0
    BY <1>7 DEF RunsUser, RunsErase, OnTop
  <2>2. Len(stack'[t]) \in Nat
    BY <2>1, LenProperties DEF Move
  <2>3. /\ \A b \in InCalls' : b \in InCalls
              \/ \E i \in 1 .. Len(stack'[t]) : i <= 1 /\ b \in ToSet(stack'[t][i].left)
        /\ \A b \in InCalls : b \in InCalls' \/ (1 = 1 /\ b \in ToSet(stack[t][1].left))
        /\ \A i \in 1 .. Len(stack'[t]) : \A b \in Action :
              b \in ToSet(stack'[t][i].left) => b \in InCalls'
    BY <2>1, MovedActions
  <2>4. \A i \in 1 .. Len(stack'[t]) : i <= 1 => i = 1
    OBVIOUS
  <2>5. \A b \in InCalls' : b \in InCalls
    BY <1>6, <2>1, <2>3, <2>4
  <2>6. \A b \in ToSet(g.left) : b \in InCalls'
    BY <1>5, <2>1, <2>2, <2>3
  <2> QED BY <1>2, <1>3, <2>3, <2>5, <2>6
<1>8. CASE \E h \in Frame : RunsTerminate(t, f, g, h, a)
  <2>1. PICK h \in Frame : RunsTerminate(t, f, g, h, a)
    BY <1>8
  <2>2. /\ Move(t, 2, 1) /\ stack'[t][1] = h /\ h.left = <<>>
        /\ Len(stack'[t]) > 1 /\ stack'[t][2] = g
    BY <2>1 DEF RunsTerminate, OnTop
  <2>3. Len(stack'[t]) \in Nat
    BY <2>2, LenProperties DEF Move
  <2>4. /\ \A b \in InCalls' : b \in InCalls
              \/ \E i \in 1 .. Len(stack'[t]) : i <= 2 /\ b \in ToSet(stack'[t][i].left)
        /\ \A b \in InCalls : b \in InCalls' \/ (1 = 1 /\ b \in ToSet(stack[t][1].left))
        /\ \A i \in 1 .. Len(stack'[t]) : \A b \in Action :
              b \in ToSet(stack'[t][i].left) => b \in InCalls'
    BY <2>2, MovedActions
  <2>5. \A i \in 1 .. Len(stack'[t]) : i <= 2 => i = 1 \/ i = 2
    BY <2>3
  <2>6. \A b \in InCalls' : b \in InCalls
    BY <1>6, <2>2, <2>4, <2>5, NoActions
  <2>7. \A b \in ToSet(g.left) : b \in InCalls'
    BY <1>5, <2>2, <2>3, <2>4
  <2> QED BY <1>2, <1>3, <2>4, <2>6, <2>7
<1> QED BY <1>7, <1>8

----------------------------------------------------------------------------
(***************************************************************************)
(* Where the keys are: no action disappears.                               *)
(***************************************************************************)
\* terminate has taken a lifetime's actions.
Taken(l) == terminated[l] /\ actions[l] = <<>>

\* A lifetime keeps its own actions in the order they came in.
Ordered ==
  \A l \in Lifetimes : Increasing(actions[l]) /\ \A a \in ToSet(actions[l]) : a.of = l

\* So does a call, which has those of its lifetime, once that is terminated.
CallOrdered(f) ==
  /\ Increasing(f.left) /\ \A a \in ToSet(f.left) : a.of = f.of
  /\ f.call = "taking" => terminated[f.of]
  /\ f.call = "running" => Taken(f.of)
CallsOrdered == \A u \in Threads : \A i \in Pos(u) : CallOrdered(stack[u][i])

\* The keys that were given, and what erase will not take away: a user's action.
Keyed(a) ==
  /\ a.of \in created /\ a.key < nextKey[a.of]
  /\ a.does # "run" => <<a.of, a.key>> \notin added
  /\ a.does = "terminate" => a.nested \in created /\ Parent[a.nested] = a.of
  /\ a.does = "erase" =>
       a.outer < nextKey[Parent[a.of]] /\ <<Parent[a.of], a.outer>> \notin added
HandsKeyed == \A a \in Hands : Keyed(a)

\* The same of the key that a nested lifetime is about to keep.
CallKeyed(f) ==
  /\ f.of \in created /\ (f.call = "attaching" => Parent[f.of] \in created)
  /\ f.call = "attached" =>
       f.key < nextKey[Parent[f.of]] /\ <<Parent[f.of], f.key>> \notin added
CallsKeyed == \A u \in Threads : \A i \in Pos(u) : CallKeyed(stack[u][i])

\* The users' actions have keys that were given.
AddedKeyed == \A x \in added : x[2] < nextKey[x[1]]

\* What holds of the keys in every state.
KeyInv ==
  LTypes /\ Ordered /\ CallsOrdered /\ HandsKeyed /\ CallsKeyed /\ AddedKeyed

\* What a step never takes back.
Growth ==
  /\ created \subseteq created' /\ nextKey' \in [Lifetimes -> Nat]
  /\ \A l \in Lifetimes : nextKey[l] <= nextKey'[l] /\ (terminated[l] => terminated'[l])
  /\ \A l \in Lifetimes : Taken(l) => actions'[l] = <<>>
  /\ \A x \in added' : x \in added \/ nextKey[x[1]] <= x[2]

\* What the removal of an action leaves in the lifetimes.
LEMMA ErasesAnAction ==
  ASSUME LifetimesAssumption, LTypes, Ordered, NEW t \in Threads,
         NEW f \in Frame, NEW g \in Frame, NEW a \in Action, RunsErase(t, f, g, a)
  PROVE  /\ Parent[a.of] \in Lifetimes
         /\ actions' \in [Lifetimes -> Seq(Action)]
         /\ \A l \in Lifetimes : Increasing(actions'[l]) /\ \A b \in ToSet(actions'[l]) : b.of = l
         /\ \A l \in Lifetimes : \A b \in ToSet(actions'[l]) : b \in ToSet(actions[l])
         /\ \A b \in ToSet(actions'[Parent[a.of]]) : b.key # a.outer
         /\ \A l \in Lifetimes : \A b \in ToSet(actions[l]) :
              b \in ToSet(actions'[l]) \/ (l = Parent[a.of] /\ b.key = a.outer)
         /\ \A l \in Lifetimes : actions[l] = <<>> => actions'[l] = <<>>
<1>1. PICK p \in Lifetimes : p = Parent[a.of]
  BY RecordFields DEF LifetimesAssumption
<1>2. PICK s \in Seq(Action) : s = actions[p]
  BY DEF LTypes
<1>3. PICK key \in Nat : key = a.outer
  BY RecordFields DEF RunsErase
<1>4. PICK z : z = Erased(s, key)
  OBVIOUS
<1>5. \A b \in Action : b.key \in Int
  BY RecordFields
<1>6. Increasing(s)
  BY <1>2 DEF Ordered
<1>7. z \in Seq(Action) /\ Increasing(z) /\ ToSet(z) = {b \in ToSet(s) : b.key # key}
  BY <1>4, <1>5, <1>6, ErasedActions
<1>8. actions' = [actions EXCEPT ![p] = z]
  BY <1>1, <1>2, <1>3, <1>4 DEF RunsErase
<1>9. /\ actions' \in [Lifetimes -> Seq(Action)] /\ actions'[p] = z
      /\ \A l \in Lifetimes : l # p => actions'[l] = actions[l]
  BY <1>7, <1>8 DEF LTypes
<1>10. s = <<>> => z = <<>>
  <2>1. s = <<>> => ToSet(s) = {}
    BY NoActions
  <2>2. ToSet(z) = {} => z = <<>>
    BY <1>7, ActionsOf
  <2> QED BY <1>7, <2>1, <2>2
<1>11. \A l \in Lifetimes : Increasing(actions'[l]) /\ \A b \in ToSet(actions'[l]) : b.of = l
  BY <1>2, <1>7, <1>9 DEF Ordered
<1> QED BY <1>1, <1>2, <1>3, <1>7, <1>9, <1>10, <1>11

\* A step takes no key, flag or lifetime back.
LEMMA Grows ==
  ASSUME LifetimesAssumption, LTypes, Ordered, NEW t \in Threads, Does(t)
  PROVE  Growth
<1>1. nextKey \in [Lifetimes -> Nat] /\ \A l \in Lifetimes : nextKey[l] \in Nat
  BY DEF LTypes
<1>2. ASSUME NEW a \in Action, Keeps(a), UNCHANGED <<created, terminated>>,
             added' = added \/ added' = added \cup {<<a.of, a.key>>}
      PROVE  Growth
  <2>1. a.of \in Lifetimes /\ a.key = nextKey[a.of]
    BY <1>2, RecordFields DEF Keeps
  <2>2. ASSUME NEW l \in Lifetimes PROVE nextKey[l] <= nextKey'[l]
    <3>1. PICK n \in Nat : n = nextKey[l]
      BY <1>1
    <3>2. nextKey'[l] = n \/ nextKey'[l] = n + 1
      BY <1>2, <3>1 DEF Keeps
    <3> QED BY <3>1, <3>2
  <2>3. \A l \in Lifetimes : Taken(l) => actions'[l] = <<>>
    BY <1>2 DEF Keeps, Taken
  <2>4. \A x \in added' : x \in added \/ nextKey[x[1]] <= x[2]
    BY <1>1, <1>2, <2>1
  <2> QED BY <1>2, <2>2, <2>3, <2>4 DEF Growth, Keeps
<1>3. ASSUME NEW l \in Lifetimes, Flagged(l), UNCHANGED <<created, nextKey, actions, added>>
      PROVE  Growth
  <2>1. \A m \in Lifetimes : terminated[m] => terminated'[m]
    BY <1>3 DEF Flagged
  <2> QED BY <1>1, <1>3, <2>1 DEF Growth, Taken
<1>4. ASSUME created \subseteq created', UNCHANGED <<terminated, nextKey, added>>,
             \A l \in Lifetimes : actions[l] = <<>> => actions'[l] = <<>>
      PROVE  Growth
  BY <1>1, <1>4 DEF Growth, Taken
<1>5. CASE \E a \in Action : AddsRun(t, a)
  BY <1>2, <1>5 DEF AddsRun
<1>6. CASE \E a \in Action, f \in Frame, g \in Frame : AddsTerminate(t, f, g, a)
  BY <1>2, <1>6 DEF AddsTerminate
<1>7. CASE \E a \in Action, f \in Frame : AddsErase(t, f, a)
  BY <1>2, <1>7 DEF AddsErase
<1>8. CASE Throws(t)
  BY <1>4, <1>8 DEF Throws
<1>9. CASE \E f \in Frame : Opens(t, f)
  BY <1>4, <1>9 DEF Opens
<1>10. CASE \E f \in Frame : Creates(t, f)
  BY <1>4, <1>10 DEF Creates
<1>11. CASE \E f \in Frame : Ends(t, f)
  BY <1>3, <1>11, RecordFields DEF Ends
<1>12. CASE \E f \in Frame, g \in Frame : Takes(t, f, g)
  BY <1>4, <1>12 DEF Takes
<1>13. CASE \E f \in Frame, g \in Frame, a \in Action : RunsUser(t, f, g, a)
  BY <1>4, <1>13 DEF RunsUser, Reaches
<1>14. CASE \E f \in Frame, g \in Frame, h \in Frame, a \in Action : RunsTerminate(t, f, g, h, a)
  <2>1. PICK f \in Frame, g \in Frame, h \in Frame, a \in Action : RunsTerminate(t, f, g, h, a)
    BY <1>14
  <2>2. a.nested \in Lifetimes
    BY <2>1, RecordFields DEF RunsTerminate
  <2> QED BY <1>3, <2>1, <2>2 DEF RunsTerminate, Reaches
<1>15. CASE \E f \in Frame, g \in Frame, a \in Action : RunsErase(t, f, g, a)
  <2>1. PICK f \in Frame, g \in Frame, a \in Action : RunsErase(t, f, g, a)
    BY <1>15
  <2>2. \A l \in Lifetimes : actions[l] = <<>> => actions'[l] = <<>>
    BY <2>1, ErasesAnAction
  <2> QED BY <1>4, <2>1, <2>2 DEF RunsErase, Reaches
<1>16. CASE \E f \in Frame : Returns(t, f)
  BY <1>4, <1>16 DEF Returns
<1> QED BY <1>5, <1>6, <1>7, <1>8, <1>9, <1>10, <1>11, <1>12, <1>13, <1>14, <1>15, <1>16 DEF Does

\* A step keeps the types.
LEMMA TypesStay ==
  ASSUME LifetimesAssumption, LTypes, Ordered, NEW t \in Threads, Does(t)
  PROVE  LTypes'
<1>1. ASSUME NEW a \in Action, Keeps(a), stack' \in [Threads -> Seq(Frame)],
             UNCHANGED <<created, terminated, ran>>,
             attached' \in [Lifetimes -> Nat \cup {NotAttached}],
             added' = added \/ added' = added \cup {<<a.of, a.key>>}
      PROVE  LTypes'
  <2>1. <<a.of, a.key>> \in Lifetimes \X Nat
    BY RecordFields
  <2> QED BY <1>1, <2>1 DEF LTypes, Keeps
<1>2. ASSUME stack' \in [Threads -> Seq(Frame)], created \subseteq created',
             created' \in SUBSET Lifetimes, terminated' \in [Lifetimes -> BOOLEAN],
             actions' \in [Lifetimes -> Seq(Action)], ran' \in Seq(Lifetimes \X Nat),
             UNCHANGED <<nextKey, attached, added>>
      PROVE  LTypes'
  BY <1>2 DEF LTypes
<1>3. CASE \E a \in Action : AddsRun(t, a)
  BY <1>1, <1>3 DEF AddsRun, Move, LTypes
<1>4. CASE \E a \in Action, f \in Frame, g \in Frame : AddsTerminate(t, f, g, a)
  BY <1>1, <1>4 DEF AddsTerminate, Move, LTypes
<1>5. CASE \E a \in Action, f \in Frame : AddsErase(t, f, a)
  BY <1>1, <1>5 DEF AddsErase, Move
<1>6. CASE Throws(t)
  BY <1>2, <1>6 DEF Throws, LTypes
<1>7. CASE \E f \in Frame : Opens(t, f)
  BY <1>2, <1>7 DEF Opens, Move, LTypes
<1>8. CASE \E f \in Frame : Creates(t, f)
  BY <1>2, <1>8, RecordFields DEF Creates, Move, LTypes
<1>9. CASE \E f \in Frame : Ends(t, f)
  BY <1>2, <1>9 DEF Ends, Move, LTypes, Flagged
<1>10. CASE \E f \in Frame, g \in Frame : Takes(t, f, g)
  BY <1>2, <1>10 DEF Takes, Move, LTypes
<1>11. CASE \E f \in Frame, g \in Frame, a \in Action : RunsUser(t, f, g, a)
  <2>1. PICK f \in Frame, g \in Frame, a \in Action : RunsUser(t, f, g, a)
    BY <1>11
  <2>2. PICK x \in Lifetimes \X Nat : x = <<a.of, a.key>>
    BY RecordFields
  <2>3. PICK r \in Seq(Lifetimes \X Nat) : r = ran
    BY DEF LTypes
  <2>4. Append(r, x) \in Seq(Lifetimes \X Nat)
    BY AppendProperties
  <2>5. ran' \in Seq(Lifetimes \X Nat)
    BY <2>1, <2>2, <2>3, <2>4 DEF RunsUser
  <2> QED BY <1>2, <2>1, <2>5 DEF RunsUser, Reaches, Move, LTypes
<1>12. CASE \E f \in Frame, g \in Frame, h \in Frame, a \in Action : RunsTerminate(t, f, g, h, a)
  BY <1>2, <1>12 DEF RunsTerminate, Reaches, Move, LTypes, Flagged
<1>13. CASE \E f \in Frame, g \in Frame, a \in Action : RunsErase(t, f, g, a)
  <2>1. PICK f \in Frame, g \in Frame, a \in Action : RunsErase(t, f, g, a)
    BY <1>13
  <2>2. actions' \in [Lifetimes -> Seq(Action)]
    BY <2>1, ErasesAnAction
  <2> QED BY <1>2, <2>1, <2>2 DEF RunsErase, Reaches, Move, LTypes
<1>14. CASE \E f \in Frame : Returns(t, f)
  BY <1>2, <1>14 DEF Returns, Move, LTypes
<1> QED BY <1>3, <1>4, <1>5, <1>6, <1>7, <1>8, <1>9, <1>10, <1>11, <1>12, <1>13, <1>14 DEF Does

\* The actions that a lifetime keeps wait.
LEMMA KeptOf ==
  ASSUME LTypes
  PROVE  /\ \A l \in Lifetimes : \A b \in ToSet(actions[l]) : b \in Kept /\ b \in Hands /\ b \in Action
         /\ \A u \in Threads : \A i \in Pos(u) : \A b \in ToSet(stack[u][i].left) :
              b \in InCalls /\ b \in Hands /\ b \in Action
<1>1. ASSUME NEW l \in Lifetimes, NEW b \in ToSet(actions[l])
      PROVE  b \in Kept /\ b \in Hands /\ b \in Action
  <2>1. PICK s \in Seq(Action) : s = actions[l]
    BY DEF LTypes
  <2>2. b \in Action
    BY <1>1, <2>1, ActionsOf
  <2> QED BY <1>1, <2>2 DEF Kept, Hands
<1>2. ASSUME NEW u \in Threads, NEW i \in Pos(u), NEW b \in ToSet(stack[u][i].left)
      PROVE  b \in InCalls /\ b \in Hands /\ b \in Action
  <2>1. PICK s \in Seq(Frame) : s = stack[u]
    BY DEF LTypes
  <2>2. s[i] \in Frame
    BY <2>1, ElementOfSeq DEF Pos
  <2>3. PICK z \in Seq(Action) : z = s[i].left
    BY <2>2, RecordFields
  <2>4. b \in Action
    BY <1>2, <2>1, <2>3, ActionsOf
  <2> QED BY <1>2, <2>4 DEF InCalls, Hands
<1> QED BY <1>1, <1>2

\* A lifetime keeps its order.
LEMMA OrderStays ==
  ASSUME LifetimesAssumption, KeyInv, NEW t \in Threads, Does(t)
  PROVE  Ordered'
<1> USE DEF KeyInv
<1>1. ASSUME NEW a \in Action, Keeps(a) PROVE Ordered'
  <2>1. PICK l \in Lifetimes : l = a.of
    BY RecordFields
  <2>2. PICK s \in Seq(Action) : s = actions[l]
    BY DEF LTypes
  <2>3. \A b \in ToSet(s) : b.key < a.key /\ b.of = l
    <3>1. SUFFICES ASSUME NEW b \in ToSet(s) PROVE b.key < a.key /\ b.of = l
      OBVIOUS
    <3>2. b \in Hands /\ b.of = l
      BY <2>2, KeptOf DEF Ordered
    <3>3. b.key < nextKey[b.of]
      BY <3>2 DEF HandsKeyed, Keyed
    <3>4. a.key = nextKey[l]
      BY <1>1, <2>1 DEF Keeps
    <3> QED BY <3>2, <3>3, <3>4
  <2>4. Increasing(s)
    BY <2>2 DEF Ordered
  <2>5. PICK z : z = Append(s, a)
    OBVIOUS
  <2>6. ToSet(z) = ToSet(s) \cup {a} /\ Increasing(z)
    <3>1. Increasing(s) /\ (\A b \in ToSet(s) : b.key < a.key) => Increasing(Append(s, a))
      BY AppendedActions
    <3>2. ToSet(Append(s, a)) = ToSet(s) \cup {a}
      BY AppendedActions
    <3> QED BY <2>3, <2>4, <2>5, <3>1, <3>2
  <2>7. actions'[l] = z /\ \A m \in Lifetimes : m # l => actions'[m] = actions[m]
    BY <1>1, <2>1, <2>2, <2>5 DEF Keeps
  <2> QED BY <2>1, <2>3, <2>6, <2>7 DEF Ordered
<1>2. ASSUME UNCHANGED actions PROVE Ordered'
  BY <1>2 DEF Ordered
<1>3. CASE \E f \in Frame, g \in Frame : Takes(t, f, g)
  <2>1. PICK f \in Frame, g \in Frame : Takes(t, f, g)
    BY <1>3
  <2>2. Increasing(<<>>)
    BY EmptySeq DEF Increasing
  <2> QED BY <2>1, <2>2, NoActions DEF Ordered, Takes
<1>4. CASE \E f \in Frame, g \in Frame, a \in Action : RunsErase(t, f, g, a)
  BY <1>4, ErasesAnAction DEF Ordered
<1>5. CASE \/ \E a \in Action : AddsRun(t, a)
           \/ \E a \in Action, f \in Frame, g \in Frame : AddsTerminate(t, f, g, a)
           \/ \E a \in Action, f \in Frame : AddsErase(t, f, a)
  BY <1>1, <1>5 DEF AddsRun, AddsTerminate, AddsErase
<1>6. CASE \/ Throws(t) \/ \E f \in Frame : Opens(t, f) \/ Creates(t, f) \/ Ends(t, f) \/ Returns(t, f)
  BY <1>2, <1>6 DEF Throws, Opens, Creates, Ends, Returns
<1>7. CASE \/ \E f \in Frame, g \in Frame, a \in Action : RunsUser(t, f, g, a)
           \/ \E f \in Frame, g \in Frame, h \in Frame, a \in Action : RunsTerminate(t, f, g, h, a)
  BY <1>2, <1>7 DEF RunsUser, RunsTerminate
<1> QED BY <1>3, <1>4, <1>5, <1>6, <1>7 DEF Does

\* The calls are frames.
LEMMA CallsAreFrames ==
  ASSUME LTypes
  PROVE  \A u \in Threads : \A i \in Pos(u) : stack[u][i] \in Frame
<1>1. ASSUME NEW u \in Threads, NEW i \in Pos(u) PROVE stack[u][i] \in Frame
  <2>1. PICK s \in Seq(Frame) : s = stack[u]
    BY DEF LTypes
  <2> QED BY <2>1, ElementOfSeq DEF Pos
<1> QED BY <1>1

\* A call that only stays keeps what was known of it.
LEMMA OldCallsStay ==
  ASSUME LifetimesAssumption, KeyInv, Growth, NEW f \in Frame, CallOrdered(f), CallKeyed(f)
  PROVE  CallOrdered(f)' /\ CallKeyed(f)'
<1>1. PICK l \in Lifetimes : l = f.of
  BY RecordFields
<1>2. CallOrdered(f)'
  BY <1>1 DEF CallOrdered, Growth, Taken
<1>3. ASSUME f.call = "attached"
      PROVE  f.key < nextKey'[Parent[l]] /\ <<Parent[l], f.key>> \notin added'
  <2>1. PICK p \in Lifetimes : p = Parent[l]
    BY DEF LifetimesAssumption
  <2>2. PICK k \in Nat : k = f.key
    BY <1>3, RecordFields
  <2>3. PICK n \in Nat : n = nextKey'[p]
    BY <2>1 DEF Growth
  <2>4. PICK m \in Nat : m = nextKey[p]
    BY DEF KeyInv, LTypes
  <2>5. k < m /\ m <= n /\ <<p, k>> \notin added
    BY <1>1, <1>3, <2>1, <2>2, <2>3, <2>4 DEF CallKeyed, Growth
  <2>6. <<p, k>> \notin added'
    BY <2>4, <2>5 DEF Growth
  <2>7. k < nextKey'[p]
    BY <2>2, <2>3, <2>4, <2>5
  <2> QED BY <2>1, <2>2, <2>6, <2>7
<1> QED BY <1>1, <1>2, <1>3 DEF CallKeyed, Growth

\* A step's calls are old ones or in G.
Comings(G) ==
  \A u \in Threads : \A i \in 1 .. Len(stack'[u]) :
    stack'[u][i] \in G \/ \E j \in Pos(u) : stack'[u][i] = stack[u][j]

\* What the calls in G have to be.
FreshCalls(G) == \A g \in G : CallOrdered(g)' /\ CallKeyed(g)'

\* The calls of a state and the new ones of a step.
LEMMA CallsKnown ==
  ASSUME LifetimesAssumption, KeyInv, Growth, NEW G, FreshCalls(G), Comings(G)
  PROVE  CallsOrdered' /\ CallsKeyed'
<1>1. ASSUME NEW u \in Threads, NEW i \in 1 .. Len(stack'[u])
      PROVE  \E f : f = stack'[u][i] /\ CallOrdered(f)' /\ CallKeyed(f)'
  <2>1. CASE stack'[u][i] \in G
    BY <2>1 DEF FreshCalls
  <2>2. CASE \E j \in Pos(u) : stack'[u][i] = stack[u][j]
    <3>1. PICK f : \E j \in Pos(u) : f = stack[u][j] /\ stack'[u][i] = f
      BY <2>2
    <3>2. f \in Frame /\ CallOrdered(f) /\ CallKeyed(f)
      BY <3>1, CallsAreFrames DEF KeyInv, CallsOrdered, CallsKeyed
    <3> QED BY <3>1, <3>2, OldCallsStay
  <2> QED BY <2>1, <2>2 DEF Comings
<1>2. ASSUME NEW u \in Threads, NEW i \in 1 .. Len(stack'[u])
      PROVE  CallOrdered(stack[u][i])' /\ CallKeyed(stack[u][i])'
  <2>1. PICK f : f = stack'[u][i] /\ CallOrdered(f)' /\ CallKeyed(f)'
    BY <1>1
  <2> QED BY <2>1 DEF CallOrdered, CallKeyed, Taken
<1> QED BY <1>2 DEF CallsOrdered, CallsKeyed, Pos

\* What a thread calls keeps the order and the keys.
LEMMA CallsStayKeyed ==
  ASSUME LifetimesAssumption, KeyInv, Growth, NEW t \in Threads, Does(t)
  PROVE  CallsOrdered' /\ CallsKeyed'
<1>1. Increasing(<<>>)
  BY EmptySeq DEF Increasing
<1>2. ASSUME NEW k \in {0, 1, 2}, NEW p \in {0, 1}, Move(t, k, p), NEW G,
             \A i \in 1 .. Len(stack'[t]) : i <= k => stack'[t][i] \in G
      PROVE  Comings(G)
  <2>1. Origins(t, k, p)
    BY <1>2, MovedCalls
  <2> QED BY <1>2, <2>1 DEF Origins, Comings
<1>3. ASSUME NEW p \in {0, 1}, NEW g \in Frame, Move(t, 1, p), stack'[t][1] = g,
             CallOrdered(g)' /\ CallKeyed(g)'
      PROVE  CallsOrdered' /\ CallsKeyed'
  <2>1. PICK G : G = {g}
    OBVIOUS
  <2>2. \A i \in 1 .. Len(stack'[t]) : i <= 1 => stack'[t][i] \in G
    BY <1>3, <2>1
  <2>3. Comings(G)
    BY <1>2, <1>3, <2>2
  <2>4. FreshCalls(G)
    BY <1>3, <2>1 DEF FreshCalls
  <2> QED BY <2>3, <2>4, CallsKnown
<1>4. ASSUME Move(t, 0, 1) PROVE CallsOrdered' /\ CallsKeyed'
  <2>1. PICK G : G = {}
    OBVIOUS
  <2>2. Comings(G)
    <3>1. \A i \in 1 .. Len(stack'[t]) : i <= 0 => stack'[t][i] \in G
      OBVIOUS
    <3> QED BY <1>2, <1>4, <3>1
  <2>3. FreshCalls(G)
    BY <2>1 DEF FreshCalls
  <2> QED BY <2>2, <2>3, CallsKnown
<1>5. ASSUME \A u \in Threads : \A i \in 1 .. Len(stack'[u]) :
               \E j \in Pos(u) : stack'[u][i] = stack[u][j]
      PROVE  CallsOrdered' /\ CallsKeyed'
  <2>1. PICK G : G = {}
    OBVIOUS
  <2>2. FreshCalls(G)
    BY <2>1 DEF FreshCalls
  <2>3. Comings(G)
    BY <1>5 DEF Comings
  <2> QED BY <2>2, <2>3, CallsKnown
<1>6. ASSUME NEW f, Innermost(t, f) PROVE f \in Frame /\ CallOrdered(f) /\ CallKeyed(f)
  <2>1. 1 \in Pos(t) /\ f = stack[t][1] /\ f \in Frame
    <3>1. Len(stack[t]) \in Nat
      BY LenProperties DEF KeyInv, LTypes
    <3> QED BY <1>6, <3>1 DEF Innermost, Pos
  <2> QED BY <2>1 DEF KeyInv, CallsOrdered, CallsKeyed
<1>7. CASE \E a \in Action : AddsRun(t, a)
  <2>1. CASE Move(t, 0, 1)
    BY <1>4, <2>1
  <2>2. CASE stack' = stack
    BY <1>5, <2>2 DEF Pos
  <2> QED BY <1>7, <2>1, <2>2 DEF AddsRun
<1>8. CASE \E a \in Action, f \in Frame, g \in Frame : AddsTerminate(t, f, g, a)
  <2>1. PICK a \in Action, f \in Frame, g \in Frame : AddsTerminate(t, f, g, a)
    BY <1>8
  <2>2. g.left = <<>> /\ g.call = "attached" /\ g.of = f.of /\ g.key = a.key
    BY <2>1, RecordFields DEF AddsTerminate
  <2>3. CallOrdered(g)'
    BY <1>1, <2>2, NoActions DEF CallOrdered
  <2>4. g.of \in created'
    BY <1>6, <2>1, <2>2 DEF AddsTerminate, CallKeyed
  <2>5. PICK p \in Lifetimes : p = Parent[g.of] /\ p = a.of
    BY <2>1, <2>2, RecordFields DEF AddsTerminate
  <2>6. PICK n \in Nat : n = nextKey[p] /\ a.key = n /\ nextKey'[p] = n + 1
    BY <2>1, <2>5 DEF KeyInv, LTypes, AddsTerminate, Keeps
  <2>7. <<p, n>> \notin added'
    BY <2>1, <2>6 DEF KeyInv, AddedKeyed, AddsTerminate
  <2>8. CallKeyed(g)'
    BY <2>2, <2>4, <2>5, <2>6, <2>7 DEF CallKeyed
  <2>9. Move(t, 1, 1) /\ stack'[t][1] = g
    BY <2>1 DEF AddsTerminate, OnTop
  <2> QED BY <1>3, <2>3, <2>8, <2>9
<1>9. CASE \E a \in Action, f \in Frame : AddsErase(t, f, a)
  BY <1>4, <1>9 DEF AddsErase
<1>10. CASE Throws(t)
  BY <1>5, <1>10, ThrownCalls
<1>11. CASE \E f \in Frame : Opens(t, f) \/ Creates(t, f) \/ Ends(t, f)
  <2>1. PICK f \in Frame : Opens(t, f) \/ Creates(t, f) \/ Ends(t, f)
    BY <1>11
  <2>2. f.left = <<>> /\ f.call \in {"opening", "attaching", "taking"} /\ f.of \in created'
    BY <2>1 DEF Opens, Creates, Ends
  <2>3. f.call = "taking" => terminated'[f.of]
    BY <2>1 DEF Opens, Creates, Ends, Flagged
  <2>6. f.call = "attaching" => Parent[f.of] \in created'
    BY <2>1 DEF Opens, Creates, Ends
  <2>4. CallOrdered(f)' /\ CallKeyed(f)'
    BY <1>1, <2>2, <2>3, <2>6, NoActions DEF CallOrdered, CallKeyed
  <2>5. Move(t, 1, 0) /\ stack'[t][1] = f
    BY <2>1 DEF Opens, Creates, Ends, OnTop
  <2> QED BY <1>3, <2>4, <2>5
<1>12. CASE \E f \in Frame, g \in Frame : Takes(t, f, g)
  <2>1. PICK f \in Frame, g \in Frame : Takes(t, f, g)
    BY <1>12
  <2>2. PICK l \in Lifetimes : l = f.of /\ l = g.of
    BY <2>1, RecordFields DEF Takes
  <2>3. PICK s : s = actions[l] /\ s = g.left /\ g.call = "running"
    BY <2>1, <2>2 DEF Takes
  <2>4. Increasing(s) /\ \A b \in ToSet(s) : b.of = l
    BY <2>2, <2>3 DEF KeyInv, Ordered
  <2>5. l \in created /\ terminated[l]
    BY <1>6, <2>1, <2>2 DEF Takes, CallOrdered, CallKeyed
  <2>6. actions'[l] = <<>> /\ terminated' = terminated /\ created' = created
    BY <2>1, <2>2 DEF Takes
  <2>7. CallOrdered(g)' /\ CallKeyed(g)'
    BY <2>2, <2>3, <2>4, <2>5, <2>6 DEF CallOrdered, CallKeyed, Taken
  <2>8. Move(t, 1, 1) /\ stack'[t][1] = g
    BY <2>1 DEF Takes, OnTop
  <2> QED BY <1>3, <2>7, <2>8
<1>13. ASSUME NEW f \in Frame, NEW g \in Frame, NEW a \in Action, Reaches(t, f, g, a)
       PROVE  CallOrdered(g)' /\ CallKeyed(g)'
  <2>1. f.call = "running" /\ CallOrdered(f) /\ CallKeyed(f)
    BY <1>6, <1>13 DEF Reaches
  <2>2. ToSet(f.left) = ToSet(g.left) \cup {a} /\ Increasing(g.left)
    BY <1>13, <2>1, ReachedActions DEF KeyInv, CallOrdered
  <2>3. g.call = "running" /\ g.of = f.of
    BY <1>13 DEF Reaches
  <2>4. CallOrdered(g) /\ CallKeyed(g)
    BY <2>1, <2>2, <2>3 DEF CallOrdered, CallKeyed
  <2> QED BY <2>4, OldCallsStay
<1>14. CASE \E f \in Frame, g \in Frame, a \in Action : RunsUser(t, f, g, a) \/ RunsErase(t, f, g, a)
  <2>1. PICK f \in Frame, g \in Frame, a \in Action : RunsUser(t, f, g, a) \/ RunsErase(t, f, g, a)
    BY <1>14
  <2>2. Reaches(t, f, g, a) /\ Move(t, 1, 1) /\ stack'[t][1] = g
    BY <2>1 DEF RunsUser, RunsErase, OnTop
  <2> QED BY <1>3, <1>13, <2>2
<1>15. CASE \E f \in Frame, g \in Frame, h \in Frame, a \in Action : RunsTerminate(t, f, g, h, a)
  <2>1. PICK f \in Frame, g \in Frame, h \in Frame, a \in Action : RunsTerminate(t, f, g, h, a)
    BY <1>15
  <2>2. Reaches(t, f, g, a) /\ Move(t, 2, 1) /\ stack'[t][1] = h /\ stack'[t][2] = g
    BY <2>1 DEF RunsTerminate, OnTop
  <2>3. CallOrdered(g)' /\ CallKeyed(g)'
    BY <1>13, <2>2
  <2>4. h.call = "taking" /\ h.left = <<>> /\ terminated'[h.of]
    BY <2>1 DEF RunsTerminate, Flagged
  <2>5. h.of \in created'
    <3>1. LTypes
      BY DEF KeyInv
    <3>2. \E x \in Frame : RunsTerminate(t, f, g, x, a)
      BY <2>1
    <3>3. a \in InCalls
      BY <3>1, <3>2, RunActions
    <3>4. Keyed(a) /\ a.does = "terminate" /\ h.of = a.nested /\ created' = created
      BY <2>1, <3>3 DEF Hands, RunsTerminate, Reaches, KeyInv, HandsKeyed
    <3> QED BY <3>4 DEF Keyed
  <2>6. CallOrdered(h)' /\ CallKeyed(h)'
    BY <1>1, <2>4, <2>5, NoActions DEF CallOrdered, CallKeyed
  <2>7. PICK G : G = {g, h}
    OBVIOUS
  <2>8. \A i \in 1 .. Len(stack'[t]) : i <= 2 => stack'[t][i] \in G
    BY <2>2, <2>7
  <2>9. Comings(G)
    BY <1>2, <2>2, <2>8
  <2>10. FreshCalls(G)
    BY <2>3, <2>6, <2>7 DEF FreshCalls
  <2> QED BY <2>9, <2>10, CallsKnown
<1>16. CASE \E f \in Frame : Returns(t, f)
  BY <1>4, <1>16 DEF Returns
<1> QED BY <1>7, <1>8, <1>9, <1>10, <1>11, <1>12, <1>14, <1>15, <1>16 DEF Does

\* An action that waits keeps what was known of it.
LEMMA OldActionsStay ==
  ASSUME LifetimesAssumption, KeyInv, Growth, NEW a \in Action, Keyed(a)
  PROVE  Keyed(a)'
<1>1. ASSUME NEW l \in Lifetimes, NEW k \in Nat, k < nextKey[l]
      PROVE  k < nextKey'[l] /\ (<<l, k>> \notin added => <<l, k>> \notin added')
  <2>1. PICK m \in Nat : m = nextKey[l]
    BY DEF KeyInv, LTypes
  <2>2. PICK n \in Nat : n = nextKey'[l]
    BY DEF Growth
  <2>3. k < m /\ m <= n
    BY <1>1, <2>1, <2>2 DEF Growth
  <2>4. <<l, k>> \in added' => <<l, k>> \in added \/ m <= k
    BY <2>1 DEF Growth
  <2> QED BY <2>2, <2>3, <2>4
<1>2. a.of \in Lifetimes /\ a.key \in Nat
  BY RecordFields
<1>3. a.of \in created' /\ a.key < nextKey'[a.of] /\ (a.does # "run" => <<a.of, a.key>> \notin added')
  BY <1>1, <1>2 DEF Keyed, Growth
<1>4. a.does = "terminate" => a.nested \in created' /\ Parent[a.nested] = a.of
  BY DEF Keyed, Growth
<1>5. ASSUME a.does = "erase"
      PROVE  a.outer < nextKey'[Parent[a.of]] /\ <<Parent[a.of], a.outer>> \notin added'
  <2>1. PICK p \in Lifetimes : p = Parent[a.of]
    BY <1>2 DEF LifetimesAssumption
  <2>2. PICK k \in Nat : k = a.outer
    BY <1>5, RecordFields
  <2>3. k < nextKey[p] /\ <<p, k>> \notin added
    BY <1>5, <2>1, <2>2 DEF Keyed
  <2> QED BY <1>1, <2>1, <2>2, <2>3
<1> QED BY <1>3, <1>4, <1>5 DEF Keyed

\* What waits after a step waited before, or was added.
LEMMA HandsGrow ==
  ASSUME LifetimesAssumption, LTypes, Ordered, NEW t \in Threads, Does(t)
  PROVE  \A b \in Hands' :
           \/ b \in Hands
           \/ AddsRun(t, b)
           \/ \E f \in Frame, g \in Frame : AddsTerminate(t, f, g, b)
           \/ \E f \in Frame : AddsErase(t, f, b)
<1>1. CASE \E a \in Action : AddsRun(t, a)
  <2>1. PICK a \in Action : AddsRun(t, a)
    BY <1>1
  <2>2. Kept' = Kept \cup {a} /\ InCalls' = InCalls
    BY <2>1, AddsAnAction
  <2> QED BY <2>1, <2>2 DEF Hands
<1>2. CASE \E a \in Action, f \in Frame, g \in Frame : AddsTerminate(t, f, g, a)
  <2>1. PICK a \in Action, f \in Frame, g \in Frame : AddsTerminate(t, f, g, a)
    BY <1>2
  <2>2. Kept' = Kept \cup {a} /\ InCalls' = InCalls
    BY <2>1, AddsAnAction
  <2> QED BY <2>1, <2>2 DEF Hands
<1>3. CASE \E a \in Action, f \in Frame : AddsErase(t, f, a)
  <2>1. PICK a \in Action, f \in Frame : AddsErase(t, f, a)
    BY <1>3
  <2>2. Kept' = Kept \cup {a} /\ InCalls' = InCalls
    BY <2>1, AddsAnAction
  <2> QED BY <2>1, <2>2 DEF Hands
<1>4. CASE Throws(t)
  BY <1>4, ThrownActions DEF Hands
<1>5. CASE \E f \in Frame : Opens(t, f) \/ Creates(t, f) \/ Ends(t, f) \/ Returns(t, f)
  <2>1. Kept' = Kept /\ InCalls' = InCalls
    BY <1>5, CallsWithoutActions
  <2> QED BY <2>1 DEF Hands
<1>6. CASE \E f \in Frame, g \in Frame : Takes(t, f, g)
  BY <1>6, TakenActions DEF Hands
<1>7. CASE \E f \in Frame, g \in Frame, a \in Action : RunsUser(t, f, g, a) \/ RunsErase(t, f, g, a)
                 \/ \E h \in Frame : RunsTerminate(t, f, g, h, a)
  <2>1. PICK f \in Frame, g \in Frame, a \in Action : RunsUser(t, f, g, a) \/ RunsErase(t, f, g, a)
                 \/ \E h \in Frame : RunsTerminate(t, f, g, h, a)
    BY <1>7
  <2>2. \A b \in InCalls' : b \in InCalls
    BY <2>1, RunActions
  <2>3. \A b \in Kept' : b \in Kept
    <3>1. CASE RunsErase(t, f, g, a)
      <4>1. \A l \in Lifetimes : \A b \in ToSet(actions'[l]) : b \in ToSet(actions[l])
        BY <3>1, ErasesAnAction
      <4> QED BY <4>1 DEF Kept
    <3>2. CASE RunsUser(t, f, g, a) \/ \E h \in Frame : RunsTerminate(t, f, g, h, a)
      BY <3>2 DEF RunsUser, RunsTerminate, Kept
    <3> QED BY <2>1, <3>1, <3>2
  <2> QED BY <2>2, <2>3 DEF Hands
<1> QED BY <1>1, <1>2, <1>3, <1>4, <1>5, <1>6, <1>7 DEF Does

\* The keys of what waits and of what was added.
LEMMA HandsStayKeyed ==
  ASSUME LifetimesAssumption, KeyInv, Growth, NEW t \in Threads, Does(t)
  PROVE  HandsKeyed' /\ AddedKeyed'
<1>1. LTypes /\ Ordered
  BY DEF KeyInv
<1>2. ASSUME NEW f, Innermost(t, f) PROVE f \in Frame /\ CallKeyed(f)
  <2>1. Len(stack[t]) \in Nat
    BY <1>1, LenProperties DEF LTypes
  <2> QED BY <1>2, <2>1 DEF Innermost, Pos, KeyInv, CallsKeyed
<1>3. ASSUME NEW a \in Action, Keeps(a)
      PROVE  a.of \in Lifetimes /\ a.key < nextKey'[a.of] /\ <<a.of, a.key>> \notin added
  <2>1. PICK l \in Lifetimes : l = a.of
    BY RecordFields
  <2>2. PICK n \in Nat : n = nextKey[l]
    BY <1>1 DEF LTypes
  <2>3. a.key = n /\ nextKey'[l] = n + 1
    BY <1>3, <2>1, <2>2 DEF Keeps
  <2>4. <<l, n>> \notin added
    BY <2>2 DEF KeyInv, AddedKeyed
  <2> QED BY <2>1, <2>2, <2>3, <2>4
<1>4. ASSUME NEW b \in Hands' PROVE Keyed(b)'
  <2>1. b \in Action
    BY <1>4 DEF Hands, Kept, InCalls
  <2>2. CASE b \in Hands
    BY <2>1, <2>2, OldActionsStay DEF KeyInv, HandsKeyed
  <2>3. CASE AddsRun(t, b)
    <3>1. b.of \in created' /\ b.does = "run"
      BY <1>2, <2>3 DEF AddsRun, CallKeyed
    <3>2. Keeps(b)
      BY <2>3 DEF AddsRun
    <3> QED BY <1>3, <2>1, <3>1, <3>2 DEF Keyed
  <2>4. CASE \E f \in Frame, g \in Frame : AddsTerminate(t, f, g, b)
    <3>1. PICK f \in Frame, g \in Frame : AddsTerminate(t, f, g, b)
      BY <2>4
    <3>2. CallKeyed(f) /\ f.call = "attaching"
      BY <1>2, <3>1 DEF AddsTerminate
    <3>3. /\ Keeps(b) /\ b.does = "terminate" /\ b.nested = f.of /\ b.of = Parent[f.of]
          /\ created' = created /\ added' = added
      BY <3>1 DEF AddsTerminate
    <3> QED BY <1>3, <2>1, <3>2, <3>3 DEF Keyed, CallKeyed
  <2>5. CASE \E f \in Frame : AddsErase(t, f, b)
    <3>1. PICK f \in Frame : AddsErase(t, f, b)
      BY <2>5
    <3>2. /\ Keeps(b) /\ b.does = "erase" /\ b.of = f.of /\ b.outer = f.key
          /\ created' = created /\ added' = added
      BY <3>1 DEF AddsErase
    <3>3. CallKeyed(f) /\ f.call = "attached" /\ f \in Frame
      BY <1>2, <3>1 DEF AddsErase
    <3>4. CallKeyed(f)'
      <4>1. CallOrdered(f)
        <5>1. Len(stack[t]) \in Nat
          BY <1>1, LenProperties DEF LTypes
        <5> QED BY <3>1, <5>1 DEF AddsErase, Innermost, Pos, KeyInv, CallsOrdered
      <4> QED BY <3>3, <4>1, OldCallsStay
    <3>5. b.outer < nextKey'[Parent[b.of]] /\ <<Parent[b.of], b.outer>> \notin added'
      BY <3>2, <3>3, <3>4 DEF CallKeyed
    <3> QED BY <1>3, <2>1, <3>2, <3>3, <3>5 DEF Keyed, CallKeyed
  <2> QED BY <1>1, <1>4, <2>2, <2>3, <2>4, <2>5, HandsGrow
<1>5. ASSUME NEW x \in added' PROVE x[2] < nextKey'[x[1]]
  <2>1. CASE x \in added
    <3>1. PICK l \in Lifetimes, k \in Nat : x[1] = l /\ x[2] = k
      BY <1>1, <2>1 DEF LTypes
    <3>2. PICK m \in Nat : m = nextKey[l]
      BY <1>1 DEF LTypes
    <3>3. PICK n \in Nat : n = nextKey'[l]
      BY DEF Growth
    <3>4. k < m /\ m <= n
      BY <2>1, <3>1, <3>2, <3>3 DEF KeyInv, AddedKeyed, Growth
    <3> QED BY <3>1, <3>3, <3>4
  <2>2. CASE x \notin added
    <3>1. PICK a \in Action : Keeps(a) /\ x = <<a.of, a.key>>
      <4>1. CASE \E a \in Action : AddsRun(t, a)
        BY <1>5, <2>2, <4>1 DEF AddsRun
      <4>2. CASE added' = added
        BY <1>5, <2>2, <4>2
      <4> QED BY <4>1, <4>2 DEF Does, AddsTerminate, AddsErase, Throws, Opens, Creates, Ends,
                  Takes, RunsUser, RunsTerminate, RunsErase, Reaches, Returns
    <3> QED BY <1>3, <3>1
  <2> QED BY <2>1, <2>2
<1> QED BY <1>4, <1>5 DEF HandsKeyed, AddedKeyed

\* Every step keeps what holds of the keys.
LEMMA KeyInvStays ==
  ASSUME LifetimesAssumption, KeyInv, [Next]_lifetimeVars
  PROVE  KeyInv'
<1>1. CASE Next
  <2>1. LTypes /\ Ordered
    BY DEF KeyInv
  <2>2. PICK t \in Threads : Does(t)
    BY <1>1, <2>1, NextDoes
  <2>3. Growth
    BY <2>1, <2>2, Grows
  <2>4. LTypes'
    BY <2>1, <2>2, TypesStay
  <2>5. Ordered'
    BY <2>2, OrderStays
  <2>6. CallsOrdered' /\ CallsKeyed'
    BY <2>2, <2>3, CallsStayKeyed
  <2>7. HandsKeyed' /\ AddedKeyed'
    BY <2>2, <2>3, HandsStayKeyed
  <2> QED BY <2>4, <2>5, <2>6, <2>7 DEF KeyInv
<1>2. CASE UNCHANGED lifetimeVars
  <2>1. LTypes' /\ Ordered' /\ AddedKeyed'
    BY <1>2 DEF lifetimeVars, KeyInv, LTypes, Ordered, AddedKeyed
  <2>2. CallsOrdered' /\ CallsKeyed'
    BY <1>2 DEF lifetimeVars, KeyInv, CallsOrdered, CallOrdered, Taken, CallsKeyed, CallKeyed, Pos
  <2>3. Hands' = Hands
    BY <1>2 DEF lifetimeVars, Hands, Kept, InCalls, Pos
  <2>4. HandsKeyed'
    BY <1>2, <2>3 DEF lifetimeVars, KeyInv, HandsKeyed, Keyed
  <2> QED BY <2>1, <2>2, <2>4 DEF KeyInv
<1> QED BY <1>1, <1>2

\* It holds at first, when nothing has been added or called.
LEMMA InitKeyInv ==
  ASSUME LifetimesAssumption, Init
  PROVE  KeyInv
<1>1. <<>> \in Seq(Action) /\ <<>> \in Seq(Frame) /\ <<>> \in Seq(Lifetimes \X Nat) /\ Len(<<>>) = 0
  BY EmptySeq
<1>2. \A u \in Threads : Pos(u) = {}
  BY <1>1 DEF Init, Pos
<1>3. \A l \in Lifetimes : actions[l] = <<>>
  BY DEF Init
<1>4. LTypes
  BY <1>1 DEF Init, LTypes, Roots, NotAttached
<1>5. Increasing(<<>>)
  BY <1>1 DEF Increasing
<1>6. Ordered
  BY <1>3, <1>5, NoActions DEF Ordered
<1>7. Hands = {} /\ added = {}
  BY <1>2, <1>3, NoActions DEF Hands, Kept, InCalls, Init
<1> QED BY <1>2, <1>4, <1>6, <1>7 DEF KeyInv, CallsOrdered, CallsKeyed, HandsKeyed, AddedKeyed

\* An action that was added has run, waits or was left out.
Remembered ==
  \A x \in added : x \in ToSet(ran) \/ \E a \in Hands \cup lost : x = <<a.of, a.key>>

\* What has run stays so.
LEMMA RanGrows ==
  ASSUME LTypes, NEW t \in Threads, Does(t)
  PROVE  \/ ran' = ran
         \/ \E f \in Frame, g \in Frame, a \in Action :
              RunsUser(t, f, g, a) /\ ToSet(ran') = ToSet(ran) \cup {<<a.of, a.key>>}
<1>1. CASE \E f \in Frame, g \in Frame, a \in Action : RunsUser(t, f, g, a)
  <2>1. PICK f \in Frame, g \in Frame, a \in Action : RunsUser(t, f, g, a)
    BY <1>1
  <2>2. PICK x \in Lifetimes \X Nat : x = <<a.of, a.key>>
    BY RecordFields
  <2>3. PICK r \in Seq(Lifetimes \X Nat) : r = ran
    BY DEF LTypes
  <2>4. ToSet(Append(r, x)) = ToSet(r) \cup {x}
    BY AppendedActions
  <2> QED BY <2>1, <2>2, <2>3, <2>4 DEF RunsUser
<1>2. CASE ran' = ran
  BY <1>2
<1> QED BY <1>1, <1>2 DEF Does, AddsRun, AddsTerminate, AddsErase, Throws, Opens, Creates, Ends,
        Takes, RunsTerminate, RunsErase, Returns

\* A step leaves what waits, but for what it runs, throws away or erases.
LEMMA HandsStay ==
  ASSUME LifetimesAssumption, LTypes, Ordered, NEW t \in Threads, Does(t), NEW b \in Hands
  PROVE  \/ b \in Hands' \cup lost'
         \/ \E f \in Frame, g \in Frame : RunsUser(t, f, g, b)
         \/ \E f \in Frame, g \in Frame, h \in Frame : RunsTerminate(t, f, g, h, b)
         \/ \E f \in Frame, g \in Frame : RunsErase(t, f, g, b)
         \/ \E f \in Frame, g \in Frame, a \in Action :
              /\ RunsErase(t, f, g, a) /\ b.of = Parent[a.of] /\ b.key = a.outer
              /\ b \in ToSet(actions[Parent[a.of]])
<1>1. CASE \E a \in Action : AddsRun(t, a)
  <2>1. PICK a \in Action : AddsRun(t, a)
    BY <1>1
  <2>2. Kept' = Kept \cup {a} /\ InCalls' = InCalls
    BY <2>1, AddsAnAction
  <2> QED BY <2>2 DEF Hands
<1>2. CASE \E a \in Action, f \in Frame, g \in Frame : AddsTerminate(t, f, g, a)
  <2>1. PICK a \in Action, f \in Frame, g \in Frame : AddsTerminate(t, f, g, a)
    BY <1>2
  <2>2. Kept' = Kept \cup {a} /\ InCalls' = InCalls
    BY <2>1, AddsAnAction
  <2> QED BY <2>2 DEF Hands
<1>3. CASE \E a \in Action, f \in Frame : AddsErase(t, f, a)
  <2>1. PICK a \in Action, f \in Frame : AddsErase(t, f, a)
    BY <1>3
  <2>2. Kept' = Kept \cup {a} /\ InCalls' = InCalls
    BY <2>1, AddsAnAction
  <2> QED BY <2>2 DEF Hands
<1>4. CASE Throws(t)
  BY <1>4, ThrownActions DEF Hands
<1>5. CASE \E f \in Frame : Opens(t, f) \/ Creates(t, f) \/ Ends(t, f) \/ Returns(t, f)
  <2>1. Kept' = Kept /\ InCalls' = InCalls
    BY <1>5, CallsWithoutActions
  <2> QED BY <2>1 DEF Hands
<1>6. CASE \E f \in Frame, g \in Frame : Takes(t, f, g)
  BY <1>6, TakenActions DEF Hands
<1>7. CASE \E f \in Frame, g \in Frame, a \in Action : RunsUser(t, f, g, a)
  <2>1. PICK f \in Frame, g \in Frame, a \in Action : RunsUser(t, f, g, a)
    BY <1>7
  <2>2. \A c \in InCalls : c \in InCalls' \/ c = a
    BY <2>1, RunActions
  <2>3. Kept' = Kept
    BY <2>1 DEF RunsUser, Kept
  <2> QED BY <2>1, <2>2, <2>3 DEF Hands
<1>8. CASE \E f \in Frame, g \in Frame, h \in Frame, a \in Action : RunsTerminate(t, f, g, h, a)
  <2>1. PICK f \in Frame, g \in Frame, h \in Frame, a \in Action : RunsTerminate(t, f, g, h, a)
    BY <1>8
  <2>2. \A c \in InCalls : c \in InCalls' \/ c = a
    <3>1. \E x \in Frame : RunsTerminate(t, f, g, x, a)
      BY <2>1
    <3> QED BY <3>1, RunActions
  <2>3. Kept' = Kept
    BY <2>1 DEF RunsTerminate, Kept
  <2> QED BY <2>1, <2>2, <2>3 DEF Hands
<1>9. CASE \E f \in Frame, g \in Frame, a \in Action : RunsErase(t, f, g, a)
  <2>1. PICK f \in Frame, g \in Frame, a \in Action : RunsErase(t, f, g, a)
    BY <1>9
  <2>2. \A c \in InCalls : c \in InCalls' \/ c = a
    BY <2>1, RunActions
  <2>3. /\ Parent[a.of] \in Lifetimes
        /\ \A l \in Lifetimes : \A c \in ToSet(actions[l]) :
             c \in ToSet(actions'[l]) \/ (l = Parent[a.of] /\ c.key = a.outer)
    BY <2>1, ErasesAnAction
  <2>4. CASE b \in Kept
    <3>1. PICK l \in Lifetimes : b \in Action /\ b \in ToSet(actions[l])
      BY <2>4 DEF Kept
    <3>2. b.of = l
      BY <3>1 DEF Ordered
    <3>3. CASE b \in ToSet(actions'[l])
      BY <3>1, <3>3 DEF Kept, Hands
    <3>4. CASE l = Parent[a.of] /\ b.key = a.outer
      BY <2>1, <3>1, <3>2, <3>4
    <3> QED BY <2>3, <3>1, <3>3, <3>4
  <2> QED BY <2>1, <2>2, <2>4 DEF Hands
<1> QED BY <1>1, <1>2, <1>3, <1>4, <1>5, <1>6, <1>7, <1>8, <1>9 DEF Does

\* No step makes a user's action disappear.
LEMMA RememberedStays ==
  ASSUME LifetimesAssumption, KeyInv, Remembered, NEW t \in Threads, Does(t)
  PROVE  Remembered'
<1>1. LTypes /\ Ordered
  BY DEF KeyInv
<1>2. \A x \in ToSet(ran) : x \in ToSet(ran')
  BY <1>1, RanGrows
<1>3. lost \subseteq lost'
  BY DEF Does, AddsRun, AddsTerminate, AddsErase, Throws, Opens, Creates, Ends,
     Takes, RunsUser, RunsTerminate, RunsErase, Reaches, Returns
<1>4. ASSUME NEW x \in added, NEW b \in Hands, x = <<b.of, b.key>>
      PROVE  x \in ToSet(ran') \/ \E a \in Hands' \cup lost' : x = <<a.of, a.key>>
  <2>1. CASE b \in Hands' \cup lost'
    BY <1>4, <2>1
  <2>2. CASE \E f \in Frame, g \in Frame : RunsUser(t, f, g, b)
    <3>1. PICK f \in Frame, g \in Frame : RunsUser(t, f, g, b)
      BY <2>2
    <3>2. PICK y \in Lifetimes \X Nat : y = x
      BY <1>1, <1>4 DEF LTypes
    <3>3. PICK r \in Seq(Lifetimes \X Nat) : r = ran
      BY <1>1 DEF LTypes
    <3>4. ToSet(Append(r, y)) = ToSet(r) \cup {y}
      BY AppendedActions
    <3> QED BY <1>4, <3>1, <3>2, <3>3, <3>4 DEF RunsUser
  <2>3. CASE b.does # "run"
    BY <1>4, <2>3 DEF KeyInv, HandsKeyed, Keyed
  <2>4. CASE \E f \in Frame, g \in Frame, a \in Action :
               /\ RunsErase(t, f, g, a) /\ b.of = Parent[a.of] /\ b.key = a.outer
               /\ b \in ToSet(actions[Parent[a.of]])
    <3>1. PICK f \in Frame, g \in Frame, a \in Action :
                 RunsErase(t, f, g, a) /\ b.of = Parent[a.of] /\ b.key = a.outer
      BY <2>4
    <3>2. a \in Hands /\ a.does = "erase"
      BY <1>1, <3>1, RunActions DEF RunsErase, Hands
    <3>3. <<b.of, b.key>> \notin added
      BY <3>1, <3>2 DEF KeyInv, HandsKeyed, Keyed
    <3> QED BY <1>4, <3>3
  <2>5. CASE \/ \E f \in Frame, g \in Frame, h \in Frame : RunsTerminate(t, f, g, h, b)
             \/ \E f \in Frame, g \in Frame : RunsErase(t, f, g, b)
    <3>1. b.does # "run"
      BY <2>5 DEF RunsTerminate, RunsErase
    <3> QED BY <2>3, <3>1
  <2> QED BY <1>1, <2>1, <2>2, <2>4, <2>5, HandsStay
<1>5. ASSUME NEW x \in added', x \notin added
      PROVE  \E a \in Hands' : x = <<a.of, a.key>>
  <2>1. PICK a \in Action : AddsRun(t, a)
    BY <1>5 DEF Does, AddsTerminate, AddsErase, Throws, Opens, Creates, Ends,
       Takes, RunsUser, RunsTerminate, RunsErase, Reaches, Returns
  <2>2. x = <<a.of, a.key>>
    BY <1>5, <2>1 DEF AddsRun
  <2>3. Kept' = Kept \cup {a}
    BY <1>1, <2>1, AddsAnAction
  <2> QED BY <2>2, <2>3 DEF Hands
<1>6. ASSUME NEW x \in added'
      PROVE  x \in ToSet(ran') \/ \E a \in Hands' \cup lost' : x = <<a.of, a.key>>
  <2>1. CASE x \notin added
    BY <1>5, <2>1
  <2>2. CASE x \in added
    <3>1. CASE x \in ToSet(ran)
      BY <1>2, <3>1
    <3>2. CASE \E a \in lost : x = <<a.of, a.key>>
      BY <1>3, <3>2
    <3>3. CASE \E a \in Hands : x = <<a.of, a.key>>
      BY <1>4, <2>2, <3>3
    <3> QED BY <2>2, <3>1, <3>2, <3>3 DEF Remembered
  <2> QED BY <2>1, <2>2
<1> QED BY <1>6 DEF Remembered

----------------------------------------------------------------------------
(***************************************************************************)
(* One call has the actions of a lifetime: the last added runs first.      *)
(***************************************************************************)
\* attach_nested is under way.
Attaching(f) == f.call \in {"attaching", "attached"}

\* Two calls that would share a lifetime's actions, or its place in its parent.
Twin(f, g) ==
  f.of = g.of /\ ((f.left # <<>> /\ g.left # <<>>) \/ (Attaching(f) /\ Attaching(g)))

\* No two calls do.
Once ==
  \A u, v \in Threads : \A i \in Pos(u), j \in Pos(v) :
    Twin(stack[u][i], stack[v][j]) => u = v /\ i = j

\* What runs no user's code is the innermost call.
TopFirst ==
  \A u \in Threads : \A i \in Pos(u) :
    stack[u][i].call \in {"taking", "attaching", "attached"} => i = 1

\* A new call has no twin among those that stay.
Clear(t, p, g) ==
  \A u \in Threads : \A j \in Pos(u) : (u = t => j > p) => ~Twin(g, stack[u][j])
NewClear(t, k, p) ==
  /\ \A i \in 1 .. Len(stack'[t]) : i <= k => Clear(t, p, stack'[t][i])
  /\ k = 2 => ~Twin(stack'[t][1], stack'[t][2])

\* A step that makes no twins.
LEMMA OnceMoved ==
  ASSUME Once, NEW t \in Threads, NEW k \in {0, 1, 2}, NEW p \in {0, 1}, Move(t, k, p),
         NewClear(t, k, p)
  PROVE  Once'
<1>1. Origins(t, k, p)
  BY MovedCalls
<1>2. ASSUME NEW u \in Threads, NEW v \in Threads,
             NEW i \in 1 .. Len(stack'[u]), NEW m \in 1 .. Len(stack'[v]),
             NEW f, NEW g, f = stack'[u][i], g = stack'[v][m], Twin(f, g)
      PROVE  u = v /\ i = m
  <2>1. Twin(g, f)
    BY <1>2 DEF Twin
  <2>2. i \in Int /\ m \in Int
    OBVIOUS
  <2>3. CASE u = t /\ i <= k
    <3>1. Clear(t, p, f)
      BY <1>2, <2>3 DEF NewClear
    <3>2. v = t /\ m <= k
      <4>1. ~ \E j \in Pos(v) : (v = t => j > p) /\ stack'[v][m] = stack[v][j]
        BY <1>2, <3>1 DEF Clear
      <4> QED BY <1>1, <4>1 DEF Origins
    <3>3. i = m \/ (k = 2 /\ i = 1 /\ m = 2) \/ (k = 2 /\ i = 2 /\ m = 1)
      BY <2>3, <3>2
    <3> QED BY <1>2, <2>1, <2>3, <3>2, <3>3 DEF NewClear
  <2>4. CASE v = t /\ m <= k /\ ~(u = t /\ i <= k)
    <3>1. Clear(t, p, g)
      BY <1>2, <2>4 DEF NewClear
    <3>2. ~ \E j \in Pos(u) : (u = t => j > p) /\ stack'[u][i] = stack[u][j]
      BY <1>2, <2>1, <3>1 DEF Clear
    <3> QED BY <1>1, <2>4, <3>2 DEF Origins
  <2>5. CASE ~(u = t /\ i <= k) /\ ~(v = t /\ m <= k)
    <3>1. PICK j \in Pos(u) : /\ f = stack[u][j]
                              /\ u = t => j > p /\ j = (i - k) + p
                              /\ u # t => j = i
      BY <1>1, <1>2, <2>5 DEF Origins
    <3>2. PICK n \in Pos(v) : /\ g = stack[v][n]
                              /\ v = t => n > p /\ n = (m - k) + p
                              /\ v # t => n = m
      BY <1>1, <1>2, <2>5 DEF Origins
    <3>3. u = v /\ j = n
      BY <1>2, <3>1, <3>2 DEF Once
    <3>4. j \in Int /\ n \in Int
      BY DEF Pos
    <3> QED BY <2>2, <3>1, <3>2, <3>3, <3>4
  <2> QED BY <2>3, <2>4, <2>5
<1>3. ASSUME NEW u \in Threads, NEW v \in Threads,
             NEW i \in 1 .. Len(stack'[u]), NEW m \in 1 .. Len(stack'[v]),
             Twin(stack[u][i], stack[v][m])'
      PROVE  u = v /\ i = m
  <2>1. PICK f : f = stack'[u][i]
    OBVIOUS
  <2>2. PICK g : g = stack'[v][m]
    OBVIOUS
  <2>3. Twin(f, g)
    BY <1>3, <2>1, <2>2 DEF Twin, Attaching
  <2> QED BY <1>2, <2>1, <2>2, <2>3
<1> QED BY <1>3 DEF Once, Pos

\* One call has a lifetime's actions.
LEMMA OnceStays ==
  ASSUME LifetimesAssumption, KeyInv, Once, NEW t \in Threads, Does(t)
  PROVE  Once'
<1>1. LTypes
  BY DEF KeyInv
<1>2. ASSUME NEW p \in {0, 1}, NEW g, Move(t, 1, p), stack'[t][1] = g, Clear(t, p, g)
      PROVE  Once'
  <2>1. NewClear(t, 1, p)
    BY <1>2 DEF NewClear
  <2> QED BY <1>2, <2>1, OnceMoved
<1>3. ASSUME Move(t, 0, 1) PROVE Once'
  <2>1. NewClear(t, 0, 1)
    BY DEF NewClear
  <2> QED BY <1>3, <2>1, OnceMoved
<1>4. ASSUME NEW g, g.left = <<>>, ~Attaching(g), NEW p PROVE Clear(t, p, g)
  BY <1>4 DEF Clear, Twin
<1>5. ASSUME NEW f, NEW g, Innermost(t, f), g.of = f.of,
             g.left # <<>> => f.left # <<>>, Attaching(g) => Attaching(f)
      PROVE  Clear(t, 1, g)
  <2>1. 1 \in Pos(t) /\ f = stack[t][1]
    <3>1. Len(stack[t]) \in Nat
      BY <1>1, LenProperties DEF LTypes
    <3> QED BY <1>5, <3>1 DEF Innermost, Pos
  <2>2. ASSUME NEW u \in Threads, NEW j \in Pos(u), u = t => j > 1, NEW h, h = stack[u][j]
        PROVE  ~Twin(g, h)
    <3>1. Twin(g, h) => Twin(f, h)
      BY <1>5 DEF Twin
    <3>2. Twin(f, h) => t = u /\ 1 = j
      BY <2>1, <2>2 DEF Once
    <3> QED BY <2>2, <3>1, <3>2
  <2> QED BY <2>2 DEF Clear
<1>6. CASE \E a \in Action : AddsRun(t, a)
  <2>1. CASE Move(t, 0, 1)
    BY <1>3, <2>1
  <2>2. CASE stack' = stack
    BY <2>2 DEF Once, Pos, Twin, Attaching
  <2> QED BY <1>6, <2>1, <2>2 DEF AddsRun
<1>7. CASE \E a \in Action, f \in Frame, g \in Frame : AddsTerminate(t, f, g, a)
  <2>1. PICK a \in Action, f \in Frame, g \in Frame : AddsTerminate(t, f, g, a)
    BY <1>7
  <2>2. Innermost(t, f) /\ g.of = f.of /\ g.left = <<>> /\ Attaching(f)
    BY <2>1, RecordFields DEF AddsTerminate, Attaching
  <2>3. Clear(t, 1, g)
    BY <1>5, <2>2
  <2> QED BY <1>2, <2>1, <2>3 DEF AddsTerminate, OnTop
<1>8. CASE \E a \in Action, f \in Frame : AddsErase(t, f, a)
  BY <1>3, <1>8 DEF AddsErase
<1>9. CASE Throws(t)
  <2>1. \A u \in Threads : \A i \in 1 .. Len(stack'[u]) :
          u # t /\ i \in Pos(u) /\ stack'[u][i] = stack[u][i]
    BY <1>9, ThrownCalls
  <2>2. ASSUME NEW u \in Threads, NEW v \in Threads,
               NEW i \in 1 .. Len(stack'[u]), NEW m \in 1 .. Len(stack'[v]),
               Twin(stack[u][i], stack[v][m])'
        PROVE  u = v /\ i = m
    <3>1. Twin(stack[u][i], stack[v][m]) /\ i \in Pos(u) /\ m \in Pos(v)
      BY <2>1, <2>2 DEF Twin, Attaching
    <3> QED BY <3>1 DEF Once
  <2> QED BY <2>2 DEF Once, Pos
<1>10. CASE \E f \in Frame : Opens(t, f) \/ Ends(t, f)
  <2>1. PICK f \in Frame : Opens(t, f) \/ Ends(t, f)
    BY <1>10
  <2>2. f.left = <<>> /\ ~Attaching(f) /\ Move(t, 1, 0) /\ stack'[t][1] = f
    BY <2>1 DEF Opens, Ends, OnTop, Attaching
  <2> QED BY <1>2, <1>4, <2>2
<1>11. CASE \E f \in Frame : Creates(t, f)
  <2>1. PICK f \in Frame : Creates(t, f)
    BY <1>11
  <2>2. f.of \notin created /\ Move(t, 1, 0) /\ stack'[t][1] = f
    BY <2>1 DEF Creates, OnTop
  <2>3. \A u \in Threads : \A j \in Pos(u) : stack[u][j].of \in created
    BY DEF KeyInv, CallsKeyed, CallKeyed
  <2>4. Clear(t, 0, f)
    BY <2>2, <2>3 DEF Clear, Twin
  <2> QED BY <1>2, <2>2, <2>4
<1>12. CASE \E f \in Frame, g \in Frame : Takes(t, f, g)
  <2>1. PICK f \in Frame, g \in Frame : Takes(t, f, g)
    BY <1>12
  <2>2. PICK l \in Lifetimes : l = g.of /\ g.left = actions[l] /\ ~Attaching(g)
    BY <2>1, RecordFields DEF Takes, Attaching
  <2>3. ASSUME NEW u \in Threads, NEW j \in Pos(u), NEW h, h = stack[u][j] PROVE ~Twin(g, h)
    <3>1. h \in Frame /\ CallOrdered(h)
      BY <2>3, <1>1, CallsAreFrames DEF KeyInv, CallsOrdered
    <3>2. h.left # <<>> => Taken(h.of)
      BY <3>1, RecordFields DEF CallOrdered
    <3> QED BY <2>2, <3>2 DEF Twin, Taken
  <2>4. Clear(t, 1, g)
    BY <2>3 DEF Clear
  <2> QED BY <1>2, <2>1, <2>4 DEF Takes, OnTop
<1>13. ASSUME NEW f \in Frame, NEW g \in Frame, NEW a \in Action, Reaches(t, f, g, a)
       PROVE  Clear(t, 1, g) /\ ~Attaching(g)
  <2>1. Innermost(t, f) /\ g.of = f.of /\ f.left # <<>> /\ ~Attaching(g)
    BY <1>13 DEF Reaches, Attaching
  <2> QED BY <1>5, <2>1
<1>14. CASE \E f \in Frame, g \in Frame, a \in Action : RunsUser(t, f, g, a) \/ RunsErase(t, f, g, a)
  <2>1. PICK f \in Frame, g \in Frame, a \in Action : RunsUser(t, f, g, a) \/ RunsErase(t, f, g, a)
    BY <1>14
  <2>2. Reaches(t, f, g, a) /\ Move(t, 1, 1) /\ stack'[t][1] = g
    BY <2>1 DEF RunsUser, RunsErase, OnTop
  <2> QED BY <1>2, <1>13, <2>2
<1>15. CASE \E f \in Frame, g \in Frame, h \in Frame, a \in Action : RunsTerminate(t, f, g, h, a)
  <2>1. PICK f \in Frame, g \in Frame, h \in Frame, a \in Action : RunsTerminate(t, f, g, h, a)
    BY <1>15
  <2>2. Reaches(t, f, g, a) /\ Move(t, 2, 1) /\ stack'[t][1] = h /\ stack'[t][2] = g
    BY <2>1 DEF RunsTerminate, OnTop
  <2>3. h.left = <<>> /\ ~Attaching(h)
    BY <2>1 DEF RunsTerminate, Attaching
  <2>4. Clear(t, 1, g) /\ Clear(t, 1, h) /\ ~Twin(h, g)
    BY <1>4, <1>13, <2>2, <2>3 DEF Twin
  <2>5. \A i \in 1 .. Len(stack'[t]) : i <= 2 => i = 1 \/ i = 2
    OBVIOUS
  <2>6. NewClear(t, 2, 1)
    BY <2>2, <2>4, <2>5 DEF NewClear
  <2> QED BY <2>2, <2>6, OnceMoved
<1>16. CASE \E f \in Frame : Returns(t, f)
  BY <1>3, <1>16 DEF Returns
<1> QED BY <1>6, <1>7, <1>8, <1>9, <1>10, <1>11, <1>12, <1>14, <1>15, <1>16 DEF Does

\* The new calls of a step have no action, a lifetime's or what an old one had yet to run.
NewCalls(t, G) ==
  \A g \in G : \/ g.left = <<>>
               \/ \E f \in Frame : g \in Frame /\ Takes(t, f, g)
               \/ \E f \in Frame, a \in Action : g \in Frame /\ Reaches(t, f, g, a)

\* Every step's new calls are of these.
LEMMA ComingCalls ==
  ASSUME NEW t \in Threads, Does(t)
  PROVE  \E G : Comings(G) /\ NewCalls(t, G)
<1>1. ASSUME NEW k \in {0, 1, 2}, NEW p \in {0, 1}, Move(t, k, p), NEW G,
             \A i \in 1 .. Len(stack'[t]) : i <= k => stack'[t][i] \in G
      PROVE  Comings(G)
  <2>1. Origins(t, k, p)
    BY <1>1, MovedCalls
  <2> QED BY <1>1, <2>1 DEF Origins, Comings
<1>2. ASSUME NEW p \in {0, 1}, NEW g, Move(t, 1, p), stack'[t][1] = g, NewCalls(t, {g})
      PROVE  \E G : Comings(G) /\ NewCalls(t, G)
  <2>1. \A i \in 1 .. Len(stack'[t]) : i <= 1 => stack'[t][i] \in {g}
    BY <1>2
  <2>2. Comings({g})
    BY <1>1, <1>2, <2>1
  <2> QED BY <1>2, <2>2
<1>3. NewCalls(t, {})
  BY DEF NewCalls
<1>4. ASSUME Move(t, 0, 1) PROVE \E G : Comings(G) /\ NewCalls(t, G)
  <2>1. \A i \in 1 .. Len(stack'[t]) : i <= 0 => stack'[t][i] \in {}
    OBVIOUS
  <2>2. Comings({})
    BY <1>1, <1>4, <2>1
  <2> QED BY <1>3, <2>2
<1>5. CASE \E a \in Action : AddsRun(t, a)
  <2>1. CASE Move(t, 0, 1)
    BY <1>4, <2>1
  <2>2. CASE stack' = stack
    <3>1. Comings({})
      BY <2>2 DEF Comings, Pos
    <3> QED BY <1>3, <3>1
  <2> QED BY <1>5, <2>1, <2>2 DEF AddsRun
<1>6. CASE Throws(t)
  <2>1. Comings({})
    BY <1>6, ThrownCalls DEF Comings
  <2> QED BY <1>3, <2>1
<1>7. CASE \/ \E a \in Action, f \in Frame : AddsErase(t, f, a)
           \/ \E f \in Frame : Returns(t, f)
  BY <1>4, <1>7 DEF AddsErase, Returns
<1>8. CASE \E a \in Action, f \in Frame, g \in Frame : AddsTerminate(t, f, g, a)
  <2>1. PICK a \in Action, f \in Frame, g \in Frame : AddsTerminate(t, f, g, a)
    BY <1>8
  <2>2. g.left = <<>> /\ Move(t, 1, 1) /\ stack'[t][1] = g
    BY <2>1, RecordFields DEF AddsTerminate, OnTop
  <2>3. NewCalls(t, {g})
    BY <2>2 DEF NewCalls
  <2> QED BY <1>2, <2>2, <2>3
<1>9. CASE \E f \in Frame : Opens(t, f) \/ Creates(t, f) \/ Ends(t, f)
  <2>1. PICK f \in Frame : Opens(t, f) \/ Creates(t, f) \/ Ends(t, f)
    BY <1>9
  <2>2. f.left = <<>> /\ Move(t, 1, 0) /\ stack'[t][1] = f
    BY <2>1 DEF Opens, Creates, Ends, OnTop
  <2>3. NewCalls(t, {f})
    BY <2>2 DEF NewCalls
  <2> QED BY <1>2, <2>2, <2>3
<1>10. CASE \E f \in Frame, g \in Frame : Takes(t, f, g)
  <2>1. PICK f \in Frame, g \in Frame : Takes(t, f, g)
    BY <1>10
  <2>2. Move(t, 1, 1) /\ stack'[t][1] = g
    BY <2>1 DEF Takes, OnTop
  <2>3. NewCalls(t, {g})
    BY <2>1 DEF NewCalls
  <2> QED BY <1>2, <2>2, <2>3
<1>11. CASE \E f \in Frame, g \in Frame, a \in Action : RunsUser(t, f, g, a) \/ RunsErase(t, f, g, a)
  <2>1. PICK f \in Frame, g \in Frame, a \in Action : RunsUser(t, f, g, a) \/ RunsErase(t, f, g, a)
    BY <1>11
  <2>2. Reaches(t, f, g, a) /\ Move(t, 1, 1) /\ stack'[t][1] = g
    BY <2>1 DEF RunsUser, RunsErase, OnTop
  <2>3. NewCalls(t, {g})
    BY <2>2 DEF NewCalls
  <2> QED BY <1>2, <2>2, <2>3
<1>12. CASE \E f \in Frame, g \in Frame, h \in Frame, a \in Action : RunsTerminate(t, f, g, h, a)
  <2>1. PICK f \in Frame, g \in Frame, h \in Frame, a \in Action : RunsTerminate(t, f, g, h, a)
    BY <1>12
  <2>2. Reaches(t, f, g, a) /\ Move(t, 2, 1) /\ stack'[t][1] = h /\ stack'[t][2] = g /\ h.left = <<>>
    BY <2>1 DEF RunsTerminate, OnTop
  <2>3. NewCalls(t, {g, h})
    BY <2>2 DEF NewCalls
  <2>4. \A i \in 1 .. Len(stack'[t]) : i <= 2 => stack'[t][i] \in {g, h}
    <3>1. \A i \in 1 .. Len(stack'[t]) : i <= 2 => i = 1 \/ i = 2
      OBVIOUS
    <3> QED BY <2>2, <3>1
  <2>5. Comings({g, h})
    BY <1>1, <2>2, <2>4
  <2> QED BY <2>3, <2>5
<1> QED BY <1>5, <1>6, <1>7, <1>8, <1>9, <1>10, <1>11, <1>12 DEF Does

\* What has run came after all that a call of its lifetime has yet to run.
Below(f, x) == f.of = x[1] => \A a \in ToSet(f.left) : a.key < x[2]
Spent(x) == Taken(x[1]) /\ \A u \in Threads : \A i \in Pos(u) : Below(stack[u][i], x)
AllSpent == \A x \in ToSet(ran) : Spent(x)

\* No step gives a call what is before an action that has run.
LEMMA SpentStays ==
  ASSUME LifetimesAssumption, KeyInv, Once, AllSpent, NEW t \in Threads, Does(t)
  PROVE  AllSpent'
<1>1. LTypes /\ Ordered /\ Growth
  BY Grows DEF KeyInv
<1>2. ASSUME NEW x \in Lifetimes \X Nat, Spent(x) PROVE Spent(x)'
  <2>1. PICK l \in Lifetimes : x[1] = l
    BY <1>2
  <2>2. Taken(l) /\ Taken(l)'
    BY <1>1, <1>2, <2>1 DEF Spent, Growth, Taken
  <2>3. PICK G : Comings(G) /\ NewCalls(t, G)
    BY ComingCalls
  <2>4. ASSUME NEW g \in G PROVE Below(g, x)
    <3>1. CASE g.left = <<>>
      BY <3>1, NoActions DEF Below
    <3>2. CASE \E f \in Frame : g \in Frame /\ Takes(t, f, g)
      <4>1. g.left = actions[g.of]
        BY <3>2 DEF Takes
      <4> QED BY <2>1, <2>2, <4>1, NoActions DEF Below, Taken
    <3>3. CASE \E f \in Frame, a \in Action : g \in Frame /\ Reaches(t, f, g, a)
      <4>1. PICK f \in Frame, a \in Action : g \in Frame /\ Reaches(t, f, g, a)
        BY <3>3
      <4>2. ToSet(f.left) = ToSet(g.left) \cup {a} /\ stack[t][1] = f /\ 1 \in Pos(t)
        BY <1>1, <4>1, ReachedActions
      <4>3. Below(f, x) /\ g.of = f.of
        BY <1>2, <4>1, <4>2 DEF Spent, Reaches
      <4> QED BY <4>2, <4>3 DEF Below
    <3> QED BY <2>3, <3>1, <3>2, <3>3 DEF NewCalls
  <2>5. ASSUME NEW u \in Threads, NEW i \in 1 .. Len(stack'[u]) PROVE Below(stack'[u][i], x)
    BY <1>2, <2>3, <2>4 DEF Comings, Spent
  <2>6. \A u \in Threads : \A i \in 1 .. Len(stack'[u]) : Below(stack[u][i], x)'
    BY <2>5 DEF Below
  <2> QED BY <2>1, <2>2, <2>6 DEF Spent, Pos
<1>3. ASSUME NEW f \in Frame, NEW g \in Frame, NEW a \in Action, RunsUser(t, f, g, a),
             NEW x, x = <<a.of, a.key>>
      PROVE  Spent(x)'
  <2>1. Reaches(t, f, g, a) /\ Move(t, 1, 1) /\ stack'[t][1] = g
    BY <1>3 DEF RunsUser, OnTop
  <2>2. ToSet(f.left) = ToSet(g.left) \cup {a} /\ stack[t][1] = f /\ 1 \in Pos(t)
    BY <1>1, <2>1, ReachedActions
  <2>3. CallOrdered(f) /\ f.call = "running" /\ g.of = f.of /\ f.left # <<>>
    BY <2>1, <2>2 DEF KeyInv, CallsOrdered, Reaches
  <2>4. \A b \in ToSet(g.left) : b.key < a.key
    BY <1>1, <2>1, <2>3, ReachedActions DEF CallOrdered
  <2>5. PICK l \in Lifetimes : l = f.of /\ l = a.of
    BY <2>2, <2>3, RecordFields DEF CallOrdered
  <2>6. Taken(l)'
    BY <1>1, <2>3, <2>5 DEF CallOrdered, Growth, Taken
  <2>7. Below(g, x)
    BY <1>3, <2>4 DEF Below
  <2>8. ASSUME NEW u \in Threads, NEW j \in Pos(u), u = t => j > 1, NEW h, h = stack[u][j]
        PROVE  Below(h, x)
    <3>1. ~Twin(f, h)
      <4>1. Twin(f, h) => t = u /\ 1 = j
        BY <2>2, <2>8 DEF Once
      <4> QED BY <2>8, <4>1
    <3>2. h.of = l => h.left = <<>>
      BY <2>3, <2>5, <3>1 DEF Twin
    <3> QED BY <1>3, <2>5, <3>2, NoActions DEF Below
  <2>9. ASSUME NEW u \in Threads, NEW i \in 1 .. Len(stack'[u]) PROVE Below(stack'[u][i], x)
    <3>1. Origins(t, 1, 1)
      BY <2>1, MovedCalls
    <3>2. CASE u = t /\ i <= 1
      <4>1. i = 1
        BY <3>2
      <4> QED BY <2>1, <2>7, <3>2, <4>1
    <3>3. CASE \E j \in Pos(u) : stack'[u][i] = stack[u][j] /\ (u = t => j > 1)
      BY <2>8, <3>3
    <3> QED BY <3>1, <3>2, <3>3 DEF Origins
  <2>10. \A u \in Threads : \A i \in 1 .. Len(stack'[u]) : Below(stack[u][i], x)'
    BY <2>9 DEF Below
  <2> QED BY <1>3, <2>5, <2>6, <2>10 DEF Spent, Pos
<1>4. \A x \in ToSet(ran) : x \in Lifetimes \X Nat
  BY <1>1, ActionsOf DEF LTypes
<1>5. ASSUME NEW x \in ToSet(ran') PROVE Spent(x)'
  <2>1. CASE x \in ToSet(ran)
    BY <1>2, <1>4, <2>1 DEF AllSpent
  <2>2. CASE x \notin ToSet(ran)
    <3>1. PICK f \in Frame, g \in Frame, a \in Action :
            RunsUser(t, f, g, a) /\ ToSet(ran') = ToSet(ran) \cup {<<a.of, a.key>>}
      BY <1>1, <1>5, <2>2, RanGrows
    <3> QED BY <1>3, <1>5, <2>2, <3>1
  <2> QED BY <2>1, <2>2
<1> QED BY <1>5 DEF AllSpent

\* The actions of a lifetime run last first.
LEMMA BackwardsStays ==
  ASSUME LifetimesAssumption, KeyInv, AllSpent, LastAddedRunsFirst, NEW t \in Threads, Does(t)
  PROVE  LastAddedRunsFirst'
<1>1. LTypes
  BY DEF KeyInv
<1>2. CASE ran' = ran
  BY <1>2 DEF LastAddedRunsFirst
<1>3. CASE \E f \in Frame, g \in Frame, a \in Action : RunsUser(t, f, g, a)
  <2>1. PICK f \in Frame, g \in Frame, a \in Action : RunsUser(t, f, g, a)
    BY <1>3
  <2>2. ToSet(f.left) = ToSet(g.left) \cup {a} /\ stack[t][1] = f /\ 1 \in Pos(t)
    BY <1>1, <2>1, ReachedActions DEF RunsUser
  <2>3. a.of = f.of
    BY <2>2 DEF KeyInv, CallsOrdered, CallOrdered
  <2>4. PICK x \in Lifetimes \X Nat : x = <<a.of, a.key>>
    BY RecordFields
  <2>5. PICK r \in Seq(Lifetimes \X Nat) : r = ran
    BY <1>1 DEF LTypes
  <2>6. PICK n \in Nat : n = Len(r)
    BY LenProperties
  <2>7. PICK z : z = Append(r, x)
    OBVIOUS
  <2>8. /\ z \in Seq(Lifetimes \X Nat) /\ Len(z) = n + 1
        /\ z[n + 1] = x /\ \A j \in 1 .. n : z[j] = r[j]
    BY <2>6, <2>7, AppendProperties
  <2>9. DOMAIN r = 1 .. n /\ DOMAIN z = 1 .. n + 1
    BY <2>6, <2>8, LenProperties
  <2>10. ran' = z
    BY <2>1, <2>4, <2>5, <2>7 DEF RunsUser
  <2>11. ASSUME NEW j \in 1 .. n, NEW y, y = r[j], y[1] = x[1] PROVE y[2] > x[2]
    <3>1. y \in ToSet(ran) /\ y \in Lifetimes \X Nat
      BY <2>5, <2>6, <2>11, ActionsOf
    <3>2. Below(f, y)
      BY <2>2, <3>1 DEF AllSpent, Spent
    <3>3. a.key < y[2]
      BY <2>2, <2>3, <2>4, <2>11, <3>2 DEF Below
    <3>4. y[2] \in Nat /\ x[2] = a.key
      BY <2>4, <3>1
    <3> QED BY <3>3, <3>4, RecordFields
  <2>12. ASSUME NEW j \in 1 .. n + 1, NEW k \in 1 .. n + 1, j < k, z[j][1] = z[k][1]
         PROVE  z[j][2] > z[k][2]
    <3>1. CASE k = n + 1
      <4>1. j \in 1 .. n /\ z[k] = x /\ z[j] = r[j]
        BY <2>6, <2>8, <2>12, <3>1
      <4> QED BY <2>11, <2>12, <4>1
    <3>2. CASE k # n + 1
      <4>1. j \in 1 .. n /\ k \in 1 .. n /\ z[k] = r[k] /\ z[j] = r[j]
        BY <2>6, <2>8, <2>12, <3>2
      <4> QED BY <2>5, <2>9, <2>12, <4>1 DEF LastAddedRunsFirst
    <3> QED BY <3>1, <3>2
  <2> QED BY <2>9, <2>10, <2>12 DEF LastAddedRunsFirst
<1> QED BY <1>1, <1>2, <1>3, RanGrows

----------------------------------------------------------------------------
(***************************************************************************)
(* Where a nested lifetime is in its parent.                               *)
(***************************************************************************)
\* The innermost call only takes actions or attaches.
LEMMA TopFirstStays ==
  ASSUME LTypes, TopFirst, NEW t \in Threads, Does(t)
  PROVE  TopFirst'
<1>1. ASSUME NEW k \in {0, 1, 2}, NEW p \in {0, 1}, Move(t, k, p), p = 0 => AtCall(t),
             k = 2 => stack'[t][2].call = "running"
      PROVE  TopFirst'
  <2>1. Origins(t, k, p)
    BY <1>1, MovedCalls
  <2>2. ASSUME NEW u \in Threads, NEW i \in 1 .. Len(stack'[u]),
               NEW f, f = stack'[u][i], f.call \in {"taking", "attaching", "attached"}
        PROVE  i = 1
    <3>1. CASE u = t /\ i <= k
      <4>1. i = 1 \/ (k = 2 /\ i = 2)
        BY <3>1
      <4> QED BY <1>1, <2>2, <3>1, <4>1
    <3>2. CASE ~(u = t /\ i <= k)
      <4>1. PICK j \in Pos(u) : /\ f = stack[u][j]
                                /\ u = t => j > p /\ j = (i - k) + p
                                /\ u # t => j = i
        BY <2>1, <2>2, <3>2 DEF Origins
      <4>2. j = 1
        BY <2>2, <4>1 DEF TopFirst
      <4>3. u # t
        <5>1. SUFFICES ASSUME u = t PROVE FALSE
          OBVIOUS
        <5>2. p = 0 /\ stack[t] # <<>>
          <6>1. stack[t] # <<>>
            BY <4>2, <5>1, EmptySeq DEF Pos
          <6> QED BY <4>1, <4>2, <5>1, <6>1
        <5> QED BY <1>1, <2>2, <4>1, <4>2, <5>1, <5>2 DEF AtCall
      <4> QED BY <4>1, <4>2, <4>3
    <3> QED BY <3>1, <3>2
  <2>3. \A u \in Threads : \A i \in 1 .. Len(stack'[u]) :
          stack'[u][i].call \in {"taking", "attaching", "attached"} => i = 1
    BY <2>2
  <2> QED BY <2>3 DEF TopFirst, Pos
<1>2. ASSUME Move(t, 0, 1) \/ Move(t, 1, 1) PROVE TopFirst'
  BY <1>1, <1>2
<1>3. ASSUME Move(t, 1, 0), AtCall(t) PROVE TopFirst'
  BY <1>1, <1>3
<1>4. CASE \E a \in Action : AddsRun(t, a)
  <2>1. CASE stack' = stack
    BY <2>1 DEF TopFirst, Pos
  <2> QED BY <1>2, <1>4, <2>1 DEF AddsRun
<1>5. CASE Throws(t)
  <2>1. \A u \in Threads : \A i \in 1 .. Len(stack'[u]) :
          u # t /\ i \in Pos(u) /\ stack'[u][i] = stack[u][i]
    BY <1>5, ThrownCalls
  <2> QED BY <2>1 DEF TopFirst, Pos
<1>6. CASE \E f \in Frame, g \in Frame, h \in Frame, a \in Action : RunsTerminate(t, f, g, h, a)
  <2>1. PICK f \in Frame, g \in Frame, h \in Frame, a \in Action : RunsTerminate(t, f, g, h, a)
    BY <1>6
  <2>2. Move(t, 2, 1) /\ stack'[t][2].call = "running"
    BY <2>1 DEF RunsTerminate, Reaches
  <2> QED BY <1>1, <2>2
<1>7. CASE \E f \in Frame : Opens(t, f) \/ Creates(t, f) \/ Ends(t, f)
  BY <1>3, <1>7 DEF Opens, Creates, Ends
<1> QED BY <1>2, <1>4, <1>5, <1>6, <1>7
        DEF Does, AddsTerminate, AddsErase, Takes, RunsUser, RunsErase, Returns

\* What is left in a parent and in a nested lifetime goes by the key that it keeps.
Nesting(a) ==
  /\ a.does = "terminate" /\ attached[a.nested] # NotAttached => a.key = attached[a.nested]
  /\ a.does = "erase" => attached[a.of] = a.outer
HandsNest == \A a \in Hands : Nesting(a)

\* A call that attaches a lifetime is the first and only one that leaves its
\* termination in its parent.
Unattached(n) == n \notin Roots /\ attached[n] = NotAttached
CallNest(f) ==
  /\ Attaching(f) => Unattached(f.of)
  /\ f.call = "attaching" => \A b \in Hands : b.does = "terminate" => b.nested # f.of
  /\ f.call = "attached" => \A b \in Hands : b.does = "terminate" =>
       /\ b.nested = f.of => b.key = f.key
       /\ b.of = Parent[f.of] /\ b.key = f.key => b.nested = f.of
CallsNest == \A u \in Threads : \A i \in Pos(u) : CallNest(stack[u][i])

\* Nothing else is attached.
OthersUnattached == \A n \in Lifetimes : n \notin created \/ n \in Roots => attached[n] = NotAttached

\* What a nested lifetime takes off its parent is its own termination.
Detaches(a, b) ==
  a.does = "erase" /\ b.does = "terminate" /\ b.of = Parent[a.of] /\ b.key = a.outer
OwnDetached == \A a, b \in Hands : Detaches(a, b) => b.nested = a.of

\* What holds of nested lifetimes in every state.
NestInv == HandsNest /\ CallsNest /\ OthersUnattached /\ OwnDetached

\* No key says that a lifetime is not attached.
LEMMA KeysAttach == \A k \in Nat : k # NotAttached
BY DEF NotAttached

\* A call that stays has no twin in the innermost one, if that goes.
LEMMA NoTwinOfInnermost ==
  ASSUME LTypes, Once, NEW t \in Threads, NEW e, Innermost(t, e)
  PROVE  /\ e \in Frame /\ 1 \in Pos(t) /\ e = stack[t][1]
         /\ \A u \in Threads : \A j \in Pos(u) : (u = t => j > 1) => ~Twin(e, stack[u][j])
<1>1. Len(stack[t]) \in Nat
  BY LenProperties DEF LTypes
<1>2. e \in Frame /\ 1 \in Pos(t) /\ e = stack[t][1]
  BY <1>1 DEF Innermost, Pos
<1>3. ASSUME NEW u \in Threads, NEW j \in Pos(u), u = t => j > 1, Twin(e, stack[u][j])
      PROVE  FALSE
  <2>1. t = u /\ 1 = j
    BY <1>2, <1>3 DEF Once
  <2> QED BY <1>3, <2>1
<1> QED BY <1>2, <1>3

\* A step that attaches nothing and leaves no such action.
Plain == attached' = attached /\ \A b \in Hands' : b \in Hands \/ b.does = "run"

\* It keeps what holds of nested lifetimes, but of its own new calls.
LEMMA PlainNest ==
  ASSUME NestInv, Plain, created \subseteq created', NEW t \in Threads,
         NEW k \in {0, 1, 2}, NEW p \in {0, 1}, Move(t, k, p),
         \A i \in 1 .. Len(stack'[t]) : i <= k => ~Attaching(stack'[t][i])
  PROVE  NestInv'
<1>1. HandsNest'
  BY DEF NestInv, HandsNest, Nesting, Plain
<1>2. OthersUnattached'
  BY DEF NestInv, OthersUnattached, Plain
<1>3. OwnDetached'
  BY DEF NestInv, OwnDetached, Detaches, Plain
<1>4. ASSUME NEW f, CallNest(f) PROVE CallNest(f)'
  BY <1>4 DEF CallNest, Plain, Unattached
<1>5. ASSUME NEW f, ~Attaching(f) PROVE CallNest(f)'
  BY <1>5 DEF CallNest, Attaching
<1>6. ASSUME NEW u \in Threads, NEW i \in 1 .. Len(stack'[u])
      PROVE  \E f : f = stack'[u][i] /\ CallNest(f)'
  <2>1. Origins(t, k, p)
    BY MovedCalls
  <2>2. PICK f : f = stack'[u][i]
    OBVIOUS
  <2>3. CASE u = t /\ i <= k
    BY <1>5, <2>2, <2>3
  <2>4. CASE \E j \in Pos(u) : stack'[u][i] = stack[u][j]
    <3>1. CallNest(f)
      BY <2>2, <2>4 DEF NestInv, CallsNest
    <3> QED BY <1>4, <2>2, <3>1
  <2> QED BY <2>1, <2>3, <2>4 DEF Origins
<1>7. CallsNest'
  <2>1. ASSUME NEW u \in Threads, NEW i \in 1 .. Len(stack'[u]) PROVE CallNest(stack[u][i])'
    <3>1. PICK f : f = stack'[u][i] /\ CallNest(f)'
      BY <1>6
    <3> QED BY <3>1 DEF CallNest, Attaching, Unattached
  <2> QED BY <2>1 DEF CallsNest, Pos
<1> QED BY <1>1, <1>2, <1>3, <1>7 DEF NestInv

\* The calls of a step, the new one g and those that stay.
LEMMA NestCalls ==
  ASSUME NEW t \in Threads, NEW k \in {0, 1}, NEW p \in {0, 1}, Move(t, k, p),
         k = 1 => CallNest(stack[t][1])',
         \A u \in Threads : \A j \in Pos(u) : (u = t => j > p) =>
           \A f : f = stack[u][j] => CallNest(f)'
  PROVE  CallsNest'
<1>1. Origins(t, k, p)
  BY MovedCalls
<1>2. ASSUME NEW u \in Threads, NEW i \in 1 .. Len(stack'[u]) PROVE CallNest(stack[u][i])'
  <2>1. CASE u = t /\ i <= k
    <3>1. i = 1 /\ k = 1
      BY <2>1
    <3> QED BY <2>1, <3>1
  <2>2. CASE \E j \in Pos(u) : stack'[u][i] = stack[u][j] /\ (u = t => j > p)
    <3>1. PICK f : f = stack'[u][i] /\ CallNest(f)'
      BY <2>2
    <3> QED BY <3>1 DEF CallNest, Attaching, Unattached
  <2> QED BY <1>1, <2>1, <2>2 DEF Origins
<1> QED BY <1>2 DEF CallsNest, Pos

\* A parent's action.
LEMMA AttachingNests ==
  ASSUME LifetimesAssumption, KeyInv, Once, NestInv, NEW t \in Threads,
         NEW a \in Action, NEW e \in Frame, NEW g \in Frame, AddsTerminate(t, e, g, a)
  PROVE  NestInv'
<1>1. LTypes
  BY DEF KeyInv
<1>2. Hands' = Hands \cup {a}
  <2>1. Kept' = Kept \cup {a} /\ InCalls' = InCalls
    BY <1>1, AddsAnAction
  <2> QED BY <2>1 DEF Hands
<1>3. /\ Keeps(a) /\ a.does = "terminate" /\ a.nested = e.of /\ a.of = Parent[e.of]
      /\ e.call = "attaching" /\ Attaching(e) /\ Innermost(t, e)
      /\ g.call = "attached" /\ g.of = e.of /\ g.key = a.key /\ Move(t, 1, 1) /\ stack'[t][1] = g
      /\ attached' = attached /\ created' = created /\ added' = added
  BY DEF AddsTerminate, OnTop, Attaching
<1>4. /\ e = stack[t][1] /\ 1 \in Pos(t)
      /\ \A u \in Threads : \A j \in Pos(u) : (u = t => j > 1) => ~Twin(e, stack[u][j])
  BY <1>1, <1>3, NoTwinOfInnermost
<1>5. CallNest(e)
  BY <1>4 DEF NestInv, CallsNest
<1>6. HandsNest'
  BY <1>2, <1>3, <1>5 DEF NestInv, HandsNest, Nesting, CallNest, Unattached
<1>7. OthersUnattached'
  BY <1>3 DEF NestInv, OthersUnattached
<1>8. PICK l \in Lifetimes : l = a.of
  BY RecordFields
<1>9. PICK n \in Nat : n = nextKey[l] /\ a.key = n
  BY <1>1, <1>3, <1>8 DEF LTypes, Keeps
<1>10. OwnDetached'
  <2>1. ASSUME NEW b \in Hands, Detaches(b, a) PROVE FALSE
    <3>1. b.outer < n
      BY <1>8, <1>9, <2>1 DEF KeyInv, HandsKeyed, Keyed, Detaches
    <3> QED BY <1>9, <2>1, <3>1 DEF Detaches
  <2>2. \A b \in Hands' : ~Detaches(a, b)
    BY <1>3 DEF Detaches
  <2>3. \A b, c \in Hands' : Detaches(b, c) => c.nested = b.of
    BY <1>2, <2>1, <2>2 DEF NestInv, OwnDetached
  <2> QED BY <2>3 DEF OwnDetached, Detaches
<1>11. CallNest(g)'
  <2>1. \A b \in Hands : b.does = "terminate" => b.nested # g.of
    BY <1>3, <1>5 DEF CallNest
  <2>2. \A b \in Hands : b.of = l => b.key # n
    <3>1. ASSUME NEW b \in Hands, b.of = l PROVE b.key # n
      <4>1. b.key < n
        BY <1>9, <3>1 DEF KeyInv, HandsKeyed, Keyed
      <4> QED BY <1>9, <4>1
    <3> QED BY <3>1
  <2>3. \A b \in Hands' : b.does = "terminate" =>
          /\ b.nested = g.of => b.key = g.key
          /\ b.of = Parent[g.of] /\ b.key = g.key => b.nested = g.of
    BY <1>2, <1>3, <1>8, <1>9, <2>1, <2>2
  <2> QED BY <1>3, <1>5, <2>3 DEF CallNest, Unattached, Attaching
<1>12. ASSUME NEW u \in Threads, NEW j \in Pos(u), u = t => j > 1, NEW f, f = stack[u][j]
       PROVE  CallNest(f)'
  <2>1. CallNest(f) /\ CallKeyed(f) /\ ~Twin(e, f) /\ f \in Frame
    BY <1>1, <1>4, <1>12, CallsAreFrames DEF NestInv, CallsNest, KeyInv, CallsKeyed
  <2>2. Attaching(f) => f.of # e.of
    BY <1>3, <2>1 DEF Twin
  <2>3. f.call = "attaching" => \A b \in Hands' : b.does = "terminate" => b.nested # f.of
    BY <1>2, <1>3, <2>1, <2>2 DEF CallNest, Attaching
  <2>4. f.call = "attached" /\ a.of = Parent[f.of] => a.key # f.key
    <3>1. ASSUME f.call = "attached", a.of = Parent[f.of] PROVE a.key # f.key
      <4>1. f.key < n /\ f.key \in Nat
        BY <1>8, <1>9, <2>1, <3>1, RecordFields DEF CallKeyed
      <4> QED BY <1>9, <4>1
    <3> QED BY <3>1
  <2>5. f.call = "attached" => \A b \in Hands' : b.does = "terminate" =>
          /\ b.nested = f.of => b.key = f.key
          /\ b.of = Parent[f.of] /\ b.key = f.key => b.nested = f.of
    BY <1>2, <1>3, <2>1, <2>2, <2>4 DEF CallNest, Attaching
  <2> QED BY <1>3, <2>1, <2>3, <2>5 DEF CallNest, Unattached
<1>13. CallsNest'
  <2>1. CallNest(stack[t][1])'
    BY <1>3, <1>11 DEF CallNest, Attaching, Unattached
  <2>2. \A u \in Threads : \A j \in Pos(u) : (u = t => j > 1) =>
          \A f : f = stack[u][j] => CallNest(f)'
    BY <1>12
  <2> QED BY <1>3, <2>1, <2>2, NestCalls
<1> QED BY <1>6, <1>7, <1>10, <1>13 DEF NestInv

\* A nested lifetime's action.
LEMMA AttachedNests ==
  ASSUME LifetimesAssumption, KeyInv, Once, NestInv, NEW t \in Threads,
         NEW a \in Action, NEW e \in Frame, AddsErase(t, e, a)
  PROVE  NestInv'
<1>1. LTypes
  BY DEF KeyInv
<1>2. Hands' = Hands \cup {a}
  <2>1. Kept' = Kept \cup {a} /\ InCalls' = InCalls
    BY <1>1, AddsAnAction
  <2> QED BY <2>1 DEF Hands
<1>3. /\ a.does = "erase" /\ a.of = e.of /\ a.outer = e.key /\ e.key \in Nat
      /\ e.call = "attached" /\ Attaching(e) /\ Innermost(t, e) /\ Move(t, 0, 1)
      /\ attached'[e.of] = e.key /\ created' = created
      /\ \A l \in Lifetimes : l # e.of => attached'[l] = attached[l]
  BY RecordFields DEF AddsErase, Attaching
<1>4. /\ e = stack[t][1] /\ 1 \in Pos(t)
      /\ \A u \in Threads : \A j \in Pos(u) : (u = t => j > 1) => ~Twin(e, stack[u][j])
  BY <1>1, <1>3, NoTwinOfInnermost
<1>5. CallNest(e) /\ CallKeyed(e)
  BY <1>4 DEF NestInv, CallsNest, KeyInv, CallsKeyed
<1>6. \A b \in Hands : b \in Action /\ b.of \in Lifetimes /\ (b.does = "terminate" => b.nested \in Lifetimes)
        /\ (b.does = "erase" => b.outer \in Nat)
  <2>1. \A b \in Hands : b \in Action
    BY DEF Hands, Kept, InCalls
  <2> QED BY <2>1, RecordFields
<1>7. HandsNest'
  <2>1. ASSUME NEW b \in Hands PROVE Nesting(b)'
    <3>1. b.does = "terminate" => b.nested \in Lifetimes /\
            (attached'[b.nested] # NotAttached => b.key = attached'[b.nested])
      BY <1>3, <1>5, <1>6 DEF CallNest, NestInv, HandsNest, Nesting
    <3>2. b.does = "erase" => attached'[b.of] = b.outer
      <4>1. SUFFICES ASSUME b.does = "erase" PROVE attached'[b.of] = b.outer
        OBVIOUS
      <4>2. attached[b.of] = b.outer /\ attached[b.of] # NotAttached
        BY <1>6, <4>1, KeysAttach DEF NestInv, HandsNest, Nesting
      <4>3. b.of # e.of
        BY <1>3, <1>5, <4>2 DEF CallNest, Unattached
      <4> QED BY <1>3, <1>6, <4>2, <4>3
    <3> QED BY <3>1, <3>2 DEF Nesting
  <2>2. Nesting(a)'
    BY <1>3 DEF Nesting
  <2> QED BY <1>2, <2>1, <2>2 DEF HandsNest
<1>8. OthersUnattached'
  BY <1>3, <1>5 DEF NestInv, OthersUnattached, CallKeyed, CallNest, Unattached
<1>9. OwnDetached'
  <2>1. ASSUME NEW b \in Hands, Detaches(a, b) PROVE b.nested = a.of
    BY <1>3, <1>5, <2>1 DEF Detaches, CallNest
  <2>2. \A b \in Hands' : ~Detaches(b, a)
    BY <1>3 DEF Detaches
  <2>3. \A b, c \in Hands' : Detaches(b, c) => c.nested = b.of
    BY <1>2, <2>1, <2>2 DEF NestInv, OwnDetached
  <2> QED BY <2>3 DEF OwnDetached, Detaches
<1>10. ASSUME NEW u \in Threads, NEW j \in Pos(u), u = t => j > 1, NEW f, f = stack[u][j]
       PROVE  CallNest(f)'
  <2>1. CallNest(f) /\ ~Twin(e, f) /\ f \in Frame /\ f.of \in Lifetimes
    BY <1>1, <1>4, <1>10, CallsAreFrames, RecordFields DEF NestInv, CallsNest
  <2>2. Attaching(f) => f.of # e.of
    BY <1>3, <2>1 DEF Twin
  <2>3. Attaching(f) => f.of \notin Roots /\ attached'[f.of] = NotAttached
    BY <1>3, <2>1, <2>2 DEF CallNest, Unattached
  <2>4. f.call = "attaching" => \A b \in Hands' : b.does = "terminate" => b.nested # f.of
    BY <1>2, <1>3, <2>1 DEF CallNest
  <2>5. f.call = "attached" => \A b \in Hands' : b.does = "terminate" =>
          /\ b.nested = f.of => b.key = f.key
          /\ b.of = Parent[f.of] /\ b.key = f.key => b.nested = f.of
    BY <1>2, <1>3, <2>1 DEF CallNest
  <2> QED BY <2>3, <2>4, <2>5 DEF CallNest, Unattached
<1>11. CallsNest'
  <2>1. \A u \in Threads : \A j \in Pos(u) : (u = t => j > 1) =>
          \A f : f = stack[u][j] => CallNest(f)'
    BY <1>10
  <2> QED BY <1>3, <2>1, NestCalls
<1> QED BY <1>7, <1>8, <1>9, <1>11 DEF NestInv

\* A new lifetime.
LEMMA CreatingNests ==
  ASSUME LifetimesAssumption, KeyInv, Once, NestInv, NEW t \in Threads,
         NEW e \in Frame, Creates(t, e)
  PROVE  NestInv'
<1>1. LTypes
  BY DEF KeyInv
<1>2. Hands' = Hands
  <2>1. Kept' = Kept /\ InCalls' = InCalls
    BY <1>1, CallsWithoutActions
  <2> QED BY <2>1 DEF Hands
<1>3. /\ e.call = "attaching" /\ e.of \notin created /\ created \subseteq created'
      /\ attached' = attached /\ Move(t, 1, 0) /\ stack'[t][1] = e
  BY DEF Creates, OnTop
<1>4. HandsNest' /\ OthersUnattached' /\ OwnDetached'
  BY <1>2, <1>3 DEF NestInv, HandsNest, Nesting, OthersUnattached, OwnDetached, Detaches
<1>5. CallNest(e)'
  <2>1. e.of \in Lifetimes /\ e.of \notin Roots
    BY <1>1, <1>3, RecordFields DEF LTypes
  <2>2. attached[e.of] = NotAttached
    BY <1>3, <2>1 DEF NestInv, OthersUnattached
  <2>3. \A b \in Hands : b.does = "terminate" => b.nested # e.of
    BY <1>3 DEF KeyInv, HandsKeyed, Keyed
  <2> QED BY <1>2, <1>3, <2>1, <2>2, <2>3 DEF CallNest, Unattached
<1>6. ASSUME NEW f, CallNest(f) PROVE CallNest(f)'
  BY <1>2, <1>3, <1>6 DEF CallNest, Unattached
<1>7. CallsNest'
  <2>1. CallNest(stack[t][1])'
    BY <1>3, <1>5 DEF CallNest, Attaching, Unattached
  <2>2. \A u \in Threads : \A j \in Pos(u) : (u = t => j > 0) =>
          \A f : f = stack[u][j] => CallNest(f)'
    BY <1>6 DEF NestInv, CallsNest
  <2> QED BY <1>3, <2>1, <2>2, NestCalls
<1> QED BY <1>4, <1>7 DEF NestInv

\* Every step keeps what holds of nested lifetimes.
LEMMA NestStays ==
  ASSUME LifetimesAssumption, KeyInv, Once, NestInv, NEW t \in Threads, Does(t)
  PROVE  NestInv'
<1>1. LTypes /\ Ordered /\ Growth
  BY Grows DEF KeyInv
<1>2. CASE \E a \in Action, f \in Frame, g \in Frame : AddsTerminate(t, f, g, a)
  BY <1>2, AttachingNests
<1>3. CASE \E a \in Action, f \in Frame : AddsErase(t, f, a)
  BY <1>3, AttachedNests
<1>4. CASE \E f \in Frame : Creates(t, f)
  BY <1>4, CreatingNests
<1>0. SUFFICES ASSUME ~ \E a \in Action, f \in Frame, g \in Frame : AddsTerminate(t, f, g, a),
                      ~ \E a \in Action, f \in Frame : AddsErase(t, f, a)
               PROVE  NestInv'
  BY <1>2, <1>3
<1>5. ASSUME attached' = attached
      PROVE  Plain /\ created \subseteq created'
  <2>1. ASSUME NEW b \in Hands' PROVE b \in Hands \/ b.does = "run"
    <3>1. b \in Action
      BY <2>1 DEF Hands, Kept, InCalls
    <3>2. b \in Hands \/ AddsRun(t, b)
      BY <1>0, <1>1, <2>1, <3>1, HandsGrow
    <3> QED BY <3>2 DEF AddsRun
  <2>2. created \subseteq created'
    BY <1>1 DEF Growth
  <2>3. \A b \in Hands' : b \in Hands \/ b.does = "run"
    BY <2>1
  <2>4. attached' = attached
    BY <1>5
  <2>5. Plain
    BY <2>3, <2>4 DEF Plain
  <2> QED BY <2>2, <2>5
<1>6. ASSUME Plain, created \subseteq created',
             \A u \in Threads : \A i \in 1 .. Len(stack'[u]) : i \in Pos(u) /\ stack'[u][i] = stack[u][i]
      PROVE  NestInv'
  <2>1. HandsNest' /\ OthersUnattached' /\ OwnDetached'
    <3>1. HandsNest'
      BY <1>6 DEF NestInv, HandsNest, Nesting, Plain
    <3>2. OthersUnattached'
      BY <1>6 DEF NestInv, OthersUnattached, Plain
    <3>3. OwnDetached'
      BY <1>6 DEF NestInv, OwnDetached, Detaches, Plain
    <3> QED BY <3>1, <3>2, <3>3
  <2>2. ASSUME NEW u \in Threads, NEW i \in 1 .. Len(stack'[u]) PROVE CallNest(stack[u][i])'
    <3>1. PICK f : f = stack'[u][i] /\ CallNest(f)
      BY <1>6, <2>2 DEF NestInv, CallsNest
    <3>2. CallNest(f)'
      BY <1>6, <3>1 DEF CallNest, Plain, Unattached
    <3> QED BY <3>1, <3>2 DEF CallNest, Attaching, Unattached
  <2>3. CallsNest'
    BY <2>2 DEF CallsNest, Pos
  <2> QED BY <2>1, <2>3 DEF NestInv
<1>7. ASSUME Plain, created \subseteq created', NEW p \in {0, 1}, Move(t, 1, p),
             ~Attaching(stack'[t][1])
      PROVE  NestInv'
  <2>1. \A i \in 1 .. Len(stack'[t]) : i <= 1 => ~Attaching(stack'[t][i])
    BY <1>7
  <2> QED BY <1>7, <2>1, PlainNest
<1>8. ASSUME Plain, created \subseteq created', Move(t, 0, 1) PROVE NestInv'
  <2>1. \A i \in 1 .. Len(stack'[t]) : i <= 0 => ~Attaching(stack'[t][i])
    OBVIOUS
  <2> QED BY <1>8, <2>1, PlainNest
<1>9. CASE \E a \in Action : AddsRun(t, a)
  <2>1. Plain /\ created \subseteq created'
    BY <1>5, <1>9 DEF AddsRun
  <2>2. CASE stack' = stack
    BY <1>6, <2>1, <2>2 DEF Pos
  <2> QED BY <1>8, <1>9, <2>1, <2>2 DEF AddsRun
<1>10. CASE Throws(t)
  <2>1. \A u \in Threads : \A i \in 1 .. Len(stack'[u]) :
          u # t /\ i \in Pos(u) /\ stack'[u][i] = stack[u][i]
    BY <1>10, ThrownCalls
  <2>2. CASE Plain /\ created \subseteq created'
    BY <1>6, <2>1, <2>2
  <2> QED BY <1>5, <1>10, <2>2 DEF Throws
<1>11. CASE \E f \in Frame : Opens(t, f) \/ Ends(t, f)
  <2>1. PICK f \in Frame : Opens(t, f) \/ Ends(t, f)
    BY <1>11
  <2>2. attached' = attached /\ Move(t, 1, 0) /\ ~Attaching(stack'[t][1])
    BY <2>1 DEF Opens, Ends, OnTop, Attaching
  <2> QED BY <1>5, <1>7, <2>2
<1>12. CASE \E f \in Frame : Returns(t, f)
  <2>1. attached' = attached /\ Move(t, 0, 1)
    BY <1>12 DEF Returns
  <2> QED BY <1>5, <1>8, <2>1
<1>13. CASE \/ \E f \in Frame, g \in Frame : Takes(t, f, g)
            \/ \E f \in Frame, g \in Frame, a \in Action : RunsUser(t, f, g, a) \/ RunsErase(t, f, g, a)
  <2>1. attached' = attached /\ Move(t, 1, 1) /\ ~Attaching(stack'[t][1])
    <3>1. CASE \E f \in Frame, g \in Frame : Takes(t, f, g)
      BY <3>1 DEF Takes, OnTop, Attaching
    <3>2. CASE \E f \in Frame, g \in Frame, a \in Action : RunsUser(t, f, g, a) \/ RunsErase(t, f, g, a)
      BY <3>2 DEF RunsUser, RunsErase, Reaches, OnTop, Attaching
    <3> QED BY <1>13, <3>1, <3>2
  <2> QED BY <1>5, <1>7, <2>1
<1>14. CASE \E f \in Frame, g \in Frame, h \in Frame, a \in Action : RunsTerminate(t, f, g, h, a)
  <2>1. PICK f \in Frame, g \in Frame, h \in Frame, a \in Action : RunsTerminate(t, f, g, h, a)
    BY <1>14
  <2>2. /\ attached' = attached /\ Move(t, 2, 1)
        /\ ~Attaching(stack'[t][1]) /\ ~Attaching(stack'[t][2])
    BY <2>1 DEF RunsTerminate, Reaches, OnTop, Attaching
  <2>3. \A i \in 1 .. Len(stack'[t]) : i <= 2 => i = 1 \/ i = 2
    OBVIOUS
  <2>4. \A i \in 1 .. Len(stack'[t]) : i <= 2 => ~Attaching(stack'[t][i])
    BY <2>2, <2>3
  <2>5. CASE Plain /\ created \subseteq created'
    BY <2>2, <2>4, <2>5, PlainNest
  <2> QED BY <1>5, <2>2, <2>5
<1> QED BY <1>0, <1>4, <1>9, <1>10, <1>11, <1>12, <1>13, <1>14 DEF Does

----------------------------------------------------------------------------
(***************************************************************************)
(* A terminated lifetime with actions is about to be taken up.             *)
(***************************************************************************)
\* A call is about to take the actions of l.
Awaited(l) == \E u \in Threads : \E i \in Pos(u) : stack[u][i].call = "taking" /\ stack[u][i].of = l
TakingInv == \A l \in Lifetimes : terminated[l] /\ actions[l] # <<>> => Awaited(l)

\* The call that is about to take them stays until it does.
LEMMA AwaitedStays ==
  ASSUME LTypes, TopFirst, NEW t \in Threads, Does(t), NEW l \in Lifetimes, Awaited(l), actions'[l] # <<>>
  PROVE  Awaited(l)'
<1>1. PICK u \in Threads, i \in Nat : i \in Pos(u) /\ stack[u][i].call = "taking" /\ stack[u][i].of = l
  BY DEF Awaited, Pos
<1>2. i = 1
  BY <1>1 DEF TopFirst
<1>3. ASSUME NEW k \in {0, 1, 2}, NEW p \in {0, 1}, Move(t, k, p),
             p = 1 => stack[t][1].call # "taking"
      PROVE  Awaited(l)'
  <2>1. Survivors(t, k, p)
    BY <1>3, MovedCalls
  <2>2. ~(u = t /\ i <= p)
    BY <1>1, <1>2, <1>3
  <2>3. \E m \in 1 .. Len(stack'[u]) : stack'[u][m] = stack[u][i]
    BY <1>1, <2>1, <2>2 DEF Survivors
  <2> QED BY <1>1, <2>3 DEF Awaited, Pos
<1>4. CASE \E a \in Action : AddsRun(t, a)
  <2>1. CASE stack' = stack
    BY <1>1, <2>1 DEF Awaited, Pos
  <2>2. CASE \E f \in Frame : Innermost(t, f) /\ f.call = "opening" /\ Move(t, 0, 1)
    BY <1>3, <2>2 DEF Innermost
  <2> QED BY <1>4, <2>1, <2>2 DEF AddsRun
<1>5. CASE \/ \E a \in Action, f \in Frame, g \in Frame : AddsTerminate(t, f, g, a)
           \/ \E a \in Action, f \in Frame : AddsErase(t, f, a)
  BY <1>3, <1>5 DEF AddsTerminate, AddsErase, Innermost
<1>6. CASE Throws(t)
  <2>1. u # t
    <3>1. SUFFICES ASSUME u = t PROVE FALSE
      OBVIOUS
    <3>2. stack[t] # <<>>
      BY <1>1, <3>1, EmptySeq DEF Pos
    <3> QED BY <1>1, <1>2, <1>6, <3>1, <3>2 DEF Throws
  <2>2. stack'[u] = stack[u]
    BY <1>6, <2>1 DEF Throws
  <2> QED BY <1>1, <2>2 DEF Awaited, Pos
<1>7. CASE \E f \in Frame : Opens(t, f) \/ Creates(t, f) \/ Ends(t, f)
  BY <1>3, <1>7 DEF Opens, Creates, Ends
<1>8. CASE \E f \in Frame, g \in Frame : Takes(t, f, g)
  <2>1. PICK f \in Frame, g \in Frame : Takes(t, f, g)
    BY <1>8
  <2>2. f.of # l /\ Move(t, 1, 1) /\ f = stack[t][1]
    BY <2>1 DEF Takes, Innermost
  <2>3. Survivors(t, 1, 1)
    BY <2>2, MovedCalls
  <2>4. ~(u = t /\ i <= 1)
    BY <1>1, <1>2, <2>2
  <2>5. \E m \in 1 .. Len(stack'[u]) : stack'[u][m] = stack[u][i]
    BY <1>1, <2>3, <2>4 DEF Survivors
  <2> QED BY <1>1, <2>5 DEF Awaited, Pos
<1>9. CASE \/ \E f \in Frame, g \in Frame, a \in Action : RunsUser(t, f, g, a) \/ RunsErase(t, f, g, a)
           \/ \E f \in Frame, g \in Frame, h \in Frame, a \in Action : RunsTerminate(t, f, g, h, a)
  BY <1>3, <1>9 DEF RunsUser, RunsErase, RunsTerminate, Reaches, Innermost
<1>10. CASE \E f \in Frame : Returns(t, f)
  BY <1>3, <1>10 DEF Returns, Innermost
<1> QED BY <1>4, <1>5, <1>6, <1>7, <1>8, <1>9, <1>10 DEF Does

\* The flag and the call that takes the actions come together.
LEMMA TakingStays ==
  ASSUME LifetimesAssumption, KeyInv, TopFirst, TakingInv, NEW t \in Threads, Does(t)
  PROVE  TakingInv'
<1>1. LTypes /\ Growth
  BY Grows DEF KeyInv
<1>2. SUFFICES ASSUME NEW l \in Lifetimes, terminated'[l], actions'[l] # <<>> PROVE Awaited(l)'
  BY DEF TakingInv, Awaited, Pos
<1>3. CASE terminated[l]
  <2>1. actions[l] # <<>>
    BY <1>1, <1>2, <1>3 DEF Growth, Taken
  <2>2. Awaited(l)
    BY <1>3, <2>1 DEF TakingInv
  <2> QED BY <1>1, <1>2, <2>2, AwaitedStays
<1>4. CASE ~terminated[l]
  <2>1. ASSUME NEW h, OnTop(t, h), h.call = "taking", h.of = l PROVE Awaited(l)'
    <3>1. 1 \in 1 .. Len(stack'[t])
      BY <2>1 DEF OnTop
    <3> QED BY <2>1, <3>1 DEF OnTop, Awaited, Pos
  <2>2. CASE terminated' = terminated
    BY <1>2, <1>4, <2>2
  <2>3. CASE \E f \in Frame : Ends(t, f)
    <3>1. PICK f \in Frame : Ends(t, f)
      BY <2>3
    <3>2. OnTop(t, f) /\ f.call = "taking" /\ f.of = l
      BY <1>2, <1>4, <3>1 DEF Ends, Flagged
    <3> QED BY <2>1, <3>2
  <2>4. CASE \E f \in Frame, g \in Frame, h \in Frame, a \in Action : RunsTerminate(t, f, g, h, a)
    <3>1. PICK f \in Frame, g \in Frame, h \in Frame, a \in Action : RunsTerminate(t, f, g, h, a)
      BY <2>4
    <3>2. OnTop(t, h) /\ h.call = "taking" /\ h.of = l
      BY <1>2, <1>4, <3>1 DEF RunsTerminate, Flagged
    <3> QED BY <2>1, <3>2
  <2> QED BY <2>2, <2>3, <2>4 DEF Does, AddsRun, AddsTerminate, AddsErase, Throws, Opens, Creates,
              Takes, RunsUser, RunsErase, Returns
<1> QED BY <1>3, <1>4

----------------------------------------------------------------------------
(***************************************************************************)
(* A nested lifetime that has ended leaves nothing behind in its parent.   *)
(***************************************************************************)
\* What a key stands for, if it waits: the termination of a nested lifetime.
Named(l, k) == \A b \in Hands : b.of = l /\ b.key = k => b.does = "terminate"
CallNamed(f) == f.call = "attached" => Named(Parent[f.of], f.key)
CallsNamed == \A u \in Threads : \A i \in Pos(u) : CallNamed(stack[u][i])
ErasesNamed == \A a \in Hands : a.does = "erase" => Named(Parent[a.of], a.outer)
NamedInv == CallsNamed /\ ErasesNamed

\* add_action gives no key twice.
LEMMA NamedStays ==
  ASSUME LifetimesAssumption, KeyInv, NEW t \in Threads, Does(t),
         NEW l \in Lifetimes, NEW k \in Nat, k < nextKey[l], Named(l, k)
  PROVE  Named(l, k)'
<1>1. LTypes /\ Ordered
  BY DEF KeyInv
<1>2. ASSUME NEW b \in Hands', b.of = l, b.key = k PROVE b \in Hands
  <2>1. PICK n \in Nat : n = nextKey[l]
    BY <1>1 DEF LTypes
  <2>2. Keeps(b) => FALSE
    BY <1>2, <2>1 DEF Keeps
  <2> QED BY <1>1, <1>2, <2>2, HandsGrow DEF AddsRun, AddsTerminate, AddsErase
<1> QED BY <1>2 DEF Named

\* A call that has its parent's key had it before, or the parent has just given it.
LEMMA AttachedBefore ==
  ASSUME NEW t \in Threads, Does(t), NEW u \in Threads, NEW i \in 1 .. Len(stack'[u]),
         NEW f, f = stack'[u][i], f.call = "attached"
  PROVE  (\E j \in Pos(u) : f = stack[u][j])
           \/ \E a \in Action, e \in Frame, g \in Frame : AddsTerminate(t, e, g, a) /\ g = f
<1>1. ASSUME NEW k \in {0, 1, 2}, NEW p \in {0, 1}, Move(t, k, p),
             k >= 1 => stack'[t][1].call # "attached", k = 2 => stack'[t][2].call # "attached"
      PROVE  \E j \in Pos(u) : f = stack[u][j]
  <2>1. Origins(t, k, p)
    BY <1>1, MovedCalls
  <2>2. CASE u = t /\ i <= k
    <3>1. (i = 1 /\ k >= 1) \/ (i = 2 /\ k = 2)
      BY <2>2
    <3> QED BY <1>1, <2>2, <3>1
  <2>3. CASE \E j \in Pos(u) : stack'[u][i] = stack[u][j]
    BY <2>3
  <2> QED BY <2>1, <2>2, <2>3 DEF Origins
<1>2. CASE \E a \in Action, e \in Frame, g \in Frame : AddsTerminate(t, e, g, a)
  <2>1. PICK a \in Action, e \in Frame, g \in Frame : AddsTerminate(t, e, g, a)
    BY <1>2
  <2>2. Move(t, 1, 1) /\ stack'[t][1] = g
    BY <2>1 DEF AddsTerminate, OnTop
  <2>3. Origins(t, 1, 1)
    BY <2>2, MovedCalls
  <2>4. CASE u = t /\ i <= 1
    <3>1. i = 1
      BY <2>4
    <3> QED BY <2>1, <2>2, <2>4, <3>1
  <2>5. CASE \E j \in Pos(u) : stack'[u][i] = stack[u][j]
    BY <2>5
  <2> QED BY <2>3, <2>4, <2>5 DEF Origins
<1>3. CASE \E a \in Action : AddsRun(t, a)
  <2>1. CASE stack' = stack
    BY <2>1 DEF Pos
  <2> QED BY <1>1, <1>3, <2>1 DEF AddsRun
<1>4. CASE \E a \in Action, e \in Frame : AddsErase(t, e, a)
  BY <1>1, <1>4 DEF AddsErase
<1>5. CASE Throws(t)
  <2>1. i \in Pos(u) /\ stack'[u][i] = stack[u][i]
    BY <1>5, ThrownCalls
  <2> QED BY <2>1
<1>6. CASE \E e \in Frame : Opens(t, e) \/ Creates(t, e) \/ Ends(t, e)
  BY <1>1, <1>6 DEF Opens, Creates, Ends, OnTop
<1>7. CASE \E e \in Frame, g \in Frame : Takes(t, e, g)
  BY <1>1, <1>7 DEF Takes, OnTop
<1>8. CASE \E e \in Frame, g \in Frame, a \in Action : RunsUser(t, e, g, a) \/ RunsErase(t, e, g, a)
  BY <1>1, <1>8 DEF RunsUser, RunsErase, Reaches, OnTop
<1>9. CASE \E e \in Frame, g \in Frame, h \in Frame, a \in Action : RunsTerminate(t, e, g, h, a)
  BY <1>1, <1>9 DEF RunsTerminate, Reaches, OnTop
<1>10. CASE \E e \in Frame : Returns(t, e)
  BY <1>1, <1>10 DEF Returns
<1> QED BY <1>2, <1>3, <1>4, <1>5, <1>6, <1>7, <1>8, <1>9, <1>10 DEF Does

\* The keys that attach_nested keeps stand for terminations.
LEMMA NamesStay ==
  ASSUME LifetimesAssumption, KeyInv, NamedInv, NEW t \in Threads, Does(t)
  PROVE  NamedInv'
<1>1. LTypes /\ Ordered
  BY DEF KeyInv
<1>2. \A f \in Frame : Parent[f.of] \in Lifetimes
  BY RecordFields DEF LifetimesAssumption
<1>3. ASSUME NEW f \in Frame, CallNamed(f), CallKeyed(f) PROVE CallNamed(f)'
  <2>1. SUFFICES ASSUME f.call = "attached" PROVE Named(Parent[f.of], f.key)'
    BY DEF CallNamed, Named
  <2>2. PICK l \in Lifetimes, k \in Nat : l = Parent[f.of] /\ k = f.key
    BY <1>2, <2>1, RecordFields
  <2>3. k < nextKey[l] /\ Named(l, k)
    BY <1>3, <2>1, <2>2 DEF CallNamed, CallKeyed
  <2>4. Named(l, k)'
    BY <2>3, NamedStays
  <2> QED BY <2>2, <2>4
<1>4. ASSUME NEW f \in Frame, NEW g \in Frame, NEW a \in Action, AddsTerminate(t, f, g, a)
      PROVE  CallNamed(g)'
  <2>1. PICK l \in Lifetimes, k \in Nat : l = Parent[g.of] /\ k = g.key
    BY <1>2, <1>4, RecordFields DEF AddsTerminate
  <2>2. Keeps(a) /\ a.does = "terminate" /\ a.of = l /\ a.key = k /\ k = nextKey[l]
    BY <1>4, <2>1 DEF AddsTerminate, Keeps
  <2>3. Kept' = Kept \cup {a} /\ InCalls' = InCalls
    BY <1>1, <1>4, AddsAnAction
  <2>4. \A b \in Hands : b.of = l => b.key < k
    BY <2>2 DEF KeyInv, HandsKeyed, Keyed
  <2>5. \A b \in Hands : b.of = l => b.key # k
    BY <2>4
  <2>6. Named(l, k)'
    BY <2>2, <2>3, <2>5 DEF Named, Hands
  <2> QED BY <2>1, <2>6 DEF CallNamed
<1>5. ASSUME NEW u \in Threads, NEW i \in 1 .. Len(stack'[u])
      PROVE  \E f : f = stack'[u][i] /\ CallNamed(f)'
  <2>1. PICK f : f = stack'[u][i]
    OBVIOUS
  <2>2. CASE f.call # "attached"
    BY <2>1, <2>2 DEF CallNamed
  <2>3. CASE \E j \in Pos(u) : f = stack[u][j]
    <3>1. f \in Frame /\ CallNamed(f) /\ CallKeyed(f)
      BY <1>1, <2>3, CallsAreFrames DEF NamedInv, CallsNamed, KeyInv, CallsKeyed
    <3> QED BY <1>3, <2>1, <3>1
  <2>4. CASE \E a \in Action, e \in Frame, g \in Frame : AddsTerminate(t, e, g, a) /\ g = f
    BY <1>4, <2>1, <2>4
  <2> QED BY <2>1, <2>2, <2>3, <2>4, AttachedBefore
<1>6. CallsNamed'
  <2>1. ASSUME NEW u \in Threads, NEW i \in 1 .. Len(stack'[u]) PROVE CallNamed(stack[u][i])'
    <3>1. PICK f : f = stack'[u][i] /\ CallNamed(f)'
      BY <1>5
    <3> QED BY <3>1 DEF CallNamed
  <2> QED BY <2>1 DEF CallsNamed, Pos
<1>7. ASSUME NEW a \in Hands', a.does = "erase" PROVE Named(Parent[a.of], a.outer)'
  <2>1. a \in Action
    BY <1>7 DEF Hands, Kept, InCalls
  <2>2. PICK l \in Lifetimes, k \in Nat : l = Parent[a.of] /\ k = a.outer
    BY <1>7, <2>1, RecordFields DEF LifetimesAssumption
  <2>3. k < nextKey[l] /\ Named(l, k)
    <3>1. CASE a \in Hands
      BY <1>7, <2>2, <3>1 DEF NamedInv, ErasesNamed, KeyInv, HandsKeyed, Keyed
    <3>2. CASE \E e \in Frame : AddsErase(t, e, a)
      <4>1. PICK e \in Frame : AddsErase(t, e, a)
        BY <3>2
      <4>2. e = stack[t][1] /\ Len(stack[t]) > 0 /\ e.call = "attached" /\ a.of = e.of /\ a.outer = e.key
        BY <4>1 DEF AddsErase, Innermost
      <4>3. 1 \in Pos(t)
        <5>1. Len(stack[t]) \in Nat
          BY <1>1, LenProperties DEF LTypes
        <5> QED BY <4>2, <5>1 DEF Pos
      <4>4. CallNamed(e) /\ CallKeyed(e)
        BY <4>2, <4>3 DEF NamedInv, CallsNamed, KeyInv, CallsKeyed
      <4> QED BY <2>2, <4>2, <4>4 DEF CallNamed, CallKeyed
    <3> QED BY <1>1, <1>7, <3>1, <3>2, HandsGrow DEF AddsRun, AddsTerminate
  <2>4. Named(l, k)'
    BY <2>3, NamedStays
  <2> QED BY <2>2, <2>4
<1>8. ErasesNamed'
  BY <1>7 DEF ErasesNamed
<1> QED BY <1>6, <1>8 DEF NamedInv

\* What a lifetime keeps after a step it kept before, or was added.
LEMMA ActionsGrow ==
  ASSUME LifetimesAssumption, LTypes, Ordered, NEW t \in Threads, Does(t),
         NEW l \in Lifetimes, NEW b \in ToSet(actions'[l])
  PROVE  \/ b \in ToSet(actions[l])
         \/ AddsRun(t, b)
         \/ \E f \in Frame, g \in Frame : AddsTerminate(t, f, g, b)
         \/ \E f \in Frame : AddsErase(t, f, b)
<1>1. ASSUME NEW a \in Action, Keeps(a) PROVE b \in ToSet(actions[l]) \/ b = a
  <2>1. ToSet(actions'[a.of]) = ToSet(actions[a.of]) \cup {a}
    BY <1>1, KeepsAnAction
  <2>2. CASE l = a.of
    BY <2>1, <2>2
  <2>3. CASE l # a.of
    BY <1>1, <2>3 DEF Keeps
  <2> QED BY <2>2, <2>3
<1>2. CASE \E a \in Action : AddsRun(t, a)
  <2>1. PICK a \in Action : AddsRun(t, a)
    BY <1>2
  <2>2. Keeps(a)
    BY <2>1 DEF AddsRun
  <2> QED BY <1>1, <2>1, <2>2
<1>3. CASE \E a \in Action, f \in Frame, g \in Frame : AddsTerminate(t, f, g, a)
  <2>1. PICK a \in Action, f \in Frame, g \in Frame : AddsTerminate(t, f, g, a)
    BY <1>3
  <2>2. Keeps(a)
    BY <2>1 DEF AddsTerminate
  <2> QED BY <1>1, <2>1, <2>2
<1>4. CASE \E a \in Action, f \in Frame : AddsErase(t, f, a)
  <2>1. PICK a \in Action, f \in Frame : AddsErase(t, f, a)
    BY <1>4
  <2>2. Keeps(a)
    BY <2>1 DEF AddsErase
  <2> QED BY <1>1, <2>1, <2>2
<1>5. CASE \E f \in Frame, g \in Frame : Takes(t, f, g)
  <2>1. PICK f \in Frame, g \in Frame : Takes(t, f, g)
    BY <1>5
  <2>2. l # f.of /\ actions'[l] = actions[l]
    BY <2>1, NoActions DEF Takes
  <2> QED BY <2>2
<1>6. CASE \E f \in Frame, g \in Frame, a \in Action : RunsErase(t, f, g, a)
  BY <1>6, ErasesAnAction
<1>7. CASE actions' = actions
  BY <1>7
<1> QED BY <1>2, <1>3, <1>4, <1>5, <1>6, <1>7 DEF Does, Throws, Opens, Creates, Ends,
        RunsUser, RunsTerminate, Returns

\* An attached lifetime's removal of its termination waits or was left out, or its
\* parent does not have that any more.
Detaching(n) == \E a \in Hands \cup lost : a.does = "erase" /\ a.of = n
Detached(n) == \A b \in ToSet(actions[Parent[n]]) : b.does = "terminate" => b.nested # n
DetachInv == \A n \in created \ Roots : attached[n] # NotAttached => Detaching(n) \/ Detached(n)

\* The removal of a lifetime's termination leaves none in its parent.
LEMMA ErasingDetaches ==
  ASSUME LifetimesAssumption, KeyInv, NestInv, NEW t \in Threads,
         NEW f \in Frame, NEW g \in Frame, NEW a \in Action, RunsErase(t, f, g, a)
  PROVE  Detached(a.of)'
<1>1. LTypes /\ Ordered
  BY DEF KeyInv
<1>2. a \in Hands /\ a.does = "erase" /\ a.of \in Lifetimes /\ a.outer \in Nat
  BY <1>1, RunActions, RecordFields DEF RunsErase, Hands
<1>3. attached[a.of] = a.outer /\ attached[a.of] # NotAttached
  BY <1>2, KeysAttach DEF NestInv, HandsNest, Nesting
<1>4. PICK p \in Lifetimes : p = Parent[a.of]
  BY <1>2 DEF LifetimesAssumption
<1>5. ASSUME NEW b \in ToSet(actions'[p]), b.does = "terminate", b.nested = a.of PROVE FALSE
  <2>1. b \in ToSet(actions[p]) /\ b.key # a.outer
    <3>1. \A l \in Lifetimes : \A c \in ToSet(actions'[l]) : c \in ToSet(actions[l])
      BY <1>1, ErasesAnAction
    <3>2. \A c \in ToSet(actions'[Parent[a.of]]) : c.key # a.outer
      BY <1>1, ErasesAnAction
    <3> QED BY <1>4, <1>5, <3>1, <3>2
  <2>2. b \in Hands
    BY <1>1, <2>1, KeptOf
  <2>3. b.key = attached[a.of]
    BY <1>3, <1>5, <2>2 DEF NestInv, HandsNest, Nesting
  <2> QED BY <1>3, <2>1, <2>3
<1> QED BY <1>4, <1>5 DEF Detached

\* A step keeps the removal or has removed the termination.
LEMMA DetachStays ==
  ASSUME LifetimesAssumption, KeyInv, NestInv, NamedInv, DetachInv, NEW t \in Threads, Does(t)
  PROVE  DetachInv'
<1>1. LTypes /\ Ordered
  BY DEF KeyInv
<1>2. lost \subseteq lost'
  BY DEF Does, AddsRun, AddsTerminate, AddsErase, Throws, Opens, Creates, Ends,
     Takes, RunsUser, RunsTerminate, RunsErase, Reaches, Returns
<1>3. SUFFICES ASSUME NEW n \in Lifetimes, n \in created' \ Roots, attached'[n] # NotAttached
               PROVE  Detaching(n)' \/ Detached(n)'
  <2>1. created' \subseteq Lifetimes
    BY <1>1, TypesStay DEF LTypes
  <2> QED BY <2>1 DEF DetachInv
<1>4. CASE attached'[n] # attached[n]
  <2>1. PICK a \in Action, f \in Frame : AddsErase(t, f, a)
    BY <1>4 DEF Does, AddsRun, AddsTerminate, Throws, Opens, Creates, Ends,
       Takes, RunsUser, RunsTerminate, RunsErase, Reaches, Returns
  <2>2. a.does = "erase" /\ a.of = n
    BY <1>4, <2>1 DEF AddsErase
  <2>3. Kept' = Kept \cup {a}
    BY <1>1, <2>1, AddsAnAction
  <2> QED BY <2>2, <2>3 DEF Detaching, Hands
<1>5. CASE attached'[n] = attached[n]
  <2>1. n \in created \ Roots /\ attached[n] # NotAttached
    BY <1>3, <1>5 DEF NestInv, OthersUnattached
  <2>2. CASE Detaching(n)
    <3>1. PICK a \in Hands \cup lost : a.does = "erase" /\ a.of = n
      BY <2>2 DEF Detaching
    <3>2. CASE a \in Hands' \cup lost'
      BY <3>1, <3>2 DEF Detaching
    <3>3. CASE a \in Hands /\ a \notin Hands' \cup lost'
      <4>1. ~ \E f \in Frame, g \in Frame, c \in Action :
                /\ RunsErase(t, f, g, c) /\ a.of = Parent[c.of] /\ a.key = c.outer
                /\ a \in ToSet(actions[Parent[c.of]])
        <5>1. SUFFICES ASSUME NEW f \in Frame, NEW g \in Frame, NEW c \in Action,
                              RunsErase(t, f, g, c), a.of = Parent[c.of], a.key = c.outer
                       PROVE  FALSE
          OBVIOUS
        <5>2. c \in Hands /\ c.does = "erase"
          BY <1>1, <5>1, RunActions DEF RunsErase, Hands
        <5>3. a.does = "terminate"
          BY <3>3, <5>1, <5>2 DEF NamedInv, ErasesNamed, Named
        <5> QED BY <3>1, <5>3
      <4>2. \E f \in Frame, g \in Frame : RunsErase(t, f, g, a)
        BY <1>1, <3>1, <3>3, <4>1, HandsStay DEF RunsUser, RunsTerminate
      <4>3. Detached(a.of)'
        <5>1. a \in Action
          BY <3>3 DEF Hands, Kept, InCalls
        <5> QED BY <4>2, <5>1, ErasingDetaches
      <4> QED BY <3>1, <4>3
    <3> QED BY <1>2, <3>1, <3>2, <3>3
  <2>3. CASE Detached(n)
    <3>1. PICK p \in Lifetimes : p = Parent[n]
      BY DEF LifetimesAssumption
    <3>2. ASSUME NEW b \in ToSet(actions'[p]), b.does = "terminate", b.nested = n PROVE FALSE
      <4>1. b \notin ToSet(actions[p])
        BY <2>3, <3>1, <3>2 DEF Detached
      <4>2. PICK f \in Frame, g \in Frame : AddsTerminate(t, f, g, b)
        BY <1>1, <3>2, <4>1, ActionsGrow DEF AddsRun, AddsErase
      <4>3. f = stack[t][1] /\ Len(stack[t]) > 0 /\ f.call = "attaching" /\ f.of = n
        BY <3>2, <4>2 DEF AddsTerminate, Innermost
      <4>4. 1 \in Pos(t)
        <5>1. Len(stack[t]) \in Nat
          BY <1>1, LenProperties DEF LTypes
        <5> QED BY <4>3, <5>1 DEF Pos
      <4>5. CallNest(f)
        BY <4>3, <4>4 DEF NestInv, CallsNest
      <4> QED BY <2>1, <4>3, <4>5 DEF CallNest, Attaching, Unattached
    <3> QED BY <3>1, <3>2 DEF Detached
  <2> QED BY <2>1, <2>2, <2>3 DEF DetachInv
<1> QED BY <1>4, <1>5

\* What nobody has taken up and nobody is in has detached itself.
LEMMA EndedHaveDetached ==
  ASSUME LTypes, Ordered, CallsOrdered, TakingInv, DetachInv
  PROVE  EndedDetach
<1>1. SUFFICES ASSUME NEW n \in created \ Roots, attached[n] # NotAttached, terminated[n],
                      Frames(n) = {}, lost = {}
               PROVE  Detached(n)
  BY DEF EndedDetach, Detached
<1>2. ASSUME Detaching(n) PROVE FALSE
  <2>1. PICK a \in Hands : a.of = n
    BY <1>1, <1>2 DEF Detaching
  <2>2. ASSUME NEW u \in Threads, NEW i \in Pos(u), stack[u][i].of = n PROVE FALSE
    <3>1. PICK s \in Seq(Frame) : s = stack[u]
      BY DEF LTypes
    <3>2. i \in DOMAIN s
      BY <3>1, LenProperties DEF Pos
    <3> QED BY <1>1, <2>2, <3>1, <3>2 DEF Frames
  <2>3. CASE a \in Kept
    <3>1. PICK l \in Lifetimes : a \in ToSet(actions[l])
      BY <2>3 DEF Kept
    <3>2. l = n
      BY <2>1, <3>1 DEF Ordered
    <3>3. actions[n] # <<>>
      BY <3>1, <3>2, NoActions
    <3> QED BY <1>1, <2>2, <3>2, <3>3 DEF TakingInv, Awaited
  <2>4. CASE a \in InCalls
    <3>1. PICK u \in Threads, i \in Nat : i \in Pos(u) /\ a \in ToSet(stack[u][i].left)
      BY <2>4 DEF InCalls, Pos
    <3>2. stack[u][i].of = n
      BY <2>1, <3>1 DEF CallsOrdered, CallOrdered
    <3> QED BY <2>2, <3>1, <3>2
  <2> QED BY <2>1, <2>3, <2>4 DEF Hands
<1> QED BY <1>1, <1>2 DEF DetachInv

----------------------------------------------------------------------------
(***************************************************************************)
(* The nested lifetimes end before what was added ahead of them runs.      *)
(***************************************************************************)
\* A lifetime has left its termination in its parent.
Known(n) ==
  attached[n] # NotAttached
    \/ \E u \in Threads : \E i \in Pos(u) : stack[u][i].of = n /\ stack[u][i].call = "attached"

\* A step that takes a lifetime's actions or removes one from its parent.
LEMMA ActionsStay ==
  ASSUME LifetimesAssumption, LTypes, Ordered, NEW t \in Threads, Does(t),
         NEW l \in Lifetimes, NEW b \in ToSet(actions[l])
  PROVE  \/ b \in ToSet(actions'[l])
         \/ \E f \in Frame, g \in Frame : Takes(t, f, g) /\ f.of = l
         \/ \E f \in Frame, g \in Frame, a \in Action :
              RunsErase(t, f, g, a) /\ l = Parent[a.of] /\ b.key = a.outer
<1>1. ASSUME NEW a \in Action, Keeps(a) PROVE b \in ToSet(actions'[l])
  <2>1. ToSet(actions'[a.of]) = ToSet(actions[a.of]) \cup {a}
    BY <1>1, KeepsAnAction
  <2>2. CASE l = a.of
    BY <2>1, <2>2
  <2>3. CASE l # a.of
    BY <1>1, <2>3 DEF Keeps
  <2> QED BY <2>2, <2>3
<1>2. CASE \/ \E a \in Action : AddsRun(t, a)
           \/ \E a \in Action, f \in Frame, g \in Frame : AddsTerminate(t, f, g, a)
           \/ \E a \in Action, f \in Frame : AddsErase(t, f, a)
  <2>1. \E a \in Action : Keeps(a)
    BY <1>2 DEF AddsRun, AddsTerminate, AddsErase
  <2> QED BY <1>1, <2>1
<1>3. CASE \E f \in Frame, g \in Frame : Takes(t, f, g)
  <2>1. PICK f \in Frame, g \in Frame : Takes(t, f, g)
    BY <1>3
  <2>2. l = f.of \/ actions'[l] = actions[l]
    BY <2>1 DEF Takes
  <2> QED BY <2>1, <2>2
<1>4. CASE \E f \in Frame, g \in Frame, a \in Action : RunsErase(t, f, g, a)
  BY <1>4, ErasesAnAction
<1>5. CASE actions' = actions
  BY <1>5
<1> QED BY <1>2, <1>3, <1>4, <1>5 DEF Does, Throws, Opens, Creates, Ends,
        RunsUser, RunsTerminate, Returns

\* Only attach_nested leaves a lifetime's termination in its parent.
LEMMA KnownBefore ==
  ASSUME LifetimesAssumption, KeyInv, NestInv, NEW t \in Threads, Does(t),
         NEW n \in Lifetimes, Known(n)'
  PROVE  \/ n \in created \ Roots /\ Known(n)
         \/ \E a \in Action, f \in Frame, g \in Frame : AddsTerminate(t, f, g, a) /\ f.of = n
<1>1. LTypes
  BY DEF KeyInv
<1>2. ASSUME Known(n) PROVE n \in created \ Roots
  <2>1. CASE attached[n] # NotAttached
    BY <2>1 DEF NestInv, OthersUnattached
  <2>2. CASE \E u \in Threads : \E i \in Pos(u) : stack[u][i].of = n /\ stack[u][i].call = "attached"
    BY <2>2 DEF NestInv, CallsNest, CallNest, Attaching, Unattached, KeyInv, CallsKeyed, CallKeyed
  <2> QED BY <1>2, <2>1, <2>2 DEF Known
<1>3. CASE attached'[n] # NotAttached
  <2>1. CASE attached'[n] = attached[n]
    BY <1>2, <1>3, <2>1 DEF Known
  <2>2. CASE attached'[n] # attached[n]
    <3>1. PICK a \in Action, f \in Frame : AddsErase(t, f, a)
      BY <2>2 DEF Does, AddsRun, AddsTerminate, Throws, Opens, Creates, Ends,
         Takes, RunsUser, RunsTerminate, RunsErase, Reaches, Returns
    <3>2. f = stack[t][1] /\ Len(stack[t]) > 0 /\ f.call = "attached" /\ f.of = n
      BY <2>2, <3>1 DEF AddsErase, Innermost
    <3>3. 1 \in Pos(t)
      <4>1. Len(stack[t]) \in Nat
        BY <1>1, LenProperties DEF LTypes
      <4> QED BY <3>2, <4>1 DEF Pos
    <3>4. Known(n)
      BY <3>2, <3>3 DEF Known
    <3> QED BY <1>2, <3>4
  <2> QED BY <2>1, <2>2
<1>4. CASE \E u \in Threads : \E i \in 1 .. Len(stack'[u]) :
             stack'[u][i].of = n /\ stack'[u][i].call = "attached"
  <2>1. PICK u \in Threads, i \in Nat :
          i \in 1 .. Len(stack'[u]) /\ stack'[u][i].of = n /\ stack'[u][i].call = "attached"
    BY <1>4
  <2>2. PICK e : e = stack'[u][i]
    OBVIOUS
  <2>3. (\E j \in Pos(u) : e = stack[u][j])
          \/ \E a \in Action, f \in Frame, g \in Frame : AddsTerminate(t, f, g, a) /\ g = e
    BY <2>1, <2>2, AttachedBefore
  <2>4. CASE \E j \in Pos(u) : e = stack[u][j]
    <3>1. Known(n)
      BY <2>1, <2>2, <2>4 DEF Known
    <3> QED BY <1>2, <3>1
  <2>5. CASE \E a \in Action, f \in Frame, g \in Frame : AddsTerminate(t, f, g, a) /\ g = e
    BY <2>1, <2>2, <2>5 DEF AddsTerminate
  <2> QED BY <2>3, <2>4, <2>5
<1> QED BY <1>3, <1>4 DEF Known, Pos

\* What has a lifetime's termination among its actions.
EndsIn(s, n) == \E a \in ToSet(s) : a.does = "terminate" /\ a.nested = n

\* A lifetime that left its termination in its parent: that waits there, or the
\* actions of either have been taken.
Waits(n) == EndsIn(actions[Parent[n]], n) \/ Taken(n) \/ Taken(Parent[n])
WaitsInv == \A n \in created \ Roots : Known(n) => Waits(n)

\* Its termination goes when the parent's actions are taken or when it has ended itself.
LEMMA WaitsStay ==
  ASSUME LifetimesAssumption, KeyInv, NestInv, WaitsInv, NEW t \in Threads, Does(t)
  PROVE  WaitsInv'
<1>1. LTypes /\ Ordered /\ Growth
  BY Grows DEF KeyInv
<1>2. SUFFICES ASSUME NEW n \in Lifetimes, Known(n)' PROVE Waits(n)'
  <2>1. created' \subseteq Lifetimes
    BY <1>1, TypesStay DEF LTypes
  <2> QED BY <2>1 DEF WaitsInv
<1>3. PICK p \in Lifetimes : p = Parent[n]
  BY DEF LifetimesAssumption
<1>4. CASE \E a \in Action, f \in Frame, g \in Frame : AddsTerminate(t, f, g, a) /\ f.of = n
  <2>1. PICK a \in Action, f \in Frame, g \in Frame : AddsTerminate(t, f, g, a) /\ f.of = n
    BY <1>4
  <2>2. Keeps(a) /\ a.does = "terminate" /\ a.nested = n /\ a.of = p
    BY <1>3, <2>1 DEF AddsTerminate
  <2>3. ToSet(actions'[p]) = ToSet(actions[p]) \cup {a}
    BY <1>1, <2>2, KeepsAnAction
  <2>4. EndsIn(actions'[p], n)
    BY <2>2, <2>3 DEF EndsIn
  <2> QED BY <1>3, <2>4 DEF Waits, EndsIn
<1>5. CASE n \in created \ Roots /\ Known(n)
  <2>1. Waits(n)
    BY <1>5 DEF WaitsInv
  <2>2. CASE Taken(n) \/ Taken(p)
    <3>1. Taken(n)' \/ Taken(p)'
      BY <1>1, <2>2 DEF Growth, Taken
    <3> QED BY <1>3, <3>1 DEF Waits, Taken
  <2>3. CASE EndsIn(actions[p], n)
    <3>1. PICK b \in ToSet(actions[p]) : b.does = "terminate" /\ b.nested = n
      BY <2>3 DEF EndsIn
    <3>2. CASE b \in ToSet(actions'[p])
      BY <1>3, <3>1, <3>2 DEF Waits, EndsIn
    <3>3. CASE \E f \in Frame, g \in Frame : Takes(t, f, g) /\ f.of = p
      <4>1. PICK f \in Frame, g \in Frame : Takes(t, f, g) /\ f.of = p
        BY <3>3
      <4>2. f = stack[t][1] /\ Len(stack[t]) > 0 /\ f.call = "taking"
        BY <4>1 DEF Takes, Innermost
      <4>3. 1 \in Pos(t)
        <5>1. Len(stack[t]) \in Nat
          BY <1>1, LenProperties DEF LTypes
        <5> QED BY <4>2, <5>1 DEF Pos
      <4>4. terminated[p]
        BY <4>1, <4>2, <4>3 DEF KeyInv, CallsOrdered, CallOrdered
      <4>5. Taken(p)'
        BY <4>1, <4>4 DEF Takes, Taken
      <4> QED BY <1>3, <4>5 DEF Waits, Taken
    <3>4. CASE \E f \in Frame, g \in Frame, a \in Action :
                 RunsErase(t, f, g, a) /\ p = Parent[a.of] /\ b.key = a.outer
      <4>1. PICK f \in Frame, g \in Frame, a \in Action :
                   RunsErase(t, f, g, a) /\ p = Parent[a.of] /\ b.key = a.outer
        BY <3>4
      <4>2. a \in Hands /\ a.does = "erase" /\ Reaches(t, f, g, a)
        BY <1>1, <4>1, RunActions DEF RunsErase, Hands
      <4>3. b \in Hands /\ b.of = p
        BY <1>1, <3>1, KeptOf DEF Ordered
      <4>4. Detaches(a, b)
        BY <3>1, <4>1, <4>2, <4>3 DEF Detaches
      <4>5. a.of = n
        BY <3>1, <4>2, <4>3, <4>4 DEF NestInv, OwnDetached
      <4>6. ToSet(f.left) = ToSet(g.left) \cup {a} /\ stack[t][1] = f /\ 1 \in Pos(t)
        BY <1>1, <4>2, ReachedActions
      <4>7. CallOrdered(f) /\ f.call = "running"
        BY <4>2, <4>6 DEF KeyInv, CallsOrdered, Reaches
      <4>8. Taken(n)
        BY <4>5, <4>6, <4>7 DEF CallOrdered
      <4>9. Taken(n)'
        BY <1>1, <4>8 DEF Growth, Taken
      <4> QED BY <4>9 DEF Waits, Taken
    <3> QED BY <1>1, <3>2, <3>3, <3>4, ActionsStay
  <2> QED BY <1>3, <2>1, <2>2, <2>3 DEF Waits
<1> QED BY <1>2, <1>4, <1>5, KnownBefore

\* What is about to take a lifetime's actions does so next.
LEMMA TakesNext ==
  ASSUME NEW t \in Threads, Does(t), NEW u \in Threads, 1 \in Pos(u), stack[u][1].call = "taking"
  PROVE  stack'[u] = stack[u] \/ \E f \in Frame, g \in Frame : Takes(t, f, g) /\ f = stack[u][1]
<1>1. CASE u # t
  BY <1>1 DEF Does, AddsRun, AddsTerminate, AddsErase, Throws, Opens, Creates, Ends,
     Takes, RunsUser, RunsTerminate, RunsErase, Returns, Move
<1>2. CASE u = t
  <2>1. stack[t] # <<>>
    BY <1>2, EmptySeq DEF Pos
  <2>2. CASE \E f \in Frame, g \in Frame : Takes(t, f, g)
    BY <1>2, <2>2 DEF Takes, Innermost
  <2> QED BY <1>2, <2>1, <2>2 DEF Does, AddsRun, AddsTerminate, AddsErase, Throws, Opens, Creates, Ends,
          RunsUser, RunsTerminate, RunsErase, Returns, Reaches, Innermost, AtCall
<1> QED BY <1>1, <1>2

\* The calls that have actions, and where they have them from.
LEMMA HeldBefore ==
  ASSUME NEW t \in Threads, Does(t), NEW u \in Threads, NEW i \in 1 .. Len(stack'[u]),
         NEW f, f = stack'[u][i]
  PROVE  \/ f.left = <<>>
         \/ \E j \in Pos(u) : f = stack[u][j]
         \/ u = t /\ f \in Frame /\ \E e \in Frame : Takes(t, e, f)
         \/ u = t /\ f \in Frame /\ \E e \in Frame, a \in Action :
              RunsUser(t, e, f, a) \/ RunsErase(t, e, f, a) \/ \E h \in Frame : RunsTerminate(t, e, f, h, a)
<1>1. ASSUME NEW k \in {0, 1, 2}, NEW p \in {0, 1}, Move(t, k, p), ~ \E j \in Pos(u) : f = stack[u][j]
      PROVE  u = t /\ ((f = stack'[t][1] /\ k >= 1) \/ (f = stack'[t][2] /\ k = 2))
  <2>1. Origins(t, k, p)
    BY <1>1, MovedCalls
  <2>2. u = t /\ i <= k
    BY <1>1, <2>1 DEF Origins
  <2>3. (i = 1 /\ k >= 1) \/ (i = 2 /\ k = 2)
    BY <2>2
  <2> QED BY <2>2, <2>3
<1>2. SUFFICES ASSUME ~ \E j \in Pos(u) : f = stack[u][j]
               PROVE  \/ f.left = <<>>
                      \/ u = t /\ f \in Frame /\ \E e \in Frame : Takes(t, e, f)
                      \/ u = t /\ f \in Frame /\ \E e \in Frame, a \in Action :
                           \/ RunsUser(t, e, f, a) \/ RunsErase(t, e, f, a)
                           \/ \E h \in Frame : RunsTerminate(t, e, f, h, a)
  OBVIOUS
<1>3. CASE \E a \in Action : AddsRun(t, a)
  <2>1. CASE stack' = stack
    BY <1>2, <2>1 DEF Pos
  <2>2. CASE Move(t, 0, 1)
    BY <1>1, <1>2, <2>2
  <2> QED BY <1>3, <2>1, <2>2 DEF AddsRun
<1>4. CASE \E a \in Action, e \in Frame, g \in Frame : AddsTerminate(t, e, g, a)
  <2>1. PICK a \in Action, e \in Frame, g \in Frame : AddsTerminate(t, e, g, a)
    BY <1>4
  <2>2. Move(t, 1, 1) /\ stack'[t][1] = g /\ g.left = <<>>
    BY <2>1, RecordFields DEF AddsTerminate, OnTop
  <2>3. f = g
    BY <1>1, <1>2, <2>2
  <2> QED BY <2>2, <2>3
<1>5. CASE \/ \E a \in Action, e \in Frame : AddsErase(t, e, a)
           \/ \E e \in Frame : Returns(t, e)
  <2>1. Move(t, 0, 1)
    BY <1>5 DEF AddsErase, Returns
  <2> QED BY <1>1, <1>2, <2>1
<1>6. CASE Throws(t)
  <2>1. i \in Pos(u) /\ stack'[u][i] = stack[u][i]
    BY <1>6, ThrownCalls
  <2> QED BY <1>2, <2>1
<1>7. CASE \E e \in Frame : Opens(t, e) \/ Creates(t, e) \/ Ends(t, e)
  <2>1. PICK e \in Frame : Opens(t, e) \/ Creates(t, e) \/ Ends(t, e)
    BY <1>7
  <2>2. Move(t, 1, 0) /\ stack'[t][1] = e /\ e.left = <<>>
    BY <2>1 DEF Opens, Creates, Ends, OnTop
  <2>3. f = e
    BY <1>1, <1>2, <2>2
  <2> QED BY <2>2, <2>3
<1>8. CASE \E e \in Frame, g \in Frame : Takes(t, e, g)
  <2>1. PICK e \in Frame, g \in Frame : Takes(t, e, g)
    BY <1>8
  <2>2. Move(t, 1, 1) /\ stack'[t][1] = g
    BY <2>1 DEF Takes, OnTop
  <2>3. u = t /\ f = g
    BY <1>1, <1>2, <2>2
  <2> QED BY <2>1, <2>3
<1>9. CASE \E e \in Frame, g \in Frame, a \in Action : RunsUser(t, e, g, a) \/ RunsErase(t, e, g, a)
  <2>1. PICK e \in Frame, g \in Frame, a \in Action : RunsUser(t, e, g, a) \/ RunsErase(t, e, g, a)
    BY <1>9
  <2>2. Move(t, 1, 1) /\ stack'[t][1] = g
    BY <2>1 DEF RunsUser, RunsErase, OnTop
  <2>3. u = t /\ f = g
    BY <1>1, <1>2, <2>2
  <2> QED BY <2>1, <2>3
<1>10. CASE \E e \in Frame, g \in Frame, h \in Frame, a \in Action : RunsTerminate(t, e, g, h, a)
  <2>1. PICK e \in Frame, g \in Frame, h \in Frame, a \in Action : RunsTerminate(t, e, g, h, a)
    BY <1>10
  <2>2. Move(t, 2, 1) /\ stack'[t][1] = h /\ stack'[t][2] = g /\ h.left = <<>>
    BY <2>1 DEF RunsTerminate, OnTop
  <2>3. u = t /\ (f = h \/ f = g)
    BY <1>1, <1>2, <2>2
  <2> QED BY <2>1, <2>2, <2>3
<1> QED BY <1>3, <1>4, <1>5, <1>6, <1>7, <1>8, <1>9, <1>10 DEF Does

\* A lifetime has ended, or the thread u is about to end it.
Ended(u, n) ==
  /\ terminated[n]
  /\ actions[n] = <<>> \/ (1 \in Pos(u) /\ stack[u][1].call = "taking" /\ stack[u][1].of = n)

\* Where a call has actions of a parent, each lifetime nested there has its
\* termination among them or has ended.
EndsWith(u, f, n) == f.of = Parent[n] /\ f.left # <<>> => EndsIn(f.left, n) \/ Ended(u, n)
NestEnds ==
  \A n \in created \ Roots : Known(n) =>
    \A u \in Threads : \A i \in Pos(u) : EndsWith(u, stack[u][i], n)

\* A lifetime that has ended stays so.
LEMMA EndedStays ==
  ASSUME LTypes, Growth, NEW t \in Threads, Does(t), NEW u \in Threads, NEW n \in Lifetimes, Ended(u, n)
  PROVE  Ended(u, n)'
<1>1. terminated'[n]
  BY DEF Ended, Growth
<1>2. CASE actions[n] = <<>>
  <2>1. actions'[n] = <<>>
    BY <1>2 DEF Ended, Growth, Taken
  <2> QED BY <1>1, <2>1 DEF Ended
<1>3. CASE 1 \in Pos(u) /\ stack[u][1].call = "taking" /\ stack[u][1].of = n
  <2>1. CASE stack'[u] = stack[u]
    BY <1>1, <1>3, <2>1 DEF Ended, Pos
  <2>2. CASE \E f \in Frame, g \in Frame : Takes(t, f, g) /\ f = stack[u][1]
    <3>1. actions'[n] = <<>>
      BY <1>3, <2>2 DEF Takes
    <3> QED BY <1>1, <3>1 DEF Ended
  <2> QED BY <1>3, <2>1, <2>2, TakesNext
<1> QED BY <1>2, <1>3 DEF Ended

\* Whenever a parent's actions are taken or one of them runs, this stays.
LEMMA NestEndsStay ==
  ASSUME LifetimesAssumption, KeyInv, NestInv, WaitsInv, NestEnds, NEW t \in Threads, Does(t)
  PROVE  NestEnds'
<1>1. LTypes /\ Ordered /\ Growth /\ LTypes' /\ CallsOrdered'
  BY Grows, TypesStay, CallsStayKeyed DEF KeyInv
<1>2. SUFFICES ASSUME NEW n \in Lifetimes, Known(n)', NEW u \in Threads, NEW i \in 1 .. Len(stack'[u]),
                      NEW f, f = stack'[u][i], f.of = Parent[n], f.left # <<>>
               PROVE  EndsIn(f.left, n) \/ Ended(u, n)'
  <2>1. created' \subseteq Lifetimes
    BY <1>1 DEF LTypes
  <2>2. ASSUME NEW n \in Lifetimes, Known(n)', NEW u \in Threads, NEW i \in 1 .. Len(stack'[u])
        PROVE  EndsWith(u, stack[u][i], n)'
    <3>1. PICK f : f = stack'[u][i]
      OBVIOUS
    <3>2. f.of = Parent[n] /\ f.left # <<>> => EndsIn(f.left, n) \/ Ended(u, n)'
      BY <1>2, <2>2, <3>1
    <3> QED BY <3>1, <3>2 DEF EndsWith, EndsIn
  <2> QED BY <2>1, <2>2 DEF NestEnds, Pos
<1>3. ASSUME NEW a \in Action, NEW e \in Frame, NEW g \in Frame, AddsTerminate(t, e, g, a), e.of = n
      PROVE  FALSE
  <2>1. ~terminated'[Parent[n]]
    BY <1>3 DEF AddsTerminate, Keeps
  <2>2. f \in Frame /\ CallOrdered(f)'
    <3>1. PICK s \in Seq(Frame) : s = stack'[u]
      BY <1>1 DEF LTypes
    <3>2. f \in Frame
      BY <1>2, <3>1, ElementOfSeq
    <3>3. CallOrdered(stack[u][i])'
      BY <1>1, <1>2 DEF CallsOrdered, Pos
    <3> QED BY <1>2, <3>2, <3>3 DEF CallOrdered, Taken
  <2>3. f.call = "running"
    BY <1>2, <2>2, RecordFields
  <2> QED BY <1>2, <2>1, <2>2, <2>3 DEF CallOrdered, Taken
<1>4. n \in created \ Roots /\ Known(n)
  BY <1>2, <1>3, KnownBefore
<1>5. CASE \E j \in Pos(u) : f = stack[u][j]
  <2>1. EndsWith(u, f, n)
    BY <1>4, <1>5 DEF NestEnds
  <2> QED BY <1>1, <1>2, <2>1, EndedStays DEF EndsWith
<1>6. CASE u = t /\ f \in Frame /\ \E e \in Frame : Takes(t, e, f)
  <2>1. f.left = actions[Parent[n]]
    BY <1>2, <1>6 DEF Takes
  <2>2. Waits(n)
    BY <1>4 DEF WaitsInv
  <2>3. CASE Taken(n)
    BY <1>1, <2>3 DEF Growth, Taken, Ended
  <2> QED BY <1>2, <2>1, <2>2, <2>3 DEF Waits, Taken
<1>7. CASE u = t /\ f \in Frame /\ \E e \in Frame, a \in Action :
             RunsUser(t, e, f, a) \/ RunsErase(t, e, f, a) \/ \E h \in Frame : RunsTerminate(t, e, f, h, a)
  <2>1. PICK e \in Frame, a \in Action :
          RunsUser(t, e, f, a) \/ RunsErase(t, e, f, a) \/ \E h \in Frame : RunsTerminate(t, e, f, h, a)
    BY <1>7
  <2>2. Reaches(t, e, f, a)
    BY <2>1 DEF RunsUser, RunsErase, RunsTerminate
  <2>3. ToSet(e.left) = ToSet(f.left) \cup {a} /\ stack[t][1] = e /\ 1 \in Pos(t)
    BY <1>1, <1>7, <2>2, ReachedActions
  <2>4. e.of = Parent[n] /\ e.left # <<>> /\ e.call = "running"
    BY <1>2, <2>2 DEF Reaches, Innermost
  <2>5. EndsIn(e.left, n) \/ Ended(t, n)
    BY <1>4, <2>3, <2>4 DEF NestEnds, EndsWith
  <2>6. CASE Ended(t, n)
    BY <1>1, <1>7, <2>6, EndedStays
  <2>7. CASE a.does = "terminate" /\ a.nested = n
    <3>1. PICK h \in Frame : RunsTerminate(t, e, f, h, a)
      BY <2>1, <2>7 DEF RunsUser, RunsErase
    <3>2. /\ terminated'[n] /\ Len(stack'[t]) > 1
          /\ stack'[t][1].call = "taking" /\ stack'[t][1].of = n
      BY <2>7, <3>1 DEF RunsTerminate, Flagged, OnTop
    <3>3. 1 \in 1 .. Len(stack'[t])
      <4>1. Len(stack'[t]) \in Nat
        BY <1>1, LenProperties DEF LTypes
      <4> QED BY <3>2, <4>1
    <3> QED BY <1>7, <3>2, <3>3 DEF Ended, Pos
  <2>8. CASE EndsIn(e.left, n) /\ ~(a.does = "terminate" /\ a.nested = n)
    BY <2>3, <2>8 DEF EndsIn
  <2> QED BY <2>5, <2>6, <2>7, <2>8
<1> QED BY <1>2, <1>5, <1>6, <1>7, HeldBefore

\* The actions added ahead of a nested lifetime run after it has ended.
LEMMA EndsFirst ==
  ASSUME LifetimesAssumption, KeyInv, NestInv, NestEnds, NEW t \in Threads, Does(t),
         NEW f \in Frame, NEW g \in Frame, NEW a \in Action, RunsUser(t, f, g, a),
         NEW n \in created \ Roots, Parent[n] = a.of, attached[n] # NotAttached, attached[n] > a.key
  PROVE  terminated'[n] /\ actions'[n] = <<>>
<1>1. LTypes /\ Growth
  BY Grows DEF KeyInv
<1>2. Reaches(t, f, g, a) /\ f.call = "running" /\ f.left # <<>>
  BY DEF RunsUser, Reaches
<1>3. ToSet(f.left) = ToSet(g.left) \cup {a} /\ stack[t][1] = f /\ 1 \in Pos(t)
  BY <1>1, <1>2, ReachedActions
<1>4. CallOrdered(f)
  BY <1>3 DEF KeyInv, CallsOrdered
<1>5. EndsWith(t, f, n)
  BY <1>3 DEF NestEnds, Known
<1>6. f.of = Parent[n]
  BY <1>3, <1>4 DEF CallOrdered
<1>7. ~EndsIn(f.left, n)
  <2>1. SUFFICES ASSUME NEW b \in ToSet(f.left), b.does = "terminate", b.nested = n PROVE FALSE
    BY DEF EndsIn
  <2>2. b # a
    BY <2>1 DEF RunsUser
  <2>3. b.key < a.key
    BY <1>1, <1>2, <1>3, <1>4, <2>1, <2>2, ReachedActions DEF CallOrdered
  <2>4. b \in Hands
    <3>1. \A c \in ToSet(stack[t][1].left) : c \in Hands
      BY <1>1, <1>3, KeptOf
    <3> QED BY <1>3, <2>1, <3>1
  <2>5. b.key = attached[n]
    BY <2>1, <2>4 DEF NestInv, HandsNest, Nesting
  <2>6. b.key \in Nat /\ a.key \in Nat
    <3>1. b \in Action
      BY <2>4 DEF Hands, Kept, InCalls
    <3> QED BY <3>1, RecordFields
  <2> QED BY <2>3, <2>5, <2>6
<1>8. Taken(n)
  BY <1>2, <1>3, <1>5, <1>6, <1>7 DEF EndsWith, Ended, Taken
<1>9. n \in Lifetimes
  BY <1>1 DEF LTypes
<1> QED BY <1>1, <1>8, <1>9 DEF Growth, Taken

----------------------------------------------------------------------------
(***************************************************************************)
(* The theorems.                                                           *)
(***************************************************************************)
\* What holds of lifetimes in every state.
LifetimesInv ==
  /\ KeyInv /\ Remembered /\ Once /\ TopFirst /\ AllSpent /\ LastAddedRunsFirst
  /\ TakingInv /\ NestInv /\ NamedInv /\ DetachInv /\ WaitsInv /\ NestEnds

\* It holds at first.
LEMMA InitLifetimesInv ==
  ASSUME LifetimesAssumption, Init
  PROVE  LifetimesInv
<1>1. KeyInv
  BY InitKeyInv
<1>2. <<>> \in Seq(Frame) /\ Len(<<>>) = 0 /\ DOMAIN <<>> = {} /\ ToSet(<<>>) = {}
  BY EmptySeq, NoActions
<1>3. \A u \in Threads : Pos(u) = {}
  BY <1>2 DEF Init, Pos
<1>4. \A l \in Lifetimes : actions[l] = <<>> /\ ~terminated[l] /\ attached[l] = NotAttached
  BY DEF Init
<1>5. Hands = {} /\ added = {} /\ ran = <<>> /\ created = Roots
  BY <1>2, <1>3, <1>4 DEF Hands, Kept, InCalls, Init
<1>6. Remembered /\ AllSpent /\ LastAddedRunsFirst
  BY <1>2, <1>5 DEF Remembered, AllSpent, LastAddedRunsFirst
<1>7. Once /\ TopFirst
  BY <1>3 DEF Once, TopFirst
<1>8. TakingInv
  BY <1>4 DEF TakingInv
<1>9. NestInv /\ NamedInv
  BY <1>3, <1>4, <1>5 DEF NestInv, HandsNest, CallsNest, OthersUnattached, OwnDetached,
     NamedInv, CallsNamed, ErasesNamed
<1>10. DetachInv /\ WaitsInv /\ NestEnds
  BY <1>5 DEF DetachInv, WaitsInv, NestEnds
<1> QED BY <1>1, <1>6, <1>7, <1>8, <1>9, <1>10 DEF LifetimesInv

\* A step of nobody changes nothing of it.
LEMMA StutterLifetimesInv ==
  ASSUME LifetimesAssumption, LifetimesInv, UNCHANGED lifetimeVars
  PROVE  LifetimesInv'
<1>1. KeyInv'
  BY KeyInvStays DEF LifetimesInv
<1>2. /\ created' = created /\ terminated' = terminated /\ actions' = actions /\ nextKey' = nextKey
      /\ stack' = stack /\ attached' = attached /\ added' = added /\ ran' = ran /\ lost' = lost
  BY DEF lifetimeVars
<1>3. Hands' = Hands
  BY <1>2 DEF Hands, Kept, InCalls, Pos
<1>4. Remembered' /\ LastAddedRunsFirst'
  BY <1>2, <1>3 DEF LifetimesInv, Remembered, LastAddedRunsFirst
<1>5. Once'
  BY <1>2 DEF LifetimesInv, Once, Pos, Twin, Attaching
<1>6. TopFirst'
  BY <1>2 DEF LifetimesInv, TopFirst, Pos
<1>7. AllSpent'
  BY <1>2 DEF LifetimesInv, AllSpent, Spent, Taken, Below, Pos
<1>8. TakingInv'
  BY <1>2 DEF LifetimesInv, TakingInv, Awaited, Pos
<1>9. NestInv'
  BY <1>2, <1>3 DEF LifetimesInv, NestInv, HandsNest, Nesting, CallsNest, CallNest, Attaching,
     Unattached, OthersUnattached, OwnDetached, Detaches, Pos
<1>10. NamedInv'
  BY <1>2, <1>3 DEF LifetimesInv, NamedInv, CallsNamed, CallNamed, ErasesNamed, Named, Pos
<1>11. DetachInv'
  BY <1>2, <1>3 DEF LifetimesInv, DetachInv, Detaching, Detached
<1>12. WaitsInv'
  BY <1>2 DEF LifetimesInv, WaitsInv, Known, Waits, EndsIn, Taken, Pos
<1>13. NestEnds'
  BY <1>2 DEF LifetimesInv, NestEnds, Known, EndsWith, EndsIn, Ended, Pos
<1> QED BY <1>1, <1>4, <1>5, <1>6, <1>7, <1>8, <1>9, <1>10, <1>11, <1>12, <1>13 DEF LifetimesInv

\* Every step keeps it.
LEMMA LifetimesInvStays ==
  ASSUME LifetimesAssumption, LifetimesInv, [Next]_lifetimeVars
  PROVE  LifetimesInv'
<1>1. CASE Next
  <2>1. /\ LTypes /\ KeyInv /\ Remembered /\ Once /\ TopFirst /\ AllSpent /\ LastAddedRunsFirst
        /\ TakingInv /\ NestInv /\ NamedInv /\ DetachInv /\ WaitsInv /\ NestEnds
    BY DEF LifetimesInv, KeyInv
  <2>2. PICK t \in Threads : Does(t)
    BY <1>1, <2>1, NextDoes
  <2>3. KeyInv' /\ Remembered'
    BY <2>1, <2>2, KeyInvStays, RememberedStays
  <2>4. Once' /\ TopFirst' /\ AllSpent' /\ LastAddedRunsFirst'
    BY <2>1, <2>2, OnceStays, TopFirstStays, SpentStays, BackwardsStays
  <2>5. TakingInv' /\ NestInv' /\ NamedInv' /\ DetachInv'
    BY <2>1, <2>2, TakingStays, NestStays, NamesStay, DetachStays
  <2>6. WaitsInv' /\ NestEnds'
    BY <2>1, <2>2, WaitsStay, NestEndsStay
  <2> QED BY <2>3, <2>4, <2>5, <2>6 DEF LifetimesInv
<1>2. CASE UNCHANGED lifetimeVars
  BY <1>2, StutterLifetimesInv
<1> QED BY <1>1, <1>2

\* The variables have their types, and what a terminated lifetime has still kept is
\* about to be taken.
LEMMA InvTypes ==
  ASSUME LifetimesAssumption, LifetimesInv
  PROVE  TypeOK
<1>1. LTypes /\ Ordered /\ HandsKeyed /\ TakingInv
  BY DEF LifetimesInv, KeyInv
<1>2. ASSUME NEW l \in Lifetimes, NEW n \in DOMAIN actions[l]
      PROVE  actions[l][n].of = l /\ actions[l][n].key \in 0 .. nextKey[l] - 1
  <2>1. PICK s \in Seq(Action) : s = actions[l]
    BY <1>1 DEF LTypes
  <2>2. PICK a : a = s[n] /\ a \in ToSet(s)
    BY <1>2, <2>1 DEF ToSet
  <2>3. a \in Hands /\ a \in Action /\ a.of = l
    BY <1>1, <2>1, <2>2, KeptOf DEF Ordered
  <2>4. a.key \in Nat /\ a.key < nextKey[l] /\ nextKey[l] \in Nat
    BY <1>1, <2>3, RecordFields DEF HandsKeyed, Keyed, LTypes
  <2> QED BY <2>1, <2>2, <2>3, <2>4
<1>3. ASSUME NEW l \in Lifetimes, terminated[l], actions[l] # <<>>
      PROVE  \E t \in Threads : \E n \in DOMAIN stack[t] :
               stack[t][n].of = l /\ stack[t][n].call = "taking"
  <2>1. PICK t \in Threads, i \in Nat : i \in Pos(t) /\ stack[t][i].call = "taking" /\ stack[t][i].of = l
    BY <1>1, <1>3 DEF TakingInv, Awaited, Pos
  <2>2. PICK s \in Seq(Frame) : s = stack[t]
    BY <1>1 DEF LTypes
  <2>3. i \in DOMAIN s
    BY <2>1, <2>2, LenProperties DEF Pos
  <2> QED BY <2>1, <2>2, <2>3
<1> QED BY <1>1, <1>2, <1>3 DEF TypeOK, LTypes

\* What holds in every state says that no action disappears.
LEMMA InvKeeps ==
  ASSUME LifetimesInv
  PROVE  ActionsAreKept
<1>1. LTypes /\ Ordered /\ CallsOrdered /\ Remembered /\ LastAddedRunsFirst /\ TakingInv /\ DetachInv
  BY DEF LifetimesInv, KeyInv
<1>2. ASSUME NEW a \in Hands PROVE a \in Waiting \cup InFrames
  <2>1. CASE a \in Kept
    BY <2>1 DEF Kept, Waiting
  <2>2. CASE a \in InCalls
    <3>1. PICK u \in Threads, i \in Nat : i \in Pos(u) /\ a \in ToSet(stack[u][i].left)
      BY <2>2 DEF InCalls, Pos
    <3>2. PICK s \in Seq(Frame) : s = stack[u]
      BY <1>1 DEF LTypes
    <3>3. i \in DOMAIN s
      BY <3>1, <3>2, LenProperties DEF Pos
    <3> QED BY <3>1, <3>2, <3>3 DEF InFrames
  <2> QED BY <2>1, <2>2 DEF Hands
<1>3. NoActionDisappears
  BY <1>1, <1>2 DEF Remembered, NoActionDisappears, Place
<1> QED BY <1>1, <1>3, EndedHaveDetached DEF ActionsAreKept

\* It holds in every state.
LEMMA LifetimesInvariant == Spec => []LifetimesInv
<1> USE LifetimesAssumption
<1>1. Init => LifetimesInv
  BY InitLifetimesInv
<1>2. LifetimesInv /\ [Next]_lifetimeVars => LifetimesInv'
  BY LifetimesInvStays
<1> QED BY <1>1, <1>2, PTL DEF Spec

\* Lifetimes: however threads add, nest and terminate at once, a lifetime's actions
\* keep their order and their keys, and what a terminated one has still kept is about
\* to be taken.
THEOREM LifetimesTypes == Spec => []TypeOK
<1> USE LifetimesAssumption
<1>1. LifetimesInv => TypeOK
  BY InvTypes
<1> QED BY <1>1, LifetimesInvariant, PTL

\* add_action, attach_nested and terminate on any number of threads: no user's action
\* disappears or runs twice, the last added of a lifetime runs first, and a lifetime that
\* has ended leaves no action behind in its parent, unless an exception left it out.
THEOREM LifetimesKeepActions == Spec => []ActionsAreKept
<1>1. LifetimesInv => ActionsAreKept
  BY InvKeeps
<1> QED BY <1>1, LifetimesInvariant, PTL

\* Whoever runs an action of a lifetime has seen all that was nested there after it
\* terminated and its actions taken up.
LEMMA NextEndsFirst ==
  ASSUME LifetimesAssumption, LifetimesInv, [Next]_lifetimeVars, Len(ran') > Len(ran),
         NEW n \in created \ Roots, NEW x, x = Last(ran'), Parent[n] = x[1],
         attached[n] # NotAttached, attached[n] > x[2]
  PROVE  terminated'[n] /\ actions'[n] = <<>>
<1>1. LTypes /\ KeyInv /\ NestInv /\ NestEnds
  BY DEF LifetimesInv, KeyInv
<1>2. PICK r \in Seq(Lifetimes \X Nat) : r = ran
  BY <1>1 DEF LTypes
<1>3. PICK k \in Nat : k = Len(r)
  BY LenProperties
<1>4. ran' # ran
  BY <1>2, <1>3
<1>5. PICK t \in Threads : Does(t)
  BY <1>1, <1>4, NextDoes DEF lifetimeVars
<1>6. PICK f \in Frame, g \in Frame, a \in Action : RunsUser(t, f, g, a)
  BY <1>1, <1>4, <1>5, RanGrows
<1>7. PICK y \in Lifetimes \X Nat : y = <<a.of, a.key>>
  BY RecordFields
<1>8. x = y
  <2>1. PICK z : z = Append(r, y)
    OBVIOUS
  <2>2. Len(z) = k + 1 /\ z[k + 1] = y
    BY <1>3, <2>1, AppendProperties
  <2>3. ran' = z
    BY <1>2, <1>6, <1>7, <2>1 DEF RunsUser
  <2> QED BY <2>2, <2>3 DEF Last
<1>9. Parent[n] = a.of /\ attached[n] > a.key
  BY <1>7, <1>8
<1> QED BY <1>1, <1>5, <1>6, <1>9, EndsFirst

\* The order that terminate promises: when an action of a lifetime runs, every lifetime
\* nested in it later has been terminated and its actions have been taken up.
THEOREM NestedLifetimesEndFirst == Spec => NestedEndFirst
<1> USE LifetimesAssumption
<1>1. LifetimesInv /\ [Next]_lifetimeVars =>
        [Len(ran') > Len(ran) =>
           LET x == Last(ran')
           IN  \A n \in created \ Roots :
                 Parent[n] = x[1] /\ attached[n] # NotAttached /\ attached[n] > x[2] =>
                   terminated'[n] /\ actions'[n] = <<>>]_lifetimeVars
  BY NextEndsFirst
<1> QED BY <1>1, LifetimesInvariant, PTL DEF Spec, NestedEndFirst


(***************************************************************************)
(* RiderLink.                                                              *)
(***************************************************************************)
\* What the scheduler may have to run.
LinkActions ==
  [is : {"connect"}, connection : Nat] \cup [is : {"end", "view"}]
    \cup [is : {"control"}, model : Nat]

\* A model is shown, or just about to be.
Shown == isAlive = "true" \/ scheduler.at = "added"

\* Its end comes before the next model is made.
EndComes(q) ==
  \/ connection = editorModel /\ \A n \in 1 .. Len(q) : q[n].is # "connect"
  \/ \E n \in 1 .. Len(q) : q[n].is = "end" /\ \A m \in 1 .. n - 1 : q[m].is # "connect"

\* The connections in the queue are later ones than the model's, one after the other.
ConnectionsRise(q) ==
  \A n \in 1 .. Len(q) : q[n].is = "connect" =>
    /\ editorModel < q[n].connection /\ q[n].connection <= connections
    /\ \A m \in 1 .. n - 1 : q[m].is = "connect" => q[m].connection < q[n].connection

LinkTypes ==
  /\ connections \in Nat /\ connection \in {0, connections}
  /\ endAdded \subseteq 1 .. connections
  /\ linkQueue \in Seq(LinkActions)
  /\ scheduler \in [at : {"idle", "made", "bound", "registered", "added"}, connection : Nat]
  /\ editorModel \in 0 .. connections
  /\ isAlive \in {"empty", "true", "false"}
  /\ reading \in [Loggers -> Nat]
  /\ extension \in {"off", "started", "viewing", "shutDown"}
  /\ control \in Nat
  /\ events \in Nat

\* While the scheduler makes a model none is shown, and it is the present one that it makes.
LinkInv ==
  /\ LinkTypes
  /\ \/ scheduler = Link!Idle
     \/ /\ scheduler.at # "idle" /\ scheduler.connection = editorModel
        /\ editorModel > 0 /\ isAlive # "true"
  /\ Shown => editorModel \in endAdded /\ EndComes(linkQueue)
  /\ ConnectionsRise(linkQueue)
  /\ control # 0 => control = editorModel /\ isAlive = "true" /\ extension = "viewing"
  /\ Link!AsyncActionHasModel
  /\ connections <= MaxConnections /\ events <= MaxEvents

\* An action is queued.
LEMMA ActionQueued ==
  ASSUME NEW q \in Seq(LinkActions), NEW x \in LinkActions
  PROVE  /\ Append(q, x) \in Seq(LinkActions) /\ Len(q) \in Nat
         /\ Len(Append(q, x)) = Len(q) + 1 /\ Append(q, x)[Len(q) + 1] = x
         /\ \A n \in 1 .. Len(q) : Append(q, x)[n] = q[n]
BY AppendProperties, LenProperties

\* The first action is taken.
LEMMA ActionTaken ==
  ASSUME NEW q \in Seq(LinkActions), q # <<>>
  PROVE  /\ Tail(q) \in Seq(LinkActions) /\ Len(q) \in Nat /\ Len(q) > 0
         /\ Len(Tail(q)) = Len(q) - 1 /\ Head(q) = q[1] /\ q[1] \in LinkActions
         /\ \A n \in 1 .. Len(q) - 1 : Tail(q)[n] = q[n + 1]
<1>1. Len(q) \in Nat /\ Len(q) > 0
  BY LenProperties, EmptySeq
<1>2. /\ Tail(q) \in Seq(LinkActions) /\ Len(Tail(q)) = Len(q) - 1 /\ Head(q) = q[1]
      /\ \A n \in 1 .. Len(q) - 1 : Tail(q)[n] = q[n + 1]
  BY HeadTailProperties
<1>3. q[1] \in LinkActions
  BY <1>1, ElementOfSeq
<1> QED BY <1>1, <1>2, <1>3

\* What is queued behind leaves what comes before.
LEMMA EndStillComes ==
  ASSUME NEW q \in Seq(LinkActions), NEW x \in LinkActions, x.is # "connect", EndComes(q)
  PROVE  EndComes(Append(q, x))
<1>1. \A n \in 1 .. Len(q) + 1 : n \in 1 .. Len(q) \/ n = Len(q) + 1
  BY ActionQueued
<1>2. CASE connection = editorModel /\ \A n \in 1 .. Len(q) : q[n].is # "connect"
  BY <1>1, <1>2, ActionQueued DEF EndComes
<1>3. CASE \E n \in 1 .. Len(q) : q[n].is = "end" /\ \A m \in 1 .. n - 1 : q[m].is # "connect"
  <2>1. PICK n \in 1 .. Len(q) : q[n].is = "end" /\ \A m \in 1 .. n - 1 : q[m].is # "connect"
    BY <1>3
  <2>2. /\ n \in 1 .. Len(q) + 1 /\ Append(q, x)[n] = q[n]
        /\ \A m \in 1 .. n - 1 : Append(q, x)[m] = q[m]
    BY ActionQueued
  <2> QED BY <2>1, <2>2, ActionQueued DEF EndComes
<1> QED BY <1>2, <1>3 DEF EndComes

\* So does what is taken, unless it is the end.
LEMMA EndComesNearer ==
  ASSUME NEW q \in Seq(LinkActions), q # <<>>, Head(q).is # "end", EndComes(q)
  PROVE  EndComes(Tail(q))
<1>1. CASE connection = editorModel /\ \A n \in 1 .. Len(q) : q[n].is # "connect"
  BY <1>1, ActionTaken DEF EndComes
<1>2. CASE \E n \in 1 .. Len(q) : q[n].is = "end" /\ \A m \in 1 .. n - 1 : q[m].is # "connect"
  <2>1. PICK n \in 1 .. Len(q) : q[n].is = "end" /\ \A m \in 1 .. n - 1 : q[m].is # "connect"
    BY <1>2
  <2>2. n # 1
    BY <2>1, ActionTaken
  <2>3. /\ n - 1 \in 1 .. Len(Tail(q)) /\ Tail(q)[n - 1].is = "end"
        /\ \A m \in 1 .. (n - 1) - 1 : Tail(q)[m] = q[m + 1] /\ m + 1 \in 1 .. n - 1
    BY <2>1, <2>2, ActionTaken
  <2> QED BY <2>1, <2>3 DEF EndComes
<1> QED BY <1>1, <1>2 DEF EndComes

\* Connections go on rising when something else is queued, and when any action is taken.
LEMMA ConnectionsStillRise ==
  ASSUME NEW q \in Seq(LinkActions), ConnectionsRise(q)
  PROVE  /\ \A x \in LinkActions : x.is # "connect" => ConnectionsRise(Append(q, x))
         /\ q # <<>> => ConnectionsRise(Tail(q))
<1>1. ASSUME NEW x \in LinkActions, x.is # "connect"
      PROVE  ConnectionsRise(Append(q, x))
  <2>1. \A n \in 1 .. Len(Append(q, x)) :
          /\ \/ n \in 1 .. Len(q) /\ Append(q, x)[n] = q[n]
             \/ Append(q, x)[n] = x
          /\ \A m \in 1 .. n - 1 : m \in 1 .. Len(q) /\ Append(q, x)[m] = q[m]
    BY ActionQueued
  <2> QED BY <1>1, <2>1 DEF ConnectionsRise
<1>2. ASSUME q # <<>>
      PROVE  ConnectionsRise(Tail(q))
  <2>1. \A n \in 1 .. Len(Tail(q)) :
          /\ n + 1 \in 1 .. Len(q) /\ Tail(q)[n] = q[n + 1]
          /\ \A m \in 1 .. n - 1 : m + 1 \in 1 .. (n + 1) - 1 /\ Tail(q)[m] = q[m + 1]
    BY <1>2, ActionTaken
  <2> QED BY <1>2, <2>1 DEF ConnectionsRise
<1> QED BY <1>1, <1>2

\* What is assumed of its bounds.
LEMMA RiderLinkNumbers == MaxConnections \in Nat /\ MaxEvents \in Nat
BY ProtocolAssumption DEF Link!RiderLinkAssumption

\* What the actions use of the names of RiderLink.
LEMMA LinkNames ==
  /\ Link!None = 0 /\ Link!Idle = [at |-> "idle", connection |-> 0]
  /\ Link!Idle.at = "idle"
  /\ Link!EndAction \in LinkActions /\ Link!EndAction.is = "end"
  /\ Link!ViewAction \in LinkActions /\ Link!ViewAction.is = "view"
  /\ \A c \in Nat : /\ Link!ConnectAction(c) \in LinkActions
                    /\ Link!ConnectAction(c).is = "connect"
                    /\ Link!ConnectAction(c).connection = c
                    /\ Link!ControlAction(c) \in LinkActions
                    /\ Link!ControlAction(c).is = "control"
BY DEF Link!None, Link!Idle, Link!EndAction, Link!ViewAction, Link!ConnectAction,
       Link!ControlAction, LinkActions

\* The action that the scheduler may run next.
LEMMA LinkNext ==
  ASSUME LinkInv, NEW what, Link!NextAction(what)
  PROVE  /\ scheduler = Link!Idle /\ scheduler.at = "idle"
         /\ linkQueue \in Seq(LinkActions) /\ linkQueue # <<>>
         /\ Head(linkQueue).is = what /\ Len(linkQueue) \in Nat /\ Len(linkQueue) > 0
         /\ Head(linkQueue) = linkQueue[1] /\ Head(linkQueue) \in LinkActions
         /\ Tail(linkQueue) \in Seq(LinkActions) /\ ConnectionsRise(Tail(linkQueue))
<1>1. /\ scheduler = Link!Idle /\ linkQueue # <<>> /\ Head(linkQueue).is = what
      /\ linkQueue \in Seq(LinkActions) /\ ConnectionsRise(linkQueue)
  BY DEF LinkInv, LinkTypes, Link!NextAction
<1> QED BY <1>1, ActionTaken, ConnectionsStillRise, LinkNames

\* Rider connects.
LEMMA LinkConnect == ASSUME LinkInv, Link!Connect PROVE LinkInv'
<1> USE RiderLinkNumbers
<1>1. /\ connection = 0 /\ connections < MaxConnections /\ connection' = connections + 1
      /\ connections' = connections + 1 /\ connections \in Nat /\ editorModel \in 0 .. connections
      /\ linkQueue' = Append(linkQueue, Link!ConnectAction(connections + 1))
      /\ linkQueue \in Seq(LinkActions) /\ endAdded \subseteq 1 .. connections
      /\ UNCHANGED <<endAdded, scheduler, editorModel, isAlive, reading, extension, control, events>>
  BY LinkNames DEF Link!Connect, LinkInv, LinkTypes
<1> DEFINE x == Link!ConnectAction(connections + 1)
<1>2. x \in LinkActions /\ x.is = "connect" /\ x.connection = connections + 1
  BY <1>1, LinkNames
<1> HIDE DEF x
<1>3. /\ linkQueue' \in Seq(LinkActions) /\ Len(linkQueue) \in Nat
      /\ Len(linkQueue') = Len(linkQueue) + 1 /\ linkQueue'[Len(linkQueue) + 1] = x
      /\ \A n \in 1 .. Len(linkQueue) : linkQueue'[n] = linkQueue[n]
  BY <1>1, <1>2, ActionQueued DEF x
<1>4. LinkTypes'
  BY <1>1, <1>3 DEF LinkInv, LinkTypes
<1>5. Shown' => EndComes(linkQueue)'
  <2> SUFFICES ASSUME Shown' PROVE EndComes(linkQueue)'
    OBVIOUS
  <2>1. editorModel \in endAdded /\ EndComes(linkQueue)
    BY <1>1 DEF Shown, LinkInv
  <2>2. PICK n \in 1 .. Len(linkQueue) : /\ linkQueue[n].is = "end"
                                         /\ \A m \in 1 .. n - 1 : linkQueue[m].is # "connect"
    BY <2>1, <1>1 DEF EndComes
  <2>3. /\ n \in 1 .. Len(linkQueue') /\ linkQueue'[n].is = "end"
        /\ \A m \in 1 .. n - 1 : linkQueue'[m].is # "connect"
    BY <2>2, <1>3
  <2> QED BY <2>3 DEF EndComes
<1>6. ConnectionsRise(linkQueue)'
  <2>1. ConnectionsRise(linkQueue)
    BY DEF LinkInv
  <2>2. \A n \in 1 .. Len(linkQueue') :
          /\ \/ n \in 1 .. Len(linkQueue) /\ linkQueue'[n] = linkQueue[n]
             \/ linkQueue'[n] = x
          /\ \A m \in 1 .. n - 1 : m \in 1 .. Len(linkQueue) /\ linkQueue'[m] = linkQueue[m]
    BY <1>3
  <2>3. \A n \in 1 .. Len(linkQueue) : linkQueue[n].is = "connect" =>
          linkQueue[n].connection \in Nat /\ linkQueue[n].connection <= connections
    <3>1. \A n \in 1 .. Len(linkQueue) : linkQueue[n] \in LinkActions
      BY <1>1, ElementOfSeq
    <3> QED BY <3>1, <2>1 DEF ConnectionsRise, LinkActions
  <2> QED BY <2>1, <2>2, <2>3, <1>1, <1>2 DEF ConnectionsRise
<1> QED BY <1>1, <1>4, <1>5, <1>6 DEF LinkInv, Shown, Link!AsyncActionHasModel

\* The connection ends, and queues the end of its model.
LEMMA LinkDisconnect == ASSUME LinkInv, Link!Disconnect PROVE LinkInv'
<1>1. /\ connection # 0 /\ connection' = 0 /\ linkQueue \in Seq(LinkActions)
      /\ linkQueue' = IF connection \in endAdded
                      THEN Append(linkQueue, Link!EndAction) ELSE linkQueue
      /\ UNCHANGED <<connections, endAdded, scheduler, editorModel, isAlive, reading, extension,
                     control, events>>
      /\ ConnectionsRise(linkQueue)
  BY LinkNames DEF Link!Disconnect, LinkInv, LinkTypes
<1>2. LinkTypes'
  BY <1>1, LinkNames, ActionQueued DEF LinkInv, LinkTypes
<1>3. ConnectionsRise(linkQueue')
  BY <1>1, LinkNames, ConnectionsStillRise
<1>4. ConnectionsRise(linkQueue)'
  BY <1>1, <1>3 DEF ConnectionsRise
<1>5. Shown' => EndComes(linkQueue)'
  <2> SUFFICES ASSUME Shown' PROVE EndComes(linkQueue)'
    OBVIOUS
  <2>1. editorModel \in endAdded /\ EndComes(linkQueue)
    BY <1>1 DEF Shown, LinkInv
  <2>2. \A n \in 1 .. Len(linkQueue) :
          n \in 1 .. Len(linkQueue') /\ linkQueue'[n] = linkQueue[n]
    BY <1>1, LinkNames, ActionQueued
  <2>3. CASE connection = editorModel /\ \A n \in 1 .. Len(linkQueue) : linkQueue[n].is # "connect"
    <3>1. /\ Len(linkQueue) \in Nat /\ Len(linkQueue') = Len(linkQueue) + 1
          /\ linkQueue'[Len(linkQueue) + 1].is = "end"
      BY <1>1, <2>1, <2>3, LinkNames, ActionQueued
    <3>2. \A m \in 1 .. (Len(linkQueue) + 1) - 1 : linkQueue'[m].is # "connect"
      BY <3>1, <2>2, <2>3
    <3> QED BY <3>1, <3>2 DEF EndComes
  <2>4. CASE \E n \in 1 .. Len(linkQueue) : /\ linkQueue[n].is = "end"
                                            /\ \A m \in 1 .. n - 1 : linkQueue[m].is # "connect"
    <3>1. PICK n \in 1 .. Len(linkQueue) : /\ linkQueue[n].is = "end"
                                           /\ \A m \in 1 .. n - 1 : linkQueue[m].is # "connect"
      BY <2>4
    <3>2. \A m \in 1 .. n - 1 : m \in 1 .. Len(linkQueue)
      BY <1>1, LenProperties
    <3> QED BY <3>1, <3>2, <2>2 DEF EndComes
  <2> QED BY <2>1, <2>3, <2>4 DEF EndComes
<1> QED BY <1>1, <1>2, <1>4, <1>5 DEF LinkInv, Shown, Link!AsyncActionHasModel

\* The scheduler takes an action that is neither the end nor a connection's.
LEMMA LinkTakes ==
  ASSUME LinkInv, NEW what \in {"view", "control"}, Link!NextAction(what),
         linkQueue' = Tail(linkQueue),
         UNCHANGED <<connection, connections, endAdded, editorModel, isAlive, scheduler>>
  PROVE  /\ linkQueue' \in Seq(LinkActions) /\ ConnectionsRise(linkQueue)'
         /\ Shown' => editorModel' \in endAdded' /\ EndComes(linkQueue)'
<1>1. linkQueue' \in Seq(LinkActions) /\ ConnectionsRise(linkQueue')
  BY LinkNext
<1>2. EndComes(linkQueue) => EndComes(linkQueue')
  BY LinkNext, EndComesNearer
<1> QED BY <1>1, <1>2 DEF ConnectionsRise, EndComes, Shown, LinkInv

\* Before the model of a connection is made the last one is no longer shown.
LEMMA LinkNotShown ==
  ASSUME LinkInv, Link!NextAction("connect") PROVE isAlive # "true"
<1>1. /\ linkQueue # <<>> /\ Len(linkQueue) \in Nat /\ Len(linkQueue) > 0
      /\ linkQueue[1].is = "connect"
  BY LinkNext
<1>2. ASSUME NEW n \in 1 .. Len(linkQueue), linkQueue[n].is = "end",
             \A m \in 1 .. n - 1 : linkQueue[m].is # "connect"
      PROVE  FALSE
  <2>1. n = 1 \/ 1 \in 1 .. n - 1
    BY <1>1
  <2> QED BY <1>1, <1>2, <2>1
<1>3. 1 \in 1 .. Len(linkQueue)
  BY <1>1
<1>4. ~EndComes(linkQueue)
  BY <1>1, <1>2, <1>3 DEF EndComes
<1> QED BY <1>4 DEF LinkInv, Shown

\* The model of a connection is made.
LEMMA LinkMakeModel == ASSUME LinkInv, Link!MakeModel PROVE LinkInv'
<1> DEFINE c == Head(linkQueue).connection
<1>1. /\ Link!NextAction("connect") /\ \A l \in Loggers : reading[l] = 0
      /\ linkQueue' = Tail(linkQueue) /\ scheduler' = [at |-> "made", connection |-> c]
      /\ editorModel' = c
      /\ UNCHANGED <<connection, connections, endAdded, isAlive, reading, extension, control, events>>
  BY LinkNames DEF Link!MakeModel, Link!LockIsFree
<1>2. /\ scheduler.at = "idle" /\ linkQueue[1].is = "connect" /\ linkQueue[1].connection = c
      /\ Len(linkQueue) \in Nat /\ Len(linkQueue) > 0 /\ Tail(linkQueue) \in Seq(LinkActions)
      /\ c \in Nat /\ linkQueue # <<>> /\ linkQueue \in Seq(LinkActions)
  BY <1>1, LinkNext DEF LinkActions
<1>3. /\ connections \in Nat /\ editorModel \in 0 .. connections /\ ConnectionsRise(linkQueue)
  BY DEF LinkInv, LinkTypes
<1>4. editorModel < c /\ c <= connections
  BY <1>2, <1>3 DEF ConnectionsRise
<1>5. isAlive # "true"
  BY <1>1, LinkNotShown
<1>6. ConnectionsRise(linkQueue)'
  <2>1. \A n \in 1 .. Len(Tail(linkQueue)) :
          /\ n + 1 \in 1 .. Len(linkQueue) /\ Tail(linkQueue)[n] = linkQueue[n + 1]
          /\ 1 \in 1 .. (n + 1) - 1
          /\ \A m \in 1 .. n - 1 : m + 1 \in 1 .. (n + 1) - 1 /\ Tail(linkQueue)[m] = linkQueue[m + 1]
    BY <1>2, ActionTaken
  <2> HIDE DEF c
  <2> QED BY <2>1, <1>1, <1>2, <1>3 DEF ConnectionsRise
<1>7. LinkTypes'
  BY <1>1, <1>2, <1>3, <1>4 DEF LinkInv, LinkTypes
<1>8. /\ scheduler'.at = "made" /\ scheduler'.connection = c /\ c > 0 /\ control = 0
  BY <1>1, <1>2, <1>3, <1>4, <1>5 DEF LinkInv
<1> HIDE DEF c
<1> QED BY <1>1, <1>5, <1>6, <1>7, <1>8 DEF LinkInv, Shown, Link!AsyncActionHasModel, Link!None

\* The scheduler goes on with a model that is not shown yet, or gives up.
LEMMA LinkGoesOn ==
  ASSUME LinkInv, scheduler.at # "idle",
         scheduler' = Link!Idle \/ \E at \in {"bound", "registered"} : Link!GoTo(at),
         UNCHANGED <<connection, connections, endAdded, linkQueue, editorModel, isAlive, reading,
                     extension, control, events>>
  PROVE  LinkInv'
<1>1. scheduler # Link!Idle
  BY LinkNames
<1>2. \/ scheduler' = Link!Idle
      \/ /\ scheduler'.at \in {"bound", "registered"}
         /\ scheduler'.connection = scheduler.connection
  BY DEF LinkInv, LinkTypes, Link!GoTo
<1>3. LinkTypes'
  BY LinkNames DEF LinkInv, LinkTypes, Link!GoTo
<1>4. scheduler'.at # "added" /\ isAlive # "true"
  BY <1>1, <1>2, LinkNames DEF LinkInv
<1>5. ConnectionsRise(linkQueue)'
  BY DEF LinkInv, ConnectionsRise
<1> QED BY <1>1, <1>2, <1>3, <1>4, <1>5 DEF LinkInv, Shown, Link!AsyncActionHasModel

\* The model is bound to its connection.
LEMMA LinkBindModel == ASSUME LinkInv, Link!BindModel PROVE LinkInv'
BY LinkGoesOn DEF Link!BindModel

\* The end of the model is left with the connection's lifetime, which is the present one.
LEMMA LinkAddEnd == ASSUME LinkInv, Link!AddEnd PROVE LinkInv'
<1>1. /\ scheduler.at = "registered" /\ scheduler.connection = editorModel /\ editorModel > 0
      /\ isAlive # "true"
      /\ UNCHANGED <<connection, connections, linkQueue, editorModel, isAlive, reading, extension,
                     control, events>>
  BY LinkNames DEF Link!AddEnd, LinkInv
<1>2. CASE ~Link!StillConnected
  BY <1>1, <1>2, LinkGoesOn DEF Link!AddEnd
<1>3. CASE Link!StillConnected
  <2>1. /\ scheduler' = [scheduler EXCEPT !.at = "added"]
        /\ endAdded' = endAdded \cup {editorModel} /\ connection = editorModel
    BY <1>1, <1>3 DEF Link!AddEnd, Link!StillConnected, Link!GoTo
  <2>2. /\ connections \in Nat /\ connection = connections /\ editorModel \in 1 .. connections
        /\ linkQueue \in Seq(LinkActions) /\ ConnectionsRise(linkQueue)
    BY <1>1, <2>1 DEF LinkInv, LinkTypes
  <2>3. \A n \in 1 .. Len(linkQueue) : linkQueue[n].is # "connect"
    <3>1. \A n \in 1 .. Len(linkQueue) : linkQueue[n].is = "connect" => linkQueue[n].connection \in Nat
      <4>1. \A n \in 1 .. Len(linkQueue) : linkQueue[n] \in LinkActions
        BY <2>2, ElementOfSeq
      <4> QED BY <4>1 DEF LinkActions
    <3> QED BY <3>1, <2>1, <2>2 DEF ConnectionsRise
  <2>4. EndComes(linkQueue)' /\ ConnectionsRise(linkQueue)'
    BY <1>1, <2>1, <2>2, <2>3 DEF EndComes, ConnectionsRise
  <2>5. LinkTypes' /\ scheduler'.at = "added" /\ scheduler'.connection = scheduler.connection
    BY <1>1, <2>1, <2>2 DEF LinkInv, LinkTypes
  <2> QED BY <1>1, <2>1, <2>4, <2>5 DEF LinkInv, Link!AsyncActionHasModel
<1> QED BY <1>2, <1>3

\* The model is shown.
LEMMA LinkShowModel == ASSUME LinkInv, Link!ShowModel PROVE LinkInv'
<1>1. /\ scheduler.at = "added" /\ scheduler' = Link!Idle /\ isAlive' = "true"
      /\ control' \in {0, editorModel} /\ (control' # 0 => extension = "viewing")
      /\ UNCHANGED <<connection, connections, endAdded, linkQueue, editorModel, reading, extension,
                     events>>
  <2>1. scheduler.at = "added" /\ isAlive # "true"
    BY LinkNames DEF Link!ShowModel, LinkInv
  <2> QED BY <2>1, LinkNames DEF Link!ShowModel, Link!Show
<1>2. LinkTypes'
  BY <1>1, LinkNames DEF LinkInv, LinkTypes
<1>3. ConnectionsRise(linkQueue)' /\ EndComes(linkQueue)' /\ editorModel \in endAdded
  BY <1>1 DEF LinkInv, Shown, ConnectionsRise, EndComes
<1>4. \A l \in Loggers : reading[l] # 0 => reading[l] = editorModel
  BY LinkNames DEF LinkInv, Link!AsyncActionHasModel
<1> QED BY <1>1, <1>2, <1>3, <1>4, LinkNames DEF LinkInv, Link!AsyncActionHasModel

\* The model of a connection that has ended is no longer shown.
LEMMA LinkEndModel == ASSUME LinkInv, Link!EndModel PROVE LinkInv'
<1>1. /\ Link!NextAction("end") /\ \A l \in Loggers : reading[l] = 0
      /\ linkQueue' = Tail(linkQueue) /\ isAlive' = "false" /\ control' = 0
      /\ UNCHANGED <<connection, connections, endAdded, scheduler, editorModel, reading, extension,
                     events>>
  <2>1. control # 0 => isAlive = "true"
    BY DEF LinkInv
  <2> QED BY <2>1, LinkNames DEF Link!EndModel, Link!LockIsFree, Link!Show
<1>2. scheduler = Link!Idle /\ scheduler.at = "idle" /\ linkQueue' \in Seq(LinkActions)
  BY <1>1, LinkNext
<1>3. ConnectionsRise(linkQueue)'
  BY <1>1, LinkNext DEF ConnectionsRise
<1>4. LinkTypes'
  BY <1>1, <1>2 DEF LinkInv, LinkTypes
<1> QED BY <1>1, <1>2, <1>3, <1>4 DEF LinkInv, Shown, Link!AsyncActionHasModel, Link!None

\* The extension asks to be shown the model.
LEMMA LinkViewModel == ASSUME LinkInv, Link!ViewModel PROVE LinkInv'
<1>1. /\ Link!NextAction("view") /\ linkQueue' = Tail(linkQueue)
      /\ UNCHANGED <<connection, connections, endAdded, scheduler, editorModel, isAlive, reading,
                     events>>
      /\ \/ /\ extension' = "viewing" /\ extension = "started"
            /\ control' = IF isAlive = "true" THEN editorModel ELSE 0
         \/ UNCHANGED <<extension, control>>
  BY LinkNames DEF Link!ViewModel
<1>2. /\ linkQueue' \in Seq(LinkActions) /\ ConnectionsRise(linkQueue)'
      /\ Shown' => editorModel' \in endAdded' /\ EndComes(linkQueue)'
  BY <1>1, LinkTakes
<1>3. LinkTypes'
  BY <1>1, <1>2 DEF LinkInv, LinkTypes
<1> QED BY <1>1, <1>2, <1>3 DEF LinkInv, Link!AsyncActionHasModel

\* What the control has queued runs.
LEMMA LinkRunControlAction == ASSUME LinkInv, Link!RunControlAction PROVE LinkInv'
<1>1. /\ Link!NextAction("control") /\ linkQueue' = Tail(linkQueue)
      /\ UNCHANGED <<connection, connections, endAdded, scheduler, editorModel, isAlive, reading,
                     extension, control, events>>
  BY DEF Link!RunControlAction
<1>2. /\ linkQueue' \in Seq(LinkActions) /\ ConnectionsRise(linkQueue)'
      /\ Shown' => editorModel' \in endAdded' /\ EndComes(linkQueue)'
  BY <1>1, LinkTakes
<1>3. LinkTypes'
  BY <1>1, <1>2 DEF LinkInv, LinkTypes
<1> QED BY <1>1, <1>2, <1>3 DEF LinkInv, Link!AsyncActionHasModel

\* A logger takes the lock, and lets it go.
LEMMA LinkLoggerThread == ASSUME LinkInv, NEW l \in Loggers, Link!LoggerThread(l) PROVE LinkInv'
<1>1. /\ UNCHANGED <<connection, connections, endAdded, linkQueue, scheduler, editorModel, isAlive,
                     extension, control, events>>
      /\ \/ isAlive = "true" /\ reading' = [reading EXCEPT ![l] = editorModel]
         \/ reading' = [reading EXCEPT ![l] = 0]
  BY LinkNames DEF Link!LoggerThread, Link!BeginFire, Link!EndFire
<1>2. LinkTypes' /\ Link!AsyncActionHasModel'
  BY <1>1, LinkNames DEF LinkInv, LinkTypes, Link!AsyncActionHasModel
<1>3. ConnectionsRise(linkQueue)' /\ (Shown' => EndComes(linkQueue)')
  BY <1>1 DEF LinkInv, ConnectionsRise, EndComes, Shown
<1> QED BY <1>1, <1>2, <1>3 DEF LinkInv, Shown

\* The game thread queues something, or ends the extension.
LEMMA LinkGameThread == ASSUME LinkInv, Link!GameThread PROVE LinkInv'
<1>1. /\ UNCHANGED <<connection, connections, endAdded, scheduler, editorModel, isAlive, reading>>
      /\ \/ linkQueue' = linkQueue
         \/ \E x \in LinkActions : x.is # "connect" /\ linkQueue' = Append(linkQueue, x)
      /\ \/ control' = 0
         \/ control' = control /\ (extension' = extension \/ extension = "off")
      /\ extension' \in {"off", "started", "viewing", "shutDown"}
      /\ events' \in Nat /\ events' <= MaxEvents
  <2>1. /\ control \in Nat /\ events \in Nat /\ events <= MaxEvents
        /\ extension \in {"off", "started", "viewing", "shutDown"}
    BY DEF LinkInv, LinkTypes
  <2>2. CASE Link!StartExtension
    BY <2>1, <2>2, LinkNames DEF Link!StartExtension
  <2>3. CASE Link!EditorEvent
    BY <2>1, <2>3, LinkNames, RiderLinkNumbers DEF Link!EditorEvent
  <2>4. CASE Link!ShutdownExtension
    BY <2>1, <2>4, LinkNames DEF Link!ShutdownExtension
  <2> QED BY <2>2, <2>3, <2>4 DEF Link!GameThread
<1>2. linkQueue \in Seq(LinkActions) /\ ConnectionsRise(linkQueue)
  BY DEF LinkInv, LinkTypes
<1>3. /\ linkQueue' \in Seq(LinkActions) /\ ConnectionsRise(linkQueue')
      /\ EndComes(linkQueue) => EndComes(linkQueue')
  BY <1>1, <1>2, ActionQueued, ConnectionsStillRise, EndStillComes
<1>4. ConnectionsRise(linkQueue)' /\ (Shown' => editorModel' \in endAdded' /\ EndComes(linkQueue)')
  BY <1>1, <1>3 DEF LinkInv, Shown, EndComes, ConnectionsRise
<1>5. LinkTypes'
  BY <1>1, <1>3 DEF LinkInv, LinkTypes
<1> QED BY <1>1, <1>4, <1>5 DEF LinkInv, Link!AsyncActionHasModel

\* RiderLink begins without a model.
LEMMA LinkInit == ASSUME Link!Init PROVE LinkInv
<1>1. LinkTypes
  BY LinkNames DEF Link!Init, LinkTypes
<1>2. linkQueue = <<>> /\ Len(linkQueue) = 0
  BY DEF Link!Init
<1> QED BY <1>1, <1>2, LinkNames, RiderLinkNumbers
        DEF Link!Init, LinkInv, Shown, ConnectionsRise, Link!AsyncActionHasModel

\* Every step of RiderLink keeps its invariant.
LEMMA LinkStep == ASSUME LinkInv, [PartNext]_partVars PROVE LinkInv'
<1>1. CASE UNCHANGED linkRest
  BY <1>1 DEF linkRest, LinkInv, LinkTypes, Shown, EndComes, ConnectionsRise, Link!AsyncActionHasModel
<1>2. CASE Link!Next
  BY <1>2, LinkConnect, LinkDisconnect, LinkMakeModel, LinkBindModel, LinkAddEnd, LinkShowModel,
     LinkEndModel, LinkViewModel, LinkRunControlAction, LinkLoggerThread, LinkGameThread
     DEF Link!Next, Link!SchedulerThread
<1>3. Link!Next \/ UNCHANGED linkRest
  BY DEF PartNext, partVars, Only
<1> QED BY <1>1, <1>2, <1>3

\* What the invariant of RiderLink means.
LEMMA LinkMeans == ASSUME LinkInv
                   PROVE Link!TypeOK /\ Link!AsyncActionHasModel /\ Link!ControlShowsModel
<1>1. Link!ControlShowsModel /\ Link!AsyncActionHasModel
  BY LinkNames DEF LinkInv, Link!ControlShowsModel
<1>2. reading \in [Loggers -> 0 .. connections]
  BY LinkNames DEF LinkInv, LinkTypes, Link!AsyncActionHasModel
<1>3. scheduler.at \in {"idle", "made", "bound", "registered", "added"}
  BY DEF LinkInv, LinkTypes
<1> QED BY <1>1, <1>2, <1>3, LinkNames DEF LinkInv, LinkTypes, Link!TypeOK

\* The model is replaced only while none is shown.
LEMMA LinkReplaces == ASSUME LinkInv, [PartNext]_partVars, editorModel' # editorModel
                      PROVE  isAlive # "true"
<1>1. CASE UNCHANGED linkRest
  BY <1>1 DEF linkRest
<1>2. CASE Link!Next
  <2>1. Link!MakeModel
    BY <1>2 DEF Link!Next, Link!Connect, Link!Disconnect, Link!SchedulerThread, Link!BindModel,
       Link!AddEnd, Link!ShowModel, Link!EndModel, Link!ViewModel, Link!RunControlAction,
       Link!LoggerThread, Link!BeginFire, Link!EndFire, Link!GameThread, Link!StartExtension,
       Link!EditorEvent, Link!ShutdownExtension
  <2> QED BY <2>1, LinkNotShown DEF Link!MakeModel
<1>3. Link!Next \/ UNCHANGED linkRest
  BY DEF PartNext, partVars, Only
<1> QED BY <1>1, <1>2, <1>3


(***************************************************************************)
(* The play mode.                                                          *)
(***************************************************************************)
\* What the scheduler may have to run.
ModeActions == [is : {"fire", "request"}, mode : Nat]

\* The settings that a play mode has the bits for.
Small ==
  [mode : Mode!PlayModes \ {"InTargetedMobilePreview"}, clients : 1 .. 4,
   dedicated : BOOLEAN, atStart : BOOLEAN]

\* The mode Rider has when it has received all.
RiderWillHave == IF toRider = <<>> THEN rider ELSE toRider[Len(toRider)]

ModeTypes ==
  /\ settings \in Mode!AllSettings /\ retrieved \in Mode!AllSettings
  /\ playMode \in Nat
  /\ phase \in {"subscribed", "retrieved", "done"}
  /\ modeQueue \in Seq(ModeActions) /\ toRider \in Seq(Nat)
  /\ rider \in Nat \cup {-1}
  /\ changes \in [user : 0 .. MaxUser, rider : 0 .. MaxRider]

AllAre(what) == \A n \in 1 .. Len(modeQueue) : modeQueue[n].is = what
LastMode == modeQueue[Len(modeQueue)].mode

\* When only fires are queued the last of them is playMode; when nothing is, what Rider will
\* have means the settings; when requests are, it is the last of them or playMode.
ModeAgree ==
  /\ settings \in Small /\ retrieved \in Small
  /\ phase # "done" => modeQueue = <<>> /\ toRider = <<>> /\ retrieved = settings
  /\ phase = "done" =>
       /\ playMode = Mode!PackToMode(settings)
       /\ \/ modeQueue # <<>> /\ AllAre("fire") /\ LastMode = playMode
          \/ modeQueue = <<>> /\ Mode!UnpackFromMode(RiderWillHave) = settings
          \/ modeQueue # <<>> /\ AllAre("request") /\ RiderWillHave \in {LastMode, playMode}
  /\ \A n \in 1 .. Len(modeQueue) :
       \/ modeQueue[n].is = "fire" /\ modeQueue[n].mode \in 0 .. 127
       \/ modeQueue[n].is = "request" /\ modeQueue[n].mode \in RiderModes
  /\ \A n \in 1 .. Len(toRider) : toRider[n] \in 0 .. 127
  /\ rider \in RiderModes \cup (0 .. 127) \cup {-1}

ModeInv == ModeTypes /\ (Mode!Representable => ModeAgree)

\* What is assumed of the settings and modes.
LEMMA ModeNumbers ==
  /\ UserSettings \subseteq Mode!AllSettings /\ RiderModes \subseteq 0 .. 255
  /\ MaxUser \in Nat /\ MaxRider \in Nat
BY ProtocolAssumption DEF Mode!PlayModeAssumption

\* The settings that the user sets are small if they are representable.
LEMMA SmallSettings == ASSUME Mode!Representable PROVE UserSettings \subseteq Small
BY ModeNumbers DEF Mode!Representable, Mode!AllSettings, Small

\* The play modes and their numbers.
LEMMA PlayModeNumbers ==
  /\ \A mode \in Mode!PlayModes : Mode!PlayModeToInt(mode) \in 0 .. 6
  /\ \A mode \in Mode!PlayModes \ {"InTargetedMobilePreview"} :
       Mode!PlayModeFromInt(Mode!PlayModeToInt(mode)) = mode
  /\ \A p : Mode!PlayModeFromInt(p) \in Mode!PlayModes \ {"InTargetedMobilePreview"}
<1> DEFINE N == Mode!Numbered
<1>1. /\ DOMAIN N = 1 .. 6 /\ N[1] = "InMobilePreview" /\ N[2] = "InEditorFloating"
      /\ N[3] = "InVR" /\ N[4] = "InNewProcess" /\ N[5] = "Simulate" /\ N[6] = "InVulkanPreview"
  BY DEF Mode!Numbered
<1>2. Mode!PlayModes = {N[i] : i \in 1 .. 6} \cup {"InViewPort", "InTargetedMobilePreview"}
  BY <1>1 DEF Mode!PlayModes
<1>3. \A i, j \in 1 .. 6 : N[i] = N[j] => i = j
  <2>1. \A i \in 1 .. 6 : i = 1 \/ i = 2 \/ i = 3 \/ i = 4 \/ i = 5 \/ i = 6
    OBVIOUS
  <2> HIDE DEF N
  <2> QED BY <1>1, <2>1
<1>4. \A i \in 1 .. 6 : N[i] \notin {"InViewPort", "InTargetedMobilePreview"}
  <2>1. \A i \in 1 .. 6 : i = 1 \/ i = 2 \/ i = 3 \/ i = 4 \/ i = 5 \/ i = 6
    OBVIOUS
  <2> HIDE DEF N
  <2> QED BY <1>1, <2>1
<1> HIDE DEF N
<1>5. ASSUME NEW i \in 1 .. 6
      PROVE  Mode!PlayModeToInt(N[i]) = i /\ Mode!PlayModeFromInt(i) = N[i]
  <2>1. Mode!PlayModeToInt(N[i]) = CHOOSE j \in 1 .. 6 : N[j] = N[i]
    BY <1>1, <1>4 DEF Mode!PlayModeToInt, N
  <2>2. (CHOOSE j \in 1 .. 6 : N[j] = N[i]) = i
    BY <1>3
  <2> QED BY <2>1, <2>2, <1>1 DEF Mode!PlayModeFromInt, N
<1>6. /\ Mode!PlayModeToInt("InViewPort") = 0 /\ Mode!PlayModeToInt("InTargetedMobilePreview") = 1
      /\ Mode!PlayModeFromInt(0) = "InViewPort"
  BY <1>1 DEF Mode!PlayModeToInt, Mode!PlayModeFromInt, N
<1>7. \A p : Mode!PlayModeFromInt(p) \in {N[i] : i \in 1 .. 6} \cup {"InViewPort"}
  BY <1>1 DEF Mode!PlayModeFromInt, N
<1> QED BY <1>2, <1>4, <1>5, <1>6, <1>7

\* The bits of a number.
LEMMA Bits ==
  ASSUME NEW c \in 0 .. 3, NEW a \in 0 .. 1, NEW d \in 0 .. 1, NEW p \in 0 .. 6
  PROVE  LET m == c + 4 * a + 8 * d + 16 * p
         IN  /\ m \in 0 .. 127 /\ m % 4 = c /\ (m \div 4) % 2 = a /\ (m \div 8) % 2 = d
             /\ (m \div 16) % 8 = p
<1> DEFINE m == c + 4 * a + 8 * d + 16 * p
<1>1. m \in 0 .. 127
  OBVIOUS
<1>2. m % 4 = c
  OBVIOUS
<1>3. m \div 4 = a + 2 * d + 4 * p /\ (a + 2 * d + 4 * p) % 2 = a
  OBVIOUS
<1>4. m \div 8 = d + 2 * p /\ (d + 2 * p) % 2 = d
  OBVIOUS
<1>5. m \div 16 = p /\ p % 8 = p
  OBVIOUS
<1> QED BY <1>1, <1>2, <1>3, <1>4, <1>5

\* What is packed is unpacked again, and what is unpacked can be packed.
LEMMA PackUnpack ==
  /\ \A s \in Mode!AllSettings : Mode!PackToMode(s) \in Nat
  /\ \A s \in Small : /\ Mode!PackToMode(s) \in 0 .. 127
                      /\ Mode!UnpackFromMode(Mode!PackToMode(s)) = s
  /\ \A m \in Nat : Mode!UnpackFromMode(m) \in Small
  /\ Small \subseteq Mode!AllSettings
<1>1. ASSUME NEW s \in Mode!AllSettings PROVE Mode!PackToMode(s) \in Nat
  <2>1. s.clients - 1 \in Nat /\ Mode!PlayModeToInt(s.mode) \in Nat
    BY PlayModeNumbers DEF Mode!AllSettings
  <2> QED BY <2>1 DEF Mode!PackToMode
<1>2. ASSUME NEW s \in Small
      PROVE  /\ Mode!PackToMode(s) \in 0 .. 127
             /\ Mode!UnpackFromMode(Mode!PackToMode(s)) = s
  <2> DEFINE c == s.clients - 1
             a == IF s.atStart THEN 1 ELSE 0
             d == IF s.dedicated THEN 1 ELSE 0
             p == Mode!PlayModeToInt(s.mode)
             m == c + 4 * a + 8 * d + 16 * p
  <2>1. c \in 0 .. 3 /\ a \in 0 .. 1 /\ d \in 0 .. 1 /\ p \in 0 .. 6
    BY PlayModeNumbers DEF Small
  <2>2. Mode!PackToMode(s) = m
    BY <2>1 DEF Mode!PackToMode
  <2>3. /\ m \in 0 .. 127 /\ m % 4 = c /\ (m \div 4) % 2 = a /\ (m \div 8) % 2 = d
        /\ (m \div 16) % 8 = p
    <3> HIDE DEF c, a, d, p
    <3> QED BY <2>1, Bits
  <2>4. Mode!PlayModeFromInt(p) = s.mode
    BY PlayModeNumbers DEF Small
  <2>5. (a = 1) = s.atStart /\ (d = 1) = s.dedicated /\ c + 1 = s.clients
    BY DEF Small
  <2>6. Mode!UnpackFromMode(m) =
          [mode |-> s.mode, clients |-> s.clients, dedicated |-> s.dedicated, atStart |-> s.atStart]
    <3> HIDE DEF c, a, d, p, m
    <3> QED BY <2>3, <2>4, <2>5 DEF Mode!UnpackFromMode, Mode!Settings, Mode!Bit
  <2>7. s = [mode |-> s.mode, clients |-> s.clients, dedicated |-> s.dedicated, atStart |-> s.atStart]
    BY DEF Small
  <2> QED BY <2>2, <2>3, <2>6, <2>7
<1>3. ASSUME NEW m \in Nat PROVE Mode!UnpackFromMode(m) \in Small
  <2>1. (m % 4) + 1 \in 1 .. 4
    OBVIOUS
  <2> QED BY <2>1, PlayModeNumbers DEF Mode!UnpackFromMode, Mode!Settings, Mode!Bit, Small
<1>4. Small \subseteq Mode!AllSettings
  BY DEF Small, Mode!AllSettings
<1> QED BY <1>1, <1>2, <1>3, <1>4

\* What the steps use of the names of the play mode.
LEMMA ModeNames ==
  /\ Mode!NoMode = -1
  /\ \A m \in Nat : /\ Mode!Fire(m) \in ModeActions /\ Mode!Fire(m).is = "fire"
                    /\ Mode!Fire(m).mode = m
                    /\ Mode!Request(m) \in ModeActions /\ Mode!Request(m).is = "request"
                    /\ Mode!Request(m).mode = m
BY DEF Mode!NoMode, Mode!Fire, Mode!Request, ModeActions

\* Two small settings have two modes.
LEMMA PackApart ==
  ASSUME NEW s \in Small, NEW t \in Small, Mode!PackToMode(s) = Mode!PackToMode(t) PROVE s = t
BY PackUnpack

\* The control begins.
LEMMA ModeInit == ASSUME Mode!Init PROVE ModeInv
<1>1. Mode!AllModes \subseteq Nat
  <2>1. \A s \in UserSettings : Mode!PackToMode(s) \in Nat
    BY ModeNumbers, PackUnpack
  <2>2. RiderModes \subseteq Nat
    BY ModeNumbers
  <2> QED BY <2>1, <2>2 DEF Mode!AllModes
<1>2. ModeTypes
  BY <1>1, ModeNumbers, ModeNames DEF Mode!Init, ModeTypes
<1>3. Mode!Representable => ModeAgree
  <2> HAVE Mode!Representable
  <2>1. settings \in Small /\ modeQueue = <<>> /\ toRider = <<>> /\ Len(modeQueue) = 0 /\ Len(toRider) = 0
    BY SmallSettings DEF Mode!Init
  <2> QED BY <2>1, ModeNames DEF Mode!Init, ModeAgree
<1> QED BY <1>2, <1>3 DEF ModeInv

\* It retrieves the settings and keeps them.
LEMMA ModeRetrieve == ASSUME ModeInv, Mode!Retrieve PROVE ModeInv'
<1>1. /\ phase = "subscribed" /\ phase' = "retrieved" /\ retrieved' = settings
      /\ UNCHANGED <<settings, playMode, modeQueue, toRider, rider, changes>>
  BY DEF Mode!Retrieve
<1>2. ModeTypes'
  BY <1>1 DEF ModeInv, ModeTypes
<1>3. ModeAgree => ModeAgree'
  BY <1>1 DEF ModeAgree, AllAre, LastMode, RiderWillHave
<1> QED BY <1>2, <1>3 DEF ModeInv, Mode!Representable

\* It tells Rider.
LEMMA ModeStore == ASSUME ModeInv, Mode!Store PROVE ModeInv'
<1> DEFINE m == Mode!PackToMode(retrieved)
<1>1. /\ phase = "retrieved" /\ phase' = "done" /\ playMode' = m
      /\ toRider' = Append(toRider, m)
      /\ UNCHANGED <<settings, retrieved, modeQueue, rider, changes>>
  BY DEF Mode!Store
<1>2. retrieved \in Mode!AllSettings /\ m \in Nat
  BY PackUnpack DEF ModeInv, ModeTypes
<1>3. ModeTypes'
  BY <1>1, <1>2, QueueGrows DEF ModeInv, ModeTypes
<1>4. ModeAgree => ModeAgree'
  <2> HAVE ModeAgree
  <2>1. modeQueue = <<>> /\ Len(modeQueue) = 0 /\ toRider = <<>> /\ retrieved = settings /\ settings \in Small
    BY <1>1 DEF ModeAgree
  <2>2. m = Mode!PackToMode(settings) /\ m \in 0 .. 127 /\ Mode!UnpackFromMode(m) = settings
    BY <2>1, PackUnpack
  <2>3. toRider' = <<m>> /\ toRider' # <<>> /\ Len(toRider') = 1 /\ toRider'[1] = m
    BY <1>1, <1>2, <2>1
  <2>4. RiderWillHave' = m
    BY <2>3 DEF RiderWillHave
  <2> HIDE DEF m
  <2> QED BY <1>1, <2>1, <2>2, <2>3, <2>4 DEF ModeAgree
<1> QED BY <1>3, <1>4 DEF ModeInv, Mode!Representable

\* The user changes the settings.
LEMMA ModeChangeSettings ==
  ASSUME ModeInv, NEW s \in UserSettings, Mode!ChangeSettings(s) PROVE ModeInv'
<1> DEFINE m == Mode!PackToMode(s)
<1>1. /\ phase = "done" /\ ~Mode!UnderWay("request") /\ s # settings
      /\ changes.user < MaxUser /\ changes' = [changes EXCEPT !.user = @ + 1]
      /\ settings' = s /\ playMode' = m
      /\ modeQueue' = IF m # playMode THEN Append(modeQueue, Mode!Fire(m)) ELSE modeQueue
      /\ UNCHANGED <<phase, retrieved, toRider, rider>>
  BY DEF Mode!ChangeSettings
<1>2. s \in Mode!AllSettings /\ m \in Nat /\ Mode!Fire(m) \in ModeActions
      /\ Mode!Fire(m).is = "fire" /\ Mode!Fire(m).mode = m
  BY PackUnpack, ModeNumbers, ModeNames
<1>3. changes' \in [user : 0 .. MaxUser, rider : 0 .. MaxRider]
  <2>1. changes \in [user : 0 .. MaxUser, rider : 0 .. MaxRider]
    BY DEF ModeInv, ModeTypes
  <2>2. changes.user \in 0 .. MaxUser /\ changes.user + 1 \in 0 .. MaxUser
    BY <2>1, <1>1, ModeNumbers
  <2> QED BY <2>1, <2>2, <1>1
<1>4. modeQueue \in Seq(ModeActions) /\ ModeTypes'
  BY <1>1, <1>2, <1>3, QueueGrows DEF ModeInv, ModeTypes
<1>5. Mode!Representable => ModeAgree'
  <2> HAVE Mode!Representable
  <2>1. ModeAgree
    BY DEF ModeInv
  <2>2. s \in Small /\ m \in 0 .. 127 /\ settings \in Small /\ playMode = Mode!PackToMode(settings)
    BY <1>1, <2>1, SmallSettings, PackUnpack DEF ModeAgree
  <2>3. m # playMode
    BY <1>1, <2>2, PackApart
  <2> DEFINE x == Mode!Fire(m)
  <2>4. modeQueue' = Append(modeQueue, x) /\ x \in ModeActions /\ x.is = "fire" /\ x.mode = m
    BY <1>1, <1>2, <2>3
  <2>5. AllAre("fire")
    <3>1. \A n \in 1 .. Len(modeQueue) : modeQueue[n].is # "request"
      BY <1>1, <1>4, LenProperties DEF Mode!UnderWay
    <3> QED BY <3>1, <2>1 DEF ModeAgree, AllAre
  <2> HIDE DEF m, x
  <2>6. /\ Len(modeQueue) \in Nat /\ Len(modeQueue') = Len(modeQueue) + 1 /\ modeQueue' # <<>>
        /\ modeQueue'[Len(modeQueue) + 1] = x
        /\ \A n \in 1 .. Len(modeQueue) : modeQueue'[n] = modeQueue[n]
        /\ \A n \in 1 .. Len(modeQueue) + 1 : n \in 1 .. Len(modeQueue) \/ n = Len(modeQueue) + 1
    BY <1>4, <2>4, QueueGrows
  <2>7. AllAre("fire")' /\ LastMode' = m
    BY <2>4, <2>5, <2>6 DEF AllAre, LastMode
  <2>8. \A n \in 1 .. Len(modeQueue') :
          \/ modeQueue'[n].is = "fire" /\ modeQueue'[n].mode \in 0 .. 127
          \/ modeQueue'[n].is = "request" /\ modeQueue'[n].mode \in RiderModes
    <3> TAKE n \in 1 .. Len(modeQueue')
    <3>1. CASE n \in 1 .. Len(modeQueue)
      <4>1. modeQueue'[n] = modeQueue[n]
        BY <2>6, <3>1
      <4> QED BY <2>1, <3>1, <4>1 DEF ModeAgree
    <3>2. CASE n = Len(modeQueue) + 1
      BY <2>2, <2>4, <2>6, <3>2
    <3> QED BY <2>6, <3>1, <3>2
  <2>9. playMode' = Mode!PackToMode(settings') /\ playMode' = m
    BY <1>1 DEF m
  <2> QED BY <1>1, <2>1, <2>2, <2>6, <2>7, <2>8, <2>9 DEF ModeAgree
<1> QED BY <1>4, <1>5 DEF ModeInv, Mode!Representable

\* Rider's user changes its mode.
LEMMA ModeChangeMode ==
  ASSUME ModeInv, NEW m \in RiderModes, Mode!ChangeMode(m) PROVE ModeInv'
<1> DEFINE x == Mode!Request(m)
<1>1. /\ phase = "done" /\ ~Mode!UnderWay("fire") /\ toRider = <<>>
      /\ changes.rider < MaxRider /\ changes' = [changes EXCEPT !.rider = @ + 1]
      /\ rider' = m /\ modeQueue' = Append(modeQueue, x)
      /\ UNCHANGED <<settings, playMode, phase, retrieved, toRider>>
  BY DEF Mode!ChangeMode
<1>2. m \in Nat /\ x \in ModeActions /\ x.is = "request" /\ x.mode = m
  BY ModeNumbers, ModeNames
<1>3. changes' \in [user : 0 .. MaxUser, rider : 0 .. MaxRider]
  <2>1. changes \in [user : 0 .. MaxUser, rider : 0 .. MaxRider]
    BY DEF ModeInv, ModeTypes
  <2>2. changes.rider \in 0 .. MaxRider /\ changes.rider + 1 \in 0 .. MaxRider
    BY <2>1, <1>1, ModeNumbers
  <2> QED BY <2>1, <2>2, <1>1
<1> HIDE DEF x
<1>4. modeQueue \in Seq(ModeActions) /\ ModeTypes'
  BY <1>1, <1>2, <1>3, QueueGrows DEF ModeInv, ModeTypes
<1>5. ModeAgree => ModeAgree'
  <2> HAVE ModeAgree
  <2>1. AllAre("request")
    <3>1. \A n \in 1 .. Len(modeQueue) : modeQueue[n].is # "fire"
      BY <1>1, <1>4, LenProperties DEF Mode!UnderWay
    <3> QED BY <3>1 DEF ModeAgree, AllAre
  <2>2. /\ Len(modeQueue) \in Nat /\ Len(modeQueue') = Len(modeQueue) + 1 /\ modeQueue' # <<>>
        /\ modeQueue'[Len(modeQueue) + 1] = x
        /\ \A n \in 1 .. Len(modeQueue) : modeQueue'[n] = modeQueue[n]
        /\ \A n \in 1 .. Len(modeQueue) + 1 : n \in 1 .. Len(modeQueue) \/ n = Len(modeQueue) + 1
    BY <1>1, <1>2, <1>4, QueueGrows
  <2>3. AllAre("request")' /\ LastMode' = m /\ RiderWillHave' = m
    BY <1>1, <1>2, <2>1, <2>2 DEF AllAre, LastMode, RiderWillHave
  <2>4. \A n \in 1 .. Len(modeQueue') :
          \/ modeQueue'[n].is = "fire" /\ modeQueue'[n].mode \in 0 .. 127
          \/ modeQueue'[n].is = "request" /\ modeQueue'[n].mode \in RiderModes
    <3> TAKE n \in 1 .. Len(modeQueue')
    <3>1. CASE n \in 1 .. Len(modeQueue)
      <4>1. modeQueue'[n] = modeQueue[n]
        BY <2>2, <3>1
      <4> QED BY <3>1, <4>1 DEF ModeAgree
    <3>2. CASE n = Len(modeQueue) + 1
      BY <1>2, <2>2, <3>2
    <3> QED BY <2>2, <3>1, <3>2
  <2> QED BY <1>1, <2>2, <2>3, <2>4 DEF ModeAgree
<1> QED BY <1>4, <1>5 DEF ModeInv, Mode!Representable

\* The scheduler sends a mode that was queued.
LEMMA ModeRunFire == ASSUME ModeInv, Mode!RunFire PROVE ModeInv'
<1>1. /\ phase = "done" /\ modeQueue # <<>> /\ Head(modeQueue).is = "fire"
      /\ modeQueue' = Tail(modeQueue) /\ toRider' = Append(toRider, Head(modeQueue).mode)
      /\ UNCHANGED <<settings, playMode, phase, retrieved, rider, changes>>
  BY DEF Mode!RunFire
<1>2. /\ modeQueue' \in Seq(ModeActions) /\ Len(modeQueue) \in Nat /\ Len(modeQueue) > 0
      /\ Len(modeQueue') = Len(modeQueue) - 1 /\ Head(modeQueue) = modeQueue[1]
      /\ modeQueue[1].mode \in Nat
      /\ \A n \in 1 .. Len(modeQueue) - 1 : modeQueue'[n] = modeQueue[n + 1]
      /\ modeQueue' = <<>> => Len(modeQueue) = 1
      /\ modeQueue' # <<>> => modeQueue'[Len(modeQueue')] = modeQueue[Len(modeQueue)]
  <2>1. modeQueue \in Seq(ModeActions)
    BY DEF ModeInv, ModeTypes
  <2>2. \A x \in ModeActions : x.mode \in Nat
    BY DEF ModeActions
  <2> QED BY <1>1, <2>1, <2>2, QueueShrinks
<1> DEFINE m == modeQueue[1].mode
<1>3. /\ toRider' \in Seq(Nat) /\ Len(toRider) \in Nat /\ toRider' # <<>>
      /\ Len(toRider') = Len(toRider) + 1 /\ toRider'[Len(toRider) + 1] = m
      /\ \A n \in 1 .. Len(toRider) : toRider'[n] = toRider[n]
      /\ \A n \in 1 .. Len(toRider) + 1 : n \in 1 .. Len(toRider) \/ n = Len(toRider) + 1
  <2>1. toRider \in Seq(Nat) /\ toRider' = Append(toRider, m) /\ m \in Nat
    BY <1>1, <1>2 DEF ModeInv, ModeTypes
  <2> HIDE DEF m
  <2> QED BY <2>1, QueueGrows
<1>4. ModeTypes'
  BY <1>1, <1>2, <1>3 DEF ModeInv, ModeTypes
<1>5. ModeAgree => ModeAgree'
  <2> HAVE ModeAgree
  <2>1. modeQueue[1].is = "fire" /\ m \in 0 .. 127 /\ 1 \in 1 .. Len(modeQueue)
    BY <1>1, <1>2 DEF ModeAgree
  <2>2. AllAre("fire") /\ LastMode = playMode
    BY <1>1, <2>1 DEF ModeAgree, AllAre
  <2>3. AllAre("fire")' /\ (modeQueue' # <<>> => LastMode' = playMode)
    BY <1>2, <2>2 DEF AllAre, LastMode
  <2>4. RiderWillHave' = m
    BY <1>3 DEF RiderWillHave
  <2>5. modeQueue' = <<>> => Mode!UnpackFromMode(RiderWillHave') = settings
    <3> HAVE modeQueue' = <<>>
    <3>1. m = playMode /\ settings \in Small /\ playMode = Mode!PackToMode(settings)
      BY <1>1, <1>2, <2>2 DEF LastMode, ModeAgree
    <3> QED BY <3>1, <2>4, PackUnpack
  <2>6. \A n \in 1 .. Len(modeQueue') :
          \/ modeQueue'[n].is = "fire" /\ modeQueue'[n].mode \in 0 .. 127
          \/ modeQueue'[n].is = "request" /\ modeQueue'[n].mode \in RiderModes
    <3> TAKE n \in 1 .. Len(modeQueue')
    <3>1. n + 1 \in 1 .. Len(modeQueue) /\ modeQueue'[n] = modeQueue[n + 1]
      BY <1>2
    <3> QED BY <3>1 DEF ModeAgree
  <2>7. \A n \in 1 .. Len(toRider') : toRider'[n] \in 0 .. 127
    BY <1>3, <2>1 DEF ModeAgree
  <2> HIDE DEF m
  <2>8. Mode!UnpackFromMode(RiderWillHave)' = Mode!UnpackFromMode(RiderWillHave')
    OBVIOUS
  <2> QED BY <1>1, <2>3, <2>5, <2>6, <2>7, <2>8 DEF ModeAgree
<1> QED BY <1>4, <1>5 DEF ModeInv, Mode!Representable

\* The scheduler does what Rider has requested.
LEMMA ModeRunRequest == ASSUME ModeInv, Mode!RunRequest PROVE ModeInv'
<1> DEFINE m == modeQueue[1].mode
           s == Mode!UnpackFromMode(m)
           k == Mode!PackToMode(s)
<1>1. /\ modeQueue \in Seq(ModeActions) /\ modeQueue # <<>> /\ toRider \in Seq(Nat)
      /\ Head(modeQueue) = modeQueue[1]
  BY QueueShrinks DEF Mode!RunRequest, ModeInv, ModeTypes
<1>2. /\ modeQueue' \in Seq(ModeActions) /\ Len(modeQueue) \in Nat /\ Len(modeQueue) > 0
      /\ Len(modeQueue') = Len(modeQueue) - 1 /\ m \in Nat
      /\ \A n \in 1 .. Len(modeQueue) - 1 : modeQueue'[n] = modeQueue[n + 1]
      /\ modeQueue' = <<>> => Len(modeQueue) = 1
      /\ modeQueue' # <<>> => modeQueue'[Len(modeQueue')] = modeQueue[Len(modeQueue)]
  <2>1. \A x \in ModeActions : x.mode \in Nat
    BY DEF ModeActions
  <2>2. modeQueue' = Tail(modeQueue)
    BY DEF Mode!RunRequest
  <2> QED BY <1>1, <2>1, <2>2, QueueShrinks
<1>3. /\ phase = "done" /\ modeQueue[1].is = "request" /\ settings' = s /\ playMode' = k
      /\ toRider' = IF k # playMode THEN Append(toRider, k) ELSE toRider
      /\ UNCHANGED <<phase, retrieved, rider, changes>>
  BY <1>1 DEF Mode!RunRequest
<1>4. s \in Small /\ s \in Mode!AllSettings /\ k \in 0 .. 127 /\ Mode!UnpackFromMode(k) = s
  BY <1>2, PackUnpack
<1> HIDE DEF m, s, k
<1>5. /\ toRider' \in Seq(Nat) /\ Len(toRider) \in Nat
      /\ \/ /\ k # playMode /\ toRider' # <<>> /\ Len(toRider') = Len(toRider) + 1
            /\ toRider'[Len(toRider) + 1] = k
            /\ \A n \in 1 .. Len(toRider) : toRider'[n] = toRider[n]
            /\ \A n \in 1 .. Len(toRider) + 1 : n \in 1 .. Len(toRider) \/ n = Len(toRider) + 1
         \/ k = playMode /\ toRider' = toRider
  BY <1>1, <1>3, <1>4, QueueGrows, LenProperties
<1>6. ModeTypes'
  BY <1>2, <1>3, <1>4, <1>5 DEF ModeInv, ModeTypes
<1>7. ModeAgree => ModeAgree'
  <2> HAVE ModeAgree
  <2>1. AllAre("request") /\ RiderWillHave \in {LastMode, playMode} /\ 1 \in 1 .. Len(modeQueue)
    BY <1>1, <1>2, <1>3 DEF ModeAgree, AllAre
  <2>2. RiderWillHave' = k \/ (k = playMode /\ RiderWillHave' = RiderWillHave)
    BY <1>3, <1>5 DEF RiderWillHave
  <2>3. AllAre("request")' /\ (modeQueue' # <<>> => LastMode' = LastMode)
    BY <1>2, <2>1 DEF AllAre, LastMode
  <2>4. modeQueue' # <<>> => RiderWillHave' \in {LastMode', playMode'}
    BY <1>3, <2>1, <2>2, <2>3
  <2>5. modeQueue' = <<>> => Mode!UnpackFromMode(RiderWillHave') = s
    <3> HAVE modeQueue' = <<>>
    <3>1. LastMode = m
      BY <1>2 DEF LastMode, m
    <3> QED BY <3>1, <2>1, <2>2, <1>4 DEF s
  <2>6. \A n \in 1 .. Len(modeQueue') :
          \/ modeQueue'[n].is = "fire" /\ modeQueue'[n].mode \in 0 .. 127
          \/ modeQueue'[n].is = "request" /\ modeQueue'[n].mode \in RiderModes
    <3> TAKE n \in 1 .. Len(modeQueue')
    <3>1. n + 1 \in 1 .. Len(modeQueue) /\ modeQueue'[n] = modeQueue[n + 1]
      BY <1>2
    <3> QED BY <3>1 DEF ModeAgree
  <2>7. \A n \in 1 .. Len(toRider') : toRider'[n] \in 0 .. 127
    BY <1>4, <1>5 DEF ModeAgree
  <2>8. /\ Mode!UnpackFromMode(RiderWillHave)' = Mode!UnpackFromMode(RiderWillHave')
        /\ Mode!PackToMode(settings)' = k
    BY <1>3 DEF k
  <2> QED BY <1>3, <1>4, <2>3, <2>4, <2>5, <2>6, <2>7, <2>8 DEF ModeAgree
<1> QED BY <1>6, <1>7 DEF ModeInv, Mode!Representable

\* Rider takes the mode it is sent.
LEMMA ModeRiderReceives == ASSUME ModeInv, Mode!RiderReceives PROVE ModeInv'
<1>1. /\ toRider # <<>> /\ rider' = Head(toRider) /\ toRider' = Tail(toRider)
      /\ UNCHANGED <<settings, playMode, phase, retrieved, modeQueue, changes>>
  BY DEF Mode!RiderReceives
<1>2. /\ toRider' \in Seq(Nat) /\ Len(toRider) \in Nat /\ Len(toRider) > 0
      /\ Len(toRider') = Len(toRider) - 1 /\ Head(toRider) = toRider[1] /\ toRider[1] \in Nat
      /\ \A n \in 1 .. Len(toRider) - 1 : toRider'[n] = toRider[n + 1]
      /\ toRider' = <<>> => Len(toRider) = 1
      /\ toRider' # <<>> => toRider'[Len(toRider')] = toRider[Len(toRider)]
  BY <1>1, QueueShrinks DEF ModeInv, ModeTypes
<1>3. ModeTypes'
  BY <1>1, <1>2 DEF ModeInv, ModeTypes
<1>4. RiderWillHave' = RiderWillHave
  BY <1>1, <1>2 DEF RiderWillHave
<1>5. ModeAgree => ModeAgree'
  <2> HAVE ModeAgree
  <2>1. rider' \in RiderModes \cup (0 .. 127) \cup {-1}
    BY <1>1, <1>2 DEF ModeAgree
  <2>2. \A n \in 1 .. Len(toRider') : toRider'[n] \in 0 .. 127
    <3> TAKE n \in 1 .. Len(toRider')
    <3>1. n + 1 \in 1 .. Len(toRider) /\ toRider'[n] = toRider[n + 1]
      BY <1>2
    <3> QED BY <3>1 DEF ModeAgree
  <2>3. AllAre("fire")' = AllAre("fire") /\ AllAre("request")' = AllAre("request") /\ LastMode' = LastMode
    BY <1>1 DEF AllAre, LastMode
  <2> QED BY <1>1, <1>4, <2>1, <2>2, <2>3 DEF ModeAgree
<1> QED BY <1>3, <1>5 DEF ModeInv, Mode!Representable

\* Every step of the play mode keeps its invariant.
LEMMA ModeStep == ASSUME ModeInv, [PartNext]_partVars PROVE ModeInv'
<1>1. CASE UNCHANGED modeRest
  BY <1>1 DEF modeRest, ModeInv, ModeTypes, ModeAgree, AllAre, LastMode, RiderWillHave, Mode!Representable
<1>2. CASE Mode!Next
  BY <1>2, ModeRetrieve, ModeStore, ModeChangeSettings, ModeChangeMode, ModeRunFire, ModeRunRequest,
     ModeRiderReceives DEF Mode!Next
<1>3. Mode!Next \/ UNCHANGED modeRest
  BY DEF PartNext, partVars, Only
<1> QED BY <1>1, <1>2, <1>3

\* What the invariant of the play mode means.
LEMMA ModeMeans == ASSUME ModeInv
                   PROVE Mode!TypeOK /\ (Mode!Representable => Mode!ModeMeansSettings)
<1>1. modeQueue \in Seq(ModeActions) /\ toRider \in Seq(Nat)
  BY DEF ModeInv, ModeTypes
<1>2. DOMAIN modeQueue = 1 .. Len(modeQueue) /\ DOMAIN toRider = 1 .. Len(toRider)
  BY <1>1, LenProperties
<1>3. Mode!TypeOK
  BY <1>2, ModeNames DEF ModeInv, ModeTypes, ModeAgree, Mode!TypeOK
<1>4. Mode!Representable => Mode!ModeMeansSettings
  BY DEF ModeInv, ModeAgree, Mode!ModeMeansSettings, Mode!Quiet, RiderWillHave
<1> QED BY <1>3, <1>4

(***************************************************************************)
(* The buffers.                                                            *)
(***************************************************************************)
\* Where the threads of a buffer may be.
SenderAt == {"none", "top", "waiting", "woken", "taken", "processing", "ended"}
CallerAt == {"paused", "resuming", "resending", "resumed", "pausing"}

\* The types, and that a resume finds no package it would have to let go before the first.
Counts(b) == b.current_seqn <= b.acknowledged_seqn + 1
BufferInv == Buffer!TypeOK /\ \A e \in Clients : Counts(buffer[e])

\* What there is beside the members of the buffers.
BesideTypes ==
  /\ puts \in [Clients -> Nat] /\ \A e \in Clients : puts[e] <= MaxPuts[e]
  /\ sender \in [Clients -> SenderAt] /\ caller \in [Clients -> CallerAt]
  /\ resent \in [Clients -> Nat] /\ closer \in [Clients -> {"idle", "waiting"}]

\* What there is of one buffer.
LEMMA BufferAt ==
  ASSUME BufferInv, NEW e \in Clients
  PROVE  /\ buffer[e] \in Buffer!Buffer /\ Counts(buffer[e]) /\ BesideTypes
         /\ buffer[e].interrupt_balance = 0 <=> caller[e] = "resumed"
         /\ buffer = [buffer EXCEPT ![e] = buffer[e]]
BY DEF BufferInv, Buffer!TypeOK, BesideTypes, SenderAt, CallerAt

\* What a buffer's members may hold.
LEMMA BufferMembers ==
  ASSUME NEW b \in Buffer!Buffer
  PROVE  /\ b.data \in Seq(Nat) /\ b.queue \in Seq(Nat) /\ b.pending_queue \in Seq(Nat)
         /\ b.max_sent_seqn \in Nat /\ b.current_seqn \in Nat \ {0} /\ b.acknowledged_seqn \in Nat
         /\ b.interrupt_balance \in {0, 1}
BY DEF Buffer!Buffer

\* A notification wakes one thread or none.
LEMMA NotifiedSender ==
  ASSUME BesideTypes, NEW e \in Clients
  PROVE  Buffer!Notified(e) \in [Clients -> SenderAt]
BY DEF BesideTypes, Buffer!Notified, SenderAt

\* A step of one buffer.
LEMMA OneBufferMoves ==
  ASSUME BufferInv, NEW e \in Clients, NEW c \in Buffer!Buffer, Counts(c), BesideTypes',
         c.interrupt_balance = 0 <=> caller'[e] = "resumed",
         \A f \in Clients : f # e => caller'[f] = caller[f],
         buffer' = [buffer EXCEPT ![e] = c]
  PROVE  BufferInv'
<1>1. Buffer!TypeOK /\ \A f \in Clients : Counts(buffer[f])
  BY DEF BufferInv
<1>2. buffer' \in [Clients -> Buffer!Buffer]
  BY <1>1 DEF Buffer!TypeOK
<1>3. ASSUME NEW f \in Clients
      PROVE  /\ Counts(buffer'[f])
             /\ buffer'[f].interrupt_balance = 0 <=> caller'[f] = "resumed"
  <2>1. CASE f = e
    <3>1. buffer'[f] = c
      BY <1>1, <2>1 DEF Buffer!TypeOK
    <3> QED BY <2>1, <3>1
  <2>2. CASE f # e
    <3>1. buffer'[f] = buffer[f] /\ caller'[f] = caller[f]
      BY <1>1, <2>2 DEF Buffer!TypeOK
    <3> QED BY <1>1, <3>1 DEF Buffer!TypeOK
  <2> QED BY <2>1, <2>2
<1>4. Buffer!TypeOK'
  BY <1>2, <1>3 DEF Buffer!TypeOK, BesideTypes, SenderAt, CallerAt
<1>5. ASSUME NEW f \in Clients PROVE Counts(buffer[f])'
  BY <1>3 DEF Counts
<1> QED BY <1>4, <1>5 DEF BufferInv

\* Every buffer begins paused and empty.
LEMMA BufferInit == ASSUME Buffer!Init PROVE BufferInv
<1>1. PICK b : b = Buffer!PausedBuffer
  OBVIOUS
<1>2. <<>> \in Seq(Nat)
  BY EmptySeq
<1>3. b \in Buffer!Buffer /\ Counts(b) /\ b.interrupt_balance = 1
  BY <1>1, <1>2 DEF Buffer!PausedBuffer, Buffer!Buffer, Buffer!StateKind, Counts
<1>4. buffer = [e \in Clients |-> b]
  BY <1>1 DEF Buffer!Init
<1>5. \A e \in Clients : MaxPuts[e] \in Nat
  BY ProtocolAssumption DEF Buffer!PutsAssumption
<1>6. ASSUME NEW e \in Clients
      PROVE  /\ puts[e] <= MaxPuts[e] /\ Counts(buffer[e])
             /\ buffer[e].interrupt_balance = 0 <=> caller[e] = "resumed"
  <2>1. buffer[e] = b /\ puts[e] = 0 /\ caller[e] = "paused" /\ MaxPuts[e] \in Nat
    BY <1>4, <1>5 DEF Buffer!Init
  <2> QED BY <1>3, <2>1
<1>7. buffer \in [Clients -> Buffer!Buffer]
  BY <1>3, <1>4
<1>8. Buffer!TypeOK
  BY <1>6, <1>7 DEF Buffer!Init, Buffer!TypeOK
<1> QED BY <1>6, <1>8 DEF BufferInv

\* start, and stop or terminate with what follows when the thread has ended.
LEMMA BufferStateKeeps ==
  ASSUME BufferInv, NEW e \in Clients,
         Buffer!Start(e) \/ Buffer!Cleanup0(e) \/ \E how \in {"Stopping", "Terminating"} : Buffer!Terminate0(e, how)
  PROVE  BufferInv'
<1>1. PICK b \in Buffer!Buffer : b = buffer[e]
  BY BufferAt
<1>2. PICK to \in Buffer!StateKind :
         buffer' = [buffer EXCEPT ![e] = [b EXCEPT !.state = to]] /\ UNCHANGED caller
  BY <1>1 DEF Buffer!Start, Buffer!Cleanup0, Buffer!Terminate0, Buffer!StateKind
<1>3. PICK c : c = [b EXCEPT !.state = to]
  OBVIOUS
<1>4. /\ c \in Buffer!Buffer /\ c.interrupt_balance = b.interrupt_balance
      /\ c.current_seqn = b.current_seqn /\ c.acknowledged_seqn = b.acknowledged_seqn
  BY <1>3 DEF Buffer!Buffer
<1>5. BesideTypes'
  <2>1. /\ sender' = Buffer!Notified(e) \/ sender' = [sender EXCEPT ![e] = "top"]
        /\ UNCHANGED <<puts, caller, resent>>
        /\ UNCHANGED closer \/ closer' = [closer EXCEPT ![e] = "waiting"]
             \/ closer' = [closer EXCEPT ![e] = "idle"]
    BY DEF Buffer!Start, Buffer!Cleanup0, Buffer!Terminate0
  <2>2. BesideTypes
    BY BufferAt
  <2>3. sender' \in [Clients -> SenderAt]
    <3>1. [sender EXCEPT ![e] = "top"] \in [Clients -> SenderAt]
      BY <2>2 DEF BesideTypes, SenderAt
    <3> QED BY <2>1, <2>2, <3>1, NotifiedSender
  <2> QED BY <2>1, <2>2, <2>3 DEF BesideTypes
<1>6. Counts(c) /\ (c.interrupt_balance = 0 <=> caller'[e] = "resumed")
  BY <1>1, <1>2, <1>4, BufferAt DEF Counts
<1> QED BY <1>2, <1>3, <1>4, <1>5, <1>6, OneBufferMoves

\* A package is put.
LEMMA BufferPutKeeps == ASSUME BufferInv, NEW e \in Clients, Buffer!Put(e) PROVE BufferInv'
<1>1. PICK b \in Buffer!Buffer : b = buffer[e]
  BY BufferAt
<1>2. BesideTypes /\ puts[e] + 1 \in Nat
  BY BufferAt DEF BesideTypes
<1>3. PICK d \in Seq(Nat) : d = Append(b.data, puts[e] + 1)
  BY <1>2, BufferMembers, AppendProperties
<1>4. PICK c : c = [b EXCEPT !.data = d]
  OBVIOUS
<1>5. /\ c \in Buffer!Buffer /\ c.interrupt_balance = b.interrupt_balance
      /\ c.current_seqn = b.current_seqn /\ c.acknowledged_seqn = b.acknowledged_seqn
  BY <1>4 DEF Buffer!Buffer
<1>6. /\ buffer' = [buffer EXCEPT ![e] = c] /\ puts' = [puts EXCEPT ![e] = @ + 1]
      /\ puts[e] < MaxPuts[e] /\ UNCHANGED <<caller, resent, closer>>
      /\ sender' = Buffer!Notified(e)
  BY <1>1, <1>3, <1>4 DEF Buffer!Put
<1>7. MaxPuts[e] \in Nat
  BY ProtocolAssumption DEF Buffer!PutsAssumption
<1>8. BesideTypes'
  <2>1. sender' \in [Clients -> SenderAt]
    BY <1>2, <1>6, NotifiedSender
  <2>2. /\ caller' \in [Clients -> CallerAt] /\ resent' \in [Clients -> Nat]
        /\ closer' \in [Clients -> {"idle", "waiting"}]
    BY <1>2, <1>6 DEF BesideTypes
  <2>3. puts \in [Clients -> Nat] /\ \A f \in Clients : puts[f] <= MaxPuts[f]
    BY <1>2 DEF BesideTypes
  <2>4. puts[e] + 1 <= MaxPuts[e]
    BY <1>6, <1>7, <2>3
  <2>5. puts' \in [Clients -> Nat] /\ \A f \in Clients : puts'[f] <= MaxPuts[f]
    BY <1>2, <1>6, <2>3, <2>4
  <2> QED BY <2>1, <2>2, <2>5 DEF BesideTypes
<1>9. Counts(c) /\ (c.interrupt_balance = 0 <=> caller'[e] = "resumed")
  BY <1>1, <1>5, <1>6, BufferAt DEF Counts
<1> QED BY <1>5, <1>6, <1>8, <1>9, OneBufferMoves

\* The sender thread, with a processor that may fail and a wait that may end by itself.
LEMMA BufferThreadKeeps ==
  ASSUME BufferInv, NEW e \in Clients,
         Buffer!ThreadProc(e) \/ Buffer!WakeUp(e) \/ \E ok \in BOOLEAN : Buffer!Process(e, ok)
  PROVE  BufferInv'
<1>1. PICK b \in Buffer!Buffer : b = buffer[e]
  BY BufferAt
<1>2. /\ b.data \in Seq(Nat) /\ b.queue \in Seq(Nat) /\ b.pending_queue \in Seq(Nat)
      /\ b.max_sent_seqn \in Nat
  BY BufferMembers
<1>3. BesideTypes' /\ UNCHANGED caller
  <2>1. /\ UNCHANGED <<puts, caller, resent, closer>>
        /\ \/ UNCHANGED sender \/ sender' = Buffer!Notified(e)
           \/ \E at \in SenderAt : sender' = [sender EXCEPT ![e] = at]
    BY DEF Buffer!WakeUp, Buffer!ThreadProc, Buffer!ReturnFromThread, Buffer!Wait, Buffer!TakeData,
       Buffer!BeginProcess, Buffer!EndProcess, Buffer!Process, SenderAt
  <2>2. BesideTypes
    BY BufferAt
  <2>3. sender' \in [Clients -> SenderAt]
    BY <2>1, <2>2, NotifiedSender DEF BesideTypes
  <2> QED BY <2>1, <2>2, <2>3 DEF BesideTypes
<1>4. PICK c \in Buffer!Buffer :
         /\ c.current_seqn = b.current_seqn /\ c.acknowledged_seqn = b.acknowledged_seqn
         /\ c.interrupt_balance = b.interrupt_balance
         /\ buffer' = [buffer EXCEPT ![e] = c]
  <2>1. CASE UNCHANGED buffer
    BY <1>1, <2>1, BufferAt
  <2>2. CASE Buffer!TakeData(e)
    <3>1. PICK q \in Seq(Nat), d \in Seq(Nat) : q = b.queue \o b.data /\ d = <<>>
      BY <1>2, ConcatProperties, EmptySeq
    <3>2. PICK c : c = [b EXCEPT !.queue = q, !.data = d]
      OBVIOUS
    <3>3. /\ c \in Buffer!Buffer /\ c.current_seqn = b.current_seqn
          /\ c.acknowledged_seqn = b.acknowledged_seqn /\ c.interrupt_balance = b.interrupt_balance
      BY <3>2 DEF Buffer!Buffer
    <3>4. buffer' = [buffer EXCEPT ![e] = c]
      BY <1>1, <2>2, <3>1, <3>2 DEF Buffer!TakeData
    <3> QED BY <3>3, <3>4
  <2>3. CASE Buffer!Process(e, TRUE)
    <3>1. b.queue # <<>>
      BY <1>1, <2>3 DEF Buffer!Process
    <3>2. PICK p \in Seq(Nat), q \in Seq(Nat), n \in Nat :
            p = Append(b.pending_queue, Head(b.queue)) /\ q = Tail(b.queue) /\ n = b.max_sent_seqn + 1
      <4>1. Tail(b.queue) \in Seq(Nat) /\ Head(b.queue) \in Nat /\ b.max_sent_seqn + 1 \in Nat
        BY <1>2, <3>1, QueueShrinks
      <4>2. Append(b.pending_queue, Head(b.queue)) \in Seq(Nat)
        BY <1>2, <4>1, AppendProperties
      <4> QED BY <4>1, <4>2
    <3>3. PICK c : c = [b EXCEPT !.max_sent_seqn = n, !.pending_queue = p, !.queue = q]
      OBVIOUS
    <3>4. /\ c \in Buffer!Buffer /\ c.current_seqn = b.current_seqn
          /\ c.acknowledged_seqn = b.acknowledged_seqn /\ c.interrupt_balance = b.interrupt_balance
      BY <3>3 DEF Buffer!Buffer
    <3>5. buffer' = [buffer EXCEPT ![e] = c]
      BY <1>1, <2>3, <3>2, <3>3 DEF Buffer!Process
    <3> QED BY <3>4, <3>5
  <2> QED BY <2>1, <2>2, <2>3 DEF Buffer!WakeUp, Buffer!ThreadProc, Buffer!ReturnFromThread, Buffer!Wait,
             Buffer!BeginProcess, Buffer!EndProcess, Buffer!Process
<1>5. Counts(c) /\ (c.interrupt_balance = 0 <=> caller'[e] = "resumed")
  BY <1>1, <1>3, <1>4, BufferAt DEF Counts
<1> QED BY <1>3, <1>4, <1>5, OneBufferMoves

\* pause, and resume with all it processes again: it pauses once and resumes once.
LEMMA BufferPauseKeeps ==
  ASSUME BufferInv, NEW e \in Clients,
         \/ Buffer!BeginPause(e) \/ Buffer!EndPause(e) \/ Buffer!BeginResume(e)
         \/ Buffer!EndResume(e) \/ \E ok \in BOOLEAN : Buffer!Reprocess(e, ok)
  PROVE  BufferInv'
<1>1. PICK b \in Buffer!Buffer : b = buffer[e]
  BY BufferAt
<1>2. BesideTypes
  BY BufferAt
<1>3. BesideTypes'
  <2>1. /\ UNCHANGED <<puts, closer>>
        /\ UNCHANGED sender \/ sender' = Buffer!Notified(e)
        /\ UNCHANGED caller \/ \E at \in CallerAt : caller' = [caller EXCEPT ![e] = at]
        /\ UNCHANGED resent \/ resent' = [resent EXCEPT ![e] = @ + 1]
    BY DEF Buffer!BeginPause, Buffer!EndPause, Buffer!BeginResume, Buffer!EndResume,
       Buffer!Reprocess, CallerAt
  <2>2. caller' \in [Clients -> CallerAt]
    BY <1>2, <2>1 DEF BesideTypes
  <2>3. resent' \in [Clients -> Nat]
    BY <1>2, <2>1 DEF BesideTypes
  <2>4. sender' \in [Clients -> SenderAt]
    BY <1>2, <2>1, NotifiedSender DEF BesideTypes
  <2> QED BY <1>2, <2>1, <2>2, <2>3, <2>4 DEF BesideTypes
<1>4. \A f \in Clients : f # e => caller'[f] = caller[f]
  BY <1>2 DEF Buffer!BeginPause, Buffer!EndPause, Buffer!BeginResume, Buffer!EndResume,
     Buffer!Reprocess, BesideTypes
<1>5. CASE UNCHANGED <<buffer, caller>>
  BY <1>3, <1>5, BufferAt, OneBufferMoves
<1>6. ASSUME NEW k \in {0, 1}, buffer' = [buffer EXCEPT ![e] = [b EXCEPT !.interrupt_balance = k]],
             k = 0 <=> caller'[e] = "resumed"
      PROVE  BufferInv'
  <2>1. PICK c : c = [b EXCEPT !.interrupt_balance = k]
    OBVIOUS
  <2>2. /\ c \in Buffer!Buffer /\ c.interrupt_balance = k
        /\ c.current_seqn = b.current_seqn /\ c.acknowledged_seqn = b.acknowledged_seqn
    BY <2>1 DEF Buffer!Buffer
  <2>3. Counts(c)
    BY <1>1, <2>2, BufferAt DEF Counts
  <2> QED BY <1>3, <1>4, <1>6, <2>1, <2>2, <2>3, OneBufferMoves
<1>7. CASE Buffer!BeginPause(e)
  <2>1. b.interrupt_balance = 0
    BY <1>1, <1>7, BufferAt DEF Buffer!BeginPause
  <2>2. buffer' = [buffer EXCEPT ![e] = [b EXCEPT !.interrupt_balance = 1]] /\ caller'[e] = "pausing"
    BY <1>1, <1>2, <1>7, <2>1 DEF Buffer!BeginPause, BesideTypes
  <2> QED BY <1>6, <2>2
<1>8. CASE Buffer!EndResume(e) \/ Buffer!Reprocess(e, FALSE)
  <2>1. b.interrupt_balance = 1
    <3>1. b.interrupt_balance \in {0, 1}
      BY BufferMembers
    <3> QED BY <1>1, <1>8, <3>1, BufferAt DEF Buffer!EndResume, Buffer!Reprocess
  <2>2. buffer' = [buffer EXCEPT ![e] = [b EXCEPT !.interrupt_balance = 0]] /\ caller'[e] = "resumed"
    BY <1>1, <1>2, <1>8, <2>1 DEF Buffer!EndResume, Buffer!Reprocess, BesideTypes
  <2> QED BY <1>6, <2>2
<1>9. CASE Buffer!EndPause(e) \/ Buffer!BeginResume(e)
  <2>1. /\ UNCHANGED buffer
        /\ caller[e] # "resumed" /\ caller'[e] # "resumed"
    BY <1>2, <1>9 DEF Buffer!EndPause, Buffer!BeginResume, BesideTypes
  <2> QED BY <1>1, <1>3, <1>4, <2>1, BufferAt, OneBufferMoves
<1> QED BY <1>5, <1>7, <1>8, <1>9 DEF Buffer!Reprocess

\* resume lets the acknowledged packages go.
LEMMA BufferResumeKeeps ==
  ASSUME BufferInv, NEW e \in Clients, Buffer!BeginReprocess(e) PROVE BufferInv'
<1>1. PICK b \in Buffer!Buffer : b = buffer[e]
  BY BufferAt
<1> DEFINE done == b.acknowledged_seqn + 1 - b.current_seqn
<1>2. /\ b.pending_queue \in Seq(Nat) /\ Len(b.pending_queue) \in Nat
      /\ b.acknowledged_seqn \in Nat /\ b.current_seqn \in Nat
  BY BufferMembers, LenProperties
<1>3. done \in Nat /\ BesideTypes
  BY <1>1, <1>2, BufferAt DEF Counts
<1>4. PICK a \in Nat \ {0} : a = b.acknowledged_seqn + 1
  BY <1>2
<1> HIDE DEF done
<1>5. PICK p \in Seq(Nat) : p = SubSeq(b.pending_queue, done + 1, Len(b.pending_queue))
  <2>1. \A n \in done + 1 .. Len(b.pending_queue) : b.pending_queue[n] \in Nat
    BY <1>2, <1>3, ElementOfSeq
  <2>2. done + 1 \in Int /\ Len(b.pending_queue) \in Int
    BY <1>2, <1>3
  <2> QED BY <2>1, <2>2, SubSeqProperties
<1>6. PICK c : c = [b EXCEPT !.pending_queue = p, !.current_seqn = a]
  OBVIOUS
<1>7. /\ buffer' = [buffer EXCEPT ![e] = c] /\ caller' = [caller EXCEPT ![e] = "resending"]
      /\ resent' = [resent EXCEPT ![e] = 0] /\ UNCHANGED <<puts, sender, closer>>
      /\ caller[e] = "resuming"
  BY <1>1, <1>4, <1>5, <1>6 DEF Buffer!BeginReprocess, done
<1>8. /\ c \in Buffer!Buffer /\ c.interrupt_balance = b.interrupt_balance
      /\ c.current_seqn = a /\ c.acknowledged_seqn = b.acknowledged_seqn
  BY <1>6 DEF Buffer!Buffer
<1>9. BesideTypes' /\ caller'[e] = "resending" /\ \A f \in Clients : f # e => caller'[f] = caller[f]
  BY <1>3, <1>7 DEF BesideTypes, CallerAt
<1>10. Counts(c) /\ (c.interrupt_balance = 0 <=> caller'[e] = "resumed")
  BY <1>1, <1>2, <1>4, <1>7, <1>8, <1>9, BufferAt DEF Counts
<1> QED BY <1>7, <1>8, <1>9, <1>10, OneBufferMoves

\* An acknowledgement is taken only if it is greater than the last.
LEMMA BufferAcknowledgeKeeps ==
  ASSUME BufferInv, NEW e \in Clients, NEW seqn \in Nat, Buffer!Acknowledge(e, seqn) PROVE BufferInv'
<1>1. PICK b \in Buffer!Buffer : b = buffer[e]
  BY BufferAt
<1>2. b.current_seqn \in Nat /\ b.acknowledged_seqn \in Nat
  BY BufferMembers
<1>3. BesideTypes' /\ UNCHANGED caller
  BY BufferAt DEF Buffer!Acknowledge, BesideTypes
<1>4. CASE seqn > b.acknowledged_seqn
  <2>1. PICK c : c = [b EXCEPT !.acknowledged_seqn = seqn]
    OBVIOUS
  <2>2. /\ c \in Buffer!Buffer /\ c.interrupt_balance = b.interrupt_balance
        /\ c.current_seqn = b.current_seqn /\ c.acknowledged_seqn = seqn
    BY <2>1 DEF Buffer!Buffer
  <2>3. buffer' = [buffer EXCEPT ![e] = c]
    BY <1>1, <1>4, <2>1 DEF Buffer!Acknowledge
  <2>4. Counts(c) /\ (c.interrupt_balance = 0 <=> caller'[e] = "resumed")
    BY <1>1, <1>2, <1>3, <1>4, <2>2, BufferAt DEF Counts
  <2> QED BY <1>3, <2>2, <2>3, <2>4, OneBufferMoves
<1>5. CASE ~(seqn > b.acknowledged_seqn)
  <2>1. UNCHANGED buffer
    BY <1>1, <1>5 DEF Buffer!Acknowledge
  <2> QED BY <1>3, <2>1, BufferAt, OneBufferMoves
<1> QED BY <1>4, <1>5

\* Every step of the buffers keeps it.
LEMMA BufferStep == ASSUME BufferInv, [PartNext]_partVars PROVE BufferInv'
<1>1. CASE UNCHANGED bufferRest
  BY <1>1 DEF bufferRest, BufferInv, Buffer!TypeOK, Counts
<1>2. CASE Buffer!Next
  <2>1. PICK e \in Clients :
          \/ Buffer!Start(e) \/ Buffer!Put(e) \/ Buffer!ThreadProc(e) \/ Buffer!WakeUp(e)
          \/ \E ok \in BOOLEAN : Buffer!Process(e, ok) \/ Buffer!Reprocess(e, ok)
          \/ Buffer!BeginPause(e) \/ Buffer!EndPause(e) \/ Buffer!BeginResume(e)
          \/ Buffer!BeginReprocess(e) \/ Buffer!EndResume(e)
          \/ \E seqn \in 1 .. buffer[e].max_sent_seqn : Buffer!Acknowledge(e, seqn)
          \/ \E how \in {"Stopping", "Terminating"} : Buffer!Terminate0(e, how)
          \/ Buffer!Cleanup0(e)
    BY <1>2 DEF Buffer!Next, Buffer!Interrupting
  <2>2. CASE \E seqn \in 1 .. buffer[e].max_sent_seqn : Buffer!Acknowledge(e, seqn)
    <3>1. \A seqn \in 1 .. buffer[e].max_sent_seqn : seqn \in Nat
      BY BufferAt, BufferMembers
    <3> QED BY <2>2, <3>1, BufferAcknowledgeKeeps
  <2> QED BY <2>1, <2>2, BufferStateKeeps, BufferPutKeeps, BufferThreadKeeps, BufferPauseKeeps,
             BufferResumeKeeps
<1>3. Buffer!Next \/ UNCHANGED bufferRest
  BY DEF PartNext, partVars, Only
<1> QED BY <1>1, <1>2, <1>3

(***************************************************************************)
(* What holds of the parts.                                                *)
(***************************************************************************)
\* Every part keeps what holds of it, whichever part is used.
PartsInv == LifetimesInv /\ BrokerInv /\ BufferInv /\ LinkInv /\ ModeInv

\* Every step of the parts is one of the lifetimes', or leaves them alone.
LEMMA LifetimesStep == ASSUME LifetimesInv, [PartNext]_partVars PROVE LifetimesInv'
<1>1. [Next]_lifetimeVars
  BY DEF PartNext, partVars, Only
<1> QED BY <1>1, LifetimesAssumption, LifetimesInvStays

\* It holds in every state.
LEMMA PartsInvariant == PartSpec => []PartsInv
<1> USE LifetimesAssumption, ProtocolAssumption
<1>1. PartInit => PartsInv
  BY InitLifetimesInv, BrokerInit, BufferInit, LinkInit, ModeInit DEF PartInit, PartsInv
<1>2. PartsInv /\ [PartNext]_partVars => PartsInv'
  BY LifetimesStep, BrokerStep, BufferStep, LinkStep, ModeStep DEF PartsInv
<1> QED BY <1>1, <1>2, PTL DEF PartSpec

\* What the maps, queues and counters of each part may hold: a buffer is paused once or
\* not at all, every parked message of the broker has an action of its entry to come for
\* it, and what a terminated lifetime has still kept is about to be taken.
THEOREM PartsAreTyped == PartSpec => []PartsTypeOK
<1>1. PartsInv => PartsTypeOK
  <2> SUFFICES ASSUME PartsInv PROVE PartsTypeOK
    OBVIOUS
  <2>1. TypeOK
    BY LifetimesAssumption, InvTypes DEF PartsInv
  <2>2. Broker!TypeOK /\ Buffer!TypeOK /\ Link!TypeOK /\ Mode!TypeOK
    BY BrokerMeans, LinkMeans, ModeMeans DEF PartsInv, BufferInv
  <2> QED BY <2>1, <2>2 DEF PartsTypeOK
<1> QED BY <1>1, PartsInvariant, PTL

\* AsyncAction of a logger, FireModelAction and RiderGameControl's subscriptions, against
\* the scheduler's InitProtocol and the end of a connection: the model in use is neither
\* replaced nor ended under its user, who is shown a model is shown the present one, and
\* when all has come the play mode of Rider means the settings of the editor.
THEOREM RiderIsSeen == PartSpec => []RiderSeesEditor
<1>1. PartsInv => RiderSeesEditor
  BY LinkMeans, ModeMeans DEF PartsInv, RiderSeesEditor
<1> QED BY <1>1, PartsInvariant, PTL

\* InitProtocol: a model is replaced only while RdIsModelAlive does not say that there is
\* one.
THEOREM ModelReplacedWhenEnded == PartSpec => Link!ReplacedWhenEnded
<1>1. PartsInv /\ [PartNext]_partVars => [editorModel' # editorModel => isAlive # "true"]_Link!linkVars
  BY LinkReplaces DEF PartsInv
<1> QED BY <1>1, PartsInvariant, PTL DEF PartSpec, Link!ReplacedWhenEnded
=============================================================================
