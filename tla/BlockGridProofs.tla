-------------------------- MODULE BlockGridProofs --------------------------
(***************************************************************************)
(* Lemmas about the block grid and the quads in it, for chunks of every    *)
(* size.  The flat index numbers the cells one to one, so that a loop over *)
(* the cells writes every entry of the array and the entry of each cell    *)
(* once.  A quad whose indices turn its four corners both ways round an    *)
(* axis covers a rectangle of faces of one direction, and one more quad    *)
(* with corners of its own leaves what the mesh shows as it was.           *)
(***************************************************************************)
EXTENDS QuadMesh, SequenceTheorems, TLAPS

(***************************************************************************)
(* A row-major index: adding a digit below n to n times a number below m   *)
(* stays below m times n.                                                  *)
(***************************************************************************)
LEMMA RowMajorBound ==
  ASSUME NEW m \in Nat, NEW n \in Nat, NEW a \in 0 .. (m - 1), NEW b \in 0 .. (n - 1)
  PROVE  a * n + b \in 0 .. (m * n - 1)
<1>1. a * n >= 0
  OBVIOUS
<1>2. a * n <= (m - 1) * n
  OBVIOUS
<1>3. (m - 1) * n = m * n - n
  OBVIOUS
<1>4. m * n \in Nat /\ a * n \in Int
  OBVIOUS
<1> QED BY <1>1, <1>2, <1>3, <1>4

(***************************************************************************)
(* The quotient and the remainder of a row-major index are the row and the *)
(* column it was made from.                                                *)
(***************************************************************************)
LEMMA RowMajorDigits ==
  ASSUME NEW n \in Nat, NEW a \in Nat, NEW b \in 0 .. (n - 1)
  PROVE  (a * n + b) \div n = a /\ (a * n + b) % n = b
<1>1. n > 0 /\ a * n + b \in Nat
  OBVIOUS
<1> DEFINE x == a * n + b
<1>2. x = n * (x \div n) + (x % n) /\ x % n \in 0 .. (n - 1) /\ x \div n \in Int
  BY <1>1
<1> HIDE DEF x
<1>3. x = n * a + b
  BY DEF x
<1>4. (x \div n) = a
  <2> DEFINE q == x \div n
             r == x % n
  <2>1. n * q + r = n * a + b /\ r \in 0 .. (n - 1) /\ q \in Int
    BY <1>2, <1>3
  <2> HIDE DEF q, r
  <2>2. n * (q - a) = b - r
    BY <2>1
  <2>3. ~(q - a >= 1)
    <3> SUFFICES ASSUME q - a >= 1 PROVE FALSE
      OBVIOUS
    <3>1. n * (q - a) >= n
      BY <2>1
    <3> QED BY <3>1, <2>1, <2>2
  <2>4. ~(q - a <= -1)
    <3> SUFFICES ASSUME q - a <= -1 PROVE FALSE
      OBVIOUS
    <3>1. n * (q - a) <= -n
      BY <2>1
    <3> QED BY <3>1, <2>1, <2>2
  <2>5. q = a
    BY <2>1, <2>3, <2>4
  <2> QED BY <2>5 DEF q
<1>5. x % n = b
  BY <1>2, <1>3, <1>4
<1> QED BY <1>4, <1>5 DEF x

(***************************************************************************)
(* Every cell of the chunk has its place in the flat array.                *)
(***************************************************************************)
LEMMA CellHasIndex ==
  \A c \in Cell : GetBlockIndex(c) \in BlockIndex
<1>1. SUFFICES ASSUME NEW c \in Cell PROVE GetBlockIndex(c) \in BlockIndex
  OBVIOUS
<1> USE SizeAssumption
<1>2. c[0] \in 0 .. (Size - 1) /\ c[1] \in 0 .. (Size - 1) /\ c[2] \in 0 .. (Size - 1)
  BY DEF Cell, Axes
<1>3. c[2] * Size + c[1] \in 0 .. (Size * Size - 1)
  BY <1>2, RowMajorBound
<1>4. (c[2] * Size + c[1]) * Size + c[0] \in 0 .. ((Size * Size) * Size - 1)
  BY <1>2, <1>3, RowMajorBound
<1>5. (c[2] * Size + c[1]) * Size + c[0] = c[2] * Size * Size + c[1] * Size + c[0]
  BY <1>2
<1> QED BY <1>4, <1>5 DEF GetBlockIndex, BlockIndex

(***************************************************************************)
(* Every entry of the array belongs to a cell: no entry is left out by the *)
(* three loops of a height map.                                            *)
(***************************************************************************)
LEMMA IndexHasCell ==
  \A n \in BlockIndex : \E c \in Cell : GetBlockIndex(c) = n
<1>1. SUFFICES ASSUME NEW n \in BlockIndex
               PROVE  \E c \in Cell : GetBlockIndex(c) = n
  OBVIOUS
<1> USE SizeAssumption
<1>2. n \in Nat /\ Size > 0 /\ n < Size * Size * Size
  BY DEF BlockIndex
<1> DEFINE x == n % Size
           q == n \div Size
           y == q % Size
           z == q \div Size
<1>3. n = Size * q + x /\ x \in 0 .. (Size - 1) /\ q \in Nat
  BY <1>2
<1>4. q = Size * z + y /\ y \in 0 .. (Size - 1) /\ z \in Nat
  BY <1>2, <1>3
<1> HIDE DEF x, q, y, z
<1>5. z < Size
  <2> SUFFICES ASSUME z >= Size PROVE FALSE
    BY <1>4
  <2>1. Size * z >= Size * Size
    BY <1>2, <1>4
  <2>2. q >= Size * Size /\ Size * Size \in Nat
    BY <1>3, <1>4, <2>1
  <2>3. Size * q >= Size * (Size * Size)
    BY <1>2, <1>3, <2>2
  <2>4. Size * (Size * Size) = Size * Size * Size
    OBVIOUS
  <2> QED BY <1>2, <1>3, <2>3, <2>4
<1>6. Vec(x, y, z) \in Cell
  BY <1>3, <1>4, <1>5 DEF Vec, Cell, Axes
<1>7. GetBlockIndex(Vec(x, y, z)) = z * Size * Size + y * Size + x
  BY DEF GetBlockIndex, Vec, Axes
<1>8. z * Size * Size + y * Size + x = n
  <2>1. n = Size * (Size * z + y) + x
    BY <1>3, <1>4
  <2>2. Size * (Size * z + y) = z * Size * Size + y * Size
    BY <1>3, <1>4
  <2> QED BY <2>1, <2>2
<1> QED BY <1>6, <1>7, <1>8

(***************************************************************************)
(* No two cells share an entry.                                            *)
(***************************************************************************)
LEMMA IndexIsInjective ==
  \A c, d \in Cell : GetBlockIndex(c) = GetBlockIndex(d) => c = d
<1>1. SUFFICES ASSUME NEW c \in Cell, NEW d \in Cell,
                      GetBlockIndex(c) = GetBlockIndex(d)
               PROVE  c = d
  OBVIOUS
<1> USE SizeAssumption
<1>2. /\ c[0] \in 0 .. (Size - 1) /\ c[1] \in 0 .. (Size - 1) /\ c[2] \in 0 .. (Size - 1)
      /\ d[0] \in 0 .. (Size - 1) /\ d[1] \in 0 .. (Size - 1) /\ d[2] \in 0 .. (Size - 1)
  BY DEF Cell, Axes
<1> DEFINE row(v) == v[2] * Size + v[1]
<1>3. row(c) \in Nat /\ row(d) \in Nat
  BY <1>2
<1>4. /\ GetBlockIndex(c) = row(c) * Size + c[0]
      /\ GetBlockIndex(d) = row(d) * Size + d[0]
  BY <1>2 DEF GetBlockIndex
<1>5. \A n, a \in Nat : \A b \in 0 .. (n - 1) :
        (a * n + b) \div n = a /\ (a * n + b) % n = b
  BY RowMajorDigits
<1>6. row(c) = row(d) /\ c[0] = d[0]
  <2> HIDE DEF row
  <2>1. /\ (row(c) * Size + c[0]) \div Size = row(c)
        /\ (row(d) * Size + d[0]) \div Size = row(d)
        /\ (row(c) * Size + c[0]) % Size = c[0]
        /\ (row(d) * Size + d[0]) % Size = d[0]
    BY <1>2, <1>3, <1>5
  <2> QED BY <1>1, <1>4, <2>1
<1>7. c[2] = d[2] /\ c[1] = d[1]
  <2>1. row(c) \div Size = c[2] /\ row(c) % Size = c[1]
    <3>1. c[2] \in Nat /\ Size \in Nat
      BY <1>2
    <3> QED BY <1>2, <1>5, <3>1
  <2>2. row(d) \div Size = d[2] /\ row(d) % Size = d[1]
    <3>1. d[2] \in Nat /\ Size \in Nat
      BY <1>2
    <3> QED BY <1>2, <1>5, <3>1
  <2> HIDE DEF row
  <2> QED BY <1>6, <2>1, <2>2
<1> QED BY <1>6, <1>7 DEF Cell, Axes
-----------------------------------------------------------------------------
(***************************************************************************)
(* What a height map stores is a block array again.                        *)
(***************************************************************************)
LEMMA StoredType ==
  ASSUME NEW blocks \in [BlockIndex -> EBlock], NEW value \in [Cell -> EBlock]
  PROVE  Stored(blocks, value) \in [BlockIndex -> EBlock]
<1>1. SUFFICES ASSUME NEW n \in BlockIndex
               PROVE  Stored(blocks, value)[n] \in EBlock
  BY DEF Stored
<1>2. CASE \E c \in Cell : GetBlockIndex(c) = n
  <2> DEFINE c == CHOOSE d \in Cell : GetBlockIndex(d) = n
  <2>1. c \in Cell
    BY <1>2
  <2>2. Stored(blocks, value)[n] = value[c]
    BY <1>2 DEF Stored
  <2> QED BY <2>1, <2>2
<1>3. CASE ~ \E c \in Cell : GetBlockIndex(c) = n
  BY <1>3 DEF Stored
<1> QED BY <1>2, <1>3

(***************************************************************************)
(* A height map stores in each cell's entry the block of that cell, and    *)
(* leaves no entry as it was.                                              *)
(***************************************************************************)
LEMMA StoredAtCell ==
  ASSUME NEW blocks \in [BlockIndex -> EBlock], NEW value, NEW c \in Cell
  PROVE  Stored(blocks, value)[GetBlockIndex(c)] = value[c]
<1>1. GetBlockIndex(c) \in BlockIndex
  BY CellHasIndex
<1> DEFINE d == CHOOSE e \in Cell : GetBlockIndex(e) = GetBlockIndex(c)
<1>2. d \in Cell /\ GetBlockIndex(d) = GetBlockIndex(c)
  OBVIOUS
<1>3. d = c
  BY <1>2, IndexIsInjective
<1>4. Stored(blocks, value)[GetBlockIndex(c)] = value[d]
  BY <1>1 DEF Stored
<1> QED BY <1>3, <1>4

\* Every entry of the array is the value of some cell.
LEMMA StoredEverywhere ==
  ASSUME NEW blocks \in [BlockIndex -> EBlock], NEW value, NEW n \in BlockIndex
  PROVE  \E c \in Cell : Stored(blocks, value)[n] = value[c]
BY IndexHasCell, StoredAtCell

(***************************************************************************)
(* Both height maps store blocks of the enumeration.                       *)
(***************************************************************************)
LEMMA HeightMapTypes ==
  /\ \A noise : Caves(noise) \in [Cell -> EBlock]
  /\ \A noise : Hills(noise) \in [Cell -> EBlock]
BY DEF Caves, Hills, EBlock

(***************************************************************************)
(* Both height maps make a block of every cell air or stone, whatever the  *)
(* noise.                                                                  *)
(***************************************************************************)
LEMMA HeightMapBlocks ==
  /\ \A noise : \A c \in Cell : Caves(noise)[c] \in {"Air", "Stone"}
  /\ \A noise : \A c \in Cell : Hills(noise)[c] \in {"Air", "Stone"}
BY DEF Caves, Hills

(***************************************************************************)
(* So neither leaves an entry at the Null that SetNum put there.           *)
(***************************************************************************)
LEMMA HeightMapSetsAll ==
  ASSUME NEW blocks \in [BlockIndex -> EBlock], NEW noise, NEW n \in BlockIndex
  PROVE  /\ Stored(blocks, Caves(noise))[n] \in {"Air", "Stone"}
         /\ Stored(blocks, Hills(noise))[n] \in {"Air", "Stone"}
BY StoredEverywhere, HeightMapBlocks
----------------------------------------------------------------------------
(***************************************************************************)
(* Rectangles.  Spot(a, c, m, n) is the point at height c along axis a     *)
(* with the coordinates m and n along the two axes after it; Along(a, s)   *)
(* is the vector of length s along the axis.                               *)
(***************************************************************************)
Spot(a, c, m, n) == [b \in Axes |-> IF b = a THEN c ELSE IF b = (a + 1) % 3 THEN m ELSE n]

Along(a, s) == [b \in Axes |-> IF b = a THEN s ELSE 0]

\* The unit intervals between two numbers, by their lower ends.
Between(m, n) == IF m < n THEN m .. (n - 1) ELSE n .. (m - 1)

\* The coordinates of a spot.
LEMMA SpotAt ==
  ASSUME NEW a \in Axes, NEW c \in Int, NEW m \in Int, NEW n \in Int
  PROVE  /\ Spot(a, c, m, n) \in Vector
         /\ Spot(a, c, m, n)[a] = c
         /\ Spot(a, c, m, n)[(a + 1) % 3] = m
         /\ Spot(a, c, m, n)[(a + 2) % 3] = n
         /\ (a + 1) % 3 \in Axes /\ (a + 2) % 3 \in Axes
         /\ Axes = {a, (a + 1) % 3, (a + 2) % 3}
         /\ (a + 1) % 3 # a /\ (a + 2) % 3 # a /\ (a + 1) % 3 # (a + 2) % 3
<1>1. a \in {0, 1, 2}
  BY DEF Axes
<1>2. /\ (a + 1) % 3 \in Axes /\ (a + 2) % 3 \in Axes
      /\ Axes = {a, (a + 1) % 3, (a + 2) % 3}
      /\ (a + 1) % 3 # a /\ (a + 2) % 3 # a /\ (a + 1) % 3 # (a + 2) % 3
  BY <1>1 DEF Axes
<1> QED BY <1>2 DEF Spot, Vector

\* A spot by its three coordinates.
LEMMA SpotIsVec ==
  ASSUME NEW c \in Int, NEW m \in Int, NEW n \in Int
  PROVE  /\ Spot(0, c, m, n) = Vec(c, m, n)
         /\ Spot(1, c, m, n) = Vec(n, c, m)
         /\ Spot(2, c, m, n) = Vec(m, n, c)
BY DEF Spot, Vec, Axes

\* Spots with the same coordinates are the same.
LEMMA SpotsDiffer ==
  ASSUME NEW a \in Axes, NEW c \in Int, NEW m \in Int, NEW n \in Int,
         NEW e \in Int, NEW k \in Int, NEW l \in Int, Spot(a, c, m, n) = Spot(a, e, k, l)
  PROVE  c = e /\ m = k /\ n = l
<1>1. Spot(a, c, m, n)[a] = c /\ Spot(a, e, k, l)[a] = e
  BY SpotAt
<1>2. Spot(a, c, m, n)[(a + 1) % 3] = m /\ Spot(a, e, k, l)[(a + 1) % 3] = k
  BY SpotAt
<1>3. Spot(a, c, m, n)[(a + 2) % 3] = n /\ Spot(a, e, k, l)[(a + 2) % 3] = l
  BY SpotAt
<1> QED BY <1>1, <1>2, <1>3

(***************************************************************************)
(* Directions.  Each is along one axis, and no two are the same.           *)
(***************************************************************************)
LEMMA Directions ==
  /\ \A d \in EDirection : \E a \in Axes, s \in {1, -1} : Toward(d) = Along(a, s)
  /\ \A a \in Axes, s \in {1, -1} : \E d \in EDirection : Toward(d) = Along(a, s)
<1>1. /\ Toward("Forward") = Along(0, 1) /\ Toward("Back") = Along(0, -1)
      /\ Toward("Right") = Along(1, 1) /\ Toward("Left") = Along(1, -1)
      /\ Toward("Up") = Along(2, 1) /\ Toward("Down") = Along(2, -1)
  BY DEF Toward, Vec, Along, Axes
<1>2. 0 \in Axes /\ 1 \in Axes /\ 2 \in Axes /\ \A a \in Axes : a = 0 \/ a = 1 \/ a = 2
  BY DEF Axes
<1>3. ASSUME NEW d \in EDirection
      PROVE  \E a \in Axes, s \in {1, -1} : Toward(d) = Along(a, s)
  <2>1. CASE d = "Forward"
    BY <1>1, <1>2, <2>1
  <2>2. CASE d = "Right"
    BY <1>1, <1>2, <2>2
  <2>3. CASE d = "Back"
    BY <1>1, <1>2, <2>3
  <2>4. CASE d = "Left"
    BY <1>1, <1>2, <2>4
  <2>5. CASE d = "Up"
    BY <1>1, <1>2, <2>5
  <2>6. CASE d = "Down"
    BY <1>1, <1>2, <2>6
  <2> QED BY <2>1, <2>2, <2>3, <2>4, <2>5, <2>6 DEF EDirection
<1>4. ASSUME NEW a \in Axes, NEW s \in {1, -1}
      PROVE  \E d \in EDirection : Toward(d) = Along(a, s)
  <2>1. CASE a = 0
    BY <1>1, <2>1 DEF EDirection
  <2>2. CASE a = 1
    BY <1>1, <2>2 DEF EDirection
  <2>3. CASE a = 2
    BY <1>1, <2>3 DEF EDirection
  <2> QED BY <1>2, <2>1, <2>2, <2>3
<1> QED BY <1>3, <1>4

\* Vectors along an axis.
LEMMA AlongAt ==
  ASSUME NEW a \in Axes, NEW s \in Int
  PROVE  /\ Along(a, s)[a] = s
         /\ \A b \in Axes : b # a => Along(a, s)[b] = 0
BY DEF Along

\* The direction of a vector is the only one it is along.
LEMMA OneDirection ==
  ASSUME NEW d \in EDirection, NEW e \in EDirection, Toward(d) = Toward(e)
  PROVE  d = e
<1>1. \A f \in EDirection : /\ Toward(f)[0] = (IF f = "Forward" THEN 1 ELSE IF f = "Back" THEN -1 ELSE 0)
                            /\ Toward(f)[1] = (IF f = "Right" THEN 1 ELSE IF f = "Left" THEN -1 ELSE 0)
                            /\ Toward(f)[2] = (IF f = "Up" THEN 1 ELSE IF f = "Down" THEN -1 ELSE 0)
  BY DEF EDirection, Toward, Vec, Axes
<1> QED BY <1>1 DEF EDirection

(***************************************************************************)
(* The side a triangle in a plane is seen from.                            *)
(***************************************************************************)
LEMMA CrossInPlane ==
  ASSUME NEW a \in Axes, NEW c \in Int,
         NEW m0 \in Int, NEW n0 \in Int, NEW m1 \in Int, NEW n1 \in Int, NEW m2 \in Int, NEW n2 \in Int
  PROVE  Cross(Minus(Spot(a, c, m2, n2), Spot(a, c, m0, n0)),
               Minus(Spot(a, c, m1, n1), Spot(a, c, m0, n0)))
           = Along(a, (m2 - m0) * (n1 - n0) - (n2 - n0) * (m1 - m0))
<1> DEFINE s == (m2 - m0) * (n1 - n0) - (n2 - n0) * (m1 - m0)
<1>1. \A k \in Int, l \in Int :
        Minus(Spot(a, c, k, l), Spot(a, c, m0, n0)) = Spot(a, 0, k - m0, l - n0)
  BY DEF Minus, Spot, Axes
<1>2. Cross(Spot(a, 0, m2 - m0, n2 - n0), Spot(a, 0, m1 - m0, n1 - n0)) = Along(a, s)
  <2>2. \A x, y, z, u, v, w \in Int :
          Cross(Vec(x, y, z), Vec(u, v, w)) = Vec(y * w - z * v, z * u - x * w, x * v - y * u)
    BY DEF Cross, Vec, Axes
  <2>3. \A n \in Int : /\ Along(0, n) = Vec(n, 0, 0)
                        /\ Along(1, n) = Vec(0, n, 0)
                        /\ Along(2, n) = Vec(0, 0, n)
    BY DEF Along, Vec, Axes
  <2>1. \A k, l, u, v \in Int : Cross(Spot(a, 0, k, l), Spot(a, 0, u, v)) = Along(a, k * v - l * u)
    <3> SUFFICES ASSUME NEW k \in Int, NEW l \in Int, NEW u \in Int, NEW v \in Int
                 PROVE  Cross(Spot(a, 0, k, l), Spot(a, 0, u, v)) = Along(a, k * v - l * u)
      OBVIOUS
    <3>1. CASE a = 0
      <4>1. /\ Spot(a, 0, k, l) = Vec(0, k, l)
            /\ Spot(a, 0, u, v) = Vec(0, u, v)
        BY <3>1, SpotIsVec
      <4> QED BY <2>2, <2>3, <3>1, <4>1
    <3>2. CASE a = 1
      <4>1. /\ Spot(a, 0, k, l) = Vec(l, 0, k)
            /\ Spot(a, 0, u, v) = Vec(v, 0, u)
        BY <3>2, SpotIsVec
      <4> QED BY <2>2, <2>3, <3>2, <4>1
    <3>3. CASE a = 2
      <4>1. /\ Spot(a, 0, k, l) = Vec(k, l, 0)
            /\ Spot(a, 0, u, v) = Vec(u, v, 0)
        BY <3>3, SpotIsVec
      <4> QED BY <2>2, <2>3, <3>3, <4>1
    <3> QED BY <3>1, <3>2, <3>3 DEF Axes
  <2> QED BY <2>1
<1> QED BY <1>1, <1>2

\* A triangle seen along an axis faces that way, and no other.
LEMMA FacesOneWay ==
  ASSUME NEW mesh, NEW q, NEW t, NEW a \in Axes, NEW s \in Int, NEW N \in {1, -1},
         SeenFrom(mesh, q, t) = Along(a, s), s * N > 0,
         NEW d \in EDirection
  PROVE  FacesAlong(mesh, q, t, d) <=> Toward(d) = Along(a, N)
<1>1. PICK b \in Axes, r \in {1, -1} : Toward(d) = Along(b, r)
  BY Directions
<1>2. /\ Along(a, s)[a] = s /\ \A x \in Axes : x # a => Along(a, s)[x] = 0
      /\ Along(b, r)[b] = r /\ \A x \in Axes : x # b => Along(b, r)[x] = 0
      /\ Along(a, N)[a] = N /\ \A x \in Axes : x # a => Along(a, N)[x] = 0
  BY AlongAt
<1>3. FacesAlong(mesh, q, t, d) <=>
        \A x \in Axes : IF Along(b, r)[x] = 0 THEN Along(a, s)[x] = 0
                                              ELSE Along(a, s)[x] * Along(b, r)[x] > 0
  BY <1>1 DEF FacesAlong
<1>4. CASE a # b
  <2>1. Along(a, s)[b] = 0 /\ Along(b, r)[b] # 0 /\ ~(0 * r > 0)
    BY <1>2, <1>4
  <2>2. ~FacesAlong(mesh, q, t, d)
    BY <1>2, <1>3, <2>1
  <2>3. Along(b, r) # Along(a, N)
    BY <1>2, <1>4
  <2> QED BY <1>1, <2>2, <2>3
<1>5. CASE a = b
  <2>1. FacesAlong(mesh, q, t, d) <=> s * r > 0
    BY <1>2, <1>3, <1>5
  <2>2. s * r > 0 <=> r = N
    OBVIOUS
  <2>3. r = N <=> Along(b, r) = Along(a, N)
    BY <1>2, <1>5
  <2> QED BY <1>1, <2>1, <2>2, <2>3
<1> QED BY <1>4, <1>5

(***************************************************************************)
(* The two halves of a rectangle.                                          *)
(***************************************************************************)
Half(a, c, m, n, k, l) == {Spot(a, c, m, n), Spot(a, c, k, l), Spot(a, c, m, l)}

\* The coordinates of a set of points along an axis.
Sides(P, b) == {p[b] : p \in P}

\* Its corners lie between the same coordinates as the whole.
LEMMA HalfEnds ==
  ASSUME NEW a \in Axes, NEW c \in Int, NEW m \in Int, NEW n \in Int, NEW k \in Int, NEW l \in Int
  PROVE  /\ Sides(Half(a, c, m, n, k, l), a) = {c}
         /\ Sides(Half(a, c, m, n, k, l), (a + 1) % 3) = {m, k}
         /\ Sides(Half(a, c, m, n, k, l), (a + 2) % 3) = {n, l}
<1>1. \A x, y \in Int : /\ Spot(a, c, x, y)[a] = c
                        /\ Spot(a, c, x, y)[(a + 1) % 3] = x
                        /\ Spot(a, c, x, y)[(a + 2) % 3] = y
  BY SpotAt
<1>2. /\ Spot(a, c, m, n)[a] = c /\ Spot(a, c, k, l)[a] = c /\ Spot(a, c, m, l)[a] = c
      /\ Spot(a, c, m, n)[(a + 1) % 3] = m /\ Spot(a, c, k, l)[(a + 1) % 3] = k
      /\ Spot(a, c, m, l)[(a + 1) % 3] = m
      /\ Spot(a, c, m, n)[(a + 2) % 3] = n /\ Spot(a, c, k, l)[(a + 2) % 3] = l
      /\ Spot(a, c, m, l)[(a + 2) % 3] = l
  BY <1>1
<1> QED BY <1>2 DEF Half, Sides

\* The cells behind a set of points between two coordinates.
LEMMA CellsBetween ==
  ASSUME NEW P, NEW d, NEW b, NEW x \in Int, NEW y \in Int, Sides(P, b) = {x, y}
  PROVE  CellsBehind(P, d, b) =
           CASE Toward(d)[b] = 1 -> {(IF x < y THEN x ELSE y) - 1}
             [] Toward(d)[b] = -1 -> {IF x < y THEN x ELSE y}
             [] OTHER -> Between(x, y)
<1> DEFINE low == CHOOSE n \in {x, y} : \A m \in {x, y} : n <= m
           high == CHOOSE n \in {x, y} : \A m \in {x, y} : n >= m
<1>1. low = (IF x < y THEN x ELSE y)
  OBVIOUS
<1>2. high = (IF x < y THEN y ELSE x)
  OBVIOUS
<1>3. CellsBehind(P, d, b) = CASE Toward(d)[b] = 1 -> {low - 1}
                               [] Toward(d)[b] = -1 -> {low}
                               [] OTHER -> low .. (high - 1)
  BY DEF CellsBehind, Sides
<1> HIDE DEF low, high
<1> QED BY <1>1, <1>2, <1>3 DEF Between

\* They make up the rectangle and share a diagonal of it.
LEMMA HalvesMeet ==
  ASSUME NEW a \in Axes, NEW c \in Int, NEW m \in Int, NEW n \in Int, NEW k \in Int, NEW l \in Int,
         m # k, n # l, NEW N \in {1, -1}, NEW d \in EDirection, Toward(d) = Along(a, N)
  PROVE  IsRectangle(Half(a, c, m, n, k, l), Half(a, c, k, l, m, n), d)
<1> DEFINE P == Half(a, c, m, n, k, l)
           Q == Half(a, c, k, l, m, n)
<1>1. P \cup Q = {Spot(a, c, x, y) : x \in {m, k}, y \in {n, l}}
  BY DEF Half
<1>2. /\ Sides(P \cup Q, a) = {c}
      /\ Sides(P \cup Q, (a + 1) % 3) = {m, k}
      /\ Sides(P \cup Q, (a + 2) % 3) = {n, l}
  <2>1. /\ Sides(P, a) = {c} /\ Sides(P, (a + 1) % 3) = {m, k}
        /\ Sides(P, (a + 2) % 3) = {n, l}
    BY HalfEnds
  <2>2. /\ Sides(Q, a) = {c} /\ Sides(Q, (a + 1) % 3) = {k, m}
        /\ Sides(Q, (a + 2) % 3) = {l, n}
    BY HalfEnds
  <2>3. \A b : Sides(P \cup Q, b) = Sides(P, b) \cup Sides(Q, b)
    BY DEF Sides
  <2> HIDE DEF P, Q
  <2>4. /\ Sides(P \cup Q, a) = {c} \cup {c}
        /\ Sides(P \cup Q, (a + 1) % 3) = {m, k} \cup {k, m}
        /\ Sides(P \cup Q, (a + 2) % 3) = {n, l} \cup {l, n}
    BY <2>1, <2>2, <2>3
  <2> QED BY <2>4
<1> DEFINE Grid(X, Y, Z) == {Vec(x, y, z) : x \in X, y \in Y, z \in Z}
<1>3. P \cup Q = Grid(Sides(P \cup Q, 0), Sides(P \cup Q, 1), Sides(P \cup Q, 2))
  <2> HIDE DEF P, Q
  <2>1. CASE a = 0
    <3>1. P \cup Q = {Vec(c, x, y) : x \in {m, k}, y \in {n, l}}
      BY <1>1, <2>1, SpotIsVec
    <3>2. (a + 1) % 3 = 1 /\ (a + 2) % 3 = 2
      BY <2>1
    <3> QED BY <1>2, <2>1, <3>1, <3>2
  <2>2. CASE a = 1
    <3>1. P \cup Q = {Vec(y, c, x) : x \in {m, k}, y \in {n, l}}
      BY <1>1, <2>2, SpotIsVec
    <3>2. (a + 1) % 3 = 2 /\ (a + 2) % 3 = 0
      BY <2>2
    <3> QED BY <1>2, <2>2, <3>1, <3>2
  <2>3. CASE a = 2
    <3>1. P \cup Q = {Vec(x, y, c) : x \in {m, k}, y \in {n, l}}
      BY <1>1, <2>3, SpotIsVec
    <3>2. (a + 1) % 3 = 0 /\ (a + 2) % 3 = 1
      BY <2>3
    <3> QED BY <1>2, <2>3, <3>1, <3>2
  <2>4. a = 0 \/ a = 1 \/ a = 2
    BY DEF Axes
  <2> HIDE DEF Grid
  <2> QED BY <2>1, <2>2, <2>3, <2>4
<1>4. \E p, r \in P \cap Q : \A b \in Axes : Toward(d)[b] = 0 => p[b] # r[b]
  <2> DEFINE p == Spot(a, c, m, n)
             r == Spot(a, c, k, l)
  <2>1. p \in P \cap Q /\ r \in P \cap Q
    BY DEF Half
  <2>2. \A b \in Axes : b = a \/ b = (a + 1) % 3 \/ b = (a + 2) % 3
    BY SpotAt
  <2>3. p[(a + 1) % 3] = m /\ r[(a + 1) % 3] = k /\ p[(a + 2) % 3] = n /\ r[(a + 2) % 3] = l
    BY SpotAt
  <2>4. Toward(d)[a] # 0
    BY AlongAt
  <2> HIDE DEF p, r, P, Q
  <2>5. \A b \in Axes : Toward(d)[b] = 0 => p[b] # r[b]
    BY <2>2, <2>3, <2>4
  <2> QED BY <2>1, <2>5
<1> HIDE DEF P, Q
<1>5. IsRectangle(P, Q, d)
  BY <1>3, <1>4 DEF IsRectangle, Sides
<1> QED BY <1>5 DEF P, Q

\* The cells whose face looks along N at height c.
Behind(c, N) == IF N = 1 THEN c - 1 ELSE c

(***************************************************************************)
(* What a quad shows that consists of the halves of a rectangle at height  *)
(* c of an axis, both of them seen from one side: the faces of the cells   *)
(* behind it, between its corners.                                         *)
(***************************************************************************)
LEMMA QuadCovers ==
  ASSUME NEW mesh, NEW q, NEW a \in Axes, NEW N \in {1, -1}, NEW c \in Int,
         NEW m \in Int, NEW n \in Int, NEW k \in Int, NEW l \in Int, m # k, n # l,
         Corners(mesh, q, 0) = Half(a, c, m, n, k, l), Corners(mesh, q, 1) = Half(a, c, k, l, m, n),
         NEW s \in Int, NEW r \in Int, s * N > 0, r * N > 0,
         SeenFrom(mesh, q, 0) = Along(a, s), SeenFrom(mesh, q, 1) = Along(a, r),
         NEW d \in EDirection, Toward(d) = Along(a, N)
  PROVE  Covered(mesh, q) =
           {[cell |-> Spot(a, Behind(c, N), x, y), dir |-> d] :
              x \in Between(m, k), y \in Between(n, l)}
<1> DEFINE P == Half(a, c, m, n, k, l)
           Q == Half(a, c, k, l, m, n)
           Seen == {e \in EDirection : \A t \in 0 .. 1 : FacesAlong(mesh, q, t, e)}
           Box(X, Y, Z, e) == {[cell |-> Vec(x, y, z), dir |-> e] : x \in X, y \in Y, z \in Z}
           Boxed(e) == Box(CellsBehind(P, e, 0), CellsBehind(P, e, 1), CellsBehind(P, e, 2), e)
<1>1. Seen = {d}
  <2>1. \A e \in EDirection : FacesAlong(mesh, q, 0, e) <=> Toward(e) = Along(a, N)
    BY FacesOneWay
  <2>2. \A e \in EDirection : FacesAlong(mesh, q, 1, e) <=> Toward(e) = Along(a, N)
    BY FacesOneWay
  <2>3. \A e \in EDirection : Toward(e) = Along(a, N) <=> e = d
    BY OneDirection
  <2> QED BY <2>1, <2>2, <2>3
<1>2. {e \in Seen : IsRectangle(P, Q, e)} = {d}
  BY <1>1, HalvesMeet
<1>3. Covered(mesh, q) = UNION {Boxed(e) : e \in {f \in Seen : IsRectangle(P, Q, f)}}
  BY DEF Covered
<1>4. Covered(mesh, q) = Boxed(d)
  <2> HIDE DEF Boxed, P, Q, Seen
  <2> QED BY <1>2, <1>3
<1>5. /\ CellsBehind(P, d, a) = {Behind(c, N)}
      /\ CellsBehind(P, d, (a + 1) % 3) = Between(m, k)
      /\ CellsBehind(P, d, (a + 2) % 3) = Between(n, l)
  <2>1. /\ Sides(P, a) = {c, c} /\ Sides(P, (a + 1) % 3) = {m, k}
        /\ Sides(P, (a + 2) % 3) = {n, l}
    BY HalfEnds
  <2>2. /\ Toward(d)[a] = N /\ Toward(d)[(a + 1) % 3] = 0 /\ Toward(d)[(a + 2) % 3] = 0
    <3>1. /\ (a + 1) % 3 \in Axes /\ (a + 1) % 3 # a
          /\ (a + 2) % 3 \in Axes /\ (a + 2) % 3 # a
      BY SpotAt
    <3>2. Along(a, N)[a] = N /\ \A b \in Axes : b # a => Along(a, N)[b] = 0
      BY AlongAt
    <3> QED BY <3>1, <3>2
  <2> HIDE DEF P
  <2>3. CellsBehind(P, d, a) = {Behind(c, N)}
    BY <2>1, <2>2, CellsBetween DEF Behind
  <2>4. CellsBehind(P, d, (a + 1) % 3) = Between(m, k)
    BY <2>1, <2>2, CellsBetween
  <2>5. CellsBehind(P, d, (a + 2) % 3) = Between(n, l)
    BY <2>1, <2>2, CellsBetween
  <2> QED BY <2>3, <2>4, <2>5
<1>6. Behind(c, N) \in Int /\ Between(m, k) \subseteq Int /\ Between(n, l) \subseteq Int
  BY DEF Behind, Between
<1> HIDE DEF P
<1>7. CASE a = 0
  <2>1. (a + 1) % 3 = 1 /\ (a + 2) % 3 = 2
    BY <1>7
  <2>2. Boxed(d) = Box({Behind(c, N)}, Between(m, k), Between(n, l), d)
    <3>1. /\ CellsBehind(P, d, 0) = {Behind(c, N)} /\ CellsBehind(P, d, 1) = Between(m, k)
          /\ CellsBehind(P, d, 2) = Between(n, l)
      BY <1>5, <1>7, <2>1
    <3> HIDE DEF Box
    <3> QED BY <3>1
  <2>3. \A x \in Between(m, k), y \in Between(n, l) :
          Spot(a, Behind(c, N), x, y) = Vec(Behind(c, N), x, y)
    BY <1>6, <1>7, SpotIsVec
  <2> QED BY <1>4, <2>2, <2>3
<1>8. CASE a = 1
  <2>1. (a + 1) % 3 = 2 /\ (a + 2) % 3 = 0
    BY <1>8
  <2>2. Boxed(d) = Box(Between(n, l), {Behind(c, N)}, Between(m, k), d)
    <3>1. /\ CellsBehind(P, d, 0) = Between(n, l) /\ CellsBehind(P, d, 1) = {Behind(c, N)}
          /\ CellsBehind(P, d, 2) = Between(m, k)
      BY <1>5, <1>8, <2>1
    <3> HIDE DEF Box
    <3> QED BY <3>1
  <2>3. \A x \in Between(m, k), y \in Between(n, l) :
          Spot(a, Behind(c, N), x, y) = Vec(y, Behind(c, N), x)
    BY <1>6, <1>8, SpotIsVec
  <2> QED BY <1>4, <2>2, <2>3
<1>9. CASE a = 2
  <2>1. (a + 1) % 3 = 0 /\ (a + 2) % 3 = 1
    BY <1>9
  <2>2. Boxed(d) = Box(Between(m, k), Between(n, l), {Behind(c, N)}, d)
    <3>1. /\ CellsBehind(P, d, 0) = Between(m, k) /\ CellsBehind(P, d, 1) = Between(n, l)
          /\ CellsBehind(P, d, 2) = {Behind(c, N)}
      BY <1>5, <1>9, <2>1
    <3> HIDE DEF Box
    <3> QED BY <3>1
  <2>3. \A x \in Between(m, k), y \in Between(n, l) :
          Spot(a, Behind(c, N), x, y) = Vec(x, y, Behind(c, N))
    BY <1>6, <1>9, SpotIsVec
  <2> QED BY <1>4, <2>2, <2>3
<1> QED BY <1>7, <1>8, <1>9 DEF Axes

----------------------------------------------------------------------------
(***************************************************************************)
(* A quad whose indices are those of its own four vertices does not depend *)
(* on what else is in the buffer.                                          *)
(***************************************************************************)
IsOwn(mesh, q) == \A k \in 0 .. 5 : mesh[q].tri[k] \in 4 * (q - 1) .. 4 * (q - 1) + 3

\* Where its vertices are in the buffer.
LEMMA OwnVertex ==
  ASSUME NEW mesh, NEW q \in Nat \ {0}, NEW n \in 0 .. 3
  PROVE  VertexAt(mesh, 4 * (q - 1) + n) = mesh[q].v[n]
<1>1. (4 * (q - 1) + n) \div 4 + 1 = q /\ (4 * (q - 1) + n) % 4 = n
  OBVIOUS
<1> QED BY <1>1 DEF VertexAt

\* A quad shows what its corners say.
LEMMA SameCorners ==
  ASSUME NEW mesh, NEW more, NEW q,
         \A t \in 0 .. 1, k \in 0 .. 2 : Corner(more, q, t, k) = Corner(mesh, q, t, k)
  PROVE  Covered(more, q) = Covered(mesh, q)
<1>1. \A t \in 0 .. 1 : Corners(more, q, t) = Corners(mesh, q, t)
  BY DEF Corners
<1>2. \A t \in 0 .. 1 : SeenFrom(more, q, t) = SeenFrom(mesh, q, t)
  <2> SUFFICES ASSUME NEW t \in 0 .. 1
               PROVE  SeenFrom(more, q, t) = SeenFrom(mesh, q, t)
    OBVIOUS
  <2>1. /\ Corner(more, q, t, 0) = Corner(mesh, q, t, 0)
        /\ Corner(more, q, t, 1) = Corner(mesh, q, t, 1)
        /\ Corner(more, q, t, 2) = Corner(mesh, q, t, 2)
    OBVIOUS
  <2> QED BY <2>1 DEF SeenFrom
<1>3. \A t \in 0 .. 1, d \in EDirection : FacesAlong(more, q, t, d) <=> FacesAlong(mesh, q, t, d)
  BY <1>2 DEF FacesAlong
<1>4. {d \in EDirection : \A t \in 0 .. 1 : FacesAlong(more, q, t, d)}
        = {d \in EDirection : \A t \in 0 .. 1 : FacesAlong(mesh, q, t, d)}
  BY <1>3
<1>5. Corners(more, q, 0) = Corners(mesh, q, 0) /\ Corners(more, q, 1) = Corners(mesh, q, 1)
  BY <1>1
<1> QED BY <1>4, <1>5 DEF Covered

\* Adding a quad changes none of those before it.
LEMMA QuadStays ==
  ASSUME NEW S, NEW mesh \in Seq(S), NEW new \in S, NEW q \in 1 .. Len(mesh), IsOwn(mesh, q)
  PROVE  Covered(Append(mesh, new), q) = Covered(mesh, q) /\ IsOwn(Append(mesh, new), q)
<1>1. q \in Nat \ {0} /\ Append(mesh, new)[q] = mesh[q]
  BY AppendProperties, LenProperties
<1>2. ASSUME NEW t \in 0 .. 1, NEW k \in 0 .. 2
      PROVE  Corner(Append(mesh, new), q, t, k) = Corner(mesh, q, t, k)
  <2>1. PICK n \in 0 .. 3 : mesh[q].tri[3 * t + k] = 4 * (q - 1) + n
    <3>1. 3 * t + k \in 0 .. 5
      OBVIOUS
    <3>2. mesh[q].tri[3 * t + k] \in 4 * (q - 1) .. 4 * (q - 1) + 3
      BY <3>1 DEF IsOwn
    <3>3. mesh[q].tri[3 * t + k] - 4 * (q - 1) \in 0 .. 3
      BY <1>1, <3>2
    <3>4. mesh[q].tri[3 * t + k] = 4 * (q - 1) + (mesh[q].tri[3 * t + k] - 4 * (q - 1))
      BY <1>1, <3>2
    <3> QED BY <3>3, <3>4
  <2>2. VertexAt(Append(mesh, new), 4 * (q - 1) + n) = VertexAt(mesh, 4 * (q - 1) + n)
    <3>1. VertexAt(mesh, 4 * (q - 1) + n) = mesh[q].v[n]
      BY <1>1, OwnVertex
    <3>2. PICK more : more = Append(mesh, new)
      OBVIOUS
    <3>3. VertexAt(more, 4 * (q - 1) + n) = more[q].v[n]
      BY <1>1, OwnVertex
    <3> QED BY <1>1, <3>1, <3>2, <3>3
  <2> QED BY <1>1, <2>1, <2>2 DEF Corner
<1>3. IsOwn(Append(mesh, new), q)
  BY <1>1 DEF IsOwn
<1> QED BY <1>2, <1>3, SameCorners

(***************************************************************************)
(* Buffers of quads that stand for themselves.                             *)
(***************************************************************************)
AllOwn(mesh) == \A q \in 1 .. Len(mesh) : IsOwn(mesh, q)

Shown(mesh) == UNION {Covered(mesh, q) : q \in 1 .. Len(mesh)}

Disjoint(mesh) ==
  \A q, r \in 1 .. Len(mesh) : q # r => Covered(mesh, q) \cap Covered(mesh, r) = {}

\* Their indices are in the buffer, and what they show is what they cover.
LEMMA OwnInBuffer ==
  ASSUME NEW S, NEW mesh \in Seq(S), AllOwn(mesh)
  PROVE  IndicesInBuffer(mesh) /\ DrawnBy(mesh) = Shown(mesh)
<1>1. ASSUME NEW q \in 1 .. Len(mesh), NEW k \in 0 .. 5
      PROVE  mesh[q].tri[k] \in 0 .. (4 * Len(mesh) - 1)
  <2>1. mesh[q].tri[k] \in 4 * (q - 1) .. 4 * (q - 1) + 3
    BY DEF AllOwn, IsOwn
  <2> QED BY <2>1, LenProperties
<1>2. IndicesInBuffer(mesh)
  BY <1>1 DEF IndicesInBuffer
<1> QED BY <1>2 DEF DrawnBy, Shown

\* Another quad adds what it covers.
LEMMA OneMoreQuad ==
  ASSUME NEW S, NEW mesh \in Seq(S), NEW new \in S, AllOwn(mesh),
         IsOwn(Append(mesh, new), Len(mesh) + 1)
  PROVE  /\ AllOwn(Append(mesh, new))
         /\ Shown(Append(mesh, new)) = Shown(mesh) \cup Covered(Append(mesh, new), Len(mesh) + 1)
         /\ Disjoint(mesh) /\ Covered(Append(mesh, new), Len(mesh) + 1) \cap Shown(mesh) = {}
              => Disjoint(Append(mesh, new))
<1> DEFINE n == Len(mesh) + 1
<1>1. PICK more : more = Append(mesh, new)
  OBVIOUS
<1>2. Len(mesh) \in Nat /\ Len(more) = n /\ 1 .. n = 1 .. Len(mesh) \cup {n} /\ n \notin 1 .. Len(mesh)
  BY <1>1, AppendProperties, LenProperties
<1>3. \A q \in 1 .. Len(mesh) : Covered(more, q) = Covered(mesh, q) /\ IsOwn(more, q)
  BY <1>1, QuadStays DEF AllOwn
<1> HIDE DEF n
<1>4. AllOwn(more)
  BY <1>1, <1>2, <1>3 DEF AllOwn, n
<1>5. Shown(more) = Shown(mesh) \cup Covered(more, n)
  BY <1>2, <1>3 DEF Shown
<1>6. ASSUME Disjoint(mesh), Covered(more, n) \cap Shown(mesh) = {}
      PROVE  Disjoint(more)
  <2>1. \A q \in 1 .. Len(mesh) : Covered(more, q) \cap Covered(more, n) = {}
    BY <1>3, <1>6 DEF Shown
  <2>2. \A q, r \in 1 .. Len(mesh) : q # r => Covered(more, q) \cap Covered(more, r) = {}
    BY <1>3, <1>6 DEF Disjoint
  <2> QED BY <1>2, <2>1, <2>2 DEF Disjoint
<1> QED BY <1>1, <1>4, <1>5, <1>6 DEF n
=============================================================================
