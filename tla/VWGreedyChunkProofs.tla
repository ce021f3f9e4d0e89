------------------------ MODULE VWGreedyChunkProofs ------------------------
(***************************************************************************)
(* Proofs about the greedy mesher, for chunks of every size and for every  *)
(* set of noise fields.                                                    *)
(***************************************************************************)
EXTENDS VWGreedyChunk, BlockGridProofs

(***************************************************************************)
(* Integer vectors are closed under the operations on them.                *)
(***************************************************************************)
LEMMA VectorTypes ==
  /\ \A u, v \in Vector : Plus(u, v) \in Vector
  /\ \A u \in Vector, n \in Int : Times(n, u) \in Vector
  /\ \A a, n \in Int : AlongAxis(a, n) \in Vector
BY DEF Vector, Plus, Times, AlongAxis, Axes

(***************************************************************************)
(* A mask entry made from two blocks is a face or no face.                 *)
(***************************************************************************)
LEMMA FaceBetweenType ==
  \A b, c \in EBlock : FaceBetween(b, c) \in FMask
BY DEF FaceBetween, NoFace, FMask, EBlock
-----------------------------------------------------------------------------
(***************************************************************************)
(* GetBlock answers with a block for every vector, inside the chunk or     *)
(* out of it.                                                              *)
(***************************************************************************)
LEMMA GetBlockType ==
  ASSUME Blocks \in [BlockIndex -> EBlock], NEW c \in Vector
  PROVE  GetBlock(c) \in EBlock
<1>1. CASE \E a \in Axes : c[a] >= Size \/ c[a] < 0
  BY <1>1 DEF GetBlock, EBlock
<1>2. CASE ~ \E a \in Axes : c[a] >= Size \/ c[a] < 0
  <2>1. c \in Cell
    BY <1>2, SizeAssumption DEF Cell, Vector
  <2> QED BY <1>2, <2>1, CellHasIndex DEF GetBlock
<1> QED BY <1>1, <1>2

(***************************************************************************)
(* The cells BuildMask compares are vectors.                               *)
(***************************************************************************)
LEMMA SliceCellType ==
  ASSUME Slice \in Int, NEW n \in MaskEntries
  PROVE  SliceCell(n) \in Vector /\ Plus(SliceCell(n), AxisMask) \in Vector
<1>1. Size # 0
  BY SizeAssumption DEF MaskEntries
<1>2. SliceCell(n) \in Vector
  BY <1>1, SizeAssumption DEF SliceCell, Vector, MaskEntries
<1>3. AxisMask \in Vector
  BY DEF AxisMask, AlongAxis, Vector
<1> QED BY <1>2, <1>3, VectorTypes

(***************************************************************************)
(* The quad CreateQuad adds, whatever the face, is one of the mesh: its    *)
(* index offsets, which depend on the normal, never go below the quad's    *)
(* first vertex.                                                           *)
(***************************************************************************)
MeshQuad == [v : [0 .. 3 -> Vector], tri : [0 .. 5 -> Nat], normal : Vector]

\* CreateQuad keeps the mesh and the vertex count in their types, and in step.
LEMMA CreateQuadType ==
  ASSUME NEW m \in FMask, NEW axisMask \in Vector,
         NEW v1 \in Vector, NEW v2 \in Vector, NEW v3 \in Vector, NEW v4 \in Vector,
         MeshData \in Seq(MeshQuad), VertexCount = 4 * Len(MeshData),
         CreateQuad(m, axisMask, v1, v2, v3, v4)
  PROVE  MeshData' \in Seq(MeshQuad) /\ VertexCount' = 4 * Len(MeshData')
<1> DEFINE N == m.Normal
           tri == <<0, 2 + N, 2 - N, 3, 1 - N, 1 + N>>
           quad == [v      |-> [n \in 0 .. 3 |-> <<v1, v2, v3, v4>>[n + 1]],
                    tri    |-> [k \in 0 .. 5 |-> VertexCount + tri[k + 1]],
                    normal |-> Times(N, axisMask)]
<1>1. N \in {-1, 0, 1}
  BY DEF FMask
<1>2. VertexCount \in Nat
  OBVIOUS
<1>3. \A k \in 0 .. 5 : tri[k + 1] \in Nat
  <2>1. /\ tri[1] = 0 /\ tri[2] = 2 + N /\ tri[3] = 2 - N
        /\ tri[4] = 3 /\ tri[5] = 1 - N /\ tri[6] = 1 + N
    <3> HIDE DEF N
    <3> QED OBVIOUS
  <2>2. \A k \in 0 .. 5 : k + 1 \in {1, 2, 3, 4, 5, 6}
    OBVIOUS
  <2>3. \A k \in {1, 2, 3, 4, 5, 6} : tri[k] \in Nat
    <3> HIDE DEF N, tri
    <3> QED BY <1>1, <2>1
  <2> HIDE DEF tri
  <2> QED BY <2>2, <2>3
<1>4. [k \in 0 .. 5 |-> VertexCount + tri[k + 1]] \in [0 .. 5 -> Nat]
  <2> HIDE DEF tri, quad, N
  <2>1. SUFFICES ASSUME NEW k \in 0 .. 5 PROVE VertexCount + tri[k + 1] \in Nat
    OBVIOUS
  <2>2. tri[k + 1] \in Nat
    BY <1>3
  <2> QED BY <1>2, <2>2
<1>5. [n \in 0 .. 3 |-> <<v1, v2, v3, v4>>[n + 1]] \in [0 .. 3 -> Vector]
  <2>1. \A n \in 0 .. 3 : n + 1 \in {1, 2, 3, 4}
    OBVIOUS
  <2> QED BY <2>1
<1>6. Times(N, axisMask) \in Vector
  BY <1>1, VectorTypes
<1>7. quad \in MeshQuad
  BY <1>4, <1>5, <1>6 DEF MeshQuad
<1>8. MeshData' = Append(MeshData, quad) /\ VertexCount' = VertexCount + 4
  BY DEF CreateQuad
<1> QED
  <2> HIDE DEF quad
  <2> QED BY <1>7, <1>8
-----------------------------------------------------------------------------
(***************************************************************************)
(* The entry the scan reads is the one of its row and column.  Together    *)
(* with the types this is inductive, and the types alone are not: without  *)
(* it the entry read could lie outside the mask and be of any value.       *)
(***************************************************************************)
IndexInv == j < Size => MaskIndex = j * Size + i

ScanInv == TypeOK /\ IndexInv

\* While the scan goes on, MaskIndex is an index of the mask.
LEMMA ScanInMask ==
  ASSUME ScanInv, Scanning
  PROVE  MaskIndex \in MaskEntries
<1>1. i \in 0 .. (Size - 1) /\ j \in 0 .. (Size - 1)
  BY SizeAssumption DEF ScanInv, TypeOK, Scanning
<1>2. j * Size + i \in 0 .. (Size * Size - 1)
  BY <1>1, SizeAssumption, RowMajorBound
<1> QED BY <1>2 DEF ScanInv, IndexInv, Scanning, MaskEntries

(***************************************************************************)
(* Adding a quad keeps the types and moves the scan along its row.         *)
(***************************************************************************)
LEMMA AddQuadScan ==
  ASSUME ScanInv, AddQuad
  PROVE  ScanInv'
<1> USE SizeAssumption
<1>1. TypeOK /\ IndexInv /\ Scanning /\ MaskIndex \in MaskEntries
  BY ScanInMask DEF AddQuad, ScanInv
<1>2. Mask[MaskIndex] \in FMask
  BY <1>1 DEF TypeOK
<1>3. PICK w \in 1 .. (Size - i) :
        /\ \E h \in 1 .. (Size - j) :
             /\ LET at == [a \in Axes |-> IF a = Axis THEN Slice
                                          ELSE IF a = Axis1 THEN i ELSE j]
                    right == AlongAxis(Axis1, w)
                    down  == AlongAxis(Axis2, h)
                IN  CreateQuad(Mask[MaskIndex], AxisMask, at, Plus(at, right),
                               Plus(at, down), Plus(Plus(at, right), down))
             /\ Mask' = [n \in MaskEntries |->
                           IF n \in Cleared(w, h) THEN NoFace ELSE Mask[n]]
        /\ i' = i + w
        /\ MaskIndex' = MaskIndex + w
  BY DEF AddQuad
<1>4. PICK h \in 1 .. (Size - j) :
        /\ LET at == [a \in Axes |-> IF a = Axis THEN Slice
                                     ELSE IF a = Axis1 THEN i ELSE j]
               right == AlongAxis(Axis1, w)
               down  == AlongAxis(Axis2, h)
           IN  CreateQuad(Mask[MaskIndex], AxisMask, at, Plus(at, right),
                          Plus(at, down), Plus(Plus(at, right), down))
        /\ Mask' = [n \in MaskEntries |->
                      IF n \in Cleared(w, h) THEN NoFace ELSE Mask[n]]
  BY <1>3
<1>5. UNCHANGED <<phase, GenerationType, logged, section, Blocks, Axis, Slice, j>>
  BY DEF AddQuad, inputs
<1> DEFINE at == [a \in Axes |-> IF a = Axis THEN Slice ELSE IF a = Axis1 THEN i ELSE j]
           right == AlongAxis(Axis1, w)
           down  == AlongAxis(Axis2, h)
<1>6. at \in Vector /\ right \in Vector /\ down \in Vector /\ AxisMask \in Vector
  <2>1. at \in Vector
    BY <1>1 DEF TypeOK, Vector
  <2>2. Axis1 \in Int /\ Axis2 \in Int /\ w \in Int /\ h \in Int /\ Axis \in Int
    BY <1>1 DEF TypeOK, Axis1, Axis2
  <2> QED BY <2>1, <2>2, VectorTypes DEF AxisMask
<1>7. /\ Plus(at, right) \in Vector
      /\ Plus(at, down) \in Vector
      /\ Plus(Plus(at, right), down) \in Vector
  BY <1>6, VectorTypes
<1>8. CreateQuad(Mask[MaskIndex], AxisMask, at, Plus(at, right), Plus(at, down),
                 Plus(Plus(at, right), down))
  BY <1>4
<1>9. MeshData \in Seq(MeshQuad) /\ VertexCount = 4 * Len(MeshData)
  BY <1>1 DEF TypeOK, MeshQuad
<1>10. MeshData' \in Seq(MeshQuad) /\ VertexCount' = 4 * Len(MeshData')
  <2> HIDE DEF at, right, down
  <2> QED BY <1>2, <1>6, <1>7, <1>8, <1>9, CreateQuadType
<1>11. Mask' \in [MaskEntries -> FMask]
  <2>1. NoFace \in FMask
    BY DEF NoFace, FMask, EBlock
  <2> QED BY <1>1, <1>4, <2>1 DEF TypeOK
<1>12. i' \in 0 .. Size /\ MaskIndex' \in Nat
  BY <1>1, <1>3 DEF TypeOK
<1>13. TypeOK'
  BY <1>1, <1>5, <1>10, <1>11, <1>12 DEF TypeOK, MeshQuad
<1>14. IndexInv'
  <2>1. i \in Int /\ j \in Int /\ w \in Int /\ j' = j /\ i' = i + w
    BY <1>1, <1>3, <1>5 DEF TypeOK
  <2>2. MaskIndex' = (j * Size + i) + w
    BY <1>1, <1>3 DEF IndexInv, Scanning
  <2>3. j * Size \in Int
    BY <2>1
  <2> QED BY <2>1, <2>2, <2>3 DEF IndexInv
<1> QED BY <1>13, <1>14 DEF ScanInv

(***************************************************************************)
(* Going to the next row moves the scan nowhere: the index is already      *)
(* that of the row's first entry.                                          *)
(***************************************************************************)
LEMMA NextRowScan ==
  ASSUME ScanInv, NextRow
  PROVE  ScanInv'
<1> USE SizeAssumption
<1>1. i = Size /\ j \in Nat /\ j' = j + 1 /\ i' = 0 /\ MaskIndex' = MaskIndex
  BY DEF ScanInv, TypeOK, NextRow
<1>2. MaskIndex = j * Size + Size
  BY <1>1 DEF ScanInv, IndexInv, NextRow
<1>3. (j + 1) * Size = j * Size + Size
  BY <1>1
<1>4. IndexInv'
  BY <1>1, <1>2, <1>3 DEF IndexInv
<1>5. TypeOK'
  BY DEF ScanInv, TypeOK, NextRow, baseVars, inputs
<1> QED BY <1>4, <1>5 DEF ScanInv

(***************************************************************************)
(* The types and the index hold throughout BeginPlay.                      *)
(***************************************************************************)
LEMMA ScanInvariant == Spec => []ScanInv
<1> USE SizeAssumption
<1>1. Init => ScanInv
  BY DEF Init, BaseInit, ScanInv, IndexInv, TypeOK, Phases, EGenerationType,
         NoFace, FMask, EBlock
<1>2. ScanInv /\ [Next]_vars => ScanInv'
  <2> SUFFICES ASSUME ScanInv, [Next]_vars PROVE ScanInv'
    OBVIOUS
  <2> USE DEF ScanInv, IndexInv, TypeOK, inputs
  <2>1. CASE Setup
    BY <2>1 DEF Setup, Enter, UnsetBlocks, EBlock, Phases, scanVars
  <2>2. CASE Generate3DHeightMap
    BY <2>2, StoredType, HeightMapTypes DEF GenerateHeightMap, Generate3DHeightMap, Enter, Phases, scanVars
  <2>3. CASE Generate2DHeightMap
    BY <2>3, StoredType, HeightMapTypes DEF GenerateHeightMap, Generate2DHeightMap, Enter, Phases, scanVars
  <2>4. CASE BuildMask
    <3>1. Blocks \in [BlockIndex -> EBlock]
      BY <2>4 DEF BuildMask
    <3>2. Mask' \in [MaskEntries -> FMask]
      BY <2>4, <3>1, SliceCellType, GetBlockType, FaceBetweenType DEF BuildMask
    <3>3. MaskIndex' = j' * Size + i'
      BY <2>4 DEF BuildMask
    <3> QED BY <2>4, <3>2, <3>3 DEF BuildMask, baseVars
  <2>5. CASE AddQuad
    BY <2>5, AddQuadScan
  <2>6. CASE SkipEntry
    <3>1. j * Size \in Int /\ i \in Int
      OBVIOUS
    <3> QED BY <2>6, <3>1 DEF SkipEntry, Scanning, baseVars
  <2>7. CASE NextRow
    BY <2>7, NextRowScan
  <2>8. CASE NextAxis
    BY <2>8 DEF NextAxis, baseVars
  <2>9. CASE EndMesh
    BY <2>9 DEF EndMesh, Enter, Phases, chunkVars, scanVars
  <2>10. CASE LogVertexCount /\ UNCHANGED chunkVars
    BY <2>10 DEF LogVertexCount, Enter, Phases, chunkVars, scanVars
  <2>11. CASE ApplyMesh /\ UNCHANGED chunkVars
    BY <2>11 DEF ApplyMesh, Enter, Phases, chunkVars, scanVars
  <2>12. CASE UNCHANGED vars
    BY <2>12 DEF vars, baseVars, chunkVars, scanVars
  <2> QED
    BY <2>1, <2>2, <2>3, <2>4, <2>5, <2>6, <2>7, <2>8, <2>9, <2>10, <2>11, <2>12 DEF Next
<1> QED BY <1>1, <1>2, PTL DEF Spec

(***************************************************************************)
(* The members of a greedy chunk hold values of their C++ types, and the   *)
(* vertex count is the length of the vertex buffer, throughout BeginPlay.  *)
(***************************************************************************)
THEOREM TypeCorrect == Spec => []TypeOK
<1>1. ScanInv => TypeOK
  BY DEF ScanInv
<1> QED BY <1>1, ScanInvariant, PTL

(***************************************************************************)
(* Every entry the scan compares, and every entry it clears, lies in the   *)
(* column and row of the mask the loops mean, for chunks of every size.    *)
(***************************************************************************)
THEOREM IndexFollowsScan == Spec => []MaskIndexFollowsScan
<1>1. ScanInv => MaskIndexFollowsScan
  <2> USE SizeAssumption
  <2> SUFFICES ASSUME ScanInv, Scanning,
                      NEW k \in 0 .. (Size - i - 1), NEW l \in 0 .. (Size - j - 1)
               PROVE  /\ MaskIndex + k + l * Size \in MaskEntries
                      /\ (MaskIndex + k + l * Size) % Size = i + k
                      /\ (MaskIndex + k + l * Size) \div Size = j + l
    BY DEF MaskIndexFollowsScan
  <2>1. i \in Nat /\ j \in Nat /\ MaskIndex = j * Size + i
    BY DEF ScanInv, TypeOK, IndexInv, Scanning
  <2>2. i + k \in 0 .. (Size - 1) /\ j + l \in 0 .. (Size - 1)
    BY <2>1
  <2>3. MaskIndex + k + l * Size = (j + l) * Size + (i + k)
    <3>1. (j + l) * Size = j * Size + l * Size
      BY <2>1
    <3>2. j * Size \in Int /\ l * Size \in Int
      BY <2>1
    <3> QED BY <2>1, <3>1, <3>2
  <2>4. (j + l) * Size + (i + k) \in MaskEntries
    BY <2>2, RowMajorBound DEF MaskEntries
  <2>5. /\ ((j + l) * Size + (i + k)) % Size = i + k
        /\ ((j + l) * Size + (i + k)) \div Size = j + l
    <3>1. Size \in Nat /\ j + l \in Nat
      BY <2>1
    <3>2. \A n, a \in Nat : \A b \in 0 .. (n - 1) :
            (a * n + b) \div n = a /\ (a * n + b) % n = b
      BY RowMajorDigits
    <3> QED BY <2>2, <3>1, <3>2
  <2> QED BY <2>3, <2>4, <2>5
<1> QED BY <1>1, ScanInvariant, PTL

(***************************************************************************)
(* No entry keeps the Null of SetNum, which the mesher would take for a    *)
(* solid block: true of every noise and size, because the flat index       *)
(* leaves out no entry.                                                    *)
(***************************************************************************)
THEOREM BlocksAreSet == Spec => []EveryBlockIsSet
<1>1. Init => EveryBlockIsSet
  BY DEF Init, BaseInit, EveryBlockIsSet
<1>2. ScanInv /\ EveryBlockIsSet /\ [Next]_vars => EveryBlockIsSet'
  <2> SUFFICES ASSUME ScanInv, EveryBlockIsSet, [Next]_vars PROVE EveryBlockIsSet'
    OBVIOUS
  <2>1. CASE Setup
    BY <2>1 DEF Setup, Enter, EveryBlockIsSet
  <2>2. CASE Generate3DHeightMap \/ Generate2DHeightMap
    <3>1. Blocks \in [BlockIndex -> EBlock]
      BY <2>2 DEF GenerateHeightMap, Generate3DHeightMap, Generate2DHeightMap, Enter, ScanInv, TypeOK
    <3>2. \A n \in BlockIndex : Blocks'[n] \in {"Air", "Stone"}
      BY <2>2, <3>1, HeightMapSetsAll DEF GenerateHeightMap, Generate3DHeightMap, Generate2DHeightMap
    <3> QED BY <3>2 DEF EveryBlockIsSet
  <2>3. ASSUME UNCHANGED Blocks, phase \notin {"Setup", "GenerateHeightMap"}
        PROVE  EveryBlockIsSet'
    BY <2>3 DEF EveryBlockIsSet
  <2>4. CASE BuildMask \/ AddQuad \/ SkipEntry \/ NextRow \/ NextAxis
    BY <2>3, <2>4 DEF BuildMask, AddQuad, SkipEntry, NextRow, NextAxis, Scanning
  <2>5. CASE EndMesh
    BY <2>3, <2>5 DEF EndMesh, Enter, chunkVars
  <2>6. CASE (LogVertexCount \/ ApplyMesh) /\ UNCHANGED chunkVars
    BY <2>3, <2>6 DEF LogVertexCount, ApplyMesh, Enter, chunkVars
  <2>7. CASE UNCHANGED vars
    BY <2>7 DEF vars, baseVars, chunkVars, EveryBlockIsSet
  <2> QED
    BY <2>1, <2>2, <2>4, <2>5, <2>6, <2>7 DEF Next
<1> QED BY <1>1, <1>2, ScanInvariant, PTL DEF Spec

-----------------------------------------------------------------------------
(***************************************************************************)
(* A face by its place: on the side N of axis a, in plane p, at column k   *)
(* and row l of the slice.                                                 *)
(***************************************************************************)
Way(a, N) == CHOOSE d \in EDirection : Toward(d) = Along(a, N)

FaceOn(a, N, p, k, l) == [cell |-> Spot(a, Behind(p, N), k, l), dir |-> Way(a, N)]

\* The direction of a side.
LEMMA WayIs ==
  ASSUME NEW a \in Axes, NEW N \in {1, -1}
  PROVE  /\ Way(a, N) \in EDirection /\ Toward(Way(a, N)) = Along(a, N)
         /\ \A d \in EDirection : Toward(d) = Along(a, N) => d = Way(a, N)
<1>1. \E d \in EDirection : Toward(d) = Along(a, N)
  BY Directions
<1>2. Way(a, N) \in EDirection /\ Toward(Way(a, N)) = Along(a, N)
  BY <1>1 DEF Way
<1> QED BY <1>2, OneDirection

\* The cells on the two sides of a plane.
LEMMA BehindAt ==
  ASSUME NEW p \in Int, NEW N \in {1, -1}
  PROVE  /\ Behind(p, N) \in Int /\ -N \in {1, -1} /\ Behind(p, -N) \in Int
         /\ Behind(p, N) + N = Behind(p, -N)
         /\ \A c \in Int : Behind(c, N) = Behind(p, N) => c = p
BY DEF Behind

\* Faces of different places are different.
LEMMA FaceOnOnce ==
  ASSUME NEW a \in Axes, NEW N \in {1, -1}, NEW p \in Int, NEW k \in Int, NEW l \in Int,
         NEW b \in Axes, NEW M \in {1, -1}, NEW q \in Int, NEW m \in Int, NEW n \in Int,
         FaceOn(a, N, p, k, l) = FaceOn(b, M, q, m, n)
  PROVE  a = b /\ N = M /\ p = q /\ k = m /\ l = n
<1>1. /\ Spot(a, Behind(p, N), k, l) = Spot(b, Behind(q, M), m, n)
      /\ Way(a, N) = Way(b, M)
  BY DEF FaceOn
<1>2. Along(a, N) = Along(b, M)
  BY <1>1, WayIs
<1>3. a = b /\ N = M
  <2>1. Along(a, N)[a] = N /\ Along(b, M)[b] = M /\ (a # b => Along(b, M)[a] = 0)
    BY AlongAt
  <2> QED BY <1>2, <2>1
<1>4. Behind(p, N) \in Int /\ Behind(q, N) \in Int
  BY BehindAt
<1>5. Behind(p, N) = Behind(q, N) /\ k = m /\ l = n
  BY <1>1, <1>3, <1>4, SpotsDiffer
<1> QED BY <1>3, <1>5, BehindAt

\* Every face of the chunk has a place.
LEMMA FaceHasPlace ==
  ASSUME NEW f \in Face
  PROVE  \E a \in Axes, N \in {1, -1}, p \in 0 .. Size,
            k \in 0 .. (Size - 1), l \in 0 .. (Size - 1) : f = FaceOn(a, N, p, k, l)
<1> USE SizeAssumption
<1>1. f.cell \in Cell /\ f.dir \in EDirection /\ f = [cell |-> f.cell, dir |-> f.dir]
  BY DEF Face
<1>2. PICK a \in Axes, N \in {1, -1} : Toward(f.dir) = Along(a, N)
  BY <1>1, Directions
<1>3. f.dir = Way(a, N)
  BY <1>1, <1>2, WayIs
<1>4. (a + 1) % 3 \in Axes /\ (a + 2) % 3 \in Axes /\ Axes = {a, (a + 1) % 3, (a + 2) % 3}
  BY SpotAt
<1>5. \A b \in Axes : f.cell[b] \in 0 .. (Size - 1)
  BY <1>1 DEF Cell
<1>6. PICK c \in 0 .. (Size - 1) : c = f.cell[a]
  BY <1>5
<1>7. PICK k \in 0 .. (Size - 1) : k = f.cell[(a + 1) % 3]
  BY <1>4, <1>5
<1>8. PICK l \in 0 .. (Size - 1) : l = f.cell[(a + 2) % 3]
  BY <1>4, <1>5
<1>9. f.cell = Spot(a, c, k, l)
  <2>1. \A b \in Axes : f.cell[b] = IF b = a THEN c ELSE IF b = (a + 1) % 3 THEN k ELSE l
    BY <1>4, <1>6, <1>7, <1>8
  <2> QED BY <1>1, <2>1 DEF Spot, Cell
<1>10. PICK p \in 0 .. Size : Behind(p, N) = c
  <2>1. CASE N = 1
    <3>1. c + 1 \in 0 .. Size /\ Behind(c + 1, N) = c
      BY <2>1 DEF Behind
    <3> QED BY <3>1
  <2>2. CASE N = -1
    <3>1. c \in 0 .. Size /\ Behind(c, N) = c
      BY <2>2 DEF Behind
    <3> QED BY <3>1
  <2> QED BY <2>1, <2>2
<1>11. f = FaceOn(a, N, p, k, l)
  BY <1>1, <1>3, <1>9, <1>10 DEF FaceOn
<1> QED BY <1>11

-----------------------------------------------------------------------------
(***************************************************************************)
(* The solid blocks, and when a face is on their surface.                  *)
(***************************************************************************)
Solid == {c \in Cell : GetBlock(c) # "Air"}

\* GetBlock tells whether a vector is in a solid block.
LEMMA GetBlockTells ==
  ASSUME NEW c \in Vector
  PROVE  GetBlock(c) # "Air" <=> c \in Solid
<1>1. c \in Cell <=> ~ \E a \in Axes : c[a] >= Size \/ c[a] < 0
  BY SizeAssumption DEF Cell, Vector
<1> QED BY <1>1 DEF GetBlock, Solid

\* A face is on the surface when the cell behind it is solid and the one before it is not.
LEMMA FaceOnSurface ==
  ASSUME NEW a \in Axes, NEW N \in {1, -1}, NEW p \in Int, NEW k \in Int, NEW l \in Int
  PROVE  FaceOn(a, N, p, k, l) \in Surface(Solid) <=>
           /\ Spot(a, Behind(p, N), k, l) \in Solid
           /\ Spot(a, Behind(p, -N), k, l) \notin Solid
<1>1. PICK c : c = Spot(a, Behind(p, N), k, l)
  OBVIOUS
<1>2. PICK d : d = Way(a, N)
  OBVIOUS
<1>3. PICK f : f = FaceOn(a, N, p, k, l)
  OBVIOUS
<1>4. f = [cell |-> c, dir |-> d] /\ f.cell = c /\ f.dir = d /\ d \in EDirection
  BY <1>1, <1>2, <1>3, WayIs DEF FaceOn
<1>5. Plus(c, Toward(d)) = Spot(a, Behind(p, -N), k, l)
  <2>1. Toward(d) = Along(a, N) /\ Behind(p, N) \in Int /\ Behind(p, N) + N = Behind(p, -N)
    BY <1>2, WayIs, BehindAt
  <2>2. \A e \in Int : Plus(Spot(a, e, k, l), Along(a, N)) = Spot(a, e + N, k, l)
    BY DEF Plus, Spot, Along, Axes
  <2> QED BY <1>1, <2>1, <2>2
<1>6. f \in Face <=> c \in Cell
  BY <1>4 DEF Face
<1>7. c \in Solid => c \in Cell
  BY DEF Solid
<1> QED BY <1>1, <1>3, <1>4, <1>5, <1>6, <1>7 DEF Surface

-----------------------------------------------------------------------------
(***************************************************************************)
(* The quad CreateQuad makes at corner i, j with width w and height h: its *)
(* triangles are the two halves of the rectangle, both seen from side N.   *)
(***************************************************************************)
QuadTriangles(base, N) == [k \in 0 .. 5 |-> base + <<0, 2 + N, 2 - N, 3, 1 - N, 1 + N>>[k + 1]]

\* The corners of its triangles, and that they are its own vertices.
LEMMA QuadCorners ==
  ASSUME NEW mesh, NEW q \in Nat \ {0}, NEW N \in {1, -1},
         mesh[q].tri = QuadTriangles(4 * (q - 1), N)
  PROVE  /\ IsOwn(mesh, q)
         /\ Corner(mesh, q, 0, 0) = mesh[q].v[0]
         /\ Corner(mesh, q, 0, 1) = mesh[q].v[2 + N] /\ Corner(mesh, q, 0, 2) = mesh[q].v[2 - N]
         /\ Corner(mesh, q, 1, 0) = mesh[q].v[3]
         /\ Corner(mesh, q, 1, 1) = mesh[q].v[1 - N] /\ Corner(mesh, q, 1, 2) = mesh[q].v[1 + N]
<1>1. PICK b \in Nat : b = 4 * (q - 1)
  OBVIOUS
<1>2. mesh[q].tri = QuadTriangles(b, N)
  BY <1>1
<1>3. /\ QuadTriangles(b, N)[0] = b + 0 /\ QuadTriangles(b, N)[1] = b + (2 + N)
      /\ QuadTriangles(b, N)[2] = b + (2 - N) /\ QuadTriangles(b, N)[3] = b + 3
      /\ QuadTriangles(b, N)[4] = b + (1 - N) /\ QuadTriangles(b, N)[5] = b + (1 + N)
  BY DEF QuadTriangles
<1>4. /\ 0 \in 0 .. 3 /\ 2 + N \in 0 .. 3 /\ 2 - N \in 0 .. 3
      /\ 3 \in 0 .. 3 /\ 1 - N \in 0 .. 3 /\ 1 + N \in 0 .. 3
  OBVIOUS
<1>5. \A n \in 0 .. 3 : VertexAt(mesh, b + n) = mesh[q].v[n]
  BY <1>1, OwnVertex
<1>6. /\ 3 * 0 + 0 = 0 /\ 3 * 0 + 1 = 1 /\ 3 * 0 + 2 = 2
      /\ 3 * 1 + 0 = 3 /\ 3 * 1 + 1 = 4 /\ 3 * 1 + 2 = 5
  OBVIOUS
<1>7. IsOwn(mesh, q)
  <2>1. ASSUME NEW k \in 0 .. 5 PROVE QuadTriangles(b, N)[k] \in b .. b + 3
    <3>1. k = 0 \/ k = 1 \/ k = 2 \/ k = 3 \/ k = 4 \/ k = 5
      OBVIOUS
    <3>2. \A n \in 0 .. 3 : b + n \in b .. b + 3
      OBVIOUS
    <3> QED BY <1>3, <1>4, <3>1, <3>2
  <2> QED BY <1>1, <1>2, <2>1 DEF IsOwn
<1> QED BY <1>2, <1>3, <1>4, <1>5, <1>6, <1>7 DEF Corner

\* The faces of the columns from x to u and the rows from y to z.
FacesIn(a, N, p, x, y, u, z) ==
  {FaceOn(a, N, p, k, l) : k \in x .. (u - 1), l \in y .. (z - 1)}

(***************************************************************************)
(* It covers the faces of its columns and rows, and no other.              *)
(***************************************************************************)
LEMMA GreedyQuadCovers ==
  ASSUME NEW mesh, NEW q \in Int, NEW b \in Int, NEW N \in {1, -1}, NEW a \in Axes,
         NEW p \in Int, NEW x \in Int, NEW y \in Int, NEW u \in Int, NEW z \in Int,
         q > 0, b = 4 * (q - 1), x < u, y < z, mesh[q].tri = QuadTriangles(b, N),
         mesh[q].v[0] = Spot(a, p, x, y), mesh[q].v[1] = Spot(a, p, u, y),
         mesh[q].v[2] = Spot(a, p, x, z), mesh[q].v[3] = Spot(a, p, u, z)
  PROVE  Covered(mesh, q) = FacesIn(a, N, p, x, y, u, z)
<1>1. q \in Nat \ {0} /\ mesh[q].tri = QuadTriangles(4 * (q - 1), N)
  OBVIOUS
<1>3. /\ mesh[q].v[0] = Spot(a, p, x, y) /\ mesh[q].v[1] = Spot(a, p, u, y)
      /\ mesh[q].v[2] = Spot(a, p, x, z) /\ mesh[q].v[3] = Spot(a, p, u, z)
  OBVIOUS
<1>4. PICK area \in Nat \ {0} : area = (u - x) * (z - y)
  <2>1. u - x \in Nat \ {0} /\ z - y \in Nat \ {0}
    OBVIOUS
  <2>2. \A m, n \in Nat \ {0} : m * n \in Nat \ {0}
    OBVIOUS
  <2> QED BY <2>1, <2>2
<1>5. 0 .. 2 = {0, 1, 2}
  OBVIOUS
<1>6. /\ Corners(mesh, q, 0) = Half(a, p, u, z, x, y)
      /\ Corners(mesh, q, 1) = Half(a, p, x, y, u, z)
  <2>1. /\ Corners(mesh, q, 0) = {Spot(a, p, x, y), mesh[q].v[2 + N], mesh[q].v[2 - N]}
        /\ Corners(mesh, q, 1) = {Spot(a, p, u, z), mesh[q].v[1 - N], mesh[q].v[1 + N]}
    BY <1>1, <1>3, <1>5, QuadCorners DEF Corners
  <2>2. CASE N = 1
    <3>1. 2 + N = 3 /\ 2 - N = 1 /\ 1 - N = 0 /\ 1 + N = 2
      BY <2>2
    <3> QED BY <1>3, <2>1, <3>1 DEF Half
  <2>3. CASE N = -1
    <3>1. 2 + N = 1 /\ 2 - N = 3 /\ 1 - N = 2 /\ 1 + N = 0
      BY <2>3
    <3> QED BY <1>3, <2>1, <3>1 DEF Half
  <2> QED BY <2>2, <2>3
<1>7. PICK s \in Int : s = N * area /\ s * N > 0
  <2>1. N * area \in Int /\ (N * area) * N > 0
    OBVIOUS
  <2> QED BY <2>1
<1>8. SeenFrom(mesh, q, 0) = Along(a, s) /\ SeenFrom(mesh, q, 1) = Along(a, s)
  <2>1. /\ SeenFrom(mesh, q, 0) =
             Cross(Minus(mesh[q].v[2 - N], mesh[q].v[0]), Minus(mesh[q].v[2 + N], mesh[q].v[0]))
        /\ SeenFrom(mesh, q, 1) =
             Cross(Minus(mesh[q].v[1 + N], mesh[q].v[3]), Minus(mesh[q].v[1 - N], mesh[q].v[3]))
    BY <1>1, QuadCorners DEF SeenFrom
  <2>2. CASE N = 1
    <3>1. 2 + N = 3 /\ 2 - N = 1 /\ 1 - N = 0 /\ 1 + N = 2 /\ s = area
      BY <1>7, <2>2
    <3>2. SeenFrom(mesh, q, 0) = Along(a, (u - x) * (z - y) - (y - y) * (u - x))
      BY <1>3, <2>1, <3>1, CrossInPlane
    <3>3. SeenFrom(mesh, q, 1) = Along(a, (x - u) * (y - z) - (z - z) * (x - u))
      BY <1>3, <2>1, <3>1, CrossInPlane
    <3>4. (u - x) * (z - y) - (y - y) * (u - x) = area /\ (x - u) * (y - z) - (z - z) * (x - u) = area
      BY <1>4
    <3> QED BY <3>1, <3>2, <3>3, <3>4
  <2>3. CASE N = -1
    <3>1. 2 + N = 1 /\ 2 - N = 3 /\ 1 - N = 2 /\ 1 + N = 0 /\ s = -area
      BY <1>7, <2>3
    <3>2. SeenFrom(mesh, q, 0) = Along(a, (u - x) * (y - y) - (z - y) * (u - x))
      BY <1>3, <2>1, <3>1, CrossInPlane
    <3>3. SeenFrom(mesh, q, 1) = Along(a, (x - u) * (z - z) - (y - z) * (x - u))
      BY <1>3, <2>1, <3>1, CrossInPlane
    <3>4. (u - x) * (y - y) - (z - y) * (u - x) = -area /\ (x - u) * (z - z) - (y - z) * (x - u) = -area
      <4>1. PICK m \in Int, o \in Int : m = u - x /\ o = z - y
        OBVIOUS
      <4>2. x - u = -m /\ y - z = -o /\ y - y = 0 /\ z - z = 0 /\ area = m * o
        BY <1>4, <4>1
      <4>3. m * 0 - o * m = -(m * o) /\ (-m) * 0 - (-o) * (-m) = -(m * o)
        OBVIOUS
      <4> QED BY <4>1, <4>2, <4>3
    <3> QED BY <3>1, <3>2, <3>3, <3>4
  <2> QED BY <2>2, <2>3
<1>9. u # x /\ z # y
  OBVIOUS
<1>10. PICK d \in EDirection : d = Way(a, N) /\ Toward(d) = Along(a, N)
  BY WayIs
<1>11. Covered(mesh, q) = {[cell |-> Spot(a, Behind(p, N), k, l), dir |-> d] :
                             k \in Between(u, x), l \in Between(z, y)}
  BY <1>1, <1>6, <1>7, <1>8, <1>9, <1>10, QuadCovers
<1>12. Between(u, x) = x .. (u - 1) /\ Between(z, y) = y .. (z - 1)
  BY DEF Between
<1> QED BY <1>10, <1>11, <1>12 DEF FacesIn, FaceOn

-----------------------------------------------------------------------------
(***************************************************************************)
(* What the sweeps still have to cover: the faces of the surface on a      *)
(* later axis, in a later slice, or in this one's mask.                    *)
(***************************************************************************)
Left(a, N, p, k, l) ==
  \/ a > Axis
  \/ a = Axis /\ p > Slice
  \/ a = Axis /\ p = Slice /\ j < Size /\ Mask[l * Size + k].Normal = N

Todo ==
  {f \in Surface(Solid) :
     \E a \in Axes, N \in {1, -1}, p \in 0 .. Size,
        k \in 0 .. (Size - 1), l \in 0 .. (Size - 1) :
       f = FaceOn(a, N, p, k, l) /\ Left(a, N, p, k, l)}

(***************************************************************************)
(* While a slice is scanned, its mask holds faces of stone on the surface, *)
(* and none where the scan has been.                                       *)
(***************************************************************************)
MaskInv ==
  j < Size =>
    /\ \A k, l \in 0 .. (Size - 1), N \in {1, -1} :
         Mask[l * Size + k].Normal = N =>
           /\ Mask[l * Size + k].Block = "Stone"
           /\ FaceOn(Axis, N, Slice, k, l) \in Surface(Solid)
    /\ \A n \in MaskEntries : n < MaskIndex => Mask[n].Normal = 0

(***************************************************************************)
(* A quad of the mesh: where it is, that the scan has passed its corner,   *)
(* and that it stopped on each side at a face that was not left to cover.  *)
(***************************************************************************)
IsSpan(r, a, N, p, x, y, w, h) ==
  /\ r.normal = Along(a, N)
  /\ r.v[0] = Spot(a, p, x, y)
  /\ r.v[1] = Spot(a, p, x + w, y)
  /\ r.v[2] = Spot(a, p, x, y + h)
  /\ r.v[3] = Spot(a, p, x + w, y + h)

Scanned(a, p, x, y) ==
  \/ a < Axis
  \/ a = Axis /\ p < Slice
  \/ a = Axis /\ p = Slice /\ (y < j \/ (y = j /\ x < i))

Stopped(a, N, p, x, y, w, h) ==
  /\ FaceOn(a, N, p, x + w, y) \notin Todo
  /\ \E k \in x .. (x + w - 1) : FaceOn(a, N, p, k, y + h) \notin Todo

QuadInv(q) ==
  \E a \in Axes, N \in {1, -1}, p, x, y \in Int, w, h \in Nat \ {0} :
    /\ IsSpan(MeshData[q], a, N, p, x, y, w, h)
    /\ Scanned(a, p, x, y)
    /\ Stopped(a, N, p, x, y, w, h)

(***************************************************************************)
(* The inductive invariant of the mesh: what the quads cover and what is   *)
(* left to cover are together the surface.                                 *)
(***************************************************************************)
MeshInv ==
  /\ AllOwn(MeshData)
  /\ Disjoint(MeshData)
  /\ NormalsFaceViewer
  /\ QuadsAreMaximal
  /\ phase \in {"Setup", "GenerateHeightMap"} =>
       MeshData = <<>> /\ Axis = 0 /\ Slice = -1 /\ j = Size
  /\ phase = "GenerateMesh" =>
       /\ Shown(MeshData) = Surface(Solid) \ Todo
       /\ MaskInv
       /\ \A q \in 1 .. Len(MeshData) : QuadInv(q)
  /\ phase \in {"Log", "ApplyMesh", "Done"} => Shown(MeshData) = Surface(Solid)
  /\ phase = "Done" => section = MeshData


\* A face is left to cover when it is on the surface and its place is left.
LEMMA TodoAt ==
  ASSUME NEW a \in Axes, NEW N \in {1, -1}, NEW p \in 0 .. Size,
         NEW k \in 0 .. (Size - 1), NEW l \in 0 .. (Size - 1)
  PROVE  FaceOn(a, N, p, k, l) \in Todo <=>
           FaceOn(a, N, p, k, l) \in Surface(Solid) /\ Left(a, N, p, k, l)
<1> USE SizeAssumption
<1>1. PICK f : f = FaceOn(a, N, p, k, l)
  OBVIOUS
<1>2. ASSUME NEW b \in Axes, NEW M \in {1, -1}, NEW q \in 0 .. Size,
             NEW m \in 0 .. (Size - 1), NEW n \in 0 .. (Size - 1),
             f = FaceOn(b, M, q, m, n), Left(b, M, q, m, n)
      PROVE  Left(a, N, p, k, l)
  <2>1. p \in Int /\ k \in Int /\ l \in Int /\ q \in Int /\ m \in Int /\ n \in Int
    OBVIOUS
  <2>2. FaceOn(a, N, p, k, l) = FaceOn(b, M, q, m, n)
    BY <1>1, <1>2
  <2>3. a = b /\ N = M /\ p = q /\ k = m /\ l = n
    BY <2>1, <2>2, FaceOnOnce
  <2> QED BY <1>2, <2>3
<1> QED BY <1>1, <1>2 DEF Todo

\* What is true of the places of all faces of the surface is true of the faces.
LEMMA SurfacePlaces ==
  ASSUME NEW f \in Surface(Solid)
  PROVE  \E a \in Axes, N \in {1, -1}, p \in 0 .. Size,
            k \in 0 .. (Size - 1), l \in 0 .. (Size - 1) : f = FaceOn(a, N, p, k, l)
BY FaceHasPlace DEF Surface

(***************************************************************************)
(* A step that leaves the places left as they are leaves the faces so.     *)
(***************************************************************************)
LEMMA SameTodo ==
  ASSUME Blocks' = Blocks,
         \A a \in Axes, N \in {1, -1}, p \in 0 .. Size,
            k \in 0 .. (Size - 1), l \in 0 .. (Size - 1) :
           FaceOn(a, N, p, k, l) \in Surface(Solid) =>
             (Left(a, N, p, k, l)' <=> Left(a, N, p, k, l))
  PROVE  Surface(Solid)' = Surface(Solid) /\ Todo' = Todo
<1>1. Surface(Solid)' = Surface(Solid)
  BY DEF Surface, Solid, GetBlock
<1>2. Todo' \subseteq Todo
  BY <1>1 DEF Todo
<1>3. Todo \subseteq Todo'
  BY <1>1 DEF Todo
<1> QED BY <1>1, <1>2, <1>3

(***************************************************************************)
(* Quads that were in order stay so when the scan goes on and no face is   *)
(* left that was not before.                                               *)
(***************************************************************************)
LEMMA QuadsStay ==
  ASSUME \A q \in 1 .. Len(MeshData) : QuadInv(q), Todo' \subseteq Todo,
         \A a \in Axes, p, x, y \in Int : Scanned(a, p, x, y) => Scanned(a, p, x, y)',
         NEW q \in 1 .. Len(MeshData), MeshData'[q] = MeshData[q]
  PROVE  QuadInv(q)'
<1>1. PICK a \in Axes, N \in {1, -1}, p, x, y \in Int, w, h \in Nat \ {0} :
        /\ IsSpan(MeshData[q], a, N, p, x, y, w, h)
        /\ Scanned(a, p, x, y)
        /\ Stopped(a, N, p, x, y, w, h)
  BY DEF QuadInv
<1>2. Stopped(a, N, p, x, y, w, h)'
  <2>1. FaceOn(a, N, p, x + w, y) \notin Todo'
    BY <1>1 DEF Stopped
  <2>2. \E k \in x .. (x + w - 1) : FaceOn(a, N, p, k, y + h) \notin Todo'
    BY <1>1 DEF Stopped
  <2> QED BY <2>1, <2>2 DEF Stopped
<1>3. Scanned(a, p, x, y)'
  BY <1>1
<1>4. IsSpan(MeshData'[q], a, N, p, x, y, w, h)
  BY <1>1
<1> QED BY <1>2, <1>3, <1>4 DEF QuadInv

GreedyInv == ScanInv /\ EveryBlockIsSet /\ MeshInv

(***************************************************************************)
(* A step of the sweeps that adds no quad keeps the invariant when it      *)
(* leaves the places left as they are, and its mask and scan are in order. *)
(***************************************************************************)
LEMMA SweepKeeps ==
  ASSUME GreedyInv, phase = "GenerateMesh", UNCHANGED <<phase, MeshData, Blocks>>,
         \A a \in Axes, N \in {1, -1}, p \in 0 .. Size,
            k \in 0 .. (Size - 1), l \in 0 .. (Size - 1) :
           FaceOn(a, N, p, k, l) \in Surface(Solid) =>
             (Left(a, N, p, k, l)' <=> Left(a, N, p, k, l)),
         \A a \in Axes, p, x, y \in Int : Scanned(a, p, x, y) => Scanned(a, p, x, y)',
         MaskInv'
  PROVE  MeshInv'
<1>1. Surface(Solid)' = Surface(Solid) /\ Todo' = Todo
  BY SameTodo
<1>2. \A q \in 1 .. Len(MeshData) : QuadInv(q)
  BY DEF GreedyInv, MeshInv
<1>3. \A q \in 1 .. Len(MeshData) : QuadInv(q)'
  BY <1>1, <1>2, QuadsStay
<1>4. MeshData' = MeshData /\ phase' = "GenerateMesh"
  OBVIOUS
<1>5. (AllOwn(MeshData) /\ Disjoint(MeshData) /\ NormalsFaceViewer /\ QuadsAreMaximal)'
  BY <1>4 DEF GreedyInv, MeshInv, NormalsFaceViewer, QuadsAreMaximal
<1>6. Shown(MeshData)' = Surface(Solid)' \ Todo'
  BY <1>1, <1>4 DEF GreedyInv, MeshInv
<1> QED BY <1>3, <1>4, <1>5, <1>6 DEF MeshInv

\* A block that is not air is stone.
LEMMA SolidIsStone ==
  ASSUME EveryBlockIsSet, phase = "GenerateMesh", NEW c \in Vector
  PROVE  GetBlock(c) \in {"Air", "Stone"}
<1>1. CASE \E a \in Axes : c[a] >= Size \/ c[a] < 0
  BY <1>1 DEF GetBlock
<1>2. CASE ~ \E a \in Axes : c[a] >= Size \/ c[a] < 0
  <2>1. c \in Cell
    BY <1>2, SizeAssumption DEF Cell, Vector
  <2> QED BY <1>2, <2>1, CellHasIndex DEF GetBlock, EveryBlockIsSet
<1> QED BY <1>1, <1>2

(***************************************************************************)
(* The mask BuildMask fills holds a face where there is one of the surface *)
(* in the slice, and only there.                                           *)
(***************************************************************************)
LEMMA MaskFilled ==
  ASSUME GreedyInv, BuildMask, NEW k \in 0 .. (Size - 1), NEW l \in 0 .. (Size - 1),
         NEW N \in {1, -1}
  PROVE  /\ Mask'[l * Size + k].Normal = N <=> FaceOn(Axis, N, Slice + 1, k, l) \in Surface(Solid)
         /\ Mask'[l * Size + k].Normal = N => Mask'[l * Size + k].Block = "Stone"
<1> USE SizeAssumption
<1>1. Axis \in Axes /\ Slice \in Int /\ phase = "GenerateMesh" /\ EveryBlockIsSet
  BY DEF GreedyInv, ScanInv, TypeOK, BuildMask, Axes
<1>2. PICK n \in MaskEntries : n = l * Size + k
  <2>1. l * Size + k \in 0 .. (Size * Size - 1)
    BY RowMajorBound
  <2> QED BY <2>1 DEF MaskEntries
<1>3. n % Size = k /\ n \div Size = l
  <2>1. l \in Nat /\ Size \in Nat
    OBVIOUS
  <2> QED BY <1>2, <2>1, RowMajorDigits
<1>4. SliceCell(n) = Spot(Axis, Slice, k, l)
  BY <1>3 DEF SliceCell, Axis1, Spot
<1>5. Plus(SliceCell(n), AxisMask) = Spot(Axis, Slice + 1, k, l)
  <2>1. \A s \in Int : Plus(Spot(Axis, s, k, l), AlongAxis(Axis, 1)) = Spot(Axis, s + 1, k, l)
    BY <1>1 DEF Plus, Spot, AlongAxis, Axes
  <2> QED BY <1>1, <1>4, <2>1 DEF AxisMask
<1>6. PICK b : b = GetBlock(Spot(Axis, Slice, k, l))
  OBVIOUS
<1>7. PICK c : c = GetBlock(Spot(Axis, Slice + 1, k, l))
  OBVIOUS
<1>8. Mask'[n] = FaceBetween(b, c)
  BY <1>4, <1>5, <1>6, <1>7 DEF BuildMask
<1>9. Spot(Axis, Slice, k, l) \in Vector /\ Spot(Axis, Slice + 1, k, l) \in Vector
  BY <1>1, SpotAt
<1>10. /\ b \in {"Air", "Stone"} /\ c \in {"Air", "Stone"}
       /\ b # "Air" <=> Spot(Axis, Slice, k, l) \in Solid
       /\ c # "Air" <=> Spot(Axis, Slice + 1, k, l) \in Solid
  BY <1>1, <1>6, <1>7, <1>9, SolidIsStone, GetBlockTells
<1>11. FaceOn(Axis, N, Slice + 1, k, l) \in Surface(Solid) <=>
         IF N = 1 THEN b # "Air" /\ c = "Air" ELSE b = "Air" /\ c # "Air"
  <2>1. FaceOn(Axis, N, Slice + 1, k, l) \in Surface(Solid) <=>
          /\ Spot(Axis, Behind(Slice + 1, N), k, l) \in Solid
          /\ Spot(Axis, Behind(Slice + 1, -N), k, l) \notin Solid
    <3>1. Slice + 1 \in Int /\ k \in Int /\ l \in Int
      BY <1>1
    <3> QED BY <1>1, <3>1, FaceOnSurface
  <2>2. CASE N = 1
    <3>1. Behind(Slice + 1, N) = Slice /\ Behind(Slice + 1, -N) = Slice + 1
      BY <1>1, <2>2 DEF Behind
    <3> QED BY <1>10, <2>1, <2>2, <3>1
  <2>3. CASE N = -1
    <3>1. Behind(Slice + 1, N) = Slice + 1 /\ Behind(Slice + 1, -N) = Slice
      <4>1. PICK p \in Int : p = Slice + 1 /\ p - 1 = Slice
        BY <1>1
      <4>2. Behind(p, N) = p
        BY <2>3 DEF Behind
      <4>3. Behind(p, N) + N = Behind(p, -N)
        BY BehindAt
      <4>4. Behind(p, -N) = p - 1
        BY <2>3, <4>2, <4>3
      <4> QED BY <4>1, <4>2, <4>4
    <3> QED BY <1>10, <2>1, <2>3, <3>1
  <2> QED BY <2>2, <2>3
<1>12. /\ Mask'[n].Normal = N <=> IF N = 1 THEN b # "Air" /\ c = "Air" ELSE b = "Air" /\ c # "Air"
       /\ Mask'[n].Normal = N => Mask'[n].Block = "Stone"
  BY <1>8, <1>10 DEF FaceBetween, NoFace
<1> QED BY <1>2, <1>11, <1>12

\* So it leaves no face out, and takes up none twice.
LEMMA BuildMaskKeeps ==
  ASSUME GreedyInv, BuildMask
  PROVE  MeshInv'
<1> USE SizeAssumption
<1>1. /\ Axis \in Axes /\ Slice \in Int /\ phase = "GenerateMesh" /\ j = Size
      /\ UNCHANGED <<phase, MeshData, Blocks>> /\ Axis' = Axis /\ Slice' = Slice + 1
      /\ MaskIndex' = 0 /\ i' = 0 /\ j' = 0
  BY DEF GreedyInv, ScanInv, TypeOK, BuildMask, Axes, baseVars
<1>2. ASSUME NEW a \in Axes, NEW N \in {1, -1}, NEW p \in 0 .. Size,
             NEW k \in 0 .. (Size - 1), NEW l \in 0 .. (Size - 1),
             FaceOn(a, N, p, k, l) \in Surface(Solid)
      PROVE  Left(a, N, p, k, l)' <=> Left(a, N, p, k, l)
  <2>1. Left(a, N, p, k, l) <=> a > Axis \/ (a = Axis /\ p > Slice)
    BY <1>1 DEF Left
  <2>2. Left(a, N, p, k, l)' <=>
          \/ a > Axis \/ (a = Axis /\ p > Slice + 1)
          \/ (a = Axis /\ p = Slice + 1 /\ Mask'[l * Size + k].Normal = N)
    BY <1>1 DEF Left
  <2>3. a = Axis /\ p = Slice + 1 => Mask'[l * Size + k].Normal = N
    BY <1>2, MaskFilled
  <2> QED BY <1>1, <2>1, <2>2, <2>3
<1>3. MaskInv'
  <2>1. Surface(Solid)' = Surface(Solid)
    BY <1>1 DEF Surface, Solid, GetBlock
  <2>2. \A k, l \in 0 .. (Size - 1), N \in {1, -1} :
          Mask'[l * Size + k].Normal = N =>
            /\ Mask'[l * Size + k].Block = "Stone"
            /\ FaceOn(Axis, N, Slice + 1, k, l) \in Surface(Solid)
    BY MaskFilled
  <2>3. \A n \in MaskEntries : ~(n < 0)
    BY DEF MaskEntries
  <2> QED BY <1>1, <2>1, <2>2, <2>3 DEF MaskInv
<1>4. \A a \in Axes, p, x, y \in Int : Scanned(a, p, x, y) => Scanned(a, p, x, y)'
  BY <1>1 DEF Scanned
<1> QED BY <1>1, <1>2, <1>3, <1>4, SweepKeeps


\* Passing over an entry without a face takes none away.
LEMMA SkipEntryKeeps ==
  ASSUME GreedyInv, SkipEntry
  PROVE  MeshInv'
<1> USE SizeAssumption
<1>1. /\ phase = "GenerateMesh" /\ UNCHANGED <<phase, MeshData, Blocks, Axis, Slice, Mask, j>>
      /\ i' = i + 1 /\ MaskIndex' = MaskIndex + 1 /\ Mask[MaskIndex].Normal = 0
      /\ i \in Nat /\ j \in Nat /\ j < Size /\ MaskIndex \in Nat
  BY DEF GreedyInv, ScanInv, TypeOK, SkipEntry, Scanning, baseVars
<1>2. \A a, N, p, k, l : Left(a, N, p, k, l)' <=> Left(a, N, p, k, l)
  BY <1>1 DEF Left
<1>3. MaskInv'
  <2>1. Surface(Solid)' = Surface(Solid)
    BY <1>1 DEF Surface, Solid, GetBlock
  <2>2. \A n \in MaskEntries : n < MaskIndex + 1 => n < MaskIndex \/ n = MaskIndex
    BY <1>1 DEF MaskEntries
  <2>3. MaskInv
    BY <1>1 DEF GreedyInv, MeshInv
  <2> QED BY <1>1, <2>1, <2>2, <2>3 DEF MaskInv
<1>4. \A a \in Axes, p, x, y \in Int : Scanned(a, p, x, y) => Scanned(a, p, x, y)'
  BY <1>1 DEF Scanned
<1> QED BY <1>1, <1>2, <1>3, <1>4, SweepKeeps

\* The mask is empty when the scan leaves its last row.
LEMMA NextRowKeeps ==
  ASSUME GreedyInv, NextRow
  PROVE  MeshInv'
<1> USE SizeAssumption
<1>1. /\ phase = "GenerateMesh" /\ UNCHANGED <<phase, MeshData, Blocks, Axis, Slice, Mask, MaskIndex>>
      /\ i' = 0 /\ j' = j + 1 /\ i = Size /\ j \in 0 .. (Size - 1) /\ MaskIndex = j * Size + i
  BY DEF GreedyInv, ScanInv, IndexInv, TypeOK, NextRow, baseVars
<1>2. MaskInv
  BY <1>1 DEF GreedyInv, MeshInv
<1>3. ASSUME NEW a \in Axes, NEW N \in {1, -1}, NEW p \in 0 .. Size,
             NEW k \in 0 .. (Size - 1), NEW l \in 0 .. (Size - 1)
      PROVE  Left(a, N, p, k, l)' <=> Left(a, N, p, k, l)
  <2>1. CASE j + 1 < Size
    BY <1>1, <2>1 DEF Left
  <2>2. CASE j + 1 = Size
    <3>1. l * Size + k \in MaskEntries
      BY RowMajorBound DEF MaskEntries
    <3>2. MaskIndex = Size * Size
      <4>1. MaskIndex = j * Size + Size
        BY <1>1
      <4>2. j * Size + Size = (j + 1) * Size
        BY <1>1
      <4> QED BY <2>2, <4>1, <4>2
    <3>3. l * Size + k < MaskIndex
      <4>1. Size * Size \in Int
        OBVIOUS
      <4> QED BY <3>1, <3>2, <4>1 DEF MaskEntries
    <3>4. Mask[l * Size + k].Normal = 0
      BY <1>1, <1>2, <3>1, <3>3 DEF MaskInv
    <3>5. Mask[l * Size + k].Normal # N
      BY <3>4
    <3> QED BY <1>1, <2>2, <3>5 DEF Left
  <2> QED BY <1>1, <2>1, <2>2
<1>4. MaskInv'
  <2>1. Surface(Solid)' = Surface(Solid)
    BY <1>1 DEF Surface, Solid, GetBlock
  <2> QED BY <1>1, <1>2, <2>1 DEF MaskInv
<1>5. \A a \in Axes, p, x, y \in Int : Scanned(a, p, x, y) => Scanned(a, p, x, y)'
  BY <1>1 DEF Scanned
<1> QED BY <1>1, <1>3, <1>4, <1>5, SweepKeeps

\* No slice of an axis is left when the next axis begins, and none of that has begun.
LEMMA NextAxisKeeps ==
  ASSUME GreedyInv, NextAxis
  PROVE  MeshInv'
<1> USE SizeAssumption
<1>1. /\ phase = "GenerateMesh" /\ UNCHANGED <<phase, MeshData, Blocks, Mask, MaskIndex, i, j>>
      /\ j = Size /\ Slice = Size /\ Axis \in Int /\ Axis' = Axis + 1 /\ Slice' = -1
  BY DEF GreedyInv, ScanInv, TypeOK, NextAxis, baseVars
<1>2. ASSUME NEW a \in Axes, NEW N \in {1, -1}, NEW p \in 0 .. Size,
             NEW k \in 0 .. (Size - 1), NEW l \in 0 .. (Size - 1)
      PROVE  Left(a, N, p, k, l)' <=> Left(a, N, p, k, l)
  BY <1>1 DEF Left, Axes
<1>3. MaskInv'
  BY <1>1 DEF MaskInv
<1>4. \A a \in Axes, p, x, y \in Int : Scanned(a, p, x, y) => Scanned(a, p, x, y)'
  BY <1>1 DEF Scanned, Axes
<1> QED BY <1>1, <1>2, <1>3, <1>4, SweepKeeps

\* When the last axis is done no face is left.
LEMMA EndMeshKeeps ==
  ASSUME GreedyInv, EndMesh
  PROVE  MeshInv'
<1>1. /\ phase = "GenerateMesh" /\ phase' = "Log" /\ MeshData' = MeshData /\ Blocks' = Blocks
      /\ Axis = 3
  BY DEF EndMesh, Enter, chunkVars
<1>2. \A a \in Axes : \A N, p, k, l : ~Left(a, N, p, k, l)
  BY <1>1 DEF Left, Axes
<1>3. Todo = {}
  BY <1>2 DEF Todo
<1>4. Surface(Solid)' = Surface(Solid)
  BY <1>1 DEF Surface, Solid, GetBlock
<1>5. Shown(MeshData)' = Surface(Solid)'
  BY <1>1, <1>3, <1>4 DEF GreedyInv, MeshInv
<1>6. (AllOwn(MeshData) /\ Disjoint(MeshData) /\ NormalsFaceViewer /\ QuadsAreMaximal)'
  BY <1>1 DEF GreedyInv, MeshInv, NormalsFaceViewer, QuadsAreMaximal
<1> QED BY <1>1, <1>5, <1>6 DEF MeshInv

-----------------------------------------------------------------------------
\* Moving a spot along the two axes of its plane.
LEMMA SpotMoves ==
  ASSUME NEW a \in Axes, NEW p \in Int, NEW x \in Int, NEW y \in Int, NEW w \in Int
  PROVE  /\ Plus(Spot(a, p, x, y), AlongAxis((a + 1) % 3, w)) = Spot(a, p, x + w, y)
         /\ Plus(Spot(a, p, x, y), AlongAxis((a + 2) % 3, w)) = Spot(a, p, x, y + w)
<1>1. /\ (a + 1) % 3 \in Axes /\ (a + 2) % 3 \in Axes
      /\ Axes = {a, (a + 1) % 3, (a + 2) % 3}
      /\ (a + 1) % 3 # a /\ (a + 2) % 3 # a /\ (a + 1) % 3 # (a + 2) % 3
  BY SpotAt
<1> DEFINE b == (a + 1) % 3
           c == (a + 2) % 3
<1>2. \A u, v \in Int : Spot(a, p, u, v) = [e \in Axes |-> IF e = a THEN p ELSE IF e = b THEN u ELSE v]
  BY <1>1 DEF Spot
<1>6. b \in Axes /\ c \in Axes /\ Axes = {a, b, c} /\ a # b /\ a # c /\ b # c
  BY <1>1
<1> HIDE DEF b, c
<1>3. Plus(Spot(a, p, x, y), AlongAxis(b, w)) = Spot(a, p, x + w, y)
  BY <1>2, <1>6 DEF Plus, AlongAxis
<1>4. Plus(Spot(a, p, x, y), AlongAxis(c, w)) = Spot(a, p, x, y + w)
  BY <1>2, <1>6 DEF Plus, AlongAxis
<1> QED BY <1>3, <1>4 DEF b, c

(***************************************************************************)
(* What AddQuad does, told of the place of its quad: the rectangle of      *)
(* width w and height h at column i and row j of the mask, on side N.      *)
(***************************************************************************)
Adds(w, h, N, new) ==
  /\ IsWidth(w)
  /\ IsHeight(w, h)
  /\ Mask[MaskIndex].Normal = N
  /\ Mask' = [n \in MaskEntries |-> IF n \in Cleared(w, h) THEN NoFace ELSE Mask[n]]
  /\ i' = i + w
  /\ MaskIndex' = MaskIndex + w
  /\ MeshData' = Append(MeshData, new)
  /\ new \in MeshQuad
  /\ new.tri = QuadTriangles(4 * Len(MeshData), N)
  /\ IsSpan(new, Axis, N, Slice, i, j, w, h)

\* Where the scan stands when it adds a quad.
LEMMA ScanStands ==
  ASSUME GreedyInv, Scanning
  PROVE  /\ i \in 0 .. (Size - 1) /\ j \in 0 .. (Size - 1) /\ MaskIndex = j * Size + i
         /\ MaskIndex \in MaskEntries /\ MaskIndex \in Nat /\ Mask[MaskIndex] \in FMask
         /\ Axis \in Axes /\ Slice \in Int /\ MaskInv /\ phase = "GenerateMesh"
         /\ Mask \in [MaskEntries -> FMask]
<1> USE SizeAssumption
<1>1. MaskIndex \in MaskEntries
  BY ScanInMask DEF GreedyInv
<1> QED BY <1>1 DEF GreedyInv, MeshInv, ScanInv, IndexInv, TypeOK, Scanning, Axes

\* The quad is the rectangle's.
LEMMA AddQuadAdds ==
  ASSUME GreedyInv, AddQuad
  PROVE  \E w \in 1 .. (Size - i), h \in 1 .. (Size - j), N \in {1, -1}, new \in MeshQuad :
           Adds(w, h, N, new)
<1> USE SizeAssumption
<1>1. /\ Scanning /\ i \in 0 .. (Size - 1) /\ j \in 0 .. (Size - 1)
      /\ MaskIndex \in MaskEntries /\ Mask[MaskIndex] \in FMask
      /\ Axis \in Axes /\ Slice \in Int /\ Mask[MaskIndex].Normal # 0
  BY ScanStands DEF AddQuad
<1>2. PICK w \in 1 .. (Size - i) :
        /\ IsWidth(w)
        /\ \E h \in 1 .. (Size - j) :
             /\ IsHeight(w, h)
             /\ LET at == [a \in Axes |-> IF a = Axis THEN Slice
                                          ELSE IF a = Axis1 THEN i ELSE j]
                    right == AlongAxis(Axis1, w)
                    down  == AlongAxis(Axis2, h)
                IN  CreateQuad(Mask[MaskIndex], AxisMask, at, Plus(at, right),
                               Plus(at, down), Plus(Plus(at, right), down))
             /\ Mask' = [n \in MaskEntries |->
                           IF n \in Cleared(w, h) THEN NoFace ELSE Mask[n]]
        /\ i' = i + w
        /\ MaskIndex' = MaskIndex + w
  BY DEF AddQuad
<1>3. PICK h \in 1 .. (Size - j) :
        /\ IsHeight(w, h)
        /\ LET at == [a \in Axes |-> IF a = Axis THEN Slice
                                     ELSE IF a = Axis1 THEN i ELSE j]
               right == AlongAxis(Axis1, w)
               down  == AlongAxis(Axis2, h)
           IN  CreateQuad(Mask[MaskIndex], AxisMask, at, Plus(at, right),
                          Plus(at, down), Plus(Plus(at, right), down))
        /\ Mask' = [n \in MaskEntries |->
                      IF n \in Cleared(w, h) THEN NoFace ELSE Mask[n]]
  BY <1>2
<1>4. PICK N \in {1, -1} : Mask[MaskIndex].Normal = N
  BY <1>1 DEF FMask
<1> DEFINE at == [a \in Axes |-> IF a = Axis THEN Slice ELSE IF a = Axis1 THEN i ELSE j]
           right == AlongAxis(Axis1, w)
           down  == AlongAxis(Axis2, h)
<1>5. CreateQuad(Mask[MaskIndex], AxisMask, at, Plus(at, right), Plus(at, down),
                 Plus(Plus(at, right), down))
  BY <1>3
<1>6. /\ at = Spot(Axis, Slice, i, j) /\ Plus(at, right) = Spot(Axis, Slice, i + w, j)
      /\ Plus(at, down) = Spot(Axis, Slice, i, j + h)
      /\ Plus(Plus(at, right), down) = Spot(Axis, Slice, i + w, j + h)
  <2>1. at = Spot(Axis, Slice, i, j)
    BY DEF Spot, Axis1
  <2>2. w \in Int /\ h \in Int /\ i \in Int /\ j \in Int /\ i + w \in Int
    BY <1>1
  <2>3. /\ Plus(Spot(Axis, Slice, i, j), right) = Spot(Axis, Slice, i + w, j)
        /\ Plus(Spot(Axis, Slice, i, j), down) = Spot(Axis, Slice, i, j + h)
        /\ Plus(Spot(Axis, Slice, i + w, j), down) = Spot(Axis, Slice, i + w, j + h)
    <3>1. \A x, y, u \in Int :
            /\ Plus(Spot(Axis, Slice, x, y), AlongAxis(Axis1, u)) = Spot(Axis, Slice, x + u, y)
            /\ Plus(Spot(Axis, Slice, x, y), AlongAxis(Axis2, u)) = Spot(Axis, Slice, x, y + u)
      BY <1>1, SpotMoves DEF Axis1, Axis2
    <3> QED BY <2>2, <3>1
  <2> HIDE DEF at, right, down
  <2> QED BY <2>1, <2>3
<1>7. PICK v1, v2, v3, v4 : /\ v1 = Spot(Axis, Slice, i, j) /\ v2 = Spot(Axis, Slice, i + w, j)
                            /\ v3 = Spot(Axis, Slice, i, j + h) /\ v4 = Spot(Axis, Slice, i + w, j + h)
  OBVIOUS
<1>8. CreateQuad(Mask[MaskIndex], AxisMask, v1, v2, v3, v4)
  BY <1>5, <1>6, <1>7
<1>9. MeshData \in Seq(MeshQuad) /\ VertexCount = 4 * Len(MeshData)
  BY DEF GreedyInv, ScanInv, TypeOK, MeshQuad
<1>10. PICK new : /\ new.v = [n \in 0 .. 3 |-> <<v1, v2, v3, v4>>[n + 1]]
                  /\ new.tri = QuadTriangles(VertexCount, N)
                  /\ new.normal = Times(N, AxisMask)
                  /\ MeshData' = Append(MeshData, new)
  <2> DEFINE quad == [v      |-> [n \in 0 .. 3 |-> <<v1, v2, v3, v4>>[n + 1]],
                      tri    |-> [k \in 0 .. 5 |-> VertexCount + <<0, 2 + N, 2 - N, 3, 1 - N, 1 + N>>[k + 1]],
                      normal |-> Times(N, AxisMask)]
  <2>1. MeshData' = Append(MeshData, quad)
    BY <1>4, <1>8 DEF CreateQuad
  <2>2. quad.tri = QuadTriangles(VertexCount, N)
    BY DEF QuadTriangles
  <2> QED BY <2>1, <2>2
<1>11. new.normal = Along(Axis, N)
  BY <1>1, <1>10 DEF Times, AxisMask, AlongAxis, Along, Axes
<1>12. new.v[0] = v1 /\ new.v[1] = v2 /\ new.v[2] = v3 /\ new.v[3] = v4
  BY <1>10
<1>13. IsSpan(new, Axis, N, Slice, i, j, w, h)
  BY <1>7, <1>11, <1>12 DEF IsSpan
<1>14. new \in MeshQuad
  <2>1. MeshData' \in Seq(MeshQuad)
    BY AddQuadScan DEF GreedyInv, ScanInv, TypeOK, MeshQuad
  <2>2. Len(MeshData) + 1 \in 1 .. Len(MeshData') /\ MeshData'[Len(MeshData) + 1] = new
    <3>1. MeshData' = Append(MeshData, new) /\ MeshData \in Seq(MeshQuad \cup {new}) /\ Len(MeshData) \in Nat
      BY <1>9, <1>10, LenProperties
    <3> QED BY <3>1, AppendProperties
  <2> QED BY <2>1, <2>2, ElementOfSeq
<1> QED BY <1>2, <1>3, <1>4, <1>9, <1>10, <1>13, <1>14 DEF Adds


\* An entry it clears is some columns and some rows after the scan.
LEMMA ClearedIs ==
  ASSUME NEW w, NEW h, NEW n \in Cleared(w, h)
  PROVE  \E b \in 0 .. (w - 1), c \in 0 .. (h - 1) : n = MaskIndex + b + c * Size
<1> DEFINE G(b, c) == MaskIndex + b + c * Size
<1>1. Cleared(w, h) = {G(b, c) : b \in 0 .. (w - 1), c \in 0 .. (h - 1)}
  BY DEF Cleared
<1> HIDE DEF G
<1>2. \E b \in 0 .. (w - 1), c \in 0 .. (h - 1) : n = G(b, c)
  BY <1>1
<1> QED BY <1>2 DEF G

\* The entries it clears are those of its columns and rows.
LEMMA ClearedAt ==
  ASSUME GreedyInv, Scanning, NEW w \in 1 .. (Size - i), NEW h \in 1 .. (Size - j),
         NEW k \in 0 .. (Size - 1), NEW l \in 0 .. (Size - 1)
  PROVE  l * Size + k \in Cleared(w, h) <=> k \in i .. (i + w - 1) /\ l \in j .. (j + h - 1)
<1> USE SizeAssumption
<1>1. i \in 0 .. (Size - 1) /\ j \in 0 .. (Size - 1) /\ MaskIndex = j * Size + i
  BY ScanStands
<1>2. ASSUME NEW b \in 0 .. (w - 1), NEW c \in 0 .. (h - 1)
      PROVE  /\ i + b \in 0 .. (Size - 1) /\ j + c \in 0 .. (Size - 1)
             /\ MaskIndex + b + c * Size = (j + c) * Size + (i + b)
  <2>1. i + b \in 0 .. (Size - 1) /\ j + c \in 0 .. (Size - 1)
    BY <1>1
  <2>2. (j + c) * Size = j * Size + c * Size /\ j * Size \in Int /\ c * Size \in Int
    BY <1>1
  <2> QED BY <1>1, <2>1, <2>2
<1>3. ASSUME NEW b \in 0 .. (w - 1), NEW c \in 0 .. (h - 1),
             l * Size + k = MaskIndex + b + c * Size
      PROVE  k \in i .. (i + w - 1) /\ l \in j .. (j + h - 1)
  <2>1. PICK x \in 0 .. (Size - 1) : x = i + b
    BY <1>2
  <2>2. PICK y \in 0 .. (Size - 1) : y = j + c
    BY <1>2
  <2>3. l * Size + k = y * Size + x
    BY <1>2, <1>3, <2>1, <2>2
  <2>4. /\ (l * Size + k) \div Size = l /\ (l * Size + k) % Size = k
        /\ (y * Size + x) \div Size = y /\ (y * Size + x) % Size = x
    <3>1. l \in Nat /\ y \in Nat
      OBVIOUS
    <3> QED BY <3>1, RowMajorDigits
  <2>5. l = y /\ k = x
    BY <2>3, <2>4
  <2> QED BY <1>1, <2>1, <2>2, <2>5
<1>4. ASSUME k \in i .. (i + w - 1), l \in j .. (j + h - 1)
      PROVE  l * Size + k \in Cleared(w, h)
  <2>1. PICK b \in 0 .. (w - 1) : k = i + b
    <3>1. k - i \in 0 .. (w - 1) /\ k = i + (k - i)
      BY <1>1, <1>4
    <3> QED BY <3>1
  <2>2. PICK c \in 0 .. (h - 1) : l = j + c
    <3>1. l - j \in 0 .. (h - 1) /\ l = j + (l - j)
      BY <1>1, <1>4
    <3> QED BY <3>1
  <2> QED BY <1>2, <2>1, <2>2 DEF Cleared
<1>5. ASSUME l * Size + k \in Cleared(w, h)
      PROVE  k \in i .. (i + w - 1) /\ l \in j .. (j + h - 1)
  <2>1. PICK n : n = l * Size + k
    OBVIOUS
  <2>2. PICK b \in 0 .. (w - 1), c \in 0 .. (h - 1) : l * Size + k = MaskIndex + b + c * Size
    BY <1>5, <2>1, ClearedIs
  <2> QED BY <1>3, <2>2
<1> QED BY <1>4, <1>5

(***************************************************************************)
(* The entries of its columns and rows all hold the face under the scan:   *)
(* IsWidth compared those of the first row, IsHeight the rows below.       *)
(***************************************************************************)
LEMMA RectangleRepeats ==
  ASSUME GreedyInv, Scanning, NEW w \in 1 .. (Size - i), NEW h \in 1 .. (Size - j),
         IsWidth(w), IsHeight(w, h),
         NEW k \in i .. (i + w - 1), NEW l \in j .. (j + h - 1)
  PROVE  Mask[l * Size + k].Normal = Mask[MaskIndex].Normal
<1> USE SizeAssumption
<1>1. i \in 0 .. (Size - 1) /\ j \in 0 .. (Size - 1) /\ MaskIndex = j * Size + i
  BY ScanStands
<1>2. PICK b \in 0 .. (w - 1) : k = i + b
  <2>1. k - i \in 0 .. (w - 1) /\ k = i + (k - i)
    BY <1>1
  <2> QED BY <2>1
<1>3. PICK c \in 0 .. (h - 1) : l = j + c
  <2>1. l - j \in 0 .. (h - 1) /\ l = j + (l - j)
    BY <1>1
  <2> QED BY <2>1
<1>4. MaskIndex + b + c * Size = l * Size + k
  <2>1. (j + c) * Size = j * Size + c * Size /\ j * Size \in Int /\ c * Size \in Int
    BY <1>1
  <2> QED BY <1>1, <1>2, <1>3, <2>1
<1>5. Repeats(MaskIndex + b + c * Size)
  <2>1. CASE c = 0
    <3>1. MaskIndex + b + c * Size = MaskIndex + b
      BY <1>1, <2>1
    <3>2. CASE b = 0
      <4>1. MaskIndex + b = MaskIndex
        BY <1>1, <3>2
      <4> QED BY <3>1, <4>1 DEF Repeats, CompareMask
    <3>3. CASE b # 0
      <4>1. b \in 1 .. (w - 1)
        BY <3>3
      <4> QED BY <3>1, <4>1 DEF IsWidth
    <3> QED BY <3>2, <3>3
  <2>2. CASE c # 0
    <3>1. c \in 1 .. (h - 1)
      BY <2>2
    <3> QED BY <3>1 DEF IsHeight, RowRepeats
  <2> QED BY <2>1, <2>2
<1> QED BY <1>4, <1>5 DEF Repeats, CompareMask

\* A face of the surface has its column, row and plane in the chunk.
LEMMA PlaceInChunk ==
  ASSUME NEW a \in Axes, NEW N \in {1, -1}, NEW p \in Int, NEW k \in Int, NEW l \in Int,
         FaceOn(a, N, p, k, l) \in Surface(Solid)
  PROVE  p \in 0 .. Size /\ k \in 0 .. (Size - 1) /\ l \in 0 .. (Size - 1)
<1> USE SizeAssumption
<1>1. FaceOn(a, N, p, k, l) \in Face
  BY DEF Surface
<1>2. PICK b \in Axes, M \in {1, -1}, q \in 0 .. Size, m \in 0 .. (Size - 1), n \in 0 .. (Size - 1) :
        FaceOn(a, N, p, k, l) = FaceOn(b, M, q, m, n)
  BY <1>1, FaceHasPlace
<1>3. q \in Int /\ m \in Int /\ n \in Int
  OBVIOUS
<1>4. p = q /\ k = m /\ l = n
  BY <1>2, <1>3, FaceOnOnce
<1> QED BY <1>4

\* An entry whose face is left to cover holds the same as any other of its side.
LEMMA TodoRepeats ==
  ASSUME GreedyInv, Scanning, NEW N \in {1, -1}, Mask[MaskIndex].Normal = N,
         NEW k \in Int, NEW l \in Int, FaceOn(Axis, N, Slice, k, l) \in Todo
  PROVE  k \in 0 .. (Size - 1) /\ l \in 0 .. (Size - 1) /\ Repeats(l * Size + k)
<1> USE SizeAssumption
<1>1. /\ i \in 0 .. (Size - 1) /\ j \in 0 .. (Size - 1) /\ MaskIndex = j * Size + i
      /\ Axis \in Axes /\ Slice \in Int /\ MaskInv
  BY ScanStands
<1>2. FaceOn(Axis, N, Slice, k, l) \in Surface(Solid)
  BY DEF Todo
<1>3. k \in 0 .. (Size - 1) /\ l \in 0 .. (Size - 1) /\ Slice \in 0 .. Size
  BY <1>1, <1>2, PlaceInChunk
<1>4. Left(Axis, N, Slice, k, l)
  BY <1>1, <1>3, TodoAt
<1>5. Mask[l * Size + k].Normal = N
  BY <1>1, <1>4 DEF Left, Axes
<1>6. j < Size
  BY <1>1
<1>7. Mask[l * Size + k].Block = "Stone"
  BY <1>1, <1>3, <1>5, <1>6 DEF MaskInv
<1>8. Mask[j * Size + i].Block = "Stone"
  BY <1>1, <1>6 DEF MaskInv
<1> QED BY <1>1, <1>3, <1>5, <1>7, <1>8 DEF Repeats, CompareMask


(***************************************************************************)
(* The faces of the rectangle are all left to cover when the quad is       *)
(* added, and afterwards they alone are not.                               *)
(***************************************************************************)
Rectangle(w, h, N) ==
  {FaceOn(Axis, N, Slice, k, l) : k \in i .. (i + w - 1), l \in j .. (j + h - 1)}

\* They are left.
LEMMA RectangleTodo ==
  ASSUME GreedyInv, Scanning, NEW w \in 1 .. (Size - i), NEW h \in 1 .. (Size - j),
         NEW N \in {1, -1}, NEW new, Adds(w, h, N, new)
  PROVE  Rectangle(w, h, N) \subseteq Todo /\ Slice \in 0 .. Size
<1> USE SizeAssumption
<1>1. /\ i \in 0 .. (Size - 1) /\ j \in 0 .. (Size - 1) /\ Axis \in Axes /\ Slice \in Int /\ MaskInv
  BY ScanStands
<1>2. ASSUME NEW k \in i .. (i + w - 1), NEW l \in j .. (j + h - 1)
      PROVE  FaceOn(Axis, N, Slice, k, l) \in Todo /\ Slice \in 0 .. Size
  <2>1. k \in 0 .. (Size - 1) /\ l \in 0 .. (Size - 1) /\ k \in Int /\ l \in Int /\ j < Size
    BY <1>1
  <2>2. IsWidth(w) /\ IsHeight(w, h) /\ Mask[MaskIndex].Normal = N
    BY DEF Adds
  <2>3. Mask[l * Size + k].Normal = N
    BY <2>2, RectangleRepeats
  <2>4. FaceOn(Axis, N, Slice, k, l) \in Surface(Solid)
    BY <1>1, <2>1, <2>3 DEF MaskInv
  <2>5. Slice \in 0 .. Size
    BY <1>1, <2>1, <2>4, PlaceInChunk
  <2>6. Left(Axis, N, Slice, k, l)
    BY <2>1, <2>3 DEF Left
  <2> QED BY <1>1, <2>1, <2>4, <2>5, <2>6, TodoAt
<1>3. i \in i .. (i + w - 1) /\ j \in j .. (j + h - 1)
  BY <1>1
<1> QED BY <1>2, <1>3 DEF Rectangle

\* Afterwards they are not, and every other face is as before.
LEMMA TodoAfter ==
  ASSUME GreedyInv, AddQuad, NEW w \in 1 .. (Size - i), NEW h \in 1 .. (Size - j),
         NEW N \in {1, -1}, NEW new, Adds(w, h, N, new)
  PROVE  Surface(Solid)' = Surface(Solid) /\ Todo' = Todo \ Rectangle(w, h, N)
<1> USE SizeAssumption
<1>1. /\ Scanning /\ i \in 0 .. (Size - 1) /\ j \in 0 .. (Size - 1) /\ Axis \in Axes /\ Slice \in Int
      /\ UNCHANGED <<Blocks, Axis, Slice, j>> /\ Mask \in [MaskEntries -> FMask]
  BY ScanStands DEF AddQuad
<1>2. Surface(Solid)' = Surface(Solid)
  BY <1>1 DEF Surface, Solid, GetBlock
<1>3. ASSUME NEW a \in Axes, NEW M \in {1, -1}, NEW p \in 0 .. Size,
             NEW k \in 0 .. (Size - 1), NEW l \in 0 .. (Size - 1)
      PROVE  Left(a, M, p, k, l)' <=>
               Left(a, M, p, k, l) /\ FaceOn(a, M, p, k, l) \notin Rectangle(w, h, N)
  <2>1. k \in Int /\ l \in Int /\ p \in Int /\ j < Size
    BY <1>1
  <2>2. FaceOn(a, M, p, k, l) \in Rectangle(w, h, N) <=>
          a = Axis /\ M = N /\ p = Slice /\ k \in i .. (i + w - 1) /\ l \in j .. (j + h - 1)
    <3>1. ASSUME NEW x \in i .. (i + w - 1), NEW y \in j .. (j + h - 1),
                 FaceOn(a, M, p, k, l) = FaceOn(Axis, N, Slice, x, y)
          PROVE  a = Axis /\ M = N /\ p = Slice /\ k = x /\ l = y
      <4>1. x \in Int /\ y \in Int
        BY <1>1
      <4> QED BY <1>1, <2>1, <3>1, <4>1, FaceOnOnce
    <3>2. ASSUME FaceOn(a, M, p, k, l) \in Rectangle(w, h, N)
          PROVE  a = Axis /\ M = N /\ p = Slice /\ k \in i .. (i + w - 1) /\ l \in j .. (j + h - 1)
      <4>1. PICK x \in i .. (i + w - 1), y \in j .. (j + h - 1) :
              FaceOn(a, M, p, k, l) = FaceOn(Axis, N, Slice, x, y)
        BY <3>2 DEF Rectangle
      <4> QED BY <3>1, <4>1
    <3>3. ASSUME a = Axis, M = N, p = Slice, k \in i .. (i + w - 1), l \in j .. (j + h - 1)
          PROVE  FaceOn(a, M, p, k, l) \in Rectangle(w, h, N)
      BY <3>3 DEF Rectangle
    <3> QED BY <3>2, <3>3
  <2>3. l * Size + k \in MaskEntries
    BY RowMajorBound DEF MaskEntries
  <2>4. l * Size + k \in Cleared(w, h) <=> k \in i .. (i + w - 1) /\ l \in j .. (j + h - 1)
    BY <1>1, ClearedAt
  <2>5. Mask'[l * Size + k] = IF l * Size + k \in Cleared(w, h) THEN NoFace ELSE Mask[l * Size + k]
    BY <2>3 DEF Adds
  <2>6. NoFace.Normal = 0 /\ M # 0
    BY DEF NoFace
  <2>7. k \in i .. (i + w - 1) /\ l \in j .. (j + h - 1) => Mask[l * Size + k].Normal = N
    BY <1>1, RectangleRepeats DEF Adds
  <2>8. Left(a, M, p, k, l)' <=> \/ a > Axis \/ (a = Axis /\ p > Slice)
                                 \/ (a = Axis /\ p = Slice /\ Mask'[l * Size + k].Normal = M)
    BY <1>1, <2>1 DEF Left
  <2>9. Left(a, M, p, k, l) <=> \/ a > Axis \/ (a = Axis /\ p > Slice)
                                \/ (a = Axis /\ p = Slice /\ Mask[l * Size + k].Normal = M)
    BY <1>1, <2>1 DEF Left
  <2>10. ASSUME a = Axis PROVE ~(a > Axis)
    BY <1>1, <2>10 DEF Axes
  <2>11. ASSUME p = Slice PROVE ~(p > Slice)
    BY <1>1, <2>11
  <2> QED BY <2>2, <2>4, <2>5, <2>6, <2>7, <2>8, <2>9, <2>10, <2>11
<1>4. Todo' \subseteq Todo \ Rectangle(w, h, N)
  <2> SUFFICES ASSUME NEW f \in Todo' PROVE f \in Todo \ Rectangle(w, h, N)
    OBVIOUS
  <2>1. f \in Surface(Solid)
    BY <1>2 DEF Todo
  <2>2. PICK a \in Axes, M \in {1, -1}, p \in 0 .. Size, k \in 0 .. (Size - 1), l \in 0 .. (Size - 1) :
          f = FaceOn(a, M, p, k, l) /\ Left(a, M, p, k, l)'
    BY DEF Todo
  <2>3. Left(a, M, p, k, l) /\ f \notin Rectangle(w, h, N)
    BY <1>3, <2>2
  <2> QED BY <2>1, <2>2, <2>3 DEF Todo
<1>5. Todo \ Rectangle(w, h, N) \subseteq Todo'
  <2> SUFFICES ASSUME NEW f \in Todo, f \notin Rectangle(w, h, N) PROVE f \in Todo'
    OBVIOUS
  <2>1. f \in Surface(Solid)'
    BY <1>2 DEF Todo
  <2>2. PICK a \in Axes, M \in {1, -1}, p \in 0 .. Size, k \in 0 .. (Size - 1), l \in 0 .. (Size - 1) :
          f = FaceOn(a, M, p, k, l) /\ Left(a, M, p, k, l)
    BY DEF Todo
  <2>3. Left(a, M, p, k, l)'
    BY <1>3, <2>2
  <2> QED BY <2>1, <2>2, <2>3 DEF Todo
<1> QED BY <1>2, <1>4, <1>5

\* The mask stays in order.
LEMMA MaskAfter ==
  ASSUME GreedyInv, AddQuad, NEW w \in 1 .. (Size - i), NEW h \in 1 .. (Size - j),
         NEW N \in {1, -1}, NEW new, Adds(w, h, N, new)
  PROVE  MaskInv'
<1> USE SizeAssumption
<1>1. /\ Scanning /\ i \in 0 .. (Size - 1) /\ j \in 0 .. (Size - 1) /\ Axis \in Axes /\ Slice \in Int
      /\ UNCHANGED <<Axis, Slice, j>> /\ MaskInv /\ MaskIndex \in Nat
      /\ Mask' = [n \in MaskEntries |-> IF n \in Cleared(w, h) THEN NoFace ELSE Mask[n]]
      /\ MaskIndex' = MaskIndex + w
  BY ScanStands DEF AddQuad, Adds
<1>2. Surface(Solid)' = Surface(Solid)
  BY TodoAfter
<1>3. NoFace.Normal = 0
  BY DEF NoFace
<1>4. ASSUME NEW k \in 0 .. (Size - 1), NEW l \in 0 .. (Size - 1), NEW M \in {1, -1},
             Mask'[l * Size + k].Normal = M
      PROVE  /\ Mask'[l * Size + k].Block = "Stone"
             /\ FaceOn(Axis, M, Slice, k, l) \in Surface(Solid)
  <2>1. l * Size + k \in MaskEntries /\ j < Size
    BY <1>1, RowMajorBound DEF MaskEntries
  <2>2. Mask'[l * Size + k] = Mask[l * Size + k]
    BY <1>1, <1>3, <1>4, <2>1
  <2> QED BY <1>1, <1>4, <2>1, <2>2 DEF MaskInv
<1>5. ASSUME NEW n \in MaskEntries, n < MaskIndex + w
      PROVE  Mask'[n].Normal = 0
  <2>1. CASE n < MaskIndex
    <3>1. Mask[n].Normal = 0 /\ j < Size
      BY <1>1, <2>1 DEF MaskInv
    <3> QED BY <1>1, <1>3, <3>1
  <2>2. CASE ~(n < MaskIndex)
    <3>1. PICK b \in 0 .. (w - 1) : n = MaskIndex + b
      <4>1. n - MaskIndex \in 0 .. (w - 1) /\ n = MaskIndex + (n - MaskIndex)
        BY <1>1, <1>5, <2>2 DEF MaskEntries
      <4> QED BY <4>1
    <3>2. 0 \in 0 .. (h - 1) /\ n = MaskIndex + b + 0 * Size
      BY <1>1, <3>1
    <3>3. n \in Cleared(w, h)
      BY <3>2 DEF Cleared
    <3> QED BY <1>1, <1>3, <3>3
  <2> QED BY <2>1, <2>2
<1> QED BY <1>1, <1>2, <1>4, <1>5 DEF MaskInv


-----------------------------------------------------------------------------
(***************************************************************************)
(* The quad is shaded along its normal and stops where no more faces are   *)
(* left to take in.                                                        *)
(***************************************************************************)
LEMMA NewQuadInOrder ==
  ASSUME GreedyInv, AddQuad, NEW w \in 1 .. (Size - i), NEW h \in 1 .. (Size - j),
         NEW N \in {1, -1}, NEW new, Adds(w, h, N, new),
         NEW a, NEW p, NEW x, NEW y, a = Axis, p = Slice, x = i, y = j
  PROVE  Stopped(a, N, p, x, y, w, h)' /\ Scanned(a, p, x, y)'
<1> USE SizeAssumption
<1>1. /\ Scanning /\ i \in 0 .. (Size - 1) /\ j \in 0 .. (Size - 1) /\ Axis \in Axes /\ Slice \in Int
      /\ UNCHANGED <<Axis, Slice, j>> /\ i' = i + w /\ MaskIndex = j * Size + i
      /\ IsWidth(w) /\ IsHeight(w, h) /\ Mask[MaskIndex].Normal = N
  BY ScanStands DEF AddQuad, Adds
<1>2. Todo' \subseteq Todo
  BY TodoAfter
<1>3. Scanned(a, p, x, y)'
  BY <1>1 DEF Scanned, Axes
<1>4. FaceOn(Axis, N, Slice, i + w, j) \notin Todo
  <2> SUFFICES ASSUME FaceOn(Axis, N, Slice, i + w, j) \in Todo PROVE FALSE
    OBVIOUS
  <2>1. PICK k \in Int : k = i + w
    BY <1>1
  <2>2. k \in 0 .. (Size - 1) /\ Repeats(j * Size + k)
    <3>1. j \in Int /\ FaceOn(Axis, N, Slice, k, j) \in Todo
      BY <1>1, <2>1
    <3> QED BY <1>1, <3>1, TodoRepeats
  <2>3. j * Size + k = MaskIndex + w
    <3>1. j * Size \in Int
      BY <1>1
    <3> QED BY <1>1, <2>1, <3>1
  <2> QED BY <1>1, <2>1, <2>2, <2>3 DEF IsWidth
<1>5. \E k \in i .. (i + w - 1) : FaceOn(Axis, N, Slice, k, j + h) \notin Todo
  <2> SUFFICES ASSUME \A k \in i .. (i + w - 1) : FaceOn(Axis, N, Slice, k, j + h) \in Todo
               PROVE  FALSE
    OBVIOUS
  <2>1. PICK l \in Int : l = j + h
    BY <1>1
  <2>2. \A k \in i .. (i + w - 1) : l \in 0 .. (Size - 1) /\ Repeats(l * Size + k)
    <3> SUFFICES ASSUME NEW k \in i .. (i + w - 1)
                 PROVE  l \in 0 .. (Size - 1) /\ Repeats(l * Size + k)
      OBVIOUS
    <3>1. k \in Int /\ FaceOn(Axis, N, Slice, k, l) \in Todo
      BY <1>1, <2>1
    <3> QED BY <1>1, <3>1, TodoRepeats
  <2>3. j + h < Size
    <3>1. i \in i .. (i + w - 1)
      BY <1>1
    <3> QED BY <2>1, <2>2, <3>1
  <2>4. ASSUME NEW b \in 0 .. (w - 1) PROVE Repeats(MaskIndex + b + h * Size)
    <3>1. i + b \in i .. (i + w - 1)
      BY <1>1
    <3>2. Repeats(l * Size + (i + b))
      BY <2>2, <3>1
    <3>3. MaskIndex + b + h * Size = l * Size + (i + b)
      <4>1. (j + h) * Size = j * Size + h * Size /\ j * Size \in Int /\ h * Size \in Int
        BY <1>1
      <4> QED BY <1>1, <2>1, <4>1
    <3> QED BY <3>2, <3>3
  <2> QED BY <1>1, <2>3, <2>4 DEF IsHeight, RowRepeats
<1>6. Stopped(a, N, p, x, y, w, h)'
  <2>1. FaceOn(a, N, p, x + w, y) \notin Todo'
    BY <1>2, <1>4
  <2>2. \E k \in x .. (x + w - 1) : FaceOn(a, N, p, k, y + h) \notin Todo'
    BY <1>2, <1>5
  <2> QED BY <2>1, <2>2 DEF Stopped
<1> QED BY <1>3, <1>6

(***************************************************************************)
(* Two quads with one on a side of the other cannot be merged when the     *)
(* first stopped at that side.                                             *)
(***************************************************************************)
LEMMA SpansMeet ==
  ASSUME NEW p, NEW q,
         NEW a \in Axes, NEW N \in Int, N # 0, NEW c \in Int, NEW x \in Int, NEW y \in Int,
         NEW w \in Int, NEW h \in Int, IsSpan(p, a, N, c, x, y, w, h),
         NEW b \in Axes, NEW M \in Int, NEW d \in Int, NEW u \in Int, NEW z \in Int,
         NEW s \in Int, NEW t \in Int, IsSpan(q, b, M, d, u, z, s, t),
         Mergeable(p, q)
  PROVE  /\ a = b /\ N = M /\ c = d
         /\ \/ u = x + w /\ z = y /\ t = h
            \/ u = x /\ z = y + h /\ s = w
<1>1. a = b /\ N = M
  <2>1. Along(a, N) = Along(b, M)
    BY DEF Mergeable, IsSpan
  <2>2. Along(a, N)[a] = N /\ Along(b, M)[b] = M /\ (a # b => Along(b, M)[a] = 0)
    BY AlongAt
  <2> QED BY <2>1, <2>2
<1>2. x + w \in Int /\ y + h \in Int /\ u + s \in Int /\ z + t \in Int
  OBVIOUS
<1>3. CASE p.v[1] = q.v[0] /\ p.v[3] = q.v[2]
  <2>1. /\ Spot(a, c, x + w, y) = Spot(a, d, u, z)
        /\ Spot(a, c, x + w, y + h) = Spot(a, d, u, z + t)
    BY <1>1, <1>3 DEF IsSpan
  <2>2. c = d /\ x + w = u /\ y = z /\ y + h = z + t
    BY <1>2, <2>1, SpotsDiffer
  <2> QED BY <1>1, <2>2
<1>4. CASE p.v[2] = q.v[0] /\ p.v[3] = q.v[1]
  <2>1. /\ Spot(a, c, x, y + h) = Spot(a, d, u, z)
        /\ Spot(a, c, x + w, y + h) = Spot(a, d, u + s, z)
    BY <1>1, <1>4 DEF IsSpan
  <2>2. c = d /\ x = u /\ y + h = z /\ x + w = u + s
    BY <1>2, <2>1, SpotsDiffer
  <2> QED BY <1>1, <2>2
<1>5. \E n \in {1, 2} : p.v[n] = q.v[0] /\ p.v[3] = q.v[3 - n]
  BY DEF Mergeable
<1>6. 3 - 1 = 2 /\ 3 - 2 = 1
  OBVIOUS
<1> QED BY <1>3, <1>4, <1>5, <1>6

(***************************************************************************)
(* So the new quad merges with none: a quad before it stopped, and lies    *)
(* before it, where it does not reach back.                                *)
(***************************************************************************)
LEMMA NewQuadApart ==
  ASSUME GreedyInv, AddQuad, NEW w \in 1 .. (Size - i), NEW h \in 1 .. (Size - j),
         NEW N \in {1, -1}, NEW new, Adds(w, h, N, new)
  PROVE  /\ \A q \in 1 .. Len(MeshData) : ~Mergeable(MeshData[q], new) /\ ~Mergeable(new, MeshData[q])
         /\ ~Mergeable(new, new)
<1> USE SizeAssumption
<1>1. /\ Scanning /\ i \in 0 .. (Size - 1) /\ j \in 0 .. (Size - 1) /\ Axis \in Axes /\ Slice \in Int
      /\ phase = "GenerateMesh"
  BY ScanStands DEF AddQuad
<1>2. PICK e \in Axes, c \in Int, u \in Int, v \in Int : e = Axis /\ c = Slice /\ u = i /\ v = j
  BY <1>1
<1>3. /\ w \in Int /\ h \in Int /\ w > 0 /\ h > 0 /\ N \in Int /\ N # 0
      /\ IsSpan(new, e, N, c, u, v, w, h)
  BY <1>1, <1>2 DEF Adds
<1>4. \A k \in u .. (u + w - 1), l \in v .. (v + h - 1) : FaceOn(e, N, c, k, l) \in Todo
  <2>1. Rectangle(w, h, N) \subseteq Todo
    BY <1>1, RectangleTodo
  <2>2. \A k \in i .. (i + w - 1), l \in j .. (j + h - 1) : FaceOn(Axis, N, Slice, k, l) \in Rectangle(w, h, N)
    BY DEF Rectangle
  <2> QED BY <1>2, <2>1, <2>2
<1>5. ASSUME NEW q \in 1 .. Len(MeshData)
      PROVE  ~Mergeable(MeshData[q], new) /\ ~Mergeable(new, MeshData[q])
  <2>1. PICK r : r = MeshData[q]
    OBVIOUS
  <2>2. PICK a \in Axes, M \in {1, -1}, p, x, y \in Int, s, t \in Nat \ {0} :
          /\ IsSpan(r, a, M, p, x, y, s, t)
          /\ Scanned(a, p, x, y)
          /\ Stopped(a, M, p, x, y, s, t)
    BY <1>1, <2>1 DEF GreedyInv, MeshInv, QuadInv
  <2>5. s \in Int /\ t \in Int /\ s > 0 /\ t > 0 /\ M \in Int /\ M # 0
    OBVIOUS
  <2>3. ASSUME Mergeable(r, new) PROVE FALSE
    <3>1. /\ a = e /\ M = N /\ p = c
          /\ \/ u = x + s /\ v = y /\ h = t
             \/ u = x /\ v = y + t /\ w = s
      BY <1>3, <2>2, <2>5, <2>3, SpansMeet
    <3>2. CASE u = x + s /\ v = y /\ h = t
      <4>1. u \in u .. (u + w - 1) /\ v \in v .. (v + h - 1)
        BY <1>3
      <4>2. FaceOn(a, M, p, x + s, y) \in Todo
        BY <1>4, <3>1, <3>2, <4>1
      <4> QED BY <2>2, <4>2 DEF Stopped
    <3>3. CASE u = x /\ v = y + t /\ w = s
      <4>1. v \in v .. (v + h - 1)
        BY <1>3
      <4>2. \A k \in x .. (x + s - 1) : FaceOn(a, M, p, k, y + t) \in Todo
        BY <1>4, <3>1, <3>3, <4>1
      <4> QED BY <2>2, <4>2 DEF Stopped
    <3> QED BY <3>1, <3>2, <3>3
  <2>4. ASSUME Mergeable(new, r) PROVE FALSE
    <3>1. /\ e = a /\ N = M /\ c = p
          /\ \/ x = u + w /\ y = v /\ t = h
             \/ x = u /\ y = v + h /\ s = w
      BY <1>3, <2>2, <2>5, <2>4, SpansMeet
    <3>2. y < v \/ (y = v /\ x < u)
      BY <1>2, <2>2, <3>1 DEF Scanned, Axes
    <3> QED BY <1>3, <3>1, <3>2
  <2> QED BY <2>1, <2>3, <2>4
<1>6. ASSUME Mergeable(new, new) PROVE FALSE
  <2>1. (u = u + w /\ v = v /\ h = h) \/ (u = u /\ v = v + h /\ w = w)
    BY <1>3, <1>6, SpansMeet
  <2> QED BY <1>3, <2>1
<1> QED BY <1>5, <1>6


(***************************************************************************)
(* Adding a quad keeps the invariant.                                      *)
(***************************************************************************)
LEMMA AddQuadKeeps ==
  ASSUME GreedyInv, AddQuad
  PROVE  MeshInv'
<1> USE SizeAssumption
<1>1. /\ Scanning /\ Axis \in Axes /\ Slice \in Int /\ phase = "GenerateMesh" /\ phase' = phase
      /\ i \in 0 .. (Size - 1) /\ j \in 0 .. (Size - 1) /\ UNCHANGED <<Axis, Slice, j>>
  BY ScanStands DEF AddQuad
<1>2. PICK w \in 1 .. (Size - i), h \in 1 .. (Size - j), N \in {1, -1}, new \in MeshQuad :
        Adds(w, h, N, new)
  BY AddQuadAdds
<1>3. PICK a \in Axes, p \in Int, x \in Int, y \in Int : a = Axis /\ p = Slice /\ x = i /\ y = j
  BY <1>1
<1>4. w \in Nat \ {0} /\ h \in Nat \ {0} /\ i' = i + w
  BY <1>1, <1>2 DEF Adds
<1>5. PICK R : R = Rectangle(w, h, N)
  OBVIOUS
<1>6. R = {FaceOn(a, N, p, k, l) : k \in x .. (x + w - 1), l \in y .. (y + h - 1)}
  BY <1>3, <1>5 DEF Rectangle
<1>7. R \subseteq Todo /\ Surface(Solid)' = Surface(Solid) /\ Todo' = Todo \ R
  BY <1>1, <1>2, <1>5, RectangleTodo, TodoAfter
<1>8. /\ MeshData \in Seq(MeshQuad) /\ AllOwn(MeshData) /\ Disjoint(MeshData)
      /\ NormalsFaceViewer /\ QuadsAreMaximal /\ Shown(MeshData) = Surface(Solid) \ Todo
      /\ \A q \in 1 .. Len(MeshData) : QuadInv(q)
  BY <1>1 DEF GreedyInv, MeshInv, ScanInv, TypeOK, MeshQuad
<1>9. PICK more : more = Append(MeshData, new)
  OBVIOUS
<1>10. MeshData' = more
  BY <1>2, <1>9 DEF Adds
<1>11. PICK n \in Nat \ {0} : n = Len(MeshData) + 1
  BY <1>8, LenProperties
<1>12. /\ Len(more) = n /\ 1 .. n = 1 .. Len(MeshData) \cup {n} /\ more[n] = new
       /\ \A q \in 1 .. Len(MeshData) : more[q] = MeshData[q]
  <2>1. Len(more) = n /\ more[n] = new /\ \A q \in 1 .. Len(MeshData) : more[q] = MeshData[q]
    BY <1>2, <1>8, <1>9, <1>11, AppendProperties
  <2>2. Len(MeshData) \in Nat
    BY <1>8, LenProperties
  <2>3. 1 .. n = 1 .. Len(MeshData) \cup {n}
    BY <1>11, <2>2
  <2> QED BY <2>1, <2>3
<1>13. /\ new.tri = QuadTriangles(4 * (n - 1), N) /\ IsSpan(new, a, N, p, x, y, w, h)
       /\ new.normal = Along(a, N)
  <2>1. Len(MeshData) = n - 1
    BY <1>8, <1>11, LenProperties
  <2> QED BY <1>2, <1>3, <2>1 DEF Adds, IsSpan
<1>14. IsOwn(more, n) /\ Covered(more, n) = R
  <2>1. IsOwn(more, n)
    BY <1>12, <1>13, QuadCorners
  <2>2. /\ more[n].tri = QuadTriangles(4 * (n - 1), N)
        /\ more[n].v[0] = Spot(a, p, x, y) /\ more[n].v[1] = Spot(a, p, x + w, y)
        /\ more[n].v[2] = Spot(a, p, x, y + h) /\ more[n].v[3] = Spot(a, p, x + w, y + h)
    BY <1>12, <1>13 DEF IsSpan
  <2>3. PICK u \in Int, z \in Int, b \in Int : u = x + w /\ z = y + h /\ b = 4 * (n - 1)
    BY <1>4
  <2>4. n \in Int /\ n > 0 /\ x < u /\ y < z
    BY <1>4, <2>3
  <2>5. /\ more[n].tri = QuadTriangles(b, N)
        /\ more[n].v[0] = Spot(a, p, x, y) /\ more[n].v[1] = Spot(a, p, u, y)
        /\ more[n].v[2] = Spot(a, p, x, z) /\ more[n].v[3] = Spot(a, p, u, z)
    BY <2>2, <2>3
  <2>6. Covered(more, n) = FacesIn(a, N, p, x, y, u, z)
    BY <2>3, <2>4, <2>5, GreedyQuadCovers
  <2> QED BY <1>6, <2>1, <2>3, <2>6 DEF FacesIn
<1>15. AllOwn(more) /\ Disjoint(more) /\ Shown(more) = Shown(MeshData) \cup R
  <2>1. R \cap Shown(MeshData) = {}
    BY <1>7, <1>8
  <2>2. IsOwn(Append(MeshData, new), Len(MeshData) + 1)
    BY <1>9, <1>11, <1>14
  <2>3. Covered(Append(MeshData, new), Len(MeshData) + 1) = R
    BY <1>9, <1>11, <1>14
  <2> QED BY <1>2, <1>8, <1>9, <2>1, <2>2, <2>3, OneMoreQuad
<1>16. Shown(more) = Surface(Solid)' \ Todo'
  <2>1. Todo \subseteq Surface(Solid)
    BY DEF Todo
  <2> QED BY <1>7, <1>8, <1>15, <2>1
<1>17. NormalsFaceViewer'
  <2>1. ASSUME NEW q \in 1 .. Len(more), NEW f \in Covered(more, q)
        PROVE  Toward(f.dir) = more[q].normal
    <3>1. CASE q = n
      <4>1. PICK k \in x .. (x + w - 1), l \in y .. (y + h - 1) : f = FaceOn(a, N, p, k, l)
        BY <1>6, <1>14, <2>1, <3>1
      <4>2. f.dir = Way(a, N)
        BY <4>1 DEF FaceOn
      <4> QED BY <1>12, <1>13, <3>1, <4>2, WayIs
    <3>2. CASE q # n
      <4>1. q \in 1 .. Len(MeshData)
        BY <1>12, <3>2
      <4>2. IsOwn(MeshData, q)
        BY <1>8, <4>1 DEF AllOwn
      <4>3. Covered(more, q) = Covered(MeshData, q) /\ more[q] = MeshData[q]
        BY <1>2, <1>8, <1>9, <1>12, <4>1, <4>2, QuadStays
      <4> QED BY <1>8, <2>1, <4>1, <4>3 DEF NormalsFaceViewer
    <3> QED BY <3>1, <3>2
  <2> QED BY <1>10, <2>1 DEF NormalsFaceViewer
<1>18. QuadsAreMaximal'
  <2>1. /\ \A q \in 1 .. Len(MeshData) : ~Mergeable(MeshData[q], new) /\ ~Mergeable(new, MeshData[q])
        /\ ~Mergeable(new, new)
    BY <1>2, NewQuadApart
  <2>2. \A q, r \in 1 .. Len(more) : ~Mergeable(more[q], more[r])
    BY <1>8, <1>12, <2>1 DEF QuadsAreMaximal
  <2> QED BY <1>10, <2>2 DEF QuadsAreMaximal
<1>19. \A q \in 1 .. Len(more) : QuadInv(q)'
  <2>1. ASSUME NEW q \in 1 .. Len(MeshData) PROVE QuadInv(q)'
    <3>1. \A b \in Axes, c, u, v \in Int : Scanned(b, c, u, v) => Scanned(b, c, u, v)'
      BY <1>1, <1>4 DEF Scanned
    <3>2. MeshData'[q] = MeshData[q] /\ Todo' \subseteq Todo
      BY <1>7, <1>10, <1>12
    <3> QED BY <1>8, <3>1, <3>2, QuadsStay
  <2>2. QuadInv(n)'
    <3>1. Stopped(a, N, p, x, y, w, h)' /\ Scanned(a, p, x, y)'
      BY <1>2, <1>3, NewQuadInOrder
    <3>2. IsSpan(MeshData'[n], a, N, p, x, y, w, h)
      BY <1>10, <1>12, <1>13
    <3> QED BY <1>4, <3>1, <3>2 DEF QuadInv
  <2> QED BY <1>12, <2>1, <2>2
<1>20. MaskInv'
  BY <1>2, MaskAfter
<1> QED BY <1>1, <1>10, <1>15, <1>16, <1>17, <1>18, <1>19, <1>20 DEF MeshInv

\* A mesh without quads covers nothing.
LEMMA EmptyMesh ==
  AllOwn(<<>>) /\ Disjoint(<<>>) /\ Shown(<<>>) = {}
<1>1. 1 .. Len(<<>>) = {}
  BY EmptySeq
<1> QED BY <1>1 DEF AllOwn, Disjoint, Shown

(***************************************************************************)
(* The invariant holds throughout BeginPlay.                               *)
(***************************************************************************)
LEMMA GreedyInvariant == Spec => []GreedyInv
<1> USE SizeAssumption
<1>1. Init => MeshInv
  <2> SUFFICES ASSUME Init PROVE MeshInv
    OBVIOUS
  <2>1. MeshData = <<>> /\ Axis = 0 /\ Slice = -1 /\ j = Size /\ phase = "Setup"
    BY DEF Init, BaseInit
  <2>2. 1 .. Len(MeshData) = {}
    BY <2>1, EmptySeq
  <2> QED BY <2>1, <2>2, EmptyMesh DEF MeshInv, NormalsFaceViewer, QuadsAreMaximal
<1>2. ScanInv /\ EveryBlockIsSet /\ MeshInv /\ [Next]_vars => MeshInv'
  <2> SUFFICES ASSUME ScanInv, EveryBlockIsSet, MeshInv, [Next]_vars PROVE MeshInv'
    OBVIOUS
  <2>1. GreedyInv
    BY DEF GreedyInv
  <2>2. ASSUME UNCHANGED MeshData
        PROVE  (AllOwn(MeshData) /\ Disjoint(MeshData) /\ NormalsFaceViewer /\ QuadsAreMaximal)'
    BY <2>2 DEF MeshInv, NormalsFaceViewer, QuadsAreMaximal
  <2>3. CASE Setup
    BY <2>2, <2>3 DEF Setup, Enter, MeshInv, scanVars
  <2>4. CASE Generate2DHeightMap \/ Generate3DHeightMap
    <3>1. /\ phase = "GenerateHeightMap" /\ phase' = "GenerateMesh"
          /\ MeshData' = MeshData /\ UNCHANGED <<Axis, Slice, j, Mask>>
      BY <2>4 DEF Generate2DHeightMap, Generate3DHeightMap, GenerateHeightMap, Enter, scanVars
    <3>2. MeshData = <<>> /\ Axis = 0 /\ Slice = -1 /\ j = Size
      BY <3>1 DEF MeshInv
    <3>3. \A a \in Axes : \A N, p, k, l : p \in 0 .. Size => Left(a, N, p, k, l)'
      BY <3>1, <3>2 DEF Left, Axes
    <3>4. Surface(Solid)' \subseteq Todo'
      <4> SUFFICES ASSUME NEW f \in Surface(Solid)' PROVE f \in Todo'
        OBVIOUS
      <4>1. f \in Face
        BY DEF Surface
      <4>2. PICK a \in Axes, N \in {1, -1}, p \in 0 .. Size,
                 k \in 0 .. (Size - 1), l \in 0 .. (Size - 1) : f = FaceOn(a, N, p, k, l)
        BY <4>1, FaceHasPlace
      <4>3. Left(a, N, p, k, l)'
        BY <3>3
      <4> QED BY <4>2, <4>3 DEF Todo
    <3>5. Shown(MeshData)' = Surface(Solid)' \ Todo'
      BY <3>1, <3>2, <3>4, EmptyMesh
    <3>6. MaskInv' /\ 1 .. Len(MeshData') = {}
      BY <3>1, <3>2, EmptySeq DEF MaskInv
    <3> QED BY <2>2, <3>1, <3>5, <3>6 DEF MeshInv
  <2>5. CASE BuildMask
    BY <2>1, <2>5, BuildMaskKeeps
  <2>6. CASE AddQuad
    BY <2>1, <2>6, AddQuadKeeps
  <2>7. CASE SkipEntry
    BY <2>1, <2>7, SkipEntryKeeps
  <2>8. CASE NextRow
    BY <2>1, <2>8, NextRowKeeps
  <2>9. CASE NextAxis
    BY <2>1, <2>9, NextAxisKeeps
  <2>10. CASE EndMesh
    BY <2>1, <2>10, EndMeshKeeps
  <2>11. ASSUME UNCHANGED <<MeshData, Blocks>>
         PROVE  Shown(MeshData)' = Shown(MeshData) /\ Surface(Solid)' = Surface(Solid)
    BY <2>11 DEF Surface, Solid, GetBlock
  <2>12. CASE LogVertexCount /\ UNCHANGED chunkVars
    <3>1. UNCHANGED <<MeshData, Blocks>> /\ phase = "Log" /\ phase' = "ApplyMesh"
      BY <2>12 DEF LogVertexCount, Enter, chunkVars
    <3> QED BY <2>2, <2>11, <3>1 DEF MeshInv
  <2>13. CASE ApplyMesh /\ UNCHANGED chunkVars
    <3>1. UNCHANGED <<MeshData, Blocks>> /\ phase = "ApplyMesh" /\ phase' = "Done" /\ section' = MeshData
      BY <2>13 DEF ApplyMesh, Enter, chunkVars
    <3> QED BY <2>2, <2>11, <3>1 DEF MeshInv
  <2>14. CASE UNCHANGED vars
    <3>1. UNCHANGED <<MeshData, Blocks, phase, section, Axis, Slice, Mask, MaskIndex, i, j>>
      BY <2>14 DEF vars, baseVars, chunkVars, scanVars
    <3>2. CASE phase = "GenerateMesh"
      <4>1. \A a, N, p, k, l : Left(a, N, p, k, l)' <=> Left(a, N, p, k, l)
        BY <3>1 DEF Left
      <4>2. \A a \in Axes, p, x, y \in Int : Scanned(a, p, x, y) => Scanned(a, p, x, y)'
        BY <3>1 DEF Scanned
      <4>3. MaskInv'
        BY <2>11, <3>1, <3>2 DEF MeshInv, MaskInv
      <4> QED BY <2>1, <3>1, <3>2, <4>1, <4>2, <4>3, SweepKeeps
    <3>3. CASE phase # "GenerateMesh"
      BY <2>2, <2>11, <3>1, <3>3 DEF MeshInv
    <3> QED BY <3>2, <3>3
  <2> QED
    BY <2>3, <2>4, <2>5, <2>6, <2>7, <2>8, <2>9, <2>10, <2>12, <2>13, <2>14 DEF Next
<1>3. ScanInv /\ EveryBlockIsSet /\ MeshInv => GreedyInv
  BY DEF GreedyInv
<1> QED BY <1>1, <1>2, <1>3, ScanInvariant, BlocksAreSet, PTL DEF Spec

(***************************************************************************)
(* The vertex count, the mask and the three positions in it stay in step,  *)
(* so no two quads of a greedy mesh, decoded through its index buffer,     *)
(* cover the same face.                                                    *)
(***************************************************************************)
THEOREM FacesOnce == Spec => []NoFaceTwice
<1>1. GreedyInv => NoFaceTwice
  <2> SUFFICES ASSUME GreedyInv PROVE NoFaceTwice
    OBVIOUS
  <2>1. MeshData \in Seq(MeshQuad) /\ AllOwn(MeshData) /\ Disjoint(MeshData)
    BY DEF GreedyInv, ScanInv, MeshInv, TypeOK, MeshQuad
  <2>2. IndicesInBuffer(MeshData)
    BY <2>1, OwnInBuffer
  <2> QED BY <2>1, <2>2 DEF NoFaceTwice, Disjoint
<1> QED BY <1>1, GreedyInvariant, PTL

(***************************************************************************)
(* Whichever way the swap of its corner indices turns them, the triangles  *)
(* of a quad are seen from the side its shading normal names.              *)
(***************************************************************************)
THEOREM NormalsMatch == Spec => []NormalsFaceViewer
<1>1. GreedyInv => NormalsFaceViewer
  BY DEF GreedyInv, MeshInv
<1> QED BY <1>1, GreedyInvariant, PTL

(***************************************************************************)
(* The meshing is greedy: no two quads ever in the mesh can be merged.  A  *)
(* quad's width and height stopped at faces that are not left, so nothing  *)
(* that comes later has them as its own side.                              *)
(***************************************************************************)
THEOREM QuadsStayMaximal == Spec => []QuadsAreMaximal
<1>1. GreedyInv => QuadsAreMaximal
  BY DEF GreedyInv, MeshInv
<1> QED BY <1>1, GreedyInvariant, PTL

(***************************************************************************)
(* What a chunk of ChunkSurface sees of a greedy chunk.                    *)
(***************************************************************************)
StageNow == IF phase = "Done" THEN "shown" ELSE IF IsMeshing THEN "drawing" ELSE "empty"
SolidNow == IF IsMeshing THEN Solid ELSE {}
DrawnNow == DrawnBy(IF phase = "Done" THEN section ELSE MeshData)

\* The steps of ChunkSurface, in those terms.
LEMMA PromiseSteps ==
  /\ Promise!SurfaceInit <=> StageNow = "empty" /\ SolidNow = {} /\ DrawnNow = {}
  /\ Promise!Fill <=> /\ StageNow = "empty" /\ StageNow' = "drawing"
                      /\ SolidNow' \subseteq Cell /\ DrawnNow' = DrawnNow
  /\ Promise!Draw <=> /\ StageNow = "drawing" /\ StageNow' = StageNow
                      /\ SolidNow' = SolidNow
                      /\ DrawnNow' \subseteq Surface(SolidNow) /\ DrawnNow \subseteq DrawnNow'
  /\ Promise!Show <=> /\ StageNow = "drawing" /\ StageNow' = "shown"
                      /\ SolidNow' = SolidNow
                      /\ DrawnNow = Surface(SolidNow) /\ DrawnNow' = DrawnNow
  /\ UNCHANGED Promise!surfaceVars <=>
       StageNow' = StageNow /\ SolidNow' = SolidNow /\ DrawnNow' = DrawnNow
<1>1. Promise!Cell = Cell
  BY DEF Promise!Cell, Cell, Promise!Axes, Axes
<1>2. \A S : Promise!Surface(S) = Surface(S)
  <2>1. Promise!EDirection = EDirection /\ Promise!Axes = Axes
    BY DEF Promise!EDirection, EDirection, Promise!Axes, Axes
  <2>2. \A x, y, z : Promise!Vec(x, y, z) = Vec(x, y, z)
    BY <2>1 DEF Promise!Vec, Vec
  <2>3. \A u, v : Promise!Plus(u, v) = Plus(u, v)
    BY <2>1 DEF Promise!Plus, Plus
  <2>4. \A d : Promise!Toward(d) = Toward(d)
    BY <2>2 DEF Promise!Toward, Toward
  <2> QED BY <1>1, <2>1, <2>3, <2>4 DEF Promise!Surface, Surface, Promise!Face, Face
<1> USE DEF StageNow, SolidNow, DrawnNow, Solid
<1>3. Promise!SurfaceInit <=> StageNow = "empty" /\ SolidNow = {} /\ DrawnNow = {}
  BY DEF Promise!SurfaceInit
<1>4. Promise!Fill <=> /\ StageNow = "empty" /\ StageNow' = "drawing"
                       /\ SolidNow' \subseteq Cell /\ DrawnNow' = DrawnNow
  BY <1>1 DEF Promise!Fill
<1>5. Promise!Draw <=> /\ StageNow = "drawing" /\ StageNow' = StageNow
                       /\ SolidNow' = SolidNow
                       /\ DrawnNow' \subseteq Surface(SolidNow) /\ DrawnNow \subseteq DrawnNow'
  BY <1>2 DEF Promise!Draw
<1>6. Promise!Show <=> /\ StageNow = "drawing" /\ StageNow' = "shown"
                       /\ SolidNow' = SolidNow
                       /\ DrawnNow = Surface(SolidNow) /\ DrawnNow' = DrawnNow
  BY <1>2 DEF Promise!Show
<1>7. UNCHANGED Promise!surfaceVars <=>
        StageNow' = StageNow /\ SolidNow' = SolidNow /\ DrawnNow' = DrawnNow
  BY DEF Promise!surfaceVars
<1> QED BY <1>3, <1>4, <1>5, <1>6, <1>7

\* What is drawn is what the quads cover.
LEMMA DrawnIsShown ==
  GreedyInv => DrawnNow = Shown(MeshData)
<1> SUFFICES ASSUME GreedyInv PROVE DrawnNow = Shown(MeshData)
  OBVIOUS
<1>1. MeshData \in Seq(MeshQuad) /\ AllOwn(MeshData)
  BY DEF GreedyInv, ScanInv, MeshInv, TypeOK, MeshQuad
<1>2. DrawnBy(MeshData) = Shown(MeshData)
  BY <1>1, OwnInBuffer
<1> QED BY <1>2 DEF GreedyInv, MeshInv, DrawnNow

\* A quad leaves less to cover than there was.
LEMMA AddQuadLeavesLess ==
  ASSUME GreedyInv, AddQuad
  PROVE  Todo' \subseteq Todo
<1>1. PICK w \in 1 .. (Size - i), h \in 1 .. (Size - j), N \in {1, -1}, new \in MeshQuad :
        Adds(w, h, N, new)
  BY AddQuadAdds
<1>2. Todo' = Todo \ Rectangle(w, h, N)
  BY <1>1, TodoAfter
<1> QED BY <1>2

(***************************************************************************)
(* Every step of BeginPlay is a step of ChunkSurface or leaves it alone:   *)
(* each quad adds faces of the surface of the blocks the height map        *)
(* generated, none is taken away, and what ApplyMesh shows is the whole    *)
(* surface.  This is the safety half of ShowsTheSurface.                   *)
(***************************************************************************)
THEOREM MeshesTheSurface ==
  Spec => /\ Promise!SurfaceInit
          /\ [][Promise!Fill \/ Promise!Draw \/ Promise!Show]_(Promise!surfaceVars)
<1>1. Init => Promise!SurfaceInit
  <2> SUFFICES ASSUME Init PROVE Promise!SurfaceInit
    OBVIOUS
  <2>1. phase = "Setup" /\ MeshData = <<>>
    BY DEF Init, BaseInit
  <2>2. <<>> \in Seq(MeshQuad) /\ AllOwn(<<>>) /\ Shown(<<>>) = {}
    BY EmptyMesh, EmptySeq
  <2>3. DrawnBy(MeshData) = {}
    BY <2>1, <2>2, OwnInBuffer
  <2> QED BY <2>1, <2>3, PromiseSteps DEF IsMeshing, StageNow, SolidNow, DrawnNow
<1>2. GreedyInv' => (DrawnNow = Shown(MeshData))'
  BY DrawnIsShown, PTL
<1>3. GreedyInv /\ GreedyInv' /\ [Next]_vars =>
        [Promise!Fill \/ Promise!Draw \/ Promise!Show]_(Promise!surfaceVars)
  <2> SUFFICES ASSUME GreedyInv, GreedyInv', [Next]_vars
               PROVE  \/ Promise!Fill \/ Promise!Draw \/ Promise!Show
                      \/ UNCHANGED Promise!surfaceVars
    OBVIOUS
  <2>1. DrawnNow = Shown(MeshData) /\ DrawnNow' = Shown(MeshData)'
    BY <1>2, DrawnIsShown
  <2>2. MeshInv /\ MeshInv'
    BY DEF GreedyInv
  <2>3. CASE Setup
    BY <2>1, <2>3, PromiseSteps DEF Setup, Enter, StageNow, SolidNow, IsMeshing
  <2>4. CASE Generate2DHeightMap \/ Generate3DHeightMap
    <3>1. phase = "GenerateHeightMap" /\ phase' = "GenerateMesh" /\ MeshData' = MeshData
      BY <2>4 DEF Generate2DHeightMap, Generate3DHeightMap, GenerateHeightMap, Enter
    <3>2. StageNow = "empty" /\ StageNow' = "drawing" /\ SolidNow' \subseteq Cell
      BY <3>1 DEF StageNow, SolidNow, Solid, IsMeshing
    <3> QED BY <2>1, <3>1, <3>2, PromiseSteps
  <2>5. CASE \/ BuildMask \/ SkipEntry \/ NextRow \/ NextAxis \/ EndMesh
             \/ (LogVertexCount /\ UNCHANGED chunkVars)
    <3>1. UNCHANGED <<Blocks, MeshData>>
      BY <2>5 DEF BuildMask, SkipEntry, NextRow, NextAxis, EndMesh, LogVertexCount, Enter,
                  baseVars, chunkVars
    <3>2. phase \in {"GenerateMesh", "Log"} /\ phase' \in {"GenerateMesh", "Log", "ApplyMesh"}
      BY <2>5 DEF BuildMask, Scanning, SkipEntry, NextRow, NextAxis, EndMesh, LogVertexCount,
                  Enter, baseVars
    <3>3. StageNow' = StageNow /\ SolidNow' = SolidNow
      BY <3>1, <3>2 DEF StageNow, SolidNow, Solid, GetBlock, IsMeshing
    <3> QED BY <2>1, <3>1, <3>3, PromiseSteps
  <2>6. CASE AddQuad
    <3>1. phase = "GenerateMesh" /\ phase' = "GenerateMesh" /\ Blocks' = Blocks
      BY <2>6 DEF AddQuad, Scanning
    <3>2. /\ StageNow = "drawing" /\ StageNow' = StageNow
          /\ SolidNow = Solid /\ SolidNow' = SolidNow /\ Surface(Solid)' = Surface(Solid)
      BY <3>1 DEF StageNow, SolidNow, Solid, GetBlock, IsMeshing, Surface
    <3>3. /\ Shown(MeshData) = Surface(Solid) \ Todo
          /\ Shown(MeshData)' = Surface(Solid)' \ Todo'
      BY <2>2, <3>1 DEF MeshInv
    <3>4. Todo' \subseteq Todo
      BY <2>6, AddQuadLeavesLess
    <3>5. Shown(MeshData)' \subseteq Surface(Solid) /\ Shown(MeshData) \subseteq Shown(MeshData)'
      BY <3>2, <3>3, <3>4
    <3> QED BY <2>1, <3>2, <3>5, PromiseSteps
  <2>7. CASE ApplyMesh /\ UNCHANGED chunkVars
    <3>1. phase = "ApplyMesh" /\ phase' = "Done" /\ UNCHANGED <<Blocks, MeshData>>
      BY <2>7 DEF ApplyMesh, Enter, chunkVars
    <3>2. /\ StageNow = "drawing" /\ StageNow' = "shown"
          /\ SolidNow = Solid /\ SolidNow' = SolidNow
      BY <3>1 DEF StageNow, SolidNow, Solid, GetBlock, IsMeshing
    <3>3. Shown(MeshData) = Surface(Solid)
      BY <2>2, <3>1 DEF MeshInv
    <3> QED BY <2>1, <3>1, <3>2, <3>3, PromiseSteps
  <2>8. CASE UNCHANGED vars
    <3>1. UNCHANGED <<phase, Blocks, MeshData>>
      BY <2>8 DEF vars, baseVars, chunkVars
    <3>2. StageNow' = StageNow /\ SolidNow' = SolidNow
      BY <3>1 DEF StageNow, SolidNow, Solid, GetBlock, IsMeshing
    <3> QED BY <2>1, <3>1, <3>2, PromiseSteps
  <2> QED
    BY <2>3, <2>4, <2>5, <2>6, <2>7, <2>8 DEF Next
<1> QED BY <1>1, <1>3, GreedyInvariant, PTL DEF Spec
=============================================================================
