--------------------------- MODULE VWChunkProofs ---------------------------
(***************************************************************************)
(* Proofs about the naive mesher, for chunks of every size and for every   *)
(* set of noise fields.                                                    *)
(***************************************************************************)
EXTENDS VWChunk, BlockGridProofs

MeshQuad == [v : [0 .. 3 -> Vector], tri : [0 .. 5 -> Nat]]

(***************************************************************************)
(* The tables and the vector operations give integer vectors.              *)
(***************************************************************************)
LEMMA VectorTypes ==
  /\ \A x, y, z \in Int : Vec(x, y, z) \in Vector
  /\ \A u, v \in Vector : Plus(u, v) \in Vector
  /\ \A n \in 0 .. 7 : BlockVertexData[n] \in Vector
  /\ \A p \in Vector : Following(p) \in Vector
<1>1. \A x, y, z \in Int : Vec(x, y, z) \in Vector
  BY DEF Vec, Vector, Axes
<1>2. \A u, v \in Vector : Plus(u, v) \in Vector
  BY DEF Plus, Vector, Axes
<1>3. \A n \in 0 .. 7 : BlockVertexData[n] \in Vector
  <2>1. \A n \in 0 .. 7 : n + 1 \in 1 .. 8
    OBVIOUS
  <2>2. \A k \in 1 .. 8 :
          <<Vec(1, 1, 1), Vec(1, 0, 1), Vec(1, 0, 0), Vec(1, 1, 0),
            Vec(0, 0, 1), Vec(0, 1, 1), Vec(0, 1, 0), Vec(0, 0, 0)>>[k] \in Vector
    <3>1. \A x, y, z \in {0, 1} : Vec(x, y, z) \in Vector
      BY <1>1
    <3> QED BY <3>1
  <2> QED BY <2>1, <2>2 DEF BlockVertexData
<1>4. \A p \in Vector : Following(p) \in Vector
  <2>1. \A p \in Vector : p[0] \in Int /\ p[1] \in Int /\ p[2] \in Int
    BY DEF Vector, Axes
  <2>2. SUFFICES ASSUME NEW p \in Vector PROVE Following(p) \in Vector
    OBVIOUS
  <2>3. /\ Vec(p[0], p[1], p[2] + 1) \in Vector
        /\ Vec(p[0], p[1] + 1, 0) \in Vector
        /\ Vec(p[0] + 1, 0, 0) \in Vector
    <3>1. /\ p[0] \in Int /\ p[1] \in Int
          /\ p[0] + 1 \in Int /\ p[1] + 1 \in Int /\ p[2] + 1 \in Int
      BY <2>1, <2>2
    <3> QED BY <1>1, <3>1
  <2> QED BY <2>3 DEF Following
<1> QED BY <1>1, <1>2, <1>3, <1>4

(***************************************************************************)
(* Every corner the triangle table names is one of the vertex table.       *)
(***************************************************************************)
LEMMA CornerInTable ==
  \A d \in EDirection, n \in 0 .. 3 : BlockTriangleData[d][n + 1] \in 0 .. 7
<1>1. SUFFICES ASSUME NEW d \in EDirection, NEW n \in 0 .. 3
               PROVE  BlockTriangleData[d][n + 1] \in 0 .. 7
  OBVIOUS
<1>2. n \in {0, 1, 2, 3}
  OBVIOUS
<1>3. CASE d = "Forward"
  BY <1>2, <1>3 DEF BlockTriangleData, EDirection
<1>4. CASE d = "Right"
  BY <1>2, <1>4 DEF BlockTriangleData, EDirection
<1>5. CASE d = "Back"
  BY <1>2, <1>5 DEF BlockTriangleData, EDirection
<1>6. CASE d = "Left"
  BY <1>2, <1>6 DEF BlockTriangleData, EDirection
<1>7. CASE d = "Up"
  BY <1>2, <1>7 DEF BlockTriangleData, EDirection
<1>8. CASE d = "Down"
  BY <1>2, <1>8 DEF BlockTriangleData, EDirection
<1> QED BY <1>3, <1>4, <1>5, <1>6, <1>7, <1>8 DEF EDirection

\* A face has four corners.
LEMMA FaceVerticesType ==
  ASSUME NEW d \in EDirection, NEW p \in Vector
  PROVE  GetFaceVertices(d, p) \in [0 .. 3 -> Vector]
BY CornerInTable, VectorTypes DEF GetFaceVertices

\* A face adds six indices to the buffer.
LEMMA FaceTrianglesType ==
  ASSUME NEW base \in Nat
  PROVE  FaceTriangles(base) \in [0 .. 5 -> Nat]
<1>1. \A k \in 0 .. 5 : <<3, 2, 0, 2, 1, 0>>[k + 1] \in Nat
  <2>1. \A k \in 0 .. 5 : k \in {0, 1, 2, 3, 4, 5}
    OBVIOUS
  <2> QED BY <2>1
<1> QED BY <1>1 DEF FaceTriangles

(***************************************************************************)
(* Adding a face keeps the mesh a sequence of quads, and the chunk's own   *)
(* vertex count the length of its vertex buffer.                           *)
(***************************************************************************)
LEMMA CreateFaceType ==
  ASSUME NEW d \in EDirection, NEW p \in Vector,
         MeshData \in Seq(MeshQuad), OwnVertexCount = 4 * Len(MeshData),
         CreateFace(d, p)
  PROVE  MeshData' \in Seq(MeshQuad) /\ OwnVertexCount' = 4 * Len(MeshData')
<1> DEFINE quad == Quad(GetFaceVertices(d, p), FaceTriangles(OwnVertexCount))
<1>1. OwnVertexCount \in Nat
  OBVIOUS
<1>2. quad \in MeshQuad
  BY <1>1, FaceVerticesType, FaceTrianglesType DEF Quad, MeshQuad
<1>3. MeshData' = Append(MeshData, quad) /\ OwnVertexCount' = OwnVertexCount + 4
  BY DEF CreateFace
<1> HIDE DEF quad
<1> QED BY <1>2, <1>3
-----------------------------------------------------------------------------
(***************************************************************************)
(* The members of a naive chunk hold values of their C++ types, and its    *)
(* own vertex count is the length of the vertex buffer, throughout         *)
(* BeginPlay.                                                              *)
(***************************************************************************)
THEOREM TypeCorrect == Spec => []TypeOK
<1>1. Init => TypeOK
  BY VectorTypes DEF Init, BaseInit, TypeOK, Phases, EGenerationType, Origin,
                     DirectionOrder
<1>2. TypeOK /\ [Next]_vars => TypeOK'
  <2> SUFFICES ASSUME TypeOK, [Next]_vars PROVE TypeOK'
    OBVIOUS
  <2> USE DEF TypeOK, inputs
  <2>1. CASE Setup
    BY <2>1 DEF Setup, Enter, UnsetBlocks, EBlock, Phases
  <2>2. CASE Generate2DHeightMap
    BY <2>2, StoredType, HeightMapTypes DEF GenerateHeightMap, Generate2DHeightMap, Enter, Phases
  <2>3. CASE Generate3DHeightMap
    BY <2>3, StoredType, HeightMapTypes DEF GenerateHeightMap, Generate3DHeightMap, Enter, Phases
  <2>4. CASE VisitDirection
    <3>1. Len(DirectionOrder) = 6 /\ turn \in 1 .. 6
      BY <2>4 DEF VisitDirection, DirectionOrder
    <3>2. DirectionOrder[turn] \in EDirection
      <4>1. turn \in {1, 2, 3, 4, 5, 6}
        BY <3>1
      <4> QED BY <4>1 DEF DirectionOrder, EDirection
    <3>3. MeshData' \in Seq(MeshQuad) /\ OwnVertexCount' = 4 * Len(MeshData')
      <4>1. CASE Check(Plus(at, Toward(DirectionOrder[turn])))
        <5>1. CreateFace(DirectionOrder[turn], at)
          BY <2>4, <4>1 DEF VisitDirection
        <5> QED BY <3>2, <5>1, CreateFaceType DEF MeshQuad
      <4>2. CASE ~Check(Plus(at, Toward(DirectionOrder[turn])))
        BY <2>4, <4>2 DEF VisitDirection, MeshQuad
      <4> QED BY <4>1, <4>2
    <3>4. turn' \in 1 .. (Len(DirectionOrder) + 1)
      BY <2>4, <3>1 DEF VisitDirection
    <3> QED BY <2>4, <3>3, <3>4 DEF VisitDirection, MeshQuad
  <2>5. CASE NextBlock
    <3>1. at' \in Vector /\ turn' \in 1 .. (Len(DirectionOrder) + 1)
      BY <2>5, VectorTypes DEF NextBlock, DirectionOrder
    <3> QED BY <2>5, <3>1 DEF NextBlock, baseVars
  <2>6. CASE EndMesh
    BY <2>6 DEF EndMesh, Enter, Phases, chunkVars
  <2>7. CASE LogVertexCount /\ UNCHANGED chunkVars
    BY <2>7 DEF LogVertexCount, Enter, Phases, chunkVars
  <2>8. CASE ApplyMesh /\ UNCHANGED chunkVars
    BY <2>8 DEF ApplyMesh, Enter, Phases, chunkVars
  <2>9. CASE UNCHANGED vars
    BY <2>9 DEF vars, baseVars, chunkVars
  <2> QED
    BY <2>1, <2>2, <2>3, <2>4, <2>5, <2>6, <2>7, <2>8, <2>9 DEF Next
<1> QED BY <1>1, <1>2, PTL DEF Spec

(***************************************************************************)
(* No entry keeps the Null of SetNum, which GenerateMesh would take for a  *)
(* solid block, whatever the noise and the size.                           *)
(***************************************************************************)
THEOREM BlocksAreSet == Spec => []EveryBlockIsSet
<1>1. Init => EveryBlockIsSet
  BY DEF Init, BaseInit, EveryBlockIsSet
<1>2. TypeOK /\ EveryBlockIsSet /\ [Next]_vars => EveryBlockIsSet'
  <2> SUFFICES ASSUME TypeOK, EveryBlockIsSet, [Next]_vars PROVE EveryBlockIsSet'
    OBVIOUS
  <2>1. CASE Setup
    BY <2>1 DEF Setup, Enter, EveryBlockIsSet
  <2>2. CASE Generate3DHeightMap \/ Generate2DHeightMap
    <3>1. Blocks \in [BlockIndex -> EBlock]
      BY <2>2 DEF GenerateHeightMap, Generate3DHeightMap, Generate2DHeightMap, Enter, TypeOK
    <3>2. \A n \in BlockIndex : Blocks'[n] \in {"Air", "Stone"}
      BY <2>2, <3>1, HeightMapSetsAll DEF GenerateHeightMap, Generate3DHeightMap, Generate2DHeightMap
    <3> QED BY <3>2 DEF EveryBlockIsSet
  <2>3. ASSUME UNCHANGED Blocks, phase \notin {"Setup", "GenerateHeightMap"}
        PROVE  EveryBlockIsSet'
    BY <2>3 DEF EveryBlockIsSet
  <2>4. CASE VisitDirection \/ NextBlock
    BY <2>3, <2>4 DEF VisitDirection, NextBlock
  <2>5. CASE EndMesh
    BY <2>3, <2>5 DEF EndMesh, Enter, chunkVars
  <2>6. CASE (LogVertexCount \/ ApplyMesh) /\ UNCHANGED chunkVars
    BY <2>3, <2>6 DEF LogVertexCount, ApplyMesh, Enter, chunkVars
  <2>7. CASE UNCHANGED vars
    BY <2>7 DEF vars, baseVars, chunkVars, EveryBlockIsSet
  <2> QED
    BY <2>1, <2>2, <2>4, <2>5, <2>6, <2>7 DEF Next
<1> QED BY <1>1, <1>2, TypeCorrect, PTL DEF Spec

-----------------------------------------------------------------------------
(***************************************************************************)
(* A quad of CreateFace is a square with its corners in a circle: its two  *)
(* triangles are the halves on one diagonal, and which way round they are  *)
(* decides the side they are seen from.                                    *)
(***************************************************************************)
LEMMA SquareCovers ==
  ASSUME NEW mesh, NEW q, NEW a \in Axes, NEW N \in {1, -1}, NEW c \in Int,
         NEW m \in Int, NEW n \in Int, NEW k \in Int, NEW l \in Int, m # k, n # l,
         NEW d \in EDirection, Toward(d) = Along(a, N), NEW v1, NEW v3,
         Corner(mesh, q, 0, 0) = v3, Corner(mesh, q, 0, 1) = Spot(a, c, k, l),
         Corner(mesh, q, 0, 2) = Spot(a, c, m, n),
         Corner(mesh, q, 1, 0) = Spot(a, c, k, l), Corner(mesh, q, 1, 1) = v1,
         Corner(mesh, q, 1, 2) = Spot(a, c, m, n),
         \/ v1 = Spot(a, c, k, n) /\ v3 = Spot(a, c, m, l) /\ ((m - k) * (n - l)) * N > 0
         \/ v1 = Spot(a, c, m, l) /\ v3 = Spot(a, c, k, n) /\ ((m - k) * (l - n)) * N > 0
  PROVE  Covered(mesh, q) =
           {[cell |-> Spot(a, Behind(c, N), x, y), dir |-> d] :
              x \in Between(m, k), y \in Between(n, l)}
<1>1. Corners(mesh, q, 0) = {v3, Spot(a, c, k, l), Spot(a, c, m, n)}
  <2>1. 0 .. 2 = {0, 1, 2}
    OBVIOUS
  <2> QED BY <2>1 DEF Corners
<1>2. Corners(mesh, q, 1) = {v1, Spot(a, c, k, l), Spot(a, c, m, n)}
  <2>1. 0 .. 2 = {0, 1, 2}
    OBVIOUS
  <2> QED BY <2>1 DEF Corners
<1>3. /\ SeenFrom(mesh, q, 0) = Cross(Minus(Spot(a, c, m, n), v3), Minus(Spot(a, c, k, l), v3))
      /\ SeenFrom(mesh, q, 1) = Cross(Minus(Spot(a, c, m, n), Spot(a, c, k, l)),
                                      Minus(v1, Spot(a, c, k, l)))
  BY DEF SeenFrom
<1>4. CASE v1 = Spot(a, c, k, n) /\ v3 = Spot(a, c, m, l) /\ ((m - k) * (n - l)) * N > 0
  <2>1. SeenFrom(mesh, q, 0) = Along(a, (m - m) * (l - l) - (n - l) * (k - m))
    BY <1>3, <1>4, CrossInPlane
  <2>2. SeenFrom(mesh, q, 1) = Along(a, (m - k) * (n - l) - (n - l) * (k - k))
    BY <1>3, <1>4, CrossInPlane
  <2>3. PICK s \in Int : s = (m - k) * (n - l)
    OBVIOUS
  <2>4. (m - m) * (l - l) - (n - l) * (k - m) = s /\ (m - k) * (n - l) - (n - l) * (k - k) = s
    BY <2>3
  <2>5. /\ Corners(mesh, q, 0) = Half(a, c, m, n, k, l)
        /\ Corners(mesh, q, 1) = Half(a, c, k, l, m, n)
    BY <1>1, <1>2, <1>4 DEF Half
  <2>6. s * N > 0 /\ SeenFrom(mesh, q, 0) = Along(a, s) /\ SeenFrom(mesh, q, 1) = Along(a, s)
    BY <1>4, <2>1, <2>2, <2>3, <2>4
  <2> QED BY <2>5, <2>6, QuadCovers
<1>5. CASE v1 = Spot(a, c, m, l) /\ v3 = Spot(a, c, k, n) /\ ((m - k) * (l - n)) * N > 0
  <2>1. SeenFrom(mesh, q, 0) = Along(a, (m - k) * (l - n) - (n - n) * (k - k))
    BY <1>3, <1>5, CrossInPlane
  <2>2. SeenFrom(mesh, q, 1) = Along(a, (m - k) * (l - l) - (n - l) * (m - k))
    BY <1>3, <1>5, CrossInPlane
  <2>3. PICK s \in Int : s = (m - k) * (l - n)
    OBVIOUS
  <2>4. (m - k) * (l - n) - (n - n) * (k - k) = s /\ (m - k) * (l - l) - (n - l) * (m - k) = s
    BY <2>3
  <2>5. /\ Corners(mesh, q, 0) = Half(a, c, k, l, m, n)
        /\ Corners(mesh, q, 1) = Half(a, c, m, n, k, l)
    BY <1>1, <1>2, <1>5 DEF Half
  <2>6. s * N > 0 /\ SeenFrom(mesh, q, 0) = Along(a, s) /\ SeenFrom(mesh, q, 1) = Along(a, s)
    BY <1>5, <2>1, <2>2, <2>3, <2>4
  <2>7. Covered(mesh, q) = {[cell |-> Spot(a, Behind(c, N), x, y), dir |-> d] :
                              x \in Between(k, m), y \in Between(l, n)}
    BY <2>5, <2>6, QuadCovers
  <2>8. Between(k, m) = Between(m, k) /\ Between(l, n) = Between(n, l)
    BY DEF Between
  <2> QED BY <2>7, <2>8
<1> QED BY <1>4, <1>5

\* The corners of a face of the block at p.
LEMMA FaceCorners ==
  ASSUME NEW p \in Vector, NEW x \in Int, NEW y \in Int, NEW z \in Int, p = Vec(x, y, z)
  PROVE  /\ GetFaceVertices("Forward", p)[0] = Vec(x + 1, y + 1, z + 1)
         /\ GetFaceVertices("Forward", p)[1] = Vec(x + 1, y, z + 1)
         /\ GetFaceVertices("Forward", p)[2] = Vec(x + 1, y, z)
         /\ GetFaceVertices("Forward", p)[3] = Vec(x + 1, y + 1, z)
         /\ GetFaceVertices("Right", p)[0] = Vec(x, y + 1, z + 1)
         /\ GetFaceVertices("Right", p)[1] = Vec(x + 1, y + 1, z + 1)
         /\ GetFaceVertices("Right", p)[2] = Vec(x + 1, y + 1, z)
         /\ GetFaceVertices("Right", p)[3] = Vec(x, y + 1, z)
         /\ GetFaceVertices("Back", p)[0] = Vec(x, y, z + 1)
         /\ GetFaceVertices("Back", p)[1] = Vec(x, y + 1, z + 1)
         /\ GetFaceVertices("Back", p)[2] = Vec(x, y + 1, z)
         /\ GetFaceVertices("Back", p)[3] = Vec(x, y, z)
         /\ GetFaceVertices("Left", p)[0] = Vec(x + 1, y, z + 1)
         /\ GetFaceVertices("Left", p)[1] = Vec(x, y, z + 1)
         /\ GetFaceVertices("Left", p)[2] = Vec(x, y, z)
         /\ GetFaceVertices("Left", p)[3] = Vec(x + 1, y, z)
         /\ GetFaceVertices("Up", p)[0] = Vec(x, y + 1, z + 1)
         /\ GetFaceVertices("Up", p)[1] = Vec(x, y, z + 1)
         /\ GetFaceVertices("Up", p)[2] = Vec(x + 1, y, z + 1)
         /\ GetFaceVertices("Up", p)[3] = Vec(x + 1, y + 1, z + 1)
         /\ GetFaceVertices("Down", p)[0] = Vec(x + 1, y + 1, z)
         /\ GetFaceVertices("Down", p)[1] = Vec(x + 1, y, z)
         /\ GetFaceVertices("Down", p)[2] = Vec(x, y, z)
         /\ GetFaceVertices("Down", p)[3] = Vec(x, y + 1, z)
<1>1. \A u, v, w \in Int : Plus(Vec(u, v, w), p) = Vec(x + u, y + v, z + w)
  BY DEF Plus, Vec, Axes
<1>2. /\ Plus(BlockVertexData[0], p) = Vec(x + 1, y + 1, z + 1)
      /\ Plus(BlockVertexData[1], p) = Vec(x + 1, y, z + 1)
      /\ Plus(BlockVertexData[2], p) = Vec(x + 1, y, z)
      /\ Plus(BlockVertexData[3], p) = Vec(x + 1, y + 1, z)
      /\ Plus(BlockVertexData[4], p) = Vec(x, y, z + 1)
      /\ Plus(BlockVertexData[5], p) = Vec(x, y + 1, z + 1)
      /\ Plus(BlockVertexData[6], p) = Vec(x, y + 1, z)
      /\ Plus(BlockVertexData[7], p) = Vec(x, y, z)
  <2>1. /\ BlockVertexData[0] = Vec(1, 1, 1) /\ BlockVertexData[1] = Vec(1, 0, 1)
        /\ BlockVertexData[2] = Vec(1, 0, 0) /\ BlockVertexData[3] = Vec(1, 1, 0)
        /\ BlockVertexData[4] = Vec(0, 0, 1) /\ BlockVertexData[5] = Vec(0, 1, 1)
        /\ BlockVertexData[6] = Vec(0, 1, 0) /\ BlockVertexData[7] = Vec(0, 0, 0)
    BY DEF BlockVertexData
  <2>2. \A u, v, w \in {0, 1} : Plus(Vec(u, v, w), p) = Vec(x + u, y + v, z + w)
    BY <1>1
  <2>3. x + 0 = x /\ y + 0 = y /\ z + 0 = z
    OBVIOUS
  <2> QED BY <2>1, <2>2, <2>3
<1>3. /\ BlockTriangleData["Forward"] = <<0, 1, 2, 3>>
      /\ BlockTriangleData["Right"] = <<5, 0, 3, 6>>
      /\ BlockTriangleData["Back"] = <<4, 5, 6, 7>>
      /\ BlockTriangleData["Left"] = <<1, 4, 7, 2>>
      /\ BlockTriangleData["Up"] = <<5, 4, 1, 0>>
      /\ BlockTriangleData["Down"] = <<3, 2, 7, 6>>
  BY DEF BlockTriangleData, EDirection
<1>4. \A d : /\ GetFaceVertices(d, p)[0] = Plus(BlockVertexData[BlockTriangleData[d][1]], p)
             /\ GetFaceVertices(d, p)[1] = Plus(BlockVertexData[BlockTriangleData[d][2]], p)
             /\ GetFaceVertices(d, p)[2] = Plus(BlockVertexData[BlockTriangleData[d][3]], p)
             /\ GetFaceVertices(d, p)[3] = Plus(BlockVertexData[BlockTriangleData[d][4]], p)
  BY DEF GetFaceVertices
<1> QED BY <1>2, <1>3, <1>4

\* The quad of a face is made of its own vertices, in a circle.
LEMMA FaceQuad ==
  ASSUME NEW mesh, NEW q \in Nat \ {0}, NEW v,
         mesh[q] = Quad(v, FaceTriangles(4 * (q - 1)))
  PROVE  /\ IsOwn(mesh, q)
         /\ Corner(mesh, q, 0, 0) = v[3] /\ Corner(mesh, q, 0, 1) = v[2] /\ Corner(mesh, q, 0, 2) = v[0]
         /\ Corner(mesh, q, 1, 0) = v[2] /\ Corner(mesh, q, 1, 1) = v[1] /\ Corner(mesh, q, 1, 2) = v[0]
<1>1. PICK b \in Nat : b = 4 * (q - 1)
  OBVIOUS
<1>2. mesh[q].v = v /\ mesh[q].tri = FaceTriangles(b)
  BY <1>1 DEF Quad
<1>3. /\ FaceTriangles(b)[0] = b + 3 /\ FaceTriangles(b)[1] = b + 2 /\ FaceTriangles(b)[2] = b + 0
      /\ FaceTriangles(b)[3] = b + 2 /\ FaceTriangles(b)[4] = b + 1 /\ FaceTriangles(b)[5] = b + 0
  BY DEF FaceTriangles
<1>4. \A n \in 0 .. 3 : VertexAt(mesh, b + n) = v[n]
  BY <1>1, <1>2, OwnVertex
<1>5. /\ VertexAt(mesh, b + 0) = v[0] /\ VertexAt(mesh, b + 1) = v[1]
      /\ VertexAt(mesh, b + 2) = v[2] /\ VertexAt(mesh, b + 3) = v[3]
  BY <1>4
<1>6. /\ 3 * 0 + 0 = 0 /\ 3 * 0 + 1 = 1 /\ 3 * 0 + 2 = 2
      /\ 3 * 1 + 0 = 3 /\ 3 * 1 + 1 = 4 /\ 3 * 1 + 2 = 5
  OBVIOUS
<1>7. IsOwn(mesh, q)
  <2>1. ASSUME NEW k \in 0 .. 5 PROVE FaceTriangles(b)[k] \in b .. b + 3
    <3>1. k = 0 \/ k = 1 \/ k = 2 \/ k = 3 \/ k = 4 \/ k = 5
      OBVIOUS
    <3>2. b + 0 \in b .. b + 3 /\ b + 1 \in b .. b + 3 /\ b + 2 \in b .. b + 3 /\ b + 3 \in b .. b + 3
      OBVIOUS
    <3> QED BY <1>3, <3>1, <3>2
  <2> QED BY <1>1, <1>2, <2>1 DEF IsOwn
<1> QED BY <1>2, <1>3, <1>5, <1>6, <1>7 DEF Corner

(***************************************************************************)
(* What CreateFace adds shows the face of that block on that side, and     *)
(* nothing else.                                                           *)
(***************************************************************************)
LEMMA FaceCovers ==
  ASSUME NEW mesh, NEW q \in Nat \ {0}, NEW d \in EDirection, NEW p \in Vector,
         mesh[q] = Quad(GetFaceVertices(d, p), FaceTriangles(4 * (q - 1)))
  PROVE  IsOwn(mesh, q) /\ Covered(mesh, q) = {[cell |-> p, dir |-> d]}
<1>1. PICK x \in Int, y \in Int, z \in Int : p = Vec(x, y, z)
  <2>1. p[0] \in Int /\ p[1] \in Int /\ p[2] \in Int /\ p = Vec(p[0], p[1], p[2])
    BY DEF Vector, Vec, Axes
  <2> QED BY <2>1
<1>2. PICK v : v = GetFaceVertices(d, p)
  OBVIOUS
<1>3. /\ IsOwn(mesh, q)
      /\ Corner(mesh, q, 0, 0) = v[3] /\ Corner(mesh, q, 0, 1) = v[2] /\ Corner(mesh, q, 0, 2) = v[0]
      /\ Corner(mesh, q, 1, 0) = v[2] /\ Corner(mesh, q, 1, 1) = v[1] /\ Corner(mesh, q, 1, 2) = v[0]
  BY <1>2, FaceQuad
<1>4. x + 1 \in Int /\ y + 1 \in Int /\ z + 1 \in Int /\ x + 1 - 1 = x /\ y + 1 - 1 = y /\ z + 1 - 1 = z
  OBVIOUS
<1>5. \A n \in Int : Between(n, n + 1) = {n} /\ Between(n + 1, n) = {n}
  BY DEF Between
<1>6. \A a \in Axes, n \in Int : \A f, g \in Int :
        {[cell |-> Spot(a, n, s, t), dir |-> d] : s \in {f}, t \in {g}} = {[cell |-> Spot(a, n, f, g), dir |-> d]}
  OBVIOUS
<1>7. /\ Toward("Forward") = Along(0, 1) /\ Toward("Back") = Along(0, -1)
      /\ Toward("Right") = Along(1, 1) /\ Toward("Left") = Along(1, -1)
      /\ Toward("Up") = Along(2, 1) /\ Toward("Down") = Along(2, -1)
  BY DEF Toward, Vec, Along, Axes
<1>8. 0 \in Axes /\ 1 \in Axes /\ 2 \in Axes
  BY DEF Axes
<1>9. \A c \in Int, m \in Int, n \in Int :
        /\ Spot(0, c, m, n) = Vec(c, m, n) /\ Spot(1, c, m, n) = Vec(n, c, m)
        /\ Spot(2, c, m, n) = Vec(m, n, c)
  BY SpotIsVec
<1>10. CASE d = "Forward"
  <2>1. /\ v[0] = Spot(0, x + 1, y + 1, z + 1) /\ v[1] = Spot(0, x + 1, y, z + 1)
        /\ v[2] = Spot(0, x + 1, y, z) /\ v[3] = Spot(0, x + 1, y + 1, z)
    BY <1>1, <1>2, <1>4, <1>9, <1>10, FaceCorners
  <2>2. Behind(x + 1, 1) = x
    BY <1>4 DEF Behind
  <2>3. y + 1 # y /\ z + 1 # z
    OBVIOUS
  <2>4. /\ (((y + 1) - (y)) * ((z + 1) - (z))) * (1) = 1
        /\ (((y + 1) - (y)) * ((z) - (z + 1))) * (1) = -1
    OBVIOUS
  <2>5. Covered(mesh, q) =
          {[cell |-> Spot(0, Behind(x + 1, 1), s, t), dir |-> d] :
             s \in Between(y + 1, y), t \in Between(z + 1, z)}
    BY <1>3, <1>4, <1>7, <1>8, <1>10, <2>1, <2>3, <2>4, SquareCovers
  <2>6. Covered(mesh, q) = {[cell |-> Spot(0, x, y, z), dir |-> d]}
    BY <1>5, <1>6, <1>8, <2>2, <2>5
  <2> QED BY <1>1, <1>3, <1>9, <2>6
<1>11. CASE d = "Right"
  <2>1. /\ v[0] = Spot(1, y + 1, z + 1, x) /\ v[1] = Spot(1, y + 1, z + 1, x + 1)
        /\ v[2] = Spot(1, y + 1, z, x + 1) /\ v[3] = Spot(1, y + 1, z, x)
    BY <1>1, <1>2, <1>4, <1>9, <1>11, FaceCorners
  <2>2. Behind(y + 1, 1) = y
    BY <1>4 DEF Behind
  <2>3. z + 1 # z /\ x # x + 1
    OBVIOUS
  <2>4. /\ (((z + 1) - (z)) * ((x) - (x + 1))) * (1) = -1
        /\ (((z + 1) - (z)) * ((x + 1) - (x))) * (1) = 1
    OBVIOUS
  <2>5. Covered(mesh, q) =
          {[cell |-> Spot(1, Behind(y + 1, 1), s, t), dir |-> d] :
             s \in Between(z + 1, z), t \in Between(x, x + 1)}
    BY <1>3, <1>4, <1>7, <1>8, <1>11, <2>1, <2>3, <2>4, SquareCovers
  <2>6. Covered(mesh, q) = {[cell |-> Spot(1, y, z, x), dir |-> d]}
    BY <1>5, <1>6, <1>8, <2>2, <2>5
  <2> QED BY <1>1, <1>3, <1>9, <2>6
<1>12. CASE d = "Back"
  <2>1. /\ v[0] = Spot(0, x, y, z + 1) /\ v[1] = Spot(0, x, y + 1, z + 1)
        /\ v[2] = Spot(0, x, y + 1, z) /\ v[3] = Spot(0, x, y, z)
    BY <1>1, <1>2, <1>4, <1>9, <1>12, FaceCorners
  <2>2. Behind(x, -1) = x
    BY <1>4 DEF Behind
  <2>3. y # y + 1 /\ z + 1 # z
    OBVIOUS
  <2>4. /\ (((y) - (y + 1)) * ((z + 1) - (z))) * (-1) = 1
        /\ (((y) - (y + 1)) * ((z) - (z + 1))) * (-1) = -1
    OBVIOUS
  <2>5. Covered(mesh, q) =
          {[cell |-> Spot(0, Behind(x, -1), s, t), dir |-> d] :
             s \in Between(y, y + 1), t \in Between(z + 1, z)}
    BY <1>3, <1>4, <1>7, <1>8, <1>12, <2>1, <2>3, <2>4, SquareCovers
  <2>6. Covered(mesh, q) = {[cell |-> Spot(0, x, y, z), dir |-> d]}
    BY <1>5, <1>6, <1>8, <2>2, <2>5
  <2> QED BY <1>1, <1>3, <1>9, <2>6
<1>13. CASE d = "Left"
  <2>1. /\ v[0] = Spot(1, y, z + 1, x + 1) /\ v[1] = Spot(1, y, z + 1, x)
        /\ v[2] = Spot(1, y, z, x) /\ v[3] = Spot(1, y, z, x + 1)
    BY <1>1, <1>2, <1>4, <1>9, <1>13, FaceCorners
  <2>2. Behind(y, -1) = y
    BY <1>4 DEF Behind
  <2>3. z + 1 # z /\ x + 1 # x
    OBVIOUS
  <2>4. /\ (((z + 1) - (z)) * ((x + 1) - (x))) * (-1) = -1
        /\ (((z + 1) - (z)) * ((x) - (x + 1))) * (-1) = 1
    OBVIOUS
  <2>5. Covered(mesh, q) =
          {[cell |-> Spot(1, Behind(y, -1), s, t), dir |-> d] :
             s \in Between(z + 1, z), t \in Between(x + 1, x)}
    BY <1>3, <1>4, <1>7, <1>8, <1>13, <2>1, <2>3, <2>4, SquareCovers
  <2>6. Covered(mesh, q) = {[cell |-> Spot(1, y, z, x), dir |-> d]}
    BY <1>5, <1>6, <1>8, <2>2, <2>5
  <2> QED BY <1>1, <1>3, <1>9, <2>6
<1>14. CASE d = "Up"
  <2>1. /\ v[0] = Spot(2, z + 1, x, y + 1) /\ v[1] = Spot(2, z + 1, x, y)
        /\ v[2] = Spot(2, z + 1, x + 1, y) /\ v[3] = Spot(2, z + 1, x + 1, y + 1)
    BY <1>1, <1>2, <1>4, <1>9, <1>14, FaceCorners
  <2>2. Behind(z + 1, 1) = z
    BY <1>4 DEF Behind
  <2>3. x # x + 1 /\ y + 1 # y
    OBVIOUS
  <2>4. /\ (((x) - (x + 1)) * ((y + 1) - (y))) * (1) = -1
        /\ (((x) - (x + 1)) * ((y) - (y + 1))) * (1) = 1
    OBVIOUS
  <2>5. Covered(mesh, q) =
          {[cell |-> Spot(2, Behind(z + 1, 1), s, t), dir |-> d] :
             s \in Between(x, x + 1), t \in Between(y + 1, y)}
    BY <1>3, <1>4, <1>7, <1>8, <1>14, <2>1, <2>3, <2>4, SquareCovers
  <2>6. Covered(mesh, q) = {[cell |-> Spot(2, z, x, y), dir |-> d]}
    BY <1>5, <1>6, <1>8, <2>2, <2>5
  <2> QED BY <1>1, <1>3, <1>9, <2>6
<1>15. CASE d = "Down"
  <2>1. /\ v[0] = Spot(2, z, x + 1, y + 1) /\ v[1] = Spot(2, z, x + 1, y)
        /\ v[2] = Spot(2, z, x, y) /\ v[3] = Spot(2, z, x, y + 1)
    BY <1>1, <1>2, <1>4, <1>9, <1>15, FaceCorners
  <2>2. Behind(z, -1) = z
    BY <1>4 DEF Behind
  <2>3. x + 1 # x /\ y + 1 # y
    OBVIOUS
  <2>4. /\ (((x + 1) - (x)) * ((y + 1) - (y))) * (-1) = -1
        /\ (((x + 1) - (x)) * ((y) - (y + 1))) * (-1) = 1
    OBVIOUS
  <2>5. Covered(mesh, q) =
          {[cell |-> Spot(2, Behind(z, -1), s, t), dir |-> d] :
             s \in Between(x + 1, x), t \in Between(y + 1, y)}
    BY <1>3, <1>4, <1>7, <1>8, <1>15, <2>1, <2>3, <2>4, SquareCovers
  <2>6. Covered(mesh, q) = {[cell |-> Spot(2, z, x, y), dir |-> d]}
    BY <1>5, <1>6, <1>8, <2>2, <2>5
  <2> QED BY <1>1, <1>3, <1>9, <2>6
<1> QED BY <1>10, <1>11, <1>12, <1>13, <1>14, <1>15 DEF EDirection

-----------------------------------------------------------------------------
(***************************************************************************)
(* The loops of GenerateMesh visit the cells in lexicographic order.       *)
(***************************************************************************)
Before(c, p) ==
  \/ c[0] < p[0]
  \/ c[0] = p[0] /\ c[1] < p[1]
  \/ c[0] = p[0] /\ c[1] = p[1] /\ c[2] < p[2]

\* A step of the loops passes one cell, and leaves the chunk only at the end.
LEMMA OneCellAtATime ==
  ASSUME NEW p \in Cell, NEW c \in Cell
  PROVE  /\ ~Before(c, Origin)
         /\ ~Before(c, c)
         /\ Before(c, Following(p)) <=> Before(c, p) \/ c = p
         /\ Following(p) \in Cell \/ Following(p)[0] = Size
<1> USE SizeAssumption
<1>1. /\ p[0] \in 0 .. (Size - 1) /\ p[1] \in 0 .. (Size - 1) /\ p[2] \in 0 .. (Size - 1)
      /\ c[0] \in 0 .. (Size - 1) /\ c[1] \in 0 .. (Size - 1) /\ c[2] \in 0 .. (Size - 1)
  BY DEF Cell, Axes
<1>2. Origin[0] = 0 /\ Origin[1] = 0 /\ Origin[2] = 0
  BY DEF Origin, Vec, Axes
<1>3. c = p <=> c[0] = p[0] /\ c[1] = p[1] /\ c[2] = p[2]
  BY DEF Cell, Axes
<1>4. \A x, y, z : Vec(x, y, z)[0] = x /\ Vec(x, y, z)[1] = y /\ Vec(x, y, z)[2] = z
  BY DEF Vec, Axes
<1>5. \A x, y, z \in 0 .. (Size - 1) : Vec(x, y, z) \in Cell
  BY DEF Vec, Cell, Axes
<1>6. CASE p[2] + 1 < Size
  <2>1. Following(p) = Vec(p[0], p[1], p[2] + 1)
    BY <1>6 DEF Following
  <2>2. p[2] + 1 \in 0 .. (Size - 1)
    BY <1>1, <1>6
  <2>3. Following(p) \in Cell
    BY <1>1, <1>5, <2>1, <2>2
  <2> QED BY <1>1, <1>2, <1>3, <1>4, <1>6, <2>1, <2>3 DEF Before
<1>7. CASE ~(p[2] + 1 < Size) /\ p[1] + 1 < Size
  <2>1. Following(p) = Vec(p[0], p[1] + 1, 0)
    BY <1>7 DEF Following
  <2>2. p[1] + 1 \in 0 .. (Size - 1) /\ 0 \in 0 .. (Size - 1)
    BY <1>1, <1>7
  <2>3. Following(p) \in Cell
    BY <1>1, <1>5, <2>1, <2>2
  <2> QED BY <1>1, <1>2, <1>3, <1>4, <1>7, <2>1, <2>3 DEF Before
<1>8. CASE ~(p[2] + 1 < Size) /\ ~(p[1] + 1 < Size)
  <2>1. Following(p) = Vec(p[0] + 1, 0, 0)
    BY <1>8 DEF Following
  <2>2. Following(p) \in Cell \/ Following(p)[0] = Size
    <3>1. CASE p[0] + 1 < Size
      <4>1. p[0] + 1 \in 0 .. (Size - 1) /\ 0 \in 0 .. (Size - 1)
        BY <1>1, <3>1
      <4> QED BY <1>5, <2>1, <4>1
    <3>2. CASE ~(p[0] + 1 < Size)
      BY <1>1, <1>4, <2>1, <3>2
    <3> QED BY <3>1, <3>2
  <2> QED BY <1>1, <1>2, <1>3, <1>4, <1>8, <2>1, <2>2 DEF Before
<1> QED BY <1>6, <1>7, <1>8

\* The six entries of DirectionOrder are the six directions, each once.
LEMMA EachDirectionOnce ==
  /\ Len(DirectionOrder) = 6
  /\ \A t \in 1 .. 6 : DirectionOrder[t] \in EDirection
  /\ \A d \in EDirection : \E t \in 1 .. 6 : DirectionOrder[t] = d
  /\ \A t, u \in 1 .. 6 : DirectionOrder[t] = DirectionOrder[u] => t = u
<1>1. /\ DirectionOrder[1] = "Forward" /\ DirectionOrder[2] = "Right" /\ DirectionOrder[3] = "Back"
      /\ DirectionOrder[4] = "Left" /\ DirectionOrder[5] = "Up" /\ DirectionOrder[6] = "Down"
      /\ Len(DirectionOrder) = 6
  BY DEF DirectionOrder
<1>2. \A t \in 1 .. 6 : t = 1 \/ t = 2 \/ t = 3 \/ t = 4 \/ t = 5 \/ t = 6
  OBVIOUS
<1>3. 1 \in 1 .. 6 /\ 2 \in 1 .. 6 /\ 3 \in 1 .. 6 /\ 4 \in 1 .. 6 /\ 5 \in 1 .. 6 /\ 6 \in 1 .. 6
  OBVIOUS
<1>4. \A t \in 1 .. 6 : DirectionOrder[t] \in EDirection
  BY <1>1, <1>2 DEF EDirection
<1>5. \A d \in EDirection : \E t \in 1 .. 6 : DirectionOrder[t] = d
  BY <1>1, <1>3 DEF EDirection
<1>6. \A t, u \in 1 .. 6 : DirectionOrder[t] = DirectionOrder[u] => t = u
  BY <1>1, <1>2
<1> QED BY <1>1, <1>4, <1>5, <1>6

(***************************************************************************)
(* The solid blocks, and the faces the loops have passed: those of the     *)
(* cells before the current one, and the earlier directions of that one.   *)
(***************************************************************************)
Solid == {c \in Cell : IsSolidBlock(c)}

Passed(f) ==
  \/ Before(f.cell, at)
  \/ f.cell = at /\ \E t \in 1 .. (turn - 1) : DirectionOrder[t] = f.dir

\* Check asks whether a vector is outside the solid blocks.
LEMMA CheckIsOutside ==
  ASSUME NEW p \in Vector
  PROVE  Check(p) <=> p \notin Solid
<1>1. p \in Cell <=> \A a \in Axes : p[a] < Size /\ p[a] >= 0
  BY SizeAssumption DEF Cell, Vector
<1> QED BY <1>1, SizeAssumption DEF Check, Solid, IsSolidBlock, Vector

(***************************************************************************)
(* The inductive invariant: the quads of the mesh are made of their own    *)
(* vertices, none covers what another one does, and together they cover    *)
(* exactly the faces of the surface that the loops have passed.            *)
(***************************************************************************)
LoopInv == at \in Cell \/ at[0] = Size

MeshInv ==
  /\ AllOwn(MeshData)
  /\ Disjoint(MeshData)
  /\ LoopInv
  /\ phase \in {"Setup", "GenerateHeightMap"} => MeshData = <<>> /\ at = Origin /\ turn = 1
  /\ phase = "GenerateMesh" => Shown(MeshData) = {f \in Surface(Solid) : Passed(f)}
  /\ phase \in {"Log", "ApplyMesh", "Done"} => Shown(MeshData) = Surface(Solid)
  /\ phase = "Done" => section = MeshData

FaceInv == TypeOK /\ MeshInv

\* A mesh without quads covers nothing.
LEMMA EmptyMesh ==
  AllOwn(<<>>) /\ Disjoint(<<>>) /\ Shown(<<>>) = {}
<1>1. 1 .. Len(<<>>) = {}
  BY EmptySeq
<1> QED BY <1>1 DEF AllOwn, Disjoint, Shown

\* A face of the surface belongs to a cell and has a direction.
LEMMA SurfaceFaces ==
  \A f \in Surface(Solid) :
    /\ f \in Face /\ f.cell \in Cell /\ f.dir \in EDirection /\ f = [cell |-> f.cell, dir |-> f.dir]
    /\ f.cell \in Solid /\ Plus(f.cell, Toward(f.dir)) \notin Solid
BY DEF Surface, Face

\* A cell and a direction make a face of the surface when the block that way is outside.
LEMMA FaceOfSurface ==
  ASSUME NEW c \in Solid, NEW d \in EDirection
  PROVE  [cell |-> c, dir |-> d] \in Surface(Solid) <=> Plus(c, Toward(d)) \notin Solid
<1>1. c \in Cell
  BY DEF Solid
<1>2. PICK f : f = [cell |-> c, dir |-> d]
  OBVIOUS
<1>3. f \in Face /\ f.cell = c /\ f.dir = d
  BY <1>1, <1>2 DEF Face
<1> QED BY <1>2, <1>3 DEF Surface

(***************************************************************************)
(* A visit of a direction passes one face, and adds a quad for it exactly  *)
(* when it is on the surface.                                              *)
(***************************************************************************)
LEMMA VisitKeeps ==
  ASSUME FaceInv, VisitDirection
  PROVE  MeshInv'
<1>1. /\ TypeOK /\ AllOwn(MeshData) /\ Disjoint(MeshData) /\ phase = "GenerateMesh"
      /\ Shown(MeshData) = {f \in Surface(Solid) : Passed(f)}
  BY DEF FaceInv, MeshInv, VisitDirection
<1>2. at \in Cell /\ at \in Vector /\ at \in Solid /\ LoopInv
  <2>1. at \in Cell /\ LoopInv
    BY SizeAssumption DEF FaceInv, MeshInv, LoopInv, VisitDirection
  <2> QED BY <1>1, <2>1 DEF VisitDirection, Solid, TypeOK
<1>3. /\ turn \in 1 .. 6 /\ turn' = turn + 1 /\ at' = at /\ Blocks' = Blocks /\ phase' = phase
  BY <1>1, EachDirectionOnce DEF VisitDirection, TypeOK
<1>4. PICK d \in EDirection : d = DirectionOrder[turn]
  BY <1>3, EachDirectionOnce
<1>5. Solid' = Solid /\ Surface(Solid)' = Surface(Solid) /\ LoopInv'
  BY <1>2, <1>3 DEF Solid, IsSolidBlock, Surface, LoopInv
<1>6. PICK g : g = [cell |-> at, dir |-> d]
  OBVIOUS
<1>7. g.cell = at /\ g.dir = d
  BY <1>6
<1>8. ~Passed(g)
  <2>1. ~Before(at, at)
    BY <1>2, OneCellAtATime
  <2>2. \A t \in 1 .. (turn - 1) : t \in 1 .. 6 /\ t # turn
    BY <1>3
  <2>3. ~ \E t \in 1 .. (turn - 1) : DirectionOrder[t] = d
    BY <1>3, <1>4, <2>2, EachDirectionOnce
  <2> QED BY <1>7, <2>1, <2>3 DEF Passed
<1>9. ASSUME NEW f \in Surface(Solid) PROVE Passed(f)' <=> Passed(f) \/ f = g
  <2>1. f = g <=> f.cell = at /\ f.dir = d
    BY <1>6, <1>9, SurfaceFaces
  <2>2. 1 .. turn = 1 .. (turn - 1) \cup {turn} /\ turn' - 1 = turn
    BY <1>3
  <2>3. Passed(f)' <=> \/ Before(f.cell, at)
                       \/ f.cell = at /\ \E t \in 1 .. turn : DirectionOrder[t] = f.dir
    BY <1>3, <2>2 DEF Passed
  <2> QED BY <1>4, <2>1, <2>2, <2>3 DEF Passed
<1>10. g \in Surface(Solid) <=> Check(Plus(at, Toward(d)))
  <2>1. Toward(d) \in Vector
    BY DEF Toward, EDirection, Vec, Vector, Axes
  <2>2. Plus(at, Toward(d)) \in Vector
    BY <1>2, <2>1, VectorTypes
  <2> QED BY <1>2, <1>6, <2>2, CheckIsOutside, FaceOfSurface
<1>11. AllOwn(MeshData)' /\ Disjoint(MeshData)' /\
       Shown(MeshData)' = {f \in Surface(Solid) : Passed(f) \/ f = g}
  <2>1. CASE Check(Plus(at, Toward(d)))
    <3>1. PICK v : v = GetFaceVertices(d, at)
      OBVIOUS
    <3>2. PICK new : new = Quad(v, FaceTriangles(OwnVertexCount))
      OBVIOUS
    <3>3. MeshData' = Append(MeshData, new)
      BY <1>4, <2>1, <3>1, <3>2 DEF VisitDirection, CreateFace
    <3>4. MeshData \in Seq(MeshQuad) /\ OwnVertexCount = 4 * Len(MeshData)
      BY <1>1 DEF TypeOK, MeshQuad
    <3>5. new \in MeshQuad
      <4>1. OwnVertexCount \in Nat
        BY <3>4, LenProperties
      <4> QED BY <1>2, <3>1, <3>2, <4>1, FaceVerticesType, FaceTrianglesType DEF Quad, MeshQuad
    <3>6. PICK n \in Nat : n = Len(MeshData)
      BY <3>4, LenProperties
    <3>7. Append(MeshData, new)[n + 1] = new /\ n + 1 \in Nat \ {0} /\ 4 * n = 4 * ((n + 1) - 1)
      BY <3>4, <3>5, <3>6, AppendProperties
    <3>8. Append(MeshData, new)[n + 1] = Quad(GetFaceVertices(d, at), FaceTriangles(4 * ((n + 1) - 1)))
      BY <3>1, <3>2, <3>4, <3>6, <3>7
    <3>9. /\ IsOwn(Append(MeshData, new), n + 1)
          /\ Covered(Append(MeshData, new), n + 1) = {[cell |-> at, dir |-> d]}
      <4>1. PICK more : more = Append(MeshData, new)
        OBVIOUS
      <4>5. PICK p \in Vector : p = at
        BY <1>2
      <4>2. PICK q \in Nat \ {0} : q = n + 1
        BY <3>7
      <4>3. more[q] = Quad(GetFaceVertices(d, p), FaceTriangles(4 * (q - 1)))
        BY <3>8, <4>1, <4>2, <4>5
      <4>4. IsOwn(more, q) /\ Covered(more, q) = {[cell |-> p, dir |-> d]}
        BY <4>3, FaceCovers
      <4> QED BY <4>1, <4>2, <4>4, <4>5
    <3>10. g \notin Shown(MeshData)
      BY <1>1, <1>8
    <3>11. /\ AllOwn(Append(MeshData, new)) /\ Disjoint(Append(MeshData, new))
           /\ Shown(Append(MeshData, new)) = Shown(MeshData) \cup {g}
      BY <1>1, <1>6, <3>4, <3>5, <3>6, <3>9, <3>10, OneMoreQuad
    <3>12. Shown(MeshData) \cup {g} = {f \in Surface(Solid) : Passed(f) \/ f = g}
      BY <1>1, <1>10, <2>1
    <3> QED BY <3>3, <3>11, <3>12
  <2>2. CASE ~Check(Plus(at, Toward(d)))
    <3>1. MeshData' = MeshData
      BY <1>4, <2>2 DEF VisitDirection
    <3> QED BY <1>1, <1>10, <2>2, <3>1
  <2> QED BY <2>1, <2>2
<1>12. Shown(MeshData)' = {f \in Surface(Solid)' : Passed(f)'}
  BY <1>5, <1>9, <1>11
<1> QED BY <1>1, <1>3, <1>5, <1>11, <1>12 DEF MeshInv

(***************************************************************************)
(* A step of the loops passes no other face: the cell it leaves is not     *)
(* solid, or all its directions have been visited.                         *)
(***************************************************************************)
LEMMA NextBlockKeeps ==
  ASSUME FaceInv, NextBlock
  PROVE  MeshInv'
<1>1. /\ TypeOK /\ AllOwn(MeshData) /\ Disjoint(MeshData) /\ phase = "GenerateMesh"
      /\ Shown(MeshData) = {f \in Surface(Solid) : Passed(f)}
  BY DEF FaceInv, MeshInv, NextBlock
<1>2. at \in Cell
  BY SizeAssumption DEF FaceInv, MeshInv, LoopInv, NextBlock
<1>3. /\ turn' = 1 /\ at' = Following(at) /\ Blocks' = Blocks /\ phase' = phase
      /\ MeshData' = MeshData
  BY DEF NextBlock, baseVars
<1>4. Solid' = Solid /\ Surface(Solid)' = Surface(Solid)
  BY <1>3 DEF Solid, IsSolidBlock, Surface
<1>5. LoopInv'
  BY <1>2, <1>3, OneCellAtATime DEF LoopInv
<1>6. ASSUME NEW f \in Surface(Solid) PROVE Passed(f)' <=> Passed(f)
  <2>1. f.cell \in Cell /\ f.dir \in EDirection /\ f.cell \in Solid
    BY <1>6, SurfaceFaces
  <2>2. 1 .. (turn' - 1) = {}
    BY <1>3
  <2>3. Passed(f)' <=> Before(f.cell, Following(at))
    BY <1>3, <2>2 DEF Passed
  <2>4. Passed(f)' <=> Before(f.cell, at) \/ f.cell = at
    BY <1>2, <2>1, <2>3, OneCellAtATime
  <2>5. ASSUME f.cell = at PROVE Passed(f)
    <3>1. turn = 7
      BY <1>1, <2>1, <2>5, EachDirectionOnce DEF NextBlock, Solid, TypeOK
    <3>2. 1 .. (turn - 1) = 1 .. 6
      BY <3>1
    <3> QED BY <2>1, <2>5, <3>2, EachDirectionOnce DEF Passed
  <2> QED BY <2>4, <2>5 DEF Passed
<1>7. Shown(MeshData)' = {f \in Surface(Solid)' : Passed(f)'}
  BY <1>1, <1>3, <1>4, <1>6
<1> QED BY <1>1, <1>3, <1>5, <1>7 DEF MeshInv

(***************************************************************************)
(* When the loops end they have passed every face.                         *)
(***************************************************************************)
LEMMA EndMeshKeeps ==
  ASSUME FaceInv, EndMesh
  PROVE  MeshInv'
<1>1. /\ AllOwn(MeshData) /\ Disjoint(MeshData) /\ phase = "GenerateMesh" /\ LoopInv
      /\ Shown(MeshData) = {f \in Surface(Solid) : Passed(f)}
  BY DEF FaceInv, MeshInv, EndMesh, Enter
<1>2. /\ turn' = turn /\ at' = at /\ Blocks' = Blocks /\ phase' = "Log"
      /\ MeshData' = MeshData /\ at[0] = Size
  BY DEF EndMesh, Enter, chunkVars
<1>3. Solid' = Solid /\ Surface(Solid)' = Surface(Solid) /\ LoopInv'
  BY <1>1, <1>2 DEF Solid, IsSolidBlock, Surface, LoopInv
<1>4. ASSUME NEW f \in Surface(Solid) PROVE Passed(f)
  <2>1. f.cell \in Cell
    BY <1>4, SurfaceFaces
  <2>2. f.cell[0] \in 0 .. (Size - 1)
    BY <2>1 DEF Cell, Axes
  <2> QED BY <1>2, <2>2, SizeAssumption DEF Passed, Before
<1>5. Shown(MeshData)' = Surface(Solid)'
  BY <1>1, <1>2, <1>3, <1>4
<1> QED BY <1>1, <1>2, <1>3, <1>5 DEF MeshInv

(***************************************************************************)
(* The invariant holds throughout BeginPlay.                               *)
(***************************************************************************)
LEMMA FaceInvariant == Spec => []FaceInv
<1>1. Init => MeshInv
  <2> SUFFICES ASSUME Init PROVE MeshInv
    OBVIOUS
  <2>1. MeshData = <<>> /\ at = Origin /\ turn = 1 /\ phase = "Setup"
    BY DEF Init, BaseInit
  <2>2. LoopInv
    <3>1. CASE Size = 0
      BY <2>1, <3>1 DEF LoopInv, Origin, Vec, Axes
    <3>2. CASE Size # 0
      BY <2>1, <3>2, SizeAssumption DEF LoopInv, Origin, Vec, Axes, Cell
    <3> QED BY <3>1, <3>2
  <2> QED BY <2>1, <2>2, EmptyMesh DEF MeshInv
<1>2. TypeOK /\ TypeOK' /\ MeshInv /\ [Next]_vars => MeshInv'
  <2> SUFFICES ASSUME TypeOK, MeshInv, [Next]_vars PROVE MeshInv'
    OBVIOUS
  <2>1. FaceInv
    BY DEF FaceInv
  <2>2. CASE Setup
    BY <2>2 DEF Setup, Enter, MeshInv, LoopInv
  <2>3. CASE Generate2DHeightMap \/ Generate3DHeightMap
    <3>1. /\ phase = "GenerateHeightMap" /\ phase' = "GenerateMesh"
          /\ MeshData' = MeshData /\ at' = at /\ turn' = turn
      BY <2>3 DEF Generate2DHeightMap, Generate3DHeightMap, GenerateHeightMap, Enter
    <3>2. MeshData = <<>> /\ at = Origin /\ turn = 1 /\ LoopInv
      BY <3>1 DEF MeshInv
    <3>3. ASSUME NEW f \in Surface(Solid)' PROVE ~Passed(f)'
      <4>1. f.cell \in Cell
        BY <3>3 DEF Surface, Face
      <4>2. 1 .. (turn' - 1) = {}
        BY <3>1, <3>2
      <4>3. ~Before(f.cell, Origin)
        BY <4>1, OneCellAtATime
      <4> QED BY <3>1, <3>2, <4>2, <4>3 DEF Passed
    <3>4. Shown(MeshData)' = {f \in Surface(Solid)' : Passed(f)'}
      BY <3>1, <3>2, <3>3, EmptyMesh
    <3> QED BY <3>1, <3>2, <3>4, EmptyMesh DEF MeshInv, LoopInv
  <2>4. CASE VisitDirection
    BY <2>1, <2>4, VisitKeeps
  <2>5. CASE NextBlock
    BY <2>1, <2>5, NextBlockKeeps
  <2>6. CASE EndMesh
    BY <2>1, <2>6, EndMeshKeeps
  <2>7. ASSUME UNCHANGED <<MeshData, Blocks, at, turn>>
        PROVE  /\ (AllOwn(MeshData) /\ Disjoint(MeshData) /\ LoopInv)'
               /\ Shown(MeshData)' = Shown(MeshData) /\ Surface(Solid)' = Surface(Solid)
               /\ \A f : Passed(f)' <=> Passed(f)
    BY <2>7 DEF MeshInv, LoopInv, Solid, Surface, IsSolidBlock, Passed
  <2>8. CASE LogVertexCount /\ UNCHANGED chunkVars
    <3>1. UNCHANGED <<MeshData, Blocks, at, turn>> /\ phase = "Log" /\ phase' = "ApplyMesh"
      BY <2>8 DEF LogVertexCount, Enter, chunkVars
    <3> QED BY <2>7, <3>1 DEF MeshInv
  <2>9. CASE ApplyMesh /\ UNCHANGED chunkVars
    <3>1. /\ UNCHANGED <<MeshData, Blocks, at, turn>> /\ phase = "ApplyMesh" /\ phase' = "Done"
          /\ section' = MeshData
      BY <2>9 DEF ApplyMesh, Enter, chunkVars
    <3> QED BY <2>7, <3>1 DEF MeshInv
  <2>10. CASE UNCHANGED vars
    <3>1. UNCHANGED <<MeshData, Blocks, at, turn, phase, section>>
      BY <2>10 DEF vars, baseVars, chunkVars
    <3>2. phase = "GenerateMesh" =>
            {f \in Surface(Solid)' : Passed(f)'} = {f \in Surface(Solid) : Passed(f)}
      BY <2>7, <3>1
    <3> QED BY <2>7, <3>1, <3>2 DEF MeshInv
  <2> QED
    BY <2>2, <2>3, <2>4, <2>5, <2>6, <2>8, <2>9, <2>10 DEF Next
<1>3. TypeOK /\ MeshInv => FaceInv
  BY DEF FaceInv
<1> QED BY <1>1, <1>2, <1>3, TypeCorrect, PTL DEF Spec

(***************************************************************************)
(* The vertex count that numbers the corners never drifts from the vertex  *)
(* buffer, so no two quads of a naive mesh, decoded through its index      *)
(* buffer, cover the same face: for every size and every noise.            *)
(***************************************************************************)
THEOREM FacesOnce == Spec => []NoFaceTwice
<1>1. FaceInv => NoFaceTwice
  <2> SUFFICES ASSUME FaceInv PROVE NoFaceTwice
    OBVIOUS
  <2>1. MeshData \in Seq(MeshQuad) /\ AllOwn(MeshData) /\ Disjoint(MeshData)
    BY DEF FaceInv, MeshInv, TypeOK, MeshQuad
  <2>2. IndicesInBuffer(MeshData)
    BY <2>1, OwnInBuffer
  <2> QED BY <2>1, <2>2 DEF NoFaceTwice, Disjoint
<1> QED BY <1>1, FaceInvariant, PTL

(***************************************************************************)
(* What a chunk of ChunkSurface sees of a naive chunk.                     *)
(***************************************************************************)
StageNow == IF phase = "Done" THEN "shown" ELSE IF IsMeshing THEN "drawing" ELSE "empty"
SolidNow == IF IsMeshing THEN Solid ELSE {}
DrawnNow == DrawnBy(IF phase = "Done" THEN section ELSE MeshData)

\* The steps of ChunkSurface, in those terms.
LEMMA PromiseSteps ==
  /\ Promise!SurfaceInit <=> StageNow = "empty" /\ SolidNow = {} /\ DrawnNow = {}
  /\ Promise!Fill <=> /\ StageNow = "empty" /\ StageNow' = "drawing"
                      /\ SolidNow' \subseteq Cell /\ DrawnNow' = DrawnNow
  /\ Promise!Draw <=> /\ StageNow = "drawing" /\ StageNow' = StageNow
                      /\ SolidNow' = SolidNow
                      /\ DrawnNow' \subseteq Surface(SolidNow) /\ DrawnNow \subseteq DrawnNow'
  /\ Promise!Show <=> /\ StageNow = "drawing" /\ StageNow' = "shown"
                      /\ SolidNow' = SolidNow
                      /\ DrawnNow = Surface(SolidNow) /\ DrawnNow' = DrawnNow
  /\ UNCHANGED Promise!surfaceVars <=>
       StageNow' = StageNow /\ SolidNow' = SolidNow /\ DrawnNow' = DrawnNow
<1>1. Promise!Cell = Cell
  BY DEF Promise!Cell, Cell, Promise!Axes, Axes
<1>2. \A S : Promise!Surface(S) = Surface(S)
  <2>1. Promise!EDirection = EDirection /\ Promise!Axes = Axes
    BY DEF Promise!EDirection, EDirection, Promise!Axes, Axes
  <2>2. \A x, y, z : Promise!Vec(x, y, z) = Vec(x, y, z)
    BY <2>1 DEF Promise!Vec, Vec
  <2>3. \A u, v : Promise!Plus(u, v) = Plus(u, v)
    BY <2>1 DEF Promise!Plus, Plus
  <2>4. \A d : Promise!Toward(d) = Toward(d)
    BY <2>2 DEF Promise!Toward, Toward
  <2> QED BY <1>1, <2>1, <2>3, <2>4 DEF Promise!Surface, Surface, Promise!Face, Face
<1> USE DEF StageNow, SolidNow, DrawnNow, Solid
<1>3. Promise!SurfaceInit <=> StageNow = "empty" /\ SolidNow = {} /\ DrawnNow = {}
  BY DEF Promise!SurfaceInit
<1>4. Promise!Fill <=> /\ StageNow = "empty" /\ StageNow' = "drawing"
                       /\ SolidNow' \subseteq Cell /\ DrawnNow' = DrawnNow
  BY <1>1 DEF Promise!Fill
<1>5. Promise!Draw <=> /\ StageNow = "drawing" /\ StageNow' = StageNow
                       /\ SolidNow' = SolidNow
                       /\ DrawnNow' \subseteq Surface(SolidNow) /\ DrawnNow \subseteq DrawnNow'
  BY <1>2 DEF Promise!Draw
<1>6. Promise!Show <=> /\ StageNow = "drawing" /\ StageNow' = "shown"
                       /\ SolidNow' = SolidNow
                       /\ DrawnNow = Surface(SolidNow) /\ DrawnNow' = DrawnNow
  BY <1>2 DEF Promise!Show
<1>7. UNCHANGED Promise!surfaceVars <=>
        StageNow' = StageNow /\ SolidNow' = SolidNow /\ DrawnNow' = DrawnNow
  BY DEF Promise!surfaceVars
<1> QED BY <1>3, <1>4, <1>5, <1>6, <1>7

\* What is drawn is what the quads cover.
LEMMA DrawnIsShown ==
  FaceInv => DrawnNow = Shown(MeshData)
<1> SUFFICES ASSUME FaceInv PROVE DrawnNow = Shown(MeshData)
  OBVIOUS
<1>1. MeshData \in Seq(MeshQuad) /\ AllOwn(MeshData)
  BY DEF FaceInv, MeshInv, TypeOK, MeshQuad
<1>2. DrawnBy(MeshData) = Shown(MeshData)
  BY <1>1, OwnInBuffer
<1> QED BY <1>2 DEF FaceInv, MeshInv, DrawnNow

(***************************************************************************)
(* Every step of BeginPlay is a step of ChunkSurface or leaves it alone:   *)
(* the quads a step adds cover faces of the surface of the blocks the      *)
(* height map generated, none is taken away, and what ApplyMesh shows is   *)
(* the whole surface.  This is the safety half of ShowsTheSurface.         *)
(***************************************************************************)
THEOREM MeshesTheSurface ==
  Spec => /\ Promise!SurfaceInit
          /\ [][Promise!Fill \/ Promise!Draw \/ Promise!Show]_(Promise!surfaceVars)
<1>1. Init => Promise!SurfaceInit
  <2> SUFFICES ASSUME Init PROVE Promise!SurfaceInit
    OBVIOUS
  <2>1. phase = "Setup" /\ MeshData = <<>>
    BY DEF Init, BaseInit
  <2>2. <<>> \in Seq(MeshQuad) /\ AllOwn(<<>>) /\ Shown(<<>>) = {}
    BY EmptyMesh, EmptySeq
  <2>3. DrawnBy(MeshData) = {}
    BY <2>1, <2>2, OwnInBuffer
  <2> QED BY <2>1, <2>3, PromiseSteps DEF IsMeshing, StageNow, SolidNow, DrawnNow
<1>2. FaceInv' => (DrawnNow = Shown(MeshData))'
  BY DrawnIsShown, PTL
<1>3. FaceInv /\ FaceInv' /\ [Next]_vars =>
        [Promise!Fill \/ Promise!Draw \/ Promise!Show]_(Promise!surfaceVars)
  <2> SUFFICES ASSUME FaceInv, FaceInv', [Next]_vars
               PROVE  \/ Promise!Fill \/ Promise!Draw \/ Promise!Show
                      \/ UNCHANGED Promise!surfaceVars
    OBVIOUS
  <2>1. DrawnNow = Shown(MeshData) /\ DrawnNow' = Shown(MeshData)'
    BY <1>2, DrawnIsShown
  <2>2. MeshInv /\ MeshInv'
    BY DEF FaceInv
  <2>3. CASE Setup
    BY <2>1, <2>3, PromiseSteps DEF Setup, Enter, StageNow, SolidNow, IsMeshing
  <2>4. CASE Generate2DHeightMap \/ Generate3DHeightMap
    <3>1. phase = "GenerateHeightMap" /\ phase' = "GenerateMesh" /\ MeshData' = MeshData
      BY <2>4 DEF Generate2DHeightMap, Generate3DHeightMap, GenerateHeightMap, Enter
    <3>2. StageNow = "empty" /\ StageNow' = "drawing" /\ SolidNow' \subseteq Cell
      BY <3>1 DEF StageNow, SolidNow, Solid, IsMeshing
    <3> QED BY <2>1, <3>1, <3>2, PromiseSteps
  <2>5. CASE VisitDirection \/ NextBlock \/ EndMesh
    <3>1. /\ phase = "GenerateMesh" /\ phase' \in {"GenerateMesh", "Log"} /\ Blocks' = Blocks
      BY <2>5 DEF VisitDirection, NextBlock, EndMesh, Enter, baseVars, chunkVars
    <3>2. /\ StageNow = "drawing" /\ StageNow' = StageNow
          /\ SolidNow = Solid /\ SolidNow' = SolidNow /\ Surface(Solid)' = Surface(Solid)
      BY <3>1 DEF StageNow, SolidNow, Solid, IsSolidBlock, IsMeshing, Surface
    <3>3. Shown(MeshData) = {f \in Surface(Solid) : Passed(f)}
      BY <2>2, <3>1 DEF MeshInv
    <3>4. Shown(MeshData)' \subseteq Surface(Solid)
      BY <2>2, <3>1, <3>2 DEF MeshInv
    <3>5. Shown(MeshData) \subseteq Shown(MeshData)'
      <4>1. CASE VisitDirection
        <5>2. ASSUME NEW f \in Surface(Solid), Passed(f) PROVE Passed(f)'
          <6>1. turn \in Int /\ turn' = turn + 1 /\ at' = at
            BY <4>1 DEF VisitDirection, FaceInv, TypeOK
          <6>2. 1 .. (turn - 1) \subseteq 1 .. (turn' - 1)
            BY <6>1
          <6> QED BY <5>2, <6>1, <6>2 DEF Passed
        <5>3. phase' = "GenerateMesh"
          BY <4>1 DEF VisitDirection
        <5>4. Shown(MeshData)' = {f \in Surface(Solid)' : Passed(f)'}
          BY <2>2, <5>3 DEF MeshInv
        <5> QED BY <3>2, <3>3, <5>2, <5>4
      <4>2. CASE NextBlock \/ EndMesh
        BY <4>2 DEF NextBlock, EndMesh, baseVars
      <4> QED BY <2>5, <4>1, <4>2
    <3> QED BY <2>1, <3>2, <3>4, <3>5, PromiseSteps
  <2>6. CASE LogVertexCount /\ UNCHANGED chunkVars
    <3>1. phase = "Log" /\ phase' = "ApplyMesh" /\ UNCHANGED <<Blocks, MeshData>>
      BY <2>6 DEF LogVertexCount, Enter, chunkVars
    <3>2. StageNow' = StageNow /\ SolidNow' = SolidNow
      BY <3>1 DEF StageNow, SolidNow, Solid, IsSolidBlock, IsMeshing
    <3> QED BY <2>1, <3>1, <3>2, PromiseSteps
  <2>7. CASE ApplyMesh /\ UNCHANGED chunkVars
    <3>1. phase = "ApplyMesh" /\ phase' = "Done" /\ UNCHANGED <<Blocks, MeshData>>
      BY <2>7 DEF ApplyMesh, Enter, chunkVars
    <3>2. /\ StageNow = "drawing" /\ StageNow' = "shown"
          /\ SolidNow = Solid /\ SolidNow' = SolidNow
      BY <3>1 DEF StageNow, SolidNow, Solid, IsSolidBlock, IsMeshing
    <3>3. Shown(MeshData) = Surface(Solid)
      BY <2>2, <3>1 DEF MeshInv
    <3> QED BY <2>1, <3>1, <3>2, <3>3, PromiseSteps
  <2>8. CASE UNCHANGED vars
    <3>1. UNCHANGED <<phase, Blocks, MeshData>>
      BY <2>8 DEF vars, baseVars, chunkVars
    <3>2. StageNow' = StageNow /\ SolidNow' = SolidNow
      BY <3>1 DEF StageNow, SolidNow, Solid, IsSolidBlock, IsMeshing
    <3> QED BY <2>1, <3>1, <3>2, PromiseSteps
  <2> QED
    BY <2>3, <2>4, <2>5, <2>6, <2>7, <2>8 DEF Next
<1> QED BY <1>1, <1>3, FaceInvariant, PTL DEF Spec
=============================================================================
