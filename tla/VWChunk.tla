------------------------------ MODULE VWChunk ------------------------------
(***************************************************************************)
(* AVWChunk, the naive mesher: it visits every block in the order of its   *)
(* three loops and, for each of the six directions in turn, adds a face    *)
(* when the block that way is air.                                         *)
(***************************************************************************)
EXTENDS BlockGrid, VWChunkBase, QuadMesh

VARIABLES
  Blocks,           \* The blocks, in the flat array.
  OwnVertexCount,   \* AVWChunk::VertexCount, which hides the base's member.
  at,               \* The block the loops of GenerateMesh stand on.
  turn              \* The direction of DirectionOrder that is next.

chunkVars == <<Blocks, OwnVertexCount, at, turn>>
vars == <<baseVars, chunkVars>>

(***************************************************************************)
(* The tables of the header.                                               *)
(***************************************************************************)
\* A mutant: Left was pasted over by Right.
DirectionOrderTwice == <<"Forward", "Right", "Back", "Right", "Up", "Down">>

DirectionOrder == <<"Forward", "Right", "Back", "Left", "Up", "Down">>

BlockVertexData ==
  [n \in 0 .. 7 |->
     <<Vec(1, 1, 1), Vec(1, 0, 1), Vec(1, 0, 0), Vec(1, 1, 0),
       Vec(0, 0, 1), Vec(0, 1, 1), Vec(0, 1, 0), Vec(0, 0, 0)>>[n + 1]]

BlockTriangleData ==
  [d \in EDirection |->
     CASE d = "Forward" -> <<0, 1, 2, 3>>
       [] d = "Right"   -> <<5, 0, 3, 6>>
       [] d = "Back"    -> <<4, 5, 6, 7>>
       [] d = "Left"    -> <<1, 4, 7, 2>>
       [] d = "Up"      -> <<5, 4, 1, 0>>
       [] d = "Down"    -> <<3, 2, 7, 6>>]

Origin == Vec(0, 0, 0)

Init ==
  /\ BaseInit(NoiseFields, HeightFields)
  /\ Blocks = <<>>
  /\ OwnVertexCount = 0
  /\ at = Origin
  /\ turn = 1

Setup ==
  /\ Enter("Setup", "GenerateHeightMap")
  /\ Blocks' = UnsetBlocks
  /\ UNCHANGED <<inputs, MeshData, VertexCount, logged, section,
                 OwnVertexCount, at, turn>>

Generate2DHeightMap ==
  /\ GenerateHeightMap("GT_2D")
  /\ Blocks' = Stored(Blocks, Hills(Noise))
  /\ UNCHANGED <<inputs, MeshData, VertexCount, logged, section,
                 OwnVertexCount, at, turn>>

Generate3DHeightMap ==
  /\ GenerateHeightMap("GT_3D")
  /\ Blocks' = Stored(Blocks, Caves(Noise))
  /\ UNCHANGED <<inputs, MeshData, VertexCount, logged, section,
                 OwnVertexCount, at, turn>>

(***************************************************************************)
(* Whether the block at p is air, or p is outside the chunk.               *)
(***************************************************************************)
\* A mutant: what lies outside the chunk counts as solid.
CheckInside(p) ==
  /\ \A a \in Axes : p[a] < Size /\ p[a] >= 0
  /\ Blocks[GetBlockIndex(p)] = "Air"

Check(p) ==
  \/ \E a \in Axes : p[a] >= Size \/ p[a] < 0
  \/ Blocks[GetBlockIndex(p)] = "Air"

GetFaceVertices(d, p) ==
  [n \in 0 .. 3 |-> Plus(BlockVertexData[BlockTriangleData[d][n + 1]], p)]

FaceTriangles(base) ==
  [k \in 0 .. 5 |-> base + <<3, 2, 0, 2, 1, 0>>[k + 1]]

CreateFace(d, p) ==
  /\ MeshData' = Append(MeshData, Quad(GetFaceVertices(d, p), FaceTriangles(OwnVertexCount)))
  /\ OwnVertexCount' = OwnVertexCount + 4

IsSolidBlock(p) == Blocks[GetBlockIndex(p)] # "Air"

VisitDirection ==
  /\ phase = "GenerateMesh"
  /\ at[0] < Size
  /\ IsSolidBlock(at)
  /\ turn <= Len(DirectionOrder)
  /\ LET d == DirectionOrder[turn]
     IN  IF Check(Plus(at, Toward(d)))
           THEN CreateFace(d, at)
           ELSE UNCHANGED <<MeshData, OwnVertexCount>>
  /\ turn' = turn + 1
  /\ UNCHANGED <<phase, inputs, VertexCount, logged, section, Blocks, at>>

NextBlock ==
  /\ phase = "GenerateMesh"
  /\ at[0] < Size
  /\ IsSolidBlock(at) => turn > Len(DirectionOrder)
  /\ at' = Following(at)
  /\ turn' = 1
  /\ UNCHANGED <<baseVars, Blocks, OwnVertexCount>>

EndMesh ==
  /\ Enter("GenerateMesh", "Log")
  /\ at[0] = Size
  /\ UNCHANGED <<inputs, MeshData, VertexCount, logged, section, chunkVars>>

Next ==
  \/ Setup
  \/ Generate2DHeightMap
  \/ Generate3DHeightMap
  \/ VisitDirection
  \/ NextBlock
  \/ EndMesh
  \/ LogVertexCount /\ UNCHANGED chunkVars
  \/ ApplyMesh /\ UNCHANGED chunkVars

Spec == Init /\ [][Next]_vars /\ WF_vars(Next)
-----------------------------------------------------------------------------
(***************************************************************************)
(* Type invariant: the members hold values of their C++ types, and the     *)
(* chunk's own vertex count is the length of the vertex buffer.            *)
(***************************************************************************)
TypeOK ==
  /\ phase \in Phases
  /\ GenerationType \in EGenerationType
  /\ MeshData \in Seq([v : [0 .. 3 -> Vector], tri : [0 .. 5 -> Nat]])
  /\ VertexCount \in Nat
  /\ OwnVertexCount = 4 * Len(MeshData)
  /\ Blocks \in {<<>>} \cup [BlockIndex -> EBlock]
  /\ phase # "Setup" => Blocks \in [BlockIndex -> EBlock]
  /\ at \in Vector
  /\ turn \in 1 .. (Len(DirectionOrder) + 1)

(***************************************************************************)
(* SetNum leaves EBlock::Null in every entry, and Null counts as opaque in *)
(* GenerateMesh: the height map must have overwritten every entry of the   *)
(* array, whichever noise it met, before the first block is meshed.        *)
(***************************************************************************)
EveryBlockIsSet ==
  phase \notin {"Setup", "GenerateHeightMap"} =>
    \A n \in BlockIndex : Blocks[n] \in {"Air", "Stone"}

(***************************************************************************)
(* The vertex count that numbers the triangle corners never drifts from    *)
(* the vertex buffer, so no two quads of the mesh, decoded through the     *)
(* index buffer, cover the same face.                                      *)
(***************************************************************************)
NoFaceTwice ==
  /\ IndicesInBuffer(MeshData)
  /\ LET covers == {<<q, Covered(MeshData, q)>> : q \in 1 .. Len(MeshData)}
     IN  \A c, e \in covers : c[1] # e[1] => c[2] \cap e[2] = {}

(***************************************************************************)
(* The naive chunk implements ChunkSurface: each step of GenerateMesh adds *)
(* faces of the surface of the generated blocks only, seen from outside    *)
(* the block they belong to, and ApplyMesh shows the whole surface.        *)
(***************************************************************************)
IsMeshing == phase \notin {"Setup", "GenerateHeightMap"}

Promise == INSTANCE ChunkSurface WITH
  stage <- IF phase = "Done" THEN "shown"
           ELSE IF IsMeshing THEN "drawing" ELSE "empty",
  solid <- IF IsMeshing THEN {c \in Cell : IsSolidBlock(c)} ELSE {},
  drawn <- DrawnBy(IF phase = "Done" THEN section ELSE MeshData)

ShowsTheSurface == Promise!SurfaceSpec

(***************************************************************************)
(* The message BeginPlay logs, "Vertex Count : %d", tells the number of    *)
(* vertices of the chunk's mesh.                                           *)
(***************************************************************************)
LogTellsVertexCount ==
  phase \in {"ApplyMesh", "Done"} => logged = <<4 * Len(MeshData)>>
=============================================================================
