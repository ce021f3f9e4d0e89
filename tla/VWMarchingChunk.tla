-------------------------- MODULE VWMarchingChunk --------------------------
(***************************************************************************)
(* AVWMarchingChunk: it samples the noise at the corners of the blocks and *)
(* meshes the surface between the samples above the surface level and the  *)
(* others, one cube of eight samples at a time, with lookup tables.        *)
(***************************************************************************)
EXTENDS ChunkGrid, VWChunkBase, MarchingTables, FiniteSets, FiniteSetsExt

CONSTANTS
  NoiseFields,    \* The 3D noise a chunk can meet, per voxel.
  HeightFields,   \* The 2D noise a chunk can meet, per column of voxels.
  SurfaceLevels,  \* The surface levels set in the editor, in noise units.
  Grain           \* Positions in the mesh are counted in 1 / Grain blocks.

Voxel  == {Vec(x, y, z) : x, y, z \in 0 .. Size}
Column == [0 .. 1 -> 0 .. Size]

ASSUME FieldAssumption ==
  /\ NoiseFields  \subseteq [Voxel -> (-NoiseUnit) .. NoiseUnit]
  /\ HeightFields \subseteq [Column -> Int]
  /\ SurfaceLevels \subseteq (-NoiseUnit) .. NoiseUnit

\* Every interpolated position is a whole number of grains.
ASSUME GrainAssumption ==
  /\ Grain \in Nat \ {0}
  /\ Grain % 2 = 0
  /\ \A delta \in 1 .. (2 * NoiseUnit) : Grain % delta = 0

VARIABLES
  SurfaceLevel,      \* Set in the editor.
  bUseInterpolation, \* Set in the editor.
  Voxels,            \* The samples, in the flat array.
  at                 \* The cube the loops of GenerateMesh stand on.

settings  == <<SurfaceLevel, bUseInterpolation>>
chunkVars == <<settings, Voxels, at>>
vars == <<baseVars, chunkVars>>

Init ==
  /\ BaseInit(NoiseFields, HeightFields)
  /\ SurfaceLevel \in SurfaceLevels
  /\ bUseInterpolation \in BOOLEAN
  /\ Voxels = <<>>
  /\ at = Vec(0, 0, 0)

VoxelIndex == 0 .. ((Size + 1) * (Size + 1) * (Size + 1) - 1)

GetVoxelIndex(v) == v[2] * (Size + 1) * (Size + 1) + v[1] * (Size + 1) + v[0]

(***************************************************************************)
(* SetNum fills the array of floats with zeros.                            *)
(***************************************************************************)
Setup ==
  /\ Enter("Setup", "GenerateHeightMap")
  /\ Voxels' = [n \in VoxelIndex |-> 0]
  /\ UNCHANGED <<inputs, MeshData, VertexCount, logged, section,
                 settings, at>>

(***************************************************************************)
(* The array after value[v] is stored for each voxel v of a set.           *)
(***************************************************************************)
Sampled(S, value) ==
  [n \in VoxelIndex |->
     IF \E v \in S : GetVoxelIndex(v) = n
       THEN value[CHOOSE v \in S : GetVoxelIndex(v) = n]
       ELSE Voxels[n]]

(***************************************************************************)
(* The loops of the 2D height map stop below z = Size, so the top layer of *)
(* the samples keeps the zeros of SetNum.                                  *)
(***************************************************************************)
ColumnHeight(noise, v) == Height(noise[[a \in 0 .. 1 |-> v[a]]])

Hills(noise) ==
  [v \in Voxel |-> IF v[2] < ColumnHeight(noise, v) THEN NoiseUnit ELSE -NoiseUnit]

\* A mutant: both loops over the height run one sample higher.
Generate2DHeightMapToTop ==
  /\ GenerateHeightMap("GT_2D")
  /\ Voxels' = Sampled(Voxel, [v \in Voxel |->
       IF v[2] <= ColumnHeight(Noise, v) THEN NoiseUnit ELSE -NoiseUnit])
  /\ UNCHANGED <<inputs, MeshData, VertexCount, logged, section,
                 settings, at>>

Generate2DHeightMap ==
  /\ GenerateHeightMap("GT_2D")
  /\ Voxels' = Sampled({v \in Voxel : v[2] < Size}, Hills(Noise))
  /\ UNCHANGED <<inputs, MeshData, VertexCount, logged, section,
                 settings, at>>

Generate3DHeightMap ==
  /\ GenerateHeightMap("GT_3D")
  /\ Voxels' = Sampled(Voxel, Noise)
  /\ UNCHANGED <<inputs, MeshData, VertexCount, logged, section,
                 settings, at>>

(***************************************************************************)
(* How far along an edge its point lies, in grains, from the samples at    *)
(* its two ends.                                                           *)
(***************************************************************************)
\* A mutant: the distance is taken from the higher end.
OffsetFromHigher(V1, V2) ==
  IF V2 = V1 THEN (Grain * SurfaceLevel) \div NoiseUnit
  ELSE IF V2 > V1 THEN (Grain * (V2 - SurfaceLevel)) \div (V2 - V1)
  ELSE (Grain * (V1 - SurfaceLevel)) \div (V1 - V2)

GetInterpolationOffset(V1, V2) ==
  IF V2 = V1 THEN (Grain * SurfaceLevel) \div NoiseUnit
  ELSE IF V2 > V1 THEN (Grain * (SurfaceLevel - V1)) \div (V2 - V1)
  ELSE (Grain * (V1 - SurfaceLevel)) \div (V1 - V2)

CubeAt(p) == [n \in 0 .. 7 |-> Voxels[GetVoxelIndex(Plus(p, VertexOffset[n]))]]

\* A mutant: a sample on the level counts as above it.
StrictVertexMask(Cube) ==
  MapThenSumSet(LAMBDA n : 2 ^ n, {n \in 0 .. 7 : Cube[n] < SurfaceLevel})

VertexMask(Cube) == MapThenSumSet(LAMBDA n : 2 ^ n, {n \in 0 .. 7 : Cube[n] <= SurfaceLevel})

HasBit(mask, n) == (mask \div 2 ^ n) % 2 = 1

(***************************************************************************)
(* March leaves the points of the edges that are not flagged uninitialised;*)
(* Garbage, which is no point of the chunk, stands for what they hold.     *)
(***************************************************************************)
Garbage == Vec(-Grain, -Grain, -Grain)

EdgeVertex(p, Cube) ==
  [e \in 0 .. 11 |->
     IF HasBit(CubeEdgeFlags[VertexMask(Cube) + 1], e)
       THEN LET ends   == EdgeConnection[e]
                Offset == IF bUseInterpolation
                            THEN GetInterpolationOffset(Cube[ends[1]], Cube[ends[2]])
                            ELSE Grain \div 2
            IN  Plus(Times(Grain, Plus(p, VertexOffset[ends[1]])),
                     Times(Offset, EdgeDirection[e]))
       ELSE Garbage]

(***************************************************************************)
(* The order of a triangle's corners in the index buffer: GenerateMesh     *)
(* sets the member before it marches, from the surface level alone.        *)
(***************************************************************************)
\* A mutant: the level 0 is taken for a positive one.
TriangleOrderAtZero == IF SurfaceLevel >= 0 THEN <<0, 1, 2>> ELSE <<2, 1, 0>>

TriangleOrder == IF SurfaceLevel > 0 THEN <<0, 1, 2>> ELSE <<2, 1, 0>>

(***************************************************************************)
(* The triangle with corners V[1] to V[3], whose first vertex is number    *)
(* base of the buffer.  Normalising its normal keeps the direction, which  *)
(* is all the model keeps of it.                                           *)
(***************************************************************************)
Triangle(V, base) ==
  [v      |-> V,
   tri    |-> [k \in 1 .. 3 |-> base + TriangleOrder[k]],
   normal |-> Cross(Minus(V[2], V[1]), Minus(V[3], V[1]))]

Triangles(p, Cube) ==
  LET mask  == VertexMask(Cube)
      row   == TriangleConnectionTable[mask + 1]
      count == IF CubeEdgeFlags[mask + 1] = 0 THEN 0 ELSE Len(row) \div 3
      point == EdgeVertex(p, Cube)
  IN  [t \in 1 .. count |->
         Triangle([k \in 1 .. 3 |-> point[row[3 * (t - 1) + k]]], VertexCount + 3 * (t - 1))]

March(p, Cube) ==
  LET new == Triangles(p, Cube)
  IN  /\ MeshData' = MeshData \o new
      /\ VertexCount' = VertexCount + 3 * Len(new)

(***************************************************************************)
(* GenerateMesh: a cube at a time.                                         *)
(***************************************************************************)
MarchCube ==
  /\ phase = "GenerateMesh"
  /\ at[0] < Size
  /\ March(at, CubeAt(at))
  /\ at' = Following(at)
  /\ UNCHANGED <<phase, inputs, logged, section, settings, Voxels>>

EndMesh ==
  /\ Enter("GenerateMesh", "Log")
  /\ at[0] = Size
  /\ UNCHANGED <<inputs, MeshData, VertexCount, logged, section, chunkVars>>

Next ==
  \/ Setup
  \/ Generate2DHeightMap
  \/ Generate3DHeightMap
  \/ MarchCube
  \/ EndMesh
  \/ LogVertexCount /\ UNCHANGED chunkVars
  \/ ApplyMesh /\ UNCHANGED chunkVars

Spec == Init /\ [][Next]_vars
-----------------------------------------------------------------------------
(***************************************************************************)
(* Type invariant: the members hold values of their C++ types, and the     *)
(* vertex count is the length of the vertex buffer.                        *)
(***************************************************************************)
TypeOK ==
  /\ phase \in Phases
  /\ GenerationType \in EGenerationType
  /\ SurfaceLevel \in SurfaceLevels
  /\ bUseInterpolation \in BOOLEAN
  /\ Voxels \in {<<>>} \cup [VoxelIndex -> (-NoiseUnit) .. NoiseUnit]
  /\ phase # "Setup" => Voxels \in [VoxelIndex -> (-NoiseUnit) .. NoiseUnit]
  /\ at \in Vector
  /\ MeshData \in Seq([v : [1 .. 3 -> Vector], tri : [1 .. 3 -> Nat], normal : Vector])
  /\ VertexCount = 3 * Len(MeshData)

(***************************************************************************)
(* The mesh as it is drawn: the corners of the triangles, in the order of  *)
(* the index buffer.                                                       *)
(***************************************************************************)
VertexAt(mesh, n) == mesh[n \div 3 + 1].v[(n % 3) + 1]

Corner(mesh, t, k) == VertexAt(mesh, mesh[t].tri[k])

Points(mesh) == {Corner(mesh, t, k) : t \in 1 .. Len(mesh), k \in 1 .. 3}

SeenFrom(mesh, t) ==
  Cross(Minus(Corner(mesh, t, 3), Corner(mesh, t, 1)),
        Minus(Corner(mesh, t, 2), Corner(mesh, t, 1)))

(***************************************************************************)
(* Where the surface cuts the edges of the grid: between two neighbouring  *)
(* samples of which one is above the level and the other is not, in the    *)
(* middle or where the straight line between them reaches the level.       *)
(***************************************************************************)
Sample(v) == Voxels[GetVoxelIndex(v)]
Above(v)  == Sample(v) > SurfaceLevel

UnitOf(a) == Vec(IF a = 0 THEN 1 ELSE 0, IF a = 1 THEN 1 ELSE 0, IF a = 2 THEN 1 ELSE 0)

GridEdge == {<<v, w>> \in Voxel \X Voxel : \E a \in Axes : w = Plus(v, UnitOf(a))}

CutEdges == {e \in GridEdge : Above(e[1]) # Above(e[2])}

CutAt(e, t) ==
  IF bUseInterpolation
    THEN t * (Sample(e[2]) - Sample(e[1])) = Grain * (SurfaceLevel - Sample(e[1]))
    ELSE 2 * t = Grain

CutPoint(e) ==
  LET t == CHOOSE n \in 0 .. Grain : CutAt(e, n)
  IN  Plus(Times(Grain, e[1]), Times(t, Minus(e[2], e[1])))

(***************************************************************************)
(* The corners of the mesh are the cuts of the surface with the grid,      *)
(* each of them and nothing else: no triangle uses a point of an edge that *)
(* March left uninitialised, an edge's point is the same from every cube   *)
(* it belongs to, and no cut edge is left out.                             *)
(***************************************************************************)
IsMeshed == phase \in {"Log", "ApplyMesh", "Done"}

CornersAreCuts ==
  IsMeshed => Points(MeshData) = {CutPoint(e) : e \in CutEdges}

(***************************************************************************)
(* The mesh has no crack: an edge of a triangle is the edge of another one *)
(* turned the other way, unless it lies in a side of the chunk.  Edges are *)
(* counted, so that neither a hole nor a doubled triangle goes unnoticed,  *)
(* and an edge whose ends meet in a corner of the grid is none.            *)
(***************************************************************************)
EdgesOf(mesh) ==
  {<<Corner(mesh, t, k), Corner(mesh, t, (k % 3) + 1), t>> :
     t \in 1 .. Len(mesh), k \in 1 .. 3}

InSide(p, q) == \E a \in Axes : p[a] = q[a] /\ p[a] \in {0, Grain * Size}

NoCracks ==
  IsMeshed =>
    LET edges == EdgesOf(MeshData)
        Uses(p, q) == Cardinality({e \in edges : e[1] = p /\ e[2] = q})
    IN  \A e \in edges :
          \/ e[1] = e[2]
          \/ InSide(e[1], e[2])
          \/ Uses(e[1], e[2]) = Uses(e[2], e[1])

(***************************************************************************)
(* The shading normal of a triangle points to the side the triangle is     *)
(* drawn for.  The order of the corners depends on the sign of the surface *)
(* level and the normal does not, so this is about levels up to zero only; *)
(* a triangle whose corners meet has no side.                              *)
(***************************************************************************)
NormalsFaceViewer ==
  SurfaceLevel <= 0 =>
    \A t \in 1 .. Len(MeshData) :
      SeenFrom(MeshData, t) = MeshData[t].normal

(***************************************************************************)
(* Where the 2D terrain is above the level, it is so down to the bottom,   *)
(* and below the top of the chunk: no overhang, and no ceiling, although   *)
(* the height map never writes the top layer of the samples.  A negative   *)
(* level would take the zeros there for ground.                            *)
(***************************************************************************)
NoOverhang ==
  IsMeshed /\ GenerationType = "GT_2D" /\ SurfaceLevel >= 0 =>
    \A v \in Voxel :
      Above(v) => v[2] < Size /\ (v[2] > 0 => Above(Minus(v, UnitOf(2))))
=============================================================================
