---------------------------- MODULE VWChunkBase ----------------------------
(***************************************************************************)
(* AVWChunkBase: the members every chunk has and the steps of BeginPlay    *)
(* that do not depend on the mesher.  BeginPlay calls Setup, then          *)
(* GenerateHeightMap, GenerateMesh, the vertex count log and ApplyMesh,    *)
(* one after the other on the game thread; phase names the next of them.   *)
(* The noise is a function of position that nothing changes meanwhile.     *)
(***************************************************************************)
EXTENDS Sequences, Integers

VARIABLES
  phase,           \* The next call of BeginPlay.
  GenerationType,  \* Set by the chunk world before BeginPlay.
  Noise,           \* What the noise answers at each sample of the chunk.
  MeshData,        \* The mesh the chunk is building.
  VertexCount,     \* AVWChunkBase::VertexCount.
  logged,          \* The vertex counts BeginPlay has logged.
  section          \* What the procedural mesh component shows.

inputs   == <<GenerationType, Noise>>
baseVars == <<phase, inputs, MeshData, VertexCount, logged, section>>

Phases == {"Setup", "GenerateHeightMap", "GenerateMesh", "Log", "ApplyMesh", "Done"}

BaseInit(fields3D, fields2D) ==
  /\ phase = "Setup"
  /\ \/ GenerationType = "GT_3D" /\ Noise \in fields3D
     \/ GenerationType = "GT_2D" /\ Noise \in fields2D
  /\ MeshData = <<>>
  /\ VertexCount = 0
  /\ logged = <<>>
  /\ section = <<>>

Enter(from, to) == phase = from /\ phase' = to

(***************************************************************************)
(* The switch of GenerateHeightMap, before the height map of that type.    *)
(***************************************************************************)
GenerateHeightMap(type) ==
  /\ Enter("GenerateHeightMap", "GenerateMesh")
  /\ GenerationType = type

(***************************************************************************)
(* The vertex count log at the end of BeginPlay, before ApplyMesh.         *)
(***************************************************************************)
LogVertexCount ==
  /\ Enter("Log", "ApplyMesh")
  /\ logged' = Append(logged, VertexCount)
  /\ UNCHANGED <<inputs, MeshData, VertexCount, section>>

ApplyMesh ==
  /\ Enter("ApplyMesh", "Done")
  /\ section' = MeshData
  /\ UNCHANGED <<inputs, MeshData, VertexCount, logged>>
=============================================================================
