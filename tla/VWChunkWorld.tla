---------------------------- MODULE VWChunkWorld ----------------------------
(***************************************************************************)
(* AVWChunkWorld: on BeginPlay it lays out a box of chunks around the      *)
(* origin.  Each chunk is spawned deferred, with the defaults of its       *)
(* class, then configured, then finished, which runs the chunk's own       *)
(* BeginPlay.  Here that is one step that keeps the promise ChunkSurface   *)
(* makes of a chunk of blocks; the modules of the chunks show how.         *)
(***************************************************************************)
EXTENDS Vectors, Sequences, FiniteSets

CONSTANTS
  DrawDistance,  \* Chunks on each side of the origin.
  ChunkSize,     \* The size the world gives its chunks.
  DefaultSize,   \* The size a chunk has before it is configured.
  NoiseUnit,     \* A noise value n stands for the real number n / NoiseUnit.
  Noises,        \* The noise functions the world can meet.
  GetNoise(_, _) \* What a noise answers at a point, in hundredths of a block.

ASSUME WorldAssumption ==
  /\ DrawDistance \in Nat
  /\ ChunkSize \in Nat
  /\ DefaultSize \in Nat
  /\ NoiseUnit \in Nat \ {0}

VARIABLES
  pc,              \* What BeginPlay does next.
  GenerationType,  \* Set in the level.
  ChunkClass,      \* Set in the level.
  Noise,           \* The noise of the world: each chunk has the same.
  at,              \* The loop variables x, y and z.
  chunks,          \* The chunks spawned so far.
  ChunkCount,      \* The member of that name.
  logged           \* The chunk counts that BeginPlay has logged.

settings == <<GenerationType, ChunkClass, Noise>>
vars == <<pc, settings, at, chunks, ChunkCount, logged>>

Grid(size) == INSTANCE ChunkGrid WITH Size <- size

BlockClasses == {"AVWChunk", "AVWGreedyChunk"}
ChunkClasses == BlockClasses \cup {"AVWMarchingChunk"}

Init ==
  /\ pc = "Spawn"
  /\ GenerationType \in {"GT_3D", "GT_2D"}
  /\ ChunkClass \in ChunkClasses
  /\ Noise \in Noises
  /\ at = Vec(-DrawDistance, -DrawDistance,
              IF GenerationType = "GT_3D" THEN -DrawDistance ELSE 1)
  /\ chunks = <<>>
  /\ ChunkCount = 0
  /\ logged = <<>>

(***************************************************************************)
(* SpawnActorDeferred constructs the chunk, at its place, with the         *)
(* defaults of its class; location is in Unreal units.                     *)
(***************************************************************************)
Spawn ==
  /\ pc = "Spawn"
  /\ at[0] <= DrawDistance
  /\ pc' = "Configure"
  /\ chunks' = Append(chunks,
       [location |-> Times(ChunkSize * 100, at), Size |-> DefaultSize,
        GenerationType |-> "GT_3D", samples |-> <<>>])
  /\ UNCHANGED <<settings, at, ChunkCount, logged>>

\* A mutant: the chunk begins to play with the size of its class.
ConfigureWithoutSize ==
  /\ pc = "Configure"
  /\ pc' = "Finish"
  /\ chunks' = [chunks EXCEPT ![Len(chunks)].GenerationType = GenerationType]
  /\ UNCHANGED <<settings, at, ChunkCount, logged>>

Configure ==
  /\ pc = "Configure"
  /\ pc' = "Finish"
  /\ chunks' = [chunks EXCEPT ![Len(chunks)].Size = ChunkSize,
                              ![Len(chunks)].GenerationType = GenerationType]
  /\ UNCHANGED <<settings, at, ChunkCount, logged>>

(***************************************************************************)
(* The chunk's own BeginPlay.  GetActorLocation() / 100 is the position of *)
(* the chunk in blocks.  The chunk takes one sample for each of its cells, *)
(* or for each corner of its cells when it marches; in 2D one for each     *)
(* column.  The naive chunk divides the position by 100 once more in 2D.   *)
(***************************************************************************)
Position(chunk) == [a \in Axes |-> chunk.location[a] \div 100]

\* A mutant: every chunk divides its position twice, in 2D and in 3D.
SamplePointDividedTwice(chunk, s) ==
  [a \in Axes |->
     IF a = 2 /\ chunk.GenerationType = "GT_2D" THEN 0
     ELSE s[a] * 100 + Position(chunk)[a]]

SamplePoint(chunk, s) ==
  IF chunk.GenerationType = "GT_2D"
    THEN [a \in Axes |->
            IF a = 2 THEN 0
            ELSE IF ChunkClass = "AVWChunk" THEN s[a] * 100 + Position(chunk)[a]
            ELSE (s[a] + Position(chunk)[a]) * 100]
    ELSE Times(100, Plus(s, Position(chunk)))

SampledAt(chunk) ==
  LET last == IF ChunkClass \in BlockClasses THEN chunk.Size - 1 ELSE chunk.Size
  IN  {Vec(x, y, z) : x \in 0 .. last, y \in 0 .. last,
                      z \in IF chunk.GenerationType = "GT_2D" THEN {0} ELSE 0 .. last}

Samples(chunk) ==
  [s \in SampledAt(chunk) |-> GetNoise(Noise, SamplePoint(chunk, s))]

(***************************************************************************)
(* The loops: z innermost in 3D; in 2D there is one layer of chunks.       *)
(***************************************************************************)
\* A mutant: the loop over y stops before the last chunk.
NextPlaceShort(p) ==
  IF GenerationType = "GT_3D" /\ p[2] < DrawDistance THEN Vec(p[0], p[1], p[2] + 1)
  ELSE LET z == IF GenerationType = "GT_3D" THEN -DrawDistance ELSE p[2]
       IN  IF p[1] < DrawDistance - 1 THEN Vec(p[0], p[1] + 1, z)
           ELSE Vec(p[0] + 1, -DrawDistance, z)

NextPlace(p) ==
  IF GenerationType = "GT_3D" /\ p[2] < DrawDistance THEN Vec(p[0], p[1], p[2] + 1)
  ELSE LET z == IF GenerationType = "GT_3D" THEN -DrawDistance ELSE p[2]
       IN  IF p[1] < DrawDistance THEN Vec(p[0], p[1] + 1, z)
           ELSE Vec(p[0] + 1, -DrawDistance, z)

(***************************************************************************)
(* FinishSpawningActor.  Only the 3D loop counts the chunk.                *)
(***************************************************************************)
Finish ==
  /\ pc = "Finish"
  /\ pc' = "Spawn"
  /\ chunks' = [chunks EXCEPT ![Len(chunks)].samples = Samples(chunks[Len(chunks)])]
  /\ ChunkCount' = IF GenerationType = "GT_3D" THEN ChunkCount + 1 ELSE ChunkCount
  /\ at' = NextPlace(at)
  /\ UNCHANGED <<settings, logged>>

LogChunkCount ==
  /\ pc = "Spawn"
  /\ at[0] > DrawDistance
  /\ pc' = "Done"
  /\ logged' = Append(logged, ChunkCount)
  /\ UNCHANGED <<settings, at, chunks, ChunkCount>>

Next == Spawn \/ Configure \/ Finish \/ LogChunkCount

Spec == Init /\ [][Next]_vars
-----------------------------------------------------------------------------
(***************************************************************************)
(* Type invariant.                                                         *)
(***************************************************************************)
TypeOK ==
  /\ pc \in {"Spawn", "Configure", "Finish", "Done"}
  /\ GenerationType \in {"GT_3D", "GT_2D"}
  /\ ChunkClass \in ChunkClasses
  /\ Noise \in Noises
  /\ at \in Vector
  /\ ChunkCount \in Nat
  /\ \A n \in 1 .. Len(chunks) :
       /\ chunks[n].location \in Vector
       /\ chunks[n].Size \in {DefaultSize, ChunkSize}
       /\ chunks[n].GenerationType \in {"GT_3D", "GT_2D"}

(***************************************************************************)
(* The blocks of the world: those a chunk holds, where they are in the     *)
(* world, and whether they are solid.                                      *)
(***************************************************************************)
Played == {n \in 1 .. Len(chunks) : chunks[n].samples # <<>>}

InWorld(chunk, c) == Plus(c, Position(chunk))

Region(chunk) == {InWorld(chunk, c) : c \in Grid(chunk.Size)!Cell}

SolidCells(chunk) ==
  {c \in Grid(chunk.Size)!Cell :
     IF chunk.GenerationType = "GT_2D"
       THEN c[2] < Grid(chunk.Size)!Height(chunk.samples[Vec(c[0], c[1], 0)])
       ELSE chunk.samples[c] < 0}

(***************************************************************************)
(* The chunks tile the world: no two of them ever share a block, and when  *)
(* BeginPlay is over no block of the box is missing.  This needs the       *)
(* distance of the chunks, their size when they begin to play and the      *)
(* bounds of the loops to fit each other.                                  *)
(***************************************************************************)
Reach == (-DrawDistance * ChunkSize) .. ((DrawDistance + 1) * ChunkSize - 1)

Box == {Vec(x, y, z) : x \in Reach, y \in Reach,
          z \in IF GenerationType = "GT_3D" THEN Reach ELSE ChunkSize .. (2 * ChunkSize - 1)}

ChunksTileTheWorld ==
  /\ \A n \in Played : \A m \in Played \ {n} :
       Region(chunks[n]) \cap Region(chunks[m]) = {}
  /\ pc = "Done" => UNION {Region(chunks[n]) : n \in Played} = Box

(***************************************************************************)
(* The terrain has no seam: two chunks that sample the same place of the   *)
(* world, as the sides of marching chunks do, find the same value there,   *)
(* and it is the noise of that place.  The naive chunk in 2D is left out:  *)
(* it samples a hundredth of the distance between two chunks.              *)
(***************************************************************************)
NoisePlace(p) ==
  Times(100, IF GenerationType = "GT_2D" THEN Vec(p[0], p[1], 0) ELSE p)

TerrainHasNoSeam ==
  ~(ChunkClass = "AVWChunk" /\ GenerationType = "GT_2D") =>
    \A n \in Played : \A s \in DOMAIN chunks[n].samples :
      chunks[n].samples[s] = GetNoise(Noise, NoisePlace(InWorld(chunks[n], s)))

(***************************************************************************)
(* What a world of blocks shows: every face of the surface of the whole    *)
(* terrain, once, and besides these only faces between two solid blocks of *)
(* different chunks, where each of the two chunks draws its own.           *)
(***************************************************************************)
Shown(chunk) ==
  {[cell |-> InWorld(chunk, f.cell), dir |-> f.dir] :
     f \in Grid(chunk.Size)!Surface(SolidCells(chunk))}

Solid == UNION {{InWorld(chunks[n], c) : c \in SolidCells(chunks[n])} : n \in Played}

Turned(f) ==
  LET next == Plus(f.cell, Toward(f.dir))
  IN  [cell |-> next, dir |-> CHOOSE d \in EDirection : Plus(next, Toward(d)) = f.cell]

WorldShowsItsSurface ==
  pc = "Done" /\ ChunkClass \in BlockClasses =>
    LET shown  == UNION {Shown(chunks[n]) : n \in Played}
        hidden == {f \in shown : Plus(f.cell, Toward(f.dir)) \in Solid}
    IN  /\ \A c \in Solid, d \in EDirection :
             Plus(c, Toward(d)) \notin Solid => [cell |-> c, dir |-> d] \in shown
        /\ \A f \in hidden : Turned(f) \in hidden
        /\ \A n \in Played, f \in hidden :
             f.cell \in Region(chunks[n]) => Turned(f).cell \notin Region(chunks[n])

(***************************************************************************)
(* The message BeginPlay logs, "%d Chunks Created", tells how many chunks  *)
(* it created.                                                             *)
(***************************************************************************)
LogTellsChunkCount == pc = "Done" => logged = <<Len(chunks)>>
=============================================================================
