----------------------------- MODULE ChunkGrid -----------------------------
(***************************************************************************)
(* What the three kinds of chunk have in common: their blocks, the order   *)
(* of their loops and the height of a column of terrain.  One unit of      *)
(* length is one block, 100 Unreal units.                                  *)
(***************************************************************************)
EXTENDS Vectors

CONSTANTS
  Size,      \* Blocks along each edge of the chunk.
  NoiseUnit  \* A noise value n stands for the real number n / NoiseUnit.

ASSUME SizeAssumption == Size \in Nat

ASSUME UnitAssumption == NoiseUnit \in Nat \ {0}

Cell == [Axes -> 0 .. (Size - 1)]

(***************************************************************************)
(* The faces of the blocks.  A face lies on the surface of a set of blocks *)
(* when its block belongs to the set and the one it looks into does not;   *)
(* the blocks of neighbouring chunks count as outside.                     *)
(***************************************************************************)
Face == [cell : Cell, dir : EDirection]

Surface(S) ==
  {f \in Face : f.cell \in S /\ Plus(f.cell, Toward(f.dir)) \notin S}

EGenerationType == {"GT_3D", "GT_2D"}

(***************************************************************************)
(* The three loops over the blocks, or the cubes, of a chunk: z innermost, *)
(* then y, then x; they have ended when x reaches Size.                    *)
(***************************************************************************)
Following(p) ==
  IF p[2] + 1 < Size THEN Vec(p[0], p[1], p[2] + 1)
  ELSE IF p[1] + 1 < Size THEN Vec(p[0], p[1] + 1, 0)
  ELSE Vec(p[0] + 1, 0, 0)

(***************************************************************************)
(* FMath::RoundToInt((Noise + 1) * Size / 2) is the floor of the scaled    *)
(* noise plus one half; Height clamps it to the chunk.                     *)
(***************************************************************************)
ScaledNoise(n) == ((n + NoiseUnit) * Size + NoiseUnit) \div (2 * NoiseUnit)

Clamp(n, lo, hi) == IF n < lo THEN lo ELSE IF n < hi THEN n ELSE hi

Height(n) == Clamp(ScaledNoise(n), 0, Size)
=============================================================================
