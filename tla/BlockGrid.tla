----------------------------- MODULE BlockGrid -----------------------------
(***************************************************************************)
(* The grid of blocks that AVWChunk and AVWGreedyChunk share: its cells,   *)
(* the flat array that stores it, and what the height maps put there.      *)
(***************************************************************************)
EXTENDS ChunkGrid

CONSTANTS
  NoiseFields,  \* The 3D noise a chunk can meet, per cell.
  HeightFields  \* The 2D noise a chunk can meet, per column.

Column == [0 .. 1 -> 0 .. (Size - 1)]

ASSUME NoiseAssumption ==
  /\ NoiseFields  \subseteq [Cell -> Int]
  /\ HeightFields \subseteq [Column -> Int]

EBlock == {"Null", "Air", "Stone", "Dirt", "Grass"}

(***************************************************************************)
(* The flat array: where a cell is stored, and what SetNum leaves in it.   *)
(***************************************************************************)
BlockIndex == 0 .. (Size * Size * Size - 1)

\* A mutant: the stride of the layers is that of the rows.
FlatBlockIndex(c) == c[2] * Size + c[1] * Size + c[0]

GetBlockIndex(c) == c[2] * Size * Size + c[1] * Size + c[0]

UnsetBlocks == [n \in BlockIndex |-> "Null"]

(***************************************************************************)
(* The array after a loop over the cells that stores value[c] in cell c.   *)
(***************************************************************************)
Stored(blocks, value) ==
  [n \in DOMAIN blocks |->
     IF \E c \in Cell : GetBlockIndex(c) = n
       THEN value[CHOOSE c \in Cell : GetBlockIndex(c) = n]
       ELSE blocks[n]]

(***************************************************************************)
(* What the two height maps make of a noise field.                         *)
(***************************************************************************)
Caves(noise) == [c \in Cell |-> IF noise[c] >= 0 THEN "Air" ELSE "Stone"]

\* A mutant: the loop that writes the air starts one block too high.
HillsWithGap(noise) ==
  [c \in Cell |->
     LET height == Height(noise[[a \in 0 .. 1 |-> c[a]]])
     IN  IF c[2] < height THEN "Stone" ELSE IF c[2] > height THEN "Air" ELSE "Null"]

Hills(noise) ==
  [c \in Cell |->
     IF c[2] < Height(noise[[a \in 0 .. 1 |-> c[a]]]) THEN "Stone" ELSE "Air"]
=============================================================================
