-------------------------- MODULE MCVWGreedyChunk --------------------------
(***************************************************************************)
(* Instances of VWGreedyChunk for TLC: a chunk of 2 x 2 x 2 blocks with    *)
(* the 3D fields of solid and empty cells whose last block is solid and    *)
(* the 2D fields of heights 0, 1 and 2; and a chunk of 3 x 3 x 3 blocks    *)
(* with every arrangement of blocks in its middle layer, the others empty, *)
(* and the 2D fields whose rows have heights 0 to 3.  The lowest and the   *)
(* highest noise lie outside -1 to 1, so that the clamp of the height has  *)
(* something to do.                                                        *)
(***************************************************************************)
EXTENDS VWGreedyChunk

MCNoiseFields  == {f \in [Cell -> {-1, 0}] : f[Vec(1, 1, 1)] = -1}
MCHeightFields == [Column -> {-9, 0, 9}]

LayerFields ==
  {[c \in Cell |-> IF c[2] = 1 THEN layer[[a \in 0 .. 1 |-> c[a]]] ELSE 0] :
     layer \in [Column -> {-1, 0}]}

TerraceFields ==
  {[c \in Column |-> terrace[c[0]]] : terrace \in [0 .. 2 -> {-9, -1, 1, 9}]}
=============================================================================
