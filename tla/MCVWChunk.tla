----------------------------- MODULE MCVWChunk -----------------------------
(***************************************************************************)
(* Instance of VWChunk for TLC: a chunk of 2 x 2 x 2 blocks, the 3D fields *)
(* of solid and empty cells whose last block is solid, and the 2D fields   *)
(* of heights 0, 1 and 2, the noise of the first and the last outside -1   *)
(* to 1, so that the clamp of the height has something to do.              *)
(***************************************************************************)
EXTENDS VWChunk

MCNoiseFields  == {f \in [Cell -> {-1, 0}] : f[Vec(1, 1, 1)] = -1}
MCHeightFields == [Column -> {-9, 0, 9}]
=============================================================================
