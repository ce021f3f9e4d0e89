------------------------- MODULE MCVWMarchingChunk -------------------------
(***************************************************************************)
(* Instances of VWMarchingChunk for TLC.  The first is a single cube with  *)
(* every arrangement of samples above and below, and with one sample that  *)
(* lies on the level 0, each from three surface levels.                    *)
(*                                                                         *)
(* The second is a chunk of 2 x 2 x 2 cubes.  Along each of the three axes *)
(* two cubes meet; one of them has every arrangement of its eight samples, *)
(* the other one's four far samples are all above or all below.  When each *)
(* cube fits such a plain one on either side, any two cubes fit.  The      *)
(* other two layers repeat the samples.  With the level at 0 the surface   *)
(* cuts the edges at two thirds; at -1 it runs through the lower samples,  *)
(* and many triangles shrink to a point or a line.  The 2D fields are the  *)
(* ridges of heights 0, 1 and 2 along either horizontal axis.              *)
(***************************************************************************)
EXTENDS VWMarchingChunk

CubeFields ==
  [Voxel -> {-2, 2}] \cup {[f EXCEPT ![Vec(0, 0, 0)] = 0] : f \in [Voxel -> {-2, 2}]}

CubeLevels == {-1, 0, 1}

CubeHeights == [Column -> {-9, 0, 2}]

Repeated(a, v) == [b \in Axes |-> IF b # a /\ v[b] = 2 THEN 0 ELSE v[b]]

PairFields ==
  LET Pair(a) == {v \in Voxel : \A b \in Axes \ {a} : v[b] < 2}
      Cube(a, far) == {v \in Pair(a) : v[a] # far}
      Field(a, f, far, plain) ==
        [v \in Voxel |-> IF v[a] = far THEN plain ELSE f[Repeated(a, v)]]
  IN  UNION {{Field(a, f, far, plain) :
                f \in [Cube(a, far) -> {-1, 2}], plain \in {-1, 2}} :
             a \in Axes, far \in {0, 2}}

PairLevels == {-1, 0}

RidgeHeights ==
  {[c \in Column |-> ridge[c[a]]] : ridge \in [0 .. Size -> {-9, 0, 9}], a \in 0 .. 1}
=============================================================================
