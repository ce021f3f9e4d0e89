--------------------------- MODULE MCVWChunkWorld ---------------------------
(***************************************************************************)
(* Instance of VWChunkWorld for TLC: a chunk on each side of the one at    *)
(* the origin, of 2 x 2 x 2 blocks each, and a few noises that differ in   *)
(* the places they are solid.  The noise generator keeps nothing between   *)
(* two calls, so that it is followed by itself: a behaviour either         *)
(* generates a world or computes the noise of a place, in one octave or in *)
(* two.                                                                    *)
(***************************************************************************)
EXTENDS VWChunkWorld

MCNoises == {"Stone", "Planes", "Checks", "Scattered"}

MCGetNoise(noise, p) ==
  LET q == [a \in Axes |-> p[a] \div 50]
  IN  CASE noise = "Stone"     -> -1
        [] noise = "Planes"    -> IF p[0] < 0 THEN 1 ELSE -1
        [] noise = "Checks"    -> (((q[0] + q[1] + q[2]) \div 2) % 2) - 1
        [] noise = "Scattered" -> (((q[0] * q[0] + 3 * q[1] + 5 * q[0] * q[2]) % 7) % 3) - 1

VARIABLES part, place, octave, amp, corner, noise, sum

\* Quarters of a cell, on either side of 0, on a side, an edge and within a cell.
MCPlaces ==
  {<<2, 2, 2>>, <<1, 2, 2>>, <<1, -3, 2>>, <<-4, 2, 1>>, <<-1, 0, -3>>, <<-8, -4, 1>>,
   <<-4, -4, -4>>, <<0, 4, -4>>, <<-5, 4, 0>>}

\* Places on sides and edges of cells, whose second octave is at halves; a third would be
\* on the lattice, where the noise is 0.
MCEdges == {<<1, 0, 0>>, <<0, -1, 4>>, <<-3, -4, 0>>, <<-1, 1, 0>>, <<1, 2, 4>>}

Octave == INSTANCE PerlinNoise WITH Grain <- 4, Octaves <- 1, Places <- MCPlaces
Sum == INSTANCE PerlinNoise WITH Grain <- 4, Octaves <- 2, Places <- MCEdges

ASSUME Octave!NoiseAssumption /\ Sum!NoiseAssumption

noiseRest == <<place, octave, amp, corner, noise, sum>>

PartInit ==
  /\ Init
  /\ \/ part = "world" /\ Sum!Init /\ place = <<1, 0, 0>>
     \/ part = "octave" /\ Octave!Init
     \/ part = "sum" /\ Sum!Init
  /\ part # "world" =>
       GenerationType = "GT_3D" /\ Noise = "Stone" /\ ChunkClass = "AVWChunk"

PartNext ==
  /\ UNCHANGED part
  /\ \/ part = "world" /\ Next /\ UNCHANGED noiseRest
     \/ part = "octave" /\ Octave!Next /\ UNCHANGED vars
     \/ part = "sum" /\ Sum!Next /\ UNCHANGED vars

PartSpec == PartInit /\ [][PartNext]_<<part, vars, noiseRest>>

\* The noise of a place is the same in whichever of the cells that it borders on.
SameInEveryCell == part # "world" => Sum!SameInEveryCell

\* The noise of an octave and the sum of two stay within bounds.
NoiseBounded ==
  /\ part = "octave" => Octave!OctaveBounded
  /\ part = "sum" => Sum!OutputBounded
=============================================================================
