---------------------------- MODULE PerlinNoise ----------------------------
(***************************************************************************)
(* FastNoiseLite as the chunks use it: GetNoise in three dimensions, of    *)
(* Perlin noise, summed over octaves (FractalType_FBm), in exact numbers.  *)
(*                                                                         *)
(* A coordinate, with the frequency in it, is a whole number of 1 / Grain; *)
(* an interpolation weight one of 1 / Whole; the noise of an octave, before*)
(* its last factor, one of 1 / One.  The hash of a corner of the lattice   *)
(* may be anything, and so the gradient of a corner be any of the table's. *)
(***************************************************************************)
EXTENDS Integers, FiniteSets

CONSTANTS
  Grain,   \* Parts of a cell of the lattice; even.
  Octaves, \* mOctaves.
  Places   \* The places whose noise is asked for.

\* What is assumed of the constants.
NoiseAssumption ==
  /\ Grain \in Nat \ {0} /\ Grain % 2 = 0
  /\ Octaves \in Nat \ {0}
  /\ \A p \in Places : p \in Int \X Int \X Int

VARIABLES
  place,  \* x, y and z in this octave.
  octave, \* The loop variable i of GenFractalFBm, from 0.
  amp,    \* The amplitude is mFractalBounding / amp.
  corner, \* How many corners' gradients have been looked up.
  noise,  \* What they add up to.
  sum     \* The sum of the octaves, by mFractalBounding.

noiseVars == <<place, octave, amp, corner, noise, sum>>

Axes == 1 .. 3
Whole == (Grain ^ 5) \div 2
One == Whole ^ 3 * Grain

\* A mutant of FastFloor: the conversion to int.
Truncated(f) == IF f >= 0 THEN f \div Grain ELSE -((-f) \div Grain)

\* A negative coordinate is rounded down, to the cell below if it is a whole number.
FastFloor(f) == IF f >= 0 THEN f \div Grain ELSE -((-f) \div Grain) - 1

InterpQuintic(t) == (t * t * t * (t * (6 * t - 15 * Grain) + 10 * Grain * Grain)) \div 2

\* The corners in the order of their look-ups: x runs first, then y, then z.
CornerAt(n) == <<n % 2, (n \div 2) % 2, n \div 4>>

\* A mutant of Offset: every corner sees the place as the first one does.
OffsetFromFirst(cell, c) == [a \in Axes |-> place[a] - cell[a] * Grain]

\* The place seen from a corner of a cell: xd0 or xd1, and so on.
Offset(cell, c) == [a \in Axes |-> place[a] - (cell[a] + c[a]) * Grain]

\* What the Lerps give a corner: xs or 1 - xs, and so on, multiplied.
Weight(cell, c) ==
  LET along(a) == LET t == InterpQuintic(place[a] - cell[a] * Grain)
                  IN  IF c[a] = 1 THEN t ELSE Whole - t
  IN  along(1) * along(2) * along(3)

\* The table holds the twelve vectors to the edges of a cube, some more often.
Gradients3D == {g \in [Axes -> {-1, 0, 1}] : Cardinality({a \in Axes : g[a] = 0}) = 1}

Cell == [a \in Axes |-> FastFloor(place[a])]

\* An amplitude, in CalculateFractalBounding, is a whole number of 1 / Unit.
Unit == 2 ^ Octaves

\* A mutant: the loop stops an octave short.
BoundingShort ==
  LET after[i \in 1 .. Octaves] ==
        IF i = 1 THEN [amp |-> Unit \div 2, ampFractal |-> Unit]
        ELSE [amp |-> after[i - 1].amp \div 2,
              ampFractal |-> after[i - 1].ampFractal + after[i - 1].amp]
  IN  after[IF Octaves = 1 THEN 1 ELSE Octaves - 1].ampFractal

\* What 1 / mFractalBounding is, by the loop variable i of its computation, from 1: the sum
\* of the amplitudes of the octaves before i.
CalculateFractalBounding ==
  LET after[i \in 1 .. Octaves] ==
        IF i = 1 THEN [amp |-> Unit \div 2, ampFractal |-> Unit]
        ELSE [amp |-> after[i - 1].amp \div 2,
              ampFractal |-> after[i - 1].ampFractal + after[i - 1].amp]
  IN  after[Octaves].ampFractal

----------------------------------------------------------------------------
Init ==
  /\ place \in Places
  /\ octave = 0 /\ amp = 1
  /\ corner = 0 /\ noise = 0 /\ sum = 0

\* GradCoord of the next corner.
LookUp ==
  /\ octave < Octaves /\ corner < 8
  /\ LET offset == Offset(Cell, CornerAt(corner))
         weight == Weight(Cell, CornerAt(corner))
     IN  \E g \in Gradients3D :
           noise' = noise + weight * (g[1] * offset[1] + g[2] * offset[2] + g[3] * offset[3])
  /\ corner' = corner + 1
  /\ UNCHANGED <<place, octave, amp, sum>>

\* The octave is added; the next has twice the frequency, mLacunarity, and half the
\* amplitude, mGain.
EndOctave ==
  /\ octave < Octaves /\ corner = 8
  /\ sum' = sum + noise \div amp
  /\ octave' = octave + 1 /\ amp' = 2 * amp
  /\ place' = [a \in Axes |-> 2 * place[a]]
  /\ corner' = 0 /\ noise' = 0

Next == LookUp \/ EndOctave

Spec == Init /\ [][Next]_noiseVars

----------------------------------------------------------------------------
AbsOf(n) == IF n < 0 THEN -n ELSE n

\* The corners a place has in a cell, with what they contribute: those of no weight
\* contribute nothing, whatever their gradient.
Contributions(cell) ==
  {<<[a \in Axes |-> cell[a] + c[a]], Weight(cell, c), Offset(cell, c)>> :
     c \in {d \in {CornerAt(n) : n \in 0 .. 7} : Weight(cell, d) # 0}}

\* The variables have their types, and every octave is added exactly, by its amplitude.
TypeOK ==
  /\ place \in [Axes -> Int]
  /\ octave \in 0 .. Octaves /\ amp = 2 ^ octave
  /\ corner \in 0 .. 8
  /\ noise \in Int /\ sum \in Int
  /\ corner = 8 => noise % amp = 0

\* The noise of a place is the same in whichever of the cells that it borders on it is
\* computed, in particular in the cell below, where FastFloor puts a negative whole
\* coordinate: there is no seam at the cells' sides, nor at 0.
SameInEveryCell ==
  corner = 0 => \A step \in {CornerAt(n) : n \in 0 .. 7} :
    LET cell == [a \in Axes |-> place[a] \div Grain - step[a]]
    IN  (\A a \in Axes : step[a] = 1 => place[a] % Grain = 0)
          => Contributions(Cell) = Contributions(cell)

\* 1 / 0.964921414852142333984375, rounded down.
Limit == One + (One \div 100000) * 3635

\* "Noise output bounded between -1...1", octave by octave: 0.9649 times the noise is
\* at most 1, whatever the gradients of the corners are.
OctaveBounded == corner = 8 => AbsOf(noise) <= Limit

\* "Noise output bounded between -1...1" of the sum, times mFractalBounding, which is
\* computed in a loop of its own: it must count the amplitudes that the octaves have.
OutputBounded ==
  octave = Octaves => AbsOf(sum) <= (Limit \div Unit) * CalculateFractalBounding
============================================================================
