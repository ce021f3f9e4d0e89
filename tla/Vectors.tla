------------------------------ MODULE Vectors ------------------------------
(***************************************************************************)
(* Vectors with integer coordinates, indexed by axis as FIntVector is: 0   *)
(* is X, 1 is Y, 2 is Z.                                                   *)
(***************************************************************************)
EXTENDS Integers

Axes   == 0 .. 2
Vector == [Axes -> Int]

Vec(x, y, z) == [a \in Axes |-> IF a = 0 THEN x ELSE IF a = 1 THEN y ELSE z]
Plus(u, v)   == [a \in Axes |-> u[a] + v[a]]
Minus(u, v)  == [a \in Axes |-> u[a] - v[a]]
Times(k, u)  == [a \in Axes |-> k * u[a]]

Cross(u, v) ==
  Vec(u[1] * v[2] - u[2] * v[1],
      u[2] * v[0] - u[0] * v[2],
      u[0] * v[1] - u[1] * v[0])

(***************************************************************************)
(* EDirection and the unit vectors it stands for.                          *)
(***************************************************************************)
EDirection == {"Forward", "Right", "Back", "Left", "Up", "Down"}

Toward(d) ==
  CASE d = "Forward" -> Vec( 1,  0,  0)
    [] d = "Right"   -> Vec( 0,  1,  0)
    [] d = "Back"    -> Vec(-1,  0,  0)
    [] d = "Left"    -> Vec( 0, -1,  0)
    [] d = "Up"      -> Vec( 0,  0,  1)
    [] d = "Down"    -> Vec( 0,  0, -1)
=============================================================================
