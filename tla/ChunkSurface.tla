---------------------------- MODULE ChunkSurface ----------------------------
(***************************************************************************)
(* What a chunk of blocks promises, whatever its mesher: its mesh is the   *)
(* surface of its solid cells.  Faces appear in any order and any number   *)
(* at a time, each once, and the mesh is shown only when the surface is    *)
(* whole, which in the end it is.                                          *)
(***************************************************************************)
EXTENDS BlockGrid

VARIABLES
  stage,  \* "empty", then "drawing", then "shown".
  solid,  \* The cells that hold a solid block.
  drawn   \* The unit faces the mesh covers so far.

surfaceVars == <<stage, solid, drawn>>

SurfaceInit == stage = "empty" /\ solid = {} /\ drawn = {}

Fill ==
  /\ stage = "empty"
  /\ stage' = "drawing"
  /\ solid' \in SUBSET Cell
  /\ UNCHANGED drawn

Draw ==
  /\ stage = "drawing"
  /\ drawn' \subseteq Surface(solid)
  /\ drawn \subseteq drawn'
  /\ UNCHANGED <<stage, solid>>

Show ==
  /\ stage = "drawing"
  /\ drawn = Surface(solid)
  /\ stage' = "shown"
  /\ UNCHANGED <<solid, drawn>>

SurfaceSpec ==
  /\ SurfaceInit /\ [][Fill \/ Draw \/ Show]_surfaceVars
  /\ <>(stage = "shown")
=============================================================================
