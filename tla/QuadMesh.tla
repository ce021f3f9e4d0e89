------------------------------ MODULE QuadMesh ------------------------------
(***************************************************************************)
(* FChunkMeshData as CreateFace and CreateQuad build it, four vertices and *)
(* six triangle indices at a time: a sequence of quads, quad q holding the *)
(* vertices 4(q-1) to 4(q-1)+3 of the buffers and the indices 6(q-1) to    *)
(* 6(q-1)+5.  The indices are the absolute ones the code stores, so what   *)
(* a quad looks like depends on the whole buffer, as it does on the GPU.   *)
(***************************************************************************)
EXTENDS BlockGrid, Sequences

Quad(v, tri) == [v |-> v, tri |-> tri]

VertexAt(mesh, n) == mesh[n \div 4 + 1].v[n % 4]

IndicesInBuffer(mesh) ==
  \A q \in 1 .. Len(mesh), k \in 0 .. 5 : mesh[q].tri[k] \in 0 .. (4 * Len(mesh) - 1)

(***************************************************************************)
(* The side a triangle is seen from.  Unreal draws a triangle for a viewer *)
(* who sees its corners clockwise; its axes are left-handed, so that side  *)
(* is the one the cross product of its edges points away from.             *)
(***************************************************************************)
Corner(mesh, q, t, k) == VertexAt(mesh, mesh[q].tri[3 * t + k])

SeenFrom(mesh, q, t) ==
  LET P(k) == Corner(mesh, q, t, k)
  IN  Cross(Minus(P(2), P(0)), Minus(P(1), P(0)))

(***************************************************************************)
(* The quad's two triangles are the halves of an axis-parallel rectangle,  *)
(* cut along a diagonal and both seen from direction d.                    *)
(***************************************************************************)
Corners(mesh, q, t) == {Corner(mesh, q, t, k) : k \in 0 .. 2}

FacesAlong(mesh, q, t, d) ==
  \A a \in Axes :
    LET s == SeenFrom(mesh, q, t)[a]
    IN  IF Toward(d)[a] = 0 THEN s = 0 ELSE s * Toward(d)[a] > 0

IsRectangle(P, Q, d) ==
  LET Ends(a) == {p[a] : p \in P \cup Q}
  IN  /\ P \cup Q = {Vec(x, y, z) : x \in Ends(0), y \in Ends(1), z \in Ends(2)}
      /\ \E p, r \in P \cap Q :
           \A a \in Axes : Toward(d)[a] = 0 => p[a] # r[a]

(***************************************************************************)
(* The unit faces a quad covers: those whose cell lies behind it.          *)
(***************************************************************************)
CellsBehind(P, d, a) ==
  LET ends == {p[a] : p \in P}
      low  == CHOOSE n \in ends : \A m \in ends : n <= m
      high == CHOOSE n \in ends : \A m \in ends : n >= m
  IN  CASE Toward(d)[a] =  1 -> {low - 1}
        [] Toward(d)[a] = -1 -> {low}
        [] OTHER             -> low .. (high - 1)

Covered(mesh, q) ==
  LET P == Corners(mesh, q, 0)
      Q == Corners(mesh, q, 1)
      Seen == {d \in EDirection : \A t \in 0 .. 1 : FacesAlong(mesh, q, t, d)}
  IN  UNION {{[cell |-> Vec(x, y, z), dir |-> d] :
                x \in CellsBehind(P, d, 0),
                y \in CellsBehind(P, d, 1),
                z \in CellsBehind(P, d, 2)} :
             d \in {e \in Seen : IsRectangle(P, Q, e)}}

DrawnBy(mesh) ==
  IF IndicesInBuffer(mesh) THEN UNION {Covered(mesh, q) : q \in 1 .. Len(mesh)}
                           ELSE {}
=============================================================================
