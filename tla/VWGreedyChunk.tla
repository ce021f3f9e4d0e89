--------------------------- MODULE VWGreedyChunk ---------------------------
(***************************************************************************)
(* AVWGreedyChunk, the greedy mesher.  For each axis it sweeps the slices  *)
(* between two layers of blocks.  In each slice it first notes in a mask   *)
(* which faces are needed, then scans the mask row by row: at the first    *)
(* face left it grows a rectangle of equal faces, first along the row and  *)
(* then over whole rows, adds one quad for it and clears it from the mask. *)
(***************************************************************************)
EXTENDS BlockGrid, VWChunkBase, QuadMesh

VARIABLES
  Blocks,     \* The blocks, in the flat array.
  Axis,       \* The axis of the sweep; the sweeps have ended at 3.
  Slice,      \* ChunkItr[Axis].
  Mask,       \* The faces of the slice that are still to be covered.
  MaskIndex,  \* The entry of Mask the scan stands on.
  i, j        \* Its coordinates; no slice is being scanned when j = Size.

scanVars  == <<Axis, Slice, Mask, MaskIndex, i, j>>
chunkVars == <<Blocks, scanVars>>
vars == <<baseVars, chunkVars>>

FMask  == [Block : EBlock, Normal : {-1, 0, 1}]
NoFace == [Block |-> "Null", Normal |-> 0]

MaskEntries == 0 .. (Size * Size - 1)

Axis1 == (Axis + 1) % 3
Axis2 == (Axis + 2) % 3

AlongAxis(a, n) == [b \in Axes |-> IF b = a THEN n ELSE 0]

AxisMask == AlongAxis(Axis, 1)

Init ==
  /\ BaseInit(NoiseFields, HeightFields)
  /\ Blocks = <<>>
  /\ Axis = 0
  /\ Slice = -1
  /\ Mask = [n \in MaskEntries |-> NoFace]
  /\ MaskIndex = 0
  /\ i = 0
  /\ j = Size

Setup ==
  /\ Enter("Setup", "GenerateHeightMap")
  /\ Blocks' = UnsetBlocks
  /\ UNCHANGED <<inputs, MeshData, VertexCount, logged, section, scanVars>>

Generate3DHeightMap ==
  /\ GenerateHeightMap("GT_3D")
  /\ Blocks' = Stored(Blocks, Caves(Noise))
  /\ UNCHANGED <<inputs, MeshData, VertexCount, logged, section, scanVars>>

Generate2DHeightMap ==
  /\ GenerateHeightMap("GT_2D")
  /\ Blocks' = Stored(Blocks, Hills(Noise))
  /\ UNCHANGED <<inputs, MeshData, VertexCount, logged, section, scanVars>>

GetBlock(c) ==
  IF \E a \in Axes : c[a] >= Size \/ c[a] < 0
    THEN "Air"
    ELSE Blocks[GetBlockIndex(c)]

CompareMask(m1, m2) == m1.Block = m2.Block /\ m1.Normal = m2.Normal

(***************************************************************************)
(* The mask entry for the blocks on the two sides of a slice.              *)
(***************************************************************************)
FaceBetween(current, next) ==
  IF (current # "Air") = (next # "Air") THEN NoFace
  ELSE IF current # "Air" THEN [Block |-> current, Normal |-> 1]
  ELSE [Block |-> next, Normal |-> -1]

(***************************************************************************)
(* Fills the mask of the next slice, Axis1 running fastest.                *)
(***************************************************************************)
SliceCell(n) ==
  [a \in Axes |-> IF a = Axis THEN Slice
                  ELSE IF a = Axis1 THEN n % Size ELSE n \div Size]

BuildMask ==
  /\ phase = "GenerateMesh"
  /\ Axis < 3 /\ j = Size /\ Slice < Size
  /\ Mask' = [n \in MaskEntries |->
                FaceBetween(GetBlock(SliceCell(n)), GetBlock(Plus(SliceCell(n), AxisMask)))]
  /\ Slice' = Slice + 1
  /\ MaskIndex' = 0
  /\ i' = 0
  /\ j' = 0
  /\ UNCHANGED <<baseVars, Blocks, Axis>>

\* A mutant: the corners are swapped for the wrong normal.
CreateQuadTurned(m, axisMask, v1, v2, v3, v4) ==
  LET N == m.Normal
      tri == <<0, 2 - N, 2 + N, 3, 1 + N, 1 - N>>
  IN  /\ MeshData' = Append(MeshData,
           [v      |-> [n \in 0 .. 3 |-> <<v1, v2, v3, v4>>[n + 1]],
            tri    |-> [k \in 0 .. 5 |-> VertexCount + tri[k + 1]],
            normal |-> Times(N, axisMask)])
      /\ VertexCount' = VertexCount + 4

CreateQuad(m, axisMask, v1, v2, v3, v4) ==
  LET N == m.Normal
      tri == <<0, 2 + N, 2 - N, 3, 1 - N, 1 + N>>
  IN  /\ MeshData' = Append(MeshData,
           [v      |-> [n \in 0 .. 3 |-> <<v1, v2, v3, v4>>[n + 1]],
            tri    |-> [k \in 0 .. 5 |-> VertexCount + tri[k + 1]],
            normal |-> Times(N, axisMask)])
      /\ VertexCount' = VertexCount + 4

(***************************************************************************)
(* How far the face under the scan can be repeated along its row, and that *)
(* row downwards.                                                          *)
(***************************************************************************)
Repeats(n) == CompareMask(Mask[MaskIndex], Mask[n])

\* A mutant: the width stops one entry before the end of the row.
IsWidthShort(w) ==
  /\ \A k \in 1 .. (w - 1) : Repeats(MaskIndex + k)
  /\ i + w < Size - 1 => ~Repeats(MaskIndex + w)

IsWidth(w) ==
  /\ \A k \in 1 .. (w - 1) : Repeats(MaskIndex + k)
  /\ i + w < Size => ~Repeats(MaskIndex + w)

RowRepeats(w, l) == \A k \in 0 .. (w - 1) : Repeats(MaskIndex + k + l * Size)

IsHeight(w, h) ==
  /\ \A l \in 1 .. (h - 1) : RowRepeats(w, l)
  /\ j + h < Size => ~RowRepeats(w, h)

\* A mutant: the last row of the quad stays in the mask.
ClearedButLastRow(w, h) ==
  {MaskIndex + k + l * Size : k \in 0 .. (w - 1), l \in 0 .. (h - 2)}

Cleared(w, h) ==
  {MaskIndex + k + l * Size : k \in 0 .. (w - 1), l \in 0 .. (h - 1)}

Scanning == phase = "GenerateMesh" /\ Axis < 3 /\ i < Size /\ j < Size

AddQuad ==
  /\ Scanning
  /\ Mask[MaskIndex].Normal # 0
  /\ \E w \in 1 .. (Size - i) :
       /\ IsWidth(w)
       /\ \E h \in 1 .. (Size - j) :
            /\ IsHeight(w, h)
            /\ LET at == [a \in Axes |-> IF a = Axis THEN Slice
                                         ELSE IF a = Axis1 THEN i ELSE j]
                   right == AlongAxis(Axis1, w)
                   down  == AlongAxis(Axis2, h)
               IN  CreateQuad(Mask[MaskIndex], AxisMask, at, Plus(at, right),
                              Plus(at, down), Plus(Plus(at, right), down))
            /\ Mask' = [n \in MaskEntries |->
                          IF n \in Cleared(w, h) THEN NoFace ELSE Mask[n]]
       /\ i' = i + w
       /\ MaskIndex' = MaskIndex + w
  /\ UNCHANGED <<phase, inputs, logged, section, Blocks, Axis, Slice, j>>

\* A mutant: the scan advances only past a face.
SkipEntryInPlace ==
  /\ Scanning
  /\ Mask[MaskIndex].Normal = 0
  /\ UNCHANGED <<baseVars, Blocks, Axis, Slice, Mask, MaskIndex, i, j>>

SkipEntry ==
  /\ Scanning
  /\ Mask[MaskIndex].Normal = 0
  /\ i' = i + 1
  /\ MaskIndex' = MaskIndex + 1
  /\ UNCHANGED <<baseVars, Blocks, Axis, Slice, Mask, j>>

\* A mutant: the end of a row advances the index once more.
NextRowSkipping ==
  /\ phase = "GenerateMesh"
  /\ Axis < 3 /\ i >= Size /\ j < Size
  /\ i' = 0
  /\ j' = j + 1
  /\ MaskIndex' = MaskIndex + 1
  /\ UNCHANGED <<baseVars, Blocks, Axis, Slice, Mask>>

NextRow ==
  /\ phase = "GenerateMesh"
  /\ Axis < 3 /\ i >= Size /\ j < Size
  /\ i' = 0
  /\ j' = j + 1
  /\ UNCHANGED <<baseVars, Blocks, Axis, Slice, Mask, MaskIndex>>

NextAxis ==
  /\ phase = "GenerateMesh"
  /\ Axis < 3 /\ j = Size /\ Slice >= Size
  /\ Axis' = Axis + 1
  /\ Slice' = -1
  /\ UNCHANGED <<baseVars, Blocks, Mask, MaskIndex, i, j>>

EndMesh ==
  /\ Enter("GenerateMesh", "Log")
  /\ Axis = 3
  /\ UNCHANGED <<inputs, MeshData, VertexCount, logged, section, chunkVars>>

Next ==
  \/ Setup
  \/ Generate3DHeightMap
  \/ Generate2DHeightMap
  \/ BuildMask
  \/ AddQuad
  \/ SkipEntry
  \/ NextRow
  \/ NextAxis
  \/ EndMesh
  \/ LogVertexCount /\ UNCHANGED chunkVars
  \/ ApplyMesh /\ UNCHANGED chunkVars

Spec == Init /\ [][Next]_vars /\ WF_vars(Next)
-----------------------------------------------------------------------------
(***************************************************************************)
(* Type invariant: the members hold values of their C++ types and the loop *)
(* variables stay in their ranges.                                         *)
(***************************************************************************)
TypeOK ==
  /\ phase \in Phases
  /\ GenerationType \in EGenerationType
  /\ MeshData \in Seq([v : [0 .. 3 -> Vector], tri : [0 .. 5 -> Nat], normal : Vector])
  /\ VertexCount = 4 * Len(MeshData)
  /\ Blocks \in {<<>>} \cup [BlockIndex -> EBlock]
  /\ phase # "Setup" => Blocks \in [BlockIndex -> EBlock]
  /\ Axis \in 0 .. 3
  /\ Slice \in -1 .. Size
  /\ Mask \in [MaskEntries -> FMask]
  /\ MaskIndex \in Nat
  /\ i \in 0 .. Size
  /\ j \in 0 .. Size

(***************************************************************************)
(* SetNum leaves EBlock::Null in every entry, and Null counts as opaque in *)
(* GenerateMesh: the height map must have overwritten every entry of the   *)
(* array, whichever noise it met, before the first mask is built.          *)
(***************************************************************************)
EveryBlockIsSet ==
  phase \notin {"Setup", "GenerateHeightMap"} =>
    \A n \in BlockIndex : Blocks[n] \in {"Air", "Stone"}

(***************************************************************************)
(* MaskIndex is advanced separately from i and j, by one, by the width of  *)
(* a quad, or not at all at the end of a row; yet every entry the scan can *)
(* reach from it by Width and Height steps lies in the mask, in the column *)
(* and row those steps mean, so no scan runs into the next row.            *)
(***************************************************************************)
MaskIndexFollowsScan ==
  Scanning =>
    \A k \in 0 .. (Size - i - 1), l \in 0 .. (Size - j - 1) :
      LET n == MaskIndex + k + l * Size
      IN  /\ n \in MaskEntries
          /\ n % Size = i + k
          /\ n \div Size = j + l

(***************************************************************************)
(* No two quads of the mesh, decoded through the index buffer, cover the   *)
(* same face: what a quad covers is cleared from the mask before the scan  *)
(* comes to the rows below.                                                *)
(***************************************************************************)
NoFaceTwice ==
  /\ IndicesInBuffer(MeshData)
  /\ LET covers == {<<q, Covered(MeshData, q)>> : q \in 1 .. Len(MeshData)}
     IN  \A c, e \in covers : c[1] # e[1] => c[2] \cap e[2] = {}

(***************************************************************************)
(* The meshing is greedy: no two quads can be merged into one, that is,    *)
(* none ends on a whole side of another one of the same plane and facing.  *)
(***************************************************************************)
Mergeable(p, q) ==
  /\ p.normal = q.normal
  /\ \E n \in {1, 2} : p.v[n] = q.v[0] /\ p.v[3] = q.v[3 - n]

QuadsAreMaximal ==
  \A p, q \in 1 .. Len(MeshData) : ~Mergeable(MeshData[p], MeshData[q])

(***************************************************************************)
(* The shading normal of a quad names the side its triangles are seen      *)
(* from, whichever way the swap of its corner indices turned them.         *)
(***************************************************************************)
NormalsFaceViewer ==
  \A q \in 1 .. Len(MeshData) :
    \A f \in Covered(MeshData, q) : Toward(f.dir) = MeshData[q].normal

(***************************************************************************)
(* The greedy chunk implements ChunkSurface, as the naive one does: every  *)
(* quad adds faces of the surface of the generated blocks only, each seen  *)
(* from outside its block, and ApplyMesh shows the whole surface.  It is   *)
(* shown in the end: the mask scan always advances, and no sweep is left   *)
(* unfinished.                                                             *)
(***************************************************************************)
IsMeshing == phase \notin {"Setup", "GenerateHeightMap"}

Promise == INSTANCE ChunkSurface WITH
  stage <- IF phase = "Done" THEN "shown"
           ELSE IF IsMeshing THEN "drawing" ELSE "empty",
  solid <- IF IsMeshing THEN {c \in Cell : GetBlock(c) # "Air"} ELSE {},
  drawn <- DrawnBy(IF phase = "Done" THEN section ELSE MeshData)

ShowsTheSurface == Promise!SurfaceSpec
=============================================================================
