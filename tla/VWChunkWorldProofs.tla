------------------------- MODULE VWChunkWorldProofs -------------------------
(***************************************************************************)
(* Theorems about VWChunkWorld, for every draw distance and chunk size.    *)
(***************************************************************************)
EXTENDS VWChunkWorld, SequenceTheorems, TLAPS

(***************************************************************************)
(* Places on one axis: blocks of chunks at different places differ, every  *)
(* block within reach belongs to a place, and no place reaches further.    *)
(***************************************************************************)
LEMMA PlacesApart ==
  ASSUME NEW size \in Nat, NEW p \in Int, NEW q \in Int, p # q,
         NEW c \in 0 .. (size - 1), NEW e \in 0 .. (size - 1)
  PROVE  c + size * p # e + size * q
<1>1. ASSUME NEW u \in Int, NEW v \in Int, u < v
      PROVE  size * u + size <= size * v
  <2>1. v - u - 1 \in Nat
    BY <1>1
  <2>2. size * (v - u - 1) >= 0
    BY <2>1
  <2>3. size * (v - u - 1) = size * v - size * u - size
    OBVIOUS
  <2>4. size * v \in Int /\ size * u \in Int
    OBVIOUS
  <2> QED BY <2>2, <2>3, <2>4
<1>2. size * p \in Int /\ size * q \in Int
  OBVIOUS
<1>3. CASE p < q
  BY <1>1, <1>2, <1>3
<1>4. CASE q < p
  BY <1>1, <1>2, <1>4
<1> QED BY <1>3, <1>4

\* The blocks of a chunk at a place of the loops are within reach.
LEMMA PlaceWithinReach ==
  ASSUME NEW d \in Nat, NEW size \in Nat, NEW p \in (-d) .. d, NEW c \in 0 .. (size - 1)
  PROVE  c + size * p \in (-d * size) .. ((d + 1) * size - 1)
<1>1. size * (d - p) >= 0 /\ size * (p + d) >= 0
  OBVIOUS
<1>2. size * (d - p) = size * d - size * p
  OBVIOUS
<1>3. size * (p + d) = size * p + size * d
  OBVIOUS
<1>4. size * d \in Int /\ size * p \in Int
  OBVIOUS
<1>5. (d + 1) * size = size * d + size /\ -d * size = -(size * d)
  OBVIOUS
<1> QED BY <1>1, <1>2, <1>3, <1>4, <1>5

\* A chunk with a block within reach is at a place of the loops.
LEMMA ReachBoundsPlace ==
  ASSUME NEW d \in Nat, NEW size \in Nat, NEW p \in Int, NEW c \in 0 .. (size - 1),
         c + size * p \in (-d * size) .. ((d + 1) * size - 1)
  PROVE  p \in (-d) .. d
<1>1. size * d \in Int /\ size * p \in Int
  OBVIOUS
<1>2. -d * size = -(size * d) /\ (d + 1) * size = size * d + size
  OBVIOUS
<1>3. ASSUME p <= -d - 1 PROVE FALSE
  <2>1. size * (-d - 1 - p) >= 0
    BY <1>3
  <2>2. size * (-d - 1 - p) = -(size * d) - size - size * p
    OBVIOUS
  <2> QED BY <1>1, <1>2, <2>1, <2>2
<1>4. ASSUME p >= d + 1 PROVE FALSE
  <2>1. size * (p - d - 1) >= 0
    BY <1>4
  <2>2. size * (p - d - 1) = size * p - size * d - size
    OBVIOUS
  <2> QED BY <1>1, <1>2, <2>1, <2>2
<1> QED BY <1>3, <1>4

\* Division with remainder finds the place of a block within reach.
LEMMA ReachHasPlace ==
  ASSUME NEW d \in Nat, NEW size \in Nat,
         NEW b \in (-d * size) .. ((d + 1) * size - 1)
  PROVE  /\ size > 0
         /\ b \div size \in (-d) .. d
         /\ b % size \in 0 .. (size - 1)
         /\ b = (b % size) + size * (b \div size)
<1>1. size # 0
  BY Z3
<1>2. /\ b \div size \in Int
      /\ b % size \in 0 .. (size - 1)
      /\ b = (b % size) + size * (b \div size)
  BY <1>1, Z3
<1> QED BY <1>1, <1>2, ReachBoundsPlace
-----------------------------------------------------------------------------
(***************************************************************************)
(* The chunks as records.  The type invariant alone does not say that they *)
(* form a sequence.                                                        *)
(***************************************************************************)
Answers ==
  {<<>>} \cup
  UNION {[places -> {GetNoise(noise, p) : noise \in Noises, p \in Vector}] :
           places \in SUBSET Vector}

Chunk == [location : Vector, Size : {DefaultSize, ChunkSize},
          GenerationType : {"GT_3D", "GT_2D"}, samples : Answers]

TypeInv == TypeOK /\ chunks \in Seq(Chunk)

\* The types of the operators on vectors.
LEMMA VectorTypes ==
  /\ \A x, y, z \in Int : Vec(x, y, z) \in Vector
  /\ \A x, y, z \in Int : Vec(x, y, z)[0] = x /\ Vec(x, y, z)[1] = y /\ Vec(x, y, z)[2] = z
  /\ \A u, v \in Vector : Plus(u, v) \in Vector
  /\ \A k \in Int, v \in Vector : Times(k, v) \in Vector
BY DEF Vec, Plus, Times, Vector, Axes

\* A chunk of the world samples with answers of the noises.
LEMMA SamplesType ==
  ASSUME NEW chunk \in Chunk, Noise \in Noises
  PROVE  Samples(chunk) \in Answers
<1>1. SampledAt(chunk) \subseteq Vector
  BY WorldAssumption, VectorTypes DEF SampledAt, Chunk
<1>2. ASSUME NEW s \in Vector PROVE SamplePoint(chunk, s) \in Vector
  <2>1. Position(chunk) \in Vector
    BY DEF Position, Chunk, Vector
  <2>2. CASE chunk.GenerationType = "GT_2D"
    BY <2>1, <2>2 DEF SamplePoint, Vector
  <2>3. CASE chunk.GenerationType # "GT_2D"
    BY <2>1, <2>3, VectorTypes DEF SamplePoint
  <2> QED BY <2>2, <2>3
<1>3. Samples(chunk) \in
        [SampledAt(chunk) -> {GetNoise(noise, p) : noise \in Noises, p \in Vector}]
  BY <1>1, <1>2 DEF Samples
<1> QED BY <1>1, <1>3 DEF Answers
-----------------------------------------------------------------------------
(***************************************************************************)
(* The places of the chunks, and the order the loops visit them in.        *)
(***************************************************************************)
Layers == IF GenerationType = "GT_3D" THEN (-DrawDistance) .. DrawDistance ELSE {1}

Places ==
  {p \in Vector : /\ p[0] \in (-DrawDistance) .. DrawDistance
                  /\ p[1] \in (-DrawDistance) .. DrawDistance
                  /\ p[2] \in Layers}

Before(p, q) ==
  \/ p[0] < q[0]
  \/ p[0] = q[0] /\ p[1] < q[1]
  \/ p[0] = q[0] /\ p[1] = q[1] /\ p[2] < q[2]

\* A chunk is between its constructor and the end of its BeginPlay.
Underway == pc \in {"Configure", "Finish"}

LoopInv ==
  /\ at \in Vector
  /\ at[0] \in (-DrawDistance) .. (DrawDistance + 1)
  /\ at[1] \in (-DrawDistance) .. DrawDistance
  /\ at[2] \in Layers
  /\ Underway => at[0] <= DrawDistance
  /\ pc = "Done" => at[0] > DrawDistance

\* The coordinates of a vector are integers.
LEMMA PlaceTypes ==
  ASSUME NEW p \in Vector
  PROVE  p[0] \in Int /\ p[1] \in Int /\ p[2] \in Int
BY DEF Vector, Axes

\* Vectors with equal coordinates are equal.
LEMMA PlaceEquality ==
  ASSUME NEW p \in Vector, NEW q \in Vector, p[0] = q[0], p[1] = q[1], p[2] = q[2]
  PROVE  p = q
<1>1. \A a \in Axes : p[a] = q[a]
  BY DEF Axes
<1> QED BY <1>1 DEF Vector

(***************************************************************************)
(* NextPlace leaves no place out and visits none twice.                    *)
(***************************************************************************)
LEMMA NextPlaceFollows ==
  ASSUME GenerationType \in {"GT_3D", "GT_2D"}, NEW q \in Places
  PROVE  /\ NextPlace(q) \in Vector
         /\ NextPlace(q)[0] \in (-DrawDistance) .. (DrawDistance + 1)
         /\ NextPlace(q)[1] \in (-DrawDistance) .. DrawDistance
         /\ NextPlace(q)[2] \in Layers
         /\ \A p \in Places : Before(p, NextPlace(q)) <=> Before(p, q) \/ p = q
<1> USE WorldAssumption
<1>q. q \in Vector /\ q[0] \in Int /\ q[1] \in Int /\ q[2] \in Int
  BY PlaceTypes DEF Places
<1>p. \A p \in Places : p \in Vector /\ p[0] \in Int /\ p[1] \in Int /\ p[2] \in Int
  BY PlaceTypes DEF Places
<1>e. \A p \in Places : p = q <=> p[0] = q[0] /\ p[1] = q[1] /\ p[2] = q[2]
  BY <1>p, <1>q, PlaceEquality
<1>r. /\ q[0] \in (-DrawDistance) .. DrawDistance
      /\ q[1] \in (-DrawDistance) .. DrawDistance
      /\ q[2] \in Layers
  BY DEF Places
<1>1. CASE GenerationType = "GT_3D" /\ q[2] < DrawDistance
  <2>1. NextPlace(q) = Vec(q[0], q[1], q[2] + 1)
    BY <1>1 DEF NextPlace
  <2>2. /\ NextPlace(q) \in Vector /\ NextPlace(q)[0] = q[0]
        /\ NextPlace(q)[1] = q[1] /\ NextPlace(q)[2] = q[2] + 1
    BY <2>1, <1>q DEF Vec, Vector, Axes
  <2>3. \A p \in Places : Before(p, NextPlace(q)) <=> Before(p, q) \/ p = q
    BY <2>2, <1>p, <1>q, <1>e DEF Before
  <2>4. q[2] + 1 \in Layers
    BY <1>1, <1>q, <1>r DEF Layers
  <2> QED BY <2>2, <2>3, <2>4, <1>q, <1>r
<1>2. CASE ~(GenerationType = "GT_3D" /\ q[2] < DrawDistance) /\ q[1] < DrawDistance
  <2> DEFINE z == IF GenerationType = "GT_3D" THEN -DrawDistance ELSE q[2]
  <2>1. z \in Layers /\ z \in Int
    BY <1>2, <1>q DEF Places, Layers
  <2>2. NextPlace(q) = Vec(q[0], q[1] + 1, z)
    BY <1>2 DEF NextPlace
  <2>3. /\ NextPlace(q) \in Vector /\ NextPlace(q)[0] = q[0]
        /\ NextPlace(q)[1] = q[1] + 1 /\ NextPlace(q)[2] = z
    BY <2>2, <2>1, <1>q DEF Vec, Vector, Axes
  <2>4. \A p \in Places : p[2] >= z /\ p[2] <= q[2]
    BY <1>2, <1>p, <1>q DEF Places, Layers
  <2> HIDE DEF z
  <2>5. \A p \in Places : Before(p, NextPlace(q)) <=> Before(p, q) \/ p = q
    BY <2>3, <2>4, <2>1, <1>p, <1>q, <1>e DEF Before
  <2> QED BY <2>3, <2>1, <2>5, <1>q, <1>r, <1>2
<1>3. CASE ~(GenerationType = "GT_3D" /\ q[2] < DrawDistance) /\ ~(q[1] < DrawDistance)
  <2> DEFINE z == IF GenerationType = "GT_3D" THEN -DrawDistance ELSE q[2]
  <2>1. z \in Layers /\ z \in Int
    BY <1>3, <1>q DEF Places, Layers
  <2>2. NextPlace(q) = Vec(q[0] + 1, -DrawDistance, z)
    BY <1>3 DEF NextPlace
  <2>3. /\ NextPlace(q) \in Vector /\ NextPlace(q)[0] = q[0] + 1
        /\ NextPlace(q)[1] = -DrawDistance /\ NextPlace(q)[2] = z
    BY <2>2, <2>1, <1>q DEF Vec, Vector, Axes
  <2>4. \A p \in Places : p[2] >= z /\ p[2] <= q[2] /\ p[1] <= q[1] /\ p[1] >= -DrawDistance
    BY <1>3, <1>p, <1>q DEF Places, Layers
  <2> HIDE DEF z
  <2>5. \A p \in Places : Before(p, NextPlace(q)) <=> Before(p, q) \/ p = q
    BY <2>3, <2>4, <2>1, <1>p, <1>q, <1>e DEF Before
  <2> QED BY <2>3, <2>1, <2>5, <1>q, <1>r, <1>3
<1> QED BY <1>1, <1>2, <1>3
-----------------------------------------------------------------------------
(***************************************************************************)
(* The inductive invariant.  A chunk in the making is the last one, at the *)
(* place the loops are at; the others are configured and sampled, and they *)
(* are at the places before it, one chunk at each.                         *)
(***************************************************************************)
IsAt(chunk, p) == chunk.location = Times(ChunkSize * 100, p)

InTheMaking(n) == Underway /\ n = Len(chunks)

Made(chunk) ==
  /\ chunk.Size = ChunkSize
  /\ chunk.GenerationType = GenerationType
  /\ chunk.samples = Samples(chunk)

MadeInv ==
  /\ Underway => Len(chunks) > 0
  /\ \A n \in 1 .. Len(chunks) :
       IF InTheMaking(n)
         THEN /\ IsAt(chunks[n], at)
              /\ chunks[n].samples = <<>>
              /\ pc = "Finish" => /\ chunks[n].Size = ChunkSize
                                 /\ chunks[n].GenerationType = GenerationType
         ELSE Made(chunks[n])

PlacesInv ==
  /\ \A n \in 1 .. Len(chunks) :
       ~InTheMaking(n) => \E p \in Places : Before(p, at) /\ IsAt(chunks[n], p)
  /\ \A p \in Places :
       Before(p, at) => \E n \in 1 .. Len(chunks) : ~InTheMaking(n) /\ IsAt(chunks[n], p)
  /\ ChunkSize > 0 =>
       \A n, m \in 1 .. Len(chunks) : n # m => chunks[n].location # chunks[m].location

WorldInv == TypeInv /\ LoopInv /\ MadeInv /\ PlacesInv

\* Before the loops begin there are no chunks and no place is passed.
LEMMA InitEstablishesWorldInv == Init => WorldInv
<1> USE WorldAssumption
<1> SUFFICES ASSUME Init PROVE WorldInv
  OBVIOUS
<1>1. /\ at \in Vector /\ at[0] = -DrawDistance /\ at[1] = -DrawDistance
      /\ at[2] = IF GenerationType = "GT_3D" THEN -DrawDistance ELSE 1
  BY DEF Init, Vec, Vector, Axes
<1>2. TypeInv
  BY <1>1 DEF Init, TypeInv, TypeOK
<1>3. LoopInv
  BY <1>1 DEF Init, LoopInv, Layers, Underway
<1>4. MadeInv
  BY DEF Init, MadeInv, Underway
<1>5. \A p \in Places : p[0] \in Int /\ p[1] \in Int /\ p[2] \in Int
  BY PlaceTypes DEF Places
<1>6. \A p \in Places : ~Before(p, at)
  BY <1>1, <1>5 DEF Before, Places, Layers
<1>7. PlacesInv
  BY <1>6 DEF Init, PlacesInv
<1> QED BY <1>2, <1>3, <1>4, <1>7 DEF WorldInv

(***************************************************************************)
(* Chunks at different places are at different locations.                  *)
(***************************************************************************)
LEMMA LocationsApart ==
  ASSUME ChunkSize > 0, NEW p \in Vector, NEW q \in Vector, p # q
  PROVE  Times(ChunkSize * 100, p) # Times(ChunkSize * 100, q)
<1>1. PICK a \in Axes : p[a] # q[a]
  BY DEF Vector
<1>2. p[a] \in Int /\ q[a] \in Int
  BY DEF Vector
<1>3. ASSUME NEW u \in Int, NEW v \in Int, NEW k \in Nat, k > 0, k * u = k * v
      PROVE  u = v
  <2>1. k * (u - v) = 0
    BY <1>3
  <2> QED BY <1>3, <2>1
<1>4. ChunkSize * 100 \in Nat /\ ChunkSize * 100 > 0
  BY WorldAssumption
<1>5. (ChunkSize * 100) * p[a] # (ChunkSize * 100) * q[a]
  BY <1>1, <1>2, <1>3, <1>4
<1> QED BY <1>5 DEF Times

\* No place is before itself.
LEMMA BeforeIsStrict == \A p \in Vector : ~Before(p, p)
BY PlaceTypes DEF Before

\* Steps that keep the level's settings keep what a chunk samples.
LEMMA SamplesUnchanged ==
  ASSUME GenerationType' = GenerationType, ChunkClass' = ChunkClass, Noise' = Noise, NEW c
  PROVE  Samples(c)' = Samples(c)
BY DEF Samples, SamplePoint, SampledAt, Position

\* The new chunk is in the making, at the place the loops are at.
LEMMA SpawnPreservesWorldInv == WorldInv /\ Spawn => WorldInv'
<1> SUFFICES ASSUME WorldInv, Spawn PROVE WorldInv'
  OBVIOUS
<1> USE WorldAssumption
<1> DEFINE new == [location |-> Times(ChunkSize * 100, at), Size |-> DefaultSize,
                   GenerationType |-> "GT_3D", samples |-> <<>>]
           last == Len(chunks) + 1
<1>1. TypeOK /\ chunks \in Seq(Chunk) /\ LoopInv /\ MadeInv /\ PlacesInv
  BY DEF WorldInv, TypeInv
<1>2. /\ pc = "Spawn" /\ pc' = "Configure" /\ at' = at /\ at[0] <= DrawDistance
      /\ GenerationType' = GenerationType /\ ChunkClass' = ChunkClass
      /\ Noise' = Noise /\ ChunkCount' = ChunkCount
      /\ chunks' = Append(chunks, new)
  BY DEF Spawn, settings
<1>3. new \in Chunk
  <2>1. ChunkSize * 100 \in Int /\ at \in Vector
    BY <1>1 DEF TypeOK
  <2>2. Times(ChunkSize * 100, at) \in Vector
    BY <2>1, VectorTypes
  <2> QED BY <2>2 DEF Chunk, Answers
<1> HIDE DEF new
<1>4. /\ chunks' \in Seq(Chunk) /\ Len(chunks') = last
      /\ \A n \in 1 .. Len(chunks) : chunks'[n] = chunks[n]
      /\ chunks'[last] = new
      /\ Len(chunks) \in Nat
  BY <1>1, <1>2, <1>3, AppendProperties
<1>5. TypeInv'
  <2>1. \A n \in 1 .. Len(chunks') : chunks'[n] \in Chunk
    BY <1>4
  <2> QED BY <1>1, <1>2, <1>4, <2>1 DEF TypeInv, TypeOK, Chunk
<1>6. LoopInv'
  BY <1>1, <1>2 DEF LoopInv, Layers, Underway
<1>7. \A n \in 1 .. Len(chunks') :
        \/ n \in 1 .. Len(chunks) /\ ~InTheMaking(n) /\ ~InTheMaking(n)'
        \/ n = last /\ InTheMaking(n)'
  BY <1>2, <1>4 DEF InTheMaking, Underway
<1>8. MadeInv'
  <2>1. new.location = Times(ChunkSize * 100, at) /\ new.samples = <<>>
    BY DEF new
  <2>2. \A n \in 1 .. Len(chunks) : ~InTheMaking(n) => Made(chunks[n])
    BY <1>1 DEF MadeInv
  <2>3. \A n \in 1 .. Len(chunks) : ~InTheMaking(n) => Made(chunks[n])'
    BY <2>2, <1>2, <1>4, SamplesUnchanged DEF Made
  <2> QED BY <1>2, <1>4, <1>7, <2>1, <2>3 DEF MadeInv, IsAt
<1>9. PlacesInv'
  <2>1. Places' = Places
    BY <1>2 DEF Places, Layers
  <2>2. ASSUME NEW n \in 1 .. Len(chunks'), ~InTheMaking(n)'
        PROVE  \E p \in Places' : Before(p, at)' /\ IsAt(chunks[n], p)'
    BY <1>1, <1>2, <1>4, <1>7, <2>1, <2>2 DEF PlacesInv, IsAt, Before
  <2>3. ASSUME NEW p \in Places', Before(p, at)'
        PROVE  \E n \in 1 .. Len(chunks') : ~InTheMaking(n)' /\ IsAt(chunks[n], p)'
    <3>1. Before(p, at)
      BY <1>2, <2>3 DEF Before
    <3>2. PICK n \in 1 .. Len(chunks) : ~InTheMaking(n) /\ IsAt(chunks[n], p)
      BY <1>1, <2>1, <3>1 DEF PlacesInv
    <3>3. n \in 1 .. Len(chunks') /\ n # last
      BY <1>4
    <3> QED BY <1>4, <1>7, <3>2, <3>3 DEF IsAt
  <2>4. ASSUME ChunkSize > 0, NEW n \in 1 .. Len(chunks)
        PROVE  chunks[n].location # new.location
    <3>1. PICK p \in Places : Before(p, at) /\ IsAt(chunks[n], p)
      BY <1>1, <1>2 DEF PlacesInv, InTheMaking, Underway
    <3>2. p \in Vector /\ at \in Vector /\ p # at
      BY <1>1, <3>1, BeforeIsStrict DEF Places, TypeOK
    <3> QED BY <2>4, <3>1, <3>2, LocationsApart DEF IsAt, new
  <2>5. ChunkSize > 0 =>
          \A n, m \in 1 .. Len(chunks') : n # m => chunks'[n].location # chunks'[m].location
    BY <1>1, <1>4, <2>4 DEF PlacesInv
  <2> QED BY <2>2, <2>3, <2>5 DEF PlacesInv
<1> QED BY <1>5, <1>6, <1>8, <1>9 DEF WorldInv

(***************************************************************************)
(* Configure and Finish replace the last chunk, at the same location.      *)
(***************************************************************************)
LEMMA ReplaceLast ==
  ASSUME chunks \in Seq(Chunk), Len(chunks) > 0, NEW c \in Chunk,
         c.location = chunks[Len(chunks)].location,
         chunks' = [chunks EXCEPT ![Len(chunks)] = c]
  PROVE  /\ chunks' \in Seq(Chunk)
         /\ Len(chunks') = Len(chunks)
         /\ Len(chunks) \in 1 .. Len(chunks)
         /\ chunks'[Len(chunks)] = c
         /\ \A n \in 1 .. Len(chunks) : n # Len(chunks) => chunks'[n] = chunks[n]
         /\ \A n \in 1 .. Len(chunks) : chunks'[n] \in Chunk
         /\ \A n \in 1 .. Len(chunks) : chunks'[n].location = chunks[n].location
<1>1. Len(chunks) \in Nat /\ Len(chunks) \in 1 .. Len(chunks)
  OBVIOUS
<1>2. /\ chunks' \in Seq(Chunk)
      /\ Len(chunks') = Len(chunks)
      /\ \A n \in 1 .. Len(chunks) : chunks'[n] = IF n = Len(chunks) THEN c ELSE chunks[n]
  BY <1>1, ExceptSeq
<1>3. \A n \in 1 .. Len(chunks) : chunks[n] \in Chunk
  OBVIOUS
<1> QED BY <1>1, <1>2, <1>3

\* Configure gives the chunk in the making what Made asks for, but samples.
LEMMA ConfigurePreservesWorldInv == WorldInv /\ Configure => WorldInv'
<1> SUFFICES ASSUME WorldInv, Configure PROVE WorldInv'
  OBVIOUS
<1> USE WorldAssumption
<1> DEFINE last == Len(chunks)
           c == [chunks[last] EXCEPT !.Size = ChunkSize, !.GenerationType = GenerationType]
<1>1. TypeOK /\ chunks \in Seq(Chunk) /\ LoopInv /\ MadeInv /\ PlacesInv
  BY DEF WorldInv, TypeInv
<1>2. /\ pc = "Configure" /\ pc' = "Finish" /\ at' = at
      /\ GenerationType' = GenerationType /\ ChunkClass' = ChunkClass
      /\ Noise' = Noise /\ ChunkCount' = ChunkCount
  BY DEF Configure, settings
<1>3. last > 0 /\ last \in 1 .. last /\ chunks[last] \in Chunk
  BY <1>1, <1>2 DEF MadeInv, Underway
<1>4. /\ c \in Chunk
      /\ c.location = chunks[last].location
      /\ c.samples = chunks[last].samples
      /\ c.Size = ChunkSize
      /\ c.GenerationType = GenerationType
  BY <1>1, <1>3 DEF Chunk, TypeOK
<1>5. chunks' = [chunks EXCEPT ![last] = c]
  BY <1>1, <1>3 DEF Configure
<1> HIDE DEF c
<1>6. /\ chunks' \in Seq(Chunk)
      /\ Len(chunks') = last
      /\ chunks'[last] = c
      /\ \A n \in 1 .. last : n # last => chunks'[n] = chunks[n]
      /\ \A n \in 1 .. last : chunks'[n] \in Chunk
      /\ \A n \in 1 .. last : chunks'[n].location = chunks[n].location
  BY <1>1, <1>3, <1>4, <1>5, ReplaceLast
<1>7. TypeInv'
  BY <1>1, <1>2, <1>6 DEF TypeInv, TypeOK, Chunk
<1>8. LoopInv'
  BY <1>1, <1>2 DEF LoopInv, Layers, Underway
<1>9. \A n \in 1 .. last : InTheMaking(n)' <=> InTheMaking(n)
  BY <1>2, <1>6 DEF InTheMaking, Underway
<1>10. InTheMaking(last)
  BY <1>2 DEF InTheMaking, Underway
<1>11. MadeInv'
  <2>1. IsAt(chunks[last], at) /\ chunks[last].samples = <<>>
    BY <1>1, <1>3, <1>10 DEF MadeInv
  <2>2. \A n \in 1 .. last : n # last => Made(chunks[n])
    BY <1>1 DEF MadeInv, InTheMaking
  <2>3. \A n \in 1 .. last : n # last => Made(chunks[n])'
    BY <2>2, <1>2, <1>6, SamplesUnchanged DEF Made
  <2>4. \A n \in 1 .. last : InTheMaking(n)' <=> n = last
    BY <1>9, <1>10 DEF InTheMaking
  <2> QED BY <1>2, <1>3, <1>4, <1>6, <2>1, <2>3, <2>4 DEF MadeInv, IsAt
<1>12. PlacesInv'
  BY <1>1, <1>2, <1>6, <1>9 DEF PlacesInv, IsAt, Before, Places, Layers
<1> QED BY <1>7, <1>8, <1>11, <1>12 DEF WorldInv

\* Finish completes the chunk as the loops pass its place.
LEMMA FinishPreservesWorldInv == WorldInv /\ Finish => WorldInv'
<1> SUFFICES ASSUME WorldInv, Finish PROVE WorldInv'
  OBVIOUS
<1> USE WorldAssumption
<1> DEFINE last == Len(chunks)
           c == [chunks[last] EXCEPT !.samples = Samples(chunks[last])]
<1>1. TypeOK /\ chunks \in Seq(Chunk) /\ LoopInv /\ MadeInv /\ PlacesInv
  BY DEF WorldInv, TypeInv
<1>2. /\ pc = "Finish" /\ pc' = "Spawn" /\ at' = NextPlace(at)
      /\ GenerationType' = GenerationType /\ ChunkClass' = ChunkClass /\ Noise' = Noise
      /\ ChunkCount' \in Nat
  BY <1>1 DEF Finish, settings, TypeOK
<1>3. last > 0 /\ last \in 1 .. last /\ chunks[last] \in Chunk
  BY <1>1, <1>2 DEF MadeInv, Underway
<1>4. InTheMaking(last) /\ \A n \in 1 .. last : ~InTheMaking(n)'
  BY <1>2 DEF InTheMaking, Underway
<1>5. /\ IsAt(chunks[last], at) /\ chunks[last].Size = ChunkSize
      /\ chunks[last].GenerationType = GenerationType
  BY <1>1, <1>2, <1>3, <1>4 DEF MadeInv
<1>6. Samples(chunks[last]) \in Answers
  BY <1>1, <1>3, SamplesType DEF TypeOK
<1>7. /\ c \in Chunk
      /\ c.location = chunks[last].location
      /\ c.samples = Samples(chunks[last])
      /\ c.Size = ChunkSize
      /\ c.GenerationType = GenerationType
  BY <1>1, <1>3, <1>5, <1>6 DEF Chunk
<1>8. chunks' = [chunks EXCEPT ![last] = c]
  BY <1>1, <1>3 DEF Finish
<1> HIDE DEF c
<1>9. Samples(c) = c.samples
  <2>1. SampledAt(c) = SampledAt(chunks[last])
    BY <1>7, <1>5 DEF SampledAt
  <2>2. \A s : SamplePoint(c, s) = SamplePoint(chunks[last], s)
    BY <1>7, <1>5 DEF SamplePoint, Position
  <2> QED BY <1>7, <2>1, <2>2 DEF Samples
<1>10. /\ chunks' \in Seq(Chunk)
       /\ Len(chunks') = last
       /\ chunks'[last] = c
       /\ \A n \in 1 .. last : n # last => chunks'[n] = chunks[n]
       /\ \A n \in 1 .. last : chunks'[n] \in Chunk
       /\ \A n \in 1 .. last : chunks'[n].location = chunks[n].location
  BY <1>1, <1>3, <1>7, <1>8, ReplaceLast
<1>11. at \in Places
  BY <1>1, <1>2 DEF LoopInv, Places, Underway
<1>12. /\ at' \in Vector
       /\ at'[0] \in (-DrawDistance) .. (DrawDistance + 1)
       /\ at'[1] \in (-DrawDistance) .. DrawDistance
       /\ at'[2] \in Layers
       /\ \A p \in Places : Before(p, at') <=> Before(p, at) \/ p = at
  BY <1>1, <1>2, <1>11, NextPlaceFollows DEF TypeOK
<1>13. TypeInv'
  <2>1. at' \in Vector
    BY <1>12
  <2>2. chunks' \in Seq(Chunk) /\ \A n \in 1 .. Len(chunks') : chunks'[n] \in Chunk
    BY <1>10
  <2> QED BY <1>1, <1>2, <2>1, <2>2 DEF TypeInv, TypeOK, Chunk
<1>14. LoopInv'
  BY <1>2, <1>12 DEF LoopInv, Layers, Underway
<1>15. MadeInv'
  <2>1. \A n \in 1 .. last : n # last => Made(chunks[n])
    BY <1>1 DEF MadeInv, InTheMaking
  <2>2. \A n \in 1 .. last : n # last => Made(chunks[n])'
    BY <2>1, <1>2, <1>10, SamplesUnchanged DEF Made
  <2>3. Made(chunks[last])'
    BY <1>2, <1>7, <1>10, <1>9, SamplesUnchanged DEF Made
  <2> QED BY <1>3, <1>10, <1>4, <2>2, <2>3 DEF MadeInv
<1>16. PlacesInv'
  <2>1. Places' = Places
    BY <1>2 DEF Places, Layers
  <2>2. ASSUME NEW n \in 1 .. last, NEW p
        PROVE  IsAt(chunks[n], p)' <=> IsAt(chunks[n], p)
    <3>1. chunks'[n].location = chunks[n].location
      BY <1>10
    <3> QED BY <3>1 DEF IsAt
  <2>3. ASSUME NEW n \in 1 .. last
        PROVE  \E p \in Places : Before(p, at') /\ IsAt(chunks[n], p)
    <3>1. CASE n = last
      BY <3>1, <1>5, <1>11, <1>12
    <3>2. CASE n # last
      BY <3>2, <1>1, <1>12 DEF PlacesInv, InTheMaking
    <3> QED BY <3>1, <3>2
  <2>4. ASSUME NEW p \in Places, Before(p, at')
        PROVE  \E n \in 1 .. last : IsAt(chunks[n], p)
    <3>1. CASE p = at
      BY <3>1, <1>3, <1>5
    <3>2. CASE Before(p, at)
      BY <3>2, <1>1 DEF PlacesInv
    <3> QED BY <3>1, <3>2, <2>4, <1>12
  <2>5. ChunkSize > 0 =>
          \A n, m \in 1 .. last : n # m => chunks'[n].location # chunks'[m].location
    BY <1>1, <1>10 DEF PlacesInv
  <2>6. \A p : Before(p, at)' <=> Before(p, at')
    BY DEF Before
  <2> QED BY <1>10, <1>4, <2>1, <2>2, <2>3, <2>4, <2>5, <2>6 DEF PlacesInv
<1> QED BY <1>13, <1>14, <1>15, <1>16 DEF WorldInv

\* The log changes neither the chunks nor the loops.
LEMMA LogPreservesWorldInv == WorldInv /\ LogChunkCount => WorldInv'
<1> SUFFICES ASSUME WorldInv, LogChunkCount PROVE WorldInv'
  OBVIOUS
<1>1. TypeOK /\ chunks \in Seq(Chunk) /\ LoopInv /\ MadeInv /\ PlacesInv
  BY DEF WorldInv, TypeInv
<1>2. /\ pc = "Spawn" /\ pc' = "Done" /\ at' = at /\ at[0] > DrawDistance
      /\ chunks' = chunks /\ ChunkCount' = ChunkCount
      /\ GenerationType' = GenerationType /\ ChunkClass' = ChunkClass /\ Noise' = Noise
  BY DEF LogChunkCount, settings
<1>3. \A n : ~InTheMaking(n) /\ ~InTheMaking(n)'
  BY <1>2 DEF InTheMaking, Underway
<1>4. TypeInv'
  BY <1>1, <1>2 DEF TypeInv, TypeOK
<1>5. LoopInv'
  BY <1>1, <1>2 DEF LoopInv, Layers, Underway
<1>6. MadeInv'
  <2>1. \A n \in 1 .. Len(chunks) : Made(chunks[n])
    BY <1>1, <1>3 DEF MadeInv
  <2>2. \A n \in 1 .. Len(chunks) : Made(chunks[n])'
    BY <2>1, <1>2, SamplesUnchanged DEF Made
  <2> QED BY <1>2, <1>3, <2>2 DEF MadeInv, Underway
<1>7. PlacesInv'
  BY <1>1, <1>2, <1>3 DEF PlacesInv, IsAt, Before, Places, Layers
<1> QED BY <1>4, <1>5, <1>6, <1>7 DEF WorldInv

\* Nor does a step that changes nothing.
LEMMA StutterPreservesWorldInv == WorldInv /\ UNCHANGED vars => WorldInv'
<1> SUFFICES ASSUME WorldInv, UNCHANGED vars PROVE WorldInv'
  OBVIOUS
<1>1. TypeOK /\ chunks \in Seq(Chunk) /\ LoopInv /\ MadeInv /\ PlacesInv
  BY DEF WorldInv, TypeInv
<1>2. /\ pc' = pc /\ at' = at /\ chunks' = chunks /\ ChunkCount' = ChunkCount
      /\ GenerationType' = GenerationType /\ ChunkClass' = ChunkClass /\ Noise' = Noise
  BY DEF vars, settings
<1>3. \A n : InTheMaking(n)' <=> InTheMaking(n)
  BY <1>2 DEF InTheMaking, Underway
<1>4. TypeInv'
  BY <1>1, <1>2 DEF TypeInv, TypeOK
<1>5. LoopInv'
  BY <1>1, <1>2 DEF LoopInv, Layers, Underway
<1>6. MadeInv'
  <2>1. \A n : Made(chunks[n])' <=> Made(chunks[n])
    BY <1>2, SamplesUnchanged DEF Made
  <2> QED BY <1>1, <1>2, <1>3, <2>1 DEF MadeInv, Underway, IsAt
<1>7. PlacesInv'
  BY <1>1, <1>2, <1>3 DEF PlacesInv, IsAt, Before, Places, Layers
<1> QED BY <1>4, <1>5, <1>6, <1>7 DEF WorldInv

\* WorldInv is inductive.
LEMMA WorldInvariant == Spec => []WorldInv
<1>1. WorldInv /\ [Next]_vars => WorldInv'
  BY SpawnPreservesWorldInv, ConfigurePreservesWorldInv, FinishPreservesWorldInv,
     LogPreservesWorldInv, StutterPreservesWorldInv DEF Next
<1> QED BY InitEstablishesWorldInv, <1>1, PTL DEF Spec

(***************************************************************************)
(* The members and the chunks of the world always have their types.        *)
(***************************************************************************)
THEOREM TypeCorrect == Spec => []TypeOK
<1>1. WorldInv => TypeOK
  BY DEF WorldInv, TypeInv
<1> QED BY <1>1, WorldInvariant, PTL
-----------------------------------------------------------------------------
(***************************************************************************)
(* The blocks of a chunk at a place, by the three coordinates of a block.  *)
(***************************************************************************)
LEMMA PositionAtPlace ==
  ASSUME NEW chunk, NEW p \in Vector, IsAt(chunk, p)
  PROVE  Position(chunk) = Times(ChunkSize, p)
<1> USE WorldAssumption
<1>1. ASSUME NEW a \in Axes PROVE chunk.location[a] \div 100 = ChunkSize * p[a]
  <2>1. p[a] \in Int /\ ChunkSize * p[a] \in Int
    BY DEF Vector
  <2>2. chunk.location[a] = (ChunkSize * 100) * p[a]
    BY DEF IsAt, Times
  <2>3. (ChunkSize * 100) * p[a] = 100 * (ChunkSize * p[a])
    BY <2>1
  <2>4. \A k \in Int : (100 * k) \div 100 = k
    OBVIOUS
  <2> QED BY <2>1, <2>2, <2>3, <2>4
<1> QED BY <1>1 DEF Position, Times

\* The blocks of a chunk, coordinate by coordinate.
LEMMA BlocksOfChunk ==
  ASSUME NEW chunk, NEW p \in Vector, IsAt(chunk, p), chunk.Size = ChunkSize, NEW b
  PROVE  b \in Region(chunk) <=>
           /\ b \in Vector
           /\ \A a \in Axes : \E c \in 0 .. (ChunkSize - 1) : b[a] = c + ChunkSize * p[a]
<1> USE WorldAssumption
<1>1. Position(chunk) = Times(ChunkSize, p)
  BY PositionAtPlace
<1>2. Grid(chunk.Size)!Cell = [Axes -> 0 .. (ChunkSize - 1)]
  BY DEF Grid!Cell, Grid!Axes, Axes
<1>3. Region(chunk) = {Plus(c, Times(ChunkSize, p)) : c \in [Axes -> 0 .. (ChunkSize - 1)]}
  BY <1>1, <1>2 DEF Region, InWorld
<1>4. \A a \in Axes : p[a] \in Int /\ ChunkSize * p[a] \in Int
  BY DEF Vector
<1>5. ASSUME b \in Region(chunk)
      PROVE  /\ b \in Vector
             /\ \A a \in Axes : \E c \in 0 .. (ChunkSize - 1) : b[a] = c + ChunkSize * p[a]
  <2>1. PICK c \in [Axes -> 0 .. (ChunkSize - 1)] : b = Plus(c, Times(ChunkSize, p))
    BY <1>3, <1>5
  <2>2. \A a \in Axes : c[a] \in 0 .. (ChunkSize - 1) /\ b[a] = c[a] + ChunkSize * p[a]
    BY <2>1 DEF Plus, Times
  <2>3. b \in Vector
    BY <2>1, <2>2, <1>4 DEF Plus, Times, Vector
  <2> QED BY <2>2, <2>3
<1>6. ASSUME b \in Vector,
             \A a \in Axes : \E c \in 0 .. (ChunkSize - 1) : b[a] = c + ChunkSize * p[a]
      PROVE  b \in Region(chunk)
  <2> DEFINE c == [a \in Axes |-> b[a] - ChunkSize * p[a]]
  <2>1. ASSUME NEW a \in Axes
        PROVE  b[a] - ChunkSize * p[a] \in 0 .. (ChunkSize - 1)
    <3>1. PICK e \in 0 .. (ChunkSize - 1) : b[a] = e + ChunkSize * p[a]
      BY <1>6
    <3> QED BY <3>1, <1>4
  <2>2. c \in [Axes -> 0 .. (ChunkSize - 1)]
    BY <2>1
  <2>3. ASSUME NEW a \in Axes PROVE Plus(c, Times(ChunkSize, p))[a] = b[a]
    <3>1. b[a] \in Int
      BY <1>6 DEF Vector
    <3>2. (b[a] - ChunkSize * p[a]) + ChunkSize * p[a] = b[a]
      BY <3>1, <1>4
    <3> QED BY <3>2 DEF Plus, Times
  <2>4. b = Plus(c, Times(ChunkSize, p))
    BY <2>3, <1>6 DEF Plus, Vector
  <2> QED BY <2>2, <2>4, <1>3
<1> QED BY <1>5, <1>6

\* A chunk that has been played is made and has a place.
LEMMA PlayedChunks ==
  ASSUME WorldInv, NEW n \in Played
  PROVE  /\ n \in 1 .. Len(chunks)
         /\ ~InTheMaking(n)
         /\ Made(chunks[n])
         /\ \E p \in Places : IsAt(chunks[n], p)
<1>1. n \in 1 .. Len(chunks) /\ chunks[n].samples # <<>>
  BY DEF Played
<1>2. ~InTheMaking(n)
  BY <1>1 DEF WorldInv, MadeInv
<1> QED BY <1>1, <1>2 DEF WorldInv, MadeInv, PlacesInv

\* Two chunks share no block: their places differ on some axis.
LEMMA RegionsApart ==
  ASSUME WorldInv, NEW n \in Played, NEW m \in Played, n # m
  PROVE  Region(chunks[n]) \cap Region(chunks[m]) = {}
<1> USE WorldAssumption
<1> SUFFICES ASSUME NEW b \in Region(chunks[n]), b \in Region(chunks[m]) PROVE FALSE
  OBVIOUS
<1>1. PICK p \in Places : IsAt(chunks[n], p)
  BY PlayedChunks
<1>2. PICK q \in Places : IsAt(chunks[m], q)
  BY PlayedChunks
<1>3. p \in Vector /\ q \in Vector
  BY DEF Places
<1>4. chunks[n].Size = ChunkSize /\ chunks[m].Size = ChunkSize
  BY PlayedChunks DEF Made
<1>5. \A a \in Axes : \E c \in 0 .. (ChunkSize - 1) : b[a] = c + ChunkSize * p[a]
  BY <1>1, <1>3, <1>4, BlocksOfChunk
<1>6. \A a \in Axes : \E c \in 0 .. (ChunkSize - 1) : b[a] = c + ChunkSize * q[a]
  BY <1>2, <1>3, <1>4, BlocksOfChunk
<1>7. ChunkSize > 0
  BY <1>5 DEF Axes
<1>8. p # q
  <2>1. chunks[n].location # chunks[m].location
    BY <1>7, PlayedChunks DEF WorldInv, PlacesInv
  <2> QED BY <2>1, <1>1, <1>2 DEF IsAt
<1>9. PICK a \in Axes : p[a] # q[a]
  BY <1>3, <1>8 DEF Vector
<1>10. p[a] \in Int /\ q[a] \in Int
  BY <1>3 DEF Vector
<1>11. PICK c \in 0 .. (ChunkSize - 1) : b[a] = c + ChunkSize * p[a]
  BY <1>5
<1>12. PICK e \in 0 .. (ChunkSize - 1) : b[a] = e + ChunkSize * q[a]
  BY <1>6
<1> QED BY <1>9, <1>10, <1>11, <1>12, PlacesApart

(***************************************************************************)
(* The box, coordinate by coordinate.                                      *)
(***************************************************************************)
Bottom == IF GenerationType = "GT_3D" THEN Reach ELSE ChunkSize .. (2 * ChunkSize - 1)

\* The box is a product of ranges, one for each axis.
LEMMA BlocksOfBox ==
  ASSUME NEW b
  PROVE  b \in Box <=> b \in Vector /\ b[0] \in Reach /\ b[1] \in Reach /\ b[2] \in Bottom
<1> USE WorldAssumption
<1>1. Reach \subseteq Int /\ Bottom \subseteq Int
  BY DEF Reach, Bottom
<1>2. Box = {Vec(x, y, z) : x \in Reach, y \in Reach, z \in Bottom}
  BY DEF Box, Bottom
<1>3. ASSUME b \in Box
      PROVE  b \in Vector /\ b[0] \in Reach /\ b[1] \in Reach /\ b[2] \in Bottom
  <2>1. PICK x \in Reach, y \in Reach, z \in Bottom : b = Vec(x, y, z)
    BY <1>2, <1>3
  <2>2. x \in Int /\ y \in Int /\ z \in Int
    BY <1>1
  <2> QED BY <2>1, <2>2, VectorTypes
<1>4. ASSUME b \in Vector, b[0] \in Reach, b[1] \in Reach, b[2] \in Bottom
      PROVE  b \in Box
  <2>1. b[0] \in Int /\ b[1] \in Int /\ b[2] \in Int
    BY <1>4, PlaceTypes
  <2> DEFINE v == Vec(b[0], b[1], b[2])
  <2>2. v \in Vector /\ v[0] = b[0] /\ v[1] = b[1] /\ v[2] = b[2]
    BY <2>1 DEF Vec, Vector, Axes
  <2> HIDE DEF v
  <2>3. b = v
    BY <2>2, <1>4, PlaceEquality
  <2>4. \A x \in Reach, y \in Reach, z \in Bottom : Vec(x, y, z) \in Box
    BY <1>2
  <2>5. Vec(b[0], b[1], b[2]) \in Box
    BY <2>4, <1>4, Zenon
  <2> QED BY <2>3, <2>5 DEF v
<1> QED BY <1>3, <1>4

(***************************************************************************)
(* One layer of chunks in 2D is one place on the axis up.                  *)
(***************************************************************************)
LEMMA BottomOfPlace ==
  ASSUME GenerationType \in {"GT_3D", "GT_2D"}, NEW p \in Layers, NEW c \in 0 .. (ChunkSize - 1)
  PROVE  c + ChunkSize * p \in Bottom
<1> USE WorldAssumption
<1>1. CASE GenerationType = "GT_3D"
  BY <1>1, PlaceWithinReach DEF Bottom, Layers, Reach
<1>2. CASE GenerationType # "GT_3D"
  <2>1. p = 1
    BY <1>2 DEF Layers
  <2> QED BY <2>1, <1>2 DEF Bottom
<1> QED BY <1>1, <1>2

\* Each block of the box is, on the axis up, in the reach of a layer.
LEMMA BottomHasPlace ==
  ASSUME GenerationType \in {"GT_3D", "GT_2D"}, NEW z \in Bottom
  PROVE  \E p \in Layers : p \in Int /\ \E c \in 0 .. (ChunkSize - 1) : z = c + ChunkSize * p
<1> USE WorldAssumption
<1>1. CASE GenerationType = "GT_3D"
  <2>1. z \in (-DrawDistance * ChunkSize) .. ((DrawDistance + 1) * ChunkSize - 1)
    BY <1>1 DEF Bottom, Reach
  <2> DEFINE p == z \div ChunkSize
             c == z % ChunkSize
  <2>2. p \in (-DrawDistance) .. DrawDistance /\ c \in 0 .. (ChunkSize - 1) /\ z = c + ChunkSize * p
    BY <2>1, ReachHasPlace
  <2> HIDE DEF p, c
  <2> QED BY <2>2, <1>1 DEF Layers
<1>2. CASE GenerationType # "GT_3D"
  <2>1. z - ChunkSize \in 0 .. (ChunkSize - 1) /\ z = (z - ChunkSize) + ChunkSize * 1
    BY <1>2 DEF Bottom
  <2> QED BY <2>1, <1>2 DEF Layers
<1> QED BY <1>1, <1>2

\* No chunk holds a block outside the box.
LEMMA RegionInBox ==
  ASSUME WorldInv, NEW n \in Played PROVE Region(chunks[n]) \subseteq Box
<1> USE WorldAssumption
<1> SUFFICES ASSUME NEW b \in Region(chunks[n]) PROVE b \in Box
  OBVIOUS
<1>1. PICK p \in Places : IsAt(chunks[n], p)
  BY PlayedChunks
<1>2. p \in Vector /\ chunks[n].Size = ChunkSize
  BY PlayedChunks DEF Places, Made
<1>3. /\ b \in Vector
      /\ \A a \in Axes : \E c \in 0 .. (ChunkSize - 1) : b[a] = c + ChunkSize * p[a]
  BY <1>1, <1>2, BlocksOfChunk
<1>4. /\ p[0] \in (-DrawDistance) .. DrawDistance
      /\ p[1] \in (-DrawDistance) .. DrawDistance
      /\ p[2] \in Layers
  BY DEF Places
<1>5. b[0] \in Reach /\ b[1] \in Reach
  <2>1. PICK c \in 0 .. (ChunkSize - 1) : b[0] = c + ChunkSize * p[0]
    BY <1>3 DEF Axes
  <2>2. PICK e \in 0 .. (ChunkSize - 1) : b[1] = e + ChunkSize * p[1]
    BY <1>3 DEF Axes
  <2> QED BY <2>1, <2>2, <1>4, PlaceWithinReach DEF Reach
<1>6. b[2] \in Bottom
  <2>1. PICK c \in 0 .. (ChunkSize - 1) : b[2] = c + ChunkSize * p[2]
    BY <1>3 DEF Axes
  <2> QED BY <2>1, <1>4, BottomOfPlace DEF WorldInv, TypeInv, TypeOK
<1> QED BY <1>3, <1>5, <1>6, BlocksOfBox

(***************************************************************************)
(* When the loops have ended every place has a chunk, and that chunk has   *)
(* been played.                                                            *)
(***************************************************************************)
LEMMA EveryPlaceIsPlayed ==
  ASSUME WorldInv, pc = "Done", ChunkSize > 0, NEW p \in Places
  PROVE  \E n \in Played : IsAt(chunks[n], p)
<1> USE WorldAssumption
<1>1. Before(p, at)
  <2>1. p[0] <= DrawDistance /\ at[0] > DrawDistance
    BY DEF WorldInv, LoopInv, Places
  <2>2. p[0] \in Int /\ at[0] \in Int
    BY PlaceTypes DEF WorldInv, LoopInv, Places
  <2> QED BY <2>1, <2>2 DEF Before
<1>2. PICK n \in 1 .. Len(chunks) : ~InTheMaking(n) /\ IsAt(chunks[n], p)
  BY <1>1 DEF WorldInv, PlacesInv
<1>3. Made(chunks[n])
  BY <1>2 DEF WorldInv, MadeInv
<1>4. Vec(0, 0, 0) \in SampledAt(chunks[n])
  BY <1>3 DEF SampledAt, Made
<1>5. DOMAIN chunks[n].samples # {}
  BY <1>3, <1>4 DEF Made, Samples
<1>6. chunks[n].samples # <<>>
  BY <1>5
<1> QED BY <1>2, <1>6 DEF Played

\* Each block of the box is in a chunk, found by dividing its coordinates.
LEMMA BoxIsPlayed ==
  ASSUME WorldInv, pc = "Done", NEW b \in Box
  PROVE  \E n \in Played : b \in Region(chunks[n])
<1> USE WorldAssumption
<1>1. GenerationType \in {"GT_3D", "GT_2D"}
  BY DEF WorldInv, TypeInv, TypeOK
<1>2. b \in Vector /\ b[0] \in Reach /\ b[1] \in Reach /\ b[2] \in Bottom
  BY BlocksOfBox
<1>3. PICK z \in Layers : z \in Int /\ \E c \in 0 .. (ChunkSize - 1) : b[2] = c + ChunkSize * z
  BY <1>1, <1>2, BottomHasPlace
<1> DEFINE x == b[0] \div ChunkSize
           y == b[1] \div ChunkSize
<1>4. /\ ChunkSize > 0 /\ x \in (-DrawDistance) .. DrawDistance
      /\ \E c \in 0 .. (ChunkSize - 1) : b[0] = c + ChunkSize * x
  BY <1>2, ReachHasPlace DEF Reach
<1>5. /\ y \in (-DrawDistance) .. DrawDistance
      /\ \E c \in 0 .. (ChunkSize - 1) : b[1] = c + ChunkSize * y
  BY <1>2, ReachHasPlace DEF Reach
<1> HIDE DEF x, y
<1> DEFINE p == Vec(x, y, z)
<1>6. p \in Vector /\ p[0] = x /\ p[1] = y /\ p[2] = z
  <2>1. x \in Int /\ y \in Int /\ z \in Int
    BY <1>3, <1>4, <1>5
  <2> QED BY <2>1 DEF Vec, Vector, Axes
<1> HIDE DEF p
<1>7. p \in Places
  BY <1>3, <1>4, <1>5, <1>6 DEF Places
<1>8. PICK n \in Played : IsAt(chunks[n], p)
  BY <1>4, <1>7, EveryPlaceIsPlayed
<1>9. \A a \in Axes : \E c \in 0 .. (ChunkSize - 1) : b[a] = c + ChunkSize * p[a]
  <2>1. \A a \in Axes : a = 0 \/ a = 1 \/ a = 2
    BY DEF Axes
  <2>2. /\ \E c \in 0 .. (ChunkSize - 1) : b[0] = c + ChunkSize * p[0]
        /\ \E c \in 0 .. (ChunkSize - 1) : b[1] = c + ChunkSize * p[1]
        /\ \E c \in 0 .. (ChunkSize - 1) : b[2] = c + ChunkSize * p[2]
    BY <1>3, <1>4, <1>5, <1>6, Zenon
  <2> QED BY <2>1, <2>2, Zenon
<1>10. chunks[n].Size = ChunkSize
  BY PlayedChunks DEF Made
<1>11. b \in Region(chunks[n])
  BY <1>2, <1>6, <1>8, <1>9, <1>10, BlocksOfChunk
<1> QED BY <1>11

(***************************************************************************)
(* The chunks tile the world, for every draw distance and every size: the  *)
(* step from one chunk to the next, the size they get before they begin to *)
(* play and the bounds of the loops fit each other.                        *)
(***************************************************************************)
THEOREM Tiling == Spec => []ChunksTileTheWorld
<1>1. ASSUME WorldInv PROVE ChunksTileTheWorld
  <2>1. \A n \in Played : \A m \in Played \ {n} :
          Region(chunks[n]) \cap Region(chunks[m]) = {}
    BY <1>1, RegionsApart
  <2>2. ASSUME pc = "Done"
        PROVE  UNION {Region(chunks[n]) : n \in Played} = Box
    BY <1>1, <2>2, RegionInBox, BoxIsPlayed
  <2> QED BY <2>1, <2>2 DEF ChunksTileTheWorld
<1> QED BY <1>1, WorldInvariant, PTL

\* Samples are taken at integer places of integer positions.
LEMMA PlayedTypes ==
  ASSUME WorldInv, NEW n \in Played, NEW s \in DOMAIN chunks[n].samples, NEW a \in Axes
  PROVE  s[a] \in Int /\ Position(chunks[n])[a] \in Int
<1>1. n \in 1 .. Len(chunks) /\ chunks \in Seq(Chunk)
  BY DEF Played, WorldInv, TypeInv
<1>2. chunks[n] \in Chunk
  BY <1>1
<1>3. s \in SampledAt(chunks[n])
  BY PlayedChunks DEF Made, Samples
<1>4. s \in Vector
  BY <1>2, <1>3, WorldAssumption, VectorTypes DEF SampledAt, Chunk
<1> QED BY <1>2, <1>4 DEF Position, Chunk, Vector

(***************************************************************************)
(* The chunks of a world, except naive ones in 2D, carry the terrain on    *)
(* without a seam: what a chunk has sampled is the noise of that place of  *)
(* the world, whichever chunk samples it.                                  *)
(***************************************************************************)
THEOREM NoSeam == Spec => []TerrainHasNoSeam
<1>1. ASSUME WorldInv, ~(ChunkClass = "AVWChunk" /\ GenerationType = "GT_2D"),
             NEW n \in Played, NEW s \in DOMAIN chunks[n].samples
      PROVE  chunks[n].samples[s] = GetNoise(Noise, NoisePlace(InWorld(chunks[n], s)))
  <2> DEFINE chunk == chunks[n]
  <2>1. chunk.samples = Samples(chunk) /\ chunk.GenerationType = GenerationType
    BY <1>1, PlayedChunks DEF Made
  <2>2. chunk.samples[s] = GetNoise(Noise, SamplePoint(chunk, s))
    BY <1>1, <2>1 DEF Samples
  <2> HIDE DEF chunk
  <2>3. CASE GenerationType = "GT_2D"
    <3>1. \A a \in Axes : NoisePlace(InWorld(chunk, s))[a] = SamplePoint(chunk, s)[a]
      <4>1. ASSUME NEW a \in Axes, a = 2
            PROVE  NoisePlace(InWorld(chunk, s))[a] = SamplePoint(chunk, s)[a]
        BY <1>1, <2>1, <2>3, <4>1 DEF NoisePlace, SamplePoint, Times, Vec
      <4>2. ASSUME NEW a \in Axes, a # 2
            PROVE  NoisePlace(InWorld(chunk, s))[a] = SamplePoint(chunk, s)[a]
        <5> DEFINE v == InWorld(chunk, s)
        <5>1. v[a] = s[a] + Position(chunk)[a]
          BY DEF InWorld, Plus
        <5>2. NoisePlace(v)[a] = 100 * v[a]
          BY <2>3, <4>2 DEF NoisePlace, Times, Vec, Axes
        <5>3. SamplePoint(chunk, s)[a] = (s[a] + Position(chunk)[a]) * 100
          BY <1>1, <2>1, <2>3, <4>2 DEF SamplePoint
        <5>4. s[a] \in Int /\ Position(chunk)[a] \in Int
          BY <1>1, PlayedTypes DEF chunk
        <5> QED BY <5>1, <5>2, <5>3, <5>4
      <4> QED BY <4>1, <4>2
    <3>2. NoisePlace(InWorld(chunk, s)) = SamplePoint(chunk, s)
      BY <3>1, <1>1, <2>1, <2>3 DEF NoisePlace, SamplePoint, Times
    <3> QED BY <2>2, <3>2 DEF chunk
  <2>4. CASE GenerationType # "GT_2D"
    BY <2>1, <2>2, <2>4 DEF NoisePlace, SamplePoint, InWorld, chunk
  <2> QED BY <2>3, <2>4
<1>2. WorldInv => TerrainHasNoSeam
  BY <1>1 DEF TerrainHasNoSeam
<1> QED BY <1>2, WorldInvariant, PTL

-----------------------------------------------------------------------------
(***************************************************************************)
(* Every direction has an opposite one, and steps commute.                 *)
(***************************************************************************)
LEMMA Steps ==
  /\ \A d \in EDirection : Toward(d) \in Vector
  /\ \A u, v \in Vector : Plus(u, v) \in Vector
  /\ \A u, v, w \in Vector : Plus(Plus(u, w), v) = Plus(Plus(u, v), w)
  /\ \A u, v, w \in Vector : Plus(u, w) = Plus(v, w) => u = v
<1>1. \A d \in EDirection : Toward(d) \in Vector
  BY DEF EDirection, Toward, Vec, Vector
<1>2. \A u, v \in Vector : Plus(u, v) \in Vector
  BY DEF Plus, Vector
<1>3. ASSUME NEW u \in Vector, NEW v \in Vector, NEW w \in Vector
      PROVE  Plus(Plus(u, w), v) = Plus(Plus(u, v), w)
  <2>1. \A a \in Axes : (u[a] + w[a]) + v[a] = (u[a] + v[a]) + w[a]
    BY DEF Vector
  <2> QED BY <2>1 DEF Plus
<1>4. ASSUME NEW u \in Vector, NEW v \in Vector, NEW w \in Vector, Plus(u, w) = Plus(v, w)
      PROVE  u = v
  <2>1. ASSUME NEW a \in Axes PROVE u[a] = v[a]
    <3>1. Plus(u, w)[a] = u[a] + w[a] /\ Plus(v, w)[a] = v[a] + w[a]
      BY DEF Plus
    <3>2. u[a] \in Int /\ v[a] \in Int /\ w[a] \in Int
      BY DEF Vector
    <3>3. u[a] + w[a] = v[a] + w[a]
      BY <1>4, <3>1
    <3> QED BY <3>2, <3>3
  <2> QED BY <2>1 DEF Vector
<1> QED BY <1>1, <1>2, <1>3, <1>4

\* A step back leads to where one was.
LEMMA StepBack ==
  ASSUME NEW d \in EDirection
  PROVE  \E e \in EDirection : \A u \in Vector : Plus(Plus(u, Toward(d)), Toward(e)) = u
<1>1. PICK e \in EDirection : \A a \in Axes : Toward(e)[a] = -Toward(d)[a]
  <2>1. /\ Toward("Forward") = Vec(1, 0, 0) /\ Toward("Back") = Vec(-1, 0, 0)
        /\ Toward("Right") = Vec(0, 1, 0) /\ Toward("Left") = Vec(0, -1, 0)
        /\ Toward("Up") = Vec(0, 0, 1) /\ Toward("Down") = Vec(0, 0, -1)
    BY DEF Toward
  <2>2. \A a \in Axes : /\ Vec(1, 0, 0)[a] = -Vec(-1, 0, 0)[a]
                       /\ Vec(-1, 0, 0)[a] = -Vec(1, 0, 0)[a]
                       /\ Vec(0, 1, 0)[a] = -Vec(0, -1, 0)[a]
                       /\ Vec(0, -1, 0)[a] = -Vec(0, 1, 0)[a]
                       /\ Vec(0, 0, 1)[a] = -Vec(0, 0, -1)[a]
                       /\ Vec(0, 0, -1)[a] = -Vec(0, 0, 1)[a]
    BY DEF Vec, Axes
  <2> QED BY <2>1, <2>2 DEF EDirection
<1>2. ASSUME NEW u \in Vector PROVE Plus(Plus(u, Toward(d)), Toward(e)) = u
  <2>1. ASSUME NEW a \in Axes PROVE (u[a] + Toward(d)[a]) + Toward(e)[a] = u[a]
    <3>1. u[a] \in Int /\ Toward(d)[a] \in Int
      BY Steps DEF Vector
    <3> QED BY <1>1, <3>1
  <2>2. u = [a \in Axes |-> u[a]]
    BY DEF Vector
  <2> QED BY <2>1, <2>2 DEF Plus
<1> QED BY <1>2

(***************************************************************************)
(* The faces of a chunk: those of its solid cells that look into a cell    *)
(* that is not a solid one of this chunk.                                  *)
(***************************************************************************)
LEMMA FacesOfChunk ==
  ASSUME NEW chunk, NEW f
  PROVE  f \in Shown(chunk) <=>
           \E c \in SolidCells(chunk), d \in EDirection :
             /\ f = [cell |-> InWorld(chunk, c), dir |-> d]
             /\ Plus(c, Toward(d)) \notin SolidCells(chunk)
<1> DEFINE s == chunk.Size
<1>1. Grid(s)!EDirection = EDirection /\ Grid(s)!Axes = Axes
  BY DEF Grid!EDirection, EDirection, Grid!Axes, Axes
<1>2. \A x, y, z : Grid(s)!Vec(x, y, z) = Vec(x, y, z)
  BY <1>1 DEF Grid!Vec, Vec
<1>3. \A u, v : Grid(s)!Plus(u, v) = Plus(u, v)
  BY <1>1 DEF Grid!Plus, Plus
<1>4. \A d : Grid(s)!Toward(d) = Toward(d)
  BY <1>2 DEF Grid!Toward, Toward
<1>5. SolidCells(chunk) \subseteq Grid(s)!Cell
  BY DEF SolidCells
<1>6. Grid(s)!Surface(SolidCells(chunk)) =
        {g \in [cell : Grid(s)!Cell, dir : EDirection] :
           g.cell \in SolidCells(chunk) /\ Plus(g.cell, Toward(g.dir)) \notin SolidCells(chunk)}
  BY <1>1, <1>3, <1>4 DEF Grid!Surface, Grid!Face
<1>7. Shown(chunk) = {[cell |-> InWorld(chunk, g.cell), dir |-> g.dir] :
                        g \in Grid(s)!Surface(SolidCells(chunk))}
  BY DEF Shown
<1>8. ASSUME f \in Shown(chunk)
      PROVE  \E c \in SolidCells(chunk), d \in EDirection :
               /\ f = [cell |-> InWorld(chunk, c), dir |-> d]
               /\ Plus(c, Toward(d)) \notin SolidCells(chunk)
  BY <1>6, <1>7, <1>8
<1>9. ASSUME NEW c \in SolidCells(chunk), NEW d \in EDirection,
             f = [cell |-> InWorld(chunk, c), dir |-> d],
             Plus(c, Toward(d)) \notin SolidCells(chunk)
      PROVE  f \in Shown(chunk)
  <2>1. PICK g : g = [cell |-> c, dir |-> d]
    OBVIOUS
  <2>2. g \in Grid(s)!Surface(SolidCells(chunk))
    BY <1>5, <1>6, <1>9, <2>1
  <2>3. g.cell = c /\ g.dir = d
    BY <2>1
  <2> QED BY <1>7, <1>9, <2>2, <2>3
<1> QED BY <1>8, <1>9

\* The solid blocks of a chunk are blocks of its region, and stand at vectors.
LEMMA SolidOfChunk ==
  ASSUME WorldInv, NEW n \in Played
  PROVE  /\ Position(chunks[n]) \in Vector
         /\ SolidCells(chunks[n]) \subseteq Vector
         /\ \A c \in SolidCells(chunks[n]) : /\ InWorld(chunks[n], c) \in Region(chunks[n])
                                             /\ InWorld(chunks[n], c) \in Vector
<1>1. n \in 1 .. Len(chunks) /\ chunks[n] \in Chunk
  BY PlayedChunks DEF WorldInv, TypeInv
<1>2. Position(chunks[n]) \in Vector
  BY <1>1 DEF Position, Chunk, Vector
<1>3. chunks[n].Size \in Nat
  BY <1>1, WorldAssumption DEF Chunk
<1>4. Grid(chunks[n].Size)!Cell \subseteq Vector
  BY <1>3 DEF Grid!Cell, Grid!Axes, Axes, Vector
<1>5. SolidCells(chunks[n]) \subseteq Grid(chunks[n].Size)!Cell
  BY DEF SolidCells
<1>6. \A c \in SolidCells(chunks[n]) : InWorld(chunks[n], c) \in Region(chunks[n])
  BY <1>5 DEF Region
<1>7. \A c \in SolidCells(chunks[n]) : InWorld(chunks[n], c) \in Vector
  BY <1>2, <1>4, <1>5, Steps DEF InWorld
<1> QED BY <1>2, <1>4, <1>5, <1>6, <1>7

(***************************************************************************)
(* Where a step leads is the same in the chunk and in the world.           *)
(***************************************************************************)
LEMMA StepInWorld ==
  ASSUME WorldInv, NEW n \in Played, NEW c \in SolidCells(chunks[n]), NEW d \in EDirection
  PROVE  /\ InWorld(chunks[n], Plus(c, Toward(d))) = Plus(InWorld(chunks[n], c), Toward(d))
         /\ \A e \in SolidCells(chunks[n]) :
              InWorld(chunks[n], e) = Plus(InWorld(chunks[n], c), Toward(d)) =>
                e = Plus(c, Toward(d))
<1>1. PICK p \in Vector : p = Position(chunks[n])
  BY SolidOfChunk
<1>2. c \in Vector /\ Toward(d) \in Vector /\ Plus(c, Toward(d)) \in Vector
  BY SolidOfChunk, Steps
<1>3. Plus(Plus(c, Toward(d)), p) = Plus(Plus(c, p), Toward(d))
  BY <1>2, Steps
<1>4. ASSUME NEW e \in SolidCells(chunks[n]), Plus(e, p) = Plus(Plus(c, p), Toward(d))
      PROVE  e = Plus(c, Toward(d))
  <2>1. e \in Vector /\ Plus(e, p) = Plus(Plus(c, Toward(d)), p)
    BY <1>3, <1>4, SolidOfChunk
  <2> QED BY <1>2, <2>1, Steps
<1> QED BY <1>1, <1>3, <1>4 DEF InWorld

\* A block belongs to one chunk: the other one is the same.
LEMMA OneChunk ==
  ASSUME WorldInv, NEW n \in Played, NEW m \in Played, NEW b,
         b \in Region(chunks[n]), b \in Region(chunks[m])
  PROVE  n = m
BY RegionsApart

\* Where a face looks to, and that the face turned round looks back.
LEMMA TurnedLooksBack ==
  ASSUME NEW c \in Vector, NEW d \in EDirection, NEW f, f = [cell |-> c, dir |-> d]
  PROVE  /\ f.cell = c /\ f.dir = d
         /\ Turned(f).cell = Plus(c, Toward(d))
         /\ Turned(f).dir \in EDirection
         /\ Plus(Plus(c, Toward(d)), Toward(Turned(f).dir)) = c
         /\ Turned(f) = [cell |-> Turned(f).cell, dir |-> Turned(f).dir]
<1>1. f.cell = c /\ f.dir = d
  OBVIOUS
<1>2. PICK next : next = Plus(c, Toward(d))
  OBVIOUS
<1>3. PICK e : e = CHOOSE g \in EDirection : Plus(next, Toward(g)) = c
  OBVIOUS
<1>4. \E g \in EDirection : Plus(next, Toward(g)) = c
  BY <1>2, StepBack
<1>5. e \in EDirection /\ Plus(next, Toward(e)) = c
  BY <1>3, <1>4
<1>6. Turned(f) = [cell |-> next, dir |-> e]
  BY <1>1, <1>2, <1>3 DEF Turned
<1> QED BY <1>1, <1>2, <1>5, <1>6

(***************************************************************************)
(* A face shown that looks into a solid block looks from one chunk into    *)
(* another, and that one shows the face turned round.                      *)
(***************************************************************************)
LEMMA HiddenTurned ==
  ASSUME WorldInv, NEW n \in Played, NEW f \in Shown(chunks[n]),
         NEW m \in Played, NEW b \in SolidCells(chunks[m]),
         InWorld(chunks[m], b) = Plus(f.cell, Toward(f.dir))
  PROVE  /\ n # m
         /\ Turned(f) \in Shown(chunks[m])
         /\ f.cell \in Region(chunks[n]) /\ Turned(f).cell \in Region(chunks[m])
         /\ f.cell \in Solid
         /\ Plus(Turned(f).cell, Toward(Turned(f).dir)) = f.cell
<1>1. PICK c \in SolidCells(chunks[n]), d \in EDirection :
        /\ f = [cell |-> InWorld(chunks[n], c), dir |-> d]
        /\ Plus(c, Toward(d)) \notin SolidCells(chunks[n])
  BY FacesOfChunk
<1>2. PICK v : v = InWorld(chunks[n], c)
  OBVIOUS
<1>3. v \in Vector /\ v \in Region(chunks[n]) /\ f = [cell |-> v, dir |-> d]
  BY <1>1, <1>2, SolidOfChunk
<1>4. PICK t : t = Turned(f)
  OBVIOUS
<1>5. /\ f.cell = v /\ f.dir = d /\ t.cell = Plus(v, Toward(d)) /\ t.dir \in EDirection
      /\ Plus(Plus(v, Toward(d)), Toward(t.dir)) = v /\ t = [cell |-> t.cell, dir |-> t.dir]
  BY <1>3, <1>4, TurnedLooksBack
<1>6. InWorld(chunks[m], b) = Plus(v, Toward(d)) /\ t.cell = InWorld(chunks[m], b)
  BY <1>5
<1>7. n # m
  <2> SUFFICES ASSUME n = m PROVE FALSE
    OBVIOUS
  <2>1. b = Plus(c, Toward(d))
    BY <1>2, <1>6, StepInWorld
  <2> QED BY <1>1, <2>1
<1>8. Plus(b, Toward(t.dir)) \notin SolidCells(chunks[m])
  <2> SUFFICES ASSUME Plus(b, Toward(t.dir)) \in SolidCells(chunks[m]) PROVE FALSE
    OBVIOUS
  <2>1. InWorld(chunks[m], Plus(b, Toward(t.dir))) = v
    BY <1>5, <1>6, StepInWorld
  <2>2. v \in Region(chunks[m])
    BY <2>1, SolidOfChunk
  <2> QED BY <1>3, <1>7, <2>2, OneChunk
<1>9. t \in Shown(chunks[m])
  BY <1>5, <1>6, <1>8, FacesOfChunk
<1>10. v \in Solid
  BY <1>2 DEF Solid
<1>11. t.cell \in Region(chunks[m])
  BY <1>6, SolidOfChunk
<1> QED BY <1>3, <1>4, <1>5, <1>7, <1>9, <1>10, <1>11

(***************************************************************************)
(* A world of blocks shows the whole surface of its terrain, whichever     *)
(* chunk a block belongs to; a face it shows besides is one between two    *)
(* solid blocks of different chunks, and is shown from both sides.         *)
(***************************************************************************)
THEOREM SurfaceOfTheWorld == Spec => []WorldShowsItsSurface
<1>1. ASSUME WorldInv PROVE WorldShowsItsSurface
  <2> DEFINE shown == UNION {Shown(chunks[n]) : n \in Played}
             hidden == {f \in shown : Plus(f.cell, Toward(f.dir)) \in Solid}
  <2>1. ASSUME NEW v \in Solid, NEW d \in EDirection, Plus(v, Toward(d)) \notin Solid
        PROVE  [cell |-> v, dir |-> d] \in shown
    <3>1. PICK n \in Played : \E c \in SolidCells(chunks[n]) : v = InWorld(chunks[n], c)
      BY DEF Solid
    <3>2. PICK c \in SolidCells(chunks[n]) : v = InWorld(chunks[n], c)
      BY <3>1
    <3>3. Plus(c, Toward(d)) \notin SolidCells(chunks[n])
      <4> SUFFICES ASSUME Plus(c, Toward(d)) \in SolidCells(chunks[n]) PROVE FALSE
        OBVIOUS
      <4>1. InWorld(chunks[n], Plus(c, Toward(d))) = Plus(v, Toward(d))
        BY <1>1, <3>2, StepInWorld
      <4>2. InWorld(chunks[n], Plus(c, Toward(d))) \in Solid
        BY DEF Solid
      <4> QED BY <2>1, <4>1, <4>2
    <3>4. [cell |-> v, dir |-> d] \in Shown(chunks[n])
      BY <3>2, <3>3, FacesOfChunk
    <3> QED BY <3>4
  <2>2. ASSUME NEW f \in hidden
        PROVE  \E n, m \in Played :
                 /\ n # m
                 /\ Turned(f) \in Shown(chunks[m])
                 /\ f.cell \in Region(chunks[n]) /\ Turned(f).cell \in Region(chunks[m])
                 /\ f.cell \in Solid
                 /\ Plus(Turned(f).cell, Toward(Turned(f).dir)) = f.cell
    <3>1. PICK n \in Played : f \in Shown(chunks[n])
      OBVIOUS
    <3>2. PICK m \in Played : \E b \in SolidCells(chunks[m]) :
            InWorld(chunks[m], b) = Plus(f.cell, Toward(f.dir))
      BY DEF Solid
    <3>3. PICK b \in SolidCells(chunks[m]) :
            InWorld(chunks[m], b) = Plus(f.cell, Toward(f.dir))
      BY <3>2
    <3> QED BY <1>1, <3>1, <3>3, HiddenTurned
  <2>3. \A f \in hidden : Turned(f) \in hidden
    BY <2>2
  <2>4. ASSUME NEW n \in Played, NEW f \in hidden, f.cell \in Region(chunks[n]),
               Turned(f).cell \in Region(chunks[n])
        PROVE  FALSE
    <3> HIDE DEF hidden
    <3>1. PICK k, m \in Played :
            k # m /\ f.cell \in Region(chunks[k]) /\ Turned(f).cell \in Region(chunks[m])
      BY <2>2, <2>4
    <3> QED BY <1>1, <2>4, <3>1, OneChunk
  <2> QED BY <2>1, <2>3, <2>4 DEF WorldShowsItsSurface
<1>2. WorldInv => WorldShowsItsSurface
  BY <1>1
<1> QED BY <1>2, WorldInvariant, PTL
=============================================================================
