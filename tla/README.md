# Verification of VoxelWorld

VoxelWorld is an Unreal Engine 5 project that generates voxel terrain.  A world
actor spawns a box of chunks; each chunk samples a noise function, fills a grid
of blocks or of samples and builds one triangle mesh from it, with one of three
meshers: one quad for each exposed face (naive), merged quads (greedy) or
marching cubes.  All of the game runs on the game thread, inside `BeginPlay`;
its hard part is not interleaving but the index arithmetic of the meshers, the
counters and masks they keep on the side, and how the pieces fit together at
the sides of blocks, cubes and chunks.

The tree also carries RiderLink, the editor's plug-in for an IDE, with the
remote protocol library (RD) under it.  That is where the tree's threads are:
wires that reconnect and send again, a broker that parks messages, lifetimes,
and values, maps, lists and calls replicated between two processes.

This directory holds TLA+ models of both, their TLC configurations, and TLAPS
proofs for chunks of every size, entities changed any number of times, any tree
of lifetimes, and wires with any number of packages over any number of connections.

## Inventory

### The game

Paths are relative to `Source/VoxelWorld/`.

| Component | State | Operations | What makes it correct |
|---|---|---|---|
| `AVWChunkWorld` (`Private/VWChunkWorld.cpp`) | generation type, chunk class, draw distance, chunk size; `ChunkCount` | `BeginPlay`, `Generate3DWorld`, `Generate2DWorld`: for each place spawn deferred, configure, finish | chunks tile the world; every chunk is configured before it plays; the terrain continues from chunk to chunk; the log tells the truth |
| `AVWChunkBase` (`Private/Chunks/VWChunkBase.cpp`) | size, generation type, `MeshData`, `VertexCount`, the mesh component | `BeginPlay`: `Setup`, `GenerateHeightMap`, `GenerateMesh`, log, `ApplyMesh` | the calls come in this order and end; the log tells the truth |
| `AVWChunk` (`VWChunk.cpp`) | `Blocks`, a second `VertexCount` | two height maps, `GenerateMesh`, `CreateFace` | the mesh is the surface of the solid blocks, each face once, visible from outside |
| `AVWGreedyChunk` (`VWGreedyChunk.cpp`) | `Blocks`; in `GenerateMesh` the mask and four loop variables | two height maps, `GenerateMesh`, `CreateQuad` | the same surface, in quads that are disjoint and maximal, with normals that agree with the winding; the scan ends |
| `AVWMarchingChunk` (`VWMarchingChunk.cpp`, tables in the header) | `Voxels`, `TriangleOrder` | two height maps, `GenerateMesh`, `March` | corners are where the surface cuts the grid; the mesh is closed across cubes; normals agree with the winding |
| `FChunkMeshData`, `EBlock`, `EDirection`, `EGenerationType` (`Public/Utils`) | the buffers of a mesh | - | - |
| `FastNoiseLite` (`Public/Utils/FastNoiseLite.h`) | seed, frequency, types | `GetNoise` | a function of position, from -1 to 1 |
| Game module, game mode, configuration, assets | none | - | - |

Interaction is by calls only.  The world writes four members of a chunk between
`SpawnActorDeferred` and `FinishSpawningActor`; the latter runs the chunk's
`BeginPlay`, which reads them, asks the noise for values and gives the finished
buffers to the mesh component.  Chunks never look at each other: a block at the
side of a chunk takes what lies outside for air.

### RD and RiderLink

Paths are relative to `Plugins/Developer/RiderLink/Source/`; RD's are below
`RD/src/rd_core_cpp` and `RD/src/rd_framework_cpp`.

| Component | State | Operations | What makes it correct |
|---|---|---|---|
| Send buffer (`wire/ByteBufferAsyncProcessor.cpp`) | `data`, `queue`, `pending_queue`, three sequence numbers, `interrupt_balance`, a state and a sender thread | put, pause, resume, acknowledge, start, stop, terminate | no package is lost, doubled or reordered; nobody waits for ever |
| Wire (`wire/SocketWire.cpp`) | a send buffer, a socket, the highest number received, a thread | connect, send, receive, acknowledge, reconnect, terminate | each package is handed on once and in order, over all connections |
| Lifetimes (`lifetime/LifetimeImpl.*`) | a numbered list of actions, whether terminated | add, bracket, nest, terminate, from any thread | every action runs once, the last added first |
| Message broker (`protocol/MessageBroker.cpp`) | subscriptions, and for ids without one the parked messages | dispatch, subscribe, leave; the replay on the default scheduler | messages wait for their entity and keep their order |
| Extensions (`ext/RdExtBase.cpp`, `ext/ExtWire.cpp`) | what each end knows of the other, a queue | bind, unbind, send, the exchange of states | nothing is sent to an end that is not there, nothing overtakes |
| Properties, maps, lists (`base/RdPropertyBase.h`, `impl/RdMap.h`, `impl/RdList.h`) | the value at each end, a version | change, receive, acknowledge | the two ends come to agree |
| Calls (`task/`) | tasks, endpoints | call, call and wait, answer, time out, cancel | one answer, and an end to the waiting |
| Interning (`intern/`) | two lists of values and their indices | intern, write and read an index | an index means one value at both ends |
| RiderLink module (`RiderLink/Private/RiderLink.cpp`) | the model of the connection, a lock, whether it is alive | connect, show, use under the lock, disconnect | nobody uses a model that has been replaced |
| RiderGameControl (`RiderGameControlExtension/`) | the play mode Rider knows | start, change of settings, change by Rider, shut down | both show the same settings; nothing runs after the shutdown |
| Sets, signals, serializers, identities, logging, blueprint and shader extensions | | | see "Not modelled" |

A user's thread changes an entity (property, map, list, call), which sends
through the wire of its protocol or extension into the send buffer.  The sender
thread writes it to the socket; the peer's connection thread reads it, acknowledges
it and gives it to the broker, which hands it to the entity on that entity's
scheduler.  Entities are bound to lifetimes, whose termination takes their
subscriptions away again, possibly on another thread.  RiderLink puts a model,
that is a tree of such entities, on a server wire and lets the extensions and
the loggers have it.

What is hard here is concurrency throughout: locks that are released between
a test and what depends on it, changes that cross on the way, connections
that break while packages are being sent again, lifetimes that end while
something queued for them has not run.  `PROJECT.json` lists these hazards at
their lines.

## Modules

| Module | Models |
|---|---|
| `Vectors` | `FVector` and `FIntVector` over the axes 0 to 2, `EDirection` |
| `ChunkGrid` | what all chunks share: cells, faces and the surface of a set of cells, loop order, the height of a column |
| `BlockGrid` | the flat block array of the naive and the greedy chunk and what the height maps store in it |
| `QuadMesh` | the vertex and index buffers as quads, and a decoder: which unit faces the buffers really show, and from which side |
| `ChunkSurface` | the abstract specification: a chunk draws faces of the surface of its blocks and shows the whole surface |
| `VWChunkBase` | the steps of `BeginPlay` common to all chunks |
| `VWChunk`, `VWGreedyChunk`, `VWMarchingChunk`, `MarchingTables` | the three meshers and the lookup tables |
| `VWChunkWorld` | the world: places, deferred spawning, configuration, sampling, what is seen where chunks meet |
| `PerlinNoise` | `FastNoiseLite::GetNoise` as the chunks call it: three-dimensional Perlin noise, summed over octaves |
| `ByteBufferAsyncProcessor` | the send buffer with its sender thread |
| `SocketWire` | two wires over connections that break; extends the buffer |
| `OrderedChannel` | the abstract specification of two wires: each package arrives once, in order |
| `Lifetimes` | lifetimes and threads that nest and terminate them |
| `MessageBroker` | one broker and the threads of three kinds of schedulers |
| `ExtWire` | two ends of an extension |
| `RdProperty`, `RdMap`, `RdList`, `RdCall`, `InternRoot` | two ends of an entity each, over a wire that delivers in order |
| `RiderLink`, `RiderPlayMode` | the model of the connection and the control on four threads; the play settings and their number |
| `RdEntities` | two ends with an entity of each kind |
| `Protocol` | lifetimes, the broker, the send buffer, RiderLink and its play mode, as parts of an end |
| `MCVWChunk`, `MCVWGreedyChunk`, `MCVWMarchingChunk` | instances of the chunks |
| `MCVWChunkWorld` | the world, and the noise of a place |
| `MCSocketWire`, `MCSocketWireLive` | two wires, with a few sorts of users |
| `MCRdEntities`, `MCProtocol` | instances of `RdEntities` and `Protocol` |
| `BlockGridProofs` | lemmas about the block array and the quads of a mesh |
| `VWChunkProofs`, `VWGreedyChunkProofs`, `VWChunkWorldProofs` | theorems and proofs about the chunks and the world |
| `RdEntitiesProofs` | properties, maps, calls, interning and extensions, and the theorems about all entities |
| `MessageBrokerProofs` | the broker: that an entity's messages keep their order, and that every parked one has an action to come |
| `ProtocolProofs` | lifetimes, the types of the buffers, RiderLink's model and the play mode, and the types of all parts |
| `SocketWireProofs` | the send buffer and two wires: that nothing is lost, and that they implement `OrderedChannel` |

`SocketWire` composes the two send buffers with sockets and connection threads
and is shown to implement `OrderedChannel`.  The entities are modelled over
what that gives them, a channel in order, and over what `MessageBroker` gives
them: a thread that handles what comes.  `ExtWire` and `InternRoot` include the
parking of the broker, because who handles a message is their hazard.

### How state and actions correspond to the code

`phase` is the program counter of `AVWChunkBase::BeginPlay`; each of its calls
is an action, except `GenerateMesh`, which is as many actions as its loops have
iterations worth telling apart.  Members keep their names.  Local variables of
`GenerateMesh` that live across those actions are variables of the module:
`at` and `turn` for the naive loops, `Axis`, `Slice` (`ChunkItr[Axis]`), `Mask`,
`MaskIndex`, `i` and `j` for the greedy ones.

- **Naive.** `VisitDirection` is an iteration of the loop over the directions,
  with `Check` and `CreateFace`; `NextBlock` advances the three loops.
- **Greedy.** `BuildMask` fills the mask of a slice and, as the code does in the
  middle of the loop body, advances the slice; `AddQuad` is the branch that
  finds a face: it grows width and height, calls `CreateQuad`, clears the mask
  and advances by the width; `SkipEntry` is the other branch; `NextRow` and
  `NextAxis` are the heads of the outer loops.  Width and height are described
  by where growth stops, not by the loop that counts them.
- **Marching.** `MarchCube` is an iteration of the three loops, `March` and all.
  The points of unflagged edges are uninitialised in the code and a position
  no point can have (`Garbage`) in the model.
- **World.** `Spawn`, `Configure`, `Finish` are the three calls made for a chunk.
  `Finish` is the chunk's whole `BeginPlay` in one step, with the samples it
  takes; what it shows is then `Surface` of its solid blocks, as the runs of the
  chunk modules establish through `ChunkSurface`.

The index buffer holds the absolute indices of the code.  `QuadMesh` decodes a
quad through them and the whole vertex buffer, so a counter that drifts, a
corner in the wrong order or a winding the wrong way changes what the mesh
covers.  A triangle is visible from the side on which its corners run clockwise,
in Unreal's left-handed axes.

- **Noise.** `LookUp` is one `GradCoord` with the weight the `Lerp`s give it,
  `EndOctave` an iteration of `GenFractalFBm`.  The factor that brings the sum back
  to -1 to 1 comes out of the loop of `CalculateFractalBounding`, as in the code.
- **Send buffer.** A step is what happens under one hold of a lock: `TakeData`
  and `BeginProcess` are two, because `ThreadProc` lets go of the lock between
  them, and `Process` is one package.  `sender` is the place of the sender
  thread, `caller` that of the connection's thread, `closer` that of `stop`.
  `pause` is `BeginPause` and `EndPause`, `resume` is `BeginResume`,
  `BeginReprocess`, a `Reprocess` for each package and `EndResume`: in between,
  while they wait for the processing under way and send again, they hold `lock`,
  and `put`, `acknowledge`, `stop` and the sender thread, once it is back at the
  head of its loop, wait (`LockIsFree`).  A sender thread in `cv.wait` is
  "waiting" until somebody notifies (`Notified`) or it wakes up by itself
  (`WakeUp`); it is then "woken" and looks at its condition again when it gets
  `lock`.
- **Wire.** `GoOn`, `Connect`, `Resume`, `Receiving...`, `HangUp`,
  `PauseDisconnected`, `Shutdown` are the stages of the connection's thread and
  of `set_socket_provider`, at either end.  A package is its sequence number and
  the number of its `put`; the two differ only if the code confuses them, which
  `NumberNamesPackage` watches.  A wire has two lifetimes.  `lifetime` is that of
  the `Client` or `Server`, whose end joins the thread; the thread looks at it
  at the head of its loop and when it has a connection, and nowhere else.  That
  of `Base`, at which `set_socket_provider` and `receiverProc` look, was nested
  earlier and so ends later, when there is no thread any more: those tests never
  fail, `receiverProc` ends only with its socket, and a thread that has passed its
  own test resumes although the termination has begun.  The server's thread does
  so even on the socket that it has just closed.
- **Lifetimes.** A thread's calls are a stack of frames, since actions may nest
  and terminate in turn; each action of a lifetime is a step.
- **Broker.** The replay on the default scheduler is eight steps, as the locks
  divide it; a handler is one.  The action that dispatch queues for a parked message
  names the message besides its entry: the code does not ask for it, and only the
  type invariant and its proof read it.
- **Entities.** A change with its message is a step, and the receipt of a
  message is one.  The states of `RdCall` and `InternRoot` are finer: a
  synchronous call occupies its thread, interning has a step on either side of
  its lock.
- **RiderLink.** The scheduler's thread advances through `MakeModel`,
  `BindModel`, `AddEnd` and `ShowModel` while the wire's thread may disconnect;
  a logger holds the model from `BeginFire` to `EndFire`; what the control
  queues are entries of the scheduler's queue with the control they belong to.

### What is abstracted

- One unit is one block, 100 Unreal units; the factors of 100 that only scale
  the mesh are gone.  In the world module positions are in Unreal units,
  because there the factors are the hazard.
- Noise is any function of position from a given set of functions.  A value is a
  whole number of `1 / NoiseUnit`, not confined to -1 to 1 where the code clamps
  what it makes of it; rounding to heights is exact.
- Interpolated positions are whole numbers of `1 / Grain` blocks;
  `GrainAssumption` says that no division has a remainder.  Rounding of floats
  is therefore not modelled: the model says the formulas are right, not that
  two cubes compute bit-identical floats.
- In `PerlinNoise` coordinates are whole numbers of `1 / Grain` cells, weights and
  values exact fractions; a corner of the lattice may have any gradient of the
  table, so the hash is left out.
- A package, a value and a result are numbers or model values; nothing of the
  byte format is modelled.  A socket buffers `Capacity` frames each way, in order;
  when the connection breaks those not read yet may be lost, and what is sent then is.
  Closing a socket, which shuts it down in both directions first
  (`SimpleSocket.cpp` of `clsocket`), ends a `Send` or `Receive` that blocks in it,
  at either end.
- Integers do not overflow.
- Texture coordinates, materials, collision and log texts are left out, but for
  the two numbers that are logged.

## Runs

| Run | Instance | Checks |
|---|---|---|
| `naive_chunk` | 2 x 2 x 2, 128 3D and 81 2D fields | `EveryBlockIsSet`, `NoFaceTwice`, refinement `ShowsTheSurface` |
| `greedy_chunk` | the same | `EveryBlockIsSet`, `NormalsFaceViewer`, refinement `ShowsTheSurface` |
| `greedy_layer` | 3 x 3 x 3, all 512 middle layers, 64 terraces | `QuadsAreMaximal`, `NoFaceTwice`, `MaskIndexFollowsScan` |
| `marching_cube` | one cube, 384 3D fields and 81 2D fields, 3 levels, interpolated or not | `CornersAreCuts`, `NormalsFaceViewer` |
| `marching_pair` | 2 x 2 x 2 cubes, 256 configurations against two plain neighbours on each side along each axis, and 54 ridges in 2D; 2 levels | `NoCracks`, `NoOverhang` |
| `chunk_world` | 27 or 9 chunks, 3 classes, 4 noises; the noise of 9 places in one octave and of 5 in two | `ChunksTileTheWorld`, `TerrainHasNoSeam`, `WorldShowsItsSurface`; `SameInEveryCell`, `NoiseBounded` |
| `naive_log`, `world_log` | as `naive_chunk`, `chunk_world` | violations: see findings |
| `wires` | up to 3 packages and 3 connections, 4 frames in a socket; the client may be terminated | `WireTypeOK`, `EveryPutIsKept`, `NothingLost`, `IsChannelUntilEarly` |
| `wires_live` | up to 2 packages at each end, 2 connections, 1 frame in a socket; either end or both may be terminated | `WireServes`, `TerminationEnds` |
| `entities` | two ends; a property set 3 times, a map of 2 keys changed 3 times and once, a list changed 3 times, a call each way, 2 interned values, 3 bindings or messages of one end of an extension and one of the other | `EntitiesTypeOK`, `ListsAgree`, `CopiesAgree`, `AnsweredOnce`, `MessagesInOrder`, `VersionsGrow`, `CallsEnd`, `EndsMeet` |
| `protocol` | 3 nested lifetimes, 2 threads, 5 calls; 4 messages of an entity of each kind; 4 packages; 3 connections of RiderLink with a logger and the control; 2 changes of the settings by each side | `PartsTypeOK`, `ActionsAreKept`, `LifetimesEnd`, `MessagesArrive`, `BufferServes`, `ModelFollows`, `RiderSeesEditor` |

Many of the names in the runs of RD are conjunctions of properties that the
modules of the parts define and explain one by one:

| Checked | Made of |
|---|---|
| `NothingLost` | a number names one package (`NumberNamesPackage`); what the sender lets go of has arrived (`NothingForgotten`); no number is left out (`NothingSkipped`); the first connection stays in frame and doubles nothing (`FirstConnectionIsInFrame`) |
| `WireServes` | both ends come to receive although both send again first, unless they block each other (`ConnectionReceives`); a package arrives when a connection lasts (`EveryPackageArrives`) |
| `CopiesAgree` | `RdProperty!Converges`; `RdMap!Converges`, `NothingPends`; `InternRoot!IndexStandsForValue` |
| `ListsAgree` | `RdList!TypeOK`, `CatchesUp`, `VersionsMeet` |
| `AnsweredOnce`, `CallsEnd` | `RdCall!HoldsFirstAnswer`, `NoTaskIsLeft`; `SyncEnds`, `CallIsAnswered` |
| `MessagesInOrder` | `ExtWire!NoMessageBeforeBound`, `ArrivesInOrder`, `ConnectedToBound` |
| `EndsMeet` | `RdProperty!Settles`; `ExtWire!BothConnect`, `SentArrives` |
| `ActionsAreKept`, `LifetimesEnd` | `Lifetimes!NoActionDisappears`, `LastAddedRunsFirst`, `EndedDetach`; `NestedEndFirst`, `TerminatedRunsAll` |
| `MessagesArrive` | `MessageBroker!KeepsOrder`, `AwaitedIsReceived` |
| `BufferServes` | `ByteBufferAsyncProcessor!DataIsTaken`, `StoppedThreadEnds` |
| `ModelFollows` | `RiderLink!ReplacedWhenEnded`, `ConnectionIsShown`, `EndIsShown` |
| `RiderSeesEditor` | `RiderLink!AsyncActionHasModel`, `ControlShowsModel`; `RiderPlayMode!ModeMeansSettings`, for settings that a play mode has the bits for |
| `NoiseBounded` | `PerlinNoise!OctaveBounded`, `OutputBounded` |

`RdEntities` and `Protocol` hold several modules whose states have nothing
in common: entities have ids of their own, and what is sent for one is handled
by it alone.  A behaviour therefore uses one of them, which a variable
(`entity`, `part`) tells, and the others rest; any behaviour of all together is,
for each, a behaviour of it alone with stutters.  The same goes for the noise in
`MCVWChunkWorld`, which keeps nothing between two calls.

`CHECK_DEADLOCK FALSE` is set throughout: `BeginPlay` ends and nothing ticks;
users stop putting, changing and calling when their bounds are used up.

### Why the bounds are enough to be interesting

In a 2 x 2 x 2 chunk every pair of neighbours occurs in every arrangement, and
each block has three sides to the outside.  One of the eight blocks is kept
solid in the 3D fields, to halve the run; the 2D fields include the empty chunk.
A width or a height that stops in the middle needs a mask of three rows: the
middle layer of a 3 x 3 x 3 chunk makes each of the 512 masks occur, from both
sides.  A single cube meets all 256 configurations, and with a sample on the
level the boundary between `<=` and `<`; a crack shows between two cubes, and a
row of the triangle table fits all others when it fits a plain one on each side.
A draw distance of 1 gives the world a chunk with neighbours on every side.  The
places of the noise lie on either side of 0, inside, on a side, on an edge and
on a corner of a cell.

Two connections that break let a package be lost, sent again, and its resending
be interrupted; three packages are one acknowledged, one under way and one
waiting.  The users of the wires differ because all of this at once, at both
ends and with a termination, is too much to explore: `wires` takes three sorts of
them in turn, and `wires_live` three others; the MC modules say which.  In `wires`
four frames in a socket are more than an end sends before it receives.  In
`wires_live` a socket takes one, so that an end with a second package waits in the
middle of sending, or of sending again, for the other to read: two ends with two
packages each meet every order of this, duplicates after a lost acknowledgement, and
the case in which both wait for ever.
A property needs three changes for one to
cross two others; a map two at one end and one at the other, so that an entry is
replaced while an answer is under way.  Two messages of an extension are what
can overtake one another; a second binding is what meets the first one's late
answers, and three at one end are a message between two of them or two after one.  Three nested lifetimes let the middle one end from above and below at
once.  Four messages of one broker are enough for two to be parked, one to be
replayed and one to come meanwhile.

### Fairness

The two block chunks assume `WF_vars(Next)`: the game thread, which runs
`BeginPlay`, is not suspended for ever.  Which action is next is determined by
the state.  `ShowsTheSurface` then also says that the loops of the meshers end,
the greedy scan in particular, none of whose loops advances in its head.

In RD threads are fair and users are not: nobody has to put, call, bind,
terminate or press a button, and a connection may break or last.  Only the
handler of a call is taken to finish, since `CallsEnd` is about what follows.  A thread that
can go on until it does, gets weak fairness (`RdProperty`, `RdCall`, `ExtWire`,
`Lifetimes`, `MessageBroker`).  One that needs a lock, which others hold again
and again, gets strong fairness: the sender thread and `stop` in
`ByteBufferAsyncProcessor`, whose users may pause and resume without end, and
the scheduler's thread of `RiderLink`.  The operating system's mutexes give this in
practice.  The three threads of a wire get by with weak fairness: `lock` is taken
from them only as often as a connection breaks.  No fairness wakes the sender
thread from `cv.wait`: it depends on being notified, by `put` and `resume` when
it has something to send, and by `stop`, once it is told to end or once again when
the thread has not ended in time.  Without the notification of `put`, `BufferServes`
fails, and without that of `resume`, `WireServes`; the two of `stop` back each
other.  Two loggers could keep the reader-writer lock of RiderLink
between them for ever, and the scheduler out of it, unless the lock itself is
fair; `protocol` has one logger, and `ModelFollows` is about one.  Where
several modules share a run each conjunct is guarded by the part that is used,
so the fairness is the part's own.

### Findings

- `naive_log`: the naive chunk logs `Vertex Count : 0` for every chunk.
  `AVWChunk::VertexCount` hides the member of the base class, and the base class
  logs its own.
- `world_log`: a 2D world logs `0 Chunks Created`: only the 3D loop counts.

### Observed in the game

Nothing in the repository says otherwise, so these are described, not reported:

- In 2D the naive chunk divides its position by 100 twice
  (`VWChunk.cpp:17`, `VWChunkBase.cpp:44`), so neighbouring chunks sample places
  a hundredth of their distance apart and their heights do not meet.
  `TerrainHasNoSeam` leaves out this one combination.
- The marching chunk's 2D height map never writes its top layer
  (`VWMarchingChunk.cpp:27`), which keeps the zeros of `SetNum`.  With a surface
  level of 0 or more they are air; with a negative one, ground: a ceiling.
  `NoOverhang` is about levels from 0.
- A positive surface level turns the triangles round (`VWMarchingChunk.cpp:51`)
  but not their normals.  `NormalsFaceViewer` is about levels up to 0.
- Ground is above the level in the marching chunk's 2D terrain, and below it in
  the blocks' 3D terrain.
- The hash of the noise multiplies by large primes in `int`
  (`FastNoiseLite.h:1812`), which overflows.

### Observed in RD and RiderLink

Each of the following formulas says what a comment, an assertion or a message of
the code says, stands in its module, and is refuted by TLC when it is
named in a configuration.  No run does so: the code is that of the plug-in's
vendor, and the runs are about what it does keep.

| Formula | The code says | What happens |
|---|---|---|
| `SocketWire!AcknowledgementsGrow` | "next seqn MUST BE greater than" (`ByteBufferAsyncProcessor.cpp:259`) | The sender thread takes data, a reconnect intervenes, and package 1 goes out early and again with `resume`; it is acknowledged twice |
| `MessageBroker!HandlerIsRemoved` | "The handler is removed when the given [lifetime] is terminated" (`IWire.h:43-45`) | A queued message finds the id that `subscriptions[id]` has entered again, and its handler runs after the lifetime has ended |
| `MessageBroker!ReplayHasSubscriber` | "require equals of wire and default schedulers" (`MessageBroker.cpp:96-97`) | The assertion goes through a null pointer when the entity has left while its messages waited |
| `RdMap!AckHasPending` | "No pending for" (`RdMap.h:184`) | Two changes of a key before the first answer: the second answer finds no entry, since `emplace` kept the first |
| `RdCall!SyncTaskExists` | "Already exists sync task for call" (`RdCall.h:127`) | A call that timed out leaves `sync_task_id` set, and later calls are refused with no other under way |
| `RiderLink!ActionFindsModel` | "After all initialization finished" (`RiderGameControlExtension.cpp:453`) | The control's last action runs after the control has been destroyed |
| `RiderPlayMode!InitialSync` | "Initial sync." (`RiderGameControlExtension.cpp:442`) | The settings change between being read and being sent, and Rider keeps the old mode |
| `InternRoot!ValueExists`, `NoLockNeeded` | "don't need lock because value's already exists and never removes" (`InternRoot.h:98`) | An index is looked up before its value is there, or beside the insertion of another |
| `RdList!LocalChangeIsAlone` | "!isLocalChange" (`RdReactiveBase.h:66`) | `RdList::removeAll` begins a local change inside another, through the virtual `removeAt` |

And without a line that says otherwise:

- *Wire.*  When both ends have more to send again than the sockets hold, each
  waits for the other to receive: gridlock, for good, unless the connection
  breaks.  Each holds its `lock` meanwhile, so that `put` and `stop` wait as
  well, and the termination of a wire never gets to closing the socket that
  would end it.  `WireServes` and `TerminationEnds` make an exception of this state
  (`Clogged`), which `wires_live` reaches.  A duplicate is skipped by number, but what `read_package` answers for it is
  taken for a length, which puts the stream out of frame.  While number 1 is
  unacknowledged a reconnect delivers everything again, as 1 means a new peer
  (`SocketWire.cpp:323`).  A package whose sending failed stays in the queue until
  the next put (`Left`, another exception of `WireServes`).
- *Broker.*  A message that comes between the test that nothing is parked and
  the erasing of the entry is lost, and the iterator may dangle; one that comes
  between the erasing and the replay overtakes.  `MessagesArrive` leaves out
  these (the variable `late`).
- *Lifetimes.*  `erase` takes no lock; an exception leaves out all actions that
  remain; a bracket's closing is refused if the lifetime ends after its opening.
- *Extensions.*  An end that leaves still answers; one that comes back finds
  `connected` and its queue as they were.
- *Properties and maps.*  Neither end is the master unless told, and two
  slaves whose changes cross stay apart.  `pendingForAck` holds pointers to keys
  that may be gone.
- *Calls.*  A finished task stays subscribed (`WiredRdTaskImpl.h:34-42`), and the
  endpoint's listener holds a reference to a local.
- *RiderLink.*  `add_action` throws when the connection ends during the
  building of the model.  The mode takes more than four clients over into the
  neighbouring bits (`RiderGameControlExtension.cpp:107-110`); changes that cross
  leave the two sides apart.

## Proofs

For every `Size`, every noise and both generation types, in the world for every
draw distance, every chunk size and every class of chunk, in the entities for all
values and keys and any number of changes, calls, messages and bindings, in the
lifetimes for every tree of them and any number of threads and calls, in the broker
for any number of entities and messages, in RiderLink for any number of connections, logging threads and events and for all settings,
and in the buffer and the wires for any number of packages, of connections and of
frames in a socket:

| Theorem | Says |
|---|---|
| `VWGreedyChunkProofs!TypeCorrect` | `Spec => []TypeOK` |
| `VWGreedyChunkProofs!IndexFollowsScan` | `Spec => []MaskIndexFollowsScan` |
| `VWGreedyChunkProofs!BlocksAreSet` | `Spec => []EveryBlockIsSet` |
| `VWGreedyChunkProofs!FacesOnce` | `Spec => []NoFaceTwice` |
| `VWGreedyChunkProofs!NormalsMatch` | `Spec => []NormalsFaceViewer` |
| `VWGreedyChunkProofs!QuadsStayMaximal` | `Spec => []QuadsAreMaximal` |
| `VWGreedyChunkProofs!MeshesTheSurface` | `ShowsTheSurface` without its fairness |
| `VWChunkProofs!TypeCorrect` | `Spec => []TypeOK` |
| `VWChunkProofs!BlocksAreSet` | `Spec => []EveryBlockIsSet` |
| `VWChunkProofs!FacesOnce` | `Spec => []NoFaceTwice` |
| `VWChunkProofs!MeshesTheSurface` | `ShowsTheSurface` without its fairness |
| `VWChunkWorldProofs!TypeCorrect` | `Spec => []TypeOK` |
| `VWChunkWorldProofs!Tiling` | `Spec => []ChunksTileTheWorld` |
| `VWChunkWorldProofs!NoSeam` | `Spec => []TerrainHasNoSeam` |
| `VWChunkWorldProofs!SurfaceOfTheWorld` | `Spec => []WorldShowsItsSurface` |
| `RdEntitiesProofs!TypesAreKept` | `EntitySpec => []EntitiesTypeOK` |
| `RdEntitiesProofs!CopiesComeToAgree` | `EntitySpec => []CopiesAgree` |
| `RdEntitiesProofs!NoVersionLost` | `EntitySpec => VersionsGrow` |
| `RdEntitiesProofs!TasksAreAnsweredOnce` | `EntitySpec => []AnsweredOnce` |
| `RdEntitiesProofs!MessagesComeInOrder` | `EntitySpec => []MessagesInOrder` |
| `MessageBrokerProofs!MessagesKeepTheirOrder` | `PartSpec => []Broker!KeepsOrder` |
| `ProtocolProofs!PartsAreTyped` | `PartSpec => []PartsTypeOK` |
| `ProtocolProofs!LifetimesTypes` | `Spec => []TypeOK` |
| `ProtocolProofs!LifetimesKeepActions` | `Spec => []ActionsAreKept` |
| `ProtocolProofs!NestedLifetimesEndFirst` | `Spec => NestedEndFirst` |
| `ProtocolProofs!RiderIsSeen` | `PartSpec => []RiderSeesEditor` |
| `ProtocolProofs!ModelReplacedWhenEnded` | `PartSpec => Link!ReplacedWhenEnded` |
| `SocketWireProofs!TypeCorrect` | `Spec => []TypeOK` |
| `SocketWireProofs!PutsAreKept` | `Spec => []EveryPutIsKept` |
| `SocketWireProofs!WireTypeCorrect` | `WireSpec => []WireTypeOK` |
| `SocketWireProofs!WirePutsAreKept` | `WireSpec => []EveryPutIsKept` |
| `SocketWireProofs!WiresLoseNothing` | `WireSpec => []NothingLost` |
| `SocketWireProofs!WiresAreAChannel` | `WireSpec => IsChannelUntilEarly` |

The only assumptions are `SizeAssumption`, `Size \in Nat`, in the chunks,
`WorldAssumption` in the world, of which the proofs use that the draw distance
and the two sizes are natural numbers, `PropertyAssumption` in the property:
the two ends are different, and empty is none of the values set,
`EntitiesAssumption` in the other entities: the same of a map, whose keys are
finitely many, of a call and an extension that there are two ends, and that the
bounds are natural numbers, `LifetimesAssumption`: each lifetime has one it may be
nested in, a root itself, `ProtocolAssumption`: the settings are of their types, the
play modes Rider knows fit a byte, and the bounds are natural numbers,
`PutsAssumption` in the buffer, that the bounds on the packages are natural
numbers, and `WireAssumption`: the two ends are different, there is at least one
connection and room for a frame in a socket.  TLC evaluates them in the runs of
these modules.  Where a run is short of time, a type invariant that is proved for
every instance is not checked on one as well.

**The mask scan.** `MaskIndexFollowsScan` is not inductive, and neither is the
type invariant of the greedy chunk: that `AddQuad` keeps `i` in `0 .. Size` needs
the index to be in the mask, and that needs the index to follow the scan.  The
inductive invariant `ScanInv` adds `IndexInv`, `j < Size => MaskIndex = j * Size
+ i`.  `NextRow` keeps it because the scan of a row leaves `i` at exactly `Size`,
never beyond: the width is at most `Size - i`.  `IndexFollowsScan` follows by
division with remainder (`RowMajorDigits`).

**The flat array.** `EveryBlockIsSet` rests on the row-major index being a
bijection between the cells and `0 .. Size^3 - 1` (`CellHasIndex`,
`IndexHasCell`, `IndexIsInjective` in `BlockGridProofs`): a loop over the cells
then leaves no entry as it was (`StoredEverywhere`), and neither height map
stores `Null` (`HeightMapSetsAll`).

**What a mesh shows.** `Covered` decodes a quad as a renderer does, from indices,
corners and the turn of its triangles.  `BlockGridProofs` shows what comes of
it, once for both meshers.  Two triangles that are the halves of a rectangle and
are seen from one side cover just the faces of the cells behind that rectangle
(`QuadCovers`).  When every quad has corners of its own (`IsOwn`: its six indices
lie in its own four vertices, which is where the vertex count and the vertex
buffer have to agree), one more quad leaves what the others cover as it was
(`QuadStays`, `OneMoreQuad`).  So `MeshData` may be replaced by the set of faces
it shows (`Shown`, `DrawnIsShown`), and the rest of the proofs is about sets of
faces.

**The naive mesh.** `MeshInv` says that while the loops run, what is shown is the
faces of the surface that the loops have passed (`Passed`), and that the loop
stands at a cell (`LoopInv`).  `VisitKeeps` takes one direction: it adds the face
when the block behind it is open, which is when the face is on the surface
(`CheckIsOutside`), and a face has one cell and one direction only
(`OneCellAtATime`, `EachDirectionOnce`), so it was not shown before.  After the
last cell the loops have passed every face.

**The greedy mesh.** Here the faces are visited slice by slice from both sides,
and a face belongs to a place: axis, facing, slice, column and row (`FaceOn`,
`FaceHasPlace`, `FaceOnOnce`).  `Todo` is what the sweeps have left: the surface's
faces on a later axis, in a later slice, or still in the mask.  `MeshInv` says

- that what is shown and `Todo` share out the surface,
- that the mask holds faces of stone of the surface, and nothing before
  `MaskIndex` (`MaskInv`), and
- of every quad, where it is, that the scan has passed its corner, and that on
  its right and below it there is a face that is not in `Todo` (`QuadInv`).

The last part is what makes `QuadsAreMaximal` inductive.  A quad that could be
merged with an older one to its left or above it would cover the very face at
which the older one stopped; a quad that comes later has its corner later in the
scan, so it is never to the left of or above an older one (`NewQuadInOrder`, `NewQuadApart`).
`AddQuad` clears just the faces it covers (`RectangleTodo`, `TodoAfter`), and
`BuildMask` fills the mask with just the faces of the new slice (`MaskFilled`), both
because the mask, too, is numbered row by row.  `MeshInv` was model-checked on
chunks of size 2 and 3 before it was proved.

**The meshes implement `ChunkSurface`.** `PromiseSteps` restates the steps of the
abstract specification under the refinement mapping; each step of the chunk is
then `Fill` (the height map), `Draw`, `Show` (`ApplyMesh`) or a stutter, which is
`MeshesTheSurface`.  Only its fairness, that the mesh is shown in the end, is left
to TLC.

**The world.** None of the three properties is inductive: they speak of the
finished chunks only, and the loops with their half-made chunk are what keeps
them.  The inductive invariant `WorldInv` adds where the loops are (`LoopInv`),
that every chunk but the one in the making has the world's size and generation
type and has sampled with them (`MadeInv`), and that these chunks stand at the
places the loops have passed, one chunk at each (`PlacesInv`).  The places are
ordered as the loops visit them, and `NextPlaceFollows` says that `NextPlace` is
the successor in that order.  `Tiling` follows coordinate by coordinate, by
division with remainder (`PlacesApart`, `ReachHasPlace`); a world of chunks of
size 0 is the one case where chunks share a location, and there are no blocks
in it.  `SurfaceOfTheWorld` needs of all this only that regions are apart: a face
that looks from one solid block into another cannot be shown by a chunk that has
both, so the two are in different chunks, and the second shows the face turned
round for the same reason (`HiddenTurned`).

**Entities.** What the properties of an entity promise, they promise once all is
still, or of what has arrived.  The inductive invariants say of everything under
way what it will do when it comes; there is one for each kind of entity, with a
lemma for each thing that can happen to it.

- *Properties.*  `PropertyInv`: the messages to the slave are newer than what it
  has and in order (`Rising`), and the last one is the master's value
  (`MastersLast`); those to the master are no newer than what the slave has
  (`Late`), and once nothing more is under way to the slave, the last of them is
  the slave's value if the master will take it, and otherwise the two agree
  (`SlavesLast`).
- *Maps.*  `MapInv` is about each key that was not changed again before its answer
  (`KeyHolds`).  A key with an entry in `pendingForAck` has one change under way, with the
  master's value, or one acknowledgement; a key without has neither.  Unless the change
  is still under way, what the slave has is what the master will have when all that
  comes behind the acknowledgement is there (`LeadsTo`).  An end has no more than one
  entry for a key, unless its value has been freed (`MapEntries`).
- *Calls.*  `CallInv`: a task that waits is of an end whose lifetime is alive, and the
  first answer to it, if there is one, is ahead of it, queued or under way, before any
  other to it (`TaskHolds`); one that has a result has that of the first answer,
  or was cancelled when the lifetime ended.  What is queued, under way and served is about
  tasks that there are (`CallAbout`), and the task that a thread waits for
  is one of its own (`CallMain`).
- *Interning.*  `RootInv` looks at one end and what the other tells it: the indices
  that it has for values and for those of the other end are where they should be
  (`Lists`), and an index of the other end that a message here uses, or that the other
  end may yet write, is told before that message: it is there, being inserted,
  queued or under way ahead of it (`Informed`).
- *Extensions.*  `ExtInv`: the messages that an end has sent, those it keeps behind
  those under way behind those that have arrived, are in order, also while one is in a
  thread's hands (`ExtOrder`); an end that has never been bound does nothing
  and is sent nothing but states (`ExtFresh`); and the last that an end hears, bound
  for the first time, of one that is not bound is that it has left (`ExtDenies`), unless
  the two have crossed.

**The broker.** A message is received, handed over to the entity's scheduler, or kept back:
popped and in the hand of the default thread, parked, put aside for the replay, or being
replayed.  `KeepsOrder` looks at what has been received only.  `BrokerInv` says, for each
entity:

- `Sent`, `Kinds`: nothing is anywhere that has not come, and what can be where follows
  from the entity's scheduler and whether its subscription is yet to come or over.
- `Handed`, `InvokesAhead`: what the scheduler has been handed is in order, behind
  what has been received.
- `Queued`: the parked messages rise; each has an action of the present entry,
  those actions are queued in the order of the messages, and invocations of
  the entity are queued among them in that order.  An action pops whatever is first, without
  asking which message it was queued for; because of `Queued` that is the right one.
- `Held`: of an entity whose subscription is not over, what is kept back is
  behind everything handed over: first what is popped, then what is parked, then what
  was put aside.

That each parked message has an action is the broker's part of `PartsTypeOK`.  The order is
lost only where `KeepsOrder` says so: for an entity out of order, and for a message that
comes to an entity with a scheduler of its own while the default thread, having found
nothing more parked, erases the entry and replays what was put aside.

**The parts together.** `PartsTypeOK` holds for the five parts with the invariants of each
(`PartsInv`).  That of the buffers is inductive with one bound more, that `current_seqn` is
at most one beyond `acknowledged_seqn`; a resume forgets what has been acknowledged from
there on.

**RiderLink.** `AsyncActionHasModel` and `ControlShowsModel` hold because the scheduler
never makes a model while one is shown.  `LinkInv` says why: while it makes one
(`scheduler.at` is not idle) `isAlive` is not true; and when one is shown, either its
connection is the present one and no other is queued, or its end is queued before
the next connection (`EndComes`).  The connections in the queue are later than the
model's, and rise (`ConnectionsRise`), so that the model made next is a new one.
The end is queued by a lifetime's action, which is added before the model is
shown; if the connection has ended by then `add_action` throws and nothing
is shown.

**The play mode.** `ModeMeansSettings` speaks of the time when all has come.  On the way
(`ModeAgree`) the editor's number is that of its settings; and if numbers to be sent
are queued the last is the editor's, if Rider's requests are queued what Rider has, or
will have when all that is sent has come (`RiderWillHave`), is the last of them or
the editor's number, and if nothing is queued it means the settings.  This needs that
settings that are packed are unpacked again (`PackUnpack`), which holds for up to four
clients and every play mode but `InTargetedMobilePreview`, and not that Rider's number is the one the
editor would pack: an eighth bit is dropped.

**Lifetimes.** `ActionsAreKept` looks at the actions that are left at the end;
what keeps it true is where they are on the way.  `LifetimesInv` adds:

- `KeyInv`: keys rise within a lifetime and within a call, a lifetime and a call
  have actions of one lifetime only, a call that runs actions is of a lifetime
  whose actions are taken, and a key that `attach_nested` has or was given is never
  that of a user's action, so that `actions.erase` cannot remove one.
- `Remembered` is `NoActionDisappears`, of the actions in hand.
- `Once`: no two calls share a lifetime's actions, since only the first
  `terminate` finds any, and no two are attaching the same lifetime.  `TopFirst`: only
  a call that runs actions has others above it.
- `AllSpent`: all that is left of a lifetime from which something has run has
  smaller keys.  With `Once` this makes `LastAddedRunsFirst` inductive.
- `TakingInv`, the last part of `TypeOK`: whatever gets into a lifetime after its
  flag is set is there when `terminate` takes the lock.
- `NestInv`, `NamedInv`: the action that detaches a lifetime names the key of the
  one action that terminates it.  `DetachInv`: that action waits or was left out,
  or the parent has nothing left of the lifetime.  `EndedDetach` follows, since
  a lifetime without actions and calls has none that wait.
- `WaitsInv`, `NestEnds`: the termination of an attached lifetime waits in its
  parent, in the call that runs the parent's actions, or the lifetime has ended or
  the same thread is just about to end it.  Hence `NestedEndFirst`: the keys in
  the call are smaller than the key of what runs, so the termination of
  anything nested later is not among them.

The removal from the parent takes no lock (`LifetimeImpl.cpp:56`), as in the code;
in the model it is one step, so what two threads do to the map itself is
outside the theorems.  Only that what is terminated runs in the end
(`TerminatedRunsAll`) is left to TLC.

**The send buffer.** `EveryPutIsKept` is nearly inductive as it stands: with the
types it makes `Inv`.  `pending_queue` holds the consecutive numbers from
`current_seqn` to `max_sent_seqn`, `queue` and `data` behind each other those from
the next to the last put (`Holds`), and `acknowledged_seqn` lies between.  Every
action moves one seam of these runs: `Process` the one between sent and queued,
`BeginReprocess` the one before which packages are forgotten.  The lemmas
`HoldsAppend`, `HoldsTail` and their like say what a step does to one run.

**The wires lose nothing.** `WireInv` adds to `Inv` of the two buffers:

- `Places`: what the places of the threads exclude together, and that the server
  is never on a later connection than the client.
- `Frames`: each frame in a socket is genuine, a package under the number it was
  put with and sent at some time, an acknowledgement of a package that its
  receiver has sent.  `NumberNamesPackage` is part of it.
- `NoGaps`, for an end that has sent nothing early: what it knows to be
  acknowledged its peer has got; every acknowledgement on the way is of a package
  that has been got, with all before it; and each package on a line follows, in
  number, one that has been got or is before it on the line.  On the line that
  the end writes now every package up to the last written has been got or is
  there (`OnTheLine`, `UpTo`).  These make `NothingForgotten` and
  `NothingSkipped`.
- `First`: on the first connection the streams are strictly in order, and an end
  that has not joined it has sent nothing.  With it `FirstConnectionIsInFrame`.

That an end is early is remembered for good, and the invariant says nothing of it
from then on: package and acknowledgement may go out before the resume of the
old ones, and the code does lose track then.

**The wires are a channel.** `NothingLost` allows a package to be handed on
twice, and does not say in which order.  For that `ChannelInv` adds a window for
each end, again until it is early: what the peer counts (`received`) is no less than
what the end knows to be acknowledged and no more than what it has sent.  A line
is in order (`LinesInOrder`) when its packages rise, each by one from another
before it, and the first is no further than one beyond the count; those on a line
the peer has not come to are so with respect to the acknowledged number, from which
resume begins.  `AtEdge` says that the last package on the line is the last that was
written, so that the next one written fits.  Then an end that reads a package
either has its number already and skips it, or counts one further and hands
on exactly that one.  What was handed on since number 1 came last
(`SinceOne`) is therefore the numbers 1 to `received` (`Turns`), and a step that
hands on `m` is a step of the channel if `m` is not 1, and begins again if it is.

Only model-checked:

- *Liveness*, since `ENABLED` is out of the prover's reach: `WireServes`,
  `TerminationEnds`, `CallsEnd`, `EndsMeet`, `LifetimesEnd`, `MessagesArrive`,
  `BufferServes`, `ModelFollows`, of which the safety halves are proved where they have
  one, and the part of the refinement `ShowsTheSurface` that promises that the mesh is
  finished.
- The marching chunk: its properties rest on a table of 256 rows that TLC
  goes through.  `VWMarchingChunk!TypeOK` is neither checked by a run, in favour of
  the properties that depend on it, nor proved.
- The noise: `NoiseBounded` is about sums of products of fractions, beyond
  what the provers do with arithmetic.
- The lists: `ListsAgree` compares one end with the other end's changes applied in
  turn, a fold over the messages under way, and what a fold computes takes induction
  over data.

## Not modelled

- The engine: spawning, actors, the mesh component.
- Game module, game mode, build files, configuration and binary assets: no
  state of their own.
- Of `FastNoiseLite` everything but three-dimensional Perlin noise in octaves,
  which is what the chunks ask for: other kinds of noise, domain warp and
  cellular values.  The world and the meshers hold for every function of
  position.
- Of the wire the heartbeat, whose result nothing reads
  (`SocketWire.cpp:169`), and a peer that is restarted on the same connection.
- Sets and signals: events without versions or answers, applied as they come.
  What two ends do to a set at once stays different, and nothing promises
  otherwise.
- Serializers, identities, entities inside entities, `RdSymmetricCall`, eternal
  and sequential lifetimes.
- RiderLink's start and shutdown, its logging, blueprint and shader extensions,
  which forward lines and events over an engine that is not in the tree and use
  the model as the logger in `RiderLink` does; the models they use are
  generated.
- Third-party libraries: formatting and logging (`spdlog`), sockets
  (`clsocket`), threads (`CTPL`), `optional`, `variant`, `ordered-map`,
  `string-view-lite`.  They are more than half of the tree's lines, together
  with serializers and generated models, and nothing in the repository depends
  on more of them than their documented interfaces.

## Plan

Done: the chunk grid, the three meshers, the world, the noise, the wire and
its buffer, lifetimes, the broker, extensions and entities, RiderLink; proved:
types, the mask scan, the block array, that both block meshers draw the surface,
all of it and once, and the greedy one in maximal quads, the tiling and the seams
of the world, that properties and maps converge, calls are answered once, indices
stand for one value and messages of extensions come in order, that lifetimes keep
their actions and end the nested ones first, that the broker keeps the order of an
entity's messages, that RiderLink's model is there for whoever
uses it and its play mode agrees with the editor's, and that two wires lose nothing
and are an ordered channel.

Next, in this order:

1. *More of the marching chunk.*  `TypeOK`, and the cracks between two of them, from the
   table that TLC has checked.
2. *Sets and signals*, and entities inside entities, whose lifetimes end with
   their place in a map or a list.
