# Formal models of VirtualFluids

VirtualFluids is a lattice Boltzmann flow solver. It has a CPU solver
(`src/cpu/core`, MPI + OpenMP) and a GPU solver (`src/gpu/core`, CUDA + MPI)
and small libraries they share (`src/basics`, `src/lbm`, `src/parallel`).
The models in this directory are about its *control*: who computes what, when,
from data of which time, and how the processes hand data to each other. The
floating-point numerics are abstracted away.

## 1. The system

### Components, their state and how they interact

| component | state | operations | talks to |
|---|---|---|---|
| CPU time loop, `Simulation` | loop counters of `run()`, per-level lists of blocks and of local, remote, local-interpolation and remote-interpolation connectors | connector initialisation, `run()` | blocks, connectors, observers |
| `Block3D`, kernels, `DataSet3D` | two distribution arrays per block (the kernel's view of them is swapped), boundary conditions | pre/post collision BC, `calculate`, `swapDistributions` | driven by the time loop |
| connectors | the block and neighbour they serve, their transmitters | `prepareForReceive/Send`, `fillSendVectors`, `sendVectors`, `receiveVectors`, `distributeReceiveVectors`, `send/receiveTransmitterDataSize` | a local copy, a shared buffer, or an MPI pool |
| `TbCbVectorMpiPool` | the vectors of all connectors between two ranks and two levels in one array; call counters; MPI requests | data-order handshake, one MPI message for all vectors per round | the pool of the same key on the other rank |
| `CbVectorPool` | one growing array, a map of keys to vectors that point into it | alloc, resize, dealloc | the vectors of the connectors |
| observers, `UbScheduler` | when they are due, files | `update(step)` | called at the end of each time step |
| checkpoint and restart (`MPIIO*`) | several files and a step file | write, restart | called as observers |
| grid construction (visitors) | the tree of blocks | refinement, ratio and overlap visitors, partitioning, wiring of connectors | before the time loop |
| GPU time loop, `UpdateGrid27` | even/odd flag per level, device arrays | recursive `updateGrid`, collision strategy, refinement strategy | CUDA streams, halo exchange |
| GPU halo exchange | host and device send/receive buffers per neighbour and direction, edge nodes | prepare, exchange, scatter in x, y, z | MPI |
| grid generator, geometry, writers, configuration, bindings | | | pure set-up or output |

### What is hard

* *Levels.* Level `l+1` takes two steps while level `l` takes one. The CPU loop
  flattens this nesting with a search for the lowest set bit of a counter
  (`Simulation.cpp:272-278`); every read of an interface value, ghost layer or
  observed quantity depends on the outcome.
* *Ranks.* There are no barriers in the time loop. Ranks are synchronised by
  the messages of their connectors alone; a rank can be a level or a step ahead
  of another.
* *MPI.* `MPI_Send` may or may not wait for the receiver. All sends come before
  all waits, so each receive has to be posted before.
* *Sharing.* Many connectors share one message. Counters decide which call of
  the many really prepares, sends or waits.
* *Failure.* `run()` swallows exceptions and returns; peers do not notice. A job
  can die at any time, in the middle of a checkpoint too.
* *In place.* `EsoSplit` keeps one copy of the lattice. A collision writes into
  slots that belong to neighbouring nodes, of which some are behind a wall or in a
  ghost layer; which slot holds what depends on the step's parity.
* *Overlap.* The GPU solver collides the bulk while the border is collected,
  copied, sent and received; streams, one event and the legacy stream decide what
  may run beside what. Corner values travel through two or three processes.

For each component the property that makes it right:
time loop - every level is advanced and coupled at its time and each read sees
data of that time; distribution storage - the memory that is overwritten while it
is read computes the lattice Boltzmann step; connectors and pools - what is received in a round is what
the partner filled in in that round, vector by vector, and nobody waits
forever; `CbVectorPool` - vectors stay independent of each other although they
share memory that moves; checkpoint - a readable restart point at any time;
GPU - every ghost node has the value of this collision, whichever way it came, and
the device works on the same data in the order in which the host issued it, or it is known
where it does not.

## 2. Modules

| module | models | role |
|---|---|---|
| `NestedTimeStepping` | the promise of a refined time loop | abstract specification |
| `Simulation` | `cpu/core/Simulation/Simulation.cpp`, the connectors as driven by it | detailed specification, one process per rank |
| `MCSimulation`, `Simulation*.cfg` | | grids and bounds for TLC |
| `Simulation_proofs` | | theorems about `Simulation` for all constants: one rank (typing, control, refinement of `NestedTimeStepping` and what follows from it), and what the ranks exchange |
| `NaturalLemmas` | | induction and division facts the proofs need |
| `IndependentVectors` | what `CbVector` promises its users | abstract specification |
| `CbVectorPool` | `basics/container/CbVectorPool.h` and the operations of `CbVector` on it | detailed specification, sequential |
| `MCCbVectorPool`, `CbVectorPool*.cfg` | | instances for TLC |
| `CbVectorPool_proofs` | | theorems about the pool for all constants |
| `PoolChannel` | what the time loop relies on when it hands vectors to a pool | abstract specification |
| `MpiPool` | `parallel/transmitter/TbTransmitterMpiPool.h`, called as `Simulation` calls it | detailed specification, two ranks and the network |
| `MCMpiPool`, `MpiPool.cfg` | | instance for TLC |
| `MpiPool_proofs` | | theorems about the pools for all connectors, sizes and rounds |
| `LatticeBoltzmann` | what a time step promises: collide, then stream, with walls and outlets | abstract specification |
| `EsoSplit` | `cpu/core/Data/EsoSplit.cpp`: which slot holds a distribution before and after a collision | operators |
| `BlockStreaming` | a time step on the distributions: kernel, direct connectors, boundary conditions, swap | detailed specification, one level, any order within a loop |
| `MCBlockStreaming`, `BlockStreaming.cfg` | | instance for TLC |
| `BlockStreaming_proofs` | | theorems about slots and ghost layers, and the refinement of `LatticeBoltzmann`, for all grids |
| `UbScheduler` | `basics/utilities/UbScheduler.h`: the times at which an observer is due | operators |
| `Checkpoint` | `MPIIORestartSimulationObserver.cpp` and what it uses of `MPIIOSimulationObserver.cpp`, `UbScheduler` and the time loop | detailed specification, all processes, files, crashes and restarts |
| `MCCheckpoint`, `Checkpoint.cfg` | | instance for TLC |
| `Checkpoint_proofs` | | theorems about schedulers, and about checkpoints for all processes, data and schedules |
| `SubDomains` | the wiring made by `MultipleGridBuilderFacade`, `GridImp`, `GridInterface` and `GridGenerator` | operators |
| `IndexRearrangement` | `IndexRearrangementForStreams.cpp` and `MPICommunicator::receiveSend`: the start-up of the reduced exchange | variables, initial state and actions that `GpuHalo` composes |
| `GpuHalo` | `ExchangeData27.cpp`, after the start-up of `IndexRearrangement` | detailed specification, one process per sub-domain |
| `MCGpuHalo`, `GpuHalo.cfg`, `GpuHaloInterface.cfg` | | grids of sub-domains for TLC |
| `GpuHalo_proofs` | | theorems about the exchange for all grids of sub-domains and interfaces |
| `CopyEdgeNodes` | `copyEdgeNodes` of `ExchangeData27.cpp`, with its OpenMP threads | detailed specification of one function |
| `MCCopyEdgeNodes`, `CopyEdgeNodes.cfg` | | instance for TLC |
| `GpuStreams` | `UpdateGrid27.cpp`, `CollisisionStrategy.cpp`, `RefinementStrategy.cpp`, `CudaStreamManager.cpp` | detailed specification, the host of one process and its device |
| `MCGpuStreams`, `GpuStreams.cfg` | | instance for TLC |
| `GpuStreams_proofs` | | theorems about host and device for all set-ups and numbers of levels |

The three modules `CbVectorPool`, `MpiPool` and `Simulation` are layers. `CbVectorPool` shows that the vectors
of one pool may be used as if each had memory of its own. `MpiPool` uses that
and shows that the calls of many connectors amount to one message per round.
`Simulation` uses that and treats all connectors between two ranks and two
levels as one message. Each layer is checked against the abstract specification
the next one is built on, rather than composed into one state space. `BlockStreaming`
is the layer above: it opens what `Simulation` calls the version of a level, on one
level and with local connectors. `GpuStreams` and `GpuHalo` divide the GPU solver
in this way only in part: the second takes the operations in the order in which
the host issues them, and the first says when the device may do otherwise. Without
streams it never does; with streams a bulk collision can be overtaken (`OnlyBulkOvertaken`,
section 5). What `GpuHalo` shows of the exchange with streams holds if the bulk kernel has
ended before the scattering begins.
Both time loops implement `NestedTimeStepping`.

### `Simulation`

A rank's position in `run()` is `pc`. The loop variables have the source's
names (`calcStep`, `staggeredStep`, `straightStartLevel`, `threshold`).

| code | action |
|---|---|
| `initConnectors`, `initRemoteConnectors` (data order) | `SizeSend`, `SizeReceive`, `InterSizeSend`, `InterSizeReceive` |
| selection of the start level | `Select`, `Threshold` (one test of the `for`) |
| `applyPreCollisionBC` | `PreCollisionBC` |
| `calculateBlocks`, one level | `Calculate` |
| `exchangeBlockData`, one level | `SendLocal`, `PrepareRemote`, `SendBegin`/`SendReturn` (one `MPI_Send`), `SendsDone`, `ReceiveRemote` |
| `applyPostCollisionBC`, `swapDistributions` | `PostCollisionBC`, `SwapDistributions` |
| `interpolation` | `InterPrepare`, `InterSendLocal`, `SendBegin`/`SendReturn`, `InterSendsDone`, `InterReceiveLocal`, `InterReceiveRemote` |
| end of the sub-step, ghost update | `EndSubstep` |
| `notifyObservers`, loop test | `Notify` |
| `catch` | `Throw` |

*Abstractions.* The blocks of a level on a rank move together (the OpenMP loops
touch disjoint blocks). Distributions are a *version*: number of the step and
stage within it; a ghost layer or an interface buffer holds the version it was
copied from. A pool of connectors is one message (section on pools). The order in
which the pools of a list are sent is left open. `Mixed` says on which ranks and
levels a coarse-to-fine connector is remote although it also serves local fine
blocks: such a connector sits in the remote list and its local buffers are
filled and read there.

### `CbVectorPool`

| code | action or operator |
|---|---|
| `CbVector::setAllocator` → `allocVectorData` | `Create`; `CreateTwice` when the key is taken |
| `CbVector::resize` → `resizeVectorData` | `Resize`: `AllocData` for a vector without data, else `ResizeData` |
| `allocData`, with the renewal of pointers after a reallocation | `AllocData`, `RenewPointers` |
| `resizeData`, with the shift of the vectors behind | `ResizeData`, `Spliced`, `LiesBehind` |
| `CbVector::operator[]` | `Write`, `Element` |
| `~CbVector` → `deallocVectorData` | `Dealloc` |
| `~TbCbVectorSenderMpiPool` of the last vector, `~CbVectorPool` | `DeletePool` |

*Abstractions.* A raw pointer is a pair of the address of the pool's memory and
an offset; after the pool has moved, a pointer with the old address is dangling
and reads something else (`Element`). Whether and where a reallocation goes is
chosen by `Occupy`: it happens exactly when the capacity does not suffice, and
the new block has another address because the old one is still in use while it
is copied. Vectors get their allocator before their length, as the transmitters
do.

### `MpiPool`

A rank's position is `at`: the pass through its connectors (`Passes`: three at the setup, and
the three loops `connectorsPrepareRemote`, `connectorsSendRemote`, `connectorsReceiveRemote` of each
round), the connector, the method called on it, and for which of its vectors. `MoveOn` is
the control of these loops.

| code | action |
|---|---|
| `init` of a connector (length of its vector) | `InitVector` |
| `sendDataOrder`, `receiveDataOrder` | `SendDataOrder`, `ReceiveDataOrder` |
| `prepareForReceiveData`, `prepareForSendData` | `PrepareForReceive`, `PrepareForSend` |
| `fillSendVectors`, `distributeReceiveVectors` of a connector | `FillVector`, `DistributeVector` |
| `sendData`, `receiveData` | `SendData`, `ReceiveData` |
| MPI writing into the posted buffer | `Deliver` |

*Abstractions.* An element of a vector is the key of its vector and the round it
was written in. Messages between two ranks are delivered in order and none is
lost, which MPI guarantees. `eager` is the set of ranks whose sends return
before the receiver is ready. The life cycle of the static map of pools and
other pairs of ranks are left out: pools of different keys share nothing.

### `EsoSplit` and `BlockStreaming`

A slot is a place in the three arrays of a block: `localDistributions`,
`nonLocalDistributions` and the array of the rest distribution. `PreSlot` and
`PostSlot` say where a distribution of a node is before and after its collision,
`PostNode` and `PostDirection` to whom a slot belongs.

| code | action |
|---|---|
| `OutflowNonReflecting::applyBC`, called in `applyPreCollisionBC` | `ApplyPreCollisionBC` |
| `K17CompressibleNavierStokes::calculate`, one node | `Calculate` |
| `OneDistributionFullDirectConnector`: `updatePointers`, `exchangeData` | `SendVectors` |
| `NoSlipInterpolated::applyBC`, called in `applyPostCollisionBC` | `ApplyPostCollisionBC` |
| end of a parallel loop | `EndLoop` |
| `swapDistributions` | `SwapDistributions` |

*Abstractions.* What a collision, a wall or an outlet computes is an operator
without interpretation; on TLC's instance it mixes residues, so that any
distribution that is taken from the wrong slot or at the wrong time shows.
`BoundaryAssumption` says which nodes have a boundary condition: every direction
that does not come from the fluid, once. No-slip and outflow stand for the
conditions after and before the collision.

### `Checkpoint`

A process is in the time loop (`at = 0`) or at a statement of `update`, which is a
sequence of statements.

| code | action |
|---|---|
| a time step, `notifyObservers`, `isDue` of the observer's scheduler | `Calculate` (with `isDue`, `Asked`) |
| `clearAllFiles`, one file; `MPI_File_open`; `MPI_File_close` | `Collective` |
| receive and send of the offset | `ExchangeOffset` |
| `MPI_File_write_at` of the counts and parameters; of the data | `WriteCount`; `WriteUnits` |
| `writeCpTimeStep`: open, flush | `TruncateCp`, `WriteCp` |
| death of the job | `Crash` |
| `readBlocks`, `readDataSet`, `readBoundaryConds`, `setTimeStep` | `Restart` (with `Restored`) |
| a job without a checkpoint | `StartAnew` |

*Abstractions and assumptions.* A file is the counts at its beginning and the units
at their positions; a unit knows whose it is, which one, and of which step. How
many units a process has for a file (`Cells`) and how many lie before them
(`Begin`) are constants, because they do not change after the grid has been built;
every process has at least one block (below). Collective calls are barriers, which
MPI allows and ROMIO's open and close are. A crash is that of the processes: what
was written stays. (A crash of the machine is another matter: `cpBlocks.bin` is
closed without `MPI_File_sync`, `MPIIOSimulationObserver.cpp:253`.) A restart only
reads and is one step. Which step is restarted is the user's choice (the
applications pass a number from their configuration): `backward` users take
any step whose files are complete, others the one in `cp.txt`, if it holds one.

Every process has a scheduler of its own, and a new one after a restart. `isDue` both
answers (`isDue`) and changes the scheduler (`Asked`). Times are whole numbers, as in
the time loop, so the `while` of `isDue` makes one turn, or two if the time is due
(`SearchesOn`). `Scheduled`, a time between begin and end at a multiple of the step, is
not taken from the code: it is what a user who gives the schedules expects.

### `SubDomains`, `IndexRearrangement` and `GpuHalo`

| code | action or operator |
|---|---|
| `setUpCommunicationNeighbors`, `setPeriodicBoundaryCondition` | `CommunicationProcess` |
| `convertToIndices3D`, `getIndex1D` | `Place`, `Number` |
| `findCommunicationIndices` | `LayerAt`, `SendIndices`, `ReceiveIndices` |
| `repairGridInterfaceOnMultiGPU` | `FineToCoarseNodes`, `CoarseToFineCells` |
| `initalValuesDomainDecompostion` | `FillOrder`, `ProcessNeighbor`, `RankNeighbor`, `LayerSeq` |
| `initSendIndicesForCommAfterFToC`, sending half of `receiveSend` | `Tell` (`SendPositions`) |
| receiving half of `receiveSend`, `initRecvIndicesForCommAfterFToC` | `Hear` (`ReceivePositions`) |
| `collision...`, collection of the send buffers, posting of the receives | `Collide`, the second half of `Receive` (`Prepare`) |
| `MPI_Send` to one neighbour | `Send` |
| `waitAll`, copy and scattering to the ghost nodes | `Receive` |
| `fineToCoarse` and collection of the front parts | `Interpolate` |
| `findEdgeNodes`, `copyEdgeNodes` | `EdgeNodes`, `WithEdgeNodes` |

*Abstractions.* The value of a node is its place in the whole grid, the step of
its last collision and whether an interpolation has changed it since, for one of the 27
distributions. What a process does by itself
before its next message is part of the preceding action: nobody else can see the
difference. Axes without neighbours are skipped: nothing is sent, copied or waited
for. The interface to a finer level is given by the nodes interpolated from fine to
coarse and the cells interpolated from coarse to fine on the whole grid; what each
process knows of it follows. The finer level itself, which is exchanged in the same way
between the two exchanges, is left out. A buffer that is read as one of another number
of nodes than it was filled with yields `Garbage`. The exchange of convection-diffusion
repeats the same steps on other lists of nodes.

### `CopyEdgeNodes`

One action per statement of the loop body. A thread that reads one of the shared
variables gets what it wrote itself (the compiler has kept it in a register) or what is
in memory; both occur in builds of this code.

### `GpuStreams`

The host goes through `Program`, the statements of `updateGrid` with its recursion
unrolled. A kernel, a copy or an event is appended to `pending` (`Launch`); the device
ends any operation that no earlier one holds back (`Execute`, `Orders`). The other
actions are those in which the host waits (`Synchronize`, `DeviceSynchronize`,
`WaitAll`), posts a receive, sends, or swaps.

*Abstractions.* What an operation touches is the set of regions it reads and writes
(`Reads`, `Writes`): border, bulk and ghost nodes of a level between two swaps,
and the buffers of an axis. The border is all nodes that are sent; the ghost nodes are those
received but not sent. They are fluid nodes, so the bulk kernel works on them as on the bulk
(`NotSent`; `GridImp.cpp:965-1010` takes only the sent nodes out of its list), and the scattering
works on ghost nodes and on received nodes that are sent on (`Received`). A kernel that runs after a swap touches, in
memory, neighbouring nodes of what it touched before, hence any part. A level may have
boundary nodes of kinds that are treated after the collision, before the next one, both or none; how
many kinds there are of each is left out.

## 3. Runs

| run | instance | shows |
|---|---|---|
| `simulation_levels` | 2 ranks, levels 0..2, 3 steps, ghost update at step 2, 4 kinds of buffering; 28 298 states | `TypeOK`; kernels see ghost layers of their own step (`FreshAtCollision`); interface values belong to the last common time (`InterfaceFresh`); "now ghost nodes have actual values" (`GhostsActualAtInterpolation`); observers see all levels at one time (`ObserversSeeOneTime`); the loop implements `NestedTimeStepping` (`NestedSteps`) |
| `simulation_ring` | 3 ranks in a ring, levels 0..1, 2 steps, rank 1 may throw, 3 kinds of buffering; 126 650 states | `LockStep`, `NothingInFlight`, `AllRanksFinish` |
| `simulation_fine` | 1 rank, levels 1..2 | violation of `ObserversSeeOneTime`: see findings |
| `vector_pool` | 3 vectors of length up to 2, elements 0 and 1, 2 addresses, starting capacity 0 or 3; 9 222 states | `TypeOK`; the code's own `ConsistencyCheck`; the pool implements `IndependentVectors` (`VectorsAreIndependent`) |
| `vector_pool_twice` | 3 vectors of one key | violation of `KeyIsKnown`: see findings |
| `mpi_pool` | 2 ranks, 3 vectors one way and 2 the other, connector lists in different orders, 3 rounds, 4 ways to buffer; 13 316 states | `TypeOK`; a connector reads what its partner filled in in the round (`ReadsItsVector`); the calls implement `PoolChannel` (`OneMessagePerRound`); both ranks get through (`AllRoundsEnd`) |
| `block_streaming` | 3 blocks of 2x1x1 nodes connected along a face, an edge and a corner, one periodic to itself, with a solid node and an outlet, 3 steps | `TypeOK`; ghost nodes agree with the nodes they stand for from the exchange to the swap (`GhostsFollowTheirNodes`); the blocks implement `LatticeBoltzmann` (`ImplementsLattice`) |
| `checkpoint` | 3 processes, 4 steps, schedules of every third step from 1 to 3 and of every second from 3 to 4 (so due at 1 and 3), up to 3 crashes; 76 671 states | `TypeOK`; what is restored is of the step it claims (`StateOfTimeStep`); the step in `cp.txt` is complete (`CpStepComplete`); the last checkpoint survives while the next is written (`CheckpointSurvives`); checkpoints are written when they are scheduled (`WrittenOnSchedule`); `SimulationEnds` |
| `gpu_halo` | 2x2x1 sub-domains with and without streams and buffering, periodic rings of 2 and 3, 2x2x2 sub-domains; with a refinement interface 2x2x1 sub-domains, a chain of 3 and a ring of 2; 63 618 states | `TypeOK`; ghost nodes have the values of this collision and interpolation (`GhostsFresh`); sender and receiver have rearranged their lists alike (`NeighboursAgree`); `NoCircularWait` |
| `gpu_halo_interface` | 2x2x1 sub-domains, an interface across the corner in the middle | violation of `InterpolatedCellsExchanged`: see findings |
| `copy_edge_nodes` | 2 threads, 2 edge nodes of 2 neighbours | violation of `EdgeNodesCopied`: see findings |
| `gpu_streams` | 3 levels, 9 set-ups: boundary nodes of both kinds on all levels, with neighbours on X, on Z, on X and Z, on all axes; of one kind only, on some levels, on none; 2 coarse steps; 31 341 states | `TypeOK`; of operations on the same data only a bulk collision is overtaken, on a level with boundary nodes only by the scattering of its own exchange into ghost nodes (`OnlyBulkOvertaken`); `HostBuffersIdle`; `CommunicationHidden`; the recursion of `updateGrid` implements `NestedTimeStepping` (`NestedSteps`) |

*Why the bounds are enough.* Three levels are the first number at which the
bit search has more than one outcome besides the last sub-step and at which a
level is both coarse and fine. Two ranks with a level shared by both, a level on
one of them and a mixed connector contain every kind of pool; three ranks are
the smallest ring. Three steps give a step before, at and after the extra ghost
update. Three vectors are the first number at which one lies in front of, one at
and one behind the vector that changes; capacity 0 moves the pool at every
growth, capacity 3 at some. Two connectors that share a vector's pool in
different orders on the two ranks, one connector with two senders and one
without are all the ways a counter can be reached; counters that are not reset
show in the second round, buffers that are reused in the third.

Three blocks are enough for every kind of connector (face, edge, corner, a block
that is its own neighbour) and three steps for both parities and a swap back.
Three processes have a first, an inner and a last one in the chain of offsets; two
checkpoints, one to go back to and one to be cut off; three crashes, one while
each of them is written and one after going back. The end of each schedule lies
between two of its steps, and the fourth time step is behind the last checkpoint. 2x2x2 sub-domains have corners
whose values pass three processes, rings of two the same neighbour on both sides. The
interfaces of `gpu_halo` have front parts that are reordered (interpolated nodes behind
others in their list), empty, longer on one side than on the other, and with nodes that
reach over the corner and have to be patched.
Three levels have a level that is both coarse and fine; the second coarse step
shows what is left pending of the first. The nine set-ups have levels with boundary nodes of
either kind, of both and of none, above and below each other, so what is overtaken does occur:
`OnlyBulkOvertaken` fails without either of its two exceptions.

*Deadlock* is checked in the runs of `CbVectorPool`. The others come to an end: the
ranks, processes and hosts stop after their last step (in `copy_edge_nodes` and `gpu_halo`
also the property names the moment). In `simulation_ring` and `mpi_pool` the liveness properties say that nobody
stops early; `SimulationEnds` says the same of `checkpoint` and `NoCircularWait` of `gpu_halo`.

*Fairness.* `Fairness` is weak fairness of every rank's own steps: a rank is an
operating-system process, and an MPI implementation makes progress. Throwing is
not fair: an observer need not fail. `AllRanksFinish` assumes no rank stopped.
In `Checkpoint`, the processes of a job and MPI go on (`WF(Job)`), and somebody starts
a dead job again (`WF(Restart)`, `WF(StartAnew)`); crashes are not fair, and
`MaxCrashes` bounds their number: a simulation whose jobs always die never ends.

## 4. Proofs

`Simulation_proofs` proves for *every* set of ranks, number of levels and steps,
adjacency, buffering and order of messages:

* `Typing` - `TypeOK`. Not inductive: that `straightStartLevel` stays a level
  depends on the search ending in time.
* `Control` - the inductive invariant behind it. While the search runs,
  `threshold = Shl[MaxInitLevel - straightStartLevel]` and divides
  `staggeredStep`; when it ends, the bit is set. A number below
  `2^(MaxInitLevel - MinLevel)` that is not 0 has a set bit below, so the search
  ends before the level leaves its range (`SearchStops`).
* `ObserversInTime` - `ObserversSeeOneTime`, from the invariant `Counting`: the
  number of steps of level `l` is the number of multiples of
  `2^(MaxInitLevel - l)` among the sub-steps done.
* `RefinesNestedTimeStepping` - `NestedSteps`, with the additional invariant
  `Coupled` on the times of interpolation.
* `OneCoarseStep` - `Nested!WithinOneCoarseStep`: neighbouring levels are never more
  than one step of the coarser apart. It is invariant under every step of
  `NestedTimeStepping` (`OneStepMore`), so the refinement carries it over.

The last three assume `MinLevel = 0`: for other values they are false (finding).
Induction over levels is done by the least counterexample
(`NaturalLemmas`: `LeastElement`, `SegmentInduction`).

The second half of the module proves, under the same assumption and again for every set of
ranks, adjacency, refinement and buffering, the properties that involve several ranks:

* `RanksInLockStep` - `LockStep`; `CollidesWithFreshGhosts` - `FreshAtCollision`;
  `InterpolatesActualGhosts` - `GhostsActualAtInterpolation`;
  `CollidesWithFreshInterfaces` - `InterfaceFresh`; `AllReceived` - `NothingInFlight`.

None is inductive: they speak of versions and of an end state, and a message carries no
number by which a receiver could tell a late one from a new one. The invariant numbers
the exchanges instead.

* A level could make three exchanges after its step `n`: `3n + 1` after the collision,
  `3n + 2` before the interpolation, `3n + 3` the additional update of the ghost layers
  (`Happens` says which of them are made; the handshake is number 1). From the loop variables
  of a rank follows how far each of its levels is (`Position`), and a step of the rank
  makes the next exchange or skips numbers that are none (`OutsidePosition`,
  `ExchangeMade`). Here the two ends of a connector come to agree, although each decides
  with its own `straightStartLevel`, `staggeredStep` and `calcStep` what it exchanges:
  by `Counting`, the number of steps of a level determines whether an interpolation
  (`InterpolatesIff`) and an update (`UpdatesIff`) follow.
* `Channels`: a pool holds the messages of exactly the numbers its sender has made and its
  receiver has not, in this order, and the receiver has made none the sender has not
  (`InTransit`). A receive is outstanding exactly while its rank waits for it
  (`Requests`), so `MPI_Wait` never returns without a message. `LockStep` follows: between
  two steps lies an exchange that is always made.
* `Halos`: a ghost layer holds the last exchange of its level. At a collision all three
  numbers of the last step are behind the rank (`FreshAtCollision`), at an interpolation
  the second is (`GhostsActualAtInterpolation`).
* `InterChannels` does the same for the interpolation pools, numbered by the couplings of their
  interface: what is in a pool between ranks are the couplings given and not yet taken, a buffer
  shared by two connectors of one rank holds the coupling last given, and `iface` the one last taken.
  By `CoupledHalf` and `CoupledSame` this is the last time both levels had in common (`InterfaceFresh`).
* At the end all ranks are at the same number of everything (`FinishedSteps`), so nothing is left
  (`NothingInFlight`).

`Channels`, `Halos`, `Requests`, `Placed` and `InterChannels` were checked by TLC on the states of
`simulation_levels` and `simulation_ring` before they were proved.

`AllRanksFinish` is model-checked only: liveness is out of reach of the prover.

`CbVectorPool_proofs` proves for every number of vectors, every size and every
reallocation, with a set of keys that is finite and each key used once:

* `Typing` - `TypeOK`; `Consistency` - `ConsistencyCheck`; `KeysKnown` - `KeyIsKnown`;
* `Independence` - `VectorsAreIndependent`: the pool implements `IndependentVectors`.

None of these is inductive. The invariant `Inv` adds that vectors with elements lie
side by side and cover the pool (`Layout`), that each of them points to its
place in the present memory and all others nowhere (`Handles`), and that the map
knows exactly the vectors of the pool (`Registered`). The two routines that
change lengths are shown to do the same to what the vectors see (`Changed`), and
the five operations are then short.

`MpiPool_proofs` proves for every list of connectors on either rank (with any number of senders
and receivers each, in any order), every size of their vectors, every number of rounds and
however MPI buffers:

* `MpiPoolTyped` - `TypeOK`; `VectorsRead` - `ReadsItsVector`;
* `OneMessage` - `OneMessagePerRound`: the pools implement `PoolChannel`.

It assumes what `MpiPool` names: vectors are not empty (`VectorAssumption`), a key occurs once for
each direction, and what one rank sends under a key the other receives (`KeyAssumption`). None of
the three is inductive. The invariant `Inv` (`PoolInvariant`), whose parts TLC checked
on the instance of `mpi_pool` before they were proved, derives everything from the place of a rank:

* `Called` is the set of vectors for which an operation has been called in this pass, and a counter
  is its size (`Counters`). As no vector is called for twice (`CallHere`), the counter reaches the
  number of vectors exactly at the call after which none is left (`CounterFacts`), whatever
  the connectors are. So a rank has sent, posted and waited for `Sent`, `Posted` and `Waited`
  messages, and a call changes one of these numbers or none (`Progress`).
* On the way to a rank is what its peer has sent and it has not taken, in order (`Conforms`): the
  layout of the pool, then the rounds. A round's message holds in each vector what was filled in in
  this round (`Written`), because a connector fills its vectors before it sends (`SentAreFilled`)
  and the vectors lie beside each other (`Layout`).
* The receiver has the sender's layout and the last round it took (`Received`), and a request is
  active exactly while one more receive is posted than waited for (`RequestsOK`); therefore
  nothing is written to the pool while it is read.
* The state of `PoolChannel` is a function of the numbers (`ChannelStates`); a call is a step of it
  or none (`CallSimulated`).

`BlockStreaming_proofs` proves for every grid of blocks, every arrangement of walls and
outlets, and whatever collision, wall and outlet compute:

* `TypeCorrect` - `TypeOK`;
* `SwapStreams` - the slot a distribution has before a collision is, after the swap,
  the slot its origin wrote it to after the collision: exchanging two pointers
  streams all 27 directions of all nodes;
* `GhostsFollow` - `GhostsFollowTheirNodes`. It rests on `SlotIsOnes` (no slot belongs to
  two pairs of node and direction) and `SlotInMemory` (no slot is outside of the
  block's arrays); the invariant says of each ghost node that its connector has sent
  and its owner has collided.
* `BlocksImplementLattice` - `ImplementsLattice`, the refinement. What a node has received
  and what it sends are 27 slots that are its own (`DistributionsHeld`), so a collision in
  place changes no other node, in whatever order the nodes are taken (`CollideMaps`). An
  outlet reads before any collision and writes where no connector and no wall does
  (`OpenMaps`). Sending, walls and the ends of loops are stutters (`SendStutters`,
  `WallStutters`, `EndLoopStutters`). At the swap every distribution a node finds is the
  one its origin left (by the invariant, if that is a ghost node), what its wall returned or
  what its outlet supplied (`StreamMaps`). The invariant is the one above with
  `WallsHaveReturned`: a wall's nodes hold what it returned once it has had its turn. The
  proof needs `BoundaryAssumption`: every link out of the fluid has exactly one
  boundary condition, and an outlet writes to no ghost node that a connector fills.

`Checkpoint_proofs` proves for every number of processes, every amount of data, every
set of schedules and any number of crashes:

* `TypeCorrect` - `TypeOK`; `RestoredInTime` - `StateOfTimeStep`; `CpNamesComplete` -
  `CpStepComplete`; `AlwaysRecoverable` - `CheckpointSurvives`;
  `OnSchedule` - `WrittenOnSchedule`.

None of these is inductive. The invariant `Inv` divides the 23 statements of `update` at
the collective ones: all processes are in the same segment of the same step
(`Together`). Within a segment, a message is on its way to a process exactly if the
one before it has sent, and it holds the beginning of the region (`Chain`); what a
process has written stays, because regions do not overlap (`Regions`, by induction
over the processes in between) and what is written twice is the same (`OnDisk`).
When the last file is closed, all processes have written all files, so the checkpoint is
complete (`AllWritten`). A process that writes is inside a step none of them has
behind it, so the checkpoints `cp.txt` or a restart rely on are not touched (`Safe`).
The schedulers of all processes wait for the same next step (`InTime`), so no process
goes into `update` alone. The proof uses the assumptions of the module on `Cells` and
`Begin`, regions follow each other without a gap, and that the last step lies before
`Infinity`.

The same module proves `DueOnSchedule` about `UbScheduler`. A scheduler waits (`Waiting`) if it was last due in the
past and will next be due no later than the first scheduled time to come. A new one
waits, and one that is asked answers rightly and waits again, however much time has
passed in between. It rests on `EndsMoved`, an end that is moved loses no scheduled time,
and on `NotLate` and `FoundIfScheduled` about the search.

`GpuStreams_proofs` proves for every number of levels and coarse steps, any choice of axes with
neighbours and of levels with boundary nodes, and every order in which the streams let the
device execute:

* `TypeCorrect` - `TypeOK`; `HostBuffersAreIdle` - `HostBuffersIdle`;
  `CommunicationIsHidden` - `CommunicationHidden`;
* `OperationsInOrder` - `OnlyBulkOvertaken`, whichever levels have boundary nodes of whichever kind;
* `RecursionNests` - `NestedSteps`: the recursion of `updateGrid` implements `NestedTimeStepping`.

It assumes what `GpuStreams` names: `FineAssumption`, `SetupsAssumption` and `MaxStepAssumption`,
which say what the constants are. The difficulty is that the position of the host is a
number in a sequence that a recursion over the levels has made, so nothing can be read off it.

* The program is taken as a walk. A `Point` says where in an update the host is (phase,
  place, level, axis), `Edge` which statement leads from which point to which. By induction over
  the levels `UpdateGrid` leads from `Between`, where nothing is going on, to `Between`
  (`ConcatLeads`, `LevelLeads`, `GridLeads`). `Place` is the point the host stands at, and every step of the
  host goes along an edge (`HostMoves`). This part does not depend on what is pending.
* The invariant `Inv` says which operations can be pending at a point. `Buffers`: receives are posted only within an
  exchange, behind a wait nothing is pending on the border stream, and copies
  touch the host buffers of an axis only while the host is there. `Bulks`: a pending kernel of the
  bulk belongs to a time step before the last swap, or nothing but its own exchange was issued after it. On a level
  with boundary nodes, one that nothing on the legacy stream follows is of the present collision: the kernels of the
  boundary conditions divide the time steps. `Overtakes`: what follows a bulk kernel of such a level on the
  border stream, with nothing on the legacy stream between, shares at most ghost nodes with it, and then it scatters
  (`Beside`, `BesideOnGhosts`). `Events`: as long as the wait for the event is pending, the event is pending behind all that was
  issued on the border stream before it, and likewise the wait in front of the bulk kernel; so a bulk
  kernel never starts before the border it waits for (`HeldBy`).
* Operations that one on the legacy stream divides cannot both be ready. Of two others that conflict one is on the
  border stream and one on the bulk stream (`Streams`); the later one is not the bulk kernel by
  `Events`, and `OnlyBulkOvertaken` follows from `Overtakes`. For `CommunicationHidden`: nothing was issued on the legacy stream after the kernel of the bulk of
  this collision (`Bulks`), so only operations of the bulk stream wait for it, directly or not (`BulkWaitsAlone`; that
  the recursion of `Before` ends is `BeforeEnds`), and the host waits for those of the border.
* For the refinement a second walk, of an odometer, counts for every level how often the next finer
  one was advanced since the two were coupled (`Turns`, `GridTurns`): twice, then the coupling, then the level itself.
  `Nesting` connects the odometer to the counters of
  `NestedTimeStepping`; `CountMade` carries it along the program and from one coarse step to the next.

`GpuHalo_proofs` proves for every grid of sub-domains, periodic or not, every width, interface and
number of steps, with and without streams and buffering:

* `Typing` - `TypeOK`, for all of them;
* `Agreement` - `NeighboursAgree`, if `ToldByParity` and `Guessed` hold of the grid;
* `Freshness` - `GhostsFresh`, if also `Carried` and `Patched` hold (`Suitable`);
* `NoWaiting` - `NoCircularWait`, if `ToldByParity`, `Guessed` and `NoRingAtStart` hold;
* `OneLevel` - all three on a grid without refinement, if the ranks of a process that is the neighbour
  on both sides of an axis differ by an odd number (`PairsDiffer`), and the sub-domains have two nodes
  per axis or more when streams are used. Here the conditions are about the input alone.

The properties do not hold for all grids: nothing in the code checks what they rest on. The
conditions, at the end of `GpuHalo`, are about the grid, the interface and the order of the
ranks, never about a state, and each of the exceptions in section 5 fails one of them:

| condition | says | fails for |
|---|---|---|
| `ToldByParity` | a process that is the neighbour on both sides has a rank of the other parity | `PeriodicInY` |
| `Guessed` | a process finds the end of the positions it is told | `LastIsFirst`, `ManyToFew`, `RefinedRing` |
| `Carried` | the interpolated nodes of a layer, settled on the later axes, are in its front part | `AcrossTheCorner` |
| `Patched` | with streams, an edge node has one place to be copied from and one to be copied to, also among the front parts | `ThinInY` |
| `NoRingAtStart` | no periodic axis of a refined grid has three sub-domains or more | `RefinedRing` |

All setups of `gpu_halo` fulfil all of them (`SuitableGrids`, an assumption TLC evaluates).
They are sufficient; whether each is necessary is not proved. Their definitions unfold `FrontPart`, `Trimmed`
and the lists of `SubDomains`, so for a given interface TLC evaluates them at once.

None of the properties is inductive. The argument has three parts.

* *The constants.* A box is numbered with `x` as the fastest coordinate, and `Place` and `Number` are
  inverse (`PlaceInBox`, `NumberOfPlace`). A neighbour has this process as its own on the other
  side (`NeighborIs`) and on other axes the same place and size (`SameOnOtherAxes`); so the layers they share are
  numbered alike and the `k`-th nodes are the same node of the grid (`LayersAgree`), across periodic borders too. Lists are
  rearranged without loss or repetition (`PickedInjects`, `FrontPartInjects`).
* *The invariant* (`Inv`), whose parts say everything of the state by how far each process has come,
  its place in the start-up, or its exchange and axis. `TypeInv`: the counters that can go together,
  and the shapes of lists and buffers. `ListsAre`: a layer that was told and heard has the lists `SendList` and
  `RecvList`, which are constants, so two neighbours have the same nodes in the same
  order. `ChannelsAre`: the messages of a layer are numbered, the positions first, then one
  per exchange; a channel holds the numbers that one has sent and the other not received, in order,
  each with the right content (`RightMessage`). As messages carry no tag, the two
  layers of a process that is the neighbour on both sides share a channel and alternate (`LayerOf`);
  `ToldByParity` makes both ends alternate alike. `HostsAre`: before axis `a` of exchange `e`
  all own nodes and the ghost nodes received so far have their value of exchange `e`, those that are not
  settled one of `e - 1` or `e` (`Right`). A node counts as `Settled` from the axis on after which it lies inside:
  that is why values reach edges and corners in two and three hops. With streams all layers are collected before
  the first axis, so what was received since has to be copied into them (`EdgesFound`).
* *Waiting.* A process that is behind all others, or one that it faces, can go on (`LeastElement`). At start-up the least
  in the order of axes and of places on the axis is taken (`StartGoesOn`); in a ring of three or more
  there is no order of places in which neighbours are next to each other. In an exchange (`ExchangeGoesOn`)
  `Progress` is four times the exchange plus the axis; the receives of an axis are posted before its sends, so the least
  process finds its neighbours' receives posted or its own messages there (`CanSend`, `CanReceive`).

Typing, lists, channels and buffers are kept by each of the five things a step can do (`Telling`, `Hearing`, `Beginning`,
`Sending`, `Receiving`), to which `StepEffect` reduces the actions.

Only model-checked: liveness (`AllRanksFinish`, `AllRoundsEnd`, `SimulationEnds`), which
rests on fairness and is out of the prover's reach.

## 5. Findings

* `Simulation::run` computes `maxInitLevel = maxLevel - minLevel`
  (`Simulation.cpp:255`) but uses it as a level. On a grid whose coarsest level is
  not 0 the finest levels never take a step, although the comment at line 285
  says "do collision for all blocks". Run `simulation_fine`.
* When a key is taken, `allocVectorData` throws out of the constructor of the
  transmitter. On the way out the transmitter's `CbVector` is destroyed, and its
  destructor takes the key - the *first* vector's - out of the pool's map
  (`CbVectorPool.h:182`). The first vector then is no longer renewed when the pool
  moves, and its own destructor throws. Run `vector_pool_twice`.
* After the interpolation from fine to coarse the GPU processes exchange "only nodes
  which are part of the interpolation" (`RefinementStrategy.cpp:94`), but not all of them.
  A ghost node in a corner gets its value from the diagonal process, by way of a third
  one. That one moves to the front of its lists what it interpolates itself
  (`IndexRearrangementForStreams.cpp:382`). An interpolated node in its ghost layer is
  not among these: of the fine cell around it the outer half lies beyond the fine ghost
  nodes, and `repairGridInterfaceOnMultiGPU` has dropped it. The ghost node in the corner
  keeps the value from before the interpolation. It takes two decomposed axes
  and an interface that crosses an edge between sub-domains; exchanging all nodes
  (`useReducedCommunicationAfterFtoC = false`) avoids it. Run `gpu_halo_interface`.
* `copyEdgeNodes` (`ExchangeData27.cpp:115`) declares the variables its parallel loop
  writes outside of the loop: the threads share them. Run `copy_edge_nodes`.

Met while modelling, without a run (the instances named are in `MCGpuHalo` and
`MCGpuStreams`; put in the place of `Grids`, or of the invariant, TLC shows what is described):

* With two or more sub-domains per axis and a periodic axis with exactly two, the
  two messages between the same two processes are told apart by the order in which
  each lists its neighbours. `GridGenerator.cpp:553` reverses it on odd ranks;
  the two processes have ranks of the same parity when the axis is Y or Z and the
  number of sub-domains in front of it is even. The layers then end on the wrong
  sides: `GhostsFresh` fails with `PeriodicInY`.
* At start-up each process exchanges positions with one neighbour after the other, and
  waits for the answer (`MPICommunicator.cpp:219-227`). On a periodic axis with three or more
  sub-domains all begin with the neighbour on the low side, which answers when it has
  come to its high side: nobody goes on. `NoCircularWait` fails with `RefinedRing`.
* The positions are received in a vector of twice the own number
  (`IndexRearrangementForStreams.cpp:145`). If the neighbour has more, MPI ends the
  program (`NoCircularWait` with `ManyToFew`); if it has exactly as many, the last is lost
  (`IndexRearrangementForStreamsTest.cpp:326`: "this test shows the limits of the current
  approach. The last index is always deleted").
* A list of positions that ends with 0 loses this position (line 158), and the
  two lists no longer agree (`NeighboursAgree` with `LastIsFirst`). The test
  `zeroRecvIndexX` takes this for right.
* With sub-domains of one node per axis an edge node is in the send layers of both sides of an
  axis. `findIndexInSendNodes` (`EdgeNodeFinder.cpp:98`) stops at the first layer it finds it in, so with streams the other is
  sent as it was collected: `GhostsFresh` fails with `ThinInY`. (No simulation would be cut
  this thin; the proof of `EdgesFound` needs the condition.)
* Whether all nodes or the front parts are being exchanged is told from the first
  neighbour of an axis (`ExchangeData27.cpp:295`); if its front part is its whole list,
  a reduced exchange looks like one of all nodes to all neighbours on this axis.
* With streams the bulk kernel and the scattering of the same time step both write ghost nodes,
  and nothing orders the two. The list of the bulk kernel is all fluid nodes but those that
  are sent (`GridImp.cpp:965-1010`); received nodes are fluid (`limitToSubDomain` keeps a layer for them, line 1248,
  and `findCommunicationIndices`, lines 1778-1784, leaves out stoppers). The bulk kernels run on their stream
  (`CollisisionStrategy.cpp:121-130`), the scattering on the other (line 132); the only event orders the collecting before the
  bulk, and the boundary conditions come after both. A bulk kernel that ends late overwrites what was
  received; usually it has ended by then, as the exchange goes through the host and the network. TLC shows it with
  `InProgramOrder` (in `MCGpuStreams`) as the invariant, in set-ups with boundary nodes on all levels
  too. `OnlyBulkOvertaken` allows this and says that on levels with boundary nodes there is nothing else.
* On a level without boundary nodes no
  kernel is launched on the legacy stream between two steps, and the border kernel of
  a step may start while the bulk kernel of the step before still runs. TLC shows it if the premise
  about boundary nodes is left out of `OnlyBulkOvertaken`.
  `CollisionStrategy.h` recommends this strategy for all multi-GPU simulations.
* `RefinementStrategy.cpp:123-124` launches the bulk interpolation on the stream of the
  border, so it is not hidden behind communication; the event recorded for the bulk
  stream has no use there.
* A restart file of the GPU solver does not contain `isEvenTimestep`
  (`PreProcessorImp.cpp:56`); restarting at an odd coarse step reads the arrays in the
  wrong order.
* A CPU user who restarts behind the step in `cp.txt` (`backward`) has, until the new job
  reaches that step, a `cp.txt` that names an older future, and from the moment that job
  writes the step again until it ends, one that names an incomplete checkpoint.
* A process without blocks writes an uninitialised `dataSetParam` and `arrPresence`
  (`MPIIORestartSimulationObserver.cpp:172,186`), and whoever comes last decides what
  `cpArrays.bin` holds.
* The files are written with `MPI_DOUBLE` at offsets computed from `sizeof(real)`
  (line 359): in single precision regions overlap.

## 6. Not modelled, and the plan

Done of the plan: the CPU time loop and its layers down to the distributions, the
pools, checkpoint and restart, the GPU time loop, its streams and its halo exchange, with that of interface nodes only.

What remains, in order of worth:

1. The migration observers: the same files, placed by global block ID.
2. Wiring: keys and MPI tags made by `CreateTransmittersHelper` as sets (a tag conflict
   needs thirteen levels).
3. Schedulers that are asked for times out of order (nothing in the time loop does), and
   the scheduler of the additional ghost update of `Simulation`, there still a set.

Left out for good: the numerics of kernels and boundary conditions (floating
point), the visitors that build the block tree (they run once, in one thread, before
the time loop), geometry and grid generation (algorithms over large arrays, no
protocol), writers (file formats), turbulence models, samplers and actuators,
configuration and bindings (set-up without state), wrappers of MPI and Metis, and
everything vendored. They are most of the lines of the repository.
