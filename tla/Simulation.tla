----------------------------- MODULE Simulation -----------------------------
(***************************************************************************)
(* The time loop of the CPU solver: class Simulation, one object on every  *)
(* MPI rank (src/cpu/core/Simulation/Simulation.cpp), and the connectors   *)
(* it drives.                                                              *)
(*                                                                         *)
(* The blocks of one level on one rank move together: inside a loop over   *)
(* blocks the OpenMP threads touch disjoint blocks, so the loop is one     *)
(* step.  Distributions are abstracted to a version: the number of the     *)
(* time step they belong to and the stage of that step.  A ghost layer     *)
(* holds the version it was copied from.                                   *)
(*                                                                         *)
(* Connectors of the same kind between two ranks share one transmitter     *)
(* pool and so one MPI message (MpiPool.tla); a pool is written            *)
(* <<source rank, source level, target rank, target level>>, the four      *)
(* parts of CreateTransmittersHelper::generatePoolKey.  MPI_Send may       *)
(* return at once (the pools in eager) or only when the receiver has       *)
(* posted its MPI_Irecv; every run explores the choices in EagerChoices.   *)
(***************************************************************************)
EXTENDS Integers, Sequences, FiniteSets

CONSTANTS
  Ranks,              \* MPI ranks
  MinLevel,           \* Grid3D::getCoarsestInitializedLevel()
  MaxLevel,           \* Grid3D::getFinestInitializedLevel()
  Adjacent,           \* {<<l, r, s>>}: r has an active block of level l next to one of s
  Refined,            \* {<<l, r, s>>}: r has a block of level l next to one of level l + 1 on s
  Mixed,              \* {<<l, r>>}: r's coarse-to-fine connectors of level l are remote ones
  StartTimeStep,      \* first step: Grid3D::getTimeStep() + 1
  NumberOfTimeSteps,  \* last step
  GhostUpdateSteps,   \* steps at which additionalGhostLayerUpdateScheduler is due
  MayThrow,           \* ranks on which an observer may throw
  EagerChoices,       \* sets of pools whose messages MPI buffers
  Shl,                \* Shl[k] = 1 << k
  None

MaxInitLevel == MaxLevel - MinLevel    \* as Simulation::run computes it

ASSUME LevelAssumption ==
  /\ MinLevel \in Nat /\ MaxLevel \in Nat
  /\ MinLevel =< MaxInitLevel     \* the shift count of internalIterations is not negative

ASSUME ShiftAssumption ==
  /\ Shl \in [0 .. MaxLevel -> Nat]
  /\ Shl[0] = 1
  /\ \A k \in 0 .. MaxLevel - 1 : Shl[k + 1] = 2 * Shl[k]

ASSUME StepAssumption ==
  /\ StartTimeStep \in Nat /\ NumberOfTimeSteps \in Nat
  /\ StartTimeStep =< NumberOfTimeSteps

ASSUME TopologyAssumption ==
  /\ Adjacent \subseteq (MinLevel .. MaxLevel) \X Ranks \X Ranks
  /\ \A a \in Adjacent : <<a[1], a[3], a[2]>> \in Adjacent
  /\ Refined \subseteq (MinLevel .. MaxLevel - 1) \X Ranks \X Ranks
  /\ Mixed \subseteq (MinLevel .. MaxLevel - 1) \X Ranks
  /\ None \notin (Ranks \X (MinLevel .. MaxLevel) \X Ranks \X (MinLevel .. MaxLevel))

Levels             == MinLevel .. MaxLevel
Interfaces         == MinLevel .. MaxLevel - 1
Refinement         == MaxLevel > 0

\* Faulty variant: linear instead of exponential in the number of levels.
LinearIterations   == 1 + MaxInitLevel - MinLevel
InternalIterations == Shl[MaxInitLevel - MinLevel]

VARIABLES
  pc,                 \* where each rank is in Simulation::run
  calcStep, staggeredStep, straightStartLevel, threshold,
  lvl,                \* level of the loop a rank is in
  return,             \* where a rank continues after exchangeBlockData
  unsent, sending,    \* pools connectorsSendRemote has still to send; the one inside MPI_Send
  dist,               \* dist[r][l]: version of the distributions
  halo,               \* halo[r][l][s]: version of r's ghost layers next to blocks of s
  iface,              \* iface[p]: version of the interface values last distributed from pool p
  coupled,            \* coupled[r][l]: dist step at which r last interpolated across l
  posted,             \* pools with an outstanding MPI_Irecv
  net,                \* net[p]: messages sent and not yet received, or the local buffer
  eager               \* pools whose MPI_Send does not wait for the receiver

control == <<calcStep, staggeredStep, straightStartLevel, threshold>>
data    == <<dist, halo, iface, coupled>>
mpi     == <<posted, net>>
vars    == <<pc, control, lvl, return, unsent, sending, data, mpi, eager>>

-----------------------------------------------------------------------------
(* Pools *)

SamePools  == { <<a[2], a[1], a[3], a[1]>> : a \in { b \in Adjacent : b[2] # b[3] } }
CFPools    == { <<a[2], a[1], a[3], a[1] + 1>> : a \in Refined }    \* coarse to fine
FCPools    == { <<a[3], a[1] + 1, a[2], a[1]>> : a \in Refined }    \* fine to coarse
InterPools == CFPools \cup FCPools
Pools      == SamePools \cup InterPools

Source(p)     == p[1]
Target(p)     == p[3]
InterfaceOf(p) == IF p[2] < p[4] THEN p[2] ELSE p[4]
IsLocal(p)    == p[1] = p[3]         \* TbLocalTransmitter: a shared buffer
RemotePools   == { p \in Pools : ~IsLocal(p) }

ASSUME EagerAssumption == EagerChoices \subseteq SUBSET Pools

SameOut(r, l)  == { p \in SamePools : Source(p) = r /\ p[2] = l }
SameIn(r, l)   == { p \in SamePools : Target(p) = r /\ p[2] = l }
InterOut(r, l) == { p \in InterPools : Source(p) = r /\ InterfaceOf(p) = l }
InterIn(r, l)  == { p \in InterPools : Target(p) = r /\ InterfaceOf(p) = l }

\* A coarse-to-fine connector serves up to four fine blocks and is remote as
\* soon as one of them is.  It then sits in remoteInterConns, although it also
\* fills and reads the local buffers it shares with fine blocks of its rank.
InMixedConnector(p) == IsLocal(p) /\ <<InterfaceOf(p), Source(p)>> \in Mixed
SentByRemote(p)     == ~IsLocal(p) \/ (p \in CFPools /\ InMixedConnector(p))
ReceivedByRemote(p) == ~IsLocal(p) \/ (p \in FCPools /\ InMixedConnector(p))

LocalInterOut(r, l)  == { p \in InterOut(r, l) : ~SentByRemote(p) }
RemoteInterOut(r, l) == { p \in InterOut(r, l) : SentByRemote(p) }
LocalInterIn(r, l)   == { p \in InterIn(r, l) : ~ReceivedByRemote(p) }
RemoteInterIn(r, l)  == { p \in InterIn(r, l) : ReceivedByRemote(p) }

-----------------------------------------------------------------------------
(* Versions and messages *)

Stages  == {"preBC", "collided", "postBC", "swapped"}
Version == [step : Nat, stage : Stages]
Order   == [step |-> 0, stage |-> "order"]      \* the sizes and keys of a pool's vectors
Message == Version \cup {Order}
Initial == [step |-> 0, stage |-> "swapped"]    \* InitDistributionsBlockVisitor, ghost nodes included

Goto(r, place) == pc' = [pc EXCEPT ![r] = place]

Places == {"sizeSend", "sizeReceive", "interSizeSend", "interSizeReceive",
           "select", "threshold", "preBC", "calculate",
           "sendLocal", "prepareRemote", "sendRemote", "receiveRemote",
           "postBC", "swap", "interPrepare", "interSendLocal", "interSendRemote",
           "interReceiveLocal", "interReceiveRemote", "endSubstep", "notify",
           "finished", "stopped"}

Init ==
  /\ pc = [r \in Ranks |-> "sizeSend"]
  /\ calcStep = [r \in Ranks |-> StartTimeStep]
  /\ staggeredStep = [r \in Ranks |-> 1]
  /\ straightStartLevel = [r \in Ranks |-> MinLevel]
  /\ threshold = [r \in Ranks |-> 1]
  /\ lvl = [r \in Ranks |-> MinLevel]
  /\ return = [r \in Ranks |-> "postBC"]
  /\ unsent = [r \in Ranks |-> {}]
  /\ sending = [r \in Ranks |-> None]
  /\ dist = [r \in Ranks |-> [l \in Levels |-> Initial]]
  /\ halo = [r \in Ranks |-> [l \in Levels |-> [s \in Ranks |-> Initial]]]
  /\ iface = [p \in InterPools |-> Initial]
  /\ coupled = [r \in Ranks |-> [l \in Interfaces |-> 0]]
  /\ posted = {}
  /\ net = [p \in Pools |-> IF IsLocal(p) THEN <<Initial>> ELSE <<>>]
  /\ eager \in EagerChoices

-----------------------------------------------------------------------------
(* Simulation::initRemoteConnectors: every pool tells its partner how its   *)
(* vectors are laid out.  The sends are MPI_Isend, the receives MPI_Recv.   *)

SendOrders(ps) ==
  net' = [p \in Pools |-> IF p \in ps THEN Append(net[p], Order) ELSE net[p]]

ReceiveOrders(ps) ==
  /\ \A p \in ps : net[p] # <<>>
  /\ net' = [p \in Pools |-> IF p \in ps THEN Tail(net[p]) ELSE net[p]]

SizeSend(r) ==
  /\ pc[r] = "sizeSend"
  /\ SendOrders(SameOut(r, lvl[r]))
  /\ Goto(r, "sizeReceive")
  /\ UNCHANGED <<control, lvl, return, unsent, sending, data, posted, eager>>

\* Same-level pools are initialised level by level.
SizeReceive(r) ==
  /\ pc[r] = "sizeReceive"
  /\ ReceiveOrders(SameIn(r, lvl[r]))
  /\ IF lvl[r] < MaxLevel
       THEN Goto(r, "sizeSend") /\ lvl' = [lvl EXCEPT ![r] = @ + 1]
       ELSE Goto(r, "interSizeSend") /\ UNCHANGED lvl
  /\ UNCHANGED <<control, return, unsent, sending, data, posted, eager>>

\* For the interpolation pools all levels send before any level receives.
InterSizeSend(r) ==
  /\ pc[r] = "interSizeSend"
  /\ SendOrders({ p \in InterPools : Source(p) = r /\ ~IsLocal(p) })
  /\ Goto(r, "interSizeReceive")
  /\ UNCHANGED <<control, lvl, return, unsent, sending, data, posted, eager>>

InterSizeReceive(r) ==
  /\ pc[r] = "interSizeReceive"
  /\ ReceiveOrders({ p \in InterPools : Target(p) = r /\ ~IsLocal(p) })
  /\ Goto(r, "select")
  /\ UNCHANGED <<control, lvl, return, unsent, sending, data, posted, eager>>

-----------------------------------------------------------------------------
(* Simulation::run: which levels take a step.  After staggered step s the   *)
(* levels finer than straightStartLevel have made an even number of steps.  *)

Select(r) ==
  /\ pc[r] = "select"
  /\ IF staggeredStep[r] = InternalIterations
       THEN /\ straightStartLevel' = [straightStartLevel EXCEPT ![r] = MinLevel]
            /\ Goto(r, "preBC")
            /\ UNCHANGED threshold
       ELSE /\ straightStartLevel' = [straightStartLevel EXCEPT ![r] = MaxInitLevel]
            /\ threshold' = [threshold EXCEPT ![r] = 1]
            /\ Goto(r, "threshold")
  /\ UNCHANGED <<calcStep, staggeredStep, lvl, return, unsent, sending, data, mpi, eager>>

\* Faulty variants: the search is left out; the bit above is tested.
NoSearch(r) == TRUE
BitAbove(r) == (staggeredStep[r] \div (2 * threshold[r])) % 2 = 1

\* (staggeredStep & threshold) == threshold, threshold being a power of two
BitIsSet(r) == (staggeredStep[r] \div threshold[r]) % 2 = 1

\* One test of the for loop that searches the lowest set bit.
Threshold(r) ==
  /\ pc[r] = "threshold"
  /\ IF BitIsSet(r)
       THEN Goto(r, "preBC") /\ UNCHANGED <<straightStartLevel, threshold>>
       ELSE /\ straightStartLevel' = [straightStartLevel EXCEPT ![r] = @ - 1]
            /\ threshold' = [threshold EXCEPT ![r] = 2 * @]
            /\ UNCHANGED pc
  /\ UNCHANGED <<calcStep, staggeredStep, lvl, return, unsent, sending, data, mpi, eager>>

-----------------------------------------------------------------------------
(* Boundary conditions, kernels and the swap of the distributions *)

ActiveLevels(r) == straightStartLevel[r] .. MaxInitLevel

SetStage(r, stage) ==
  dist' = [dist EXCEPT ![r] =
             [l \in Levels |-> IF l \in ActiveLevels(r)
                                 THEN [step |-> dist[r][l].step, stage |-> stage]
                                 ELSE dist[r][l]]]

\* Enters a loop over the levels from straightStartLevel on.
EnterLevelLoop(r, place) ==
  /\ Goto(r, place)
  /\ lvl' = [lvl EXCEPT ![r] = straightStartLevel[r]]

PreCollisionBC(r) ==
  /\ pc[r] = "preBC"
  /\ SetStage(r, "preBC")
  /\ EnterLevelLoop(r, "calculate")
  /\ UNCHANGED <<control, return, unsent, sending, halo, iface, coupled, mpi, eager>>

\* calculateBlocks, the blocks of one level: collision and streaming.
Calculate(r) ==
  /\ pc[r] = "calculate"
  /\ dist' = [dist EXCEPT ![r][lvl[r]] = [step |-> @.step + 1, stage |-> "collided"]]
  /\ IF lvl[r] < MaxInitLevel
       THEN lvl' = [lvl EXCEPT ![r] = @ + 1] /\ UNCHANGED <<pc, return>>
       ELSE EnterLevelLoop(r, "sendLocal") /\ return' = [return EXCEPT ![r] = "postBC"]
  /\ UNCHANGED <<control, unsent, sending, halo, iface, coupled, mpi, eager>>

PostCollisionBC(r) ==
  /\ pc[r] = "postBC"
  /\ SetStage(r, "postBC")
  /\ Goto(r, "swap")
  /\ UNCHANGED <<control, lvl, return, unsent, sending, halo, iface, coupled, mpi, eager>>

\* Faulty variant: the second exchange is left out.
SwapWithoutExchange(r) ==
  /\ pc[r] = "swap"
  /\ SetStage(r, "swapped")
  /\ Goto(r, IF Refinement /\ straightStartLevel[r] < MaxInitLevel THEN "interPrepare" ELSE "endSubstep")
  /\ UNCHANGED <<control, lvl, return, unsent, sending, halo, iface, coupled, mpi, eager>>

\* swapDistributions; with refinement the ghost nodes are then brought up to
\* date before interpolation reads them, unless only the finest level moved.
SwapDistributions(r) ==
  /\ pc[r] = "swap"
  /\ SetStage(r, "swapped")
  /\ IF Refinement /\ straightStartLevel[r] < MaxInitLevel
       THEN EnterLevelLoop(r, "sendLocal") /\ return' = [return EXCEPT ![r] = "interPrepare"]
       ELSE Goto(r, "endSubstep") /\ UNCHANGED <<lvl, return>>
  /\ UNCHANGED <<control, unsent, sending, halo, iface, coupled, mpi, eager>>

-----------------------------------------------------------------------------
(* exchangeBlockData, one level after the other *)

\* connectorsSendLocal: direct copies between blocks of the same rank.
SendLocal(r) ==
  /\ pc[r] = "sendLocal"
  /\ halo' = IF <<lvl[r], r, r>> \in Adjacent
               THEN [halo EXCEPT ![r][lvl[r]][r] = dist[r][lvl[r]]]
               ELSE halo
  /\ Goto(r, "prepareRemote")
  /\ UNCHANGED <<control, lvl, return, unsent, sending, dist, iface, coupled, mpi, eager>>

\* MPI_Waitall on the requests of sendDataOrder.
OrdersDelivered(ps) ==
  \A p \in ps : IsLocal(p) \/ p \in eager \/ \A i \in DOMAIN net[p] : net[p][i] # Order

\* Faulty variant: no receive is posted before the sends.
PrepareSendOnly(r) ==
  /\ pc[r] = "prepareRemote"
  /\ OrdersDelivered(SameOut(r, lvl[r]))
  /\ unsent' = [unsent EXCEPT ![r] = SameOut(r, lvl[r])]
  /\ Goto(r, "sendRemote")
  /\ UNCHANGED <<control, lvl, return, sending, data, mpi, eager>>

\* connectorsPrepareRemote: MPI_Irecv for every pool to receive.
PrepareRemote(r) ==
  /\ pc[r] = "prepareRemote"
  /\ OrdersDelivered(SameOut(r, lvl[r]))
  /\ posted' = posted \cup SameIn(r, lvl[r])
  /\ unsent' = [unsent EXCEPT ![r] = SameOut(r, lvl[r])]
  /\ Goto(r, "sendRemote")
  /\ UNCHANGED <<control, lvl, return, sending, data, net, eager>>

\* fillSendVectors and the call of MPI_Send for one pool.
SendBegin(r) ==
  /\ pc[r] \in {"sendRemote", "interSendRemote"}
  /\ sending[r] = None
  /\ \E p \in unsent[r] : sending' = [sending EXCEPT ![r] = p]
  /\ UNCHANGED <<pc, control, lvl, return, unsent, data, mpi, eager>>

MaySend(p) == IsLocal(p) \/ p \in eager \/ (p \in posted /\ net[p] = <<>>)

Put(p, v) == IF IsLocal(p) THEN <<v>> ELSE Append(net[p], v)

\* The return of MPI_Send: buffered, or matched by the receiver's MPI_Irecv.
SendReturn(r) ==
  /\ pc[r] \in {"sendRemote", "interSendRemote"}
  /\ sending[r] # None
  /\ MaySend(sending[r])
  /\ net' = [net EXCEPT ![sending[r]] = Put(sending[r], dist[r][sending[r][2]])]
  /\ unsent' = [unsent EXCEPT ![r] = @ \ {sending[r]}]
  /\ sending' = [sending EXCEPT ![r] = None]
  /\ UNCHANGED <<pc, control, lvl, return, data, posted, eager>>

\* connectorsSendRemote has gone through all connectors of its list.
SendsDone(r) ==
  /\ pc[r] = "sendRemote"
  /\ unsent[r] = {}
  /\ Goto(r, "receiveRemote")
  /\ UNCHANGED <<control, lvl, return, unsent, sending, data, mpi, eager>>

Delivered(p) == p \in posted /\ net[p] # <<>>

\* Faulty variant: the message is tested for, not waited for.
TestInsteadOfWait(ps) == TRUE

\* MPI_Wait returns when the message of a posted request has arrived, and at
\* once if no request is posted.
Arrived(ps) == \A p \in ps \cap posted : Delivered(p)

Consume(ps) ==
  /\ net' = [p \in Pools |-> IF p \in ps /\ Delivered(p) THEN Tail(net[p]) ELSE net[p]]
  /\ posted' = posted \ ps

\* Faulty variant: the loop over the levels ends one level early.
ExchangeTooShort(r) == lvl[r] < MaxInitLevel - 1

MoreToExchange(r) == lvl[r] < MaxInitLevel

\* connectorsReceiveRemote: the received vectors go into the ghost layers.
ReceiveRemote(r) ==
  LET l == lvl[r]
  IN  /\ pc[r] = "receiveRemote"
      /\ Arrived(SameIn(r, l))
      /\ halo' = [halo EXCEPT ![r][l] =
                    [s \in Ranks |-> IF <<s, l, r, l>> \in SameIn(r, l) /\ Delivered(<<s, l, r, l>>)
                                       THEN Head(net[<<s, l, r, l>>])
                                       ELSE @[s]]]
      /\ Consume(SameIn(r, l))
      /\ IF MoreToExchange(r)
           THEN lvl' = [lvl EXCEPT ![r] = @ + 1] /\ Goto(r, "sendLocal")
           ELSE Goto(r, return[r]) /\ UNCHANGED lvl
      /\ UNCHANGED <<control, return, unsent, sending, dist, iface, coupled, eager>>

-----------------------------------------------------------------------------
(* interpolation: all interfaces prepare, then all send, then all receive *)

\* Faulty variant: the coarsest interface is left out.
InterfacesAbove(r) == straightStartLevel[r] + 1 .. MaxInitLevel - 1

ActiveInterfaces(r) == straightStartLevel[r] .. MaxInitLevel - 1

InterPrepare(r) ==
  LET ins  == UNION { InterIn(r, l) : l \in ActiveInterfaces(r) }
      outs == UNION { InterOut(r, l) : l \in ActiveInterfaces(r) }
  IN  /\ pc[r] = "interPrepare"
      /\ OrdersDelivered(outs)
      /\ posted' = posted \cup { p \in ins : ~IsLocal(p) }
      /\ EnterLevelLoop(r, "interSendLocal")
      /\ UNCHANGED <<control, return, unsent, sending, data, net, eager>>

\* connectorsSendLocal(localInterConns[l]): fill the buffers both sides share.
InterSendLocal(r) ==
  LET ps == LocalInterOut(r, lvl[r])
  IN  /\ pc[r] = "interSendLocal"
      /\ net' = [p \in Pools |-> IF p \in ps THEN <<dist[r][p[2]]>> ELSE net[p]]
      /\ unsent' = [unsent EXCEPT ![r] = RemoteInterOut(r, lvl[r])]
      /\ Goto(r, "interSendRemote")
      /\ UNCHANGED <<control, lvl, return, sending, data, posted, eager>>

\* connectorsSendRemote(remoteInterConns[l]) has gone through its list.
InterSendsDone(r) ==
  /\ pc[r] = "interSendRemote"
  /\ unsent[r] = {}
  /\ IF lvl[r] < MaxInitLevel - 1
       THEN lvl' = [lvl EXCEPT ![r] = @ + 1] /\ Goto(r, "interSendLocal")
       ELSE EnterLevelLoop(r, "interReceiveLocal")
  /\ UNCHANGED <<control, return, unsent, sending, data, mpi, eager>>

\* connectorsReceiveLocal(localInterConns[l])
InterReceiveLocal(r) ==
  LET ps == LocalInterIn(r, lvl[r])
  IN  /\ pc[r] = "interReceiveLocal"
      /\ iface' = [p \in InterPools |-> IF p \in ps THEN Head(net[p]) ELSE iface[p]]
      /\ Goto(r, "interReceiveRemote")
      /\ UNCHANGED <<control, lvl, return, unsent, sending, dist, halo, coupled, mpi, eager>>

\* connectorsReceiveRemote(remoteInterConns[l])
InterReceiveRemote(r) ==
  LET l  == lvl[r]
      ps == { p \in RemoteInterIn(r, l) : ~IsLocal(p) }
  IN  /\ pc[r] = "interReceiveRemote"
      /\ Arrived(ps)
      /\ iface' = [p \in InterPools |->
                     IF p \in RemoteInterIn(r, l) /\ (IsLocal(p) \/ Delivered(p))
                       THEN Head(net[p]) ELSE iface[p]]
      /\ Consume(ps)
      /\ coupled' = [coupled EXCEPT ![r][l] = dist[r][l].step]
      /\ IF l < MaxInitLevel - 1
           THEN lvl' = [lvl EXCEPT ![r] = @ + 1] /\ Goto(r, "interReceiveLocal")
           ELSE Goto(r, "endSubstep") /\ UNCHANGED lvl
      /\ UNCHANGED <<control, return, unsent, sending, dist, halo, eager>>

-----------------------------------------------------------------------------
(* The end of a staggered step and of a time step *)

EndSubstep(r) ==
  /\ pc[r] = "endSubstep"
  /\ IF staggeredStep[r] < InternalIterations
       THEN /\ staggeredStep' = [staggeredStep EXCEPT ![r] = @ + 1]
            /\ Goto(r, "select")
            /\ UNCHANGED <<lvl, return>>
       ELSE /\ IF calcStep[r] \in GhostUpdateSteps
                 THEN /\ EnterLevelLoop(r, "sendLocal")
                      /\ return' = [return EXCEPT ![r] = "notify"]
                 ELSE Goto(r, "notify") /\ UNCHANGED <<lvl, return>>
            /\ UNCHANGED staggeredStep
  /\ UNCHANGED <<calcStep, straightStartLevel, threshold, unsent, sending, data, mpi, eager>>

\* notifyObservers, and the test of the loop over the time steps.
Notify(r) ==
  /\ pc[r] = "notify"
  /\ calcStep' = [calcStep EXCEPT ![r] = @ + 1]
  /\ staggeredStep' = [staggeredStep EXCEPT ![r] = 1]
  /\ Goto(r, IF calcStep[r] < NumberOfTimeSteps THEN "select" ELSE "finished")
  /\ UNCHANGED <<straightStartLevel, threshold, lvl, return, unsent, sending, data, mpi, eager>>

\* An observer throws: run() logs the exception and returns to its caller.
Throw(r) ==
  /\ pc[r] = "notify"
  /\ r \in MayThrow
  /\ Goto(r, "stopped")
  /\ UNCHANGED <<control, lvl, return, unsent, sending, data, mpi, eager>>

Step(r) ==
  \/ SizeSend(r) \/ SizeReceive(r) \/ InterSizeSend(r) \/ InterSizeReceive(r)
  \/ Select(r) \/ Threshold(r)
  \/ PreCollisionBC(r) \/ Calculate(r) \/ PostCollisionBC(r) \/ SwapDistributions(r)
  \/ SendLocal(r) \/ PrepareRemote(r) \/ SendBegin(r) \/ SendReturn(r) \/ SendsDone(r)
  \/ ReceiveRemote(r)
  \/ InterPrepare(r) \/ InterSendLocal(r) \/ InterSendsDone(r)
  \/ InterReceiveLocal(r) \/ InterReceiveRemote(r)
  \/ EndSubstep(r) \/ Notify(r)

Next == \E r \in Ranks : Step(r) \/ Throw(r)

\* Every rank is a process of its own, and MPI makes progress.
Fairness == \A r \in Ranks : WF_vars(Step(r))

Spec     == Init /\ [][Next]_vars
FairSpec == Spec /\ Fairness

-----------------------------------------------------------------------------
(* Properties *)

\* Every variable has its type; straightStartLevel, which indexes the block
\* and connector vectors, never leaves their range.
TypeOK ==
  /\ pc \in [Ranks -> Places]
  /\ calcStep \in [Ranks -> StartTimeStep .. NumberOfTimeSteps + 1]
  /\ staggeredStep \in [Ranks -> 1 .. InternalIterations]
  /\ straightStartLevel \in [Ranks -> MinLevel .. MaxInitLevel]
  /\ threshold \in [Ranks -> Nat \ {0}]
  /\ lvl \in [Ranks -> Levels]
  /\ return \in [Ranks -> {"postBC", "interPrepare", "notify"}]
  /\ unsent \in [Ranks -> SUBSET Pools]
  /\ sending \in [Ranks -> Pools \cup {None}]
  /\ dist \in [Ranks -> [Levels -> Version]]
  /\ halo \in [Ranks -> [Levels -> [Ranks -> Message]]]
  /\ iface \in [InterPools -> Message]
  /\ coupled \in [Ranks -> [Interfaces -> Nat]]
  /\ posted \subseteq RemotePools
  /\ net \in [Pools -> Seq(Message)]
  /\ eager \subseteq Pools

\* A block collides and streams only when each ghost layer next to another
\* block of its level holds what that block had after the same time step,
\* whatever the ranks and the messages have been doing meanwhile.
FreshAtCollision ==
  \A r, s \in Ranks :
    (pc[r] = "calculate" /\ <<lvl[r], r, s>> \in Adjacent)
      => halo[r][lvl[r]][s].step = dist[r][lvl[r]].step

\* At a collision the interface values a level took from its coarser or
\* finer neighbour belong to the last time both had in common, and they are
\* values of a finished step.
InterfaceFresh ==
  \A r \in Ranks : \A p \in InterPools :
    (pc[r] = "calculate" /\ Target(p) = r /\ p[4] = lvl[r])
      => /\ iface[p].stage = "swapped"
         /\ iface[p].step = IF p \in CFPools THEN dist[r][lvl[r]].step \div 2
                                             ELSE 2 * dist[r][lvl[r]].step

\* "now ghost nodes have actual values" (Simulation.cpp, before
\* interpolation): the nodes interpolation reads are of one version, on the
\* block itself and in its ghost layers.
GhostsActualAtInterpolation ==
  \A r, s \in Ranks : \A l \in Levels :
    (pc[r] = "interSendLocal" /\ l \in ActiveLevels(r) /\ <<l, r, s>> \in Adjacent)
      => halo[r][l][s] = dist[r][l]

\* When the observers are notified all levels stand at the time of the step
\* they are told: level l has made 2^(l - MinLevel) steps for every time step.
ObserversSeeOneTime ==
  \A r \in Ranks : pc[r] = "notify" =>
    \A l \in Levels :
      dist[r][l].step = (calcStep[r] - StartTimeStep + 1) * Shl[l - MinLevel]

\* No rank runs ahead of a neighbour by more than one step of their level,
\* also when the neighbour has stopped for good after an exception.
LockStep ==
  \A a \in Adjacent : dist[a[2]][a[1]].step =< dist[a[3]][a[1]].step + 1

\* When all ranks are through, every message has been received and no
\* receive is left open.
NothingInFlight ==
  (\A r \in Ranks : pc[r] = "finished")
    => posted = {} /\ \A p \in RemotePools : net[p] = <<>>

\* The loops of all ranks are nested time steppings.
Nested == INSTANCE NestedTimeStepping
            WITH Loops <- Ranks, Coarsest <- MinLevel, Finest <- MaxLevel,
                 steps <- [r \in Ranks |-> [l \in Levels |-> dist[r][l].step]]

NestedSteps == Nested!Spec

\* If no observer throws, every rank gets through all time steps: the order
\* of receives, sends and waits leaves no cycle, however MPI buffers.
AllRanksFinish ==
  [](\A r \in Ranks : pc[r] # "stopped") => <>(\A r \in Ranks : pc[r] = "finished")

=============================================================================
