----------------------------- MODULE GpuStreams -----------------------------
(***************************************************************************)
(* One process of the GPU solver with CUDA streams: what the host issues   *)
(* in a time step (UpdateGrid27::updateGrid, CollisionAndExchange_streams, *)
(* RefinementAndExchange_streams_exchangeAllNodes, ExchangeData27) and the *)
(* orders in which the device may execute it.                              *)
(*                                                                         *)
(* The nodes that are sent (the border) are collided on a stream of their  *)
(* own and exchanged, while all others are collided on another (the bulk   *)
(* kernel).  An event lets the bulk kernel wait for the border.  For the   *)
(* bulk kernel itself only the boundary conditions wait: they are launched *)
(* on the legacy stream, which waits for all other streams and which they  *)
(* wait for.  So two things run beside the bulk kernel although they work  *)
(* on the same nodes: the scattering of its own exchange, as the nodes     *)
(* that are received are fluid nodes like others; and, on a level without  *)
(* boundary nodes, what follows in the next time step.  OnlyBulkOvertaken  *)
(* says that there is nothing else.                                        *)
(*                                                                         *)
(* GpuHalo.tla takes the operations in the order in which the host issues  *)
(* them; with streams this leaves out these two.                           *)
(***************************************************************************)
EXTENDS Integers, Sequences, FiniteSets

CONSTANTS
  Fine,       \* finest level, the coarsest is 0
  Setups,     \* the configurations that are looked at
  MaxStep     \* bound: coarse time steps

\* A setup exchanges on some axes (those with a neighbour).  On some levels it
\* has boundary nodes of a kind that is treated after the collision, on some of
\* a kind that is treated before the next one.
Levels == 0 .. Fine
Axes   == {"X", "Y", "Z"}
ASSUME FineAssumption == Fine \in Nat
ASSUME SetupsAssumption == \A s \in Setups : /\ s.axes \subseteq Axes
                                             /\ s.postCollisionBC \subseteq Levels /\ s.preCollisionBC \subseteq Levels
ASSUME MaxStepAssumption == MaxStep \in Nat \ {0}

VARIABLES
  setup,
  step,       \* coarse time steps begun
  at,         \* the next statement of the host
  swaps,      \* swaps[l]: how often isEvenTimestep of level l has changed
  pending,    \* what was issued to the device and has not ended, in that order
  posted      \* receives <<level, axis>> that MPI may fill at any time

vars == <<setup, step, at, swaps, pending, posted>>

-----------------------------------------------------------------------------
(* The program of the host *)

Statement(do, stream, level, axis) == [do |-> do, stream |-> stream, level |-> level, axis |-> axis]

\* One statement for every axis with a neighbour, in the order X, Y, Z.
OnAxis(s, do, l, a)  == IF a \in s.axes THEN <<Statement(do, "border", l, a)>> ELSE << >>
ForAxes(s, do, l)    == OnAxis(s, do, l, "X") \o OnAxis(s, do, l, "Y") \o OnAxis(s, do, l, "Z")

\* Faulty variant: an axis without neighbours is skipped, its wait included.
ExchangeNeighborsOnly(s, l, a) ==
  IF a \notin s.axes THEN << >>
  ELSE <<Statement("download", "border", l, a), Statement("post", "host", l, a),
         Statement("synchronize", "border", l, a), Statement("send", "host", l, a),
         Statement("await", "host", l, a), Statement("upload", "border", l, a)>>
\* exchangeCollDataXGPU27 (Y, Z).
ExchangeCollData(s, l, a) ==
  IF a \notin s.axes THEN <<Statement("synchronize", "border", l, a)>>
  ELSE <<Statement("download", "border", l, a), Statement("post", "host", l, a),
         Statement("synchronize", "border", l, a), Statement("send", "host", l, a),
         Statement("await", "host", l, a), Statement("upload", "border", l, a)>>

ExchangeMultiGPU(s, l) ==
  ExchangeCollData(s, l, "X") \o ExchangeCollData(s, l, "Y") \o ExchangeCollData(s, l, "Z")
  \o ForAxes(s, "scatter", l)

\* Faulty variant: the bulk is collided on the stream of the border.
BulkOnBorderStream(s, l) ==
  <<Statement("collideBorder", "border", l, "")>> \o ForAxes(s, "collect", l)
  \o <<Statement("record", "border", l, ""), Statement("wait", "bulk", l, ""),
       Statement("collideBulk", "border", l, "")>>
  \o ExchangeMultiGPU(s, l)
CollisionAndExchange(s, l) ==
  <<Statement("collideBorder", "border", l, "")>> \o ForAxes(s, "collect", l)
  \o <<Statement("record", "border", l, ""), Statement("wait", "bulk", l, ""),
       Statement("collideBulk", "bulk", l, "")>>
  \o ExchangeMultiGPU(s, l)

\* The bulk kernels of the interpolation are launched on the border stream.
RefinementAndExchange(s, l) ==
  <<Statement("fineToCoarseBorder", "border", l, "")>> \o ForAxes(s, "collect", l)
  \o <<Statement("record", "border", l, ""), Statement("wait", "bulk", l, ""),
       Statement("fineToCoarseBulk", "border", l, ""), Statement("coarseToFineBulk", "border", l, "")>>
  \o ExchangeMultiGPU(s, l)
  \o <<Statement("coarseToFineBorder", "border", l, ""), Statement("deviceSynchronize", "host", l, "")>>

\* A boundary condition is launched if the level has nodes of its kind.
BoundaryCondition(s, l, do) == IF l \in s[do] THEN <<Statement(do, "legacy", l, "")>> ELSE << >>

\* What updateGrid does on one level.
UpdateLevel(s, l) ==
  CollisionAndExchange(s, l) \o BoundaryCondition(s, l, "postCollisionBC")
  \o <<Statement("swap", "host", l, "")>> \o BoundaryCondition(s, l, "preCollisionBC")
  \o (IF l = Fine THEN << >> ELSE RefinementAndExchange(s, l))

\* Faulty variant: a finer level is updated once.
UpdateGridOnce(s) ==
  LET From[l \in Levels] == IF l = Fine THEN UpdateLevel(s, l) ELSE From[l + 1] \o UpdateLevel(s, l)
  IN From[0]
\* updateGrid: the finer level twice, then this one.
UpdateGrid(s) ==
  LET From[l \in Levels] == IF l = Fine THEN UpdateLevel(s, l)
                            ELSE From[l + 1] \o From[l + 1] \o UpdateLevel(s, l)
  IN From[0]

Program == [s \in Setups |-> UpdateGrid(s)]
Kernels == {"collideBorder", "collideBulk", "collect", "scatter", "download", "upload", "record", "wait",
            "postCollisionBC", "preCollisionBC", "fineToCoarseBorder", "fineToCoarseBulk",
            "coarseToFineBorder", "coarseToFineBulk"}

-----------------------------------------------------------------------------
(* What an operation touches *)

\* A kernel on nodes works on the places where the distributions of these
\* nodes are between two swaps.  After a swap the same places belong to the
\* neighbouring nodes, hence to any part of the level: the border (all nodes
\* that are sent), the ghost nodes (those received and not sent), or the bulk.
NodesOf(l, parts)  == { [of |-> "nodes", level |-> l, part |-> p, swap |-> swaps[l]] : p \in parts }
Buffer(name, l, a) == [of |-> name, level |-> l, part |-> a, swap |-> 0]
Everywhere         == {"border", "bulk", "ghost"}
\* All fluid nodes but those that are sent; ghost nodes are fluid.
NotSent  == Everywhere \ {"border"}
\* A node received on one axis may be sent on the next.
Received == {"border", "ghost"}

Reads(o) ==
  CASE o.do = "collect"             -> NodesOf(o.level, {"border"})
    [] o.do = "download"            -> {Buffer("sendDevice", o.level, o.axis)}
    [] o.do = "upload"              -> {Buffer("recvHost", o.level, o.axis)}
    [] o.do = "scatter"             -> {Buffer("recvDevice", o.level, o.axis)}
    [] o.do = "fineToCoarseBorder"  -> NodesOf(o.level + 1, Everywhere)
    [] o.do = "fineToCoarseBulk"    -> NodesOf(o.level + 1, Everywhere)
    [] o.do = "coarseToFineBorder"  -> NodesOf(o.level, Everywhere)
    [] o.do = "coarseToFineBulk"    -> NodesOf(o.level, NotSent)
    [] OTHER                        -> {}

Writes(o) ==
  CASE o.do = "collideBorder"       -> NodesOf(o.level, {"border"})
    [] o.do = "collideBulk"         -> NodesOf(o.level, NotSent)
    [] o.do = "collect"             -> {Buffer("sendDevice", o.level, o.axis)}
    [] o.do = "download"            -> {Buffer("sendHost", o.level, o.axis)}
    [] o.do = "upload"              -> {Buffer("recvDevice", o.level, o.axis)}
    [] o.do = "scatter"             -> NodesOf(o.level, Received)
    [] o.do = "postCollisionBC"     -> NodesOf(o.level, Everywhere)
    [] o.do = "preCollisionBC"      -> NodesOf(o.level, Everywhere)
    [] o.do = "fineToCoarseBorder"  -> NodesOf(o.level, {"border"})
    [] o.do = "fineToCoarseBulk"    -> NodesOf(o.level, NotSent)
    [] o.do = "coarseToFineBorder"  -> NodesOf(o.level + 1, Everywhere)
    [] o.do = "coarseToFineBulk"    -> NodesOf(o.level + 1, Everywhere)
    [] OTHER                        -> {}

Overlap(x, y) ==
  /\ x.of = y.of /\ x.level = y.level
  /\ x.part = y.part \/ x.swap # y.swap

Conflict(o, p) ==
  \/ \E x \in o.writes, y \in p.writes \cup p.reads : Overlap(x, y)
  \/ \E x \in o.reads, y \in p.writes : Overlap(x, y)

-----------------------------------------------------------------------------
(* The device *)

\* Faulty variant: streams that the legacy stream does not wait for.
NonBlockingStreams(o, p) ==
  o.stream = p.stream \/ (o.do = "record" /\ p.do = "wait")
\* o was issued before p: p waits for o.
Orders(o, p) ==
  \/ o.stream = p.stream
  \/ "legacy" \in {o.stream, p.stream}
  \/ o.do = "record" /\ p.do = "wait"

Ready(i) == \A j \in 1 .. i - 1 : ~Orders(pending[j], pending[i])

\* The operations that the i-th waits for, directly or not.
Before == LET f[i \in DOMAIN pending] ==
                UNION { {j} \cup f[j] : j \in { k \in 1 .. i - 1 : Orders(pending[k], pending[i]) } }
          IN f

Execute(i) ==
  /\ Ready(i)
  /\ pending' = SubSeq(pending, 1, i - 1) \o SubSeq(pending, i + 1, Len(pending))
  /\ UNCHANGED <<setup, step, at, swaps, posted>>

-----------------------------------------------------------------------------
(* The host *)

Init ==
  /\ setup \in Setups
  /\ step = 1 /\ at = 1
  /\ swaps = [l \in Levels |-> 0]
  /\ pending = << >>
  /\ posted = {}

Current == Program[setup][at]
Doing(do) == at <= Len(Program[setup]) /\ Current.do = do
\* Faulty variant: one coarse time step too many.
OneStepTooMany ==
  IF at < Len(Program[setup]) \/ step > MaxStep
  THEN at' = at + 1 /\ UNCHANGED step
  ELSE at' = 1 /\ step' = step + 1
Advance ==
  IF at < Len(Program[setup]) \/ step = MaxStep
  THEN at' = at + 1 /\ UNCHANGED step
  ELSE at' = 1 /\ step' = step + 1

Launch ==
  /\ \E do \in Kernels : Doing(do)
  /\ pending' = Append(pending, [do |-> Current.do, stream |-> Current.stream, level |-> Current.level,
                                 reads |-> Reads(Current), writes |-> Writes(Current)])
  /\ Advance /\ UNCHANGED <<setup, swaps, posted>>

\* cudaStreamSynchronize of the border stream.
Synchronize ==
  /\ Doing("synchronize")
  /\ \A i \in DOMAIN pending : pending[i].stream # Current.stream
  /\ Advance /\ UNCHANGED <<setup, swaps, pending, posted>>

DeviceSynchronize ==
  /\ Doing("deviceSynchronize") /\ pending = << >>
  /\ Advance /\ UNCHANGED <<setup, swaps, pending, posted>>

PostReceive ==
  /\ Doing("post")
  /\ posted' = posted \cup {<<Current.level, Current.axis>>}
  /\ Advance /\ UNCHANGED <<setup, swaps, pending>>

\* The copy of the edge nodes and the blocking send; what it waits for is
\* the subject of GpuHalo.tla.
Send ==
  /\ Doing("send")
  /\ Advance /\ UNCHANGED <<setup, swaps, pending, posted>>

WaitAll ==
  /\ Doing("await")
  /\ posted' = {}
  /\ Advance /\ UNCHANGED <<setup, swaps, pending>>

SwapBetweenEvenAndOddTimestep ==
  /\ Doing("swap")
  /\ swaps' = [swaps EXCEPT ![Current.level] = @ + 1]
  /\ Advance /\ UNCHANGED <<setup, pending, posted>>

Host == \/ Launch \/ Synchronize \/ DeviceSynchronize \/ PostReceive \/ Send \/ WaitAll
        \/ SwapBetweenEvenAndOddTimestep
Next == Host \/ \E i \in DOMAIN pending : Execute(i)

Spec == Init /\ [][Next]_vars

-----------------------------------------------------------------------------
(* Properties *)

\* The host is somewhere in its program, and what is pending was launched on
\* one of the three streams.
TypeOK ==
  /\ setup \in Setups /\ step \in 1 .. MaxStep
  /\ at \in 1 .. Len(Program[setup]) + 1
  /\ swaps \in [Levels -> Nat]
  /\ \A i \in DOMAIN pending : pending[i].do \in Kernels /\ pending[i].stream \in {"border", "bulk", "legacy"}
  /\ posted \subseteq Levels \X setup.axes

\* An operation that can start while an earlier one on the same data has not
\* ended: the earlier one can only be a bulk collision.  Where the level has
\* boundary nodes, the other can only be the scattering of the same time step,
\* and what they have in common are ghost nodes.
OnGhosts(o, p) ==
  /\ p.do = "scatter"
  /\ \A x \in o.writes, y \in p.reads \cup p.writes : Overlap(x, y) => x = y /\ x.part = "ghost"
OnlyBulkOvertaken ==
  \A i \in DOMAIN pending : Ready(i) =>
    \A j \in 1 .. i - 1 : Conflict(pending[j], pending[i]) =>
      /\ pending[j].do = "collideBulk"
      /\ pending[j].level \in setup.postCollisionBC \cup setup.preCollisionBC => OnGhosts(pending[j], pending[i])

\* The host buffers are free when the host or MPI uses them: nothing that is
\* sent is still being downloaded, and MPI receives into no buffer whose
\* last content is still being uploaded.
HostBuffersIdle ==
  /\ \A q \in posted, i \in DOMAIN pending : Buffer("recvHost", q[1], q[2]) \notin pending[i].reads
  /\ Doing("send") =>
       \A i \in DOMAIN pending : Buffer("sendHost", Current.level, Current.axis) \notin pending[i].writes

\* The recursion of updateGrid is a nested time stepping, as the flat loop of
\* the CPU solver is: a level ends its step with the swap, and is coupled to
\* the finer one when the last kernel of the interpolation is launched.
Issued(do, l) == Cardinality({ i \in 1 .. at - 1 : Program[setup][i].do = do /\ Program[setup][i].level = l })
LastCoupled   == [l \in Levels \ {Fine} |-> swaps[l] - (Issued("swap", l) - Issued("coarseToFineBorder", l))]
Nested == INSTANCE NestedTimeStepping WITH
  Loops <- {0}, Coarsest <- 0, Finest <- Fine,
  steps <- [r \in {0} |-> swaps], coupled <- [r \in {0} |-> LastCoupled]
NestedSteps == Nested!Spec

\* Communication is hidden: while the host waits in the exchange of the
\* border, what it waits for does not wait for the bulk kernel.
CommunicationHidden ==
  Doing("synchronize") =>
    \A i \in DOMAIN pending : pending[i].stream = Current.stream =>
      \A j \in Before[i] : pending[j].do = "collideBulk" => NodesOf(Current.level, NotSent) # pending[j].writes
=============================================================================
