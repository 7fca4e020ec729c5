----------------------------- MODULE SubDomains -----------------------------
(***************************************************************************)
(* The sub-domains of the GPU solver and the nodes that are sent and       *)
(* received between them, as MultipleGridBuilderFacade, GridImp and        *)
(* GridInterface make them: pure definitions over a grid s of sub-domains  *)
(* and a process r.                                                        *)
(*                                                                         *)
(* Every process has one sub-domain with a layer of ghost nodes towards    *)
(* each neighbouring sub-domain, on one level that may have a finer one.   *)
(***************************************************************************)
EXTENDS Integers, Sequences, FiniteSets, SequencesExt

CONSTANT
  Setups   \* the grids of sub-domains that are looked at

\* n[a] sub-domains along axis a, periodic or not, each of width nodes per
\* axis; whether CUDA streams are used, whether MPI buffers messages, and the
\* number of time steps.  On a level that has a finer one: the nodes of the
\* whole grid that are interpolated from fine to coarse, and the cells (sets
\* of nodes) that are interpolated from coarse to fine.
Axes == 1 .. 3
ASSUME SetupsAssumption ==
  \A s \in Setups : /\ s.n \in [Axes -> Nat \ {0}]
                    /\ s.n[1] * s.n[2] * s.n[3] > 1
                    /\ s.periodic \in [Axes -> BOOLEAN]
                    /\ s.width \in Nat \ {0}
                    /\ s.useStreams \in BOOLEAN /\ s.buffered \in BOOLEAN
                    /\ s.steps \in Nat \ {0}
                    /\ s.fineToCoarse \subseteq [Axes -> Nat]
                    /\ s.coarseToFine \subseteq SUBSET [Axes -> Nat]

\* In a box of n[a] places on axis a, counted from 0 with x as the fastest
\* coordinate: the place with number k, and the number of place i.
Size(n)      == n[1] * n[2] * n[3]
Place(n, k)  == <<k % n[1], (k \div n[1]) % n[2], k \div (n[1] * n[2])>>
Number(n, i) == i[1] + i[2] * n[1] + i[3] * n[1] * n[2]

\* The processes; convertToIndices3D, and getIndex1D, its inverse.
None          == -1
Processes(s)  == 0 .. Size(s.n) - 1
Index3D(s, r) == Place(s.n, r)
Index1D(s, i) == Number(s.n, i)

\* The process behind a side (-1 or 1) of the sub-domain of r.  Across a
\* periodic border it is the last one in the other direction; an axis with
\* one sub-domain is periodic in itself and is not exchanged.
CommunicationProcess(s, r, a, side) ==
  LET i == Index3D(s, r)
  IN IF i[a] + side \in 0 .. s.n[a] - 1 THEN Index1D(s, [i EXCEPT ![a] = @ + side])
     ELSE IF s.periodic[a] /\ s.n[a] > 1 THEN Index1D(s, [i EXCEPT ![a] = (@ + side) % s.n[a]])
     ELSE None

\* Faulty variant: every process lists its neighbours in the same order.
SameFillOrder(s, r, a) == <<-1, 1>>
\* The order in which a process lists its neighbours on an axis: reversed by
\* an odd process that has the same neighbour on both sides.
FillOrder(s, r, a) ==
  IF r % 2 = 1 /\ CommunicationProcess(s, r, a, -1) = CommunicationProcess(s, r, a, 1)
  THEN <<1, -1>> ELSE <<-1, 1>>

\* sendProcessNeighborX (Y, Z) and recvProcessNeighborX (Y, Z): the sides with
\* a neighbour, and the neighbours.
IfNeighbor(s, r, a, side) == IF CommunicationProcess(s, r, a, side) = None THEN << >> ELSE <<side>>
ProcessNeighbor == [s \in Setups |-> [r \in Processes(s) |-> [a \in Axes |->
  IfNeighbor(s, r, a, FillOrder(s, r, a)[1]) \o IfNeighbor(s, r, a, FillOrder(s, r, a)[2])]]]
RankNeighbor == [s \in Setups |-> [r \in Processes(s) |-> [a \in Axes |->
  LET sides == ProcessNeighbor[s][r][a]
  IN [k \in DOMAIN sides |-> CommunicationProcess(s, r, a, sides[k])]]]]

\* All layers <<axis, side>> of a process, in the order in which it sets them up.
LayersOn(s, r, a) == [k \in DOMAIN ProcessNeighbor[s][r][a] |-> <<a, ProcessNeighbor[s][r][a][k]>>]
LayerSeq == [s \in Setups |-> [r \in Processes(s) |->
  LayersOn(s, r, 1) \o LayersOn(s, r, 2) \o LayersOn(s, r, 3)]]

\* A sub-domain has the nodes 1 .. width on an axis, and a ghost node beyond
\* them on the sides with a neighbour.
Lowest(s, r, a)  == IF CommunicationProcess(s, r, a, -1) = None THEN 1 ELSE 0
Highest(s, r, a) == IF CommunicationProcess(s, r, a, 1) = None THEN s.width ELSE s.width + 1
Nodes == [s \in Setups |-> [r \in Processes(s) |->
  { x \in [Axes -> 0 .. s.width + 1] : \A a \in Axes : x[a] \in Lowest(s, r, a) .. Highest(s, r, a) }]]

IsGhost(s, x) == \E a \in Axes : x[a] \notin 1 .. s.width
GhostNode     == [s \in Setups |-> [r \in Processes(s) |-> { x \in Nodes[s][r] : IsGhost(s, x) }]]

\* The node of the whole grid that a node of a sub-domain stands for.
GlobalNode == [s \in Setups |-> [r \in Processes(s) |-> [x \in Nodes[s][r] |->
  [a \in Axes |-> (Index3D(s, r)[a] * s.width + x[a] - 1) % (s.n[a] * s.width)]]]]

\* findCommunicationIndex: the outermost own layer of nodes is sent, the one
\* beyond it received; both reach into the ghost layers of the other axes.
SendCoordinate(s, side) == IF side = -1 THEN 1 ELSE s.width
RecvCoordinate(s, side) == IF side = -1 THEN 0 ELSE s.width + 1

\* The nodes at a coordinate of axis a, in the order of the matrix of a sub-domain,
\* with x as the fastest coordinate.
LayerAt(s, r, a, coordinate) ==
  LET first  == [b \in Axes |-> IF b = a THEN coordinate ELSE Lowest(s, r, b)]
      length == [b \in Axes |-> IF b = a THEN 1 ELSE Highest(s, r, b) - Lowest(s, r, b) + 1]
  IN [k \in 1 .. Size(length) |-> [b \in Axes |-> first[b] + Place(length, k - 1)[b]]]

SendIndices == [s \in Setups |-> [r \in Processes(s) |-> [l \in ToSet(LayerSeq[s][r]) |->
  LayerAt(s, r, l[1], SendCoordinate(s, l[2]))]]]
ReceiveIndices == [s \in Setups |-> [r \in Processes(s) |-> [l \in ToSet(LayerSeq[s][r]) |->
  LayerAt(s, r, l[1], RecvCoordinate(s, l[2]))]]]

Refined(s) == s.fineToCoarse # {}

\* The nodes that a process interpolates from fine to coarse.  Every process
\* finds the whole interface; repairGridInterfaceOnMultiGPU leaves it the cells
\* whose fine nodes it has, and of the fine cell around a coarse ghost node
\* the outer half lies beyond the fine ghost nodes.
FineToCoarseNodes == [s \in Setups |-> [r \in Processes(s) |->
  { x \in Nodes[s][r] : ~IsGhost(s, x) /\ GlobalNode[s][r][x] \in s.fineToCoarse }]]

\* Of the cells interpolated from coarse to fine a process keeps those of which
\* all nodes lie in its sub-domain and its ghost layer.
CoarseToFineCells(s, r) ==
  LET here == { GlobalNode[s][r][x] : x \in Nodes[s][r] }
  IN { c \in s.coarseToFine : c \subseteq here }

CoarseToFineNodes == [s \in Setups |-> [r \in Processes(s) |->
  LET interpolated == UNION CoarseToFineCells(s, r)
  IN { x \in Nodes[s][r] : GlobalNode[s][r][x] \in interpolated }]]
=============================================================================
