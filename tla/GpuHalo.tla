------------------------------- MODULE GpuHalo -------------------------------
(***************************************************************************)
(* The exchange between the sub-domains of the GPU solver                  *)
(* (gpu/core/Communication/ExchangeData27.cpp), as it is wired by          *)
(* GridGenerator::initalValuesDomainDecompostion.                          *)
(*                                                                         *)
(* After the collision a process exchanges layers with its neighbours on   *)
(* the X axis, then Y, then Z, and only with those: what a ghost node on   *)
(* an edge or in a corner receives has travelled through one or two other  *)
(* processes.  Without streams the layers are collected, exchanged and     *)
(* scattered axis by axis, so that the second axis sends what the first    *)
(* has brought.  With streams all layers are collected first and scattered *)
(* last; there the nodes of a send buffer that were received on an earlier *)
(* axis are patched on the host (copyEdgeNodes).                           *)
(*                                                                         *)
(* On a level that has a finer one a second exchange follows when its      *)
(* nodes have been interpolated: the same, with the front parts of the     *)
(* layers only.                                                            *)
(*                                                                         *)
(* All messages have tag 0: two processes tell them apart by their order.  *)
(* MPI may buffer a message or hold MPI_Send until its receive is posted.  *)
(*                                                                         *)
(* The device is taken to work in the order of the host.  With streams the *)
(* bulk kernel may still write ghost nodes when they are scattered, which  *)
(* GpuStreams shows; here it has ended by then.                            *)
(***************************************************************************)
EXTENDS IndexRearrangement

VARIABLES
  step,       \* step[r]: the collision that process r has done last
  afterFtoC,  \* whether r is at or behind the exchange after the interpolation
  axis,       \* axis[r]: the axis it exchanges on, 4 when it has exchanged
  sent,       \* number of neighbours on this axis to which it has sent
  ghost,      \* ghost[r][x]: what the ghost node x holds
  sendBuffer, recvBuffer    \* host buffers, per axis and side

startVars == <<sendIndex, recvIndex, sendNumber, recvNumber, turn, told>>
timeVars  == <<step, afterFtoC, axis, sent, ghost, sendBuffer, recvBuffer>>
vars      == <<setup, channel, startVars, timeVars>>

\* What is in a node: of the whole grid the node it stands for, the collision
\* and whether the interpolation has changed it since.
Value(r, x) == <<Global(r, x), step[r], afterFtoC[r] /\ Global(r, x) \in setup.fineToCoarse>>
Garbage     == << >>

Init ==
  /\ StartUp
  /\ step = [r \in Ranks |-> 0]
  /\ afterFtoC = [r \in Ranks |-> Refined(setup)]
  /\ axis = [r \in Ranks |-> 4]
  /\ sent = [r \in Ranks |-> 0]
  /\ ghost = [r \in Ranks |-> [x \in GhostNodes(r) |-> Value(r, x)]]
  /\ sendBuffer = [r \in Ranks |-> << >>] /\ recvBuffer = [r \in Ranks |-> << >>]

-----------------------------------------------------------------------------
(* Layers and buffers *)

\* numberOfNodes of a neighbour in the exchange at hand: that of
\* sendProcessNeighborX or that of sendProcessNeighborsAfterFtoCX.
SendCount(r, l) == IF afterFtoC'[r] THEN sendNumber[r][l] ELSE Len(sendIndex[r][l])
RecvCount(r, l) == IF afterFtoC[r] THEN recvNumber[r][l] ELSE Len(recvIndex[r][l])

\* collectNodesInSendBufferGPU and the copy to the host.  An own node holds
\* what the collision or the interpolation of this step made of it.
Collected(r, l) ==
  [j \in 1 .. SendCount(r, l) |->
     LET x == sendIndex[r][l][j] IN IF IsGhost(setup, x) THEN ghost'[r][x] ELSE Value(r, x)']

\* The nodes received on axis b that are in a layer which is sent, as pairs of
\* positions in the receive layer other and in l.  A node that is in the layers
\* of both sides of the axis is found in the first.
EdgeNodes(r, b, l) ==
  LET first == ProcessNeighbors(r, l[1])[1]
  IN UNION { { e \in {other} \X (DOMAIN recvIndex[r][<<b, other>>]) \X (DOMAIN sendIndex[r][l]) :
                 /\ recvIndex[r][<<b, other>>][e[2]] = sendIndex[r][l][e[3]]
                 /\ first = l[2] \/ sendIndex[r][l][e[3]] \notin ToSet(sendIndex[r][<<l[1], first>>]) } :
               other \in Sides(r, b) }

\* Whether all nodes or the front parts are exchanged is told from the first
\* neighbour on the axis: only there the numbers of nodes are compared.
ExchangesAll(r, a) ==
  LET l == <<a, ProcessNeighbors(r, a)[1]>> IN Len(sendIndex[r][l]) = SendCount(r, l)

\* An element of a receive buffer that is read as one of so many nodes: the
\* distributions of a node lie that far apart, so another number than that of
\* the nodes received yields others.
Read(buffer, number, i) == IF number = Len(buffer) /\ i <= number THEN buffer[i] ELSE Garbage

\* copyEdgeNodes from the layers received on axis b to the one that is sent; edge
\* nodes behind the end of the send buffer are passed over.
CopyEdgeNodes(r, b, l, layer) ==
  LET edges == EdgeNodes(r, b, l)
  IN [j \in DOMAIN layer |->
        IF \E e \in edges : e[3] = j
        THEN LET e      == CHOOSE e \in edges : e[3] = j
                 source == <<b, e[1]>>
                 number == IF ExchangesAll(r, l[1]) THEN Len(recvIndex[r][source]) ELSE recvNumber[r][source]
             IN Read(recvBuffer'[r][source], number, e[2])
        ELSE layer[j]]

\* Faulty variant: on Z the nodes that came on Y are overwritten by what
\* was received earlier on X.
XAfterY(r, l, layer) ==
  CASE l[1] = 1 -> layer
    [] l[1] = 2 -> CopyEdgeNodes(r, 1, l, layer)
    [] l[1] = 3 -> CopyEdgeNodes(r, 1, l, CopyEdgeNodes(r, 2, l, layer))
WithEdgeNodes(r, l, layer) ==
  CASE l[1] = 1 -> layer
    [] l[1] = 2 -> CopyEdgeNodes(r, 1, l, layer)
    [] l[1] = 3 -> CopyEdgeNodes(r, 2, l, CopyEdgeNodes(r, 1, l, layer))

\* The exchange on axis a up to its first send, with what the process now
\* holds: the layers are collected (with streams those of all axes, before
\* the first), the receives are posted and the edge nodes are patched.
Prepare(r, a) ==
  LET now    == IF ~setup.useStreams THEN { l \in Layers(r) : l[1] = a }
                ELSE IF axis[r] = 4 THEN Layers(r) ELSE {}
      layer  == [l \in Layers(r) |->
                   IF l \in now THEN Collected(r, l)
                   ELSE IF l \in DOMAIN sendBuffer[r] THEN sendBuffer[r][l] ELSE << >>]
  IN /\ axis' = [axis EXCEPT ![r] = a]
     /\ sent' = [sent EXCEPT ![r] = 0]
     /\ sendBuffer' = [sendBuffer EXCEPT ![r] =
          [l \in Layers(r) |->
             IF setup.useStreams /\ l[1] = a THEN WithEdgeNodes(r, l, layer[l]) ELSE layer[l]]]

\* The next axis with neighbours, or 4 at the end; on the others no message is
\* sent and no node copied.
Following(r, a) == CHOOSE b \in a + 1 .. 4 :
  /\ b = 4 \/ Sides(r, b) # {}
  /\ \A c \in a + 1 .. b - 1 : Sides(r, c) = {}

-----------------------------------------------------------------------------
(* The steps of a process *)

\* Faulty variant: the loop over the time steps does one too many.
OneStepMore(r) == StartedUp(r) /\ axis[r] = 4 /\ afterFtoC[r] = Refined(setup) /\ step[r] <= setup.steps
\* The loop over the time steps.
MayCollide(r) == StartedUp(r) /\ axis[r] = 4 /\ afterFtoC[r] = Refined(setup) /\ step[r] < setup.steps

\* The next collision and the preparation of the first exchange.
Collide(r) ==
  /\ MayCollide(r)
  /\ step' = [step EXCEPT ![r] = @ + 1]
  /\ afterFtoC' = [afterFtoC EXCEPT ![r] = FALSE]
  /\ UNCHANGED <<setup, channel, startVars, ghost, recvBuffer>>
  /\ Prepare(r, Following(r, 0))

MayInterpolate(r) == Refined(setup) /\ axis[r] = 4 /\ ~afterFtoC[r]

\* The interpolation from fine to coarse, which a process does for its own
\* nodes, and the preparation of the exchange that follows.
Interpolate(r) ==
  /\ MayInterpolate(r)
  /\ afterFtoC' = [afterFtoC EXCEPT ![r] = TRUE]
  /\ UNCHANGED <<setup, channel, startVars, step, ghost, recvBuffer>>
  /\ Prepare(r, Following(r, 0))

\* Receives from p that r has posted and not completed: in its turn of the
\* start-up, or on the axis of its exchange.
\* Faulty variant: they are posted when all sends are done.
PostedAfterSends(r, p) ==
  IF ~StartedUp(r) THEN IF told[r] /\ Neighbor(r, Turn(r)) = p THEN 1 ELSE 0
  ELSE IF axis[r] \in Axes /\ sent[r] = Len(Partners(r, axis[r]))
  THEN Cardinality({ k \in DOMAIN Partners(r, axis[r]) : Partners(r, axis[r])[k] = p }) ELSE 0
Posted(r, p) ==
  IF ~StartedUp(r) THEN IF Neighbor(r, Turn(r)) = p THEN 1 ELSE 0
  ELSE IF axis[r] \in Axes
  THEN Cardinality({ k \in DOMAIN Partners(r, axis[r]) : Partners(r, axis[r])[k] = p }) ELSE 0

\* A receive has been posted that the next message from r to p can take.
Awaited(r, p) == Len(channel[r][p]) < Posted(p, r)

SendPositions(r) ==
  /\ ~StartedUp(r)
  /\ Tell(r, Awaited(r, Neighbor(r, Turn(r))))
  /\ UNCHANGED timeVars

ReceivePositions(r) == Hear(r) /\ UNCHANGED timeVars

MaySend(r) ==
  /\ axis[r] \in Axes /\ sent[r] < Len(Partners(r, axis[r]))
  /\ setup.buffered \/ Awaited(r, Partners(r, axis[r])[sent[r] + 1])

\* One blocking send of startBlockingMpiSend.
Send(r) ==
  /\ MaySend(r)
  /\ LET side == ProcessNeighbors(r, axis[r])[sent[r] + 1]
         p    == Partners(r, axis[r])[sent[r] + 1]
     IN channel' = [channel EXCEPT ![r][p] = Append(@, sendBuffer[r][<<axis[r], side>>])]
  /\ sent' = [sent EXCEPT ![r] = @ + 1]
  /\ UNCHANGED <<setup, startVars, step, afterFtoC, axis, ghost, sendBuffer, recvBuffer>>

\* What the receives of an axis get: the k-th from a partner its k-th message.
Messages(r, a) ==
  LET partners == Partners(r, a)
      Turns(k) == Cardinality({ j \in 1 .. k : partners[j] = partners[k] })
      Index(side) == CHOOSE k \in DOMAIN partners : ProcessNeighbors(r, a)[k] = side
  IN [side \in Sides(r, a) |-> channel[partners[Index(side)]][r][Turns(Index(side))]]

\* The distributions of a message with another number of nodes than the receive
\* buffer end in the wrong places.
Received(r, l) ==
  LET message == Messages(r, l[1])[l[2]]
  IN IF Len(message) = RecvCount(r, l) THEN message ELSE [j \in 1 .. RecvCount(r, l) |-> Garbage]

\* The receive buffers of these layers go to the ghost nodes, axis by axis.
Scattered(r, layers) ==
  LET At(x, l) == { j \in 1 .. RecvCount(r, l) : recvIndex[r][l][j] = x }
  IN [x \in GhostNodes(r) |->
        LET hits == { l \in layers : At(x, l) # {} }
        IN IF hits = {} THEN ghost[r][x]
           ELSE LET last == CHOOSE l \in hits : \A m \in hits : m[1] <= l[1]
                IN recvBuffer'[r][last][CHOOSE j \in At(x, last) : TRUE]]

\* A message that is longer than the receive buffer is an error of MPI.
MayReceive(r) ==
  /\ axis[r] \in Axes /\ sent[r] = Len(Partners(r, axis[r]))
  /\ \A p \in ToSet(Partners(r, axis[r])) : Len(channel[p][r]) >= Posted(r, p)
  /\ \A side \in Sides(r, axis[r]) : Len(Messages(r, axis[r])[side]) <= RecvCount(r, <<axis[r], side>>)

\* waitAll.  The buffers are scattered at once, or with streams after the
\* last axis.
Receive(r) ==
  LET a == axis[r]
      b == Following(r, a)
  IN /\ MayReceive(r)
     /\ channel' = [p \in Ranks |-> [channel[p] EXCEPT ![r] = SubSeq(@, Posted(r, p) + 1, Len(@))]]
     /\ recvBuffer' = [recvBuffer EXCEPT ![r] =
          [l \in Layers(r) |-> IF l[1] = a THEN Received(r, l)
                               ELSE IF l \in DOMAIN @ THEN @[l] ELSE << >>]]
     /\ ghost' = [ghost EXCEPT ![r] =
          Scattered(r, IF ~setup.useStreams THEN { l \in Layers(r) : l[1] = a }
                       ELSE IF b = 4 THEN Layers(r) ELSE {})]
     /\ UNCHANGED <<setup, startVars, step, afterFtoC>>
     /\ Prepare(r, b)

Act(r) == SendPositions(r) \/ ReceivePositions(r) \/ Collide(r) \/ Interpolate(r) \/ Send(r) \/ Receive(r)
Next   == \E r \in Ranks : Act(r)

Spec == Init /\ [][Next]_vars

-----------------------------------------------------------------------------
(* Properties *)

\* A process is somewhere in its start-up or its exchange and has a value on
\* every ghost node; the front part of a list is no longer than the list.
TypeOK ==
  /\ setup \in Setups
  /\ step \in [Ranks -> 0 .. setup.steps]
  /\ afterFtoC \in [Ranks -> BOOLEAN] /\ told \in [Ranks -> BOOLEAN]
  /\ axis \in [Ranks -> 1 .. 4]
  /\ sent \in [Ranks -> 0 .. 2]
  /\ \A r \in Ranks :
       /\ turn[r] \in 1 .. Len(LayerSeq[setup][r]) + 1
       /\ DOMAIN ghost[r] = GhostNodes(r)
       /\ \A l \in DOMAIN sendNumber[r] : sendNumber[r][l] \in 0 .. Len(sendIndex[r][l])
       /\ \A l \in DOMAIN recvNumber[r] : recvNumber[r][l] \in 0 .. Len(recvIndex[r][l])

Exchanged(r) == axis[r] = 4

\* When a process has exchanged, every ghost node, those on edges and in
\* corners included, holds what the process that owns the node has computed
\* in the collision and the interpolation before: neither an older value nor
\* one that is newer.
GhostsFresh ==
  \A r \in Ranks : Exchanged(r) => \A x \in GhostNodes(r) : ghost[r][x] = Value(r, x)

\* The exchange after the interpolation is one in which "only" the interpolated
\* cells are exchanged (RefinementStrategy.h), but these are: no ghost node of
\* the interface keeps the value from before the interpolation, also where it
\* is in the corner of a sub-domain.
InterpolatedCellsExchanged ==
  \A r \in Ranks : Exchanged(r) /\ afterFtoC[r] =>
    \A x \in GhostNodes(r) : Global(r, x) \in setup.fineToCoarse => ghost[r][x] = Value(r, x)

\* Whether MPI buffers or not, blocking sends and waits never wait for each
\* other in a circle: as long as a process starts up or is in its exchange, one
\* of them can go on.  (Both have finitely many steps, so all of them end.)
NoCircularWait ==
  (\E r \in Ranks : ~StartedUp(r) \/ axis[r] \in Axes) =>
    \E r \in Ranks :
      \/ ~StartedUp(r) /\ MayTell(r, Awaited(r, Neighbor(r, Turn(r))))
      \/ MayHear(r) \/ MayCollide(r) \/ MayInterpolate(r) \/ MaySend(r) \/ MayReceive(r)

-----------------------------------------------------------------------------
(* The grids on which the properties hold.  They do not on all: some of what *)
(* the exchange relies on is a matter of the grid, of the interface in it    *)
(* and of the order of the ranks, and nothing in the code looks at it.       *)

\* A process that is the neighbour on both sides of an axis has a rank of the
\* other parity: only then is one list of neighbours the reverse of the other.
ToldByParity(s) ==
  \A r \in Processes(s), a \in Axes :
    LET p == CommunicationProcess(s, r, a, 1)
    IN p # None /\ p = CommunicationProcess(s, r, a, -1) => p % 2 # r % 2

\* The front parts of the lists, of the layers that are sent and received,
\* and the positions that tell a process the latter.
SendFront(s, r, l) == FrontPart(s, r, SendIndices[s][r][l])
Source(s, r, l)    == CommunicationProcess(s, r, l[1], l[2])
Told(s, r, l)      == LET p == Source(s, r, l)
                      IN Positions(SendFront(s, p, Opposite(l)), SendIndices[s][p][Opposite(l)])
RecvFront(s, r, l) == [j \in DOMAIN Told(s, r, l) |-> ReceiveIndices[s][r][l][Told(s, r, l)[j] + 1]]
LayersOf(s, r)     == ToSet(LayerSeq[s][r])

\* A process finds the end of the positions that it is told.
Guessed(s) ==
  Refined(s) => \A r \in Processes(s) : \A l \in LayersOf(s, r) :
    LET size == 2 * Len(SendFront(s, r, l))
    IN Len(Told(s, r, l)) <= size /\ Trimmed(Told(s, r, l), size) = Told(s, r, l)

\* Own on axis a and all after it: what is sent on axis a - 1 of such a node
\* is not overwritten by what comes on a later one.
Settled(s, x, a) == \A b \in a .. 3 : x[b] \in 1 .. s.width

\* The reduced exchange receives every interpolated node.
Carried(s) ==
  Refined(s) => \A r \in Processes(s) : \A l \in LayersOf(s, r) : \A x \in ToSet(ReceiveIndices[s][r][l]) :
    Settled(s, x, l[1] + 1) /\ GlobalNode[s][r][x] \in s.fineToCoarse => x \in ToSet(RecvFront(s, r, l))

\* With streams, edge nodes are patched: each is found in one layer of an axis,
\* and in the reduced exchange in the front part of a receive layer, whose
\* length is told from the first layer that is sent.
Patched(s) ==
  s.useStreams => \A r \in Processes(s) : \A l \in LayersOf(s, r), m \in LayersOf(s, r) :
    m[1] < l[1] =>
      /\ s.width > 1 \/ Opposite(l) \notin LayersOf(s, r)
      /\ Refined(s) =>
           /\ ToSet(SendFront(s, r, l)) \cap ToSet(ReceiveIndices[s][r][m]) \subseteq ToSet(RecvFront(s, r, m))
           /\ l[2] = ProcessNeighbor[s][r][l[1]][1] /\ Len(SendFront(s, r, l)) = Len(SendIndices[s][r][l])
                => Len(RecvFront(s, r, m)) = Len(ReceiveIndices[s][r][m])

\* In a ring of three or more every process would wait for its neighbour.
NoRingAtStart(s) == Refined(s) => \A a \in Axes : s.periodic[a] => s.n[a] <= 2

Suitable(s) == ToldByParity(s) /\ Guessed(s) /\ Carried(s) /\ Patched(s)
=============================================================================
