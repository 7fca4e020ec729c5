------------------------- MODULE IndexRearrangement -------------------------
(***************************************************************************)
(* IndexRearrangementForStreams (gpu/core/DataStructureInitializer/        *)
(* GridReaderGenerator), called by GridGenerator for every neighbour while *)
(* the solver starts.                                                      *)
(*                                                                         *)
(* After the interpolation from fine to coarse only the nodes that take    *)
(* part in it are exchanged.  To that end a process moves these nodes to   *)
(* the front of the list of nodes it sends, tells the neighbour from which *)
(* positions it took them, and rearranges the list of nodes it receives by *)
(* the positions it is told.  From then on a number of nodes per list is   *)
(* all that the reduced exchange needs.                                    *)
(*                                                                         *)
(* The neighbours are gone through one by one: in each turn a process      *)
(* posts a receive, sends its positions and waits for those of the         *)
(* neighbour (MPICommunicator::receiveSend).                               *)
(***************************************************************************)
EXTENDS SubDomains

VARIABLES
  setup,
  channel,     \* channel[p][r]: messages from p to r that r has not received
  sendIndex, recvIndex,  \* per process and layer: its list of nodes
  sendNumber, recvNumber,  \* length of its front part, per layer done so far
  turn,        \* turn[r]: the layer that r is at
  told         \* told[r]: it has sent its positions in this turn

Ranks                  == Processes(setup)
ProcessNeighbors(r, a) == ProcessNeighbor[setup][r][a]
Partners(r, a)         == RankNeighbor[setup][r][a]
Sides(r, a)            == ToSet(ProcessNeighbors(r, a))
Layers(r)              == ToSet(LayerSeq[setup][r])
GhostNodes(r)          == GhostNode[setup][r]
Global(r, x)           == GlobalNode[setup][r][x]
Neighbor(r, l)         == CommunicationProcess(setup, r, l[1], l[2])

StartUp ==
  /\ setup \in Setups
  /\ channel = [p \in Ranks |-> [r \in Ranks |-> << >>]]
  /\ sendIndex = SendIndices[setup] /\ recvIndex = ReceiveIndices[setup]
  /\ sendNumber = [r \in Ranks |-> << >>] /\ recvNumber = [r \in Ranks |-> << >>]
  /\ turn = [r \in Ranks |-> 1]
  /\ told = [r \in Ranks |-> FALSE]

\* On the finest level nothing is rearranged.
StartedUp(r) == ~Refined(setup) \/ turn[r] > Len(LayerSeq[setup][r])
Turn(r)      == LayerSeq[setup][r][turn[r]]

\* The elements of a list at some of its positions, in their order: the k-th
\* is that at the position before which there are k - 1 others.
Picked(list, at) ==
  [k \in 1 .. Cardinality(at) |->
     list[CHOOSE i \in at : Cardinality({ j \in at : j < i }) = k - 1]]

\* reorderSendIndicesForCommAfterFtoC: first the nodes interpolated from fine to
\* coarse, in the order of the list, then the others of the cells interpolated
\* from coarse to fine, in ascending order, which is that of the list too.
FrontPart(s, r, list) ==
  LET fine   == FineToCoarseNodes[s][r]
      coarse == CoarseToFineNodes[s][r]
  IN Picked(list, { i \in DOMAIN list : list[i] \in fine })
       \o Picked(list, { i \in DOMAIN list : list[i] \in coarse \ fine })

\* findIndicesNotInCommAfterFtoC: the others follow in their order.
FrontFirst(front, list) == front \o Picked(list, { i \in DOMAIN list : list[i] \notin ToSet(front) })

\* Positions in a list count from 0.
Positions(front, list) == [j \in DOMAIN front |-> (CHOOSE i \in DOMAIN list : list[i] = front[j]) - 1]

\* exchangeIndicesForCommAfterFtoC: the positions arrive in a vector of zeros of
\* the given size.  std::unique leaves one of the zeros at its end, and the last
\* element is erased: the zero - or a position, if the vector is full or the
\* last position is 0.
Trimmed(positions, size) ==
  IF size = 0 THEN << >>
  ELSE IF Len(positions) = size \/ (positions # << >> /\ Last(positions) = 0) THEN Front(positions)
  ELSE positions

MayTell(r, posted) == ~StartedUp(r) /\ ~told[r] /\ (setup.buffered \/ posted)

\* initSendIndicesForCommAfterFToC and the sending half of receiveSend; posted
\* says that the neighbour has posted a receive that this message can take.
Tell(r, posted) ==
  LET l     == Turn(r)
      list  == sendIndex[r][l]
      front == FrontPart(setup, r, list)
  IN /\ MayTell(r, posted)
     /\ sendIndex' = [sendIndex EXCEPT ![r][l] = FrontFirst(front, list)]
     /\ sendNumber' = [sendNumber EXCEPT ![r] = [m \in DOMAIN @ \cup {l} |-> IF m = l THEN Len(front) ELSE @[m]]]
     /\ channel' = [channel EXCEPT ![r][Neighbor(r, l)] = Append(@, Positions(front, list))]
     /\ told' = [told EXCEPT ![r] = TRUE]
     /\ UNCHANGED <<setup, recvIndex, recvNumber, turn>>

\* The vector for the positions is twice as long as the own front part.  A
\* message that is longer is an error of MPI, which ends the program: here the
\* process stays where it is.
MayHear(r) ==
  /\ ~StartedUp(r) /\ told[r]
  /\ LET inbox == channel[Neighbor(r, Turn(r))][r]
     IN inbox # << >> /\ Len(Head(inbox)) <= 2 * sendNumber[r][Turn(r)]

\* The receiving half, and initRecvIndicesForCommAfterFToC.
Hear(r) ==
  /\ MayHear(r)
  /\ LET l     == Turn(r)
         p     == Neighbor(r, l)
         list  == recvIndex[r][l]
         heard == Trimmed(Head(channel[p][r]), 2 * sendNumber[r][l])
         front == [j \in DOMAIN heard |-> list[heard[j] + 1]]
     IN /\ recvIndex' = [recvIndex EXCEPT ![r][l] = FrontFirst(front, list)]
        /\ recvNumber' = [recvNumber EXCEPT ![r] = [m \in DOMAIN @ \cup {l} |-> IF m = l THEN Len(front) ELSE @[m]]]
        /\ channel' = [channel EXCEPT ![p][r] = Tail(@)]
  /\ turn' = [turn EXCEPT ![r] = @ + 1]
  /\ told' = [told EXCEPT ![r] = FALSE]
  /\ UNCHANGED <<setup, sendIndex, sendNumber>>

\* The layer of the neighbour that r receives on layer l.
Opposite(l) == <<l[1], -l[2]>>

\* What a process will send and its neighbour receive are lists of the same
\* nodes of the whole grid, node by node, with front parts of the same length.
NeighboursAgree ==
  \A r \in Ranks : \A l \in DOMAIN recvNumber[r] :
    LET p == Neighbor(r, l)
    IN /\ Opposite(l) \in DOMAIN sendNumber[p]
       /\ recvNumber[r][l] = sendNumber[p][Opposite(l)]
       /\ [j \in DOMAIN recvIndex[r][l] |-> Global(r, recvIndex[r][l][j])]
            = [j \in DOMAIN sendIndex[p][Opposite(l)] |-> Global(p, sendIndex[p][Opposite(l)][j])]
=============================================================================
