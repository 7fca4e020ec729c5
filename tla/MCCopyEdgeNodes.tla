-------------------------- MODULE MCCopyEdgeNodes --------------------------
(* A sub-domain with a neighbour on either side of the X axis and one on the
   Y axis; as findEdgeNodes lists them, the edges of the two X layers. *)
EXTENDS CopyEdgeNodes

Edge(recv, indexInRecvBuffer, indexInSendBuffer) ==
  [recv |-> recv, indexInRecvBuffer |-> indexInRecvBuffer, send |-> 0, indexInSendBuffer |-> indexInSendBuffer]

EdgesOfX     == <<Edge(0, 1, 0), Edge(1, 1, 3)>>
NodesOfX     == [n \in {0, 1} |-> 3]
NodesOfY     == [n \in {0} |-> 4]
Halves       == [t1 |-> {1}, t2 |-> {2}]
=============================================================================
