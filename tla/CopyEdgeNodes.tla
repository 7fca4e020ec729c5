---------------------------- MODULE CopyEdgeNodes ----------------------------
(***************************************************************************)
(* copyEdgeNodes of gpu/core/Communication/ExchangeData27.cpp, statement   *)
(* by statement.  GpuHalo.tla takes its result as what a sequential loop   *)
(* gives.  The loop is an OpenMP parallel for, and its four index          *)
(* variables are declared before it: the threads share them.  They race,   *)
(* so a thread that reads one of them gets the value it has last written   *)
(* itself (a compiler may have kept it in a register) or what is in memory *)
(* now (as in a build without optimisation).                               *)
(***************************************************************************)
EXTENDS Integers, Sequences

CONSTANTS
  Threads,
  EdgeNodes,      \* a sequence of [recv, indexInRecvBuffer, send, indexInSendBuffer]
  RecvNodes,      \* RecvNodes[n]: numberOfNodes of the n-th neighbour received from
  SendNodes,      \* SendNodes[n]: ... and of the n-th sent to
  Share           \* Share[t]: the iterations of thread t

\* Every edge node names a node of a receive layer; findEdgeNodes may name one
\* beyond the end of a (reduced) send layer.  The iterations are shared out
\* completely and once.

VARIABLES
  shared,     \* the four variables, as they are in memory
  own,        \* own[t]: what thread t has last written to them
  left,       \* left[t]: iterations thread t has still to begin or is in
  at,         \* at[t]: the statement thread t is at
  buffer      \* buffer[n][k]: slot k of the send buffer of the n-th neighbour

vars == <<shared, own, left, at, buffer>>

Slots(n)  == 0 .. SendNodes[n] - 1
Collected == [n \in DOMAIN SendNodes |-> [k \in Slots(n) |-> "collected"]]
Variables == {"indexInSubdomainRecv", "indexInSubdomainSend", "numNodesInBufferRecv", "numNodesInBufferSend"}

Init ==
  /\ shared = [v \in Variables |-> 0]
  /\ own = [t \in Threads |-> shared]
  /\ left = Share
  /\ at = [t \in Threads |-> "indices"]
  /\ buffer = Collected

\* A thread does its iterations in their order.
Current(t) == EdgeNodes[CHOOSE i \in left[t] : \A j \in left[t] : i <= j]
Reads(t, v) == {own[t][v], shared[v]}
Assign(t, v, value) ==
  /\ shared' = [shared EXCEPT ![v] = value]
  /\ own' = [own EXCEPT ![t][v] = value]
Goto(t, label) == at' = [at EXCEPT ![t] = label] /\ UNCHANGED left

AssignRecvIndex(t) ==
  /\ at[t] = "indices" /\ left[t] # {}
  /\ Assign(t, "indexInSubdomainRecv", Current(t).recv)
  /\ Goto(t, "send") /\ UNCHANGED buffer

AssignSendIndex(t) ==
  /\ at[t] = "send"
  /\ Assign(t, "indexInSubdomainSend", Current(t).send)
  /\ Goto(t, "recvSize") /\ UNCHANGED buffer

AssignRecvSize(t) ==
  /\ at[t] = "recvSize"
  /\ \E n \in Reads(t, "indexInSubdomainRecv") : Assign(t, "numNodesInBufferRecv", RecvNodes[n])
  /\ Goto(t, "sendSize") /\ UNCHANGED buffer

AssignSendSize(t) ==
  /\ at[t] = "sendSize"
  /\ \E n \in Reads(t, "indexInSubdomainSend") : Assign(t, "numNodesInBufferSend", SendNodes[n])
  /\ Goto(t, "copy") /\ UNCHANGED buffer

EndIteration(t) ==
  /\ left' = [left EXCEPT ![t] = @ \ {CHOOSE i \in @ : \A j \in @ : i <= j}]
  /\ at' = [at EXCEPT ![t] = "indices"]

\* A node that is not part of the reduced communication is left out ...
SkipNode(t) ==
  /\ at[t] = "copy"
  /\ \E n \in Reads(t, "numNodesInBufferSend") : Current(t).indexInSendBuffer >= n
  /\ EndIteration(t) /\ UNCHANGED <<shared, own, buffer>>

\* ... and the distributions of any other are copied: one of the 27 stands
\* for all.  A slot the send buffer does not have is memory of another.
CopyNode(t) ==
  /\ at[t] = "copy"
  /\ \E n \in Reads(t, "numNodesInBufferSend") : Current(t).indexInSendBuffer < n
  /\ \E from \in Reads(t, "indexInSubdomainRecv"), to \in Reads(t, "indexInSubdomainSend") :
       buffer' = IF Current(t).indexInSendBuffer \in Slots(to)
                 THEN [buffer EXCEPT ![to][Current(t).indexInSendBuffer] = <<from, Current(t).indexInRecvBuffer>>]
                 ELSE buffer
  /\ EndIteration(t) /\ UNCHANGED <<shared, own>>

Next == \E t \in Threads :
  \/ AssignRecvIndex(t) \/ AssignSendIndex(t) \/ AssignRecvSize(t) \/ AssignSendSize(t)
  \/ SkipNode(t) \/ CopyNode(t)

Spec == Init /\ [][Next]_vars

-----------------------------------------------------------------------------
(* Properties *)

\* After the loop, every edge node within the send buffer has the value that
\* was received for it, and no other slot has changed: what the tests expect
\* of copyEdgeNodes (ExchangeData27Test.cpp) with one neighbour to receive from.
EdgeNodesCopied ==
  (\A t \in Threads : left[t] = {}) =>
    \A n \in DOMAIN SendNodes : \A k \in Slots(n) :
      LET here == { i \in DOMAIN EdgeNodes : EdgeNodes[i].send = n /\ EdgeNodes[i].indexInSendBuffer = k }
      IN IF here = {} THEN buffer[n][k] = "collected"
         ELSE \E i \in here : buffer[n][k] = <<EdgeNodes[i].recv, EdgeNodes[i].indexInRecvBuffer>>
=============================================================================
