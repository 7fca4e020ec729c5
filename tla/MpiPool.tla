------------------------------ MODULE MpiPool ------------------------------
(***************************************************************************)
(* TbCbVectorMpiPool (src/parallel/transmitter/TbTransmitterMpiPool.h):    *)
(* the transmitters of all connectors between two ranks (and two levels)   *)
(* share one pool for each direction.  Each transmitter calls its pool as  *)
(* if it were alone; counters pick the one call in a round that does the   *)
(* work: the last call to sendData sends, the last to                      *)
(* prepareForReceiveData posts the receive, the first to receiveData waits. *)
(*                                                                         *)
(* A rank goes through its list of connectors as Simulation does:          *)
(* init, the exchange of the order of the vectors, and in every round      *)
(* connectorsPrepareRemote, connectorsSendRemote, connectorsReceiveRemote. *)
(* The vectors of the two ranks lie in their pools in the order of their   *)
(* own connectors, until the receiver adopts the order of the sender.      *)
(*                                                                         *)
(* An element of a vector is the key of the vector and the round it was    *)
(* written in.                                                             *)
(***************************************************************************)
EXTENDS Integers, Sequences, FiniteSets

CONSTANTS
  Ranks,
  Peer,           \* Peer[r]: the other rank
  Connectors,     \* Connectors[r]: list of [in, out], the keys of a connector's
                  \* receivers and senders
  Size,           \* Size[k]: elements of vector k
  Rounds,         \* bound
  EagerChoices    \* sets of ranks whose messages MPI buffers

Keys == DOMAIN Size

ASSUME PeerAssumption ==
  /\ \A r \in Ranks : Peer[r] \in Ranks \ {r} /\ Peer[Peer[r]] = r
  /\ Rounds \in Nat
  /\ EagerChoices \subseteq SUBSET Ranks

\* A vector holds what crosses a face or an edge of a block: not nothing.
ASSUME VectorAssumption ==
  /\ Size \in [Keys -> Nat \ {0}]
  /\ Connectors \in [Ranks -> Seq([in : Seq(Keys), out : Seq(Keys)])]

\* The i-th connector's j-th vector, in one direction.
Slots(r, field)    == UNION { {i} \X DOMAIN Connectors[r][i][field] : i \in DOMAIN Connectors[r] }
KeyAt(r, field, s) == Connectors[r][s[1]][field][s[2]]
KeysOf(r, field)   == { KeyAt(r, field, s) : s \in Slots(r, field) }
MapSize(r, field)  == Cardinality(KeysOf(r, field))      \* cbVectorMap.size()

\* The vectors of a pool have keys of their own (a second one of a key is the
\* subject of CbVectorPool.tla), and the other rank has their counterparts.
ASSUME KeyAssumption ==
  \A r \in Ranks :
    /\ KeysOf(r, "out") = KeysOf(Peer[r], "in") /\ KeysOf(r, "out") # {}
    /\ \A field \in {"in", "out"} : \A s, t \in Slots(r, field) :
         KeyAt(r, field, s) = KeyAt(r, field, t) => s = t

-----------------------------------------------------------------------------
(* Where a rank is *)

\* A pass goes through the connectors once; it has each of them do this, with
\* one call for each of its vectors.  The first three passes are the setup,
\* the others a round.
Passes == << <<"init">>, <<"sendDataOrder">>, <<"receiveDataOrder">>,
             <<"prepareForReceive", "prepareForSend">>, <<"fill", "send">>,
             <<"receive", "distribute">> >>
RoundBegins == 4

Ops == {"sendDataOrder", "receiveDataOrder", "prepareForReceive", "prepareForSend", "send", "receive"}
Field(op) == IF op \in {"receiveDataOrder", "prepareForReceive", "receive", "distribute"} THEN "in" ELSE "out"

VARIABLES
  at,             \* at[r]: the pass of a rank, the connector, what it does and
                  \* for which of its vectors
  round,          \* round of a rank, 0 during the setup
  sendPool, sendStart,      \* elements; first index of each vector
  recvPool, recvStart,      \* of the pool for the other direction
  counter,        \* counter[r][op]: the call counters of r's two pools
  orderRequest,   \* sendRequest[2] is not MPI_REQUEST_NULL
  receiveRequest, \* null, pending or complete
  wire,           \* wire[r]: messages to r in order, [kind, body]
  eager           \* ranks whose messages are buffered

progress == <<at, round>>
vars == <<progress, sendPool, sendStart, recvPool, recvStart, counter,
          orderRequest, receiveRequest, wire, eager>>

FirstVector(pass, connector, method) ==
  [pass |-> pass, connector |-> connector, method |-> method, vector |-> 1]
Beginning(pass) == FirstVector(pass, 1, 1)

Blank == [key |-> "none", round |-> 0]

Init ==
  /\ at = [r \in Ranks |-> Beginning(1)]
  /\ round = [r \in Ranks |-> 0]
  /\ sendPool = [r \in Ranks |-> <<>>]
  /\ sendStart = [r \in Ranks |-> [k \in KeysOf(r, "out") |-> 0]]
  /\ recvPool = [r \in Ranks |-> <<>>]
  /\ recvStart = [r \in Ranks |-> [k \in KeysOf(r, "in") |-> 0]]
  /\ counter = [r \in Ranks |-> [op \in Ops |-> 0]]
  /\ orderRequest = [r \in Ranks |-> FALSE]
  /\ receiveRequest = [r \in Ranks |-> "null"]
  /\ wire = [r \in Ranks |-> <<>>]
  /\ eager \in EagerChoices

-----------------------------------------------------------------------------
Op(r)      == Passes[at[r].pass][at[r].method]
Vectors(r) == Connectors[r][at[r].connector][Field(Op(r))]
Key(r)     == Vectors(r)[at[r].vector]

Done(r) == round[r] = Rounds + 1

Calling(r, op) == ~Done(r) /\ Op(r) = op /\ at[r].vector \in DOMAIN Vectors(r)

Proceed(r) ==
  /\ at' = [at EXCEPT ![r].vector = @ + 1]
  /\ UNCHANGED round

GoTo(r, place) == at' = [at EXCEPT ![r] = place]

\* After the last vector the rank turns to the connector's next method, to the
\* next connector or to the next pass.
MoveOn(r) ==
  LET here == at[r]
      LastMethod    == here.method = Len(Passes[here.pass])
      LastConnector == here.connector = Len(Connectors[r])
  IN  /\ ~Done(r) /\ here.vector = Len(Vectors(r)) + 1
      /\ \/ /\ ~LastMethod
            /\ GoTo(r, FirstVector(here.pass, here.connector, here.method + 1))
            /\ UNCHANGED round
         \/ /\ LastMethod /\ ~LastConnector
            /\ GoTo(r, FirstVector(here.pass, here.connector + 1, 1))
            /\ UNCHANGED round
         \/ /\ LastMethod /\ LastConnector
            /\ IF here.pass = Len(Passes)
                 THEN GoTo(r, Beginning(RoundBegins)) /\ round' = [round EXCEPT ![r] = @ + 1]
                 ELSE /\ GoTo(r, Beginning(here.pass + 1))
                      /\ round' = [round EXCEPT ![r] = IF here.pass + 1 = RoundBegins THEN 1 ELSE @]
      /\ UNCHANGED <<sendPool, sendStart, recvPool, recvStart, counter, orderRequest, receiveRequest,
                     wire, eager>>

\* Faulty variant: the first call of a round does the work.
FirstCall(r, field) == counter[r][Op(r)] = 0

\* The call at hand brings the counter of its operation to the number of
\* vectors.
LastCall(r, field) == counter[r][Op(r)] + 1 = MapSize(r, field)

\* Faulty variant: the counter is not reset.
CountOn(r, field) == counter' = [counter EXCEPT ![r][Op(r)] = @ + 1]

Count(r, field) ==
  counter' = [counter EXCEPT ![r][Op(r)] = IF @ + 1 = MapSize(r, field) THEN 0 ELSE @ + 1]

Put(r, message) == wire' = [wire EXCEPT ![Peer[r]] = Append(@, message)]

\* The connector's init: its sender's vector gets its length, at the end of
\* the pool.
InitVector(r) ==
  /\ Calling(r, "init")
  /\ sendStart' = [sendStart EXCEPT ![r][Key(r)] = Len(sendPool[r])]
  /\ sendPool' = [sendPool EXCEPT ![r] = @ \o [i \in 1 .. Size[Key(r)] |-> Blank]]
  /\ Proceed(r)
  /\ UNCHANGED <<recvPool, recvStart, counter, orderRequest, receiveRequest, wire, eager>>

\* Three MPI_Isend: the length of the pool and the place of each vector, the
\* length of the keys, the keys.  Nothing comes between them.
OrderMessage(r) == [kind |-> "order", body |-> [length |-> Len(sendPool[r]), start |-> sendStart[r]]]

SendDataOrder(r) ==
  /\ Calling(r, "sendDataOrder")
  /\ Count(r, "out")
  /\ IF LastCall(r, "out")
       THEN Put(r, OrderMessage(r)) /\ orderRequest' = [orderRequest EXCEPT ![r] = TRUE]
       ELSE UNCHANGED <<wire, orderRequest>>
  /\ Proceed(r)
  /\ UNCHANGED <<sendPool, sendStart, recvPool, recvStart, receiveRequest, eager>>

\* Faulty variant: the receiver's vectors stay where they are.
OwnOrder(r, start) == recvStart[r]

AdoptedOrder(r, start) == start

\* MPI_Recv of the order; the pool and the vectors are set up as the sender's.
ReceiveDataOrder(r) ==
  /\ Calling(r, "receiveDataOrder")
  /\ Count(r, "in")
  /\ IF LastCall(r, "in")
       THEN /\ wire[r] # <<>>
            /\ recvStart' = [recvStart EXCEPT ![r] = AdoptedOrder(r, Head(wire[r]).body.start)]
            /\ recvPool' = [recvPool EXCEPT ![r] = [i \in 1 .. Head(wire[r]).body.length |-> Blank]]
            /\ wire' = [wire EXCEPT ![r] = Tail(@)]
       ELSE UNCHANGED <<recvStart, recvPool, wire>>
  /\ Proceed(r)
  /\ UNCHANGED <<sendPool, sendStart, orderRequest, receiveRequest, eager>>

\* Faulty variant: the receive is left to the call that waits.
PrepareNothing(r) ==
  /\ Calling(r, "prepareForReceive")
  /\ Count(r, "in")
  /\ Proceed(r)
  /\ UNCHANGED <<sendPool, sendStart, recvPool, recvStart, orderRequest, receiveRequest, wire, eager>>

\* The last call of a round posts MPI_Irecv into the pool.
PrepareForReceive(r) ==
  /\ Calling(r, "prepareForReceive")
  /\ Count(r, "in")
  /\ IF LastCall(r, "in")
       THEN receiveRequest' = [receiveRequest EXCEPT ![r] = "pending"]
       ELSE UNCHANGED receiveRequest
  /\ Proceed(r)
  /\ UNCHANGED <<sendPool, sendStart, recvPool, recvStart, orderRequest, wire, eager>>

OrderOnTheWay(r) == \E i \in DOMAIN wire[Peer[r]] : wire[Peer[r]][i].kind = "order"

\* The first call of a round waits for the messages of sendDataOrder.
PrepareForSend(r) ==
  /\ Calling(r, "prepareForSend")
  /\ Count(r, "out")
  /\ IF counter[r]["prepareForSend"] = 0 /\ orderRequest[r]
       THEN /\ r \in eager \/ ~OrderOnTheWay(r)
            /\ orderRequest' = [orderRequest EXCEPT ![r] = FALSE]
       ELSE UNCHANGED orderRequest
  /\ Proceed(r)
  /\ UNCHANGED <<sendPool, sendStart, recvPool, recvStart, receiveRequest, wire, eager>>

\* fillSendVectors of the connector.
FillVector(r) ==
  LET k == Key(r)
  IN  /\ Calling(r, "fill")
      /\ sendPool' = [sendPool EXCEPT ![r] =
                        [i \in DOMAIN @ |-> IF i \in sendStart[r][k] + 1 .. sendStart[r][k] + Size[k]
                                              THEN [key |-> k, round |-> round[r]] ELSE @[i]]]
      /\ Proceed(r)
      /\ UNCHANGED <<sendStart, recvPool, recvStart, counter, orderRequest, receiveRequest, wire, eager>>

\* MPI_Send of the whole pool; it returns when MPI has buffered the message or
\* the other rank has posted its receive.
SendData(r) ==
  /\ Calling(r, "send")
  /\ Count(r, "out")
  /\ IF LastCall(r, "out")
       THEN /\ r \in eager \/ (receiveRequest[Peer[r]] = "pending" /\ wire[Peer[r]] = <<>>)
            /\ Put(r, [kind |-> "data", body |-> sendPool[r]])
       ELSE UNCHANGED wire
  /\ Proceed(r)
  /\ UNCHANGED <<sendPool, sendStart, recvPool, recvStart, orderRequest, receiveRequest, eager>>

\* MPI writes a message into the pool whose receive has been posted.
Deliver(r) ==
  /\ receiveRequest[r] = "pending"
  /\ wire[r] # <<>>
  /\ recvPool' = [recvPool EXCEPT ![r] = Head(wire[r]).body]
  /\ wire' = [wire EXCEPT ![r] = Tail(@)]
  /\ receiveRequest' = [receiveRequest EXCEPT ![r] = "complete"]
  /\ UNCHANGED <<progress, sendPool, sendStart, recvStart, counter, orderRequest, eager>>

Waits(r) == counter[r]["receive"] = 0

\* The first call of a round waits; MPI_Wait returns at once on a null request.
ReceiveData(r) ==
  /\ Calling(r, "receive")
  /\ Count(r, "in")
  /\ IF Waits(r)
       THEN /\ receiveRequest[r] # "pending"
            /\ receiveRequest' = [receiveRequest EXCEPT ![r] = "null"]
       ELSE UNCHANGED receiveRequest
  /\ Proceed(r)
  /\ UNCHANGED <<sendPool, sendStart, recvPool, recvStart, orderRequest, wire, eager>>

\* distributeReceiveVectors of the connector reads its vector.
DistributeVector(r) ==
  /\ Calling(r, "distribute")
  /\ Proceed(r)
  /\ UNCHANGED <<sendPool, sendStart, recvPool, recvStart, counter, orderRequest, receiveRequest, wire, eager>>

Step(r) ==
  \/ InitVector(r) \/ SendDataOrder(r) \/ ReceiveDataOrder(r)
  \/ PrepareForReceive(r) \/ PrepareForSend(r)
  \/ FillVector(r) \/ SendData(r)
  \/ ReceiveData(r) \/ DistributeVector(r)
  \/ MoveOn(r)

Next == \E r \in Ranks : Step(r) \/ Deliver(r)

\* Ranks are processes of their own, and MPI makes progress.
Fairness == \A r \in Ranks : WF_vars(Step(r)) /\ WF_vars(Deliver(r))

Spec     == Init /\ [][Next]_vars
FairSpec == Spec /\ Fairness

-----------------------------------------------------------------------------
(* Properties *)

\* Every variable has its type; a call counter never passes the number of
\* vectors of its pool.
TypeOK ==
  \A r \in Ranks :
    /\ at[r].pass \in DOMAIN Passes /\ at[r].connector \in DOMAIN Connectors[r]
    /\ at[r].method \in DOMAIN Passes[at[r].pass] /\ at[r].vector \in 1 .. Len(Vectors(r)) + 1
    /\ round[r] \in 0 .. Rounds + 1
    /\ DOMAIN sendStart[r] = KeysOf(r, "out") /\ DOMAIN recvStart[r] = KeysOf(r, "in")
    /\ \A k \in DOMAIN sendStart[r] : sendStart[r][k] \in 0 .. Len(sendPool[r])
    /\ \A op \in Ops : counter[r][op] \in
         0 .. MapSize(r, Field(op)) - 1
    /\ orderRequest[r] \in BOOLEAN
    /\ receiveRequest[r] \in {"null", "pending", "complete"}
    /\ \A i \in DOMAIN wire[r] : wire[r][i].kind \in {"order", "data"}
  /\ eager \subseteq Ranks

\* A connector reads from its vector exactly what the connector of the same
\* key filled in on the other rank in the same round, and MPI is not writing
\* to the pool meanwhile.
ReadsItsVector ==
  \A r \in Ranks : Calling(r, "distribute") =>
    /\ receiveRequest[r] = "null"
    /\ \A i \in 1 .. Size[Key(r)] :
         recvPool[r][recvStart[r][Key(r)] + i] = [key |-> Key(r), round |-> round[r]]

\* The round of which all elements are, or -2.
RoundOf(elements) ==
  IF \A i, j \in DOMAIN elements : elements[i].round = elements[j].round
    THEN elements[1].round ELSE -2

Message(m) == IF m.kind = "order" THEN 0 ELSE RoundOf(m.body)

\* The channel is what has been sent and not been waited for: the message that
\* MPI has written into the pool is still on its way.
OnTheirWay ==
  [r \in Ranks |-> (IF receiveRequest[r] = "complete" THEN <<RoundOf(recvPool[r])>> ELSE <<>>)
                     \o [i \in DOMAIN wire[r] |-> Message(wire[r][i])]]
LastReceived ==
  [r \in Ranks |-> IF recvPool[r] = <<>> THEN -1
                   ELSE IF receiveRequest[r] = "complete" THEN RoundOf(recvPool[r]) - 1
                   ELSE RoundOf(recvPool[r])]
PostedReceives == { r \in Ranks : receiveRequest[r] # "null" }

Channel ==
  INSTANCE PoolChannel WITH
    posted <- PostedReceives, net <- OnTheirWay, received <- LastReceived

\* All the calls on the pools of two ranks amount to one order message and one
\* message per round, received in the round it was sent in.
OneMessagePerRound == Channel!Spec

\* Both ranks get through all rounds, however MPI buffers.
AllRoundsEnd == <>(\A r \in Ranks : Done(r))

=============================================================================
