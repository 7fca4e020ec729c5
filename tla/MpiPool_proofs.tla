---------------------------- MODULE MpiPool_proofs ----------------------------
(***************************************************************************)
(* Proofs about the pools between two ranks, for any connectors on either  *)
(* side, any sizes of their vectors and any number of rounds.              *)
(*                                                                         *)
(* The argument: from the place of a rank follows for which vectors it has *)
(* called an operation in this pass (Called), so a counter is the number   *)
(* of these vectors (Counters), and the call that does the work is the one *)
(* after which none is left.  This makes Sent, Posted and Waited, which    *)
(* count messages, functions of the place.  On its way to a rank is what   *)
(* its peer has sent and it has not taken (Conforms): the order, then one  *)
(* round after the other, each holding what every vector was filled with   *)
(* in that round (Written); it is read at the places the sender gave its   *)
(* vectors (Received), which cover the pool without overlapping (Layout).  *)
(***************************************************************************)
EXTENDS MpiPool, SequenceTheorems, FiniteSetTheorems, TLAPS

-----------------------------------------------------------------------------
(* How far a rank is in its pass *)

PassOf(op) ==
  CASE op = "init" -> 1
    [] op = "sendDataOrder" -> 2
    [] op = "receiveDataOrder" -> 3
    [] op \in {"prepareForReceive", "prepareForSend"} -> 4
    [] op \in {"fill", "send"} -> 5
    [] op \in {"receive", "distribute"} -> 6
MethodOf(op) == IF op \in {"prepareForSend", "send", "distribute"} THEN 2 ELSE 1

\* The call of an operation for the vector in slot s comes before a place of
\* the same pass.
Before(op, s, place) ==
  \/ s[1] < place.connector
  \/ s[1] = place.connector /\ MethodOf(op) < place.method
  \/ s[1] = place.connector /\ MethodOf(op) = place.method /\ s[2] < place.vector

SlotsBefore(r, op, place) == { s \in Slots(r, Field(op)) : Before(op, s, place) }
CalledAt(r, op, place)    == { KeyAt(r, Field(op), s) : s \in SlotsBefore(r, op, place) }

\* The vectors for which an operation has been called in this pass.
Called(r, op) == CalledAt(r, op, at[r])

\* In this round, or in the setup, all calls of an operation have been made.
Ended(r, op) ==
  \/ at[r].pass > PassOf(op)
  \/ at[r].pass = PassOf(op) /\ Called(r, op) = KeysOf(r, Field(op))

OneIf(b) == IF b THEN 1 ELSE 0
InRounds(r) == at[r].pass >= RoundBegins

\* How many messages a rank has sent, how many receives it has posted, and how
\* many it has waited for.
Sent(r)   == IF InRounds(r) THEN round[r] - 1 + OneIf(Ended(r, "send")) ELSE 0
Posted(r) == IF InRounds(r) THEN round[r] - 1 + OneIf(Ended(r, "prepareForReceive")) ELSE 0
Waited(r) == IF InRounds(r)
               THEN round[r] - 1 + OneIf(at[r].pass = 6 /\ Called(r, "receive") # {}) ELSE 0
Taken(r)  == Waited(r) + OneIf(receiveRequest[r] = "complete")

OrderSent(r)  == Ended(r, "sendDataOrder")
OrderTaken(r) == Ended(r, "receiveDataOrder")

-----------------------------------------------------------------------------
(* The invariant *)

\* The place is one of the program, and the setup is round 0.
PlaceType == [pass : 1 .. 6, connector : Nat \ {0}, method : 1 .. 2, vector : Nat \ {0}]
Places ==
  /\ at \in [Ranks -> PlaceType] /\ round \in [Ranks -> Nat]
  /\ \A r \in Ranks :
       /\ at[r].connector \in 1 .. Len(Connectors[r])
       /\ at[r].method \in 1 .. Len(Passes[at[r].pass])
       /\ at[r].vector \in 1 .. Len(Vectors(r)) + 1
       /\ IF InRounds(r) THEN round[r] \in 1 .. Rounds + 1 ELSE round[r] = 0
       /\ Done(r) => at[r] = Beginning(RoundBegins)

\* A counter is the number of vectors its operation has been called for, until
\* it has been called for all.
Counters ==
  /\ counter \in [Ranks -> [Ops -> Nat]]
  /\ \A r \in Ranks, op \in Ops :
       counter[r][op] = IF at[r].pass = PassOf(op) /\ ~Ended(r, op) THEN Cardinality(Called(r, op)) ELSE 0

\* The vectors that have got their length lie one behind the other in the pool.
LaidOut(r) == IF at[r].pass = 1 THEN Called(r, "init") ELSE KeysOf(r, "out")
Extent(r, k) == sendStart[r][k] + 1 .. sendStart[r][k] + Size[k]
Layout ==
  /\ DOMAIN sendStart = Ranks
  /\ \A r \in Ranks :
       /\ sendStart[r] \in [KeysOf(r, "out") -> 0 .. Len(sendPool[r])]
       /\ \A k \in LaidOut(r) : Extent(r, k) \subseteq 1 .. Len(sendPool[r])
       /\ \A k, l \in LaidOut(r) : k # l => Extent(r, k) \cap Extent(r, l) = {}
       /\ \A i \in 1 .. Len(sendPool[r]) : \E k \in LaidOut(r) : i \in Extent(r, k)

Elements == [key : Keys \cup {"none"}, round : Nat]

\* A pool of r holds what r has filled into vector k in round n, or into all.
Holds(pool, r, k, n) == \A i \in Extent(r, k) : pool[i] = [key |-> k, round |-> n]
Written(pool, r, n)  ==
  /\ pool \in Seq(Elements) /\ Len(pool) = Len(sendPool[r])
  /\ \A k \in KeysOf(r, "out") : Holds(pool, r, k, n)

Filled ==
  /\ sendPool \in [Ranks -> Seq(Elements)]
  /\ \A r \in Ranks :
       at[r].pass = 5 => \A k \in Called(r, "fill") : Holds(sendPool[r], r, k, round[r])

\* What is on its way to r is what its peer has sent and r has not taken: the
\* order first, then the rounds.
OrderPending(r) == OneIf(OrderSent(Peer[r]) /\ ~OrderTaken(r))
Orders   == [length : Nat, start : UNION { [K -> Nat] : K \in SUBSET Keys }]
Messages == [kind : {"order", "data"}, body : Seq(Elements) \cup Orders]
Conforms(r) ==
  /\ OrderTaken(r) => OrderSent(Peer[r])
  /\ Taken(r) =< Sent(Peer[r])
  /\ Len(wire[r]) = OrderPending(r) + Sent(Peer[r]) - Taken(r)
  /\ OrderPending(r) = 1 => wire[r][1] = OrderMessage(Peer[r])
  /\ \A j \in 1 .. Sent(Peer[r]) - Taken(r) :
       /\ wire[r][OrderPending(r) + j].kind = "data"
       /\ Written(wire[r][OrderPending(r) + j].body, Peer[r], Taken(r) + j)
Wires == wire \in [Ranks -> Seq(Messages)] /\ \A r \in Ranks : Conforms(r)

\* The receiver's pool is laid out as the sender's, and holds the last round
\* that was taken.
Received(r) ==
  /\ DOMAIN recvStart[r] = KeysOf(r, "in")
  /\ IF ~OrderTaken(r) THEN recvPool[r] = <<>>
     ELSE /\ recvStart[r] = sendStart[Peer[r]]
          /\ IF Taken(r) = 0
               THEN recvPool[r] = [i \in 1 .. Len(sendPool[Peer[r]]) |-> Blank]
               ELSE Written(recvPool[r], Peer[r], Taken(r))
RecvPools ==
  /\ recvPool \in [Ranks -> Seq(Elements)] /\ DOMAIN recvStart = Ranks
  /\ \A r \in Ranks : Received(r)

\* A receive is on its way exactly if one more was posted than waited for.
RequestsOK ==
  /\ orderRequest \in [Ranks -> BOOLEAN] /\ eager \in SUBSET Ranks /\ DOMAIN receiveRequest = Ranks
  /\ \A r \in Ranks :
       IF Posted(r) = Waited(r) THEN receiveRequest[r] = "null"
       ELSE Posted(r) = Waited(r) + 1 /\ receiveRequest[r] \in {"pending", "complete"}

Inv == Places /\ Counters /\ Layout /\ Filled /\ Wires /\ RecvPools /\ RequestsOK

AllOps == Ops \cup {"init", "fill", "distribute"}

-----------------------------------------------------------------------------
(* The program of a rank *)

\* The peer of the peer; what one sends the other receives, and it is something.
LEMMA Peers ==
  ASSUME NEW r \in Ranks
  PROVE  /\ Peer[r] \in Ranks /\ Peer[r] # r /\ Peer[Peer[r]] = r
         /\ KeysOf(r, "out") = KeysOf(Peer[r], "in") /\ KeysOf(r, "in") = KeysOf(Peer[r], "out")
         /\ KeysOf(r, "out") # {} /\ KeysOf(r, "in") # {}
<1>1. Peer[r] \in Ranks /\ Peer[r] # r /\ Peer[Peer[r]] = r
  BY PeerAssumption
<1>2. \A q \in Ranks : KeysOf(q, "out") = KeysOf(Peer[q], "in") /\ KeysOf(q, "out") # {}
  BY KeyAssumption
<1> QED
  BY <1>1, <1>2

\* The connectors have lists of keys.
LEMMA ConnectorFacts ==
  ASSUME NEW r \in Ranks, NEW field \in {"in", "out"}
  PROVE  /\ Connectors[r] \in Seq([in : Seq(Keys), out : Seq(Keys)])
         /\ DOMAIN Connectors[r] = 1 .. Len(Connectors[r]) /\ Len(Connectors[r]) \in Nat
         /\ \A i \in DOMAIN Connectors[r] :
              /\ Connectors[r][i][field] \in Seq(Keys)
              /\ Len(Connectors[r][i][field]) \in Nat
              /\ DOMAIN Connectors[r][i][field] = 1 .. Len(Connectors[r][i][field])
<1>1. Connectors[r] \in Seq([in : Seq(Keys), out : Seq(Keys)])
  BY VectorAssumption
<1>2. DOMAIN Connectors[r] = 1 .. Len(Connectors[r]) /\ Len(Connectors[r]) \in Nat
  BY <1>1
<1>3. \A i \in DOMAIN Connectors[r] : Connectors[r][i] \in [in : Seq(Keys), out : Seq(Keys)]
  BY <1>1, <1>2, ElementOfSeq
<1>4. \A i \in DOMAIN Connectors[r] : Connectors[r][i][field] \in Seq(Keys)
  BY <1>3
<1> QED
  BY <1>1, <1>2, <1>4

\* A slot is a vector of a connector, its key a key.
LEMMA SlotFacts ==
  ASSUME NEW r \in Ranks, NEW field \in {"in", "out"}
  PROVE  /\ \A s : s \in Slots(r, field) <=>
                     \E i \in DOMAIN Connectors[r] : \E j \in DOMAIN Connectors[r][i][field] : s = <<i, j>>
         /\ \A s \in Slots(r, field) :
              /\ s[1] \in 1 .. Len(Connectors[r])
              /\ s[2] \in 1 .. Len(Connectors[r][s[1]][field])
              /\ KeyAt(r, field, s) \in Keys
<1>1. \A s : s \in Slots(r, field) <=>
               \E i \in DOMAIN Connectors[r] : \E j \in DOMAIN Connectors[r][i][field] : s = <<i, j>>
  BY DEF Slots
<1>2. ASSUME NEW s \in Slots(r, field)
      PROVE  /\ s[1] \in 1 .. Len(Connectors[r])
             /\ s[2] \in 1 .. Len(Connectors[r][s[1]][field])
             /\ KeyAt(r, field, s) \in Keys
  <2>1. PICK i \in DOMAIN Connectors[r] : \E j \in DOMAIN Connectors[r][i][field] : s = <<i, j>>
    BY <1>1
  <2>2. PICK j \in DOMAIN Connectors[r][i][field] : s = <<i, j>>
    BY <2>1
  <2>3. Connectors[r][i][field] \in Seq(Keys) /\ j \in 1 .. Len(Connectors[r][i][field])
    BY ConnectorFacts
  <2>4. Connectors[r][i][field][j] \in Keys
    BY <2>3, ElementOfSeq
  <2> QED
    BY <2>2, <2>3, <2>4, ConnectorFacts DEF KeyAt
<1> QED
  BY <1>1, <1>2

\* The keys of a pool are finitely many, and their vectors have a size.
LEMMA KeyFacts ==
  ASSUME NEW r \in Ranks, NEW field \in {"in", "out"}
  PROVE  /\ IsFiniteSet(KeysOf(r, field)) /\ KeysOf(r, field) \subseteq Keys
         /\ \A k \in KeysOf(r, field) : Size[k] \in Nat \ {0}
<1>1. KeysOf(r, field) \subseteq Keys
  BY SlotFacts DEF KeysOf
<1>2. \A k \in Keys : Size[k] \in Nat \ {0}
  BY VectorAssumption
<1>3. IsFiniteSet(KeysOf(r, field))
  <2> DEFINE Of(i) == { Connectors[r][i][field][j] : j \in 1 .. Len(Connectors[r][i][field]) }
             n == Len(Connectors[r])
             Parts == { Of(i) : i \in 1 .. n }
             F == [i \in 1 .. n |-> Of(i)]
  <2>1. n \in Nat /\ IsFiniteSet(1 .. n)
    BY ConnectorFacts, FS_Interval
  <2>2. F \in Surjection(1 .. n, Parts)
    BY DEF Surjection
  <2>3. IsFiniteSet(Parts)
    BY <2>1, <2>2, FS_Surjection
  <2>4. ASSUME NEW i \in 1 .. n PROVE IsFiniteSet(Of(i))
    <3> DEFINE m == Len(Connectors[r][i][field])
               G == [j \in 1 .. m |-> Connectors[r][i][field][j]]
    <3>1. m \in Nat
      BY ConnectorFacts
    <3> HIDE DEF m
    <3>2. IsFiniteSet(1 .. m)
      BY <3>1, FS_Interval
    <3> USE DEF m
    <3>3. G \in Surjection(1 .. m, Of(i))
      BY DEF Surjection
    <3> QED
      BY <3>2, <3>3, FS_Surjection
  <2>5. IsFiniteSet(UNION Parts)
    BY <2>3, <2>4, FS_UNION
  <2>6. KeysOf(r, field) \subseteq UNION Parts
    <3> SUFFICES ASSUME NEW s \in Slots(r, field) PROVE KeyAt(r, field, s) \in UNION Parts
      BY DEF KeysOf
    <3>1. KeyAt(r, field, s) \in Of(s[1]) /\ s[1] \in 1 .. n
      BY SlotFacts DEF KeyAt
    <3> QED
      BY <3>1
  <2> QED
    BY <2>5, <2>6, FS_Subset
<1> QED
  BY <1>1, <1>2, <1>3

\* Where the calls of an operation are in the program.
LEMMA PassFacts ==
  /\ Len(Passes) = 6
  /\ \A p \in 1 .. 6 : Len(Passes[p]) \in 1 .. 2
  /\ \A op \in AllOps : /\ PassOf(op) \in 1 .. 6 /\ MethodOf(op) \in 1 .. Len(Passes[PassOf(op)])
                        /\ Passes[PassOf(op)][MethodOf(op)] = op
                        /\ Field(op) \in {"in", "out"}
  /\ \A p \in 1 .. 6 : \A m \in 1 .. Len(Passes[p]) :
       Passes[p][m] \in AllOps /\ PassOf(Passes[p][m]) = p /\ MethodOf(Passes[p][m]) = m
<1>1. Len(Passes) = 6 /\ \A p \in 1 .. 6 : Len(Passes[p]) \in 1 .. 2
  BY DEF Passes
<1>2. ASSUME NEW op \in AllOps
      PROVE  /\ PassOf(op) \in 1 .. 6 /\ MethodOf(op) \in 1 .. Len(Passes[PassOf(op)])
             /\ Passes[PassOf(op)][MethodOf(op)] = op
             /\ Field(op) \in {"in", "out"}
  BY DEF AllOps, Ops, PassOf, MethodOf, Passes, Field
<1>3. ASSUME NEW p \in 1 .. 6, NEW m \in 1 .. Len(Passes[p])
      PROVE  Passes[p][m] \in AllOps /\ PassOf(Passes[p][m]) = p /\ MethodOf(Passes[p][m]) = m
  <2>1. p = 1 \/ p = 2 \/ p = 3 \/ p = 4 \/ p = 5 \/ p = 6
    OBVIOUS
  <2> QED
    BY <2>1 DEF AllOps, Ops, PassOf, MethodOf, Passes
<1> QED
  BY <1>1, <1>2, <1>3

\* The call at hand: it is in its pass, for a vector of its pool for which it
\* has not been called yet.
LEMMA CallHere ==
  ASSUME Places, NEW r \in Ranks, NEW op \in AllOps, Calling(r, op)
  PROVE  /\ at[r].pass = PassOf(op) /\ at[r].method = MethodOf(op) /\ ~Done(r)
         /\ Op(r) = op /\ Vectors(r) = Connectors[r][at[r].connector][Field(op)]
         /\ <<at[r].connector, at[r].vector>> \in Slots(r, Field(op))
         /\ Key(r) = KeyAt(r, Field(op), <<at[r].connector, at[r].vector>>)
         /\ Key(r) \in KeysOf(r, Field(op)) /\ Key(r) \notin Called(r, op)
         /\ Called(r, op) \subseteq KeysOf(r, Field(op))
         /\ ~Ended(r, op)
<1> DEFINE here == <<at[r].connector, at[r].vector>>
<1>1. /\ at[r] \in PlaceType /\ at[r].connector \in 1 .. Len(Connectors[r])
      /\ at[r].method \in 1 .. Len(Passes[at[r].pass])
  BY DEF Places
<1>2. at[r].pass \in 1 .. 6 /\ at[r].connector \in Nat /\ at[r].method \in Nat /\ at[r].vector \in Nat
  BY <1>1 DEF PlaceType
<1>3. at[r].pass = PassOf(op) /\ at[r].method = MethodOf(op) /\ ~Done(r) /\ Op(r) = op
  BY <1>1, <1>2, PassFacts DEF Calling, Op
<1>4. Vectors(r) = Connectors[r][at[r].connector][Field(op)]
  BY <1>3 DEF Vectors
<1>5. Field(op) \in {"in", "out"}
  BY PassFacts
<1>6. at[r].vector \in DOMAIN Connectors[r][at[r].connector][Field(op)]
  BY <1>4 DEF Calling
<1>7. at[r].connector \in DOMAIN Connectors[r]
  BY <1>1, <1>5, ConnectorFacts
<1>8. here \in Slots(r, Field(op))
  BY <1>5, <1>6, <1>7, SlotFacts
<1>9. Key(r) = KeyAt(r, Field(op), here)
  BY <1>4 DEF Key, KeyAt
<1>10. Key(r) \in KeysOf(r, Field(op))
  BY <1>8, <1>9 DEF KeysOf
<1>11. Called(r, op) \subseteq KeysOf(r, Field(op))
  BY DEF Called, CalledAt, SlotsBefore, KeysOf
<1>12. Key(r) \notin Called(r, op)
  <2> SUFFICES ASSUME NEW s \in Slots(r, Field(op)), Before(op, s, at[r]), KeyAt(r, Field(op), s) = Key(r)
               PROVE  FALSE
    BY DEF Called, CalledAt, SlotsBefore
  <2>1. s = here
    BY <1>5, <1>8, <1>9, KeyAssumption
  <2> QED
    BY <2>1, <1>2, <1>3 DEF Before
<1>13. ~Ended(r, op)
  BY <1>2, <1>3, <1>10, <1>12 DEF Ended
<1> QED
  BY <1>3, <1>4, <1>8, <1>9, <1>10, <1>11, <1>12, <1>13

\* What a call leaves behind: one more vector for which its operation has been
\* called, and nothing else.
LEMMA CallMade ==
  ASSUME Places, NEW r \in Ranks, NEW op \in AllOps, Calling(r, op), Proceed(r)
  PROVE  /\ Places'
         /\ \A q \in Ranks : q # r => at'[q] = at[q]
         /\ round' = round /\ at'[r].pass = at[r].pass
         /\ Called(r, op)' = Called(r, op) \cup {Key(r)}
         /\ \A o \in AllOps : o # op /\ PassOf(o) = PassOf(op) => Called(r, o)' = Called(r, o)
<1> DEFINE here == <<at[r].connector, at[r].vector>>
<1>1. /\ at \in [Ranks -> PlaceType] /\ round \in [Ranks -> Nat]
      /\ at[r] \in PlaceType /\ at[r].connector \in 1 .. Len(Connectors[r])
      /\ at[r].vector \in 1 .. Len(Vectors(r)) + 1
      /\ at[r].vector \in Nat /\ at[r].connector \in Nat /\ at[r].pass \in 1 .. 6 /\ at[r].method \in Nat
  BY DEF Places, PlaceType
<1>2. /\ at' = [at EXCEPT ![r].vector = @ + 1] /\ round' = round
      /\ at' \in [Ranks -> PlaceType]
      /\ \A q \in Ranks : q # r => at'[q] = at[q]
      /\ at'[r].pass = at[r].pass /\ at'[r].connector = at[r].connector
      /\ at'[r].method = at[r].method /\ at'[r].vector = at[r].vector + 1
  BY <1>1 DEF Proceed, PlaceType
<1>3. /\ at[r].method = MethodOf(op) /\ ~Done(r) /\ Op(r) = op
      /\ here \in Slots(r, Field(op)) /\ Key(r) = KeyAt(r, Field(op), here)
      /\ Vectors(r) = Connectors[r][at[r].connector][Field(op)]
      /\ at[r].pass = PassOf(op)
  BY CallHere
<1>4. Places'
  <2>1. Vectors(r)' = Vectors(r) /\ \A q \in Ranks : q # r => Vectors(q)' = Vectors(q)
    BY <1>2 DEF Vectors, Op
  <2>2. Field(op) \in {"in", "out"} /\ at[r].connector \in DOMAIN Connectors[r]
    BY <1>1, PassFacts, ConnectorFacts
  <2>3. at[r].vector \in 1 .. Len(Vectors(r)) /\ Len(Vectors(r)) \in Nat
    BY ZenonT(40), <1>3, <2>2, ConnectorFacts DEF Calling
  <2>4. at'[r].vector \in 1 .. Len(Vectors(r)) + 1
    BY <1>1, <1>2, <2>3
  <2>5. ASSUME NEW q \in Ranks
        PROVE  /\ at'[q].connector \in 1 .. Len(Connectors[q])
               /\ at'[q].method \in 1 .. Len(Passes[at'[q].pass])
               /\ at'[q].vector \in 1 .. Len(Vectors(q)') + 1
               /\ IF InRounds(q)' THEN round'[q] \in 1 .. Rounds + 1 ELSE round'[q] = 0
               /\ (Done(q) => at[q] = Beginning(RoundBegins))'
    <3>1. CASE q = r
      BY <3>1, <1>2, <1>3, <2>1, <2>4 DEF Places, InRounds, Done
    <3>2. CASE q # r
      BY <3>2, <1>2, <2>1 DEF Places, InRounds, Done
    <3> QED
      BY <3>1, <3>2
  <2> QED
    BY <1>1, <1>2, <2>5 DEF Places
<1>5. ASSUME NEW s \in Slots(r, Field(op)) PROVE Before(op, s, at'[r]) <=> Before(op, s, at[r]) \/ s = here
  <2>1. Field(op) \in {"in", "out"}
    BY PassFacts
  <2>2. PICK i \in DOMAIN Connectors[r] : \E j \in DOMAIN Connectors[r][i][Field(op)] : s = <<i, j>>
    BY <2>1, SlotFacts
  <2>3. PICK j \in DOMAIN Connectors[r][i][Field(op)] : s = <<i, j>>
    BY <2>2
  <2>4. i \in 1 .. Len(Connectors[r]) /\ j \in 1 .. Len(Connectors[r][i][Field(op)])
    BY <2>1, ConnectorFacts
  <2>5. i \in Nat /\ j \in Nat
    BY <2>4
  <2> QED
    BY <2>3, <2>5, <1>1, <1>2, <1>3 DEF Before
<1>6. Called(r, op)' = Called(r, op) \cup {Key(r)}
  <2>1. SlotsBefore(r, op, at'[r]) = SlotsBefore(r, op, at[r]) \cup {here}
    BY <1>3, <1>5 DEF SlotsBefore
  <2> QED
    BY <2>1, <1>3 DEF Called, CalledAt
<1>7. ASSUME NEW o \in AllOps, o # op, PassOf(o) = PassOf(op) PROVE Called(r, o)' = Called(r, o)
  <2>1. MethodOf(o) # MethodOf(op)
    BY <1>7, PassFacts
  <2>2. \A s \in Slots(r, Field(o)) : Before(o, s, at'[r]) <=> Before(o, s, at[r])
    BY <2>1, <1>2, <1>3 DEF Before
  <2> QED
    BY <2>2 DEF Called, CalledAt, SlotsBefore
<1> QED
  BY <1>2, <1>4, <1>6, <1>7

\* With the vectors of a method done, all or none of a connector's calls are
\* before the rank: it turns to the next method or the next connector.
LEMMA SameCalls ==
  ASSUME Places, NEW r \in Ranks, MoveOn(r), at'[r].pass = at[r].pass,
         NEW op \in AllOps, PassOf(op) = at[r].pass
  PROVE  Called(r, op)' = Called(r, op)
<1> DEFINE here == at[r]
<1>1. /\ at \in [Ranks -> PlaceType] /\ here \in PlaceType
      /\ here.method \in 1 .. Len(Passes[here.pass]) /\ here.connector \in 1 .. Len(Connectors[r])
      /\ here.pass \in 1 .. 6 /\ here.connector \in Nat /\ here.vector \in Nat /\ here.method \in Nat
      /\ Len(Passes[here.pass]) \in 1 .. 2
  BY PassFacts DEF Places, PlaceType
<1>2. Field(op) \in {"in", "out"} /\ MethodOf(op) \in 1 .. Len(Passes[here.pass])
  BY PassFacts
<1>3. MethodOf(op) = here.method => Vectors(r) = Connectors[r][here.connector][Field(op)]
  BY PassFacts DEF Vectors, Op
<1>4. here.vector = Len(Vectors(r)) + 1
  BY DEF MoveOn
<1>5. SUFFICES ASSUME NEW s \in Slots(r, Field(op))
               PROVE  Before(op, s, at'[r]) <=> Before(op, s, at[r])
  BY DEF Called, CalledAt, SlotsBefore
<1>6. /\ s[1] \in 1 .. Len(Connectors[r]) /\ s[1] \in Nat
      /\ s[2] \in 1 .. Len(Connectors[r][s[1]][Field(op)]) /\ s[2] \in Nat /\ s[2] >= 1
  BY SMTT(30), <1>2, SlotFacts, ConnectorFacts
<1>7. s[1] = here.connector /\ MethodOf(op) = here.method => s[2] < here.vector
  <2> SUFFICES ASSUME s[1] = here.connector, MethodOf(op) = here.method PROVE s[2] < here.vector
    OBVIOUS
  <2>1. s[2] \in 1 .. Len(Vectors(r))
    BY <1>3, <1>6
  <2>2. Len(Vectors(r)) \in Nat
    BY <1>1, <1>2, <1>3, ConnectorFacts
  <2> QED
    BY <1>4, <2>1, <2>2
<1>8. CASE /\ here.method # Len(Passes[here.pass])
           /\ GoTo(r, FirstVector(here.pass, here.connector, here.method + 1))
  <2>1. /\ at'[r].connector = here.connector /\ at'[r].method = here.method + 1 /\ at'[r].vector = 1
    BY <1>1, <1>8 DEF GoTo, FirstVector
  <2>2. here.method = 1 /\ MethodOf(op) \in 1 .. 2
    <3> DEFINE n == Len(Passes[here.pass])
    <3>1. n \in 1 .. 2 /\ here.method \in 1 .. n /\ MethodOf(op) \in 1 .. n /\ here.method # n
      BY <1>1, <1>2, <1>8
    <3> HIDE DEF n
    <3> QED
      BY <3>1
  <2> QED
    BY <1>1, <1>6, <1>7, <2>1, <2>2 DEF Before
<1>9. CASE /\ here.method = Len(Passes[here.pass])
           /\ GoTo(r, FirstVector(here.pass, here.connector + 1, 1))
  <2>1. /\ at'[r].connector = here.connector + 1 /\ at'[r].method = 1 /\ at'[r].vector = 1
    BY <1>1, <1>9 DEF GoTo, Beginning, FirstVector
  <2>2. MethodOf(op) \in Nat /\ 1 =< MethodOf(op) /\ MethodOf(op) =< here.method
    BY <1>1, <1>2, <1>9
  <2> QED
    BY <1>1, <1>6, <1>7, <2>1, <2>2 DEF Before
<1>10. CASE ~ (\/ /\ here.method # Len(Passes[here.pass])
                  /\ GoTo(r, FirstVector(here.pass, here.connector, here.method + 1))
               \/ /\ here.method = Len(Passes[here.pass])
                  /\ GoTo(r, FirstVector(here.pass, here.connector + 1, 1)))
  <2>1. IF here.pass = Len(Passes) THEN GoTo(r, Beginning(RoundBegins)) ELSE GoTo(r, Beginning(here.pass + 1))
    BY <1>10 DEF MoveOn
  <2>2. Len(Passes) = 6
    BY PassFacts
  <2> QED
    BY <2>1, <2>2, <1>1 DEF GoTo, Beginning, FirstVector, RoundBegins
<1> QED
  BY <1>8, <1>9, <1>10

\* At the end of a pass all its calls have been made, and the next pass begins.
LEMMA PassEnds ==
  ASSUME Places, NEW r \in Ranks, MoveOn(r), at'[r].pass # at[r].pass
  PROVE  /\ at'[r] = Beginning(IF at[r].pass = 6 THEN RoundBegins ELSE at[r].pass + 1)
         /\ round' = [round EXCEPT ![r] = IF at[r].pass = 6 THEN @ + 1
                                          ELSE IF at[r].pass = 3 THEN 1 ELSE @]
         /\ \A op \in AllOps : PassOf(op) = at[r].pass => Called(r, op) = KeysOf(r, Field(op))
         /\ \A op \in AllOps : CalledAt(r, op, at'[r]) = {}
<1> DEFINE here == at[r]
<1>1. /\ at \in [Ranks -> PlaceType] /\ here \in PlaceType
      /\ here.method \in 1 .. Len(Passes[here.pass]) /\ here.connector \in 1 .. Len(Connectors[r])
      /\ here.pass \in 1 .. 6 /\ here.connector \in Nat /\ here.vector \in Nat /\ here.method \in Nat
      /\ Len(Passes[here.pass]) \in 1 .. 2 /\ Len(Passes) = 6 /\ round \in [Ranks -> Nat]
  BY SMTT(30), PassFacts DEF Places, PlaceType
<1>2. here.vector = Len(Vectors(r)) + 1
  BY DEF MoveOn
<1>3. /\ here.method = Len(Passes[here.pass]) /\ here.connector = Len(Connectors[r])
      /\ IF here.pass = 6
           THEN GoTo(r, Beginning(RoundBegins)) /\ round' = [round EXCEPT ![r] = @ + 1]
           ELSE /\ GoTo(r, Beginning(here.pass + 1))
                /\ round' = [round EXCEPT ![r] = IF here.pass + 1 = RoundBegins THEN 1 ELSE @]
  <2>1. ~ GoTo(r, FirstVector(here.pass, here.connector, here.method + 1))
    BY <1>1 DEF GoTo, PlaceType, FirstVector
  <2>2. ~ GoTo(r, FirstVector(here.pass, here.connector + 1, 1))
    BY <1>1 DEF GoTo, Beginning, FirstVector
  <2> QED
    BY <1>1, <2>1, <2>2 DEF MoveOn
<1>4. at'[r] = Beginning(IF here.pass = 6 THEN RoundBegins ELSE here.pass + 1)
  BY <1>1, <1>3 DEF GoTo
<1>5. round' = [round EXCEPT ![r] = IF here.pass = 6 THEN @ + 1 ELSE IF here.pass = 3 THEN 1 ELSE @]
  BY <1>1, <1>3 DEF RoundBegins
<1>6. ASSUME NEW op \in AllOps PROVE CalledAt(r, op, at'[r]) = {}
  <2> SUFFICES ASSUME NEW s \in Slots(r, Field(op)), Before(op, s, at'[r]) PROVE FALSE
    BY DEF CalledAt, SlotsBefore
  <2>1. Field(op) \in {"in", "out"} /\ MethodOf(op) \in 1 .. 2
    BY PassFacts DEF MethodOf
  <2>2. s[1] >= 1 /\ s[1] \in Nat /\ s[2] >= 1 /\ s[2] \in Nat
    BY <2>1, SlotFacts, ConnectorFacts
  <2>3. at'[r].connector = 1 /\ at'[r].method = 1 /\ at'[r].vector = 1
    BY <1>4 DEF Beginning, FirstVector
  <2> QED
    BY <2>1, <2>2, <2>3 DEF Before
<1>7. ASSUME NEW op \in AllOps, PassOf(op) = here.pass PROVE Called(r, op) = KeysOf(r, Field(op))
  <2> SUFFICES ASSUME NEW s \in Slots(r, Field(op)) PROVE Before(op, s, at[r])
    BY DEF Called, CalledAt, SlotsBefore, KeysOf
  <2>1. Field(op) \in {"in", "out"} /\ MethodOf(op) \in 1 .. Len(Passes[here.pass])
    BY <1>7, PassFacts
  <2>2. /\ s[1] \in 1 .. Len(Connectors[r]) /\ s[1] \in Nat
        /\ s[2] \in 1 .. Len(Connectors[r][s[1]][Field(op)]) /\ s[2] \in Nat
    BY <2>1, SlotFacts, ConnectorFacts
  <2>3. ASSUME s[1] = here.connector, MethodOf(op) = here.method PROVE s[2] < here.vector
    <3>1. Vectors(r) = Connectors[r][here.connector][Field(op)]
      BY <1>7, <2>3, PassFacts DEF Vectors, Op
    <3>2. s[2] \in 1 .. Len(Vectors(r))
      BY <2>2, <2>3, <3>1
    <3>3. Len(Vectors(r)) \in Nat
      BY <1>1, <2>1, <3>1, ConnectorFacts
    <3> QED
      BY <1>2, <3>2, <3>3
  <2>4. MethodOf(op) \in Nat /\ MethodOf(op) =< here.method
    BY <1>1, <1>3, <2>1
  <2> QED
    BY <1>1, <1>3, <2>2, <2>3, <2>4 DEF Before
<1> QED
  BY <1>4, <1>5, <1>6, <1>7

\* Moving on within the program changes nothing of what has been called.
LEMMA MovedOn ==
  ASSUME Places, NEW r \in Ranks, MoveOn(r)
  PROVE  /\ Places'
         /\ \A q \in Ranks : q # r => at'[q] = at[q] /\ round'[q] = round[q]
         /\ Sent(r)' = Sent(r) /\ Posted(r)' = Posted(r) /\ Waited(r)' = Waited(r)
         /\ OrderSent(r)' <=> OrderSent(r)
         /\ OrderTaken(r)' <=> OrderTaken(r)
<1> DEFINE here == at[r]
<1>1. /\ at \in [Ranks -> PlaceType] /\ here \in PlaceType
      /\ here.method \in 1 .. Len(Passes[here.pass]) /\ here.connector \in 1 .. Len(Connectors[r])
      /\ here.pass \in 1 .. 6 /\ here.connector \in Nat /\ here.vector \in Nat /\ here.method \in 1 .. 2
      /\ Len(Passes[here.pass]) \in 1 .. 2 /\ Len(Passes) = 6 /\ round \in [Ranks -> Nat]
      /\ (IF InRounds(r) THEN round[r] \in 1 .. Rounds + 1 ELSE round[r] = 0)
  BY PassFacts DEF Places, PlaceType
<1>2. ~Done(r) /\ Rounds \in Nat
  BY PeerAssumption DEF MoveOn
<1>3. \A q \in Ranks : q # r => at'[q] = at[q] /\ round'[q] = round[q]
  BY <1>1 DEF MoveOn, GoTo
<1>4. CASE at'[r].pass = here.pass
  <2>1. round' = round
    <3>1. ~ GoTo(r, Beginning(here.pass + 1))
      BY <1>1, <1>4 DEF GoTo, Beginning, FirstVector
    <3>2. here.pass = 6 => ~ GoTo(r, Beginning(RoundBegins))
      BY <1>1, <1>4 DEF GoTo, Beginning, FirstVector, RoundBegins
    <3> QED
      BY <1>1, <3>1, <3>2 DEF MoveOn
  <2>2. /\ at'[r] \in PlaceType /\ at'[r].connector \in 1 .. Len(Connectors[r])
        /\ at'[r].method \in 1 .. Len(Passes[here.pass]) /\ at'[r].vector = 1
        /\ at' \in [Ranks -> PlaceType]
    <3>1. CASE /\ here.method # Len(Passes[here.pass])
               /\ GoTo(r, FirstVector(here.pass, here.connector, here.method + 1))
      <4>1. here.method = 1 /\ Len(Passes[here.pass]) = 2
        <5> DEFINE n == Len(Passes[here.pass])
        <5>1. n \in 1 .. 2 /\ here.method \in 1 .. n /\ here.method # n
          BY <1>1, <3>1
        <5> HIDE DEF n
        <5>2. n = 2 /\ here.method = 1
          BY <5>1
        <5> QED
          BY <5>2 DEF n
      <4>2. FirstVector(here.pass, here.connector, here.method + 1)
              = [pass |-> here.pass, connector |-> here.connector, method |-> 2, vector |-> 1]
        BY <4>1 DEF FirstVector
      <4>3. [pass |-> here.pass, connector |-> here.connector, method |-> 2, vector |-> 1] \in PlaceType
        BY <1>1 DEF PlaceType
      <4> QED
        BY <1>1, <3>1, <4>1, <4>2, <4>3 DEF GoTo
    <3>2. CASE /\ here.connector # Len(Connectors[r])
               /\ GoTo(r, FirstVector(here.pass, here.connector + 1, 1))
      <4>1. here.connector + 1 \in 1 .. Len(Connectors[r])
        BY SMTT(30), <1>1, <3>2, ConnectorFacts
      <4>2. FirstVector(here.pass, here.connector + 1, 1)
              = [pass |-> here.pass, connector |-> here.connector + 1, method |-> 1, vector |-> 1]
        BY DEF FirstVector
      <4>3. [pass |-> here.pass, connector |-> here.connector + 1, method |-> 1, vector |-> 1] \in PlaceType
        BY <1>1 DEF PlaceType
      <4>4. 1 \in 1 .. Len(Passes[here.pass])
        <5> DEFINE n == Len(Passes[here.pass])
        <5>1. n \in 1 .. 2
          BY <1>1
        <5> HIDE DEF n
        <5>2. 1 \in 1 .. n
          BY <5>1
        <5> QED
          BY <5>2 DEF n
      <4> QED
        BY <1>1, <3>2, <4>1, <4>2, <4>3, <4>4 DEF GoTo
    <3>3. ~ (IF here.pass = 6 THEN GoTo(r, Beginning(RoundBegins)) ELSE GoTo(r, Beginning(here.pass + 1)))
      BY <1>1, <1>4 DEF GoTo, Beginning, FirstVector, RoundBegins
    <3> QED
      BY <1>1, <3>1, <3>2, <3>3 DEF MoveOn
  <2>3. Places'
    <3>1. \A q \in Ranks : q # r => Vectors(q)' = Vectors(q)
      BY <1>3 DEF Vectors, Op
    <3>2. 1 \in 1 .. Len(Vectors(r))' + 1
      <4>1. /\ at'[r].pass \in 1 .. 6 /\ at'[r].method \in 1 .. Len(Passes[at'[r].pass])
            /\ at'[r].connector \in 1 .. Len(Connectors[r])
        BY <1>1, <1>4, <2>2
      <4>2. Passes[at'[r].pass][at'[r].method] \in AllOps
        BY <4>1, PassFacts
      <4>3. Field(Passes[at'[r].pass][at'[r].method]) \in {"in", "out"}
        BY <4>2, PassFacts
      <4>4. Vectors(r)' = Connectors[r][at'[r].connector][Field(Passes[at'[r].pass][at'[r].method])]
        BY DEF Vectors, Op
      <4>5. Len(Vectors(r)') \in Nat
        BY <4>1, <4>3, <4>4, ConnectorFacts
      <4> QED
        BY <4>5
    <3>3. ASSUME NEW q \in Ranks
          PROVE  /\ at'[q].connector \in 1 .. Len(Connectors[q])
                 /\ at'[q].method \in 1 .. Len(Passes[at'[q].pass])
                 /\ at'[q].vector \in 1 .. Len(Vectors(q)') + 1
                 /\ IF InRounds(q)' THEN round'[q] \in 1 .. Rounds + 1 ELSE round'[q] = 0
                 /\ (Done(q) => at[q] = Beginning(RoundBegins))'
      <4>1. CASE q = r
        BY <4>1, <1>1, <1>2, <1>4, <2>1, <2>2, <3>2 DEF InRounds, Done
      <4>2. CASE q # r
        BY <4>2, <1>3, <2>1, <3>1 DEF Places, InRounds, Done
      <4> QED
        BY <4>1, <4>2
    <3> QED
      BY <1>1, <2>1, <2>2, <3>3 DEF Places
  <2>4. ASSUME NEW op \in AllOps PROVE Ended(r, op)' = Ended(r, op)
    BY <1>4, <2>4, SameCalls DEF Ended
  <2>5. at'[r].pass = 6 => Called(r, "receive")' = Called(r, "receive")
    BY <1>4, SameCalls DEF AllOps, Ops, PassOf
  <2> QED
    BY <1>3, <1>4, <2>1, <2>3, <2>4, <2>5
    DEF Sent, Posted, Waited, OrderSent, OrderTaken, InRounds, AllOps, Ops
<1>5. CASE at'[r].pass # here.pass
  <2> DEFINE next == IF here.pass = 6 THEN RoundBegins ELSE here.pass + 1
  <2>1. /\ at'[r] = Beginning(next)
        /\ round' = [round EXCEPT ![r] = IF here.pass = 6 THEN @ + 1 ELSE IF here.pass = 3 THEN 1 ELSE @]
        /\ \A op \in AllOps : PassOf(op) = here.pass => Called(r, op) = KeysOf(r, Field(op))
        /\ \A op \in AllOps : Called(r, op)' = {}
    BY <1>5, PassEnds DEF Called
  <2>2. next \in 1 .. 6 /\ at'[r] \in PlaceType /\ at' \in [Ranks -> PlaceType] /\ at'[r].pass = next
    <3>1. next \in 1 .. 6
      BY <1>1 DEF RoundBegins
    <3>2. Beginning(next) \in PlaceType /\ Beginning(next).pass = next
      BY <3>1 DEF Beginning, FirstVector, PlaceType
    <3>3. at' = [at EXCEPT ![r] = at'[r]]
      BY <1>1 DEF MoveOn, GoTo
    <3> QED
      BY <1>1, <2>1, <3>1, <3>2, <3>3
  <2>3. round' \in [Ranks -> Nat] /\ IF InRounds(r)' THEN round'[r] \in 1 .. Rounds + 1 ELSE round'[r] = 0
    BY SMTT(30), <1>1, <1>2, <2>1, <2>2 DEF InRounds, RoundBegins, Done
  <2>4. Places'
    <3>1. \A q \in Ranks : q # r => Vectors(q)' = Vectors(q)
      BY <1>3 DEF Vectors, Op
    <3>2. /\ at'[r].connector = 1 /\ at'[r].method = 1 /\ at'[r].vector = 1
          /\ at'[r].connector \in 1 .. Len(Connectors[r])
          /\ at'[r].method \in 1 .. Len(Passes[at'[r].pass])
      <4>1. at'[r].connector = 1 /\ at'[r].method = 1 /\ at'[r].vector = 1
        BY <2>1 DEF Beginning, FirstVector
      <4>2. 1 \in 1 .. Len(Passes[next])
        <5> DEFINE n == Len(Passes[next])
        <5>1. n \in 1 .. 2
          BY <2>2, PassFacts
        <5> HIDE DEF n
        <5>2. 1 \in 1 .. n
          BY <5>1
        <5> QED
          BY <5>2 DEF n
      <4>3. 1 \in 1 .. Len(Connectors[r])
        BY <1>1, ConnectorFacts
      <4> QED
        BY <2>2, <4>1, <4>2, <4>3
    <3>3. 1 \in 1 .. Len(Vectors(r))' + 1
      <4>1. Passes[at'[r].pass][at'[r].method] \in AllOps
        BY <2>2, <3>2, PassFacts
      <4>2. Field(Passes[at'[r].pass][at'[r].method]) \in {"in", "out"}
        BY <4>1, PassFacts
      <4>3. Vectors(r)' = Connectors[r][at'[r].connector][Field(Passes[at'[r].pass][at'[r].method])]
        BY DEF Vectors, Op
      <4>4. Len(Vectors(r)') \in Nat
        BY <3>2, <4>2, <4>3, ConnectorFacts
      <4> QED
        BY <4>4
    <3>4. (Done(r) => at[r] = Beginning(RoundBegins))'
      BY <1>1, <1>2, <2>1 DEF Done, RoundBegins, InRounds
    <3>5. ASSUME NEW q \in Ranks
          PROVE  /\ at'[q].connector \in 1 .. Len(Connectors[q])
                 /\ at'[q].method \in 1 .. Len(Passes[at'[q].pass])
                 /\ at'[q].vector \in 1 .. Len(Vectors(q)') + 1
                 /\ IF InRounds(q)' THEN round'[q] \in 1 .. Rounds + 1 ELSE round'[q] = 0
                 /\ (Done(q) => at[q] = Beginning(RoundBegins))'
      <4>1. CASE q = r
        BY <4>1, <2>3, <3>2, <3>3, <3>4
      <4>2. CASE q # r
        BY <4>2, <1>3, <3>1 DEF Places, InRounds, Done
      <4> QED
        BY <4>1, <4>2
    <3> QED
      BY <2>2, <2>3, <3>5 DEF Places
  <2>5. ASSUME NEW op \in AllOps
        PROVE  /\ Ended(r, op) <=> here.pass >= PassOf(op)
               /\ Ended(r, op)' <=> next > PassOf(op)
    <3>1. KeysOf(r, Field(op)) # {}
      BY PassFacts, Peers
    <3>2. PassOf(op) \in 1 .. 6
      BY PassFacts
    <3> QED
      BY <1>1, <2>1, <2>2, <3>1, <3>2 DEF Ended
  <2>6. /\ PassOf("send") = 5 /\ PassOf("prepareForReceive") = 4 /\ PassOf("receive") = 6
        /\ PassOf("sendDataOrder") = 2 /\ PassOf("receiveDataOrder") = 3
        /\ "send" \in AllOps /\ "prepareForReceive" \in AllOps /\ "receive" \in AllOps
        /\ "sendDataOrder" \in AllOps /\ "receiveDataOrder" \in AllOps
    BY DEF PassOf, AllOps, Ops
  <2>7. (OrderSent(r)' <=> OrderSent(r)) /\ (OrderTaken(r)' <=> OrderTaken(r))
    <3>1. /\ OrderSent(r) <=> here.pass >= 2
          /\ OrderSent(r)' <=> next > 2
          /\ OrderTaken(r) <=> here.pass >= 3
          /\ OrderTaken(r)' <=> next > 3
      BY <2>5, <2>6 DEF OrderSent, OrderTaken
    <3> QED
      BY <1>1, <3>1 DEF RoundBegins
  <2>8. here.pass = 6 => Called(r, "receive") # {}
    BY <2>1, <2>6, Peers DEF Field
  <2>9. /\ InRounds(r) <=> here.pass >= 4
        /\ InRounds(r)' <=> next >= 4
        /\ round'[r] = IF here.pass = 6 THEN round[r] + 1 ELSE IF here.pass = 3 THEN 1 ELSE round[r]
        /\ round[r] \in Nat
    BY <1>1, <2>1, <2>2 DEF InRounds, RoundBegins
  <2>10. Sent(r)' = Sent(r) /\ Posted(r)' = Posted(r)
    <3>1. /\ Ended(r, "send") <=> here.pass >= 5
          /\ Ended(r, "send")' <=> next > 5
          /\ Ended(r, "prepareForReceive") <=> here.pass >= 4
          /\ Ended(r, "prepareForReceive")' <=> next > 4
      BY <2>5, <2>6
    <3> QED
      BY <1>1, <2>9, <3>1 DEF Sent, Posted, OneIf, RoundBegins
  <2>11. Waited(r)' = Waited(r)
    BY <1>1, <2>1, <2>2, <2>6, <2>8, <2>9 DEF Waited, OneIf, RoundBegins
  <2> QED
    BY <1>3, <2>4, <2>7, <2>10, <2>11
<1> QED
  BY <1>4, <1>5

-----------------------------------------------------------------------------
(* The counters, and what a call means for the messages *)

\* The counter of the operation at hand is the number of its vectors so far, so
\* the call is the last one exactly if no vector is left.
LEMMA CounterFacts ==
  ASSUME Places, Counters, NEW r \in Ranks, NEW op \in Ops, Calling(r, op)
  PROVE  /\ counter[r][op] = Cardinality(Called(r, op)) /\ counter[r][op] \in Nat
         /\ Cardinality(Called(r, op) \cup {Key(r)}) = counter[r][op] + 1
         /\ LastCall(r, Field(op)) <=> Called(r, op) \cup {Key(r)} = KeysOf(r, Field(op))
         /\ counter[r][op] = 0 <=> Called(r, op) = {}
<1>1. op \in AllOps
  BY DEF AllOps
<1>2. /\ Op(r) = op /\ at[r].pass = PassOf(op) /\ ~Ended(r, op)
      /\ Key(r) \in KeysOf(r, Field(op)) /\ Key(r) \notin Called(r, op)
      /\ Called(r, op) \subseteq KeysOf(r, Field(op))
  BY <1>1, CallHere
<1>3. counter[r][op] = Cardinality(Called(r, op)) /\ counter[r][op] \in Nat
  BY <1>2 DEF Counters
<1>4. IsFiniteSet(KeysOf(r, Field(op)))
  BY <1>1, PassFacts, KeyFacts
<1>5. IsFiniteSet(Called(r, op))
  BY <1>2, <1>4, FS_Subset
<1>6. Cardinality(Called(r, op) \cup {Key(r)}) = counter[r][op] + 1
  <2>1. Cardinality(Called(r, op) \cup {Key(r)})
          = IF Key(r) \in Called(r, op) THEN Cardinality(Called(r, op)) ELSE Cardinality(Called(r, op)) + 1
    BY <1>5, FS_AddElement
  <2> QED
    BY <2>1, <1>2, <1>3
<1>7. LastCall(r, Field(op)) <=> Called(r, op) \cup {Key(r)} = KeysOf(r, Field(op))
  <2>1. Called(r, op) \cup {Key(r)} \in SUBSET KeysOf(r, Field(op))
    BY <1>2
  <2>2. Cardinality(KeysOf(r, Field(op))) = Cardinality(Called(r, op) \cup {Key(r)})
          => KeysOf(r, Field(op)) = Called(r, op) \cup {Key(r)}
    BY <1>4, <2>1, FS_Subset
  <2> QED
    BY <1>2, <1>6, <2>2 DEF LastCall, MapSize
<1>8. counter[r][op] = 0 <=> Called(r, op) = {}
  BY <1>3, <1>5, FS_EmptySet
<1> QED
  BY <1>3, <1>6, <1>7, <1>8

\* A call ends its operation exactly if it is the last one, and no other one.
LEMMA CallEnds ==
  ASSUME Places, NEW r \in Ranks, NEW op \in AllOps, Calling(r, op), Proceed(r)
  PROVE  /\ Ended(r, op)' <=> Called(r, op) \cup {Key(r)} = KeysOf(r, Field(op))
         /\ \A o \in AllOps : o # op => (Ended(r, o)' <=> Ended(r, o))
         /\ \A q \in Ranks : q # r => \A o \in AllOps : (Ended(q, o)' <=> Ended(q, o))
<1>1. /\ at[r].pass = PassOf(op) /\ PassOf(op) \in 1 .. 6
  BY CallHere, PassFacts
<1>2. /\ \A q \in Ranks : q # r => at'[q] = at[q]
      /\ at'[r].pass = at[r].pass
      /\ Called(r, op)' = Called(r, op) \cup {Key(r)}
      /\ \A o \in AllOps : o # op /\ PassOf(o) = PassOf(op) => Called(r, o)' = Called(r, o)
  BY CallMade
<1>3. Ended(r, op)' <=> Called(r, op) \cup {Key(r)} = KeysOf(r, Field(op))
  BY <1>1, <1>2 DEF Ended
<1>4. ASSUME NEW o \in AllOps, o # op PROVE Ended(r, o)' <=> Ended(r, o)
  BY <1>1, <1>2, <1>4 DEF Ended
<1>5. ASSUME NEW q \in Ranks, q # r, NEW o \in AllOps PROVE Ended(q, o)' <=> Ended(q, o)
  BY <1>2, <1>5 DEF Ended, Called
<1> QED
  BY <1>3, <1>4, <1>5

\* Where a call stands among the messages.
LEMMA Standing ==
  ASSUME Places, NEW r \in Ranks, NEW op \in AllOps, Calling(r, op)
  PROVE  /\ round[r] \in 0 .. Rounds
         /\ op \in {"init", "sendDataOrder", "receiveDataOrder"} => ~InRounds(r) /\ round[r] = 0
         /\ op \in {"prepareForReceive", "prepareForSend", "fill", "send", "receive", "distribute"}
              => InRounds(r) /\ round[r] >= 1 /\ OrderSent(r) /\ OrderTaken(r)
         /\ op = "init" => ~OrderSent(r) /\ ~OrderTaken(r)
         /\ op = "sendDataOrder" => ~OrderSent(r) /\ ~OrderTaken(r)
         /\ op = "receiveDataOrder" => OrderSent(r) /\ ~OrderTaken(r)
         /\ op = "prepareForReceive" => Posted(r) = round[r] - 1 /\ Waited(r) = round[r] - 1
         /\ op \in {"fill", "send"} => Sent(r) = round[r] - 1
         /\ op = "receive" => Posted(r) = round[r] /\ Waited(r) = round[r] - 1 + OneIf(Called(r, "receive") # {})
         /\ op = "distribute" => Posted(r) = round[r] /\ Waited(r) = round[r]
<1>1. /\ at[r].pass = PassOf(op) /\ PassOf(op) \in 1 .. 6 /\ ~Done(r)
      /\ IF InRounds(r) THEN round[r] \in 1 .. Rounds + 1 ELSE round[r] = 0
  BY CallHere, PassFacts DEF Places
<1>2. round[r] \in 0 .. Rounds /\ (InRounds(r) => round[r] >= 1) /\ (~InRounds(r) => round[r] = 0)
  BY <1>1, PeerAssumption DEF Done
<1>3. \A o \in AllOps : PassOf(o) \in 1 .. 6
  BY PassFacts
<1>4. ~Ended(r, op)
  BY CallHere
<1>5. op = "distribute" => Called(r, "receive") # {}
  <2> SUFFICES ASSUME op = "distribute" PROVE Called(r, "receive") # {}
    OBVIOUS
  <2>1. Field("distribute") = "in" /\ Field("receive") = "in" /\ MethodOf("distribute") = 2 /\ MethodOf("receive") = 1
    BY DEF Field, MethodOf
  <2>2. <<at[r].connector, at[r].vector>> \in Slots(r, "in") /\ at[r].method = 2
    BY <2>1, CallHere
  <2>3. <<at[r].connector, at[r].vector>> \in SlotsBefore(r, "receive", at[r])
    BY <2>1, <2>2 DEF SlotsBefore, Before
  <2> QED
    BY <2>3 DEF Called, CalledAt
<1>6. \A o \in AllOps : (at[r].pass > PassOf(o) => Ended(r, o)) /\ (at[r].pass < PassOf(o) => ~Ended(r, o))
  BY <1>1, <1>3 DEF Ended
<1>7. OrderSent(r) <=> Ended(r, "sendDataOrder")
  BY DEF OrderSent
<1>8. OrderTaken(r) <=> Ended(r, "receiveDataOrder")
  BY DEF OrderTaken
<1>9. /\ "sendDataOrder" \in AllOps /\ "receiveDataOrder" \in AllOps /\ "send" \in AllOps
      /\ "prepareForReceive" \in AllOps
      /\ PassOf("init") = 1 /\ PassOf("sendDataOrder") = 2 /\ PassOf("receiveDataOrder") = 3
      /\ PassOf("prepareForReceive") = 4 /\ PassOf("prepareForSend") = 4 /\ PassOf("fill") = 5
      /\ PassOf("send") = 5 /\ PassOf("receive") = 6 /\ PassOf("distribute") = 6
  BY DEF AllOps, Ops, PassOf
<1>10. CASE op \in {"init", "sendDataOrder", "receiveDataOrder"}
  <2>1. ~InRounds(r)
    BY <1>1, <1>9, <1>10 DEF InRounds, RoundBegins
  <2> QED
    BY <1>1, <1>2, <1>4, <1>6, <1>7, <1>8, <1>9, <1>10, <2>1
<1>11. CASE op \in {"prepareForReceive", "prepareForSend"}
  <2>1. InRounds(r)
    BY <1>1, <1>9, <1>11 DEF InRounds, RoundBegins
  <2>2. OrderSent(r) /\ OrderTaken(r)
    BY <1>1, <1>6, <1>7, <1>8, <1>9, <1>11
  <2>3. op = "prepareForReceive" => Posted(r) = round[r] - 1 /\ Waited(r) = round[r] - 1
    BY <1>1, <1>2, <1>4, <1>9, <2>1 DEF Posted, Waited, OneIf
  <2> QED
    BY <1>2, <1>11, <2>1, <2>2, <2>3
<1>12. CASE op \in {"fill", "send"}
  <2>1. InRounds(r)
    BY <1>1, <1>9, <1>12 DEF InRounds, RoundBegins
  <2>2. OrderSent(r) /\ OrderTaken(r)
    BY <1>1, <1>6, <1>7, <1>8, <1>9, <1>12
  <2>3. ~Ended(r, "send")
    <3>1. CASE op = "send"
      BY <3>1, <1>4
    <3>2. CASE op = "fill"
      <4>1. MethodOf("fill") = 1 /\ MethodOf("send") = 2 /\ Field("fill") = "out" /\ Field("send") = "out"
        BY DEF MethodOf, Field
      <4> DEFINE here == <<at[r].connector, at[r].vector>>
      <4>2. at[r].method = 1 /\ here \in Slots(r, "out")
        BY <3>2, <4>1, CallHere
      <4>3. ~ Before("send", here, at[r])
        <5>1. at[r].connector \in Nat
          BY DEF Places, PlaceType
        <5> QED
          BY <4>1, <4>2, <5>1 DEF Before
      <4>4. KeyAt(r, "out", here) \notin Called(r, "send")
        <5> SUFFICES ASSUME NEW s \in Slots(r, "out"), Before("send", s, at[r]),
                            KeyAt(r, "out", s) = KeyAt(r, "out", here)
                     PROVE  FALSE
          BY <4>1 DEF Called, CalledAt, SlotsBefore
        <5>1. s = here
          BY <4>2, KeyAssumption
        <5> QED
          BY <4>3, <5>1
      <4>5. KeyAt(r, "out", here) \in KeysOf(r, "out")
        BY <4>2 DEF KeysOf
      <4> QED
        BY <1>1, <1>9, <3>2, <4>1, <4>4, <4>5 DEF Ended
    <3> QED
      BY <1>12, <3>1, <3>2
  <2>4. Sent(r) = round[r] - 1
    BY <1>2, <2>1, <2>3 DEF Sent, OneIf
  <2> QED
    BY <1>2, <1>12, <2>1, <2>2, <2>4
<1>13. CASE op \in {"receive", "distribute"}
  <2>1. InRounds(r)
    BY <1>1, <1>9, <1>13 DEF InRounds, RoundBegins
  <2>2. OrderSent(r) /\ OrderTaken(r)
    BY <1>1, <1>6, <1>7, <1>8, <1>9, <1>13
  <2>3. Ended(r, "prepareForReceive")
    BY <1>1, <1>6, <1>9, <1>13
  <2>4. Posted(r) = round[r]
    BY <1>2, <2>1, <2>3 DEF Posted, OneIf
  <2>5. Waited(r) = round[r] - 1 + OneIf(Called(r, "receive") # {})
    BY <1>1, <1>9, <1>13, <2>1 DEF Waited
  <2>6. op = "distribute" => Waited(r) = round[r]
    BY <1>2, <1>5, <2>5 DEF OneIf
  <2> QED
    BY <1>2, <1>13, <2>1, <2>2, <2>4, <2>5, <2>6
<1>14. op \in {"init", "sendDataOrder", "receiveDataOrder"} \/ op \in {"prepareForReceive", "prepareForSend"}
       \/ op \in {"fill", "send"} \/ op \in {"receive", "distribute"}
  BY DEF AllOps, Ops
<1> QED
  BY <1>10, <1>11, <1>12, <1>13, <1>14

\* What a call does to the messages: only the last call to send sends, the
\* last to prepare posts, and the first to receive waits.
LEMMA Progress ==
  ASSUME Places, NEW r \in Ranks, NEW op \in AllOps, Calling(r, op), Proceed(r), NEW q \in Ranks
  PROVE  /\ Sent(q)' = Sent(q) + OneIf(q = r /\ op = "send" /\ Ended(r, op)')
         /\ Posted(q)' = Posted(q) + OneIf(q = r /\ op = "prepareForReceive" /\ Ended(r, op)')
         /\ Waited(q)' = Waited(q) + OneIf(q = r /\ op = "receive" /\ Called(r, op) = {})
         /\ OrderSent(q)' <=> OrderSent(q) \/ (q = r /\ op = "sendDataOrder" /\ Ended(r, op)')
         /\ OrderTaken(q)' <=> OrderTaken(q) \/ (q = r /\ op = "receiveDataOrder" /\ Ended(r, op)')
<1>1. /\ \A p \in Ranks : p # r => at'[p] = at[p]
      /\ round' = round /\ at'[r].pass = at[r].pass
      /\ Called(r, op)' = Called(r, op) \cup {Key(r)}
      /\ \A o \in AllOps : o # op /\ PassOf(o) = PassOf(op) => Called(r, o)' = Called(r, o)
  BY CallMade
<1>2. ~Ended(r, op) /\ at[r].pass = PassOf(op)
  BY CallHere
<1>3. /\ "sendDataOrder" \in AllOps /\ "receiveDataOrder" \in AllOps /\ "send" \in AllOps
      /\ "prepareForReceive" \in AllOps /\ "receive" \in AllOps /\ PassOf("receive") = 6
  BY DEF AllOps, Ops, PassOf
<1>4. \A o \in AllOps : (o # op \/ q # r) => (Ended(q, o)' <=> Ended(q, o))
  BY CallEnds
<1>5. InRounds(q)' <=> InRounds(q)
  BY <1>1 DEF InRounds
<1>6. round[q] \in Nat
  BY DEF Places
<1>7. Sent(q)' = Sent(q) + OneIf(q = r /\ op = "send" /\ Ended(r, op)')
  <2>1. op = "send" => InRounds(r)
    BY Standing
  <2>2. CASE q = r /\ op = "send"
    BY <1>1, <1>2, <1>5, <1>6, <2>1, <2>2 DEF Sent, OneIf
  <2>3. CASE ~(q = r /\ op = "send")
    <3>1. Ended(q, "send")' <=> Ended(q, "send")
      BY <1>3, <1>4, <2>3
    <3> QED
      BY <1>1, <1>5, <1>6, <2>3, <3>1 DEF Sent, OneIf
  <2> QED
    BY <2>2, <2>3
<1>8. Posted(q)' = Posted(q) + OneIf(q = r /\ op = "prepareForReceive" /\ Ended(r, op)')
  <2>1. op = "prepareForReceive" => InRounds(r)
    BY Standing
  <2>2. CASE q = r /\ op = "prepareForReceive"
    BY <1>1, <1>2, <1>5, <1>6, <2>1, <2>2 DEF Posted, OneIf
  <2>3. CASE ~(q = r /\ op = "prepareForReceive")
    <3>1. Ended(q, "prepareForReceive")' <=> Ended(q, "prepareForReceive")
      BY <1>3, <1>4, <2>3
    <3> QED
      BY <1>1, <1>5, <1>6, <2>3, <3>1 DEF Posted, OneIf
  <2> QED
    BY <2>2, <2>3
<1>9. Waited(q)' = Waited(q) + OneIf(q = r /\ op = "receive" /\ Called(r, op) = {})
  <2>1. op = "receive" => InRounds(r)
    BY Standing
  <2>2. CASE q = r /\ op = "receive"
    BY <1>1, <1>2, <1>3, <1>5, <1>6, <2>1, <2>2 DEF Waited, OneIf
  <2>3. CASE q # r
    BY <1>1, <1>5, <1>6, <2>3 DEF Waited, OneIf, Called
  <2>4. CASE q = r /\ op # "receive"
    <3>1. at[r].pass = 6 => Called(r, "receive")' = Called(r, "receive")
      BY <1>1, <1>2, <1>3, <2>4
    <3> QED
      BY <1>1, <1>5, <1>6, <2>4, <3>1 DEF Waited, OneIf
  <2> QED
    BY <2>2, <2>3, <2>4
<1>10. OrderSent(q)' <=> OrderSent(q) \/ (q = r /\ op = "sendDataOrder" /\ Ended(r, op)')
  BY <1>2, <1>3, <1>4 DEF OrderSent
<1>11. OrderTaken(q)' <=> OrderTaken(q) \/ (q = r /\ op = "receiveDataOrder" /\ Ended(r, op)')
  BY <1>2, <1>3, <1>4 DEF OrderTaken
<1> QED
  BY <1>7, <1>8, <1>9, <1>10, <1>11

-----------------------------------------------------------------------------
(* The counters, the layout and the contents of the pool that is sent *)

\* A call that counts keeps the counters.
LEMMA CountKeeps ==
  ASSUME Places, Counters, NEW r \in Ranks, NEW op \in Ops, Calling(r, op), Proceed(r), Count(r, Field(op))
  PROVE  Counters'
<1>1. op \in AllOps /\ Ops \subseteq AllOps
  BY DEF AllOps
<1>2. /\ Op(r) = op /\ at[r].pass = PassOf(op) /\ ~Ended(r, op)
  BY <1>1, CallHere
<1>3. /\ \A q \in Ranks : q # r => at'[q] = at[q]
      /\ at'[r].pass = at[r].pass
      /\ Called(r, op)' = Called(r, op) \cup {Key(r)}
      /\ \A o \in AllOps : o # op /\ PassOf(o) = PassOf(op) => Called(r, o)' = Called(r, o)
  BY <1>1, CallMade
<1>4. /\ Ended(r, op)' <=> Called(r, op) \cup {Key(r)} = KeysOf(r, Field(op))
      /\ \A o \in AllOps : o # op => (Ended(r, o)' <=> Ended(r, o))
      /\ \A q \in Ranks : q # r => \A o \in AllOps : (Ended(q, o)' <=> Ended(q, o))
  BY <1>1, CallEnds
<1>5. /\ Cardinality(Called(r, op) \cup {Key(r)}) = counter[r][op] + 1 /\ counter[r][op] \in Nat
      /\ LastCall(r, Field(op)) <=> Called(r, op) \cup {Key(r)} = KeysOf(r, Field(op))
  BY CounterFacts
<1>6. counter' = [counter EXCEPT ![r][op] = IF LastCall(r, Field(op)) THEN 0 ELSE counter[r][op] + 1]
  BY <1>2 DEF Count, LastCall
<1>7. counter \in [Ranks -> [Ops -> Nat]]
  BY DEF Counters
<1>8. /\ counter' \in [Ranks -> [Ops -> Nat]]
      /\ counter'[r][op] = IF LastCall(r, Field(op)) THEN 0 ELSE counter[r][op] + 1
      /\ \A q \in Ranks, o \in Ops : q # r \/ o # op => counter'[q][o] = counter[q][o]
  BY <1>5, <1>6, <1>7
<1>9. ASSUME NEW q \in Ranks, NEW o \in Ops
      PROVE  counter'[q][o] = IF at'[q].pass = PassOf(o) /\ ~Ended(q, o)' THEN Cardinality(Called(q, o)') ELSE 0
  <2>1. CASE q = r /\ o = op
    BY <2>1, <1>2, <1>3, <1>4, <1>5, <1>8
  <2>2. CASE q = r /\ o # op
    <3>1. at'[r].pass = PassOf(o) => Called(r, o)' = Called(r, o)
      BY <1>1, <1>2, <1>3, <2>2
    <3> QED
      BY <2>2, <1>1, <1>3, <1>4, <1>8, <3>1 DEF Counters
  <2>3. CASE q # r
    <3>1. Called(q, o)' = Called(q, o)
      BY <2>3, <1>3 DEF Called
    <3> QED
      BY <2>3, <1>1, <1>3, <1>4, <1>8, <3>1 DEF Counters
  <2> QED
    BY <2>1, <2>2, <2>3
<1> QED
  BY <1>8, <1>9 DEF Counters

\* The calls that do not count keep the counters.
LEMMA NoCountKeeps ==
  ASSUME Places, Counters, NEW r \in Ranks, NEW op \in {"init", "fill", "distribute"},
         Calling(r, op), Proceed(r), counter' = counter
  PROVE  Counters'
<1>1. op \in AllOps /\ Ops \subseteq AllOps /\ op \notin Ops
  BY DEF AllOps, Ops
<1>2. at[r].pass = PassOf(op)
  BY <1>1, CallHere
<1>3. /\ \A q \in Ranks : q # r => at'[q] = at[q]
      /\ at'[r].pass = at[r].pass
      /\ \A o \in AllOps : o # op /\ PassOf(o) = PassOf(op) => Called(r, o)' = Called(r, o)
  BY <1>1, CallMade
<1>4. /\ \A o \in AllOps : o # op => (Ended(r, o)' <=> Ended(r, o))
      /\ \A q \in Ranks : q # r => \A o \in AllOps : (Ended(q, o)' <=> Ended(q, o))
  BY <1>1, CallEnds
<1>5. ASSUME NEW q \in Ranks, NEW o \in Ops
      PROVE  counter'[q][o] = IF at'[q].pass = PassOf(o) /\ ~Ended(q, o)' THEN Cardinality(Called(q, o)') ELSE 0
  <2>1. CASE q = r
    <3>1. at'[r].pass = PassOf(o) => Called(r, o)' = Called(r, o)
      BY <1>1, <1>2, <1>3, <2>1
    <3>2. Ended(r, o)' <=> Ended(r, o)
      BY <1>1, <1>4
    <3> QED
      BY <2>1, <1>1, <1>3, <3>1, <3>2 DEF Counters
  <2>2. CASE q # r
    <3>1. Called(q, o)' = Called(q, o)
      BY <2>2, <1>3 DEF Called
    <3> QED
      BY <2>2, <1>1, <1>3, <1>4, <3>1 DEF Counters
  <2> QED
    BY <2>1, <2>2
<1> QED
  BY <1>5 DEF Counters

\* Moving on keeps the counters, the layout and the contents.
LEMMA MoveOnKeeps ==
  ASSUME Places, Counters, Layout, Filled, NEW r \in Ranks, MoveOn(r)
  PROVE  Counters' /\ Layout' /\ Filled'
<1>1. /\ Places' /\ \A q \in Ranks : q # r => at'[q] = at[q] /\ round'[q] = round[q]
  BY MovedOn
<1>2. counter' = counter /\ sendPool' = sendPool /\ sendStart' = sendStart
  BY DEF MoveOn
<1>3. at[r].pass \in 1 .. 6
  BY DEF Places, PlaceType
<1>4. /\ Ops \subseteq AllOps /\ "init" \in AllOps /\ "fill" \in AllOps
      /\ PassOf("init") = 1 /\ PassOf("fill") = 5 /\ Field("init") = "out"
  BY DEF AllOps, Ops, PassOf, Field
<1>5. ASSUME NEW q \in Ranks, NEW o \in Ops
      PROVE  counter[q][o] = IF at'[q].pass = PassOf(o) /\ ~Ended(q, o)' THEN Cardinality(Called(q, o)') ELSE 0
  <2>1. CASE q # r
    <3>1. Called(q, o)' = Called(q, o) /\ (Ended(q, o)' <=> Ended(q, o))
      BY <2>1, <1>1 DEF Called, Ended
    <3> QED
      BY <2>1, <1>1, <3>1 DEF Counters
  <2>2. CASE q = r /\ at'[r].pass = at[r].pass
    <3>1. PassOf(o) = at[r].pass => Called(r, o)' = Called(r, o)
      BY <2>2, <1>4, SameCalls
    <3>2. Ended(r, o)' <=> Ended(r, o)
      BY <2>2, <3>1 DEF Ended
    <3> QED
      BY <2>2, <3>1, <3>2 DEF Counters
  <2>3. CASE q = r /\ at'[r].pass # at[r].pass
    <3>1. PassOf(o) = at[r].pass => Ended(r, o)
      BY <2>3, <1>4, PassEnds DEF Ended
    <3>2. Called(r, o)' = {}
      BY <2>3, <1>4, PassEnds DEF Called
    <3> QED
      BY <2>3, <3>1, <3>2, FS_EmptySet DEF Counters
  <2> QED
    BY <2>1, <2>2, <2>3
<1>6. \A q \in Ranks : LaidOut(q)' = LaidOut(q)
  <2>1. \A q \in Ranks : q # r => LaidOut(q)' = LaidOut(q)
    BY <1>1 DEF LaidOut, Called
  <2>2. CASE at'[r].pass = at[r].pass
    BY <2>1, <2>2, <1>4, SameCalls DEF LaidOut
  <2>3. CASE at'[r].pass # at[r].pass
    <3>1. at'[r].pass # 1
      <4>1. at'[r] = Beginning(IF at[r].pass = 6 THEN RoundBegins ELSE at[r].pass + 1)
        BY <2>3, PassEnds
      <4>2. at'[r].pass = IF at[r].pass = 6 THEN 4 ELSE at[r].pass + 1
        BY <4>1 DEF Beginning, FirstVector, RoundBegins
      <4> QED
        BY <4>2, <1>3
    <3>2. at[r].pass = 1 => Called(r, "init") = KeysOf(r, "out")
      BY <2>3, <1>4, PassEnds
    <3> QED
      BY <2>1, <3>1, <3>2 DEF LaidOut
  <2> QED
    BY <2>2, <2>3
<1>7. Layout'
  BY <1>2, <1>6 DEF Layout, Extent
<1>8. ASSUME NEW q \in Ranks, at'[q].pass = 5, NEW k \in Called(q, "fill")'
      PROVE  Holds(sendPool[q], q, k, round[q])' 
  <2>1. CASE q # r
    <3>1. Called(q, "fill")' = Called(q, "fill")
      BY <2>1, <1>1 DEF Called
    <3> QED
      BY <2>1, <1>1, <1>2, <1>8, <3>1 DEF Filled, Holds, Extent
  <2>2. CASE q = r /\ at'[r].pass = at[r].pass
    <3>1. Called(r, "fill")' = Called(r, "fill")
      BY <2>2, <1>4, <1>8, SameCalls
    <3>2. round' = round
      <4>1. ~ GoTo(r, Beginning(at[r].pass + 1)) /\ ~ (at[r].pass = 6)
        BY <1>3, <1>8, <2>2 DEF GoTo, Beginning, FirstVector, Places
      <4> QED
        BY <4>1, PassFacts DEF MoveOn
    <3> QED
      BY <2>2, <1>2, <1>8, <3>1, <3>2 DEF Filled, Holds, Extent
  <2>3. CASE q = r /\ at'[r].pass # at[r].pass
    BY <2>3, <1>4, <1>8, PassEnds DEF Called
  <2> QED
    BY <2>1, <2>2, <2>3
<1>9. Filled'
  BY <1>2, <1>8 DEF Filled
<1> QED
  BY <1>2, <1>5, <1>7, <1>9 DEF Counters

\* A call that leaves the pool alone keeps its layout and its contents.
LEMMA OtherCallsKeep ==
  ASSUME Places, Layout, Filled, NEW r \in Ranks, NEW op \in AllOps \ {"init", "fill"},
         Calling(r, op), Proceed(r), UNCHANGED <<sendPool, sendStart>>
  PROVE  Layout' /\ Filled'
<1>1. at[r].pass = PassOf(op) /\ PassOf(op) # 1 /\ "fill" \in AllOps /\ PassOf("fill") = 5
  <2>1. at[r].pass = PassOf(op)
    BY CallHere
  <2>2. PassOf(op) # 1 /\ "fill" \in AllOps /\ PassOf("fill") = 5
    BY DEF AllOps, Ops, PassOf
  <2> QED
    BY <2>1, <2>2
<1>2. /\ \A q \in Ranks : q # r => at'[q] = at[q]
      /\ round' = round /\ at'[r].pass = at[r].pass
      /\ \A o \in AllOps : o # op /\ PassOf(o) = PassOf(op) => Called(r, o)' = Called(r, o)
  BY CallMade
<1>3. \A q \in Ranks : LaidOut(q)' = LaidOut(q)
  BY <1>1, <1>2 DEF LaidOut, Called
<1>4. Layout'
  BY <1>3 DEF Layout, Extent
<1>5. \A q \in Ranks : at'[q].pass = 5 => at[q].pass = 5 /\ Called(q, "fill")' = Called(q, "fill")
  BY <1>1, <1>2 DEF Called
<1>6. Filled'
  BY <1>2, <1>5 DEF Filled, Holds, Extent
<1> QED
  BY <1>4, <1>6

\* A vector gets its place at the end of the pool.
LEMMA InitVectorKeeps ==
  ASSUME Places, Layout, Filled, NEW r \in Ranks, InitVector(r)
  PROVE  Layout' /\ Filled'
<1> PICK k : k = Key(r)
  OBVIOUS
<1> PICK n : n = Len(sendPool[r])
  OBVIOUS
<1> DEFINE Blanks == [i \in 1 .. Size[k] |-> Blank]
<1>1. Calling(r, "init") /\ Proceed(r) /\ "init" \in AllOps /\ Field("init") = "out" /\ PassOf("init") = 1
  BY DEF InitVector, AllOps, Field, PassOf
<1>2. /\ at[r].pass = 1 /\ k \in KeysOf(r, "out") /\ k \notin Called(r, "init")
      /\ Called(r, "init") \subseteq KeysOf(r, "out")
  BY <1>1, CallHere
<1>3. /\ \A q \in Ranks : q # r => at'[q] = at[q]
      /\ round' = round /\ at'[r].pass = at[r].pass
      /\ Called(r, "init")' = Called(r, "init") \cup {k}
  BY <1>1, CallMade
<1>4. Size[k] \in Nat \ {0}
  BY <1>2, KeyFacts
<1>5. /\ sendPool \in [Ranks -> Seq(Elements)] /\ sendPool[r] \in Seq(Elements) /\ n \in Nat
      /\ DOMAIN sendStart = Ranks /\ sendStart[r] \in [KeysOf(r, "out") -> 0 .. n]
  BY DEF Filled, Layout
<1>6. Blanks \in Seq(Elements) /\ Len(Blanks) = Size[k]
  <2>1. Blank \in Elements
    BY DEF Blank, Elements
  <2> QED
    BY <1>4, <2>1
<1>7. /\ sendPool' = [sendPool EXCEPT ![r] = sendPool[r] \o Blanks]
      /\ sendStart' = [sendStart EXCEPT ![r][k] = n]
  BY DEF InitVector
<1> HIDE DEF Blanks
<1>8. /\ sendPool[r] \o Blanks \in Seq(Elements) /\ Len(sendPool[r] \o Blanks) = n + Size[k]
  <2>1. /\ sendPool[r] \o Blanks \in Seq(Elements)
        /\ Len(sendPool[r] \o Blanks) = Len(sendPool[r]) + Len(Blanks)
    BY <1>5, <1>6, ConcatProperties
  <2> QED
    BY <2>1, <1>6
<1>9. /\ sendPool' \in [Ranks -> Seq(Elements)] /\ Len(sendPool'[r]) = n + Size[k]
      /\ \A q \in Ranks : q # r => sendPool'[q] = sendPool[q]
  BY <1>5, <1>7, <1>8
<1>10. /\ DOMAIN sendStart' = Ranks
       /\ \A q \in Ranks : q # r => sendStart'[q] = sendStart[q]
       /\ sendStart'[r] = [sendStart[r] EXCEPT ![k] = n]
  BY <1>5, <1>7
<1>11. /\ sendStart'[r] \in [KeysOf(r, "out") -> 0 .. n + Size[k]]
       /\ sendStart'[r][k] = n
       /\ \A l \in KeysOf(r, "out") : l # k => sendStart'[r][l] = sendStart[r][l]
  BY <1>2, <1>4, <1>5, <1>10
<1>12. LaidOut(r) = Called(r, "init") /\ LaidOut(r)' = Called(r, "init") \cup {k}
  BY <1>2, <1>3 DEF LaidOut
<1>13. /\ Extent(r, k)' = n + 1 .. n + Size[k]
       /\ \A l \in LaidOut(r) : Extent(r, l)' = Extent(r, l) /\ Extent(r, l) \subseteq 1 .. n
  <2>1. Extent(r, k)' = n + 1 .. n + Size[k]
    BY <1>11 DEF Extent
  <2>2. \A l \in LaidOut(r) : Extent(r, l)' = Extent(r, l)
    BY <1>2, <1>11, <1>12 DEF Extent
  <2>3. \A l \in LaidOut(r) : Extent(r, l) \subseteq 1 .. n
    BY DEF Layout
  <2> QED
    BY <2>1, <2>2, <2>3
<1>14. /\ sendStart'[r] \in [KeysOf(r, "out") -> 0 .. Len(sendPool'[r])]
       /\ \A l \in LaidOut(r)' : Extent(r, l)' \subseteq 1 .. Len(sendPool'[r])
       /\ \A l, m \in LaidOut(r)' : l # m => Extent(r, l)' \cap Extent(r, m)' = {}
       /\ \A i \in 1 .. Len(sendPool'[r]) : \E l \in LaidOut(r)' : i \in Extent(r, l)'
  <2>1. sendStart'[r] \in [KeysOf(r, "out") -> 0 .. Len(sendPool'[r])]
    BY <1>9, <1>11
  <2>2. ASSUME NEW l \in LaidOut(r)' PROVE Extent(r, l)' \subseteq 1 .. n + Size[k]
    <3>1. CASE l = k
      BY <3>1, <1>4, <1>5, <1>13
    <3>2. CASE l \in LaidOut(r)
      BY <3>2, <1>4, <1>5, <1>13
    <3> QED
      BY <1>12, <3>1, <3>2
  <2>3. ASSUME NEW l \in LaidOut(r)', NEW m \in LaidOut(r)', l # m
        PROVE  Extent(r, l)' \cap Extent(r, m)' = {}
    <3>1. CASE l # k /\ m # k
      <4>1. l \in LaidOut(r) /\ m \in LaidOut(r)
        BY <3>1, <1>12
      <4>2. Extent(r, l) \cap Extent(r, m) = {}
        BY <2>3, <4>1 DEF Layout
      <4> QED
        BY <4>1, <4>2, <1>13
    <3>2. \A e \in LaidOut(r) : Extent(r, e)' \cap Extent(r, k)' = {}
      BY <1>5, <1>13
    <3>3. CASE l = k
      BY <2>3, <3>2, <3>3, <1>12
    <3>4. CASE m = k
      BY <2>3, <3>2, <3>4, <1>12
    <3> QED
      BY <3>1, <3>3, <3>4
  <2>4. ASSUME NEW i \in 1 .. n + Size[k] PROVE \E l \in LaidOut(r)' : i \in Extent(r, l)'
    <3>1. CASE i \in 1 .. n
      <4>1. PICK l \in LaidOut(r) : i \in Extent(r, l)
        BY <3>1 DEF Layout
      <4> QED
        BY <4>1, <1>12, <1>13
    <3>2. CASE i \notin 1 .. n
      <4>1. i \in n + 1 .. n + Size[k]
        BY <3>2, <1>4, <1>5
      <4> QED
        BY <4>1, <1>12, <1>13
    <3> QED
      BY <3>1, <3>2
  <2> QED
    BY <2>1, <2>2, <2>3, <2>4, <1>9
<1>15. Layout'
  <2>1. ASSUME NEW q \in Ranks, q # r
        PROVE  /\ sendStart'[q] \in [KeysOf(q, "out") -> 0 .. Len(sendPool'[q])]
               /\ \A l \in LaidOut(q)' : Extent(q, l)' \subseteq 1 .. Len(sendPool'[q])
               /\ \A l, m \in LaidOut(q)' : l # m => Extent(q, l)' \cap Extent(q, m)' = {}
               /\ \A i \in 1 .. Len(sendPool'[q]) : \E l \in LaidOut(q)' : i \in Extent(q, l)'
    <3>1. LaidOut(q)' = LaidOut(q)
      BY <2>1, <1>3 DEF LaidOut, Called
    <3>2. sendStart'[q] = sendStart[q] /\ sendPool'[q] = sendPool[q]
      BY <2>1, <1>9, <1>10
    <3> QED
      BY <3>1, <3>2 DEF Layout, Extent
  <2>2. ASSUME NEW q \in Ranks
        PROVE  /\ sendStart'[q] \in [KeysOf(q, "out") -> 0 .. Len(sendPool'[q])]
               /\ \A l \in LaidOut(q)' : Extent(q, l)' \subseteq 1 .. Len(sendPool'[q])
               /\ \A l, m \in LaidOut(q)' : l # m => Extent(q, l)' \cap Extent(q, m)' = {}
               /\ \A i \in 1 .. Len(sendPool'[q]) : \E l \in LaidOut(q)' : i \in Extent(q, l)'
    BY <2>1, <1>14
  <2> QED
    BY <2>2, <1>10 DEF Layout
<1>16. Filled'
  <2>1. \A q \in Ranks : at'[q].pass = 5 => q # r /\ at[q].pass = 5 /\ Called(q, "fill")' = Called(q, "fill")
    BY <1>2, <1>3 DEF Called
  <2> QED
    BY <2>1, <1>3, <1>9, <1>10 DEF Filled, Holds, Extent
<1> QED
  BY <1>15, <1>16

\* A connector fills its vector, and no other.
LEMMA FillVectorKeeps ==
  ASSUME Places, Layout, Filled, NEW r \in Ranks, FillVector(r)
  PROVE  Layout' /\ Filled' /\ \A q \in Ranks : Len(sendPool'[q]) = Len(sendPool[q])
<1> PICK k : k = Key(r)
  OBVIOUS
<1> DEFINE New == [i \in DOMAIN sendPool[r] |-> IF i \in Extent(r, k) THEN [key |-> k, round |-> round[r]]
                                                ELSE sendPool[r][i]]
<1>1. Calling(r, "fill") /\ Proceed(r) /\ "fill" \in AllOps /\ Field("fill") = "out" /\ PassOf("fill") = 5
  BY DEF FillVector, AllOps, Field, PassOf
<1>2. /\ at[r].pass = 5 /\ k \in KeysOf(r, "out") /\ Called(r, "fill") \subseteq KeysOf(r, "out")
      /\ k \notin Called(r, "fill")
  BY <1>1, CallHere
<1>3. /\ \A q \in Ranks : q # r => at'[q] = at[q]
      /\ round' = round /\ at'[r].pass = at[r].pass
      /\ Called(r, "fill")' = Called(r, "fill") \cup {k}
  BY <1>1, CallMade
<1>4. /\ sendPool \in [Ranks -> Seq(Elements)] /\ sendPool[r] \in Seq(Elements)
      /\ DOMAIN sendPool[r] = 1 .. Len(sendPool[r]) /\ Len(sendPool[r]) \in Nat
      /\ round[r] \in Nat /\ k \in Keys
  BY <1>2, KeyFacts DEF Filled, Places
<1>5. New \in Seq(Elements) /\ Len(New) = Len(sendPool[r])
  <2>1. \A i \in 1 .. Len(sendPool[r]) : New[i] \in Elements
    BY <1>4, ElementOfSeq DEF Elements
  <2> HIDE DEF New
  <2>2. DOMAIN New = 1 .. Len(sendPool[r]) /\ New = [i \in 1 .. Len(sendPool[r]) |-> New[i]]
    BY <1>4 DEF New
  <2>3. New \in [1 .. Len(sendPool[r]) -> Elements]
    BY <2>1, <2>2
  <2>4. New \in Seq(Elements)
    BY <1>4, <2>3, SeqDef
  <2> QED
    BY <1>4, <2>2, <2>4, LenProperties
<1>6. sendPool' = [sendPool EXCEPT ![r] = New] /\ sendStart' = sendStart
  BY DEF FillVector, Extent
<1>7. /\ sendPool' \in [Ranks -> Seq(Elements)] /\ sendPool'[r] = New
      /\ \A q \in Ranks : q # r => sendPool'[q] = sendPool[q]
      /\ \A q \in Ranks : Len(sendPool'[q]) = Len(sendPool[q])
  BY <1>4, <1>5, <1>6
<1>8. \A q \in Ranks : LaidOut(q)' = LaidOut(q) /\ \A l : Extent(q, l)' = Extent(q, l)
  BY <1>2, <1>3, <1>6 DEF LaidOut, Extent, Called
<1>9. Layout'
  BY <1>6, <1>7, <1>8 DEF Layout
<1>10. ASSUME NEW l \in Called(r, "fill") \cup {k} PROVE Holds(New, r, l, round[r])
  <2>1. LaidOut(r) = KeysOf(r, "out")
    BY <1>2 DEF LaidOut
  <2>2. l \in LaidOut(r) /\ k \in LaidOut(r)
    BY <2>1, <1>2
  <2>3. Extent(r, l) \subseteq DOMAIN sendPool[r]
    BY <1>4, <2>2 DEF Layout
  <2>4. CASE l = k
    BY <2>3, <2>4 DEF Holds
  <2>5. CASE l # k
    <3>1. Extent(r, l) \cap Extent(r, k) = {}
      BY <2>2, <2>5 DEF Layout
    <3>2. Holds(sendPool[r], r, l, round[r])
      BY <1>2, <1>10, <2>5 DEF Filled
    <3> QED
      BY <2>3, <3>1, <3>2 DEF Holds
  <2> QED
    BY <2>4, <2>5
<1>11. Filled'
  <2>1. ASSUME NEW q \in Ranks, at'[q].pass = 5, NEW l \in Called(q, "fill")'
        PROVE  Holds(sendPool[q], q, l, round[q])'
    <3>1. CASE q = r
      <4>1. Holds(New, r, l, round[r])
        BY <2>1, <3>1, <1>3, <1>10
      <4>2. sendPool'[r] = New /\ round' = round /\ sendStart' = sendStart
        BY <1>3, <1>6, <1>7
      <4> HIDE DEF New
      <4> QED
        BY <3>1, <4>1, <4>2 DEF Holds, Extent
    <3>2. CASE q # r
      <4>1. Called(q, "fill")' = Called(q, "fill") /\ at[q].pass = 5
        BY <2>1, <3>2, <1>3 DEF Called
      <4>2. Holds(sendPool[q], q, l, round[q])
        BY <2>1, <4>1 DEF Filled
      <4>3. sendPool'[q] = sendPool[q] /\ round' = round /\ sendStart' = sendStart
        BY <3>2, <1>3, <1>6, <1>7
      <4> QED
        BY <4>2, <4>3 DEF Holds, Extent
    <3> QED
      BY <3>1, <3>2
  <2> QED
    BY <2>1, <1>7 DEF Filled
<1> QED
  BY <1>7, <1>9, <1>11

-----------------------------------------------------------------------------
(* The messages *)

\* The numbers of messages are natural numbers.
LEMMA Numbers ==
  ASSUME Places, NEW q \in Ranks
  PROVE  Sent(q) \in Nat /\ Posted(q) \in Nat /\ Waited(q) \in Nat /\ Taken(q) \in Nat
         /\ (Sent(q) > 0 => OrderSent(q)) /\ (Posted(q) > 0 => OrderTaken(q)) /\ (Waited(q) > 0 => OrderTaken(q))
<1>1. /\ at[q].pass \in 1 .. 6 /\ Rounds \in Nat
      /\ IF InRounds(q) THEN round[q] \in 1 .. Rounds + 1 ELSE round[q] = 0
  BY PeerAssumption DEF Places, PlaceType
<1>2. Sent(q) \in Nat /\ Posted(q) \in Nat /\ Waited(q) \in Nat
  BY <1>1 DEF Sent, Posted, Waited, OneIf
<1>3. Taken(q) \in Nat
  BY <1>2 DEF Taken, OneIf
<1>4. InRounds(q) => OrderSent(q) /\ OrderTaken(q)
  BY <1>1 DEF InRounds, RoundBegins, OrderSent, OrderTaken, Ended, PassOf
<1>5. (Sent(q) > 0 => InRounds(q)) /\ (Posted(q) > 0 => InRounds(q)) /\ (Waited(q) > 0 => InRounds(q))
  BY DEF Sent, Posted, Waited
<1> QED
  BY <1>2, <1>3, <1>4, <1>5

\* What is said of the messages to q rests on q and its peer only.
LEMMA Unaffected ==
  ASSUME NEW q \in Ranks, Conforms(q), Received(q),
         Sent(Peer[q])' = Sent(Peer[q]), Taken(q)' = Taken(q),
         OrderSent(Peer[q])' <=> OrderSent(Peer[q]), OrderTaken(q)' <=> OrderTaken(q),
         wire'[q] = wire[q], recvPool'[q] = recvPool[q], recvStart'[q] = recvStart[q],
         OrderSent(Peer[q]) => /\ sendStart'[Peer[q]] = sendStart[Peer[q]]
                               /\ Len(sendPool'[Peer[q]]) = Len(sendPool[Peer[q]]),
         Taken(q) > 0 \/ Sent(Peer[q]) > 0 => OrderSent(Peer[q]),
         Taken(q) \in Nat, Sent(Peer[q]) \in Nat
  PROVE  Conforms(q)' /\ Received(q)'
<1> DEFINE p == Peer[q]
<1>1. OrderPending(q)' = OrderPending(q)
  BY DEF OrderPending, OneIf
<1>2. OrderPending(q) = 1 => OrderSent(p) /\ OrderMessage(p)' = OrderMessage(p)
  BY DEF OrderPending, OneIf, OrderMessage
<1>3. ASSUME NEW pool, NEW n, OrderSent(p) PROVE Written(pool, p, n)' <=> Written(pool, p, n)
  BY <1>3 DEF Written, Holds, Extent
<1>4. Conforms(q)'
  <2>1. ASSUME NEW j \in 1 .. Sent(p) - Taken(q)
        PROVE  /\ wire[q][OrderPending(q) + j].kind = "data"
               /\ Written(wire[q][OrderPending(q) + j].body, p, Taken(q) + j)
               /\ Written(wire[q][OrderPending(q) + j].body, p, Taken(q) + j)'
    <3>1. /\ wire[q][OrderPending(q) + j].kind = "data"
          /\ Written(wire[q][OrderPending(q) + j].body, p, Taken(q) + j)
      BY DEF Conforms
    <3>2. OrderSent(p)
      BY <2>1
    <3>3. \A pool, n : Written(pool, p, n)' <=> Written(pool, p, n)
      BY <1>3, <3>2
    <3>4. PICK b, n : b = wire[q][OrderPending(q) + j].body /\ n = Taken(q) + j
      OBVIOUS
    <3>5. Written(b, p, n)'
      BY <3>1, <3>3, <3>4
    <3>6. b = (wire[q][OrderPending(q) + j].body)' /\ n = (Taken(q) + j)'
      BY <1>1, <3>4
    <3> QED
      BY <3>1, <3>5, <3>6
  <2>2. /\ OrderTaken(q)' => OrderSent(p)'
        /\ Taken(q)' =< Sent(p)'
        /\ Len(wire'[q]) = OrderPending(q)' + Sent(p)' - Taken(q)'
        /\ OrderPending(q)' = 1 => wire'[q][1] = OrderMessage(p)'
    BY <1>1, <1>2 DEF Conforms
  <2> QED
    BY <1>1, <2>1, <2>2 DEF Conforms
<1>5. Received(q)'
  <2>1. CASE ~OrderTaken(q)
    BY <2>1 DEF Received
  <2>2. CASE OrderTaken(q)
    <3>1. OrderSent(p)
      BY <2>2 DEF Conforms
    <3>2. \A pool, n : Written(pool, p, n)' <=> Written(pool, p, n)
      BY <1>3, <3>1
    <3>3. Taken(q) # 0 => Written(recvPool[q], p, Taken(q))'
      <4>1. SUFFICES ASSUME Taken(q) # 0 PROVE Written(recvPool[q], p, Taken(q))'
        OBVIOUS
      <4>2. PICK b, n : b = recvPool[q] /\ n = Taken(q)
        OBVIOUS
      <4>3. Written(b, p, n)'
        BY <2>2, <3>2, <4>1, <4>2 DEF Received
      <4>4. b = recvPool'[q] /\ n = Taken(q)'
        BY <4>2
      <4> QED
        BY <4>3, <4>4
    <3> QED
      BY <2>2, <3>1, <3>3 DEF Received
  <2> QED
    BY <2>1, <2>2
<1> QED
  BY <1>4, <1>5

\* A step that neither sends nor takes nor posts keeps what is said of the
\* messages.
LEMMA Quiet ==
  ASSUME Places, Wires, RecvPools, RequestsOK,
         \A q \in Ranks : /\ Sent(q)' = Sent(q) /\ Posted(q)' = Posted(q) /\ Waited(q)' = Waited(q)
                          /\ OrderSent(q)' <=> OrderSent(q)
                          /\ OrderTaken(q)' <=> OrderTaken(q)
                          /\ OrderSent(q) => /\ sendStart'[q] = sendStart[q]
                                             /\ Len(sendPool'[q]) = Len(sendPool[q]),
         UNCHANGED <<recvPool, recvStart, receiveRequest, wire, eager>>,
         orderRequest' \in [Ranks -> BOOLEAN]
  PROVE  Wires' /\ RecvPools' /\ RequestsOK'
<1>1. RequestsOK'
  BY DEF RequestsOK
<1>2. ASSUME NEW q \in Ranks PROVE Conforms(q)' /\ Received(q)'
  <2>1. Peer[q] \in Ranks
    BY Peers
  <2>2. Taken(q)' = Taken(q)
    BY DEF Taken
  <2>3. Conforms(q) /\ Received(q)
    BY DEF Wires, RecvPools
  <2>4. Taken(q) \in Nat /\ Sent(Peer[q]) \in Nat /\ (Sent(Peer[q]) > 0 => OrderSent(Peer[q]))
    BY <2>1, Numbers
  <2>5. Taken(q) > 0 => Sent(Peer[q]) > 0
    BY <2>3, <2>4 DEF Conforms
  <2> QED
    BY <2>1, <2>2, <2>3, <2>4, <2>5, Unaffected
<1>3. Wires' /\ RecvPools'
  BY <1>2 DEF Wires, RecvPools
<1> QED
  BY <1>1, <1>3

\* The calls that do no work are quiet.
LEMMA QuietCall ==
  ASSUME Places, Wires, RecvPools, RequestsOK,
         NEW r \in Ranks, NEW op \in AllOps, Calling(r, op), Proceed(r),
         op \in {"sendDataOrder", "receiveDataOrder", "prepareForReceive", "send"} => ~Ended(r, op)',
         op = "receive" => Called(r, op) # {},
         \A q \in Ranks : OrderSent(q) => /\ sendStart'[q] = sendStart[q]
                                          /\ Len(sendPool'[q]) = Len(sendPool[q]),
         UNCHANGED <<recvPool, recvStart, receiveRequest, wire, eager>>,
         orderRequest' \in [Ranks -> BOOLEAN]
  PROVE  Wires' /\ RecvPools' /\ RequestsOK'
<1>1. ASSUME NEW q \in Ranks
      PROVE  /\ Sent(q)' = Sent(q) /\ Posted(q)' = Posted(q) /\ Waited(q)' = Waited(q)
             /\ OrderSent(q)' <=> OrderSent(q)
             /\ OrderTaken(q)' <=> OrderTaken(q)
  <2>1. Sent(q) \in Nat /\ Posted(q) \in Nat /\ Waited(q) \in Nat
    BY Numbers
  <2>2. /\ Sent(q)' = Sent(q) + OneIf(q = r /\ op = "send" /\ Ended(r, op)')
        /\ Posted(q)' = Posted(q) + OneIf(q = r /\ op = "prepareForReceive" /\ Ended(r, op)')
        /\ Waited(q)' = Waited(q) + OneIf(q = r /\ op = "receive" /\ Called(r, op) = {})
        /\ OrderSent(q)' <=> OrderSent(q) \/ (q = r /\ op = "sendDataOrder" /\ Ended(r, op)')
        /\ OrderTaken(q)' <=> OrderTaken(q) \/ (q = r /\ op = "receiveDataOrder" /\ Ended(r, op)')
    BY Progress
  <2> QED
    BY <2>1, <2>2 DEF OneIf
<1> QED
  BY <1>1, Quiet

-----------------------------------------------------------------------------
(* Every step keeps the invariant *)

\* The call that brings a counter to the number of vectors ends the operation.
LEMMA LastEnds ==
  ASSUME Places, Counters, NEW r \in Ranks, NEW op \in Ops, Calling(r, op), Proceed(r)
  PROVE  LastCall(r, Field(op)) <=> Ended(r, op)'
<1>1. op \in AllOps
  BY DEF AllOps
<1> QED
  BY <1>1, CounterFacts, CallEnds

\* The peers of different ranks are different.
LEMMA PeerOfPeer ==
  ASSUME NEW r \in Ranks, NEW q \in Ranks, q # Peer[r]
  PROVE  Peer[q] # r
BY Peers

\* A step that leaves the messages to q and what they are about alone.
LEMMA Elsewhere ==
  ASSUME Places, Wires, RecvPools, NEW q \in Ranks,
         Sent(Peer[q])' = Sent(Peer[q]), Taken(q)' = Taken(q),
         OrderSent(Peer[q])' <=> OrderSent(Peer[q]), OrderTaken(q)' <=> OrderTaken(q),
         wire'[q] = wire[q], recvPool'[q] = recvPool[q], recvStart'[q] = recvStart[q],
         OrderSent(Peer[q]) => /\ sendStart'[Peer[q]] = sendStart[Peer[q]]
                               /\ Len(sendPool'[Peer[q]]) = Len(sendPool[Peer[q]])
  PROVE  Conforms(q)' /\ Received(q)'
<1>1. Peer[q] \in Ranks
  BY Peers
<1>2. Conforms(q) /\ Received(q)
  BY DEF Wires, RecvPools
<1>3. Taken(q) \in Nat /\ Sent(Peer[q]) \in Nat /\ (Sent(Peer[q]) > 0 => OrderSent(Peer[q]))
  BY <1>1, Numbers
<1>4. Taken(q) > 0 => Sent(Peer[q]) > 0
  BY <1>2, <1>3 DEF Conforms
<1> QED
  BY <1>2, <1>3, <1>4, Unaffected

\* The connector's vector is set up.
LEMMA InitVectorStep ==
  ASSUME Inv, NEW r \in Ranks, InitVector(r)
  PROVE  Inv'
<1> USE DEF Inv
<1>1. Calling(r, "init") /\ Proceed(r) /\ "init" \in AllOps
  BY DEF InitVector, AllOps
<1>2. Places' /\ Counters'
  BY <1>1, CallMade, NoCountKeeps DEF InitVector
<1>3. Layout' /\ Filled'
  BY InitVectorKeeps
<1>4. ~OrderSent(r)
  BY <1>1, Standing
<1>5. \A q \in Ranks : OrderSent(q) => sendStart'[q] = sendStart[q] /\ sendPool'[q] = sendPool[q]
  BY <1>4 DEF InitVector, Layout, Filled
<1>6. Wires' /\ RecvPools' /\ RequestsOK'
  <2>1. UNCHANGED <<recvPool, recvStart, receiveRequest, wire, eager>> /\ orderRequest' \in [Ranks -> BOOLEAN]
    BY DEF InitVector, RequestsOK
  <2> QED
    BY <1>1, <1>5, <2>1, QuietCall
<1> QED
  BY <1>2, <1>3, <1>6

\* The order is sent once, when the last sender asks for it.
LEMMA SendDataOrderStep ==
  ASSUME Inv, NEW r \in Ranks, SendDataOrder(r)
  PROVE  Inv'
<1> USE DEF Inv
<1> DEFINE p == Peer[r]
<1>1. /\ Calling(r, "sendDataOrder") /\ Proceed(r) /\ Count(r, Field("sendDataOrder"))
      /\ "sendDataOrder" \in Ops /\ "sendDataOrder" \in AllOps \ {"init", "fill"}
      /\ Field("sendDataOrder") = "out"
  BY DEF SendDataOrder, AllOps, Ops, Field
<1>2. Places' /\ Counters'
  BY <1>1, CallMade, CountKeeps
<1>3. Layout' /\ Filled'
  BY <1>1, OtherCallsKeep DEF SendDataOrder
<1>4. LastCall(r, "out") <=> Ended(r, "sendDataOrder")'
  BY <1>1, LastEnds
<1>5. UNCHANGED <<sendPool, sendStart, recvPool, recvStart, receiveRequest, eager>>
  BY DEF SendDataOrder
<1>6. CASE ~LastCall(r, "out")
  <2>1. wire' = wire /\ orderRequest' = orderRequest
    BY <1>6 DEF SendDataOrder
  <2>2. Wires' /\ RecvPools' /\ RequestsOK'
    <3>1. orderRequest' \in [Ranks -> BOOLEAN]
      BY <2>1 DEF RequestsOK
    <3> QED
      BY <1>1, <1>4, <1>5, <1>6, <2>1, <3>1, QuietCall
  <2> QED
    BY <1>2, <1>3, <2>2
<1>7. CASE LastCall(r, "out")
  <2>1. /\ wire' = [wire EXCEPT ![p] = Append(@, OrderMessage(r))]
        /\ orderRequest' = [orderRequest EXCEPT ![r] = TRUE]
    BY <1>7 DEF SendDataOrder, Put
  <2>2. p \in Ranks /\ p # r /\ Peer[p] = r
    BY Peers
  <2>3. ~OrderSent(r)
    BY <1>1, Standing
  <2>4. ASSUME NEW q \in Ranks
        PROVE  /\ Sent(q)' = Sent(q) /\ Posted(q)' = Posted(q) /\ Waited(q)' = Waited(q) /\ Taken(q)' = Taken(q)
               /\ OrderSent(q)' <=> OrderSent(q) \/ q = r
               /\ OrderTaken(q)' <=> OrderTaken(q)
    <3>1. Sent(q) \in Nat /\ Posted(q) \in Nat /\ Waited(q) \in Nat
      BY Numbers
    <3>2. /\ Sent(q)' = Sent(q) + OneIf(FALSE) /\ Posted(q)' = Posted(q) + OneIf(FALSE)
          /\ Waited(q)' = Waited(q) + OneIf(FALSE)
          /\ OrderSent(q)' <=> OrderSent(q) \/ q = r
          /\ OrderTaken(q)' <=> OrderTaken(q)
      BY <1>1, <1>4, <1>7, Progress DEF OneIf
    <3> QED
      BY <1>5, <3>1, <3>2 DEF OneIf, Taken
  <2>5. Conforms(p)
    BY <2>2 DEF Wires
  <2>6. /\ ~OrderTaken(p) /\ Sent(r) = 0 /\ Taken(p) = 0 /\ wire[p] = <<>>
    <3>1. ~OrderTaken(p)
      BY <2>2, <2>3, <2>5 DEF Conforms
    <3>2. Sent(r) = 0 /\ Taken(p) = 0
      BY <2>2, <2>3, <2>5, Numbers DEF Conforms
    <3>3. Len(wire[p]) = 0 /\ wire[p] \in Seq(Messages)
      BY <2>2, <2>3, <2>5, <3>2 DEF Conforms, OrderPending, OneIf, Wires
    <3> QED
      BY <3>1, <3>2, <3>3, EmptySeq
  <2>7. /\ OrderMessage(r)' = OrderMessage(r) /\ OrderMessage(r) \in Messages
    <3>1. sendStart[r] \in [KeysOf(r, "out") -> Nat]
      BY DEF Layout
    <3>2. KeysOf(r, "out") \in SUBSET Keys
      BY KeyFacts
    <3>3. sendStart[r] \in UNION { [K -> Nat] : K \in SUBSET Keys }
      BY <3>1, <3>2
    <3>4. Len(sendPool[r]) \in Nat
      BY DEF Filled
    <3> QED
      BY <1>5, <3>3, <3>4 DEF OrderMessage, Messages, Orders
  <2>8. /\ wire' \in [Ranks -> Seq(Messages)] /\ wire'[p] = <<OrderMessage(r)>>
        /\ \A q \in Ranks : q # p => wire'[q] = wire[q]
    <3>1. wire \in [Ranks -> Seq(Messages)]
      BY DEF Wires
    <3>2. Append(wire[p], OrderMessage(r)) = <<OrderMessage(r)>>
      BY <2>6
    <3>3. <<OrderMessage(r)>> \in Seq(Messages)
      BY <2>7
    <3> QED
      BY <2>1, <2>2, <3>1, <3>2, <3>3
  <2>9. Conforms(p)'
    <3>1. OrderPending(p)' = 1
      BY <2>2, <2>4, <2>6 DEF OrderPending, OneIf
    <3>2. Sent(r)' = 0 /\ Taken(p)' = 0 /\ ~OrderTaken(p)'
      BY <2>2, <2>4, <2>6
    <3>3. Len(wire'[p]) = 1 /\ wire'[p][1] = OrderMessage(r)'
      BY <2>7, <2>8
    <3> QED
      BY <2>2, <3>1, <3>2, <3>3 DEF Conforms
  <2>10. Received(p)'
    BY <2>2, <2>4, <2>6, <1>5 DEF Received, RecvPools
  <2>11. ASSUME NEW q \in Ranks, q # p PROVE Conforms(q)' /\ Received(q)'
    <3>1. Peer[q] # r /\ Peer[q] \in Ranks
      BY <2>11, PeerOfPeer, Peers
    <3> QED
      BY <1>5, <2>4, <2>8, <2>11, <3>1, Elsewhere
  <2>12. Wires' /\ RecvPools'
    BY <1>5, <2>8, <2>9, <2>10, <2>11 DEF Wires, RecvPools
  <2>13. RequestsOK'
    BY <1>5, <2>1, <2>4 DEF RequestsOK
  <2> QED
    BY <1>2, <1>3, <2>12, <2>13
<1> QED
  BY <1>6, <1>7

\* The order is taken, and the receiver's vectors get the sender's places.
LEMMA ReceiveDataOrderStep ==
  ASSUME Inv, NEW r \in Ranks, ReceiveDataOrder(r)
  PROVE  Inv'
<1> USE DEF Inv
<1> DEFINE p == Peer[r]
<1>1. /\ Calling(r, "receiveDataOrder") /\ Proceed(r) /\ Count(r, Field("receiveDataOrder"))
      /\ "receiveDataOrder" \in Ops /\ "receiveDataOrder" \in AllOps \ {"init", "fill"}
      /\ Field("receiveDataOrder") = "in"
  BY DEF ReceiveDataOrder, AllOps, Ops, Field
<1>2. Places' /\ Counters'
  BY <1>1, CallMade, CountKeeps
<1>3. Layout' /\ Filled'
  BY <1>1, OtherCallsKeep DEF ReceiveDataOrder
<1>4. LastCall(r, "in") <=> Ended(r, "receiveDataOrder")'
  BY <1>1, LastEnds
<1>5. UNCHANGED <<sendPool, sendStart, orderRequest, receiveRequest, eager>>
  BY DEF ReceiveDataOrder
<1>6. CASE ~LastCall(r, "in")
  <2>1. wire' = wire /\ recvPool' = recvPool /\ recvStart' = recvStart
    BY <1>6 DEF ReceiveDataOrder
  <2>2. Wires' /\ RecvPools' /\ RequestsOK'
    <3>1. orderRequest' \in [Ranks -> BOOLEAN]
      BY <1>5 DEF RequestsOK
    <3> QED
      BY <1>1, <1>4, <1>5, <1>6, <2>1, <3>1, QuietCall
  <2> QED
    BY <1>2, <1>3, <2>2
<1>7. CASE LastCall(r, "in")
  <2>1. /\ wire[r] # <<>>
        /\ recvStart' = [recvStart EXCEPT ![r] = Head(wire[r]).body.start]
        /\ recvPool' = [recvPool EXCEPT ![r] = [i \in 1 .. Head(wire[r]).body.length |-> Blank]]
        /\ wire' = [wire EXCEPT ![r] = Tail(@)]
    BY <1>7 DEF ReceiveDataOrder, AdoptedOrder
  <2>2. p \in Ranks /\ p # r /\ Peer[p] = r
    BY Peers
  <2>3. ~OrderTaken(r)
    BY <1>1, Standing
  <2>4. ASSUME NEW q \in Ranks
        PROVE  /\ Sent(q)' = Sent(q) /\ Posted(q)' = Posted(q) /\ Waited(q)' = Waited(q) /\ Taken(q)' = Taken(q)
               /\ OrderSent(q)' <=> OrderSent(q)
               /\ OrderTaken(q)' <=> OrderTaken(q) \/ q = r
    <3>1. Sent(q) \in Nat /\ Posted(q) \in Nat /\ Waited(q) \in Nat
      BY Numbers
    <3>2. /\ Sent(q)' = Sent(q) + OneIf(FALSE) /\ Posted(q)' = Posted(q) + OneIf(FALSE)
          /\ Waited(q)' = Waited(q) + OneIf(FALSE)
          /\ OrderSent(q)' <=> OrderSent(q)
          /\ OrderTaken(q)' <=> OrderTaken(q) \/ q = r
      BY <1>1, <1>4, <1>7, Progress DEF OneIf
    <3> QED
      BY <1>5, <3>1, <3>2 DEF OneIf, Taken
  <2>5. Conforms(r) /\ wire \in [Ranks -> Seq(Messages)] /\ wire[r] \in Seq(Messages)
    BY DEF Wires
  <2>6. Taken(r) = 0
    <3>1. Waited(r) = 0 /\ Posted(r) = 0
      BY <2>3, Numbers
    <3> QED
      BY <3>1 DEF Taken, OneIf, RequestsOK
  <2>7. OrderSent(p)
    <3>1. SUFFICES ASSUME ~OrderSent(p) PROVE FALSE
      OBVIOUS
    <3>2. Sent(p) = 0
      BY <2>2, <3>1, Numbers
    <3>3. Len(wire[r]) = 0
      BY <2>5, <2>6, <3>1, <3>2 DEF Conforms, OrderPending, OneIf
    <3> QED
      BY <2>1, <2>5, <3>3, EmptySeq
  <2>8. OrderPending(r) = 1 /\ OrderPending(r)' = 0
    BY <2>3, <2>4, <2>7 DEF OrderPending, OneIf
  <2>9. Head(wire[r]) = OrderMessage(p)
    BY <2>1, <2>5, <2>8 DEF Conforms
  <2>10. Sent(p) \in Nat /\ Len(sendPool[p]) \in Nat
    BY <2>2, Numbers DEF Filled
  <2>11. /\ wire'[r] = Tail(wire[r]) /\ Tail(wire[r]) \in Seq(Messages) /\ Len(Tail(wire[r])) = Sent(p)
         /\ \A j \in 1 .. Sent(p) : Tail(wire[r])[j] = wire[r][1 + j]
         /\ wire' \in [Ranks -> Seq(Messages)] /\ \A q \in Ranks : q # r => wire'[q] = wire[q]
    <3>1. Len(wire[r]) = 1 + Sent(p)
      BY <2>5, <2>6, <2>8, <2>10 DEF Conforms
    <3>2. /\ Tail(wire[r]) \in Seq(Messages) /\ Len(Tail(wire[r])) = Sent(p)
          /\ \A j \in 1 .. Sent(p) : Tail(wire[r])[j] = wire[r][j + 1]
      BY <2>1, <2>5, <2>10, <3>1, HeadTailProperties
    <3> QED
      BY <2>1, <2>5, <3>2
  <2>12. /\ DOMAIN recvStart' = Ranks /\ recvStart'[r] = sendStart[p]
         /\ \A q \in Ranks : q # r => recvStart'[q] = recvStart[q] /\ recvPool'[q] = recvPool[q]
         /\ recvPool'[r] = [i \in 1 .. Len(sendPool[p]) |-> Blank]
    BY <2>1, <2>9 DEF OrderMessage, RecvPools
  <2>13. recvPool' \in [Ranks -> Seq(Elements)]
    <3>1. Blank \in Elements
      BY DEF Blank, Elements
    <3>2. [i \in 1 .. Len(sendPool[p]) |-> Blank] \in Seq(Elements)
      BY <2>10, <3>1
    <3>3. recvPool' = [recvPool EXCEPT ![r] = [i \in 1 .. Len(sendPool[p]) |-> Blank]]
      <4>1. Head(wire[r]).body.length = Len(sendPool[p])
        BY <2>9 DEF OrderMessage
      <4>2. PICK n : n = Head(wire[r]).body.length
        OBVIOUS
      <4>3. recvPool' = [recvPool EXCEPT ![r] = [i \in 1 .. n |-> Blank]]
        BY <2>1, <4>2, Zenon
      <4>4. n = Len(sendPool[p])
        BY <4>1, <4>2
      <4> QED
        BY <4>3, <4>4, Zenon
    <3>4. recvPool \in [Ranks -> Seq(Elements)]
      BY DEF RecvPools
    <3> HIDE DEF p
    <3> QED
      BY <3>2, <3>3, <3>4
  <2>14. Conforms(r)'
    <3>1. OrderSent(p)' /\ Sent(p)' = Sent(p) /\ Taken(r)' = 0
      BY <2>2, <2>4, <2>6, <2>7
    <3>2. ASSUME NEW j \in 1 .. Sent(p)
          PROVE  wire'[r][j].kind = "data" /\ Written(wire[r][j].body, p, j)'
      <4>1. wire'[r][j] = wire[r][1 + j]
        BY <2>11
      <4>2. wire[r][1 + j].kind = "data" /\ Written(wire[r][1 + j].body, p, j)
        BY <2>5, <2>6, <2>8, <2>10 DEF Conforms
      <4> QED
        BY <1>5, <4>1, <4>2 DEF Written, Holds, Extent
    <3> QED
      BY <2>8, <2>10, <2>11, <3>1, <3>2 DEF Conforms
  <2>15. Received(r)'
    <3>1. Taken(r)' = 0 /\ OrderTaken(r)' /\ sendStart' = sendStart /\ sendPool' = sendPool
      BY <1>5, <2>4, <2>6
    <3>2. DOMAIN recvStart'[r] = KeysOf(r, "in")
      BY <2>2, <2>12, Peers DEF Layout
    <3> QED
      BY <2>12, <3>1, <3>2 DEF Received
  <2>16. ASSUME NEW q \in Ranks, q # r PROVE Conforms(q)' /\ Received(q)'
    <3>1. Peer[q] \in Ranks
      BY Peers
    <3> QED
      BY <1>5, <2>4, <2>11, <2>12, <2>16, <3>1, Elsewhere
  <2>17. Wires' /\ RecvPools'
    BY <2>11, <2>12, <2>13, <2>14, <2>15, <2>16 DEF Wires, RecvPools
  <2>18. RequestsOK'
    BY <1>5, <2>4 DEF RequestsOK
  <2> QED
    BY <1>2, <1>3, <2>17, <2>18
<1> QED
  BY <1>6, <1>7

\* The receive of a round is posted by the last call, after the last one was
\* waited for.
LEMMA PrepareForReceiveStep ==
  ASSUME Inv, NEW r \in Ranks, PrepareForReceive(r)
  PROVE  Inv'
<1> USE DEF Inv
<1>1. /\ Calling(r, "prepareForReceive") /\ Proceed(r) /\ Count(r, Field("prepareForReceive"))
      /\ "prepareForReceive" \in Ops /\ "prepareForReceive" \in AllOps \ {"init", "fill"}
      /\ Field("prepareForReceive") = "in"
  BY DEF PrepareForReceive, AllOps, Ops, Field
<1>2. Places' /\ Counters'
  BY <1>1, CallMade, CountKeeps
<1>3. Layout' /\ Filled'
  BY <1>1, OtherCallsKeep DEF PrepareForReceive
<1>4. LastCall(r, "in") <=> Ended(r, "prepareForReceive")'
  BY <1>1, LastEnds
<1>5. UNCHANGED <<sendPool, sendStart, recvPool, recvStart, orderRequest, wire, eager>>
  BY DEF PrepareForReceive
<1>6. CASE ~LastCall(r, "in")
  <2>1. receiveRequest' = receiveRequest
    BY <1>6 DEF PrepareForReceive
  <2>2. Wires' /\ RecvPools' /\ RequestsOK'
    <3>1. orderRequest' \in [Ranks -> BOOLEAN]
      BY <1>5 DEF RequestsOK
    <3> QED
      BY <1>1, <1>4, <1>5, <1>6, <2>1, <3>1, QuietCall
  <2> QED
    BY <1>2, <1>3, <2>2
<1>7. CASE LastCall(r, "in")
  <2>1. receiveRequest' = [receiveRequest EXCEPT ![r] = "pending"] /\ DOMAIN receiveRequest = Ranks
    BY <1>7 DEF PrepareForReceive, RequestsOK
  <2>2. Posted(r) = round[r] - 1 /\ Waited(r) = round[r] - 1 /\ receiveRequest[r] = "null"
    BY <1>1, Standing DEF RequestsOK
  <2>3. ASSUME NEW q \in Ranks
        PROVE  /\ Sent(q)' = Sent(q) /\ Waited(q)' = Waited(q)
               /\ Posted(q)' = IF q = r THEN Posted(q) + 1 ELSE Posted(q)
               /\ OrderSent(q)' <=> OrderSent(q)
               /\ OrderTaken(q)' <=> OrderTaken(q)
    <3>1. Sent(q) \in Nat /\ Posted(q) \in Nat /\ Waited(q) \in Nat
      BY Numbers
    <3>2. /\ Sent(q)' = Sent(q) + OneIf(FALSE) /\ Posted(q)' = Posted(q) + OneIf(q = r)
          /\ Waited(q)' = Waited(q) + OneIf(FALSE)
          /\ OrderSent(q)' <=> OrderSent(q)
          /\ OrderTaken(q)' <=> OrderTaken(q)
      BY <1>1, <1>4, <1>7, Progress DEF OneIf
    <3> QED
      BY <3>1, <3>2 DEF OneIf
  <2>4. ASSUME NEW q \in Ranks
        PROVE  Taken(q)' = Taken(q)
    BY <2>1, <2>2, <2>3 DEF Taken, OneIf
  <2>5. ASSUME NEW q \in Ranks PROVE Conforms(q)' /\ Received(q)'
    <3>1. Peer[q] \in Ranks
      BY Peers
    <3> QED
      BY <1>5, <2>3, <2>4, <3>1, Elsewhere
  <2>6. Wires' /\ RecvPools'
    BY <1>5, <2>5 DEF Wires, RecvPools
  <2>7. RequestsOK'
    <3>1. ASSUME NEW q \in Ranks
          PROVE IF Posted(q)' = Waited(q)' THEN receiveRequest'[q] = "null"
                ELSE Posted(q)' = Waited(q)' + 1 /\ receiveRequest'[q] \in {"pending", "complete"}
      <4>1. CASE q = r
        <5>1. Posted(r)' = Waited(r)' + 1 /\ receiveRequest'[r] = "pending" /\ Waited(r) \in Nat
          BY <2>1, <2>2, <2>3, Numbers
        <5>2. Posted(r)' # Waited(r)'
          BY <2>3, <5>1
        <5> QED
          BY <4>1, <5>1, <5>2
      <4>2. CASE q # r
        <5>1. Posted(q)' = Posted(q) /\ Waited(q)' = Waited(q) /\ receiveRequest'[q] = receiveRequest[q]
          BY <2>1, <2>3, <4>2
        <5> QED
          BY <5>1 DEF RequestsOK
      <4> QED
        BY <4>1, <4>2
    <3> QED
      BY <1>5, <2>1, <3>1 DEF RequestsOK
  <2> QED
    BY <1>2, <1>3, <2>6, <2>7
<1> QED
  BY <1>6, <1>7

\* Waiting for the order to have gone out changes no message.
LEMMA PrepareForSendStep ==
  ASSUME Inv, NEW r \in Ranks, PrepareForSend(r)
  PROVE  Inv'
<1> USE DEF Inv
<1>1. /\ Calling(r, "prepareForSend") /\ Proceed(r) /\ Count(r, Field("prepareForSend"))
      /\ "prepareForSend" \in Ops /\ "prepareForSend" \in AllOps \ {"init", "fill"}
  BY DEF PrepareForSend, AllOps, Ops, Field
<1>2. Places' /\ Counters'
  BY <1>1, CallMade, CountKeeps
<1>3. Layout' /\ Filled'
  BY <1>1, OtherCallsKeep DEF PrepareForSend
<1>4. UNCHANGED <<sendPool, sendStart, recvPool, recvStart, receiveRequest, wire, eager>>
  BY DEF PrepareForSend
<1>5. orderRequest' \in [Ranks -> BOOLEAN]
  BY DEF PrepareForSend, RequestsOK
<1>6. Wires' /\ RecvPools' /\ RequestsOK'
  BY <1>1, <1>4, <1>5, QuietCall
<1> QED
  BY <1>2, <1>3, <1>6

\* A connector fills its vector.
LEMMA FillVectorStep ==
  ASSUME Inv, NEW r \in Ranks, FillVector(r)
  PROVE  Inv'
<1> USE DEF Inv
<1>1. Calling(r, "fill") /\ Proceed(r) /\ "fill" \in AllOps
  BY DEF FillVector, AllOps
<1>2. Places' /\ Counters'
  BY <1>1, CallMade, NoCountKeeps DEF FillVector
<1>3. Layout' /\ Filled' /\ \A q \in Ranks : Len(sendPool'[q]) = Len(sendPool[q])
  BY FillVectorKeeps
<1>4. UNCHANGED <<sendStart, recvPool, recvStart, receiveRequest, wire, eager>> /\ orderRequest' \in [Ranks -> BOOLEAN]
  BY DEF FillVector, RequestsOK
<1>5. Wires' /\ RecvPools' /\ RequestsOK'
  BY <1>1, <1>3, <1>4, QuietCall
<1> QED
  BY <1>2, <1>3, <1>5

\* A connector reads its vector.
LEMMA DistributeVectorStep ==
  ASSUME Inv, NEW r \in Ranks, DistributeVector(r)
  PROVE  Inv'
<1> USE DEF Inv
<1>1. /\ Calling(r, "distribute") /\ Proceed(r)
      /\ "distribute" \in AllOps \ {"init", "fill"} /\ "distribute" \in {"init", "fill", "distribute"}
  BY DEF DistributeVector, AllOps
<1>2. Places' /\ Counters'
  BY <1>1, CallMade, NoCountKeeps DEF DistributeVector
<1>3. Layout' /\ Filled'
  BY <1>1, OtherCallsKeep DEF DistributeVector
<1>4. /\ UNCHANGED <<sendPool, sendStart, recvPool, recvStart, receiveRequest, wire, eager>>
      /\ orderRequest' \in [Ranks -> BOOLEAN]
  BY DEF DistributeVector, RequestsOK
<1>5. Wires' /\ RecvPools' /\ RequestsOK'
  BY <1>1, <1>4, QuietCall
<1> QED
  BY <1>2, <1>3, <1>5

\* Turning to the next method, connector, pass or round.
LEMMA MoveOnStep ==
  ASSUME Inv, NEW r \in Ranks, MoveOn(r)
  PROVE  Inv'
<1> USE DEF Inv
<1>1. Places' /\ Counters' /\ Layout' /\ Filled'
  BY MovedOn, MoveOnKeeps
<1>2. /\ UNCHANGED <<sendPool, sendStart, recvPool, recvStart, receiveRequest, wire, eager>>
      /\ orderRequest' \in [Ranks -> BOOLEAN]
  BY DEF MoveOn, RequestsOK
<1>3. ASSUME NEW q \in Ranks
      PROVE  /\ Sent(q)' = Sent(q) /\ Posted(q)' = Posted(q) /\ Waited(q)' = Waited(q)
             /\ OrderSent(q)' <=> OrderSent(q)
             /\ OrderTaken(q)' <=> OrderTaken(q)
  <2>1. CASE q = r
    BY <2>1, MovedOn
  <2>2. CASE q # r
    <3>1. at'[q] = at[q] /\ round'[q] = round[q]
      BY <2>2, MovedOn
    <3> QED
      BY <3>1 DEF Sent, Posted, Waited, OrderSent, OrderTaken, InRounds, Ended, Called
  <2> QED
    BY <2>1, <2>2
<1>4. Wires' /\ RecvPools' /\ RequestsOK'
  BY <1>2, <1>3, Quiet
<1> QED
  BY <1>1, <1>4
\* When a connector sends, it has filled all its vectors, and so have those
\* before it.
LEMMA SentAreFilled ==
  ASSUME Places, NEW r \in Ranks, Calling(r, "send")
  PROVE  Called(r, "send") \cup {Key(r)} \subseteq Called(r, "fill")
<1> DEFINE a == at[r]
<1>1. "send" \in AllOps /\ "fill" \in AllOps /\ Field("send") = "out" /\ Field("fill") = "out"
      /\ MethodOf("send") = 2 /\ MethodOf("fill") = 1
  BY DEF AllOps, Field, MethodOf, Ops
<1>2. /\ a.method = 2 /\ <<a.connector, a.vector>> \in Slots(r, "out")
      /\ Key(r) = KeyAt(r, "out", <<a.connector, a.vector>>)
  BY <1>1, CallHere
<1>3. ASSUME NEW s \in SlotsBefore(r, "send", a) PROVE s \in SlotsBefore(r, "fill", a)
  BY <1>1, <1>2 DEF SlotsBefore, Before
<1>4. <<a.connector, a.vector>> \in SlotsBefore(r, "fill", a)
  <2>1. PICK s : s = <<a.connector, a.vector>>
    OBVIOUS
  <2>2. s \in Slots(r, "out") /\ s[1] = a.connector
    BY <1>2, <2>1
  <2>3. s \in SlotsBefore(r, "fill", a)
    BY <1>1, <1>2, <2>2 DEF SlotsBefore, Before
  <2> QED
    BY <2>1, <2>3
<1> QED
  BY <1>1, <1>2, <1>3, <1>4 DEF Called, CalledAt

\* The pool is sent by the last call, when all its vectors have been filled.
LEMMA SendDataStep ==
  ASSUME Inv, NEW r \in Ranks, SendData(r)
  PROVE  Inv'
<1> USE DEF Inv
<1> DEFINE p == Peer[r]
<1>1. /\ Calling(r, "send") /\ Proceed(r) /\ Count(r, Field("send"))
      /\ "send" \in Ops /\ "send" \in AllOps \ {"init", "fill"}
      /\ Field("send") = "out"
  BY DEF SendData, AllOps, Ops, Field
<1>2. Places' /\ Counters'
  BY <1>1, CallMade, CountKeeps
<1>3. Layout' /\ Filled'
  BY <1>1, OtherCallsKeep DEF SendData
<1>4. LastCall(r, "out") <=> Ended(r, "send")'
  BY <1>1, LastEnds
<1>5. UNCHANGED <<sendPool, sendStart, recvPool, recvStart, orderRequest, receiveRequest, eager>>
  BY DEF SendData
<1>6. CASE ~LastCall(r, "out")
  <2>1. wire' = wire
    BY <1>6 DEF SendData
  <2>2. Wires' /\ RecvPools' /\ RequestsOK'
    <3>1. orderRequest' \in [Ranks -> BOOLEAN]
      BY <1>5 DEF RequestsOK
    <3> QED
      BY <1>1, <1>4, <1>5, <1>6, <2>1, <3>1, QuietCall
  <2> QED
    BY <1>2, <1>3, <2>2
<1>7. CASE LastCall(r, "out")
  <2> DEFINE message == [kind |-> "data", body |-> sendPool[r]]
             n == Sent(r)
             t == Taken(p)
             o == OrderPending(p)
  <2>1. wire' = [wire EXCEPT ![p] = Append(@, message)]
    BY <1>7 DEF SendData, Put
  <2>2. p \in Ranks /\ p # r /\ Peer[p] = r
    BY Peers
  <2>3. n = round[r] - 1 /\ round[r] \in Nat /\ OrderSent(r)
    BY <1>1, Standing DEF Places
  <2>4. ASSUME NEW q \in Ranks
        PROVE  /\ Posted(q)' = Posted(q) /\ Waited(q)' = Waited(q) /\ Taken(q)' = Taken(q)
               /\ Sent(q)' = IF q = r THEN Sent(q) + 1 ELSE Sent(q)
               /\ OrderSent(q)' <=> OrderSent(q)
               /\ OrderTaken(q)' <=> OrderTaken(q)
    <3>1. Sent(q) \in Nat /\ Posted(q) \in Nat /\ Waited(q) \in Nat
      BY Numbers
    <3>2. /\ Sent(q)' = Sent(q) + OneIf(q = r) /\ Posted(q)' = Posted(q) + OneIf(FALSE)
          /\ Waited(q)' = Waited(q) + OneIf(FALSE)
          /\ OrderSent(q)' <=> OrderSent(q)
          /\ OrderTaken(q)' <=> OrderTaken(q)
      BY <1>1, <1>4, <1>7, Progress DEF OneIf
    <3> QED
      BY <1>5, <3>1, <3>2 DEF OneIf, Taken
  <2>5. Written(sendPool[r], r, round[r])
    <3>1. Called(r, "send") \cup {Key(r)} = KeysOf(r, "out")
      BY <1>1, <1>7, CounterFacts
    <3>2. at[r].pass = 5
      BY <1>1, CallHere DEF PassOf
    <3>3. \A k \in KeysOf(r, "out") : Holds(sendPool[r], r, k, round[r])
      BY <1>1, <3>1, <3>2, SentAreFilled DEF Filled
    <3> QED
      BY <3>3 DEF Written, Filled
  <2>6. message \in Messages /\ message.kind = "data" /\ message.body = sendPool[r]
    BY DEF Messages, Filled
  <2>7. Conforms(p) /\ wire \in [Ranks -> Seq(Messages)] /\ wire[p] \in Seq(Messages)
    BY <2>2 DEF Wires
  <2>8. n \in Nat /\ t \in Nat /\ t =< n /\ o \in 0 .. 1 /\ Len(wire[p]) = o + n - t
    BY <2>2, <2>7, Numbers DEF Conforms, OrderPending, OneIf
  <2>9. /\ wire'[p] = Append(wire[p], message) /\ wire' \in [Ranks -> Seq(Messages)]
        /\ \A q \in Ranks : q # p => wire'[q] = wire[q]
    BY <2>1, <2>2, <2>6, <2>7
  <2>10. /\ Len(wire'[p]) = Len(wire[p]) + 1
         /\ \A i \in 1 .. Len(wire[p]) : wire'[p][i] = wire[p][i]
         /\ wire'[p][Len(wire[p]) + 1] = message
    BY <2>6, <2>7, <2>9, AppendProperties
  <2>11. /\ OrderPending(p)' = o /\ Taken(p)' = t /\ Sent(r)' = n + 1
         /\ OrderTaken(p)' <=> OrderTaken(p)
         /\ OrderSent(r)' <=> OrderSent(r)
    BY <2>2, <2>4 DEF OrderPending
  <2>12. Conforms(p)'
    <3>1. o = 1 => wire'[p][1] = OrderMessage(r)'
      <4>1. OrderMessage(r)' = OrderMessage(r)
        BY <1>5 DEF OrderMessage
      <4>2. o = 1 => wire[p][1] = OrderMessage(r) /\ 1 \in 1 .. Len(wire[p])
        BY <2>2, <2>7, <2>8 DEF Conforms
      <4> QED
        BY <2>10, <4>1, <4>2
    <3>2. ASSUME NEW j \in 1 .. (n + 1) - t
          PROVE  wire'[p][o + j].kind = "data" /\ Written(wire'[p][o + j].body, r, t + j)
      <4>1. CASE j = n + 1 - t
        <5> HIDE DEF n, t, o
        <5>0. n + 1 = round[r]
          BY <2>3
        <5>1. PICK m : m = Len(wire[p])
          OBVIOUS
        <5>2. m = o + n - t /\ j = n + 1 - t /\ n \in Int /\ t \in Int /\ o \in Int
          BY <2>8, <4>1, <5>1
        <5>3. o + j = m + 1 /\ t + j = n + 1
          BY <5>2
        <5> QED
          BY <2>5, <2>6, <2>10, <5>0, <5>1, <5>3
      <4>2. CASE j # n + 1 - t
        <5>1. j \in 1 .. n - t /\ o + j \in 1 .. Len(wire[p])
          BY <2>8, <4>2
        <5>2. wire[p][o + j].kind = "data" /\ Written(wire[p][o + j].body, r, t + j)
          BY <2>2, <2>7, <5>1 DEF Conforms
        <5> QED
          BY <2>10, <5>1, <5>2
      <4> QED
        BY <4>1, <4>2
    <3>3. \A pool, m : Written(pool, r, m)' <=> Written(pool, r, m)
      BY <1>5 DEF Written, Holds, Extent
    <3>4. ASSUME NEW j \in 1 .. Sent(Peer[p])' - Taken(p)'
          PROVE  /\ wire'[p][OrderPending(p)' + j].kind = "data"
                 /\ Written(wire[p][OrderPending(p) + j].body, Peer[p], Taken(p) + j)'
      <4>1. j \in 1 .. (n + 1) - t
        BY <2>2, <2>11
      <4>2. PICK b, m : b = wire'[p][o + j].body /\ m = t + j
        OBVIOUS
      <4>3. wire'[p][o + j].kind = "data" /\ Written(b, r, m)'
        BY <3>2, <3>3, <4>1, <4>2
      <4>4. b = (wire[p][OrderPending(p) + j].body)' /\ m = (Taken(p) + j)'
        BY <2>11, <4>2
      <4> QED
        BY <2>2, <2>11, <4>3, <4>4
    <3>5. /\ OrderTaken(p)' => OrderSent(Peer[p])'
          /\ Taken(p)' =< Sent(Peer[p])'
          /\ Len(wire'[p]) = OrderPending(p)' + Sent(Peer[p])' - Taken(p)'
          /\ OrderPending(p)' = 1 => wire'[p][1] = OrderMessage(Peer[p])'
      BY <2>2, <2>3, <2>8, <2>10, <2>11, <3>1
    <3> QED
      BY <3>4, <3>5 DEF Conforms
  <2>13. Received(p)'
    <3>1. \A pool, m : Written(pool, r, m)' <=> Written(pool, r, m)
      BY <1>5 DEF Written, Holds, Extent
    <3>2. Received(p) /\ recvPool'[p] = recvPool[p] /\ recvStart'[p] = recvStart[p]
          /\ sendStart'[r] = sendStart[r] /\ sendPool'[r] = sendPool[r]
      BY <1>5, <2>2 DEF RecvPools
    <3>3. PICK b, m : b = recvPool[p] /\ m = Taken(p)
      OBVIOUS
    <3>4. b = recvPool'[p] /\ m = Taken(p)'
      BY <2>11, <3>2, <3>3
    <3>5. Written(recvPool[p], r, Taken(p)) => Written(recvPool[p], r, Taken(p))'
      BY <3>1, <3>3, <3>4
    <3> QED
      BY <2>2, <2>11, <3>2, <3>5 DEF Received
  <2>14. ASSUME NEW q \in Ranks, q # p PROVE Conforms(q)' /\ Received(q)'
    <3>1. Peer[q] # r /\ Peer[q] \in Ranks
      BY <2>14, PeerOfPeer, Peers
    <3> QED
      BY <1>5, <2>4, <2>9, <2>14, <3>1, Elsewhere
  <2>15. Wires' /\ RecvPools'
    BY <1>5, <2>9, <2>12, <2>13, <2>14 DEF Wires, RecvPools
  <2>16. RequestsOK'
    BY <1>5, <2>4 DEF RequestsOK
  <2> QED
    BY <1>2, <1>3, <2>15, <2>16
<1> QED
  BY <1>6, <1>7
\* The first call of a round waits for the receive: the message it waits for
\* has been taken, and stays what was taken last.
LEMMA ReceiveDataStep ==
  ASSUME Inv, NEW r \in Ranks, ReceiveData(r)
  PROVE  Inv'
<1> USE DEF Inv
<1>1. /\ Calling(r, "receive") /\ Proceed(r) /\ Count(r, Field("receive"))
      /\ "receive" \in Ops /\ "receive" \in AllOps \ {"init", "fill"}
      /\ Field("receive") = "in"
  BY DEF ReceiveData, AllOps, Ops, Field
<1>2. Places' /\ Counters'
  BY <1>1, CallMade, CountKeeps
<1>3. Layout' /\ Filled'
  BY <1>1, OtherCallsKeep DEF ReceiveData
<1>4. Waits(r) <=> Called(r, "receive") = {}
  BY <1>1, CounterFacts DEF Waits
<1>5. UNCHANGED <<sendPool, sendStart, recvPool, recvStart, orderRequest, wire, eager>>
  BY DEF ReceiveData
<1>6. CASE ~Waits(r)
  <2>1. receiveRequest' = receiveRequest
    BY <1>6 DEF ReceiveData
  <2>2. Wires' /\ RecvPools' /\ RequestsOK'
    <3>1. orderRequest' \in [Ranks -> BOOLEAN]
      BY <1>5 DEF RequestsOK
    <3> QED
      BY <1>1, <1>4, <1>5, <1>6, <2>1, <3>1, QuietCall
  <2> QED
    BY <1>2, <1>3, <2>2
<1>7. CASE Waits(r)
  <2>1. /\ receiveRequest[r] # "pending" /\ DOMAIN receiveRequest = Ranks
        /\ receiveRequest' = [receiveRequest EXCEPT ![r] = "null"]
    BY <1>7 DEF ReceiveData, RequestsOK
  <2>2. ASSUME NEW q \in Ranks
        PROVE  /\ Sent(q)' = Sent(q) /\ Posted(q)' = Posted(q)
               /\ Waited(q)' = IF q = r THEN Waited(q) + 1 ELSE Waited(q)
               /\ OrderSent(q)' <=> OrderSent(q)
               /\ OrderTaken(q)' <=> OrderTaken(q)
    <3>1. Sent(q) \in Nat /\ Posted(q) \in Nat /\ Waited(q) \in Nat
      BY Numbers
    <3>2. /\ Sent(q)' = Sent(q) + OneIf(FALSE) /\ Posted(q)' = Posted(q) + OneIf(FALSE)
          /\ Waited(q)' = Waited(q) + OneIf(q = r)
          /\ OrderSent(q)' <=> OrderSent(q)
          /\ OrderTaken(q)' <=> OrderTaken(q)
      BY <1>1, <1>4, <1>7, Progress DEF OneIf
    <3> QED
      BY <3>1, <3>2 DEF OneIf
  <2>3. Posted(r) = round[r] /\ Waited(r) = round[r] - 1 /\ round[r] \in Nat
    BY <1>1, <1>4, <1>7, Standing DEF OneIf, Places
  <2>4. receiveRequest[r] = "complete"
    BY <2>1, <2>3 DEF RequestsOK
  <2>5. ASSUME NEW q \in Ranks
        PROVE  Taken(q)' = Taken(q)
    <3>1. Waited(q) \in Nat
      BY Numbers
    <3>2. CASE q = r
      BY <2>1, <2>2, <2>4, <3>1, <3>2 DEF Taken, OneIf
    <3>3. CASE q # r
      BY <2>1, <2>2, <3>3 DEF Taken, OneIf
    <3> QED
      BY <3>2, <3>3
  <2>6. ASSUME NEW q \in Ranks PROVE Conforms(q)' /\ Received(q)'
    <3>1. Peer[q] \in Ranks
      BY Peers
    <3> QED
      BY <1>5, <2>2, <2>5, <3>1, Elsewhere
  <2>7. Wires' /\ RecvPools'
    BY <1>5, <2>6 DEF Wires, RecvPools
  <2>8. RequestsOK'
    <3>1. ASSUME NEW q \in Ranks
          PROVE IF Posted(q)' = Waited(q)' THEN receiveRequest'[q] = "null"
                ELSE Posted(q)' = Waited(q)' + 1 /\ receiveRequest'[q] \in {"pending", "complete"}
      <4>1. CASE q = r
        <5>1. Posted(r)' = Waited(r)' /\ receiveRequest'[r] = "null"
          BY <2>1, <2>2, <2>3
        <5> QED
          BY <4>1, <5>1
      <4>2. CASE q # r
        <5>1. Posted(q)' = Posted(q) /\ Waited(q)' = Waited(q) /\ receiveRequest'[q] = receiveRequest[q]
          BY <2>1, <2>2, <4>2
        <5> QED
          BY <5>1 DEF RequestsOK
      <4> QED
        BY <4>1, <4>2
    <3> QED
      BY <1>5, <2>1, <3>1 DEF RequestsOK
  <2> QED
    BY <1>2, <1>3, <2>7, <2>8
<1> QED
  BY <1>6, <1>7

\* A rank that stays where it is has called, sent and posted what it had.
LEMMA SamePlace ==
  ASSUME NEW q \in Ranks, UNCHANGED progress
  PROVE  /\ Sent(q)' = Sent(q) /\ Posted(q)' = Posted(q) /\ Waited(q)' = Waited(q)
         /\ OrderSent(q)' <=> OrderSent(q)
         /\ OrderTaken(q)' <=> OrderTaken(q)
         /\ Done(q)' <=> Done(q)
         /\ InRounds(q)' <=> InRounds(q)
         /\ LaidOut(q)' = LaidOut(q)
         /\ Vectors(q)' = Vectors(q)
         /\ \A op \in AllOps : Called(q, op)' = Called(q, op) /\ (Ended(q, op)' <=> Ended(q, op))
<1>1. at' = at /\ round' = round
  BY DEF progress
<1>2. \A op \in AllOps : Called(q, op)' = Called(q, op) /\ (Ended(q, op)' <=> Ended(q, op))
  BY <1>1 DEF Called, Ended
<1>3. {"send", "prepareForReceive", "receive", "sendDataOrder", "receiveDataOrder", "init"} \subseteq AllOps
  BY DEF AllOps, Ops
<1>4. InRounds(q)' <=> InRounds(q)
  BY <1>1 DEF InRounds
<1>5. Sent(q)' = Sent(q) /\ Posted(q)' = Posted(q)
  BY <1>1, <1>2, <1>3, <1>4 DEF Sent, Posted, OneIf
<1>6. Waited(q)' = Waited(q)
  BY <1>1, <1>2, <1>3, <1>4 DEF Waited, OneIf
<1>7. (OrderSent(q)' <=> OrderSent(q)) /\ (OrderTaken(q)' <=> OrderTaken(q))
  BY <1>2, <1>3 DEF OrderSent, OrderTaken
<1>8. (Done(q)' <=> Done(q)) /\ LaidOut(q)' = LaidOut(q) /\ Vectors(q)' = Vectors(q)
  BY <1>1, <1>2, <1>3 DEF Done, LaidOut, Vectors, Op
<1> QED
  BY <1>2, <1>4, <1>5, <1>6, <1>7, <1>8

\* What is kept when the rank and its pool for sending stay as they are.
LEMMA SamePlaceKeeps ==
  ASSUME Places, Counters, Layout, Filled, UNCHANGED <<progress, sendPool, sendStart, counter>>
  PROVE  Places' /\ Counters' /\ Layout' /\ Filled'
<1>1. /\ at' = at /\ round' = round /\ sendPool' = sendPool /\ sendStart' = sendStart /\ counter' = counter
      /\ UNCHANGED progress
  BY DEF progress
<1>2. Places'
  BY <1>1, SamePlace DEF Places
<1>3. Counters'
  <2>1. \A op \in Ops : op \in AllOps
    BY DEF AllOps
  <2> QED
    BY <1>1, <2>1, SamePlace DEF Counters
<1>4. \A q \in Ranks : \A k : Extent(q, k)' = Extent(q, k)
  BY <1>1 DEF Extent
<1>5. Layout'
  BY <1>1, <1>4, SamePlace DEF Layout
<1>6. Filled'
  <2>1. "fill" \in AllOps
    BY DEF AllOps
  <2> QED
    BY <1>1, <1>4, <2>1, SamePlace DEF Filled, Holds
<1> QED
  BY <1>2, <1>3, <1>5, <1>6

\* A message is delivered into the pool whose receive is posted: the next round.
LEMMA DeliverStep ==
  ASSUME Inv, NEW r \in Ranks, Deliver(r)
  PROVE  Inv'
<1> USE DEF Inv
<1> DEFINE p == Peer[r]
           n == Sent(p)
           t == Taken(r)
<1>1. UNCHANGED <<progress, sendPool, sendStart, recvStart, counter, orderRequest, eager>>
  BY DEF Deliver
<1>2. UNCHANGED progress /\ sendPool' = sendPool /\ sendStart' = sendStart /\ recvStart' = recvStart
  BY <1>1
<1>3. Places' /\ Counters' /\ Layout' /\ Filled'
  BY <1>1, SamePlaceKeeps
<1>4. /\ receiveRequest[r] = "pending" /\ wire[r] # <<>> /\ DOMAIN receiveRequest = Ranks
      /\ recvPool' = [recvPool EXCEPT ![r] = Head(wire[r]).body]
      /\ wire' = [wire EXCEPT ![r] = Tail(@)]
      /\ receiveRequest' = [receiveRequest EXCEPT ![r] = "complete"]
  BY DEF Deliver, RequestsOK
<1>5. p \in Ranks /\ p # r /\ Peer[p] = r
  BY Peers
<1>6. Posted(r) = Waited(r) + 1 /\ Waited(r) \in Nat /\ t = Waited(r) /\ OrderTaken(r)
  <2>1. Posted(r) # Waited(r) /\ Posted(r) = Waited(r) + 1
    BY <1>4 DEF RequestsOK
  <2>2. Waited(r) \in Nat /\ t = Waited(r)
    BY <1>4, Numbers DEF Taken, OneIf
  <2> QED
    BY <2>1, <2>2, Numbers
<1>7. ASSUME NEW q \in Ranks
      PROVE  /\ Taken(q)' = IF q = r THEN Taken(q) + 1 ELSE Taken(q)
             /\ OrderPending(q)' = OrderPending(q)
  <2>1. Waited(q)' = Waited(q) /\ Waited(q) \in Nat
    BY <1>2, SamePlace, Numbers
  <2>2. Taken(q)' = IF q = r THEN Taken(q) + 1 ELSE Taken(q)
    BY <1>4, <2>1 DEF Taken, OneIf
  <2>3. OrderPending(q)' = OrderPending(q)
    BY <1>2, Peers, SamePlace DEF OrderPending
  <2> QED
    BY <2>2, <2>3
<1>8. Conforms(r) /\ wire \in [Ranks -> Seq(Messages)] /\ wire[r] \in Seq(Messages)
  BY DEF Wires
<1>9. OrderPending(r) = 0 /\ n \in Nat /\ t \in Nat /\ Len(wire[r]) = n - t /\ n - t >= 1 /\ OrderSent(p)
  <2>1. OrderPending(r) = 0
    BY <1>6 DEF OrderPending, OneIf
  <2>2. n \in Nat /\ t \in Nat
    BY <1>5, Numbers
  <2>3. Len(wire[r]) = n - t
    BY <1>8, <2>1, <2>2 DEF Conforms
  <2>4. Len(wire[r]) # 0 /\ Len(wire[r]) \in Nat
    BY <1>4, <1>8, EmptySeq
  <2>5. OrderSent(p)
    BY <1>6, <1>8 DEF Conforms
  <2> QED
    BY <2>1, <2>2, <2>3, <2>4, <2>5
<1>10. \A j \in 1 .. n - t : wire[r][j].kind = "data" /\ Written(wire[r][j].body, p, t + j)
  BY <1>8, <1>9 DEF Conforms
<1>11. \A pool, m : Written(pool, p, m)' <=> Written(pool, p, m)
  BY <1>2 DEF Written, Holds, Extent
<1>12. Head(wire[r]) = wire[r][1] /\ Written(Head(wire[r]).body, p, t + 1)
  BY SMTT(30), <1>4, <1>8, <1>9, <1>10
<1>13. /\ recvPool'[r] = Head(wire[r]).body /\ recvPool' \in [Ranks -> Seq(Elements)]
       /\ \A q \in Ranks : q # r => recvPool'[q] = recvPool[q]
  <2>1. Head(wire[r]).body \in Seq(Elements)
    BY <1>12 DEF Written
  <2>2. PICK b : b = Head(wire[r]).body
    OBVIOUS
  <2>3. recvPool' = [recvPool EXCEPT ![r] = b] /\ b \in Seq(Elements) /\ recvPool \in [Ranks -> Seq(Elements)]
    BY <1>4, <2>1, <2>2 DEF RecvPools
  <2> QED
    BY <2>2, <2>3
<1>14. /\ wire'[r] = Tail(wire[r]) /\ Tail(wire[r]) \in Seq(Messages) /\ Len(Tail(wire[r])) = n - t - 1
       /\ \A j \in 1 .. n - t - 1 : Tail(wire[r])[j] = wire[r][j + 1]
       /\ wire' \in [Ranks -> Seq(Messages)] /\ \A q \in Ranks : q # r => wire'[q] = wire[q]
  <2>1. /\ Tail(wire[r]) \in Seq(Messages) /\ Len(Tail(wire[r])) = n - t - 1
        /\ \A j \in 1 .. n - t - 1 : Tail(wire[r])[j] = wire[r][j + 1]
    BY <1>4, <1>8, <1>9, HeadTailProperties
  <2> QED
    BY <1>4, <1>8, <2>1
<1>15. Conforms(r)'
  <2>1. /\ Sent(Peer[r])' = n /\ Taken(r)' = t + 1 /\ OrderPending(r)' = 0
        /\ OrderTaken(r)' /\ OrderSent(Peer[r])'
    BY <1>2, <1>5, <1>6, <1>7, <1>9, SamePlace
  <2>2. ASSUME NEW j \in 1 .. Sent(Peer[r])' - Taken(r)'
        PROVE  /\ wire'[r][OrderPending(r)' + j].kind = "data"
               /\ Written(wire[r][OrderPending(r) + j].body, Peer[r], Taken(r) + j)'
    <3>1. j \in 1 .. n - t - 1 /\ j + 1 \in 1 .. n - t /\ 0 + j = j /\ t + (j + 1) = (t + 1) + j
      BY <1>9, <2>1
    <3>2. wire'[r][j] = wire[r][j + 1]
      BY <1>14, <3>1
    <3>3. PICK b, m : b = wire'[r][j].body /\ m = (t + 1) + j
      OBVIOUS
    <3>4. wire'[r][j].kind = "data" /\ Written(b, p, m)
      BY <1>10, <3>1, <3>2, <3>3
    <3>5. Written(b, p, m)'
      BY <1>11, <3>4
    <3>6. b = (wire[r][OrderPending(r) + j].body)' /\ m = (Taken(r) + j)'
      BY <2>1, <3>1, <3>3
    <3> QED
      BY <2>1, <3>1, <3>4, <3>5, <3>6
  <2>3. /\ OrderTaken(r)' => OrderSent(Peer[r])'
        /\ Taken(r)' =< Sent(Peer[r])'
        /\ Len(wire'[r]) = OrderPending(r)' + Sent(Peer[r])' - Taken(r)'
        /\ OrderPending(r)' = 1 => wire'[r][1] = OrderMessage(Peer[r])'
    BY <1>9, <1>14, <2>1
  <2> QED
    BY <2>2, <2>3 DEF Conforms
<1>16. Received(r)'
  <2>1. Taken(r)' = t + 1 /\ OrderTaken(r)' /\ t + 1 # 0
    BY <1>2, <1>6, <1>7, <1>9, SamePlace
  <2>2. PICK b, m : b = Head(wire[r]).body /\ m = t + 1
    OBVIOUS
  <2>3. Written(b, p, m)'
    BY <1>11, <1>12, <2>2
  <2>4. b = recvPool'[r] /\ m = Taken(r)'
    BY <1>13, <2>1, <2>2
  <2>5. Written(recvPool[r], Peer[r], Taken(r))'
    BY <2>3, <2>4
  <2>6. DOMAIN recvStart[r] = KeysOf(r, "in") /\ recvStart[r] = sendStart[Peer[r]]
    BY <1>6 DEF RecvPools, Received
  <2> QED
    BY <1>2, <2>1, <2>5, <2>6 DEF Received
<1>17. ASSUME NEW q \in Ranks, q # r PROVE Conforms(q)' /\ Received(q)'
  <2>1. Peer[q] \in Ranks
    BY Peers
  <2> QED
    BY <1>2, <1>7, <1>13, <1>14, <1>17, <2>1, SamePlace, Elsewhere
<1>18. Wires' /\ RecvPools'
  BY <1>2, <1>13, <1>14, <1>15, <1>16, <1>17 DEF Wires, RecvPools
<1>19. RequestsOK'
  <2>1. ASSUME NEW q \in Ranks
        PROVE IF Posted(q)' = Waited(q)' THEN receiveRequest'[q] = "null"
              ELSE Posted(q)' = Waited(q)' + 1 /\ receiveRequest'[q] \in {"pending", "complete"}
    <3>1. Posted(q)' = Posted(q) /\ Waited(q)' = Waited(q)
      BY <1>2, SamePlace
    <3>2. CASE q = r
      BY <1>4, <1>6, <3>1, <3>2
    <3>3. CASE q # r
      BY <1>4, <3>1, <3>3 DEF RequestsOK
    <3> QED
      BY <3>2, <3>3
  <2> QED
    BY <1>1, <1>4, <2>1 DEF RequestsOK
<1> QED
  BY <1>3, <1>18, <1>19
-----------------------------------------------------------------------------
(* The invariant holds *)

\* A rank begins with the first connector's init.
LEMMA InitInv == Init => Inv
<1> SUFFICES ASSUME Init PROVE Inv
  OBVIOUS
<1>1. /\ at = [r \in Ranks |-> Beginning(1)] /\ round = [r \in Ranks |-> 0]
      /\ sendPool = [r \in Ranks |-> <<>>] /\ recvPool = [r \in Ranks |-> <<>>]
      /\ wire = [r \in Ranks |-> <<>>] /\ receiveRequest = [r \in Ranks |-> "null"]
  BY DEF Init
<1>2. Beginning(1) = [pass |-> 1, connector |-> 1, method |-> 1, vector |-> 1]
  BY DEF Beginning, FirstVector
<1>3. ASSUME NEW r \in Ranks
      PROVE  /\ at[r] = Beginning(1) /\ round[r] = 0 /\ sendPool[r] = <<>> /\ recvPool[r] = <<>>
             /\ wire[r] = <<>> /\ receiveRequest[r] = "null"
             /\ at[r].pass = 1 /\ at[r].connector = 1 /\ at[r].method = 1 /\ at[r].vector = 1
             /\ ~InRounds(r) /\ ~Done(r)
  BY <1>1, <1>2, PeerAssumption DEF InRounds, RoundBegins, Done
<1>4. ASSUME NEW r \in Ranks PROVE 1 \in 1 .. Len(Connectors[r])
  <2>1. PICK s : s \in Slots(r, "out")
    BY Peers DEF KeysOf
  <2>2. s[1] \in 1 .. Len(Connectors[r])
    BY <2>1, SlotFacts
  <2> QED
    BY <2>2, ConnectorFacts
<1>5. Places
  <2>1. ASSUME NEW r \in Ranks
        PROVE  at[r].method \in 1 .. Len(Passes[at[r].pass]) /\ at[r].vector \in 1 .. Len(Vectors(r)) + 1
    <3>1. Len(Passes[1]) = 1 /\ Passes[1][1] = "init"
      BY DEF Passes
    <3>2. Vectors(r) = Connectors[r][1]["out"]
      BY <1>3, <3>1 DEF Vectors, Op, Field
    <3>3. Len(Vectors(r)) \in Nat
      BY <1>4, <3>2, ConnectorFacts
    <3> QED
      BY <1>3, <3>1, <3>3
  <2>2. Beginning(1) \in PlaceType
    BY <1>2 DEF PlaceType
  <2>3. at \in [Ranks -> PlaceType] /\ round \in [Ranks -> Nat]
    BY <1>1, <2>2
  <2> QED
    BY <1>3, <1>4, <2>1, <2>3 DEF Places
<1>6. ASSUME NEW r \in Ranks PROVE Called(r, "init") = {}
  <2>1. MethodOf("init") = 1 /\ Field("init") = "out"
    BY DEF MethodOf, Field
  <2>2. \A s \in Slots(r, "out") : ~Before("init", s, at[r])
    BY <1>3, <2>1, SlotFacts DEF Before
  <2> QED
    BY <2>1, <2>2 DEF Called, CalledAt, SlotsBefore
<1>7. Counters
  <2>1. counter = [r \in Ranks |-> [op \in Ops |-> 0]]
    BY DEF Init
  <2>2. \A op \in Ops : PassOf(op) # 1
    BY DEF Ops, PassOf
  <2>3. counter \in [Ranks -> [Ops -> Nat]]
    BY <2>1
  <2>4. \A r \in Ranks : \A op \in Ops : counter[r][op] = 0
    BY <2>1
  <2> QED
    BY <1>3, <2>2, <2>3, <2>4 DEF Counters
<1>8. Layout
  <2>1. DOMAIN sendStart = Ranks /\ \A r \in Ranks : sendStart[r] = [k \in KeysOf(r, "out") |-> 0]
    BY DEF Init
  <2>2. ASSUME NEW r \in Ranks PROVE LaidOut(r) = {} /\ Len(sendPool[r]) = 0
    BY <1>3, <1>6 DEF LaidOut
  <2> QED
    BY <2>1, <2>2 DEF Layout
<1>9. Filled
  BY <1>1, <1>3 DEF Filled
<1>10. ASSUME NEW r \in Ranks
       PROVE  /\ Sent(r) = 0 /\ Posted(r) = 0 /\ Waited(r) = 0 /\ Taken(r) = 0
              /\ ~OrderSent(r) /\ ~OrderTaken(r)
  <2>1. PassOf("sendDataOrder") = 2 /\ PassOf("receiveDataOrder") = 3
    BY DEF PassOf
  <2> QED
    BY <1>3, <2>1 DEF Sent, Posted, Waited, Taken, OneIf, OrderSent, OrderTaken, Ended
<1>11. Wires
  <2>1. ASSUME NEW r \in Ranks PROVE Conforms(r)
    <3>1. Peer[r] \in Ranks
      BY Peers
    <3>2. OrderPending(r) = 0 /\ Sent(Peer[r]) = 0 /\ Taken(r) = 0 /\ Len(wire[r]) = 0
      BY <1>3, <1>10, <3>1 DEF OrderPending, OneIf
    <3> QED
      BY <1>10, <3>2 DEF Conforms
  <2> QED
    BY <1>1, <2>1 DEF Wires
<1>12. RecvPools
  <2>1. DOMAIN recvStart = Ranks /\ \A r \in Ranks : DOMAIN recvStart[r] = KeysOf(r, "in")
    BY DEF Init
  <2> QED
    BY <1>1, <1>3, <1>10, <2>1 DEF RecvPools, Received
<1>13. RequestsOK
  <2>1. orderRequest \in [Ranks -> BOOLEAN] /\ eager \in SUBSET Ranks
    BY PeerAssumption DEF Init
  <2> QED
    BY <1>1, <1>3, <1>10, <2>1 DEF RequestsOK
<1> QED
  BY <1>5, <1>7, <1>8, <1>9, <1>11, <1>12, <1>13 DEF Inv

\* Nothing happens.
LEMMA StutterInv ==
  ASSUME Inv, UNCHANGED vars
  PROVE  Inv'
<1> USE DEF Inv
<1>1. /\ UNCHANGED <<progress, sendPool, sendStart, counter>> /\ UNCHANGED progress
      /\ recvPool' = recvPool /\ recvStart' = recvStart /\ orderRequest' = orderRequest
      /\ receiveRequest' = receiveRequest /\ wire' = wire /\ eager' = eager
      /\ sendStart' = sendStart /\ sendPool' = sendPool
  BY DEF vars
<1>2. Places' /\ Counters' /\ Layout' /\ Filled'
  BY <1>1, SamePlaceKeeps
<1>3. orderRequest' \in [Ranks -> BOOLEAN]
  BY <1>1 DEF RequestsOK
<1>4. Wires' /\ RecvPools' /\ RequestsOK'
  BY <1>1, <1>3, SamePlace, Quiet
<1> QED
  BY <1>2, <1>4

\* Every step keeps the invariant.
LEMMA NextInv ==
  ASSUME Inv, [Next]_vars
  PROVE  Inv'
<1>1. CASE UNCHANGED vars
  BY <1>1, StutterInv
<1>2. CASE Next
  <2>1. PICK r \in Ranks : Step(r) \/ Deliver(r)
    BY <1>2 DEF Next
  <2>2. CASE InitVector(r)
    BY <2>2, InitVectorStep
  <2>3. CASE SendDataOrder(r)
    BY <2>3, SendDataOrderStep
  <2>4. CASE ReceiveDataOrder(r)
    BY <2>4, ReceiveDataOrderStep
  <2>5. CASE PrepareForReceive(r)
    BY <2>5, PrepareForReceiveStep
  <2>6. CASE PrepareForSend(r)
    BY <2>6, PrepareForSendStep
  <2>7. CASE FillVector(r)
    BY <2>7, FillVectorStep
  <2>8. CASE SendData(r)
    BY <2>8, SendDataStep
  <2>9. CASE ReceiveData(r)
    BY <2>9, ReceiveDataStep
  <2>10. CASE DistributeVector(r)
    BY <2>10, DistributeVectorStep
  <2>11. CASE MoveOn(r)
    BY <2>11, MoveOnStep
  <2>12. CASE Deliver(r)
    BY <2>12, DeliverStep
  <2> QED
    BY <2>1, <2>2, <2>3, <2>4, <2>5, <2>6, <2>7, <2>8, <2>9, <2>10, <2>11, <2>12 DEF Step
<1> QED
  BY <1>1, <1>2

\* The pools of two ranks are always as the calls so far make them: laid out
\* alike, filled for the round at hand, with every message counted that was
\* sent and has not been taken.
THEOREM PoolInvariant == Spec => []Inv
<1>1. Init => Inv
  BY InitInv
<1>2. Inv /\ [Next]_vars => Inv'
  BY NextInv
<1> QED
  BY <1>1, <1>2, PTL DEF Spec

-----------------------------------------------------------------------------
(* What the runs check *)

\* Every variable keeps its type, and no counter of calls passes the number of
\* vectors of its pool.
THEOREM MpiPoolTyped == Spec => []TypeOK
<1>1. Inv => TypeOK
  <2> SUFFICES ASSUME Inv PROVE TypeOK
    OBVIOUS
  <2> USE DEF Inv
  <2>1. ASSUME NEW r \in Ranks
        PROVE  /\ at[r].pass \in DOMAIN Passes /\ at[r].connector \in DOMAIN Connectors[r]
               /\ at[r].method \in DOMAIN Passes[at[r].pass] /\ at[r].vector \in 1 .. Len(Vectors(r)) + 1
               /\ round[r] \in 0 .. Rounds + 1
    <3>1. at[r].pass \in 1 .. 6 /\ DOMAIN Passes = 1 .. 6
      BY DEF Places, PlaceType, Passes
    <3>2. \A q \in 1 .. 6 : DOMAIN Passes[q] = 1 .. Len(Passes[q])
      BY DEF Passes
    <3>3. round[r] \in 0 .. Rounds + 1
      BY PeerAssumption DEF Places
    <3> QED
      BY <3>1, <3>2, <3>3, ConnectorFacts DEF Places
  <2>2. ASSUME NEW r \in Ranks, NEW op \in Ops
        PROVE  counter[r][op] \in 0 .. MapSize(r, Field(op)) - 1
    <3> DEFINE K == KeysOf(r, Field(op))
    <3>1. Field(op) \in {"in", "out"}
      BY DEF Ops, Field
    <3>2. IsFiniteSet(K) /\ K # {} /\ Called(r, op) \subseteq K
      <4>1. IsFiniteSet(K)
        BY <3>1, KeyFacts
      <4>2. K # {}
        BY <3>1, Peers
      <4>3. Called(r, op) \subseteq K
        BY DEF Called, CalledAt, SlotsBefore, KeysOf
      <4> QED
        BY <4>1, <4>2, <4>3
    <3>3. Cardinality(K) \in Nat /\ Cardinality(K) # 0
      BY <3>2, FS_CardinalityType, FS_EmptySet
    <3>4. CASE at[r].pass = PassOf(op) /\ ~Ended(r, op)
      <4>1. Called(r, op) # K
        BY <3>4 DEF Ended
      <4>2. Cardinality(Called(r, op)) < Cardinality(K) /\ Cardinality(Called(r, op)) \in Nat
        BY <3>2, <4>1, FS_Subset, FS_CardinalityType
      <4>3. counter[r][op] = Cardinality(Called(r, op))
        BY <3>4 DEF Counters
      <4> QED
        BY <3>3, <4>2, <4>3 DEF MapSize
    <3>5. CASE ~(at[r].pass = PassOf(op) /\ ~Ended(r, op))
      <4>1. counter[r][op] = 0
        BY <3>5 DEF Counters
      <4> QED
        BY <3>3, <4>1 DEF MapSize
    <3> QED
      BY <3>4, <3>5
  <2>3. ASSUME NEW r \in Ranks
        PROVE  /\ DOMAIN sendStart[r] = KeysOf(r, "out") /\ DOMAIN recvStart[r] = KeysOf(r, "in")
               /\ \A k \in DOMAIN sendStart[r] : sendStart[r][k] \in 0 .. Len(sendPool[r])
               /\ orderRequest[r] \in BOOLEAN
               /\ receiveRequest[r] \in {"null", "pending", "complete"}
    BY DEF Layout, RecvPools, Received, RequestsOK
  <2>4. ASSUME NEW r \in Ranks, NEW i \in DOMAIN wire[r]
        PROVE  wire[r][i].kind \in {"order", "data"}
    <3>1. wire[r] \in Seq(Messages)
      BY DEF Wires
    <3>2. wire[r][i] \in Messages
      BY <3>1, ElementOfSeq
    <3> QED
      BY <3>2 DEF Messages
  <2>5. eager \subseteq Ranks
    BY DEF RequestsOK
  <2> QED
    BY <2>1, <2>2, <2>3, <2>4, <2>5 DEF TypeOK
<1> QED
  BY <1>1, PoolInvariant, PTL

\* Whatever the connectors on the two sides, a connector reads what its
\* counterpart filled in for the same key in the same round, with no receive
\* on its way into the pool.
THEOREM VectorsRead == Spec => []ReadsItsVector
<1>1. Inv => ReadsItsVector
  <2> SUFFICES ASSUME Inv, NEW r \in Ranks, Calling(r, "distribute")
               PROVE  /\ receiveRequest[r] = "null"
                      /\ \A i \in 1 .. Size[Key(r)] :
                           recvPool[r][recvStart[r][Key(r)] + i] = [key |-> Key(r), round |-> round[r]]
    BY DEF ReadsItsVector
  <2> USE DEF Inv
  <2> DEFINE p == Peer[r]
             k == Key(r)
  <2>1. "distribute" \in AllOps /\ Field("distribute") = "in" /\ p \in Ranks
    BY Peers DEF AllOps, Field
  <2>2. /\ Posted(r) = round[r] /\ Waited(r) = round[r] /\ OrderTaken(r)
        /\ round[r] >= 1 /\ round[r] \in Nat
    BY <2>1, Standing DEF Places
  <2>3. receiveRequest[r] = "null"
    BY <2>2 DEF RequestsOK
  <2>4. Taken(r) = round[r] /\ Taken(r) # 0
    BY <2>2, <2>3 DEF Taken, OneIf
  <2>5. recvStart[r] = sendStart[p] /\ Written(recvPool[r], p, round[r])
    BY <2>2, <2>4 DEF RecvPools, Received
  <2>6. k \in KeysOf(p, "out") /\ Size[k] \in Nat
    <3>1. k \in KeysOf(r, "in")
      BY <2>1, CallHere
    <3>2. Size[k] \in Nat
      BY <3>1, KeyFacts
    <3> QED
      BY <3>1, <3>2, Peers
  <2>7. sendStart[p][k] \in Nat
    BY <2>1, <2>6 DEF Layout
  <2>8. ASSUME NEW i \in 1 .. Size[k]
        PROVE  recvPool[r][recvStart[r][k] + i] = [key |-> k, round |-> round[r]]
    <3>1. sendStart[p][k] + i \in Extent(p, k)
      BY <2>6, <2>7 DEF Extent
    <3> QED
      BY <2>5, <2>6, <3>1 DEF Written, Holds
  <2> QED
    BY <2>3, <2>8
<1> QED
  BY <1>1, PoolInvariant, PTL
-----------------------------------------------------------------------------
(* One message per round *)

\* The order is sent when the pool is laid out, and the pool is not empty.
LEMMA PoolCovered ==
  ASSUME Inv, NEW p \in Ranks, OrderSent(p)
  PROVE  /\ Len(sendPool[p]) \in Nat /\ Len(sendPool[p]) >= 1
         /\ \A i \in 1 .. Len(sendPool[p]) : \E k \in KeysOf(p, "out") : i \in Extent(p, k)
<1> USE DEF Inv
<1>1. LaidOut(p) = KeysOf(p, "out")
  BY DEF LaidOut, OrderSent, Ended, PassOf
<1>2. Len(sendPool[p]) \in Nat
  BY DEF Filled
<1>3. PICK k \in KeysOf(p, "out") : TRUE
  BY Peers
<1>4. Size[k] \in Nat \ {0} /\ sendStart[p][k] \in Nat
  BY <1>2, KeyFacts DEF Layout
<1>5. sendStart[p][k] + 1 \in 1 .. Len(sendPool[p])
  <2>1. sendStart[p][k] + 1 \in Extent(p, k)
    BY <1>4 DEF Extent
  <2> QED
    BY <1>1, <2>1 DEF Layout
<1> QED
  BY <1>1, <1>2, <1>5 DEF Layout

\* The message of a round is of one round.
LEMMA OneRound ==
  ASSUME Inv, NEW p \in Ranks, OrderSent(p), NEW pool, NEW n \in Nat, Written(pool, p, n)
  PROVE  pool # <<>> /\ RoundOf(pool) = n
<1>1. /\ pool \in Seq(Elements) /\ Len(pool) = Len(sendPool[p]) /\ Len(pool) \in Nat /\ Len(pool) >= 1
      /\ \A i \in 1 .. Len(pool) : \E k \in KeysOf(p, "out") : i \in Extent(p, k)
  BY PoolCovered DEF Written
<1>2. ASSUME NEW i \in 1 .. Len(pool) PROVE pool[i].round = n
  <2>1. PICK k \in KeysOf(p, "out") : i \in Extent(p, k)
    BY <1>1
  <2>2. Holds(pool, p, k, n)
    BY DEF Written
  <2> QED
    BY <2>1, <2>2 DEF Holds
<1>3. DOMAIN pool = 1 .. Len(pool) /\ 1 \in 1 .. Len(pool)
  BY <1>1
<1> QED
  BY <1>1, <1>2, <1>3, EmptySeq DEF RoundOf

\* The channel in the numbers of the invariant.
Counting(c, a) == [i \in 1 .. a |-> c + i]
Ahead(r)     == OrderPending(r) + Sent(Peer[r]) - Waited(r)
ChannelTo(r) == Counting(Waited(r) - OrderPending(r), Ahead(r))
Last(r)      == IF OrderTaken(r) THEN Waited(r) ELSE -1

\* The pool of a rank shows which round it took last.
LEMMA LastIs ==
  ASSUME Inv
  PROVE  LastReceived = [r \in Ranks |-> Last(r)]
<1> USE DEF Inv
<1> SUFFICES ASSUME NEW r \in Ranks
             PROVE (IF recvPool[r] = <<>> THEN -1
                    ELSE IF receiveRequest[r] = "complete" THEN RoundOf(recvPool[r]) - 1
                    ELSE RoundOf(recvPool[r])) = Last(r)
  BY DEF LastReceived
<1> DEFINE p == Peer[r]
<1>1. p \in Ranks /\ Conforms(r) /\ Received(r) /\ Waited(r) \in Nat /\ Taken(r) \in Nat
  BY Peers, Numbers DEF Wires, RecvPools
<1>2. CASE ~OrderTaken(r)
  BY <1>1, <1>2 DEF Received, Last
<1>3. CASE OrderTaken(r)
  <2>1. OrderSent(p)
    BY <1>1, <1>3 DEF Conforms
  <2>2. recvPool[r] # <<>> /\ RoundOf(recvPool[r]) = Taken(r)
    <3>1. CASE Taken(r) = 0
      <4> DEFINE n == Len(sendPool[p])
      <4>1. recvPool[r] = [i \in 1 .. n |-> Blank] /\ n \in Nat /\ n >= 1
        BY <1>1, <1>3, <2>1, <3>1, PoolCovered DEF Received
      <4> HIDE DEF n
      <4>2. DOMAIN recvPool[r] = 1 .. n /\ 1 \in 1 .. n /\ \A i \in 1 .. n : recvPool[r][i].round = 0
        BY <4>1 DEF Blank
      <4>3. recvPool[r] # <<>>
        <5>1. Len(recvPool[r]) = n
          BY <4>1
        <5> QED
          BY <4>1, <5>1
      <4> QED
        BY <3>1, <4>2, <4>3 DEF RoundOf
    <3>2. CASE Taken(r) # 0
      <4>1. Written(recvPool[r], p, Taken(r))
        BY <1>1, <1>3, <3>2 DEF Received
      <4> QED
        BY <1>1, <2>1, <4>1, OneRound
    <3> QED
      BY <3>1, <3>2
  <2>3. Taken(r) = IF receiveRequest[r] = "complete" THEN Waited(r) + 1 ELSE Waited(r)
    BY <1>1 DEF Taken, OneIf
  <2> QED
    BY <1>1, <1>3, <2>2, <2>3 DEF Last
<1> QED
  BY <1>2, <1>3

\* A number put before a sequence of numbers.
LEMMA OneBefore ==
  ASSUME NEW x \in Int, NEW s \in Seq(Int)
  PROVE  /\ Len(<<x>> \o s) = 1 + Len(s) /\ <<x>> \o s \in Seq(Int)
         /\ \A i \in 1 .. 1 + Len(s) : (<<x>> \o s)[i] = IF i =< 1 THEN <<x>>[i] ELSE s[i - 1]
<1>1. <<x>> \in Seq(Int) /\ Len(<<x>>) = 1
  OBVIOUS
<1>2. PICK u : u = <<x>>
  OBVIOUS
<1>3. u \in Seq(Int) /\ Len(u) = 1
  BY <1>1, <1>2
<1>4. Len(s) \in Nat
  BY LenProperties
<1>5. /\ u \o s \in Seq(Int)
      /\ Len(u \o s) = Len(u) + Len(s)
      /\ \A i \in 1 .. Len(u) + Len(s) : (u \o s)[i] = IF i <= Len(u) THEN u[i] ELSE s[i - Len(u)]
  <2>1. u \in Seq(Int)
    BY <1>3
  <2> QED
    BY <2>1, ConcatProperties, Zenon
<1>6. /\ Len(u \o s) = 1 + Len(s) /\ u \o s \in Seq(Int)
      /\ \A i \in 1 .. 1 + Len(s) : (u \o s)[i] = IF i =< 1 THEN u[i] ELSE s[i - 1]
  BY <1>3, <1>5
<1> QED
  BY <1>2, <1>6

\* What is on its way are the order, if it is, and the rounds from the one
\* waited for next to the one sent last.
LEMMA ChannelIs ==
  ASSUME Inv
  PROVE  OnTheirWay = [r \in Ranks |-> ChannelTo(r)]
<1> USE DEF Inv
<1> SUFFICES ASSUME NEW r \in Ranks PROVE OnTheirWay[r] = ChannelTo(r)
  BY DEF OnTheirWay
<1> DEFINE p == Peer[r]
           o == OrderPending(r)
           n == Sent(p)
           w == Waited(r)
           t == Taken(r)
           rest == [i \in DOMAIN wire[r] |-> Message(wire[r][i])]
<1>1. p \in Ranks /\ Conforms(r) /\ Received(r) /\ w \in Nat /\ t \in Nat /\ n \in Nat /\ o \in 0 .. 1
  BY Peers, Numbers DEF Wires, RecvPools, OrderPending, OneIf
<1>2. wire[r] \in Seq(Messages) /\ Len(wire[r]) = o + n - t /\ t =< n
  BY <1>1 DEF Wires, Conforms
<1>3. DOMAIN rest = 1 .. o + n - t
  BY <1>2
<1>4. \A i \in 1 .. o + n - t : rest[i] = t - o + i
  <2> SUFFICES ASSUME NEW i \in 1 .. o + n - t PROVE Message(wire[r][i]) = t - o + i
    BY <1>2
  <2>1. CASE o = 1 /\ i = 1
    <3>1. wire[r][1].kind = "order"
      BY <1>1, <2>1 DEF Conforms, OrderMessage
    <3>2. t = 0
      BY <1>1, <2>1, Numbers DEF OrderPending, OneIf, Taken, RequestsOK
    <3> QED
      BY <2>1, <3>1, <3>2 DEF Message
  <2>2. CASE ~(o = 1 /\ i = 1)
    <3>1. PICK j : j = i - o
      OBVIOUS
    <3>2. j \in 1 .. n - t /\ o + j = i /\ t + j = t - o + i /\ t + j \in Nat
      BY SMTT(30), <1>1, <1>2, <2>2, <3>1
    <3>3. wire[r][o + j].kind = "data" /\ Written(wire[r][o + j].body, p, t + j)
      BY <1>1, <3>2 DEF Conforms
    <3>4. OrderSent(p)
      BY <1>1, <1>2, <3>2, Numbers
    <3>5. RoundOf(wire[r][o + j].body) = t + j
      BY <1>1, <3>2, <3>3, <3>4, OneRound
    <3> QED
      BY <3>2, <3>3, <3>5 DEF Message
  <2> QED
    BY <2>1, <2>2
<1>5. rest \in Seq(Int) /\ Len(rest) = o + n - t
  <2>1. PICK m : m = o + n - t
    OBVIOUS
  <2>2. m \in Nat /\ \A i \in 1 .. m : t - o + i \in Int
    BY <1>1, <1>2, <2>1
  <2>3. rest \in [1 .. m -> Int]
    BY <1>3, <1>4, <2>1, <2>2
  <2> HIDE DEF rest
  <2>4. rest \in Seq(Int)
    BY <2>2, <2>3
  <2>5. Len(rest) = m
    BY <2>2, <2>3, <2>4
  <2> QED
    BY <2>1, <2>4, <2>5
<1>6. CASE receiveRequest[r] # "complete"
  <2>1. t = w
    BY <1>1, <1>6 DEF Taken, OneIf
  <2>2. OnTheirWay[r] = <<>> \o rest
    BY <1>6 DEF OnTheirWay
  <2>3. rest = ChannelTo(r)
    BY <1>2, <1>3, <1>4, <2>1 DEF ChannelTo, Counting, Ahead
  <2> QED
    BY <1>5, <2>2, <2>3
<1>7. CASE receiveRequest[r] = "complete"
  <2>1. t = w + 1
    BY <1>1, <1>7 DEF Taken, OneIf
  <2>2. OrderTaken(r) /\ OrderSent(p) /\ o = 0
    <3>1. Posted(r) = w + 1
      BY <1>7 DEF RequestsOK
    <3>2. OrderTaken(r)
      BY <1>1, <3>1, Numbers
    <3> QED
      BY <1>1, <3>2 DEF Conforms, OrderPending, OneIf
  <2>3. RoundOf(recvPool[r]) = w + 1
    BY <1>1, <2>1, <2>2, OneRound DEF Received
  <2>4. OnTheirWay[r] = <<w + 1>> \o rest
    BY <1>7, <2>3 DEF OnTheirWay
  <2> HIDE DEF p, o, n, w, t, rest
  <2>5. rest \in Seq(Int) /\ Len(rest) = n - t
    BY <1>1, <1>5, <2>2
  <2>6. <<w + 1>> \in Seq(Int) /\ Len(<<w + 1>>) = 1 /\ <<w + 1>>[1] = w + 1
    BY <1>1
  <2>7. /\ Len(<<w + 1>> \o rest) = 1 + (n - t) /\ <<w + 1>> \o rest \in Seq(Int)
        /\ \A i \in 1 .. 1 + (n - t) : (<<w + 1>> \o rest)[i] = w + i
    <3>1. /\ Len(<<w + 1>> \o rest) = 1 + (n - t) /\ <<w + 1>> \o rest \in Seq(Int)
          /\ \A i \in 1 .. 1 + (n - t) :
               (<<w + 1>> \o rest)[i] = IF i =< 1 THEN <<w + 1>>[i] ELSE rest[i - 1]
      <4>1. w + 1 \in Int
        BY <1>1
      <4>2. PICK s, m : s = rest /\ m = n - t
        OBVIOUS
      <4>3. s \in Seq(Int) /\ Len(s) = m
        BY <2>5, <4>2
      <4>4. /\ Len(<<w + 1>> \o s) = 1 + m /\ <<w + 1>> \o s \in Seq(Int)
            /\ \A i \in 1 .. 1 + m : (<<w + 1>> \o s)[i] = IF i =< 1 THEN <<w + 1>>[i] ELSE s[i - 1]
        BY <4>1, <4>3, OneBefore
      <4> QED
        BY <4>2, <4>4
    <3>2. ASSUME NEW i \in 1 .. 1 + (n - t)
          PROVE  (<<w + 1>> \o rest)[i] = w + i
      <4>1. CASE i = 1
        BY <2>6, <3>1, <4>1
      <4>2. CASE i # 1
        <5>1. i - 1 \in 1 .. o + n - t /\ t - o + (i - 1) = w + i
          BY <1>1, <1>2, <2>1, <2>2, <4>2
        <5>2. rest[i - 1] = w + i
          BY <1>4, <5>1
        <5> QED
          BY <3>1, <4>2, <5>2, <1>1, <1>2
      <4> QED
        BY <4>1, <4>2
    <3> QED
      BY <3>1, <3>2
  <2>8. Ahead(r) = 1 + (n - t) /\ \A i \in 1 .. Ahead(r) : w - OrderPending(r) + i = w + i
    BY <1>1, <1>2, <2>1, <2>2 DEF Ahead, o, n, w, p
  <2>9. <<w + 1>> \o rest = [i \in 1 .. 1 + (n - t) |-> w + i]
    <3>1. PICK s, m : s = <<w + 1>> \o rest /\ m = 1 + (n - t)
      OBVIOUS
    <3>2. s \in Seq(Int) /\ Len(s) = m /\ \A i \in 1 .. m : s[i] = w + i
      BY <2>7, <3>1
    <3>3. s = [i \in 1 .. m |-> w + i]
      BY <3>2
    <3> QED
      BY <3>1, <3>3
  <2> QED
    BY <2>4, <2>8, <2>9 DEF ChannelTo, Counting, w
<1> QED
  BY <1>6, <1>7
\* A receive is posted when more were posted than waited for.
LEMMA PostedIs ==
  ASSUME Inv
  PROVE  PostedReceives = { r \in Ranks : Posted(r) # Waited(r) }
BY DEF PostedReceives, Inv, RequestsOK

ChannelState ==
  /\ OnTheirWay = [r \in Ranks |-> ChannelTo(r)]
  /\ LastReceived = [r \in Ranks |-> Last(r)]
  /\ PostedReceives = { r \in Ranks : Posted(r) # Waited(r) }

\* The state of the channel is a matter of the numbers, before a step and after.
LEMMA ChannelStates ==
  /\ Inv => ChannelState
  /\ Inv' => ChannelState'
<1>1. Inv => ChannelState
  BY ChannelIs, LastIs, PostedIs DEF ChannelState
<1>2. Inv' => ChannelState'
  BY <1>1, PTL
<1> QED
  BY <1>1, <1>2

\* Consecutive numbers, one more of them, and the rest of them.
LEMMA CountingFacts ==
  ASSUME NEW a \in Nat, NEW c \in Int
  PROVE  /\ Counting(c, a) \in Seq(Int) /\ Len(Counting(c, a)) = a
         /\ Counting(c, a) = <<>> <=> a = 0
         /\ Append(Counting(c, a), c + a + 1) = Counting(c, a + 1)
         /\ a > 0 => /\ Counting(c, a)[a] = c + a
                     /\ Head(Counting(c, a)) = c + 1
                     /\ Tail(Counting(c, a)) = Counting(c + 1, a - 1)
<1> DEFINE s == Counting(c, a)
<1>1. s \in Seq(Int) /\ Len(s) = a /\ \A i \in 1 .. a : s[i] = c + i
  BY DEF Counting
<1>2. s = <<>> <=> a = 0
  BY <1>1, EmptySeq
<1>3. Append(s, c + a + 1) = Counting(c, a + 1)
  <2>1. PICK t : t = Append(s, c + a + 1)
    OBVIOUS
  <2>2. /\ t \in Seq(Int) /\ Len(t) = a + 1 /\ \A i \in 1 .. a : t[i] = s[i]
        /\ t[a + 1] = c + a + 1
    BY <1>1, <2>1, AppendProperties
  <2>3. \A i \in 1 .. a + 1 : t[i] = c + i
    BY SMTT(30), <1>1, <2>2
  <2>4. t = Counting(c, a + 1)
    BY <2>2, <2>3 DEF Counting
  <2> QED
    BY <2>1, <2>4
<1>4. ASSUME a > 0
      PROVE  s[a] = c + a /\ Head(s) = c + 1 /\ Tail(s) = Counting(c + 1, a - 1)
  <2> HIDE DEF s
  <2>1. s[a] = c + a /\ Head(s) = c + 1
    BY <1>1, <1>4
  <2>2. PICK t : t = Tail(s)
    OBVIOUS
  <2>3. s # <<>>
    BY <1>2, <1>4
  <2>4. t \in Seq(Int) /\ Len(t) = a - 1 /\ \A i \in 1 .. a - 1 : t[i] = s[i + 1]
    BY <1>1, <2>2, <2>3, HeadTailProperties
  <2>5. \A i \in 1 .. a - 1 : t[i] = (c + 1) + i
    BY <1>1, <2>4
  <2>6. t = Counting(c + 1, a - 1)
    BY <1>4, <2>4, <2>5 DEF Counting
  <2> QED
    BY <2>1, <2>2, <2>6
<1> QED
  BY <1>1, <1>2, <1>3, <1>4

ChannelBounds ==
  \A r \in Ranks :
    /\ OrderPending(r) \in 0 .. 1 /\ Ahead(r) \in Nat
    /\ Sent(Peer[r]) \in Nat /\ Posted(r) \in Nat /\ Waited(r) \in Nat
    /\ Waited(r) =< Sent(Peer[r])
    /\ Waited(r) > 0 => OrderTaken(r)
    /\ Sent(Peer[r]) > 0 => OrderSent(Peer[r])
    /\ OrderTaken(r) => OrderSent(Peer[r])

\* The bounds on the numbers of a channel, before a step and after.
LEMMA ChannelNumbers ==
  /\ Inv => ChannelBounds
  /\ Inv' => ChannelBounds'
<1>1. ASSUME Inv, NEW r \in Ranks
      PROVE  /\ OrderPending(r) \in 0 .. 1 /\ Ahead(r) \in Nat
             /\ Sent(Peer[r]) \in Nat /\ Posted(r) \in Nat /\ Waited(r) \in Nat
             /\ Waited(r) =< Sent(Peer[r])
             /\ Waited(r) > 0 => OrderTaken(r)
             /\ Sent(Peer[r]) > 0 => OrderSent(Peer[r])
             /\ OrderTaken(r) => OrderSent(Peer[r])
  <2> USE <1>1 DEF Inv
  <2>1. Peer[r] \in Ranks /\ OrderPending(r) \in 0 .. 1
    BY Peers DEF OrderPending, OneIf
  <2>2. /\ Sent(Peer[r]) \in Nat /\ Posted(r) \in Nat /\ Waited(r) \in Nat /\ Taken(r) \in Nat
        /\ (Waited(r) > 0 => OrderTaken(r)) /\ (Sent(Peer[r]) > 0 => OrderSent(Peer[r]))
    BY <2>1, Numbers
  <2>3. Waited(r) =< Taken(r)
    BY <2>2 DEF Taken, OneIf
  <2>4. Taken(r) =< Sent(Peer[r]) /\ (OrderTaken(r) => OrderSent(Peer[r]))
    BY DEF Wires, Conforms
  <2> QED
    BY <2>1, <2>2, <2>3, <2>4 DEF Ahead
<1>2. Inv => ChannelBounds
  BY <1>1 DEF ChannelBounds
<1>3. Inv' => ChannelBounds'
  BY <1>2, PTL
<1> QED
  BY <1>2, <1>3

\* What the channel to a rank shows of a step is what the numbers show of it.
LEMMA ChannelKept ==
  ASSUME NEW q \in Ranks,
         Sent(Peer[q])' = Sent(Peer[q]), Waited(q)' = Waited(q),
         OrderSent(Peer[q])' <=> OrderSent(Peer[q]), OrderTaken(q)' <=> OrderTaken(q)
  PROVE  ChannelTo(q)' = ChannelTo(q) /\ Last(q)' = Last(q)
<1>1. OrderPending(q)' = OrderPending(q)
  BY DEF OrderPending
<1>2. Ahead(q)' = Ahead(q)
  BY <1>1 DEF Ahead
<1>3. ChannelTo(q)' = ChannelTo(q)
  BY <1>1, <1>2 DEF ChannelTo, Counting
<1>4. Last(q)' = Last(q)
  BY DEF Last
<1> QED
  BY <1>3, <1>4

\* A step that changes none of the numbers is none of the channel.
LEMMA ChannelStutters ==
  ASSUME Inv, Inv',
         \A q \in Ranks : /\ Sent(q)' = Sent(q) /\ Posted(q)' = Posted(q) /\ Waited(q)' = Waited(q)
                          /\ OrderSent(q)' <=> OrderSent(q)
                          /\ OrderTaken(q)' <=> OrderTaken(q)
  PROVE  UNCHANGED Channel!vars
<1>1. ChannelState /\ ChannelState'
  BY ChannelStates
<1>2. \A q \in Ranks : ChannelTo(q)' = ChannelTo(q) /\ Last(q)' = Last(q)
  BY Peers, ChannelKept
<1>3. OnTheirWay' = OnTheirWay /\ LastReceived' = LastReceived /\ PostedReceives' = PostedReceives
  BY <1>1, <1>2 DEF ChannelState
<1> QED
  BY <1>3 DEF Channel!vars
\* A rank sends what comes next.
LEMMA SendsNext ==
  ASSUME Inv, Inv', NEW r \in Ranks, NEW n \in Int,
         \A q \in Ranks : /\ Posted(q)' = Posted(q) /\ Waited(q)' = Waited(q)
                          /\ OrderTaken(q)' <=> OrderTaken(q)
                          /\ q # r => Sent(q)' = Sent(q) /\ (OrderSent(q)' <=> OrderSent(q)),
         \/ ~OrderSent(r) /\ OrderSent(r)' /\ Sent(r)' = Sent(r) /\ n = -1
         \/ OrderSent(r) /\ OrderSent(r)' /\ Sent(r)' = Sent(r) + 1 /\ n = Sent(r),
         n < Rounds
  PROVE  Channel!Send(Peer[r])
<1> DEFINE p == Peer[r]
           a == Ahead(p)
           c == Waited(p) - OrderPending(p)
<1>1. p \in Ranks /\ Peer[p] = r
  BY Peers
<1>2. ChannelState /\ ChannelState' /\ ChannelBounds
  BY ChannelStates, ChannelNumbers
<1>3. /\ a \in Nat /\ c \in Int /\ OrderPending(p) \in 0 .. 1 /\ Waited(p) \in Nat /\ Sent(r) \in Nat
      /\ a = OrderPending(p) + Sent(r) - Waited(p)
      /\ Waited(p) =< Sent(r) /\ (Waited(p) > 0 => OrderTaken(p)) /\ (Sent(r) > 0 => OrderSent(r))
      /\ (OrderTaken(p) => OrderSent(r))
  BY <1>1, <1>2 DEF ChannelBounds, Ahead
<1>4. Channel!Latest(p) = n
  <2>1. OnTheirWay[p] = Counting(c, a) /\ LastReceived[p] = Last(p)
    BY <1>1, <1>2 DEF ChannelState, ChannelTo
  <2>2. CASE ~OrderSent(r)
    <3>1. ~OrderTaken(p) /\ Sent(r) = 0 /\ Waited(p) = 0 /\ OrderPending(p) = 0 /\ n = -1
      BY <1>1, <1>3, <2>2 DEF OrderPending, OneIf
    <3>2. a = 0 /\ Last(p) = -1
      BY <1>3, <3>1 DEF Last
    <3> QED
      BY <1>3, <2>1, <3>1, <3>2, CountingFacts DEF Channel!Latest
  <2>3. CASE OrderSent(r)
    <3>1. n = Sent(r)
      BY <2>3
    <3>2. CASE a = 0
      <4>1. OrderPending(p) = 0 /\ Waited(p) = n
        BY <1>3, <3>1, <3>2
      <4>2. OrderTaken(p)
        BY <1>1, <2>3, <4>1 DEF OrderPending, OneIf
      <4> QED
        BY <1>3, <2>1, <3>2, <4>1, <4>2, CountingFacts DEF Channel!Latest, Last
    <3>3. CASE a > 0
      <4>1. c + a = n
        BY <1>3, <3>1
      <4> HIDE DEF a, c
      <4>2. /\ Counting(c, a) # <<>> /\ Len(Counting(c, a)) = a
            /\ Counting(c, a)[a] = c + a
        <5>1. a \in Nat /\ c \in Int /\ a > 0 /\ a # 0
          BY <1>3, <3>3
        <5> QED
          BY <5>1, CountingFacts, Zenon
      <4> QED
        BY <2>1, <4>1, <4>2 DEF Channel!Latest
    <3> QED
      BY <1>3, <3>2, <3>3
  <2> QED
    BY <2>2, <2>3
<1>5. ChannelTo(p)' = Append(ChannelTo(p), n + 1)
  <2>1. Waited(p)' = Waited(p) /\ ChannelTo(p)' = Counting((Waited(p) - OrderPending(p))', Ahead(p)')
    BY <1>1 DEF ChannelTo, Counting
  <2>2. CASE ~OrderSent(r)
    <3>1. ~OrderTaken(p) /\ Sent(r) = 0 /\ Waited(p) = 0 /\ OrderPending(p) = 0 /\ n = -1
      BY <1>1, <1>3, <2>2 DEF OrderPending, OneIf
    <3>2. OrderPending(p)' = 1 /\ Sent(r)' = 0 /\ Waited(p)' = 0
      BY <1>1, <2>2, <3>1 DEF OrderPending, OneIf
    <3>3. ChannelTo(p)' = Counting(-1, 1)
      BY <1>1, <2>1, <3>2 DEF Ahead
    <3>4. ChannelTo(p) = Counting(0, 0)
      BY <1>1, <3>1 DEF ChannelTo, Ahead
    <3>5. PICK z \in Int, m \in Nat : z = -1 /\ m = 0
      OBVIOUS
    <3>6. /\ Counting(m, m) = <<>> /\ Counting(z, m) = <<>>
          /\ Append(Counting(z, m), z + m + 1) = Counting(z, m + 1)
      <4>1. m \in Int /\ z \in Int /\ m \in Nat /\ m = 0
        BY <3>5
      <4> QED
        BY <4>1, CountingFacts, Zenon
    <3>7. z + m + 1 = n + 1 /\ m + 1 = 1 /\ z = -1 /\ m = 0
      BY <3>1, <3>5
    <3> QED
      BY <3>3, <3>4, <3>6, <3>7
  <2>3. CASE OrderSent(r)
    <3>1. OrderPending(p)' = OrderPending(p) /\ Sent(r)' = Sent(r) + 1 /\ n = Sent(r)
      BY <1>1, <2>3 DEF OrderPending
    <3>2. Ahead(p)' = a + 1 /\ (Waited(p) - OrderPending(p))' = c /\ c + a + 1 = n + 1
      BY <1>1, <1>3, <2>1, <3>1 DEF Ahead
    <3>3. ChannelTo(p)' = Counting(c, a + 1)
      BY <2>1, <3>2
    <3>4. ChannelTo(p) = Counting(c, a)
      BY DEF ChannelTo
    <3>5. Append(Counting(c, a), c + a + 1) = Counting(c, a + 1)
      BY <1>3, CountingFacts
    <3> QED
      BY <3>2, <3>3, <3>4, <3>5
  <2> QED
    BY <2>2, <2>3
<1>6. \A q \in Ranks : /\ q # p => ChannelTo(q)' = ChannelTo(q)
                       /\ Last(q)' = Last(q)
  <2>1. \A q \in Ranks : q # p => Peer[q] # r /\ Peer[q] \in Ranks
    BY PeerOfPeer, Peers
  <2>2. \A q \in Ranks : Last(q)' = Last(q)
    BY DEF Last
  <2> QED
    BY <2>1, <2>2, ChannelKept
<1>7. OnTheirWay' = [OnTheirWay EXCEPT ![p] = Append(@, n + 1)]
  BY <1>1, <1>2, <1>5, <1>6 DEF ChannelState
<1>8. LastReceived' = LastReceived /\ PostedReceives' = PostedReceives
  BY <1>2, <1>6 DEF ChannelState
<1> QED
  BY <1>4, <1>7, <1>8 DEF Channel!Send

\* A rank takes the first of what is on its way.
LEMMA TakesFirst ==
  ASSUME Inv, Inv', NEW r \in Ranks,
         \A q \in Ranks : /\ Sent(q)' = Sent(q) /\ (OrderSent(q)' <=> OrderSent(q))
                          /\ q # r => Waited(q)' = Waited(q) /\ (OrderTaken(q)' <=> OrderTaken(q)),
         \/ ~OrderTaken(r) /\ OrderTaken(r)' /\ Waited(r)' = Waited(r)
         \/ OrderTaken(r) /\ OrderTaken(r)' /\ Waited(r)' = Waited(r) + 1
  PROVE  /\ OnTheirWay[r] # <<>>
         /\ LastReceived' = [LastReceived EXCEPT ![r] = Head(OnTheirWay[r])]
         /\ OnTheirWay' = [OnTheirWay EXCEPT ![r] = Tail(@)]
<1> DEFINE p == Peer[r]
           a == Ahead(r)
           c == Waited(r) - OrderPending(r)
<1>1. p \in Ranks
  BY Peers
<1>2. ChannelState /\ ChannelState' /\ ChannelBounds /\ ChannelBounds'
  BY ChannelStates, ChannelNumbers
<1>3. /\ a \in Nat /\ c \in Int /\ OrderPending(r) \in 0 .. 1 /\ Waited(r) \in Nat /\ Sent(p) \in Nat
      /\ a = OrderPending(r) + Sent(p) - Waited(r)
      /\ Waited(r) > 0 => OrderTaken(r)
  BY <1>1, <1>2 DEF ChannelBounds, Ahead
<1>4. Waited(r)' =< Sent(p)' /\ OrderSent(p)' /\ Sent(p)' = Sent(p) /\ OrderSent(p)
  <2>1. Sent(p)' = Sent(p) /\ (OrderSent(p)' <=> OrderSent(p))
    BY <1>1
  <2>2. Waited(r)' =< Sent(p)'
    BY <1>2 DEF ChannelBounds
  <2>3. OrderTaken(r)' => OrderSent(p)'
    BY <1>2 DEF ChannelBounds
  <2> QED
    BY <2>1, <2>2, <2>3
<1>5. OrderPending(r)' = 0
  BY DEF OrderPending, OneIf
<1>6. /\ a > 0 /\ Ahead(r)' = a - 1 /\ (Waited(r) - OrderPending(r))' = c + 1
      /\ Last(r)' = c + 1
  <2>1. CASE ~OrderTaken(r)
    <3>1. OrderPending(r) = 1 /\ Waited(r) = 0 /\ Waited(r)' = 0
      BY <1>3, <1>4, <2>1 DEF OrderPending, OneIf
    <3> QED
      BY <1>3, <1>4, <1>5, <2>1, <3>1 DEF Ahead, Last
  <2>2. CASE OrderTaken(r)
    <3>1. OrderPending(r) = 0 /\ Waited(r)' = Waited(r) + 1
      BY <2>2 DEF OrderPending, OneIf
    <3> QED
      BY <1>3, <1>4, <1>5, <2>2, <3>1 DEF Ahead, Last
  <2> QED
    BY <2>1, <2>2
<1>7. /\ ChannelTo(r) # <<>> /\ Head(ChannelTo(r)) = c + 1
      /\ ChannelTo(r)' = Tail(ChannelTo(r))
  <2>1. ChannelTo(r) = Counting(c, a)
    BY DEF ChannelTo
  <2>2. ChannelTo(r)' = Counting((Waited(r) - OrderPending(r))', Ahead(r)')
    BY DEF ChannelTo, Counting
  <2>3. ChannelTo(r)' = Counting(c + 1, a - 1)
    BY <1>6, <2>2
  <2> HIDE DEF a, c
  <2>4. /\ Counting(c, a) # <<>> /\ Head(Counting(c, a)) = c + 1
        /\ Tail(Counting(c, a)) = Counting(c + 1, a - 1)
    <3>1. a \in Nat /\ c \in Int /\ a > 0 /\ a # 0
      BY <1>3, <1>6
    <3> QED
      BY <3>1, CountingFacts, Zenon
  <2> QED
    BY <2>1, <2>3, <2>4
<1>8. ASSUME NEW q \in Ranks, q # r PROVE ChannelTo(q)' = ChannelTo(q) /\ Last(q)' = Last(q)
  <2>1. Peer[q] \in Ranks
    BY Peers
  <2>2. /\ Sent(Peer[q])' = Sent(Peer[q]) /\ Waited(q)' = Waited(q)
        /\ (OrderSent(Peer[q])' <=> OrderSent(Peer[q])) /\ (OrderTaken(q)' <=> OrderTaken(q))
    BY <1>8, <2>1
  <2> QED
    BY <2>2, ChannelKept
<1> QED
  BY <1>2, <1>6, <1>7, <1>8 DEF ChannelState
\* Every call is a step of the channel or none: the last call that sends, that
\* asks for the order, that takes the order or that posts, and the first that
\* waits, are steps.
LEMMA CallSimulated ==
  ASSUME Inv, Inv', NEW r \in Ranks, NEW op \in AllOps, Calling(r, op), Proceed(r)
  PROVE  [Channel!Next]_(Channel!vars)
<1> USE DEF Inv
<1> DEFINE p == Peer[r]
<1>1. p \in Ranks /\ p # r /\ Peer[p] = r /\ Rounds \in Nat
  BY Peers, PeerAssumption
<1>2. ChannelState /\ ChannelState'
  BY ChannelStates
<1>3. ASSUME NEW q \in Ranks
      PROVE  /\ Sent(q)' = IF q = r /\ op = "send" /\ Ended(r, op)' THEN Sent(q) + 1 ELSE Sent(q)
             /\ Posted(q)' = IF q = r /\ op = "prepareForReceive" /\ Ended(r, op)'
                               THEN Posted(q) + 1 ELSE Posted(q)
             /\ Waited(q)' = IF q = r /\ op = "receive" /\ Called(r, op) = {} THEN Waited(q) + 1 ELSE Waited(q)
             /\ (OrderSent(q)' <=> OrderSent(q) \/ (q = r /\ op = "sendDataOrder" /\ Ended(r, op)'))
             /\ (OrderTaken(q)' <=> OrderTaken(q) \/ (q = r /\ op = "receiveDataOrder" /\ Ended(r, op)'))
             /\ Sent(q) \in Nat /\ Posted(q) \in Nat /\ Waited(q) \in Nat
  <2>1. Sent(q) \in Nat /\ Posted(q) \in Nat /\ Waited(q) \in Nat
    BY Numbers
  <2>2. /\ Sent(q)' = Sent(q) + OneIf(q = r /\ op = "send" /\ Ended(r, op)')
        /\ Posted(q)' = Posted(q) + OneIf(q = r /\ op = "prepareForReceive" /\ Ended(r, op)')
        /\ Waited(q)' = Waited(q) + OneIf(q = r /\ op = "receive" /\ Called(r, op) = {})
        /\ (OrderSent(q)' <=> OrderSent(q) \/ (q = r /\ op = "sendDataOrder" /\ Ended(r, op)'))
        /\ (OrderTaken(q)' <=> OrderTaken(q) \/ (q = r /\ op = "receiveDataOrder" /\ Ended(r, op)'))
    BY Progress
  <2> QED
    BY <2>1, <2>2 DEF OneIf
<1>4. CASE op = "sendDataOrder" /\ Ended(r, op)'
  <2>1. ~OrderSent(r) /\ -1 \in Int /\ -1 < Rounds
    BY <1>1, <1>4, Standing
  <2>2. Channel!Send(p)
    BY <1>3, <1>4, <2>1, SendsNext
  <2> QED
    BY <1>1, <2>2 DEF Channel!Next
<1>5. CASE op = "send" /\ Ended(r, op)'
  <2>1. OrderSent(r) /\ Sent(r) \in Int /\ Sent(r) < Rounds
    BY <1>1, <1>3, <1>5, Standing
  <2>2. Channel!Send(p)
    BY <1>3, <1>5, <2>1, SendsNext
  <2> QED
    BY <1>1, <2>2 DEF Channel!Next
<1>6. CASE op = "receiveDataOrder" /\ Ended(r, op)'
  <2>1. ~OrderTaken(r)
    BY <1>6, Standing
  <2>2. /\ OnTheirWay[r] # <<>>
        /\ LastReceived' = [LastReceived EXCEPT ![r] = Head(OnTheirWay[r])]
        /\ OnTheirWay' = [OnTheirWay EXCEPT ![r] = Tail(@)]
    BY <1>3, <1>6, <2>1, TakesFirst
  <2>3. LastReceived[r] = -1
    BY <1>2, <2>1 DEF ChannelState, Last
  <2>4. PostedReceives' = PostedReceives
    BY <1>2, <1>3, <1>6 DEF ChannelState
  <2>5. Channel!ReceiveOrder(r)
    BY <2>2, <2>3, <2>4 DEF Channel!ReceiveOrder, Channel!Take, Channel!None
  <2> QED
    BY <2>5 DEF Channel!Next
<1>7. CASE op = "prepareForReceive" /\ Ended(r, op)'
  <2>1. OrderTaken(r) /\ Posted(r) = round[r] - 1 /\ Waited(r) = round[r] - 1
    BY <1>7, Standing
  <2>2. LastReceived[r] # -1
    BY <1>2, <1>3, <2>1 DEF ChannelState, Last
  <2>3. r \notin PostedReceives
    BY <1>2, <2>1 DEF ChannelState
  <2>4. PostedReceives' = PostedReceives \cup {r}
    <3>1. Posted(r)' # Waited(r)'
      BY <1>3, <1>7, <2>1
    <3>2. \A q \in Ranks : q # r => Posted(q)' = Posted(q) /\ Waited(q)' = Waited(q)
      BY <1>3, <1>7
    <3> QED
      BY <1>2, <3>1, <3>2 DEF ChannelState
  <2>5. OnTheirWay' = OnTheirWay /\ LastReceived' = LastReceived
    <3>1. \A q \in Ranks : ChannelTo(q)' = ChannelTo(q) /\ Last(q)' = Last(q)
      BY <1>3, <1>7, Peers, ChannelKept
    <3> QED
      BY <1>2, <3>1 DEF ChannelState
  <2>6. Channel!Post(r)
    BY <2>2, <2>3, <2>4, <2>5 DEF Channel!Post, Channel!None
  <2> QED
    BY <2>6 DEF Channel!Next
<1>8. CASE op = "receive" /\ Called(r, op) = {}
  <2>1. OrderTaken(r) /\ Posted(r) = round[r] /\ Waited(r) = round[r] - 1 /\ round[r] \in Nat
    <3>1. OrderTaken(r) /\ Posted(r) = round[r] /\ Waited(r) = round[r] - 1 + OneIf(Called(r, "receive") # {})
      BY <1>8, Standing
    <3>2. OneIf(Called(r, "receive") # {}) = 0 /\ round[r] \in Nat
      BY <1>8 DEF OneIf, Places
    <3> QED
      BY <3>1, <3>2
  <2>2. /\ OnTheirWay[r] # <<>>
        /\ LastReceived' = [LastReceived EXCEPT ![r] = Head(OnTheirWay[r])]
        /\ OnTheirWay' = [OnTheirWay EXCEPT ![r] = Tail(@)]
    BY <1>3, <1>8, <2>1, TakesFirst
  <2>3. r \in PostedReceives
    BY <1>2, <2>1 DEF ChannelState
  <2>4. PostedReceives' = PostedReceives \ {r}
    <3>1. Posted(r)' = Waited(r)'
      BY <1>3, <1>8, <2>1
    <3>2. \A q \in Ranks : q # r => Posted(q)' = Posted(q) /\ Waited(q)' = Waited(q)
      BY <1>3, <1>8
    <3> QED
      BY <1>2, <3>1, <3>2 DEF ChannelState
  <2>5. Channel!Receive(r)
    BY <2>2, <2>3, <2>4 DEF Channel!Receive, Channel!Take
  <2> QED
    BY <2>5 DEF Channel!Next
<1>9. CASE /\ ~(op \in {"sendDataOrder", "send", "receiveDataOrder", "prepareForReceive"} /\ Ended(r, op)')
           /\ ~(op = "receive" /\ Called(r, op) = {})
  <2>1. \A q \in Ranks : /\ Sent(q)' = Sent(q) /\ Posted(q)' = Posted(q) /\ Waited(q)' = Waited(q)
                         /\ OrderSent(q)' <=> OrderSent(q)
                         /\ OrderTaken(q)' <=> OrderTaken(q)
    BY <1>3, <1>9
  <2> QED
    BY <2>1, ChannelStutters
<1> QED
  BY <1>4, <1>5, <1>6, <1>7, <1>8, <1>9

\* Moving on, delivering into the pool and doing nothing are no steps of the
\* channel.
LEMMA OthersStutter ==
  ASSUME Inv, Inv', (\E r \in Ranks : MoveOn(r)) \/ UNCHANGED progress
  PROVE  UNCHANGED Channel!vars
<1> USE DEF Inv
<1>1. ASSUME NEW q \in Ranks
      PROVE  /\ Sent(q)' = Sent(q) /\ Posted(q)' = Posted(q) /\ Waited(q)' = Waited(q)
             /\ OrderSent(q)' <=> OrderSent(q)
             /\ OrderTaken(q)' <=> OrderTaken(q)
  <2>1. CASE UNCHANGED progress
    BY <2>1, SamePlace
  <2>2. CASE \E r \in Ranks : MoveOn(r)
    <3>1. PICK r \in Ranks : MoveOn(r)
      BY <2>2
    <3>2. CASE q = r
      BY <3>1, <3>2, MovedOn
    <3>3. CASE q # r
      <4>1. at'[q] = at[q] /\ round'[q] = round[q]
        BY <3>1, <3>3, MovedOn
      <4> QED
        BY <4>1 DEF Sent, Posted, Waited, OrderSent, OrderTaken, InRounds, Ended, Called
    <3> QED
      BY <3>2, <3>3
  <2> QED
    BY <2>1, <2>2
<1> QED
  BY <1>1, ChannelStutters

\* At first nothing is on its way, posted or received.
LEMMA ChannelInit == Init => Channel!Init
<1> SUFFICES ASSUME Init PROVE Channel!Init
  OBVIOUS
<1>1. /\ recvPool = [r \in Ranks |-> <<>>] /\ wire = [r \in Ranks |-> <<>>]
      /\ receiveRequest = [r \in Ranks |-> "null"]
  BY DEF Init
<1>2. LastReceived = [r \in Ranks |-> -1] /\ PostedReceives = {}
  BY <1>1 DEF LastReceived, PostedReceives
<1>3. OnTheirWay = [r \in Ranks |-> <<>>]
  <2>1. ASSUME NEW r \in Ranks
        PROVE  (IF receiveRequest[r] = "complete" THEN <<RoundOf(recvPool[r])>> ELSE <<>>)
                 \o [i \in DOMAIN wire[r] |-> Message(wire[r][i])] = <<>>
    <3>1. receiveRequest[r] # "complete" /\ DOMAIN wire[r] = {}
      BY <1>1
    <3>2. [i \in DOMAIN wire[r] |-> Message(wire[r][i])] = <<>>
      BY <3>1
    <3> QED
      BY <3>1, <3>2
  <2> QED
    BY <2>1 DEF OnTheirWay
<1> QED
  BY <1>2, <1>3 DEF Channel!Init, Channel!None

\* For any connectors on either side, the calls amount to one exchange of the
\* order and one message per round, received in the round it was sent in.
THEOREM OneMessage == Spec => OneMessagePerRound
<1>1. Init => Channel!Init
  BY ChannelInit
<1>2. Inv /\ Inv' /\ [Next]_vars => [Channel!Next]_(Channel!vars)
  <2> SUFFICES ASSUME Inv, Inv', [Next]_vars PROVE [Channel!Next]_(Channel!vars)
    OBVIOUS
  <2>1. CASE UNCHANGED vars
    <3>1. UNCHANGED progress
      BY <2>1 DEF vars
    <3> QED
      BY <3>1, OthersStutter
  <2>2. CASE Next
    <3>1. PICK r \in Ranks : Step(r) \/ Deliver(r)
      BY <2>2 DEF Next
    <3>2. CASE Deliver(r) \/ MoveOn(r)
      <4>1. (\E q \in Ranks : MoveOn(q)) \/ UNCHANGED progress
        BY <3>2 DEF Deliver
      <4> QED
        BY <4>1, OthersStutter
    <3>3. CASE ~(Deliver(r) \/ MoveOn(r))
      <4>1. \E op \in AllOps : Calling(r, op) /\ Proceed(r)
        BY <3>1, <3>3 DEF Step, InitVector, SendDataOrder, ReceiveDataOrder, PrepareForReceive, PrepareForSend,
              FillVector, SendData, ReceiveData, DistributeVector, AllOps, Ops
      <4> QED
        BY <4>1, CallSimulated
    <3> QED
      BY <3>2, <3>3
  <2> QED
    BY <2>1, <2>2
<1> QED
  BY <1>1, <1>2, PoolInvariant, PTL DEF Spec, OneMessagePerRound, Channel!Spec
=============================================================================
