---------------------------- MODULE CbVectorPool ----------------------------
(***************************************************************************)
(* CbVectorPool (src/basics/container/CbVectorPool.h): vectors of many     *)
(* connectors live one after the other in one std::vector, the pool, so    *)
(* that one MPI message can carry them all.  A vector holds a raw pointer  *)
(* into the pool; the pool moves in memory when it grows beyond its        *)
(* capacity and closes the gap when a vector shrinks.                      *)
(*                                                                         *)
(* A pointer is <<address of the pool's memory, offset>>.  Which address   *)
(* and which capacity a reallocation yields is left to the C++ library.    *)
(* Users reach the pool as the MPI transmitters do: a vector gets its      *)
(* allocator with length 0 and is resized later.                           *)
(***************************************************************************)
EXTENDS Integers, Sequences, FiniteSets

CONSTANTS
  Vectors,
  Keys,
  KeyOf,        \* KeyOf[v]: key of the allocator of v
  Values,
  Zero,         \* value_type()
  MaxSize,      \* bound: longest vector
  MaxCapacity,  \* bound: largest capacity
  Addresses,    \* where the pool's memory may lie
  StartCapacities,  \* startPoolSize
  NULL

ASSUME PoolAssumption ==
  /\ IsFiniteSet(Keys)
  /\ KeyOf \in [Vectors -> Keys]
  /\ Zero \in Values
  /\ MaxSize \in Nat /\ MaxCapacity \in Nat
  /\ StartCapacities \subseteq Nat
  /\ NULL \notin Addresses /\ NULL \notin Addresses \X Nat

VARIABLES
  pool,          \* elements of the std::vector
  base,          \* address of its memory
  capacity,
  poolStartAdress,
  nextCbVectorStartIndexInPool,
  cbVectorMap,   \* keys -> vectors, a partial function
  attached,      \* vectors whose allocator points to the pool
  startIndexInPool, ptrData, dataSize    \* of each vector and its allocator

memory  == <<pool, base, capacity>>
books   == <<poolStartAdress, nextCbVectorStartIndexInPool, cbVectorMap>>
handles == <<startIndexInPool, ptrData, dataSize>>
vars    == <<memory, books, attached, handles>>

Mapped == { cbVectorMap[k] : k \in DOMAIN cbVectorMap }

Init ==
  /\ pool = <<>>
  /\ base \in Addresses
  /\ capacity \in StartCapacities
  /\ poolStartAdress = NULL
  /\ nextCbVectorStartIndexInPool = 0
  /\ cbVectorMap = << >>
  /\ attached = {}
  /\ startIndexInPool = [v \in Vectors |-> 0]
  /\ ptrData = [v \in Vectors |-> NULL]
  /\ dataSize = [v \in Vectors |-> 0]

-----------------------------------------------------------------------------
(* Memory *)

\* std::vector: the memory stays where it is while the capacity suffices.
Occupy(elements) ==
  /\ pool' = elements
  /\ IF Len(elements) =< capacity
       THEN UNCHANGED <<base, capacity>>
       ELSE /\ base' \in Addresses \ {base}
            /\ capacity' \in Len(elements) .. MaxCapacity

Fill(n, value) == [i \in 1 .. n |-> value]

\* What v reads at index i, or Zero from memory that is not the pool's.
Element(v, i) ==
  IF ptrData[v] # NULL /\ ptrData[v][1] = base /\ ptrData[v][2] + i \in DOMAIN pool
    THEN pool[ptrData[v][2] + i]
    ELSE Zero

-----------------------------------------------------------------------------
(* allocData and resizeData *)

\* Faulty variant: the pointers are not renewed when the pool has moved.
KeepPointers == [w \in Vectors |-> ptrData[w]]

\* Renews the pointers of the vectors in the map that have data.
RenewPointers ==
  [w \in Vectors |->
     IF w \in Mapped /\ ptrData[w] # NULL THEN <<base', startIndexInPool[w]>> ELSE ptrData[w]]

AllocData(v, n, value) ==
  /\ IF n > 0
       THEN LET start == nextCbVectorStartIndexInPool
            IN  /\ Occupy(pool \o Fill(n, value))
                /\ poolStartAdress' = base'
                /\ ptrData' = [IF poolStartAdress # base' THEN RenewPointers ELSE ptrData
                                 EXCEPT ![v] = <<base', start>>]
                /\ startIndexInPool' = [startIndexInPool EXCEPT ![v] = start]
                /\ nextCbVectorStartIndexInPool' = start + n
       ELSE UNCHANGED <<memory, poolStartAdress, nextCbVectorStartIndexInPool,
                        startIndexInPool, ptrData>>
  /\ cbVectorMap' = [k \in DOMAIN cbVectorMap \cup {KeyOf[v]} |->
                       IF k \in DOMAIN cbVectorMap THEN cbVectorMap[k] ELSE v]
  /\ dataSize' = [dataSize EXCEPT ![v] = n]

\* The elements of the pool with those of v lengthened or shortened.
Spliced(v, n, value) ==
  LET start == startIndexInPool[v]
      size  == dataSize[v]
      kept  == IF n < size THEN n ELSE size
  IN  SubSeq(pool, 1, start + kept) \o Fill(n - kept, value)
        \o SubSeq(pool, start + size + 1, Len(pool))

\* Faulty variants: a vector at the place where the change begins counts as
\* lying behind it; no vector does.
LiesAtOrBehind(w, v) == startIndexInPool[w] >= startIndexInPool[v]
NeverBehind(w, v)    == FALSE

LiesBehind(w, v) == startIndexInPool[w] > startIndexInPool[v]

\* resizeData; the map it walks through is that of the caller (dealloc has
\* already taken v out of it).
ResizeData(v, n, value, map) ==
  LET inMap == { map[k] : k \in DOMAIN map }
  IN  /\ Occupy(Spliced(v, n, value))
      /\ cbVectorMap' = map
      /\ nextCbVectorStartIndexInPool' = Len(pool')
      /\ dataSize' = [dataSize EXCEPT ![v] = n]
      /\ IF pool' # <<>>
           THEN LET moved == poolStartAdress # base'
                    shift == { w \in inMap : dataSize[w] > 0 /\ LiesBehind(w, v) }
                    renew == shift \cup { w \in inMap : dataSize[w] > 0 /\ moved }
                    start == [w \in Vectors |-> IF w \in shift
                                THEN startIndexInPool[w] + n - dataSize[v] ELSE startIndexInPool[w]]
                    ptr   == [w \in Vectors |-> IF w \in renew THEN <<base', start[w]>> ELSE ptrData[w]]
                IN  /\ poolStartAdress' = base'
                    /\ startIndexInPool' = IF n = 0 THEN [start EXCEPT ![v] = 0] ELSE start
                    /\ ptrData' = IF n = 0 THEN [ptr EXCEPT ![v] = NULL] ELSE ptr
           ELSE /\ poolStartAdress' = NULL
                /\ startIndexInPool' = [w \in Vectors |-> IF w \in inMap \cup {v} THEN 0
                                                          ELSE startIndexInPool[w]]
                /\ ptrData' = [ptrData EXCEPT ![v] = NULL]

Without(k) == [j \in DOMAIN cbVectorMap \ {k} |-> cbVectorMap[j]]

-----------------------------------------------------------------------------
(* The operations of a vector *)

\* CbVector::setAllocator -> allocVectorData: the vector enters with length 0.
Create(v) ==
  /\ v \notin attached
  /\ KeyOf[v] \notin DOMAIN cbVectorMap
  /\ AllocData(v, 0, Zero)
  /\ attached' = attached \cup {v}

\* The key is already taken: allocVectorData throws out of the constructor of
\* the transmitter, whose vector is then destroyed - and deallocated.
CreateTwice(v) ==
  /\ v \notin attached
  /\ KeyOf[v] \in DOMAIN cbVectorMap
  /\ ResizeData(v, 0, Zero, Without(KeyOf[v]))
  /\ UNCHANGED attached

\* resizeVectorData: a vector without data is allocated at the end of the pool.
Resize(v, n, value) ==
  /\ v \in attached
  /\ KeyOf[v] \in DOMAIN cbVectorMap
  /\ IF startIndexInPool[v] = 0 /\ ptrData[v] = NULL
       THEN AllocData(v, n, value)
       ELSE ResizeData(v, n, value, cbVectorMap)
  /\ UNCHANGED attached

\* CbVector::operator[]: the vector writes through its pointer.
Write(v, i, value) ==
  /\ v \in attached
  /\ pool' = IF ptrData[v][1] = base /\ ptrData[v][2] + i \in DOMAIN pool
               THEN [pool EXCEPT ![ptrData[v][2] + i] = value]
               ELSE pool
  /\ UNCHANGED <<base, capacity, books, attached, handles>>

\* deallocVectorData, called by the destructor of a vector.
Dealloc(v) ==
  /\ KeyOf[v] \in DOMAIN cbVectorMap
  /\ ResizeData(v, 0, Zero, Without(KeyOf[v]))
  /\ attached' = attached \ {v}

\* The transmitter of the last vector deletes the pool before its vector; the
\* destructor of the pool resets the vectors in the map.  Who next asks for the
\* pool creates it anew.
DeletePool ==
  /\ pool' = <<>>
  /\ base' \in Addresses
  /\ capacity' \in StartCapacities
  /\ poolStartAdress' = NULL
  /\ nextCbVectorStartIndexInPool' = 0
  /\ cbVectorMap' = << >>
  /\ attached' = attached \ Mapped
  /\ startIndexInPool' = [w \in Vectors |-> IF w \in Mapped THEN 0 ELSE startIndexInPool[w]]
  /\ ptrData' = [w \in Vectors |-> IF w \in Mapped THEN NULL ELSE ptrData[w]]
  /\ dataSize' = [w \in Vectors |-> IF w \in Mapped THEN 0 ELSE dataSize[w]]

Destroy(v) ==
  /\ v \in attached
  /\ IF Cardinality(DOMAIN cbVectorMap) = 1 THEN DeletePool ELSE Dealloc(v)

Next ==
  \E v \in Vectors :
    \/ Create(v) \/ Destroy(v)
    \/ \E n \in 0 .. MaxSize, value \in Values : Resize(v, n, value)
    \/ \E i \in 1 .. dataSize[v], value \in Values : Write(v, i, value)

\* Every key is used once, as the wiring of the connectors does, or also by a
\* second vector, as when the visitor that wires them is applied twice.
Spec        == Init /\ [][Next]_vars
SpecAnyKeys == Init /\ [][Next \/ \E v \in Vectors : CreateTwice(v)]_vars

-----------------------------------------------------------------------------
(* Properties *)

\* Every variable has its type; no index is negative.
TypeOK ==
  /\ pool \in Seq(Values)
  /\ base \in Addresses
  /\ capacity \in Nat
  /\ poolStartAdress \in Addresses \cup {NULL}
  /\ nextCbVectorStartIndexInPool \in Nat
  /\ DOMAIN cbVectorMap \subseteq Keys /\ Mapped \subseteq Vectors
  /\ attached \subseteq Vectors
  /\ startIndexInPool \in [Vectors -> Nat]
  /\ ptrData \in [Vectors -> (Addresses \X Nat) \cup {NULL}]
  /\ dataSize \in [Vectors -> Nat]

\* consistencyCheck: "checks if all vectors have one to one pool-entries" -
\* every element of the pool belongs to exactly one vector of the map, and no
\* vector reaches beyond the pool.
ConsistencyCheck ==
  /\ \A i \in DOMAIN pool :
       \E v \in Mapped : /\ i \in startIndexInPool[v] + 1 .. startIndexInPool[v] + dataSize[v]
                         /\ \A w \in Mapped \ {v} :
                              i \notin startIndexInPool[w] + 1 .. startIndexInPool[w] + dataSize[w]
  /\ \A v \in Mapped : startIndexInPool[v] + dataSize[v] =< Len(pool)

\* A vector whose allocator belongs to the pool is found under its key; the
\* exceptions of resizeVectorData and deallocVectorData ask "wie kann das
\* sein?", how could it be otherwise.  It holds when no key is used twice.
KeyIsKnown == \A v \in attached : KeyOf[v] \in DOMAIN cbVectorMap /\ cbVectorMap[KeyOf[v]] = v

\* However the pool grows, shrinks and moves, every vector keeps contents of
\* its own.
Independent == INSTANCE IndependentVectors
                 WITH Sizes <- 0 .. MaxSize, live <- attached,
                      contents <- [v \in Vectors |-> [i \in 1 .. dataSize[v] |-> Element(v, i)]]

VectorsAreIndependent == Independent!Spec

=============================================================================
