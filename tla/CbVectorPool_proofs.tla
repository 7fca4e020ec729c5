------------------------- MODULE CbVectorPool_proofs -------------------------
(***************************************************************************)
(* Proofs about the pool of vectors, for any number of vectors, any sizes  *)
(* and any reallocations.  The inductive invariant says how the vectors    *)
(* lie in the pool (Layout), that every vector with elements points to its *)
(* place (Handles), and that the map knows exactly the vectors that have   *)
(* the pool as allocator (Registered).                                     *)
(***************************************************************************)
EXTENDS CbVectorPool, SequenceTheorems, FiniteSetTheorems, TLAPS

Registered ==
  /\ KeyIsKnown
  /\ \A v \in Vectors \ attached : dataSize[v] = 0
  /\ \A k \in DOMAIN cbVectorMap : cbVectorMap[k] \in attached /\ KeyOf[cbVectorMap[k]] = k

Handles ==
  \A v \in Vectors :
    IF dataSize[v] = 0 THEN startIndexInPool[v] = 0 /\ ptrData[v] = NULL
                       ELSE ptrData[v] = <<base, startIndexInPool[v]>>

\* Vectors with elements lie side by side.
Apart(v, w) ==
  \/ startIndexInPool[v] + dataSize[v] =< startIndexInPool[w]
  \/ startIndexInPool[w] + dataSize[w] =< startIndexInPool[v]

Layout ==
  /\ nextCbVectorStartIndexInPool = Len(pool)
  /\ pool # <<>> => poolStartAdress = base
  /\ \A v \in Vectors : startIndexInPool[v] + dataSize[v] =< Len(pool)
  /\ \A v, w \in Vectors : v # w /\ dataSize[v] > 0 /\ dataSize[w] > 0 => Apart(v, w)
  /\ \A i \in 1 .. Len(pool) :
       \E v \in Vectors : startIndexInPool[v] < i /\ i =< startIndexInPool[v] + dataSize[v]

Inv == TypeOK /\ Registered /\ Handles /\ Layout

-----------------------------------------------------------------------------
(* The memory *)

\* A filled piece is a sequence of values.
LEMMA FillProperties ==
  ASSUME NEW n \in Nat, NEW value \in Values
  PROVE  /\ Fill(n, value) \in Seq(Values)
         /\ Len(Fill(n, value)) = n
         /\ \A i \in 1 .. n : Fill(n, value)[i] = value
BY DEF Fill

\* Where the elements of three sequences lie in their concatenation.
LEMMA ThreePieces ==
  ASSUME NEW S, NEW A \in Seq(S), NEW B \in Seq(S), NEW C \in Seq(S),
         NEW new, new = (A \o B) \o C
  PROVE  /\ new \in Seq(S)
         /\ Len(new) = Len(A) + Len(B) + Len(C)
         /\ \A i \in 1 .. Len(A) : new[i] = A[i]
         /\ \A i \in 1 .. Len(B) : new[Len(A) + i] = B[i]
         /\ \A i \in 1 .. Len(C) : new[Len(A) + Len(B) + i] = C[i]
<1> DEFINE AB == A \o B
<1>1. /\ AB \in Seq(S) /\ Len(AB) = Len(A) + Len(B)
      /\ \A i \in 1 .. Len(A) + Len(B) : AB[i] = IF i =< Len(A) THEN A[i] ELSE B[i - Len(A)]
  BY ConcatProperties
<1>2. Len(A) \in Nat /\ Len(B) \in Nat /\ Len(C) \in Nat
  BY LenProperties
<1> HIDE DEF AB
<1>3. AB \in Seq(S)
  BY <1>1
<1>4. /\ AB \o C \in Seq(S) /\ Len(AB \o C) = Len(AB) + Len(C)
      /\ \A i \in 1 .. Len(AB) + Len(C) : (AB \o C)[i] = IF i =< Len(AB) THEN AB[i] ELSE C[i - Len(AB)]
  BY <1>3, ConcatProperties
<1>5. /\ new \in Seq(S) /\ Len(new) = Len(AB) + Len(C)
      /\ \A i \in 1 .. Len(AB) + Len(C) : new[i] = IF i =< Len(AB) THEN AB[i] ELSE C[i - Len(AB)]
  BY <1>4 DEF AB
<1>6. ASSUME NEW i \in 1 .. Len(A) PROVE new[i] = A[i]
  <2>1. i \in 1 .. Len(A) + Len(B) /\ i \in 1 .. Len(AB) + Len(C) /\ i =< Len(AB)
    BY <1>1, <1>2
  <2> QED
    BY <2>1, <1>1, <1>5
<1>7. ASSUME NEW i \in 1 .. Len(B) PROVE new[Len(A) + i] = B[i]
  <2>1. /\ Len(A) + i \in 1 .. Len(A) + Len(B) /\ Len(A) + i \in 1 .. Len(AB) + Len(C)
        /\ Len(A) + i =< Len(AB) /\ ~(Len(A) + i =< Len(A)) /\ Len(A) + i - Len(A) = i
    BY <1>1, <1>2
  <2> QED
    BY <2>1, <1>1, <1>5
<1>8. ASSUME NEW i \in 1 .. Len(C) PROVE new[Len(A) + Len(B) + i] = C[i]
  <2>1. /\ Len(A) + Len(B) + i \in 1 .. Len(AB) + Len(C)
        /\ ~(Len(A) + Len(B) + i =< Len(AB)) /\ Len(A) + Len(B) + i - Len(AB) = i
    BY <1>1, <1>2
  <2> QED
    BY <2>1, <1>5
<1> QED
  BY <1>1, <1>5, <1>6, <1>7, <1>8

\* Lengthening or shortening v moves what lies behind v and nothing else.
LEMMA SplicedProperties ==
  ASSUME TypeOK, NEW v \in Vectors, NEW n \in Nat, NEW value \in Values,
         startIndexInPool[v] + dataSize[v] =< Len(pool)
  PROVE  LET start == startIndexInPool[v]
             size  == dataSize[v]
             new   == Spliced(v, n, value)
         IN  /\ new \in Seq(Values)
             /\ Len(new) = Len(pool) + n - size
             /\ \A i \in 1 .. start + size : i =< start + n => new[i] = pool[i]
             /\ \A i \in start + size + 1 .. start + n : new[i] = value
             /\ \A i \in start + size + 1 .. Len(pool) : new[i + n - size] = pool[i]
<1> DEFINE start == startIndexInPool[v]
           size  == dataSize[v]
           kept  == IF n < size THEN n ELSE size
           A == SubSeq(pool, 1, start + kept)
           B == Fill(n - kept, value)
           C == SubSeq(pool, start + size + 1, Len(pool))
<1>1. /\ start \in Nat /\ size \in Nat /\ kept \in Nat /\ n - kept \in Nat
      /\ pool \in Seq(Values) /\ Len(pool) \in Nat /\ start + size =< Len(pool)
      /\ kept =< size /\ kept =< n /\ (kept = size \/ kept = n)
  BY LenProperties DEF TypeOK
<1>2. \A i \in 1 .. Len(pool) : pool[i] \in Values
  BY <1>1, ElementOfSeq
<1>3. /\ A \in Seq(Values) /\ Len(A) = start + kept
      /\ \A i \in 1 .. start + kept : A[i] = pool[i]
  <2> HIDE DEF start, size, kept
  <2>1. \A i \in 1 .. start + kept : pool[i] \in Values
    BY <1>1, <1>2
  <2> QED
    BY <1>1, <2>1, SubSeqProperties
<1>4. /\ B \in Seq(Values) /\ Len(B) = n - kept
      /\ \A i \in 1 .. n - kept : B[i] = value
  <2> HIDE DEF start, size, kept
  <2> QED
    BY <1>1, FillProperties
<1>5. /\ C \in Seq(Values) /\ Len(C) = Len(pool) - (start + size)
      /\ \A i \in 1 .. Len(pool) - (start + size) : C[i] = pool[start + size + i]
  <2> HIDE DEF start, size, kept
  <2>1. \A i \in start + size + 1 .. Len(pool) : pool[i] \in Values
    BY <1>1, <1>2
  <2> QED
    BY <1>1, <2>1, SubSeqProperties
<1>6. Spliced(v, n, value) = (A \o B) \o C
  BY DEF Spliced
<1> DEFINE new == (A \o B) \o C
<1> HIDE DEF A, B, C
<1>7. /\ new \in Seq(Values) /\ Len(new) = Len(A) + Len(B) + Len(C)
      /\ \A i \in 1 .. Len(A) : new[i] = A[i]
      /\ \A i \in 1 .. Len(B) : new[Len(A) + i] = B[i]
      /\ \A i \in 1 .. Len(C) : new[Len(A) + Len(B) + i] = C[i]
  <2>1. A \in Seq(Values) /\ B \in Seq(Values) /\ C \in Seq(Values)
    BY <1>3, <1>4, <1>5
  <2>2. new = (A \o B) \o C
    OBVIOUS
  <2> HIDE DEF new
  <2> QED
    BY ONLY <2>1, <2>2, ThreePieces
<1> HIDE DEF new, start, size, kept
<1>8. /\ new \in Seq(Values) /\ Len(new) = Len(pool) + n - size
      /\ Len(A) = start + kept /\ Len(B) = n - kept /\ Len(C) = Len(pool) - (start + size)
  BY <1>1, <1>3, <1>4, <1>5, <1>7
<1>9. ASSUME NEW i \in 1 .. start + size, i =< start + n PROVE new[i] = pool[i]
  <2>1. i \in 1 .. start + kept
    BY <1>1, <1>9
  <2> QED
    BY <2>1, <1>3, <1>7
<1>10. ASSUME NEW i \in start + size + 1 .. start + n PROVE new[i] = value
  <2> DEFINE j == i - Len(A)
  <2>1. /\ j \in 1 .. n - kept /\ j \in 1 .. Len(B) /\ i = Len(A) + j
    BY <1>1, <1>8, <1>10
  <2> HIDE DEF j
  <2> QED
    BY <2>1, <1>4, <1>7
<1>11. ASSUME NEW i \in start + size + 1 .. Len(pool) PROVE new[i + n - size] = pool[i]
  <2> DEFINE j == i - (start + size)
  <2>1. /\ j \in 1 .. Len(C) /\ j \in 1 .. Len(pool) - (start + size)
        /\ i = start + size + j /\ i + n - size = Len(A) + Len(B) + j
    BY <1>1, <1>8, <1>11
  <2> HIDE DEF j
  <2> QED
    BY <2>1, <1>5, <1>7
<1> QED
  BY <1>6, <1>8, <1>9, <1>10, <1>11 DEF new, start, size

\* The step gives v the length n, fills in value and leaves the elements of
\* all vectors as they were, wherever they have moved.
Changed(v, n, value) ==
  /\ pool' \in Seq(Values) /\ base' \in Addresses /\ capacity' \in Nat
  /\ poolStartAdress' \in Addresses \cup {NULL}
  /\ startIndexInPool' \in [Vectors -> Nat]
  /\ ptrData' \in [Vectors -> (Addresses \X Nat) \cup {NULL}]
  /\ dataSize' = [dataSize EXCEPT ![v] = n]
  /\ Handles' /\ Layout'
  /\ \A w \in Vectors : \A i \in 1 .. dataSize'[w] :
       pool'[startIndexInPool'[w] + i] =
         IF w = v /\ i > dataSize[v] THEN value ELSE pool[startIndexInPool[w] + i]

-----------------------------------------------------------------------------
(* allocData and resizeData *)

\* The new elements come at the end of the pool.
LEMMA AppendedProperties ==
  ASSUME TypeOK, NEW n \in Nat, NEW value \in Values, pool' = pool \o Fill(n, value)
  PROVE  /\ pool' \in Seq(Values)
         /\ Len(pool') = Len(pool) + n
         /\ \A i \in 1 .. Len(pool) : pool'[i] = pool[i]
         /\ \A i \in 1 .. n : pool'[Len(pool) + i] = value
<1> DEFINE s == pool  new == pool'
<1>0. s \in Seq(Values) /\ new = s \o Fill(n, value)
  BY DEF TypeOK
<1> HIDE DEF s, new
<1> DEFINE F == Fill(n, value)
<1>1. F \in Seq(Values) /\ Len(F) = n /\ \A i \in 1 .. n : F[i] = value
  BY FillProperties
<1> HIDE DEF F
<1>2. /\ new \in Seq(Values) /\ Len(new) = Len(s) + Len(F)
      /\ \A i \in 1 .. Len(s) + Len(F) : new[i] = IF i =< Len(s) THEN s[i] ELSE F[i - Len(s)]
  <2>1. F \in Seq(Values) /\ new = s \o F
    BY <1>0, <1>1 DEF F
  <2> QED
    BY ONLY ZenonT(40), <2>1, <1>0, ConcatProperties
<1>3. Len(s) \in Nat
  BY <1>0, LenProperties
<1>4. ASSUME NEW i \in 1 .. n PROVE new[Len(s) + i] = value
  <2>1. /\ Len(s) + i \in 1 .. Len(s) + Len(F) /\ ~(Len(s) + i =< Len(s))
        /\ Len(s) + i - Len(s) = i
    BY <1>1, <1>3
  <2>2. new[Len(s) + i] = F[Len(s) + i - Len(s)]
    BY ONLY <2>1, <1>2
  <2>3. F[i] = value
    BY <1>1
  <2> QED
    BY ONLY <2>1, <2>2, <2>3
<1> QED
  BY <1>1, <1>2, <1>3, <1>4 DEF s, new

\* Elements are known by where their vector starts.
LEMMA Bounds ==
  ASSUME Inv
  PROVE  /\ \A v \in Vectors : startIndexInPool[v] \in Nat /\ dataSize[v] \in Nat
         /\ Len(pool) \in Nat /\ nextCbVectorStartIndexInPool \in Nat
         /\ \A a \in Addresses, i \in Nat : <<a, i>> \in Addresses \X Nat /\ <<a, i>> # NULL
BY LenProperties, PoolAssumption DEF Inv, TypeOK

\* Only vectors in the map have elements.
LEMMA MappedAttached ==
  ASSUME Inv
  PROVE  Mapped = attached /\ \A v \in Vectors : dataSize[v] > 0 => v \in Mapped
<1>1. /\ \A v \in attached : KeyOf[v] \in DOMAIN cbVectorMap /\ cbVectorMap[KeyOf[v]] = v
      /\ \A v \in Vectors \ attached : dataSize[v] = 0
      /\ \A k \in DOMAIN cbVectorMap : cbVectorMap[k] \in attached
  BY DEF Inv, Registered, KeyIsKnown
<1>2. Mapped = attached
  BY <1>1 DEF Mapped
<1> QED
  BY <1>1, <1>2, Bounds

\* Every vector fits into the pool.
LEMMA FitsIn ==
  ASSUME Inv, NEW v \in Vectors
  PROVE  startIndexInPool[v] + dataSize[v] =< Len(pool)
BY DEF Inv, Layout

\* The memory holds the elements it is given.
LEMMA OccupyProperties ==
  ASSUME Inv, NEW s \in Seq(Values), Occupy(s)
  PROVE  pool' = s /\ base' \in Addresses /\ capacity' \in Nat
BY LenProperties, PoolAssumption DEF Occupy, Inv, TypeOK

\* allocData puts a vector without elements at the end of the pool.
LEMMA AllocDataChanges ==
  ASSUME Inv, NEW v \in Vectors, dataSize[v] = 0, NEW n \in Nat, NEW value \in Values,
         AllocData(v, n, value)
  PROVE  Changed(v, n, value)
<1> USE DEF Changed
<1>1. CASE n = 0
  <2>1. dataSize' = dataSize
    BY <1>1 DEF AllocData, Inv, TypeOK
  <2>2. UNCHANGED <<pool, base, capacity, poolStartAdress, nextCbVectorStartIndexInPool,
                    startIndexInPool, ptrData>>
    BY <1>1 DEF AllocData, memory
  <2>3. Handles' /\ Layout'
    BY <2>1, <2>2 DEF Inv, Handles, Layout, Apart
  <2> QED
    BY <1>1, <2>1, <2>2, <2>3, Bounds DEF Inv, TypeOK
<1>2. CASE n > 0
  <2> DEFINE start == nextCbVectorStartIndexInPool
             ptr == IF poolStartAdress # base' THEN RenewPointers ELSE ptrData
  <2>1. /\ Occupy(pool \o Fill(n, value)) /\ poolStartAdress' = base'
        /\ ptrData' = [ptr EXCEPT ![v] = <<base', start>>]
        /\ startIndexInPool' = [startIndexInPool EXCEPT ![v] = start]
        /\ nextCbVectorStartIndexInPool' = start + n
        /\ dataSize' = [dataSize EXCEPT ![v] = n]
    BY <1>2 DEF AllocData
  <2>2. start = Len(pool) /\ start \in Nat /\ pool \in Seq(Values)
    BY Bounds DEF Inv, Layout, TypeOK
  <2>3. /\ pool \o Fill(n, value) \in Seq(Values)
        /\ pool' = pool \o Fill(n, value)
    <3>1. Fill(n, value) \in Seq(Values)
      BY FillProperties
    <3>2. pool \o Fill(n, value) \in Seq(Values)
      BY <2>2, <3>1, ConcatProperties
    <3> HIDE DEF start, ptr
    <3> QED
      BY <2>1, <3>2, OccupyProperties
  <2>4. /\ Len(pool') = Len(pool) + n
        /\ \A i \in 1 .. Len(pool) : pool'[i] = pool[i]
        /\ \A i \in 1 .. n : pool'[Len(pool) + i] = value
    BY <2>3, AppendedProperties DEF Inv
  <2>5. base' \in Addresses /\ capacity' \in Nat
    BY <2>1, <2>3, OccupyProperties
  <2>6. /\ ptr \in [Vectors -> (Addresses \X Nat) \cup {NULL}]
        /\ \A w \in Vectors : dataSize[w] = 0 => ptr[w] = NULL
        /\ \A w \in Vectors : dataSize[w] > 0 => ptr[w] = <<base', startIndexInPool[w]>>
    <3>1. ASSUME NEW w \in Vectors, dataSize[w] > 0
          PROVE  w \in Mapped /\ ptrData[w] = <<base, startIndexInPool[w]>> /\ ptrData[w] # NULL
                 /\ poolStartAdress = base
      <4>1. Len(pool) > 0
        BY <3>1, Bounds, FitsIn
      <4>2. pool # <<>>
        BY <4>1
      <4>3. ptrData[w] = <<base, startIndexInPool[w]>>
        BY <3>1 DEF Inv, Handles
      <4>4. base \in Addresses /\ poolStartAdress = base
        BY <4>2 DEF Inv, Layout, TypeOK
      <4> QED
        BY <3>1, <4>3, <4>4, Bounds, MappedAttached
    <3> QED
      BY <3>1, <2>5, Bounds DEF RenewPointers, Inv, Handles, TypeOK
  <2> HIDE DEF ptr, start
  <2>7. /\ startIndexInPool' \in [Vectors -> Nat]
        /\ ptrData' \in [Vectors -> (Addresses \X Nat) \cup {NULL}]
        /\ dataSize' \in [Vectors -> Nat]
    BY <2>1, <2>2, <2>5, <2>6, Bounds DEF Inv, TypeOK
  <2>8. /\ dataSize'[v] = n /\ startIndexInPool'[v] = Len(pool) /\ ptrData'[v] = <<base', Len(pool)>>
        /\ \A w \in Vectors \ {v} :
             /\ dataSize'[w] = dataSize[w] /\ startIndexInPool'[w] = startIndexInPool[w]
             /\ ptrData'[w] = ptr[w]
    BY <2>1, <2>2, <2>6, <2>7 DEF Inv, TypeOK
  <2>9. Handles'
    BY <1>2, <2>6, <2>8, Bounds DEF Inv, Handles
  <2>10. Layout'
    <3>1. nextCbVectorStartIndexInPool' = Len(pool')
      BY <2>1, <2>2, <2>4
    <3>2. \A w \in Vectors : startIndexInPool'[w] + dataSize'[w] =< Len(pool')
      <4> TAKE w \in Vectors
      <4> QED
        BY <2>4, <2>8, Bounds, FitsIn
    <3>3. \A u, w \in Vectors : u # w /\ dataSize'[u] > 0 /\ dataSize'[w] > 0 => Apart(u, w)'
      BY <2>8, Bounds DEF Inv, Layout, Apart
    <3>4. ASSUME NEW i \in 1 .. Len(pool')
          PROVE  \E w \in Vectors : startIndexInPool'[w] < i /\ i =< startIndexInPool'[w] + dataSize'[w]
      <4>1. CASE i =< Len(pool)
        <5>1. PICK w \in Vectors : startIndexInPool[w] < i /\ i =< startIndexInPool[w] + dataSize[w]
          BY <4>1, <2>4, Bounds DEF Inv, Layout
        <5>2. w # v
          BY <5>1, Bounds
        <5> QED
          BY <5>1, <5>2, <2>8
      <4>2. CASE i > Len(pool)
        BY <4>2, <2>4, <2>8, Bounds
      <4> QED
        BY <4>1, <4>2, <2>4, Bounds
    <3> QED
      BY <2>1, <3>1, <3>2, <3>3, <3>4 DEF Layout
  <2>11. ASSUME NEW w \in Vectors, NEW i \in 1 .. dataSize'[w]
         PROVE  pool'[startIndexInPool'[w] + i] =
                  IF w = v /\ i > dataSize[v] THEN value ELSE pool[startIndexInPool[w] + i]
    <3>1. CASE w = v
      <4>1. i \in 1 .. n /\ i > dataSize[v]
        BY <3>1, <2>8
      <4> QED
        BY <3>1, <4>1, <2>4, <2>8
    <3>2. CASE w # v
      <4>1. startIndexInPool[w] + i \in 1 .. Len(pool) /\ startIndexInPool'[w] = startIndexInPool[w]
        BY <3>2, <2>8, Bounds, FitsIn
      <4> QED
        BY <3>2, <4>1, <2>4
    <3> QED
      BY <3>1, <3>2
  <2> QED
    BY <2>1, <2>3, <2>5, <2>7, <2>9, <2>10, <2>11
<1> QED
  BY <1>1, <1>2

\* resizeData lengthens or shortens v where it lies and shifts what lies
\* behind; map is the map it walks through, which knows all other vectors that
\* have elements.
LEMMA ResizeDataChanges ==
  ASSUME Inv, NEW v \in Vectors, NEW n \in Nat, NEW value \in Values, NEW map,
         \A w \in Vectors : dataSize[w] > 0 /\ (w # v \/ n > 0) => w \in { map[k] : k \in DOMAIN map },
         dataSize[v] > 0 \/ n = 0,
         ResizeData(v, n, value, map)
  PROVE  Changed(v, n, value)
<1> DEFINE size  == dataSize[v]
           first == startIndexInPool[v]
           inMap == { map[k] : k \in DOMAIN map }
           P     == Spliced(v, n, value)
<1>1. /\ P \in Seq(Values)
      /\ Len(P) = Len(pool) + n - size
      /\ \A i \in 1 .. first + size : i =< first + n => P[i] = pool[i]
      /\ \A i \in first + size + 1 .. first + n : P[i] = value
      /\ \A i \in first + size + 1 .. Len(pool) : P[i + n - size] = pool[i]
  BY SplicedProperties, FitsIn DEF Inv
<1> HIDE DEF P
<1>2. pool' = P /\ base' \in Addresses /\ capacity' \in Nat
  <2>1. Occupy(P)
    BY DEF ResizeData, P
  <2> QED
    BY ONLY <2>1, <1>1, Inv, OccupyProperties
<1>3. nextCbVectorStartIndexInPool' = Len(pool') /\ dataSize' = [dataSize EXCEPT ![v] = n]
  BY DEF ResizeData
<1>4. /\ dataSize' \in [Vectors -> Nat] /\ dataSize'[v] = n
      /\ \A w \in Vectors \ {v} : dataSize'[w] = dataSize[w]
  BY <1>3 DEF Inv, TypeOK
<1>5. /\ first \in Nat /\ size \in Nat /\ Len(pool) \in Nat /\ first + size =< Len(pool)
      /\ n > 0 => size > 0
  BY Bounds, FitsIn
<1>6. \A w \in Vectors : dataSize[w] > 0 => pool # <<>> /\ poolStartAdress = base
  <2> TAKE w \in Vectors
  <2>1. dataSize[w] > 0 => Len(pool) > 0
    BY Bounds, FitsIn
  <2>2. dataSize[w] > 0 => pool # <<>>
    BY <2>1
  <2> QED
    BY <2>2 DEF Inv, Layout
\* Where the vectors are afterwards.
<1> DEFINE Behind(w) == w # v /\ dataSize[w] > 0 /\ startIndexInPool[w] > first
           Place(w)  == IF Behind(w) THEN startIndexInPool[w] + n - size ELSE startIndexInPool[w]
<1>7. ASSUME NEW w \in Vectors, w # v, dataSize[w] > 0
      PROVE  /\ Behind(w) => size = 0 \/ first + size =< startIndexInPool[w]
             /\ ~Behind(w) => size = 0 \/ startIndexInPool[w] + dataSize[w] =< first
             /\ size = 0 => n = 0
             /\ Place(w) \in Nat /\ Place(w) + dataSize[w] =< Len(P)
  <2>1. size > 0 => Apart(v, w)
    BY <1>7, Bounds DEF Inv, Layout
  <2>2. startIndexInPool[w] \in Nat /\ dataSize[w] \in Nat /\ startIndexInPool[w] + dataSize[w] =< Len(pool)
    BY Bounds, FitsIn
  <2> HIDE DEF size, first
  <2>3. size > 0 => first + size =< startIndexInPool[w] \/ startIndexInPool[w] + dataSize[w] =< first
    BY <2>1 DEF Apart, size, first
  <2> QED
    BY SMTT(30), <1>1, <1>5, <1>7, <2>2, <2>3
<1>8. /\ poolStartAdress' \in Addresses \cup {NULL}
      /\ P # <<>> => poolStartAdress' = base'
      /\ startIndexInPool' \in [Vectors -> Nat]
      /\ ptrData' \in [Vectors -> (Addresses \X Nat) \cup {NULL}]
      /\ \A w \in Vectors : dataSize'[w] > 0 => startIndexInPool'[w] = Place(w)
      /\ Handles'
  <2>1. CASE P # <<>>
    <3> DEFINE moved == poolStartAdress # base'
               shift == { w \in inMap : dataSize[w] > 0 /\ LiesBehind(w, v) }
               renew == shift \cup { w \in inMap : dataSize[w] > 0 /\ moved }
               start == [w \in Vectors |-> IF w \in shift
                           THEN startIndexInPool[w] + n - dataSize[v] ELSE startIndexInPool[w]]
               ptr   == [w \in Vectors |-> IF w \in renew THEN <<base', start[w]>> ELSE ptrData[w]]
    <3>1. /\ poolStartAdress' = base'
          /\ startIndexInPool' = IF n = 0 THEN [start EXCEPT ![v] = 0] ELSE start
          /\ ptrData' = IF n = 0 THEN [ptr EXCEPT ![v] = NULL] ELSE ptr
      BY <2>1, <1>2 DEF ResizeData
    <3>2. \A w \in Vectors : w \in shift <=> Behind(w)
      BY <1>5, Bounds DEF LiesBehind
    <3>3. ASSUME NEW w \in Vectors, dataSize'[w] > 0
          PROVE  /\ start[w] = Place(w) /\ start[w] \in Nat
                 /\ ptr[w] = <<base', start[w]>>
      <4>1. dataSize[w] > 0
        BY <3>3, <1>4, <1>5
      <4>2. ptrData[w] = <<base, startIndexInPool[w]>> /\ w \in inMap
        BY <3>3, <4>1, <1>4 DEF Inv, Handles
      <4>3. start[w] = Place(w) /\ start[w] \in Nat
        BY <3>2, <4>1, <1>7, Bounds
      <4>4. CASE w \in renew
        BY <4>3, <4>4
      <4>5. CASE w \notin renew
        <5>1. base' = base /\ w \notin shift
          BY <4>1, <4>2, <4>5, <1>6
        <5> QED
          BY <4>2, <4>3, <4>5, <5>1
      <4> QED
        BY <4>3, <4>4, <4>5
    <3>4. ASSUME NEW w \in Vectors, dataSize'[w] = 0
          PROVE  startIndexInPool'[w] = 0 /\ ptrData'[w] = NULL
      <4>1. CASE w = v
        BY <4>1, <3>1, <3>4, <1>4
      <4>2. CASE w # v
        <5>1. dataSize[w] = 0
          BY <4>2, <3>4, <1>4
        <5>2. startIndexInPool[w] = 0 /\ ptrData[w] = NULL /\ w \notin renew
          BY <5>1 DEF Inv, Handles
        <5>3. startIndexInPool'[w] = start[w] /\ ptrData'[w] = ptr[w]
          BY <4>2, <3>1
        <5> QED
          BY <5>2, <5>3
      <4> QED
        BY <4>1, <4>2
    <3> HIDE DEF start, ptr
    <3>5. ASSUME NEW w \in Vectors, dataSize'[w] > 0
          PROVE  /\ startIndexInPool'[w] = Place(w) /\ startIndexInPool'[w] \in Nat
                 /\ ptrData'[w] = <<base', startIndexInPool'[w]>>
      <4>1. w # v \/ n # 0
        BY <3>5, <1>4
      <4>2. startIndexInPool'[w] = start[w] /\ ptrData'[w] = ptr[w]
        BY <4>1, <3>1 DEF start, ptr
      <4> QED
        BY <3>3, <3>5, <4>2
    <3>6. /\ DOMAIN startIndexInPool' = Vectors /\ startIndexInPool' = [w \in Vectors |-> startIndexInPool'[w]]
          /\ DOMAIN ptrData' = Vectors /\ ptrData' = [w \in Vectors |-> ptrData'[w]]
      BY <3>1 DEF start, ptr
    <3>7. \A w \in Vectors : dataSize'[w] = 0 \/ dataSize'[w] > 0
      BY <1>4
    <3> HIDE DEF Place, Behind
    <3>8. Handles'
      BY <3>4, <3>5, <3>7 DEF Handles
    <3>9. \A w \in Vectors :
            /\ startIndexInPool'[w] \in Nat
            /\ ptrData'[w] \in (Addresses \X Nat) \cup {NULL}
      BY <3>4, <3>5, <3>7, <1>2
    <3> QED
      BY <1>2, <3>1, <3>5, <3>6, <3>8, <3>9
  <2>2. CASE P = <<>>
    <3>1. Len(P) = 0
      BY <2>2
    <3>2. n = 0 /\ size = Len(pool)
      <4>1. Len(pool) + n - size = 0
        BY <3>1, <1>1
      <4> HIDE DEF size, first
      <4> QED
        BY <4>1, <1>5
    <3>3. \A w \in Vectors : dataSize'[w] = 0
      <4> TAKE w \in Vectors
      <4>1. CASE w = v
        BY <4>1, <3>2, <1>4
      <4>2. CASE w # v
        BY <4>2, <3>1, <1>4, <1>7, Bounds
      <4> QED
        BY <4>1, <4>2
    <3>4. /\ poolStartAdress' = NULL
          /\ startIndexInPool' = [w \in Vectors |-> IF w \in inMap \cup {v} THEN 0
                                                    ELSE startIndexInPool[w]]
          /\ ptrData' = [ptrData EXCEPT ![v] = NULL]
      BY <2>2, <1>2 DEF ResizeData
    <3>5. \A w \in Vectors : startIndexInPool'[w] = 0 /\ ptrData'[w] = NULL
      <4> TAKE w \in Vectors
      <4>1. CASE w = v
        BY <4>1, <3>4 DEF Inv, TypeOK
      <4>2. CASE w # v
        BY <4>2, <3>3, <3>4, <1>4 DEF Inv, TypeOK, Handles
      <4> QED
        BY <4>1, <4>2
    <3> QED
      BY <2>2, <3>3, <3>4, <3>5, Bounds DEF Handles, Inv, TypeOK
  <2> QED
    BY <2>1, <2>2
<1>9. \A w \in Vectors : dataSize'[w] = 0 => startIndexInPool'[w] = 0
  BY <1>8 DEF Handles
<1>10. Place(v) = first
  OBVIOUS
<1> HIDE DEF Place, Behind, size, first
<1>11. \A w \in Vectors : startIndexInPool'[w] + dataSize'[w] =< Len(pool')
  <2> TAKE w \in Vectors
  <2>1. CASE dataSize'[w] = 0
    BY <2>1, <1>9, <1>1, <1>2, LenProperties
  <2>2. CASE dataSize'[w] > 0 /\ w = v
    BY SMTT(30), <2>2, <1>1, <1>2, <1>4, <1>5, <1>8, <1>10
  <2>3. CASE dataSize'[w] > 0 /\ w # v
    BY <2>3, <1>2, <1>4, <1>7, <1>8
  <2> QED
    BY <2>1, <2>2, <2>3, <1>4
<1>12. ASSUME NEW u \in Vectors, NEW w \in Vectors, u # w, dataSize'[u] > 0, dataSize'[w] > 0
       PROVE  \/ startIndexInPool'[u] + dataSize'[u] =< startIndexInPool'[w]
              \/ startIndexInPool'[w] + dataSize'[w] =< startIndexInPool'[u]
  <2>1. startIndexInPool'[u] = Place(u) /\ startIndexInPool'[w] = Place(w)
    BY <1>8, <1>12
  <2>2. ASSUME NEW x \in Vectors, x # v, dataSize'[x] > 0, dataSize'[v] > 0
        PROVE  first + n =< Place(x) \/ Place(x) + dataSize'[x] =< first
    <3>1. /\ n > 0 /\ size > 0 /\ dataSize'[x] = dataSize[x] /\ dataSize[x] > 0
          /\ startIndexInPool[x] \in Nat
      BY <2>2, <1>4, <1>5, Bounds
    <3>2. CASE Behind(x)
      BY <3>1, <3>2, <1>5, <1>7, <2>2 DEF Place
    <3>3. CASE ~Behind(x)
      BY <3>1, <3>3, <1>5, <1>7, <2>2 DEF Place
    <3> QED
      BY <3>2, <3>3
  <2>3. CASE u = v
    BY <2>1, <2>2, <2>3, <1>4, <1>10, <1>12
  <2>4. CASE w = v
    BY <2>1, <2>2, <2>4, <1>4, <1>10, <1>12
  <2>5. CASE u # v /\ w # v
    <3>1. /\ dataSize'[u] = dataSize[u] /\ dataSize'[w] = dataSize[w]
          /\ dataSize[u] > 0 /\ dataSize[w] > 0
      BY <2>5, <1>4, <1>12
    <3>2. Apart(u, w)
      BY <3>1, <1>12 DEF Inv, Layout
    <3>3. /\ startIndexInPool[u] \in Nat /\ startIndexInPool[w] \in Nat
          /\ dataSize[u] \in Nat /\ dataSize[w] \in Nat
      BY Bounds
    <3>4. Place(u) + dataSize[u] =< Place(w) \/ Place(w) + dataSize[w] =< Place(u)
      <4>1. /\ Behind(u) => size = 0 \/ first + size =< startIndexInPool[u]
            /\ ~Behind(u) => size = 0 \/ startIndexInPool[u] + dataSize[u] =< first
            /\ Behind(w) => size = 0 \/ first + size =< startIndexInPool[w]
            /\ ~Behind(w) => size = 0 \/ startIndexInPool[w] + dataSize[w] =< first
        BY <2>5, <3>1, <1>7
      <4> QED
        BY SMTT(30), <3>2, <3>3, <4>1, <1>5 DEF Place, Apart
    <3> QED
      BY <2>1, <3>1, <3>4
  <2> QED
    BY <2>3, <2>4, <2>5
<1>13. ASSUME NEW i \in 1 .. Len(pool')
       PROVE  \E w \in Vectors : startIndexInPool'[w] < i /\ i =< startIndexInPool'[w] + dataSize'[w]
  <2>0. i \in Nat /\ i > 0 /\ i =< Len(pool) + n - size
    BY <1>1, <1>2, <1>13
  \* An old element at place j that is not v's belongs to w, and w is now here.
  <2>1. ASSUME NEW j \in 1 .. Len(pool),
               \/ j =< first /\ j = i
               \/ j > first + size /\ i = j + n - size
        PROVE  \E w \in Vectors : startIndexInPool'[w] < i /\ i =< startIndexInPool'[w] + dataSize'[w]
    <3>1. PICK w \in Vectors : startIndexInPool[w] < j /\ j =< startIndexInPool[w] + dataSize[w]
      BY DEF Inv, Layout
    <3>2. startIndexInPool[w] \in Nat /\ dataSize[w] \in Nat /\ dataSize[w] > 0
      BY <3>1, Bounds
    <3>3. w # v
      BY <2>1, <3>1, <1>5 DEF first, size
    <3>4. dataSize'[w] = dataSize[w] /\ startIndexInPool'[w] = Place(w)
      BY <3>2, <3>3, <1>4, <1>8
    <3>5. Place(w) < i /\ i =< Place(w) + dataSize[w]
      <4>1. /\ Behind(w) => size = 0 \/ first + size =< startIndexInPool[w]
            /\ ~Behind(w) => size = 0 \/ startIndexInPool[w] + dataSize[w] =< first
        BY <3>2, <3>3, <1>7
      <4> QED
        BY <2>1, <3>1, <3>2, <4>1, <1>5 DEF Place
    <3> QED
      BY <3>4, <3>5
  <2>2. CASE i =< first
    BY <2>0, <2>1, <2>2, <1>5
  <2>3. CASE first < i /\ i =< first + n
    <3>1. dataSize'[v] > 0 /\ startIndexInPool'[v] = first
      BY <2>0, <2>3, <1>4, <1>5, <1>8, <1>10
    <3> QED
      BY <2>3, <3>1, <1>4
  <2>4. CASE first + n < i
    <3> DEFINE j == i - n + size
    <3>1. j \in 1 .. Len(pool) /\ j > first + size /\ i = j + n - size
      BY <2>0, <2>4, <1>5
    <3> HIDE DEF j
    <3> QED
      BY <2>1, <3>1
  <2> QED
    BY <2>0, <2>2, <2>3, <2>4, <1>5
<1>14. P # <<>> => poolStartAdress' = base'
  BY <1>8
<1>15. Layout'
  BY <1>2, <1>3, <1>11, <1>12, <1>13, <1>14 DEF Layout, Apart
<1>16. ASSUME NEW w \in Vectors, NEW i \in 1 .. dataSize'[w]
       PROVE  pool'[startIndexInPool'[w] + i] =
                IF w = v /\ i > size THEN value ELSE pool[startIndexInPool[w] + i]
  <2>1. dataSize'[w] > 0 /\ startIndexInPool'[w] = Place(w) /\ i \in Nat /\ i > 0 /\ i =< dataSize'[w]
    BY <1>4, <1>8, <1>16
  <2>2. CASE w = v
    <3>1. startIndexInPool'[w] = first /\ startIndexInPool[w] = first /\ i =< n
      BY <2>1, <2>2, <1>4, <1>10 DEF first
    <3>2. CASE i =< size
      <4>1. first + i \in 1 .. first + size /\ first + i =< first + n
        BY <2>1, <3>1, <3>2, <1>5
      <4> QED
        BY <2>2, <3>1, <3>2, <4>1, <1>1, <1>2, <1>5
    <3>3. CASE i > size
      <4>1. first + i \in first + size + 1 .. first + n
        BY <2>1, <3>1, <3>3, <1>5
      <4> QED
        BY <2>2, <3>1, <3>3, <4>1, <1>1, <1>2
    <3> QED
      BY <2>1, <3>2, <3>3, <1>5
  <2>3. CASE w # v
    <3>1. /\ dataSize'[w] = dataSize[w] /\ dataSize[w] > 0
          /\ startIndexInPool[w] \in Nat /\ dataSize[w] \in Nat
          /\ startIndexInPool[w] + dataSize[w] =< Len(pool)
      BY <2>1, <2>3, <1>4, Bounds, FitsIn
    <3> DEFINE j == startIndexInPool[w] + i
    <3>2. j \in 1 .. Len(pool)
      BY <2>1, <3>1, Bounds
    <3>3. CASE Behind(w)
      <4>1. Place(w) + i = j + n - size
        BY <2>1, <3>1, <3>3, <1>5 DEF Place
      <4>2. j \in first + size + 1 .. Len(pool)
        <5>1. first < startIndexInPool[w] /\ (size = 0 \/ first + size =< startIndexInPool[w])
          BY <2>3, <3>1, <3>3, <1>7 DEF Behind
        <5> QED
          BY <2>1, <3>1, <3>2, <5>1, <1>5
      <4> HIDE DEF j
      <4>3. P[j + n - size] = pool[j]
        BY <4>2, <1>1
      <4> QED
        BY <2>1, <2>3, <4>1, <4>3, <1>2 DEF j
    <3>4. CASE ~Behind(w)
      <4>1. Place(w) + i = j
        BY <3>4 DEF Place
      <4>2. size = 0 \/ j =< first
        <5>1. size = 0 \/ startIndexInPool[w] + dataSize[w] =< first
          BY <2>3, <3>1, <3>4, <1>7
        <5> QED
          BY <2>1, <3>1, <5>1, <1>5
      <4> HIDE DEF j
      <4>3. P[j] = pool[j]
        <5>1. CASE j =< first
          <6>1. j \in 1 .. first + size /\ j =< first + n
            BY <5>1, <3>2, <1>5
          <6> QED
            BY <6>1, <1>1
        <5>2. CASE size = 0 /\ j > first
          <6>1. j \in first + size + 1 .. Len(pool) /\ j + n - size = j
            BY <5>2, <3>2, <1>5
          <6> QED
            BY <6>1, <1>1
        <5> QED
          BY <4>2, <5>1, <5>2, <3>2, <1>5
      <4> QED
        BY <2>1, <2>3, <4>1, <4>3, <1>2 DEF j
    <3> QED
      BY <3>3, <3>4
  <2> QED
    BY <2>2, <2>3
<1> QED
  BY <1>1, <1>2, <1>3, <1>8, <1>15, <1>16 DEF Changed, size

-----------------------------------------------------------------------------
(* What the vectors see *)

Contents == [v \in Vectors |-> [i \in 1 .. dataSize[v] |-> Element(v, i)]]

\* A vector reads its elements where it lies in the pool.
LEMMA ElementInPlace ==
  ASSUME Inv, NEW v \in Vectors, NEW i \in 1 .. dataSize[v]
  PROVE  /\ Element(v, i) = pool[startIndexInPool[v] + i]
         /\ startIndexInPool[v] + i \in 1 .. Len(pool)
         /\ ptrData[v] = <<base, startIndexInPool[v]>>
<1>1. startIndexInPool[v] \in Nat /\ dataSize[v] \in Nat /\ startIndexInPool[v] + dataSize[v] =< Len(pool)
  BY Bounds, FitsIn
<1>2. startIndexInPool[v] + i \in 1 .. Len(pool)
  BY <1>1, Bounds
<1>3. ptrData[v] = <<base, startIndexInPool[v]>>
  BY <1>1 DEF Inv, Handles
<1>4. ptrData[v] # NULL
  BY <1>1, <1>3, Bounds DEF Inv, TypeOK
<1>5. DOMAIN pool = 1 .. Len(pool)
  BY LenProperties DEF Inv, TypeOK
<1> QED
  BY <1>2, <1>3, <1>4, <1>5 DEF Element

\* The same in the next state.
LEMMA ElementInPlaceNext ==
  ASSUME Inv', NEW v \in Vectors, NEW i \in 1 .. dataSize'[v]
  PROVE  Element(v, i)' = pool'[startIndexInPool'[v] + i]
<1>1. startIndexInPool'[v] \in Nat /\ dataSize'[v] \in Nat /\ startIndexInPool'[v] + dataSize'[v] =< Len(pool')
  BY DEF Inv, TypeOK, Layout
<1>2. pool' \in Seq(Values) /\ base' \in Addresses
  BY DEF Inv, TypeOK
<1>3. DOMAIN pool' = 1 .. Len(pool') /\ Len(pool') \in Nat
  BY ONLY <1>2, LenProperties
<1>4. startIndexInPool'[v] + i \in 1 .. Len(pool')
  BY <1>1, <1>3
<1>5. ptrData'[v] = <<base', startIndexInPool'[v]>>
  BY <1>1 DEF Inv, Handles
<1>6. ptrData'[v] # NULL
  BY <1>1, <1>2, <1>5, PoolAssumption
<1> QED
  BY <1>3, <1>4, <1>5, <1>6 DEF Element

\* A step that changes the length of v changes what v sees, and no other
\* vector sees a change.
LEMMA ChangedContents ==
  ASSUME Inv, Inv', NEW v \in Vectors, NEW n \in Nat, NEW value \in Values, Changed(v, n, value)
  PROVE  Contents' = [Contents EXCEPT ![v] = Independent!Resized(@, n, value)]
<1>1. /\ dataSize'[v] = n
      /\ \A w \in Vectors \ {v} : dataSize'[w] = dataSize[w]
  BY DEF Changed, Inv, TypeOK
<1>2. ASSUME NEW w \in Vectors, NEW i \in 1 .. dataSize'[w]
      PROVE  /\ Element(w, i)' = pool'[startIndexInPool'[w] + i]
             /\ pool'[startIndexInPool'[w] + i] =
                  IF w = v /\ i > dataSize[v] THEN value ELSE pool[startIndexInPool[w] + i]
             /\ ~(w = v /\ i > dataSize[v]) =>
                  i \in 1 .. dataSize[w] /\ Element(w, i) = pool[startIndexInPool[w] + i]
  <2>1. Element(w, i)' = pool'[startIndexInPool'[w] + i]
    BY ElementInPlaceNext
  <2>2. ~(w = v /\ i > dataSize[v]) => i \in 1 .. dataSize[w]
    BY <1>1, Bounds
  <2> QED
    BY <2>1, <2>2, ElementInPlace DEF Changed
<1>3. ASSUME NEW w \in Vectors, w # v PROVE Contents'[w] = Contents[w]
  BY <1>1, <1>2, <1>3 DEF Contents
<1>4. Contents'[v] = Independent!Resized(Contents[v], n, value)
  <2>1. ASSUME NEW i \in 1 .. n
        PROVE  Element(v, i)' = IF i \in DOMAIN Contents[v] THEN Contents[v][i] ELSE value
    <3>1. DOMAIN Contents[v] = 1 .. dataSize[v] /\ dataSize[v] \in Nat
      BY Bounds DEF Contents
    <3>2. i \in DOMAIN Contents[v] => Contents[v][i] = Element(v, i)
      BY DEF Contents
    <3> QED
      BY <1>1, <1>2, <3>1, <3>2
  <2> QED
    BY <1>1, <2>1 DEF Contents, Independent!Resized
<1>5. Contents' = [w \in Vectors |-> Contents'[w]] /\ Contents = [w \in Vectors |-> Contents[w]]
  BY DEF Contents
<1> QED
  BY <1>3, <1>4, <1>5

-----------------------------------------------------------------------------
(* The steps *)

\* Types of what Changed leaves open.
LEMMA ChangedInv ==
  ASSUME Inv, NEW v \in Vectors, NEW n \in Nat, NEW value \in Values, Changed(v, n, value),
         Registered', DOMAIN cbVectorMap' \subseteq Keys, Mapped' \subseteq Vectors,
         attached' \subseteq Vectors
  PROVE  Inv'
<1>1. nextCbVectorStartIndexInPool' \in Nat
  <2>1. Len(pool') \in Nat
    BY LenProperties DEF Changed
  <2> QED
    BY <2>1 DEF Changed, Layout
<1>2. dataSize' \in [Vectors -> Nat]
  BY DEF Changed, Inv, TypeOK
<1> QED
  BY <1>1, <1>2 DEF Inv, TypeOK, Changed

\* A new vector enters the map and sees nothing yet.
LEMMA CreateStep ==
  ASSUME Inv, NEW v \in Vectors, Create(v)
  PROVE  Inv' /\ Independent!Create(v)
<1>1. /\ v \notin attached /\ KeyOf[v] \notin DOMAIN cbVectorMap
      /\ AllocData(v, 0, Zero) /\ attached' = attached \cup {v}
  BY DEF Create
<1>2. dataSize[v] = 0 /\ Zero \in Values /\ 0 \in Nat
  BY <1>1, PoolAssumption DEF Inv, Registered
<1>3. Changed(v, 0, Zero)
  BY <1>1, <1>2, AllocDataChanges
<1>4. /\ DOMAIN cbVectorMap' = DOMAIN cbVectorMap \cup {KeyOf[v]}
      /\ cbVectorMap'[KeyOf[v]] = v
      /\ \A k \in DOMAIN cbVectorMap : cbVectorMap'[k] = cbVectorMap[k]
  BY <1>1 DEF AllocData
<1>5. Registered' /\ DOMAIN cbVectorMap' \subseteq Keys /\ Mapped' \subseteq Vectors /\ attached' \subseteq Vectors
  <2>1. \A w \in Vectors : dataSize'[w] = dataSize[w]
    BY <1>2, <1>3 DEF Changed, Inv, TypeOK
  <2>2. \A k \in DOMAIN cbVectorMap : cbVectorMap[k] \in attached /\ KeyOf[cbVectorMap[k]] = k
    BY DEF Inv, Registered
  <2>3. \A w \in attached : KeyOf[w] \in DOMAIN cbVectorMap /\ cbVectorMap[KeyOf[w]] = w
    BY DEF Inv, Registered, KeyIsKnown
  <2>4. attached \subseteq Vectors /\ DOMAIN cbVectorMap \subseteq Keys /\ KeyOf[v] \in Keys
    BY PoolAssumption DEF Inv, TypeOK
  <2>5. Registered'
    BY <1>1, <1>4, <2>1, <2>2, <2>3 DEF Inv, Registered, KeyIsKnown
  <2> QED
    BY <1>1, <1>4, <2>2, <2>4, <2>5 DEF Mapped
<1>6. Inv'
  BY <1>2, <1>3, <1>5, ChangedInv
<1>7. Contents' = [Contents EXCEPT ![v] = Independent!Resized(@, 0, Zero)]
  BY <1>2, <1>3, <1>6, ChangedContents
<1>8. Contents' = Contents
  BY ZenonT(40), <1>2, <1>7 DEF Independent!Resized, Contents
<1> QED
  BY <1>1, <1>6, <1>8 DEF Independent!Create, Contents

\* resize changes the one vector.
LEMMA ResizeStep ==
  ASSUME Inv, NEW v \in Vectors, NEW n \in 0 .. MaxSize, NEW value \in Values, Resize(v, n, value)
  PROVE  Inv' /\ Independent!Resize(v, n, value)
<1>1. v \in attached /\ KeyOf[v] \in DOMAIN cbVectorMap /\ attached' = attached /\ n \in Nat
  BY PoolAssumption DEF Resize
<1>2. ASSUME startIndexInPool[v] = 0 /\ ptrData[v] = NULL
      PROVE  /\ Changed(v, n, value)
             /\ DOMAIN cbVectorMap' = DOMAIN cbVectorMap
             /\ \A k \in DOMAIN cbVectorMap : cbVectorMap'[k] = cbVectorMap[k]
  <2>1. AllocData(v, n, value)
    BY <1>2 DEF Resize
  <2>2. dataSize[v] = 0
    BY <1>2, Bounds DEF Inv, Handles, TypeOK
  <2>3. Changed(v, n, value)
    BY <1>1, <2>1, <2>2, AllocDataChanges
  <2>4. /\ DOMAIN cbVectorMap' = DOMAIN cbVectorMap
        /\ \A k \in DOMAIN cbVectorMap : cbVectorMap'[k] = cbVectorMap[k]
    BY <1>1, <2>1 DEF AllocData
  <2> QED
    BY <2>3, <2>4
<1>3. ASSUME ~(startIndexInPool[v] = 0 /\ ptrData[v] = NULL)
      PROVE  /\ Changed(v, n, value)
             /\ DOMAIN cbVectorMap' = DOMAIN cbVectorMap
             /\ \A k \in DOMAIN cbVectorMap : cbVectorMap'[k] = cbVectorMap[k]
  <2>1. ResizeData(v, n, value, cbVectorMap)
    BY <1>3 DEF Resize
  <2>2. dataSize[v] > 0
    BY <1>3, Bounds DEF Inv, Handles
  <2>3. \A w \in Vectors : dataSize[w] > 0 => w \in { cbVectorMap[k] : k \in DOMAIN cbVectorMap }
    BY MappedAttached DEF Mapped
  <2>4. Changed(v, n, value)
    BY <1>1, <2>1, <2>2, <2>3, ResizeDataChanges
  <2>5. cbVectorMap' = cbVectorMap
    BY <2>1 DEF ResizeData
  <2> QED
    BY <2>4, <2>5
<1>4. /\ Changed(v, n, value)
      /\ DOMAIN cbVectorMap' = DOMAIN cbVectorMap
      /\ \A k \in DOMAIN cbVectorMap : cbVectorMap'[k] = cbVectorMap[k]
  BY <1>2, <1>3
<1>5. Mapped' = Mapped
  BY <1>4 DEF Mapped
<1>6. Registered'
  <2>1. \A w \in Vectors \ attached : dataSize'[w] = dataSize[w]
    BY <1>1, <1>4 DEF Changed, Inv, TypeOK
  <2> QED
    BY <1>1, <1>4, <2>1 DEF Inv, Registered, KeyIsKnown
<1>7. Inv'
  BY <1>1, <1>4, <1>5, <1>6, ChangedInv DEF Inv, TypeOK
<1>8. Contents' = [Contents EXCEPT ![v] = Independent!Resized(@, n, value)]
  BY <1>1, <1>4, <1>7, ChangedContents
<1> QED
  BY <1>1, <1>7, <1>8 DEF Independent!Resize, Contents

\* A vector writes into its own elements.
LEMMA WriteStep ==
  ASSUME Inv, NEW v \in Vectors, NEW i \in 1 .. dataSize[v], NEW value \in Values, Write(v, i, value)
  PROVE  Inv' /\ Independent!Write(v, i, value)
<1>1. /\ startIndexInPool[v] + i \in 1 .. Len(pool) /\ ptrData[v] = <<base, startIndexInPool[v]>>
      /\ pool \in Seq(Values) /\ DOMAIN pool = 1 .. Len(pool)
  BY ElementInPlace, LenProperties DEF Inv, TypeOK
<1>2. pool' = [pool EXCEPT ![startIndexInPool[v] + i] = value]
  BY <1>1 DEF Write
<1>3. pool' \in Seq(Values) /\ Len(pool') = Len(pool)
  BY ONLY <1>1, <1>2, value \in Values, ExceptSeq
<1>4. /\ UNCHANGED <<base, capacity, poolStartAdress, nextCbVectorStartIndexInPool, cbVectorMap,
                    attached, startIndexInPool, ptrData, dataSize>>
      /\ v \in attached
  BY DEF Write, books, handles
<1>5. Inv'
  <2>1. TypeOK'
    BY <1>3, <1>4 DEF Inv, TypeOK, Mapped
  <2>2. Registered' /\ Handles'
    BY <1>4 DEF Inv, Registered, Handles, KeyIsKnown
  <2>3. pool' # <<>> => pool # <<>>
    BY <1>1, <1>3
  <2>4. Layout'
    BY <1>3, <1>4, <2>3 DEF Inv, Layout, Apart
  <2> QED
    BY <2>1, <2>2, <2>4 DEF Inv
<1>6. ASSUME NEW w \in Vectors, NEW j \in 1 .. dataSize[w]
      PROVE  Element(w, j)' = IF w = v /\ j = i THEN value ELSE Element(w, j)
  <2>1. Element(w, j)' = pool'[startIndexInPool[w] + j]
    BY <1>4, <1>5, ElementInPlaceNext
  <2>2. Element(w, j) = pool[startIndexInPool[w] + j] /\ startIndexInPool[w] + j \in 1 .. Len(pool)
    BY ElementInPlace
  <2>3. /\ startIndexInPool[v] \in Nat /\ startIndexInPool[w] \in Nat
        /\ dataSize[v] \in Nat /\ dataSize[w] \in Nat
    BY Bounds
  <2>4. w # v => startIndexInPool[w] + j # startIndexInPool[v] + i
    <3>1. w # v => Apart(w, v)
      BY <2>3 DEF Inv, Layout
    <3> QED
      BY <2>3, <3>1 DEF Apart
  <2>5. w = v /\ j # i => startIndexInPool[w] + j # startIndexInPool[v] + i
    BY <2>3
  <2> QED
    BY <1>1, <1>2, <2>1, <2>2, <2>4, <2>5
<1>7. Contents' = [Contents EXCEPT ![v][i] = value]
  <2>1. ASSUME NEW w \in Vectors, w # v PROVE Contents'[w] = Contents[w]
    BY <1>4, <1>6, <2>1 DEF Contents
  <2>2. Contents'[v] = [Contents[v] EXCEPT ![i] = value]
    BY <1>4, <1>6 DEF Contents
  <2>3. Contents' = [w \in Vectors |-> Contents'[w]] /\ Contents = [w \in Vectors |-> Contents[w]]
    BY DEF Contents
  <2> QED
    BY <2>1, <2>2, <2>3
<1> QED
  BY <1>4, <1>5, <1>7 DEF Independent!Write, Contents

\* A function without arguments is the empty sequence.
LEMMA NoElements ==
  ASSUME NEW f, DOMAIN f = {}, f = [i \in DOMAIN f |-> f[i]]
  PROVE  f = <<>>
<1>1. f = [i \in 1 .. 0 |-> f[i]]
  BY 1 .. 0 = {}
<1>2. f \in Seq({})
  BY <1>1
<1>3. Len(f) = 0
  BY <1>1
<1> QED
  BY <1>2, <1>3, EmptySeq

\* A vector leaves; what the others see stays.
LEMMA DeallocStep ==
  ASSUME Inv, NEW v \in Vectors, v \in attached, Dealloc(v)
  PROVE  Inv' /\ Independent!Destroy(v)
<1> DEFINE map == Without(KeyOf[v])
<1>1. ResizeData(v, 0, Zero, map) /\ attached' = attached \ {v} /\ cbVectorMap' = map
  BY DEF Dealloc, ResizeData
<1>2. /\ DOMAIN map = DOMAIN cbVectorMap \ {KeyOf[v]}
      /\ \A k \in DOMAIN map : map[k] = cbVectorMap[k]
  BY DEF Without
<1>3. /\ \A w \in attached : KeyOf[w] \in DOMAIN cbVectorMap /\ cbVectorMap[KeyOf[w]] = w
      /\ \A k \in DOMAIN cbVectorMap : cbVectorMap[k] \in attached /\ KeyOf[cbVectorMap[k]] = k
      /\ \A w \in Vectors \ attached : dataSize[w] = 0
      /\ attached \subseteq Vectors
  BY DEF Inv, Registered, KeyIsKnown, TypeOK
<1> HIDE DEF map
<1>4. \A w \in attached \ {v} : KeyOf[w] \in DOMAIN map /\ map[KeyOf[w]] = w
  BY <1>2, <1>3
<1>5. \A w \in Vectors : dataSize[w] > 0 /\ w # v => w \in { map[k] : k \in DOMAIN map }
  BY <1>3, <1>4, Bounds
<1>6. Changed(v, 0, Zero)
  <2>1. \A w \in Vectors : dataSize[w] > 0 /\ (w # v \/ 0 > 0) => w \in { map[k] : k \in DOMAIN map }
    BY <1>5
  <2> QED
    BY <1>1, <2>1, PoolAssumption, ResizeDataChanges
<1>7. /\ Registered' /\ DOMAIN cbVectorMap' \subseteq Keys /\ Mapped' \subseteq Vectors
      /\ attached' \subseteq Vectors
  <2>1. /\ dataSize'[v] = 0
        /\ \A w \in Vectors \ {v} : dataSize'[w] = dataSize[w]
    BY <1>6 DEF Changed, Inv, TypeOK
  <2>2. Registered'
    BY <1>1, <1>2, <1>3, <1>4, <2>1 DEF Registered, KeyIsKnown
  <2>3. DOMAIN cbVectorMap \subseteq Keys
    BY DEF Inv, TypeOK
  <2> QED
    BY <1>1, <1>2, <1>3, <2>2, <2>3 DEF Mapped
<1>8. Inv'
  BY <1>6, <1>7, PoolAssumption, ChangedInv
<1>9. Contents' = [Contents EXCEPT ![v] = Independent!Resized(@, 0, Zero)]
  BY <1>6, <1>8, PoolAssumption, ChangedContents
<1>10. Independent!Resized(Contents[v], 0, Zero) = <<>>
  <2> DEFINE f == Independent!Resized(Contents[v], 0, Zero)
  <2>1. DOMAIN f = {} /\ f = [i \in DOMAIN f |-> f[i]]
    BY DEF Independent!Resized
  <2> HIDE DEF f
  <2> QED
    BY <2>1, NoElements DEF f
<1>11. Contents' = [Contents EXCEPT ![v] = <<>>]
  BY <1>9, <1>10
<1> QED
  BY <1>1, <1>8, <1>11 DEF Independent!Destroy, Contents

\* With the pool goes its last vector.
LEMMA DeletePoolStep ==
  ASSUME Inv, NEW v \in Vectors, v \in attached, Cardinality(DOMAIN cbVectorMap) = 1, DeletePool
  PROVE  Inv' /\ Independent!Destroy(v)
<1>1. PICK k : DOMAIN cbVectorMap = {k}
  <2>1. IsFiniteSet(DOMAIN cbVectorMap)
    BY PoolAssumption, FS_Subset DEF Inv, TypeOK
  <2> QED
    BY <2>1, FS_Singleton
<1>2. attached = {v} /\ Mapped = {v}
  <2>1. \A w \in attached : w = cbVectorMap[k]
    BY <1>1 DEF Inv, Registered, KeyIsKnown
  <2> QED
    BY <2>1, MappedAttached
<1>3. /\ attached' = {} /\ DOMAIN cbVectorMap' = {} /\ pool' = <<>>
      /\ nextCbVectorStartIndexInPool' = 0 /\ poolStartAdress' = NULL
      /\ base' \in Addresses /\ capacity' \in Nat
  BY <1>2, PoolAssumption DEF DeletePool
<1>4. /\ startIndexInPool' = [w \in Vectors |-> IF w = v THEN 0 ELSE startIndexInPool[w]]
      /\ ptrData' = [w \in Vectors |-> IF w = v THEN NULL ELSE ptrData[w]]
      /\ dataSize' = [w \in Vectors |-> IF w = v THEN 0 ELSE dataSize[w]]
  BY <1>2 DEF DeletePool
<1>5. \A w \in Vectors : dataSize'[w] = 0 /\ startIndexInPool'[w] = 0 /\ ptrData'[w] = NULL
  <2>1. \A w \in Vectors \ {v} : dataSize[w] = 0
    BY <1>2 DEF Inv, Registered
  <2> QED
    BY <1>4, <2>1 DEF Inv, Handles
<1>6. Inv'
  <2>1. pool' \in Seq(Values) /\ Len(pool') = 0
    BY <1>3
  <2>2. /\ startIndexInPool' \in [Vectors -> Nat] /\ dataSize' \in [Vectors -> Nat]
        /\ ptrData' \in [Vectors -> (Addresses \X Nat) \cup {NULL}]
    BY <1>4, <1>5
  <2>3. TypeOK'
    BY <1>3, <2>1, <2>2 DEF TypeOK, Mapped
  <2>4. Layout'
    BY <1>3, <1>5, <2>1 DEF Layout
  <2>5. Handles' /\ Registered'
    BY <1>3, <1>5 DEF Handles, Registered, KeyIsKnown
  <2> QED
    BY <2>3, <2>4, <2>5 DEF Inv
<1>7. \A w \in Vectors : Contents'[w] = <<>>
  <2> TAKE w \in Vectors
  <2> DEFINE f == Contents'[w]
  <2>1. DOMAIN f = {} /\ f = [i \in DOMAIN f |-> f[i]]
    BY <1>5 DEF Contents
  <2> HIDE DEF f
  <2> QED
    BY <2>1, NoElements DEF f
<1>8. \A w \in Vectors \ {v} : Contents[w] = <<>>
  <2> TAKE w \in Vectors \ {v}
  <2> DEFINE f == Contents[w]
  <2>0. dataSize[w] = 0
    BY <1>2 DEF Inv, Registered
  <2>1. DOMAIN f = {} /\ f = [i \in DOMAIN f |-> f[i]]
    BY <2>0 DEF Contents
  <2> HIDE DEF f
  <2> QED
    BY <2>1, NoElements DEF f
<1>9. Contents' = [Contents EXCEPT ![v] = <<>>]
  <2>1. Contents' = [w \in Vectors |-> Contents'[w]] /\ Contents = [w \in Vectors |-> Contents[w]]
    BY DEF Contents
  <2> QED
    BY <1>7, <1>8, <2>1
<1> QED
  BY <1>2, <1>3, <1>6, <1>9 DEF Independent!Destroy, Contents

-----------------------------------------------------------------------------
(* Theorems *)

\* The empty pool.
LEMMA InitInv == Init => Inv /\ Independent!Init
<1> SUFFICES ASSUME Init PROVE Inv /\ Independent!Init
  OBVIOUS
<1>1. /\ pool = <<>> /\ base \in Addresses /\ capacity \in Nat /\ poolStartAdress = NULL
      /\ nextCbVectorStartIndexInPool = 0 /\ DOMAIN cbVectorMap = {} /\ attached = {}
      /\ startIndexInPool = [v \in Vectors |-> 0] /\ ptrData = [v \in Vectors |-> NULL]
      /\ dataSize = [v \in Vectors |-> 0]
  BY PoolAssumption DEF Init
<1>2. Len(pool) = 0 /\ pool \in Seq(Values)
  BY <1>1
<1>3. Inv
  BY <1>1, <1>2 DEF Inv, TypeOK, Mapped, Registered, KeyIsKnown, Handles, Layout
<1>4. \A w \in Vectors : Contents[w] = <<>>
  <2> TAKE w \in Vectors
  <2> DEFINE f == Contents[w]
  <2>1. DOMAIN f = {} /\ f = [i \in DOMAIN f |-> f[i]]
    BY <1>1 DEF Contents
  <2> HIDE DEF f
  <2> QED
    BY <2>1, NoElements DEF f
<1>5. Contents = [w \in Vectors |-> <<>>]
  BY <1>4 DEF Contents
<1> QED
  BY <1>1, <1>3, <1>5 DEF Independent!Init, Contents

\* Every step keeps the invariant and is a step of one independent vector.
LEMMA NextStep == Inv /\ [Next]_vars => Inv' /\ [Independent!Next]_(Independent!vars)
<1> SUFFICES ASSUME Inv, [Next]_vars PROVE Inv' /\ [Independent!Next]_(Independent!vars)
  OBVIOUS
<1>1. ASSUME NEW v \in Vectors, Create(v) PROVE Inv' /\ Independent!Next
  BY <1>1, CreateStep DEF Independent!Next
<1>2. ASSUME NEW v \in Vectors, Destroy(v) PROVE Inv' /\ Independent!Next
  <2>1. Inv' /\ Independent!Destroy(v)
    BY <1>2, DeallocStep, DeletePoolStep DEF Destroy
  <2> QED
    BY <2>1 DEF Independent!Next
<1>3. ASSUME NEW v \in Vectors, NEW n \in 0 .. MaxSize, NEW value \in Values, Resize(v, n, value)
      PROVE  Inv' /\ Independent!Next
  BY <1>3, ResizeStep DEF Independent!Next
<1>4. ASSUME NEW v \in Vectors, NEW i \in 1 .. dataSize[v], NEW value \in Values, Write(v, i, value)
      PROVE  Inv' /\ Independent!Next
  <2>1. Inv' /\ Independent!Write(v, i, value)
    BY <1>4, WriteStep
  <2>2. i \in DOMAIN Contents[v]
    BY DEF Contents
  <2> QED
    BY <2>1, <2>2, Zenon DEF Independent!Next, Contents
<1>5. ASSUME UNCHANGED vars PROVE Inv' /\ UNCHANGED Independent!vars
  <2>1. UNCHANGED <<pool, base, capacity, poolStartAdress, nextCbVectorStartIndexInPool, cbVectorMap,
                    attached, startIndexInPool, ptrData, dataSize>>
    BY <1>5 DEF vars, memory, books, handles
  <2>2. Inv'
    BY <2>1 DEF Inv, TypeOK, Mapped, Registered, KeyIsKnown, Handles, Layout, Apart
  <2>3. UNCHANGED Independent!vars
    BY <2>1 DEF Independent!vars, Element
  <2> QED
    BY <2>2, <2>3
<1> QED
  BY <1>1, <1>2, <1>3, <1>4, <1>5 DEF Next

\* Invariant: types, keys, handles and layout of the pool are always in order.
LEMMA Invariance == Spec => []Inv
BY InitInv, NextStep, PTL DEF Spec

\* TypeOK: every variable has its type; in particular no start index becomes
\* negative when vectors in front shrink.
THEOREM Typing == Spec => []TypeOK
BY Invariance, PTL DEF Inv

\* consistencyCheck never fails: every element of the pool belongs to exactly
\* one vector of the map, and no vector reaches beyond the pool.
THEOREM Consistency == Spec => []ConsistencyCheck
<1>1. Inv => ConsistencyCheck
  <2> SUFFICES ASSUME Inv PROVE ConsistencyCheck
    OBVIOUS
  <2>1. Mapped = attached /\ attached \subseteq Vectors
    BY MappedAttached DEF Inv, TypeOK
  <2>2. \A v \in Mapped : startIndexInPool[v] + dataSize[v] =< Len(pool)
    BY <2>1, FitsIn
  <2>3. ASSUME NEW i \in DOMAIN pool
        PROVE  \E v \in Mapped :
                 /\ i \in startIndexInPool[v] + 1 .. startIndexInPool[v] + dataSize[v]
                 /\ \A w \in Mapped \ {v} : i \notin startIndexInPool[w] + 1 .. startIndexInPool[w] + dataSize[w]
    <3>1. i \in 1 .. Len(pool)
      BY LenProperties DEF Inv, TypeOK
    <3>2. PICK v \in Vectors : startIndexInPool[v] < i /\ i =< startIndexInPool[v] + dataSize[v]
      BY <3>1 DEF Inv, Layout
    <3>3. dataSize[v] > 0 /\ i \in startIndexInPool[v] + 1 .. startIndexInPool[v] + dataSize[v]
      BY <3>1, <3>2, Bounds
    <3>4. ASSUME NEW w \in Mapped \ {v}, i \in startIndexInPool[w] + 1 .. startIndexInPool[w] + dataSize[w]
          PROVE  FALSE
      <4>1. w \in Vectors /\ w # v /\ startIndexInPool[w] < i /\ i =< startIndexInPool[w] + dataSize[w]
        BY <2>1, <3>4, Bounds
      <4>2. dataSize[w] > 0
        BY <3>1, <4>1, Bounds
      <4>3. Apart(v, w)
        BY <3>3, <4>1, <4>2 DEF Inv, Layout
      <4> QED
        BY <3>1, <3>2, <4>1, <4>3, Bounds DEF Apart
    <3>5. v \in Mapped
      BY <3>3, MappedAttached
    <3> QED
      BY <3>3, <3>4, <3>5
  <2> QED
    BY <2>2, <2>3 DEF ConsistencyCheck
<1> QED
  BY <1>1, Invariance, PTL

\* The exceptions that ask "wie kann das sein?" are never thrown while every
\* key is used once: a vector of the pool is found under its key.
THEOREM KeysKnown == Spec => []KeyIsKnown
<1>1. Inv => KeyIsKnown
  BY DEF Inv, Registered
<1> QED
  BY <1>1, Invariance, PTL

\* However the pool grows, shrinks and moves, each vector behaves as if its
\* elements were its own.
THEOREM Independence == Spec => VectorsAreIndependent
BY InitInv, Invariance, NextStep, PTL DEF Spec, VectorsAreIndependent, Independent!Spec

=============================================================================
