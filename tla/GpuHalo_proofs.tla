--------------------------- MODULE GpuHalo_proofs ---------------------------
(***************************************************************************)
(* Theorems of GpuHalo for every grid, width, number of steps and          *)
(* interface in Setups.                                                    *)
(*                                                                         *)
(* Typing       the type invariant.                                        *)
(* Agreement    two neighbours have their lists in the same order.         *)
(* Freshness    the ghost nodes have the values of the neighbours' nodes.  *)
(* NoWaiting    the processes never all wait for one another.              *)
(*                                                                         *)
(* The invariant Inv says, of every process, how far it has come; from     *)
(* that it says what is in its lists (ListsAre), in its buffers and ghost  *)
(* nodes (HostsAre) and in every channel (ChannelsAre): the messages are   *)
(* numbered per layer, and a channel holds those sent and not yet          *)
(* received.  The first half of the module is about the constants: boxes   *)
(* and their numbering, the layers of a sub-domain, and that the k-th node *)
(* of a layer is the same node of the grid on both sides.                  *)
(***************************************************************************)
EXTENDS GpuHalo, NaturalLemmas, SequenceTheorems, FiniteSetTheorems

-----------------------------------------------------------------------------
(* What is sent and received in an exchange on a grid s: constant definitions *)

\* What a node has in exchange e: on a level that has a finer one that of a
\* coarse step before the interpolation has an odd number, that after it an
\* even one.
In(s, r, x, e) ==
  <<GlobalNode[s][r][x], IF Refined(s) THEN (e + 1) \div 2 ELSE e,
    Refined(s) /\ e % 2 = 0 /\ GlobalNode[s][r][x] \in s.fineToCoarse>>

\* The lists after start-up, and how many nodes of a layer an exchange sends.
SendList(s, r, l) ==
  IF Refined(s) THEN FrontFirst(SendFront(s, r, l), SendIndices[s][r][l]) ELSE SendIndices[s][r][l]
RecvList(s, r, l) ==
  IF Refined(s) THEN FrontFirst(RecvFront(s, r, l), ReceiveIndices[s][r][l]) ELSE ReceiveIndices[s][r][l]
Count(s, r, l, e) ==
  IF Refined(s) /\ e % 2 = 0 THEN Len(SendFront(s, r, l)) ELSE Len(SendIndices[s][r][l])
RecvLength(s, r, l, e) ==
  IF Refined(s) /\ e % 2 = 0 THEN Len(RecvFront(s, r, l)) ELSE Len(ReceiveIndices[s][r][l])

\* A sequence of whatever its elements are.
IsList(f) == f \in Seq({ f[j] : j \in DOMAIN f })

\* What is sent or received of a list of nodes in exchange e: values of this
\* exchange or the last, and of this one where the node has its value already.
Right(s, r, a, e, list, length, message) ==
  /\ IsList(message) /\ Len(message) = length
  /\ \A j \in 1 .. length :
       /\ message[j] \in {In(s, r, list[j], e - 1), In(s, r, list[j], e)}
       /\ Settled(s, list[j], a + 1) => message[j] = In(s, r, list[j], e)
RightSent(s, r, l, e, message) == Right(s, r, l[1], e, SendList(s, r, l), Count(s, r, l, e), message)
RightReceived(s, r, l, e, message) == Right(s, r, l[1], e, RecvList(s, r, l), RecvLength(s, r, l, e), message)

\* A layer as it is collected before the first axis.
Old(s, r, l, e, layer) ==
  /\ IsList(layer) /\ Len(layer) = Count(s, r, l, e)
  /\ \A j \in 1 .. Count(s, r, l, e) :
       layer[j] = IF IsGhost(s, SendList(s, r, l)[j]) THEN In(s, r, SendList(s, r, l)[j], e - 1)
                  ELSE In(s, r, SendList(s, r, l)[j], e)

\* The neighbour on the other side of the axis is the same process.
Twin(s, r, l)    == Opposite(l) \in LayersOf(s, r) /\ Source(s, r, Opposite(l)) = Source(s, r, l)
IsFirst(s, r, l) == ProcessNeighbor[s][r][l[1]][1] = l[2]

\* The place of a layer among all layers and among those of its axis.
PlaceOf(s, r, l)  == CHOOSE k \in 1 .. Len(LayerSeq[s][r]) : LayerSeq[s][r][k] = l
SideOf(s, r, l)   == IF IsFirst(s, r, l) THEN 1 ELSE 2

-----------------------------------------------------------------------------
(* Boxes, lists and positions *)

\* Quotient and remainder of a number that is written as one.
LEMMA DivideSum ==
  ASSUME NEW q \in Nat, NEW d \in Nat \ {0}, NEW i \in 0 .. d - 1
  PROVE  (i + q * d) \div d = q /\ (i + q * d) % d = i
OBVIOUS

\* A number is its remainder and its quotient times the divisor.
LEMMA QuotientAndRemainder ==
  ASSUME NEW k \in Nat, NEW d \in Nat \ {0}
  PROVE  /\ k \div d \in Nat /\ k % d \in 0 .. d - 1
         /\ k = (k % d) + (k \div d) * d
OBVIOUS

\* A quotient is less than the bound on the number by which it is bounded.
LEMMA QuotientBound ==
  ASSUME NEW k \in Nat, NEW d \in Nat \ {0}, NEW m \in Nat, k < d * m
  PROVE  k \div d < m
OBVIOUS

\* The product of positive numbers is positive.
LEMMA ProductType ==
  ASSUME NEW a \in Nat \ {0}, NEW b \in Nat \ {0}
  PROVE  a * b \in Nat \ {0}
OBVIOUS

\* A product of three numbers may be taken in any order.
LEMMA Rearranged ==
  ASSUME NEW a \in Int, NEW b \in Int, NEW c \in Int
  PROVE  a * (b * c) = (a * b) * c /\ a * b = b * a
OBVIOUS

\* The sizes of grids on the three axes, and the indices in one.
Extent == [Axes -> Nat \ {0}]
Within(n) == { i \in [Axes -> Nat] : \A a \in Axes : i[a] < n[a] }

\* The number of nodes of a grid is positive, however the product is taken.
LEMMA SizeType ==
  ASSUME NEW n \in Extent
  PROVE  /\ n[1] \in Nat \ {0} /\ n[2] \in Nat \ {0} /\ n[3] \in Nat \ {0}
         /\ n[1] * n[2] \in Nat \ {0} /\ Size(n) \in Nat \ {0}
         /\ Size(n) = n[1] * (n[2] * n[3]) /\ Size(n) = (n[1] * n[2]) * n[3]
<1>1. n[1] \in Nat \ {0} /\ n[2] \in Nat \ {0} /\ n[3] \in Nat \ {0}
  BY DEF Extent, Axes
<1>2. n[1] * n[2] \in Nat \ {0}
  BY ONLY <1>1, ProductType
<1>3. (n[1] * n[2]) * n[3] \in Nat \ {0}
  BY ONLY <1>1, <1>2, ProductType
<1>4. n[1] * (n[2] * n[3]) = (n[1] * n[2]) * n[3]
  BY ONLY <1>1, Rearranged
<1> QED
  BY ONLY <1>1, <1>2, <1>3, <1>4 DEF Size

\* The k-th place is in the box, and its number is k.
LEMMA PlaceInBox ==
  ASSUME NEW n \in Extent, NEW k \in 0 .. Size(n) - 1
  PROVE  Place(n, k) \in Within(n) /\ Number(n, Place(n, k)) = k
<1>1. /\ n[1] \in Nat \ {0} /\ n[2] \in Nat \ {0} /\ n[3] \in Nat \ {0}
      /\ n[1] * n[2] \in Nat \ {0} /\ Size(n) \in Nat \ {0}
      /\ Size(n) = (n[1] * n[2]) * n[3]
  BY SizeType
<1>2. k \in Nat /\ k < (n[1] * n[2]) * n[3]
  BY <1>1
<1> DEFINE q == k \div n[1]
           t == k \div (n[1] * n[2])
<1>3. q \in Nat /\ k % n[1] \in 0 .. n[1] - 1 /\ k = (k % n[1]) + q * n[1]
  BY ONLY <1>1, <1>2, QuotientAndRemainder
<1>4. q \div n[2] \in Nat /\ q % n[2] \in 0 .. n[2] - 1 /\ q = (q % n[2]) + (q \div n[2]) * n[2]
  <2> HIDE DEF q
  <2> QED
    BY ONLY <1>1, <1>3, QuotientAndRemainder
<1>5. k = ((k % n[1]) + (q % n[2]) * n[1]) + (q \div n[2]) * (n[1] * n[2])
  <2> HIDE DEF q
  <2> DEFINE i == k % n[1]  j == q % n[2]  h == q \div n[2]  a == n[1]  b == n[2]
  <2>1. k = i + (j + h * b) * a
    BY ONLY <1>3, <1>4
  <2>2. i \in Nat /\ j \in Nat /\ h \in Nat /\ a \in Nat /\ b \in Nat
    BY ONLY SMTT(30), <1>1, <1>3, <1>4
  <2> HIDE DEF i, j, h, a, b
  <2>3. k = (i + j * a) + h * (a * b)
    BY ONLY <2>1, <2>2
  <2> QED
    BY ONLY <2>3 DEF i, j, h, a, b
<1>6. (k % n[1]) + (q % n[2]) * n[1] \in 0 .. n[1] * n[2] - 1
  <2> HIDE DEF q
  <2> DEFINE i == k % n[1]  j == q % n[2]  a == n[1]  b == n[2]
  <2>1. i \in 0 .. a - 1 /\ j \in 0 .. b - 1 /\ a \in Nat \ {0} /\ b \in Nat \ {0}
    BY ONLY <1>1, <1>3, <1>4
  <2> HIDE DEF i, j, a, b
  <2>2. i + j * a \in 0 .. a * b - 1
    BY ONLY <2>1
  <2> QED
    BY ONLY <2>2 DEF i, j, a, b
<1>7. q \div n[2] = t
  <2> HIDE DEF q
  <2>1. ((k % n[1]) + (q % n[2]) * n[1] + (q \div n[2]) * (n[1] * n[2])) \div (n[1] * n[2]) = q \div n[2]
    BY ONLY ZenonT(30), <1>1, <1>4, <1>6, DivideSum
  <2> QED
    BY ONLY <1>5, <2>1
<1>8. t < n[3]
  BY ONLY <1>1, <1>2, QuotientBound
<1>9. Place(n, k) = <<k % n[1], q % n[2], t>>
  BY DEF Place
<1> HIDE DEF q, t
<1>10. Place(n, k) \in Within(n)
  <2> DEFINE p == Place(n, k)
  <2>1. p = <<k % n[1], q % n[2], t>> /\ k % n[1] \in Nat /\ q % n[2] \in Nat /\ t \in Nat
    BY ONLY <1>3, <1>4, <1>7, <1>9
  <2>2. p \in [Axes -> Nat] /\ p[1] = k % n[1] /\ p[2] = q % n[2] /\ p[3] = t
    BY ONLY <2>1 DEF Axes
  <2>3. p[1] < n[1] /\ p[2] < n[2] /\ p[3] < n[3]
    BY ONLY SMTT(30), <1>1, <1>3, <1>4, <1>8, <2>2
  <2> HIDE DEF p
  <2>4. \A a \in Axes : p[a] < n[a]
    BY ONLY <2>3 DEF Axes
  <2> QED
    BY <2>2, <2>4 DEF Within, p
<1>11. Number(n, Place(n, k)) = (k % n[1]) + (q % n[2]) * n[1] + t * n[1] * n[2]
  BY ONLY <1>9 DEF Number
<1>12. t * n[1] * n[2] = t * (n[1] * n[2])
  BY ONLY <1>1, <1>4, <1>7, Rearranged
<1> QED
  BY ONLY <1>5, <1>7, <1>10, <1>11, <1>12

\* A place in the box has a number, and is the place with this number.
LEMMA NumberOfPlace ==
  ASSUME NEW n \in Extent, NEW i \in Within(n)
  PROVE  Number(n, i) \in 0 .. Size(n) - 1 /\ Place(n, Number(n, i)) = i
<1>1. /\ n[1] \in Nat \ {0} /\ n[2] \in Nat \ {0} /\ n[3] \in Nat \ {0}
      /\ n[1] * n[2] \in Nat \ {0} /\ Size(n) \in Nat \ {0}
      /\ Size(n) = (n[1] * n[2]) * n[3]
  BY SizeType
<1>2. i[1] \in 0 .. n[1] - 1 /\ i[2] \in 0 .. n[2] - 1 /\ i[3] \in 0 .. n[3] - 1
  BY <1>1 DEF Within, Axes
<1>3. i = <<i[1], i[2], i[3]>>
  BY DEF Within, Axes
<1> DEFINE a == n[1]  b == n[2]  c == n[3]  x == i[1]  y == i[2]  z == i[3]
<1>4. /\ a \in Nat \ {0} /\ b \in Nat \ {0} /\ c \in Nat \ {0} /\ a * b \in Nat \ {0}
      /\ x \in 0 .. a - 1 /\ y \in 0 .. b - 1 /\ z \in 0 .. c - 1
  BY ONLY <1>1, <1>2
<1>5. Size(n) = (a * b) * c /\ Number(n, i) = x + y * a + z * a * b
  BY ONLY <1>1 DEF Number
<1>6. Place(n, Number(n, i)) = <<Number(n, i) % a, (Number(n, i) \div a) % b, Number(n, i) \div (a * b)>>
  BY ONLY DEF Place
<1> HIDE DEF a, b, c, x, y, z
<1>7. x + y * a \in 0 .. a * b - 1
  BY ONLY <1>4
<1>8. z * a * b = z * (a * b) /\ z * (a * b) = (z * b) * a
  BY ONLY <1>4
<1>9. Number(n, i) = (x + y * a) + z * (a * b)
  BY ONLY <1>4, <1>5, <1>8
<1>10. Number(n, i) \in 0 .. (a * b) * c - 1
  <2> DEFINE u == x + y * a  m == a * b
  <2>1. u \in 0 .. m - 1 /\ m \in Nat \ {0}
    BY ONLY <1>4, <1>7
  <2> HIDE DEF u, m
  <2>2. u + z * m \in 0 .. m * c - 1
    BY ONLY <1>4, <2>1
  <2> QED
    BY ONLY <1>9, <2>2 DEF u, m
<1>11. Number(n, i) \div (a * b) = z
  BY ONLY <1>4, <1>7, <1>9, DivideSum
<1>12. y + z * b \in Nat /\ Number(n, i) = x + (y + z * b) * a
  BY ONLY <1>4, <1>8, <1>9
<1>13. Number(n, i) \div a = y + z * b /\ Number(n, i) % a = x
  <2> DEFINE h == y + z * b
  <2>1. h \in Nat /\ Number(n, i) = x + h * a
    BY ONLY <1>12
  <2> HIDE DEF h
  <2>2. (x + h * a) \div a = h /\ (x + h * a) % a = x
    BY ONLY <1>4, <2>1, DivideSum
  <2>3. Number(n, i) \div a = h /\ Number(n, i) % a = x
    BY ONLY <2>1, <2>2
  <2> QED
    BY ONLY <2>3 DEF h
<1>14. (y + z * b) % b = y
  BY ONLY <1>4, DivideSum
<1>15. Place(n, Number(n, i)) = <<x, y, z>>
  BY ONLY <1>6, <1>11, <1>13, <1>14
<1> QED
  BY ONLY <1>3, <1>5, <1>10, <1>15 DEF x, y, z

\* The position in a set of positions before which there are k - 1 others.
Below(at, i) == { j \in at : j < i }
Kth(at, k)   == CHOOSE i \in at : Cardinality(Below(at, i)) = k - 1

\* The k-th element of what is picked stands at the k-th of the positions.
LEMMA PickedAsKth ==
  ASSUME NEW list, NEW at
  PROVE  Picked(list, at) = [k \in 1 .. Cardinality(at) |-> list[Kth(at, k)]]
BY DEF Picked, Kth, Below

\* Of n positions there are at most n.
LEMMA PositionsFinite ==
  ASSUME NEW n \in Nat, NEW at \in SUBSET (1 .. n)
  PROVE  IsFiniteSet(at) /\ Cardinality(at) \in 0 .. n
<1>1. IsFiniteSet(1 .. n) /\ Cardinality(1 .. n) = n
  BY FS_Interval
<1>2. IsFiniteSet(at) /\ Cardinality(at) <= n
  BY <1>1, FS_Subset
<1> QED
  BY <1>2, FS_CardinalityType

\* Of two positions the later has more before it.
LEMMA BelowGrows ==
  ASSUME NEW n \in Nat, NEW at \in SUBSET (1 .. n), NEW i \in at, NEW j \in at, i < j
  PROVE  /\ Cardinality(Below(at, i)) \in Nat /\ Cardinality(Below(at, j)) \in Nat
         /\ Cardinality(Below(at, i)) < Cardinality(Below(at, j))
<1>1. IsFiniteSet(at) /\ Below(at, i) \in SUBSET (1 .. n) /\ Below(at, j) \in SUBSET (1 .. n)
  BY PositionsFinite DEF Below
<1>2. IsFiniteSet(Below(at, i)) /\ Cardinality(Below(at, i)) \in Nat
  BY <1>1, PositionsFinite
<1>3. IsFiniteSet(Below(at, j)) /\ Cardinality(Below(at, j)) \in Nat
  BY <1>1, PositionsFinite
<1>4. i \notin Below(at, i) /\ Below(at, i) \cup {i} \subseteq Below(at, j)
  BY <1>1 DEF Below
<1>5. Cardinality(Below(at, i) \cup {i}) = Cardinality(Below(at, i)) + 1
  BY <1>2, <1>4, FS_AddElement
<1>6. Cardinality(Below(at, i) \cup {i}) <= Cardinality(Below(at, j))
  BY <1>3, <1>4, FS_Subset
<1> QED
  BY <1>2, <1>3, <1>5, <1>6

\* There is a k-th position, with k - 1 positions below it.
LEMMA KthExists ==
  ASSUME NEW n \in Nat, NEW at \in SUBSET (1 .. n), NEW k \in 1 .. Cardinality(at)
  PROVE  Kth(at, k) \in at /\ Cardinality(Below(at, Kth(at, k))) = k - 1
<1>1. IsFiniteSet(at) /\ Cardinality(at) \in 0 .. n
  BY PositionsFinite
<1>0. \A j \in at : j \in Int /\ 1 <= j /\ j <= n
  OBVIOUS
<1> DEFINE C(m) == Cardinality(Below(at, m + 1))
           M == { m \in 0 .. n : k <= C(m) }
<1>2. \A m \in 0 .. n : Below(at, m + 1) \in SUBSET (1 .. n) /\ IsFiniteSet(Below(at, m + 1)) /\ C(m) \in Nat
  <2> SUFFICES ASSUME NEW m \in 0 .. n
               PROVE  Below(at, m + 1) \in SUBSET (1 .. n) /\ IsFiniteSet(Below(at, m + 1)) /\ C(m) \in Nat
    OBVIOUS
  <2>1. Below(at, m + 1) \in SUBSET (1 .. n)
    BY DEF Below
  <2> QED
    BY <2>1, PositionsFinite
<1>3. n \in M
  <2>0. \A j \in at : j < n + 1
    BY <1>0
  <2>1. Below(at, n + 1) = at
    BY <2>0 DEF Below
  <2> QED
    BY <1>1, <2>1
<1>4. PICK m \in M : \A o \in M : m =< o
  <2>1. M \subseteq Nat /\ M # {}
    <3>1. \A m \in 0 .. n : m \in Nat
      OBVIOUS
    <3>2. \A m \in M : m \in 0 .. n
      OBVIOUS
    <3> HIDE DEF M
    <3> QED
      BY <1>3, <3>1, <3>2
  <2> HIDE DEF M
  <2> QED
    BY <2>1, LeastElement
<1>5. m # 0
  <2>0. \A j \in at : ~(j < 0 + 1)
    BY <1>0
  <2>1. Below(at, 0 + 1) = {}
    BY <2>0 DEF Below
  <2> QED
    BY <1>4, <2>1, FS_EmptySet
<1>6. m - 1 \in 0 .. n /\ m \in 1 .. n /\ C(m - 1) < k /\ (m - 1) + 1 = m
  <2>1. m \in 1 .. n /\ m - 1 \in 0 .. n /\ (m - 1) + 1 = m
    BY <1>4, <1>5
  <2>2. m - 1 \notin M
    BY <1>4, <2>1
  <2>3. C(m - 1) \in Nat /\ ~(k <= C(m - 1))
    BY <1>2, <2>1, <2>2
  <2>4. Cardinality(at) \in Nat
    BY <1>1
  <2> QED
    BY <2>1, <2>3, <2>4
<1>7. CASE m \in at
  <2>0. (\A j \in at : j < m + 1 <=> (j < m \/ j = m)) /\ ~(m < m)
    BY <1>0, <1>6
  <2>1. Below(at, m + 1) = Below(at, m) \cup {m} /\ m \notin Below(at, m)
    BY <2>0, <1>7 DEF Below
  <2>2. IsFiniteSet(Below(at, m)) /\ Cardinality(Below(at, m)) \in Nat /\ Cardinality(Below(at, m)) < k
    BY <1>2, <1>6
  <2>3. Cardinality(Below(at, m + 1)) = Cardinality(Below(at, m)) + 1
    BY <2>1, <2>2, FS_AddElement
  <2>4. Cardinality(Below(at, m)) = k - 1
    BY <1>4, <2>2, <2>3
  <2> QED
    BY <1>7, <2>4 DEF Kth
<1>8. CASE m \notin at
  <2>1. Below(at, m + 1) = Below(at, m)
    <3>1. ASSUME NEW j \in at PROVE j < m + 1 <=> j < m
      BY <1>0, <1>6, <1>8
    <3> QED
      BY <3>1 DEF Below
  <2> QED
    BY <1>4, <1>6, <2>1
<1> QED
  BY <1>7, <1>8

\* Every position is the k-th for some k.
LEMMA EveryPosition ==
  ASSUME NEW n \in Nat, NEW at \in SUBSET (1 .. n), NEW i \in at
  PROVE  \E k \in 1 .. Cardinality(at) : i = Kth(at, k)
<1>1. IsFiniteSet(at) /\ Cardinality(at) \in Nat
  BY PositionsFinite
<1> DEFINE k == Cardinality(Below(at, i)) + 1
<1>2. k \in 1 .. Cardinality(at)
  <2>1. Below(at, i) \in SUBSET at /\ i \notin Below(at, i) /\ i \in at
    BY DEF Below
  <2>2. IsFiniteSet(Below(at, i)) /\ Cardinality(Below(at, i)) \in Nat
    BY <1>1, <2>1, FS_Subset, FS_CardinalityType
  <2>3. Cardinality(Below(at, i) \cup {i}) = Cardinality(Below(at, i)) + 1
    BY <2>1, <2>2, FS_AddElement
  <2>4. Cardinality(Below(at, i) \cup {i}) <= Cardinality(at)
    BY <1>1, <2>1, FS_Subset
  <2> QED
    BY <1>1, <2>2, <2>3, <2>4
<1>3. Kth(at, k) \in at /\ Cardinality(Below(at, Kth(at, k))) = k - 1
  BY <1>2, KthExists
<1>4. k - 1 = Cardinality(Below(at, i))
  <2>1. Below(at, i) \in SUBSET (1 .. n)
    BY DEF Below
  <2> QED
    BY <2>1, PositionsFinite
<1> HIDE DEF k
<1>5. ~(i < Kth(at, k)) /\ ~(Kth(at, k) < i)
  <2>1. Cardinality(Below(at, Kth(at, k))) = Cardinality(Below(at, i)) /\ Kth(at, k) \in at
    BY <1>3, <1>4
  <2>2. ASSUME i < Kth(at, k) PROVE FALSE
    <3>1. /\ Cardinality(Below(at, i)) \in Nat /\ Cardinality(Below(at, Kth(at, k))) \in Nat
          /\ Cardinality(Below(at, i)) < Cardinality(Below(at, Kth(at, k)))
      BY <2>1, <2>2, BelowGrows
    <3> QED
      BY <2>1, <3>1
  <2>3. ASSUME Kth(at, k) < i PROVE FALSE
    <3>1. /\ Cardinality(Below(at, i)) \in Nat /\ Cardinality(Below(at, Kth(at, k))) \in Nat
          /\ Cardinality(Below(at, Kth(at, k))) < Cardinality(Below(at, i))
      BY <2>1, <2>3, BelowGrows
    <3> QED
      BY <2>1, <3>1
  <2> QED
    BY <2>2, <2>3
<1>6. i \in 1 .. n /\ Kth(at, k) \in 1 .. n
  BY <1>3
<1> QED
  BY <1>2, <1>5, <1>6

\* Different numbers are those of different positions.
LEMMA KthInjective ==
  ASSUME NEW n \in Nat, NEW at \in SUBSET (1 .. n), NEW k \in 1 .. Cardinality(at), NEW m \in 1 .. Cardinality(at),
         Kth(at, k) = Kth(at, m)
  PROVE  k = m
<1>1. k - 1 = m - 1
  BY KthExists
<1>2. k \in Int /\ m \in Int
  OBVIOUS
<1> QED
  BY <1>1, <1>2

\* A list of all elements of a set, none of them twice.
Injects(list, S)    == /\ list \in Seq(S)
                       /\ \A i, j \in 1 .. Len(list) : list[i] = list[j] => i = j
\* list has every element of S, and each of them once.
Enumerates(list, S) == Injects(list, S) /\ \A x \in S : \E i \in 1 .. Len(list) : list[i] = x

\* What is picked is a list of the elements at the positions.
LEMMA PickedType ==
  ASSUME NEW S, NEW list \in Seq(S), NEW at \in SUBSET (1 .. Len(list))
  PROVE  /\ Cardinality(at) \in 0 .. Len(list)
         /\ Picked(list, at) \in Seq(S) /\ Len(Picked(list, at)) = Cardinality(at)
         /\ \A k \in 1 .. Cardinality(at) : Kth(at, k) \in at /\ Picked(list, at)[k] = list[Kth(at, k)]
         /\ \A i \in at : \E k \in 1 .. Cardinality(at) : Picked(list, at)[k] = list[i]
<1>1. Len(list) \in Nat /\ list \in [1 .. Len(list) -> S]
  BY LenProperties
<1>2. Cardinality(at) \in 0 .. Len(list)
  BY <1>1, PositionsFinite
<1>3. \A k \in 1 .. Cardinality(at) : Kth(at, k) \in at
  BY <1>1, KthExists
<1>4. Picked(list, at) = [k \in 1 .. Cardinality(at) |-> list[Kth(at, k)]]
  BY PickedAsKth
<1>5. Picked(list, at) \in [1 .. Cardinality(at) -> S]
  BY <1>1, <1>2, <1>3, <1>4
<1>6. Picked(list, at) \in Seq(S) /\ Len(Picked(list, at)) = Cardinality(at)
  BY <1>2, <1>5, SeqDef
<1>7. \A i \in at : \E k \in 1 .. Cardinality(at) : i = Kth(at, k)
  BY <1>1, EveryPosition
<1> QED
  BY <1>2, <1>3, <1>4, <1>6, <1>7

\* What is picked of a list without repetition has no repetition.
LEMMA PickedInjects ==
  ASSUME NEW S, NEW list, Injects(list, S), NEW at \in SUBSET (1 .. Len(list))
  PROVE  Injects(Picked(list, at), S)
<1>1. list \in Seq(S) /\ Len(list) \in Nat
  BY LenProperties DEF Injects
<1>2. /\ Picked(list, at) \in Seq(S) /\ Len(Picked(list, at)) = Cardinality(at)
      /\ \A k \in 1 .. Cardinality(at) : Kth(at, k) \in at /\ Picked(list, at)[k] = list[Kth(at, k)]
  BY <1>1, PickedType
<1>3. ASSUME NEW k \in 1 .. Cardinality(at), NEW m \in 1 .. Cardinality(at), Picked(list, at)[k] = Picked(list, at)[m]
      PROVE  k = m
  <2>1. Kth(at, k) = Kth(at, m)
    BY <1>2, <1>3 DEF Injects
  <2> QED
    BY <1>1, <2>1, KthInjective
<1> QED
  BY <1>2, <1>3 DEF Injects

\* Two lists that have no element in common make one without repetition.
LEMMA ConcatInjects ==
  ASSUME NEW S, NEW s, NEW t, Injects(s, S), Injects(t, S),
         \A i \in 1 .. Len(s), j \in 1 .. Len(t) : s[i] # t[j]
  PROVE  /\ Injects(s \o t, S) /\ Len(s \o t) = Len(s) + Len(t)
         /\ \A i \in 1 .. Len(s) + Len(t) : (s \o t)[i] = IF i <= Len(s) THEN s[i] ELSE t[i - Len(s)]
<1>1. s \in Seq(S) /\ t \in Seq(S) /\ Len(s) \in Nat /\ Len(t) \in Nat
  BY LenProperties DEF Injects
<1>2. /\ s \o t \in Seq(S) /\ Len(s \o t) = Len(s) + Len(t)
      /\ \A i \in 1 .. Len(s) + Len(t) : (s \o t)[i] = IF i <= Len(s) THEN s[i] ELSE t[i - Len(s)]
  BY <1>1, ConcatProperties
<1>3. ASSUME NEW i \in 1 .. Len(s) + Len(t), NEW j \in 1 .. Len(s) + Len(t), (s \o t)[i] = (s \o t)[j]
      PROVE  i = j
  <2>1. (s \o t)[i] = IF i <= Len(s) THEN s[i] ELSE t[i - Len(s)]
    BY <1>2
  <2>2. (s \o t)[j] = IF j <= Len(s) THEN s[j] ELSE t[j - Len(s)]
    BY <1>2
  <2>3. CASE i <= Len(s) /\ j <= Len(s)
    <3>1. i \in 1 .. Len(s) /\ j \in 1 .. Len(s)
      BY <1>1, <2>3
    <3>2. s[i] = s[j]
      BY <1>3, <2>1, <2>2, <2>3
    <3> QED
      BY <3>1, <3>2 DEF Injects
  <2>4. CASE i <= Len(s) /\ ~(j <= Len(s))
    <3>1. j - Len(s) \in 1 .. Len(t) /\ i \in 1 .. Len(s)
      BY <1>1, <2>4
    <3>2. s[i] = t[j - Len(s)]
      BY <1>3, <2>1, <2>2, <2>4
    <3> QED
      BY <3>1, <3>2
  <2>5. CASE ~(i <= Len(s)) /\ j <= Len(s)
    <3>1. i - Len(s) \in 1 .. Len(t) /\ j \in 1 .. Len(s)
      BY <1>1, <2>5
    <3>2. t[i - Len(s)] = s[j]
      BY <1>3, <2>1, <2>2, <2>5
    <3> QED
      BY <3>1, <3>2
  <2>6. CASE ~(i <= Len(s)) /\ ~(j <= Len(s))
    <3>1. i - Len(s) \in 1 .. Len(t) /\ j - Len(s) \in 1 .. Len(t)
      BY <1>1, <2>6
    <3>2. i - Len(s) = j - Len(s)
      BY <1>3, <2>1, <2>2, <2>6, <3>1 DEF Injects
    <3> QED
      BY <1>1, <3>2
  <2> QED
    BY <2>3, <2>4, <2>5, <2>6
<1> QED
  BY <1>2, <1>3 DEF Injects

\* Two lists of the same nodes have the same length.
LEMMA EnumerationLength ==
  ASSUME NEW S, NEW s, NEW t, Enumerates(s, S), Enumerates(t, S)
  PROVE  Len(s) = Len(t) /\ Len(s) \in Nat
<1>1. s \in Seq(S) /\ t \in Seq(S) /\ Len(s) \in Nat /\ Len(t) \in Nat
  BY LenProperties DEF Enumerates, Injects
<1>2. s \in [1 .. Len(s) -> S] /\ t \in [1 .. Len(t) -> S]
  BY <1>1, LenProperties
<1>3. ExistsBijection(1 .. Len(s), S)
  <2>1. s \in Injection(1 .. Len(s), S)
    BY <1>1, <1>2 DEF Injection, IsInjective, Enumerates, Injects
  <2>2. s \in Surjection(1 .. Len(s), S)
    BY <1>2 DEF Surjection, Enumerates
  <2> QED
    BY <2>1, <2>2 DEF ExistsBijection, Bijection
<1>4. ExistsBijection(1 .. Len(t), S)
  <2>1. t \in Injection(1 .. Len(t), S)
    BY <1>1, <1>2 DEF Injection, IsInjective, Enumerates, Injects
  <2>2. t \in Surjection(1 .. Len(t), S)
    BY <1>2 DEF Surjection, Enumerates
  <2> QED
    BY <2>1, <2>2 DEF ExistsBijection, Bijection
<1> QED
  BY <1>1, <1>3, <1>4, FS_CountingElements

\* A part of a list moved to its front: still a list of the same elements.
LEMMA FrontFirstEnumerates ==
  ASSUME NEW S, NEW list, Enumerates(list, S), NEW front, Injects(front, S)
  PROVE  /\ Enumerates(FrontFirst(front, list), S)
         /\ Len(front) \in 0 .. Len(list) /\ Len(FrontFirst(front, list)) = Len(list)
         /\ \A j \in 1 .. Len(front) : FrontFirst(front, list)[j] = front[j]
<1> DEFINE rest == { i \in DOMAIN list : list[i] \notin ToSet(front) }
           tail == Picked(list, rest)
           new  == FrontFirst(front, list)
<1>1. /\ list \in Seq(S) /\ Len(list) \in Nat /\ DOMAIN list = 1 .. Len(list)
      /\ front \in Seq(S) /\ Len(front) \in Nat /\ DOMAIN front = 1 .. Len(front)
  BY LenProperties DEF Enumerates, Injects
<1>2. rest \in SUBSET (1 .. Len(list)) /\ \A i \in 1 .. Len(list) : i \in rest <=> list[i] \notin ToSet(front)
  BY <1>1
<1>3. new = front \o tail
  BY DEF FrontFirst
<1>4. ToSet(front) = { front[j] : j \in 1 .. Len(front) }
  BY <1>1 DEF ToSet
<1> HIDE DEF rest
<1>5. /\ tail \in Seq(S) /\ Len(tail) = Cardinality(rest) /\ Cardinality(rest) \in Nat
      /\ \A k \in 1 .. Cardinality(rest) : Kth(rest, k) \in rest /\ tail[k] = list[Kth(rest, k)]
      /\ \A i \in rest : \E k \in 1 .. Cardinality(rest) : tail[k] = list[i]
  BY <1>1, <1>2, PickedType
<1>6. Injects(tail, S)
  BY <1>2, PickedInjects DEF Enumerates
<1> HIDE DEF tail, new
<1>7. \A i \in 1 .. Len(front), j \in 1 .. Len(tail) : front[i] # tail[j]
  BY <1>2, <1>4, <1>5
<1>8. /\ Injects(new, S) /\ Len(new) = Len(front) + Len(tail)
      /\ \A i \in 1 .. Len(front) + Len(tail) : new[i] = IF i <= Len(front) THEN front[i] ELSE tail[i - Len(front)]
  BY <1>3, <1>6, <1>7, ConcatInjects
<1>9. ASSUME NEW x \in S PROVE \E i \in 1 .. Len(new) : new[i] = x
  <2>1. CASE x \in ToSet(front)
    <3>1. PICK j \in 1 .. Len(front) : front[j] = x
      BY <1>4, <2>1
    <3>2. j \in 1 .. Len(front) + Len(tail) /\ j <= Len(front)
      BY <1>1, <1>5
    <3> QED
      BY <1>8, <3>1, <3>2
  <2>2. CASE x \notin ToSet(front)
    <3>1. PICK i \in 1 .. Len(list) : list[i] = x
      BY DEF Enumerates
    <3>2. PICK k \in 1 .. Len(tail) : tail[k] = x
      BY <1>2, <1>5, <2>2, <3>1
    <3>3. k + Len(front) \in 1 .. Len(front) + Len(tail) /\ ~(k + Len(front) <= Len(front)) /\ (k + Len(front)) - Len(front) = k
      BY <1>1, <1>5
    <3> QED
      BY <1>8, <3>2, <3>3
  <2> QED
    BY <2>1, <2>2
<1>10. Enumerates(new, S)
  BY <1>8, <1>9 DEF Enumerates
<1>11. Len(new) = Len(list)
  BY <1>10, EnumerationLength
<1>12. Len(front) \in 0 .. Len(list)
  BY <1>1, <1>5, <1>8, <1>11
<1>13. ASSUME NEW j \in 1 .. Len(front) PROVE new[j] = front[j]
  <2>1. j \in 1 .. Len(front) + Len(tail) /\ j <= Len(front)
    BY <1>1, <1>5
  <2> QED
    BY <1>8, <2>1
<1> QED
  BY <1>10, <1>11, <1>12, <1>13 DEF new

\* The elements of a list at the positions that are told, which count from 0.
Moved(other, positions) == [j \in DOMAIN positions |-> other[positions[j] + 1]]

\* What is at a place of one new list and of the other comes from one place.
MovedAlike(list, new, other, new2) ==
  \A j \in 1 .. Len(list) : \E i \in 1 .. Len(list) : new[j] = list[i] /\ new2[j] = other[i]

\* The same positions, told of one list, moved to the front of another.
LEMMA SameRearrangement ==
  ASSUME NEW S, NEW list, Enumerates(list, S), NEW front, Injects(front, S),
         NEW T, NEW other, Enumerates(other, T), Len(other) = Len(list),
         NEW positions, positions = Positions(front, list),
         NEW moved, moved = Moved(other, positions)
  PROVE  /\ positions \in Seq(Nat) /\ Len(positions) = Len(front)
         /\ Injects(moved, T) /\ Len(moved) = Len(front)
         /\ MovedAlike(list, FrontFirst(front, list), other, FrontFirst(moved, other))
<1>1. /\ list \in Seq(S) /\ Len(list) \in Nat /\ DOMAIN list = 1 .. Len(list)
      /\ front \in Seq(S) /\ Len(front) \in Nat /\ DOMAIN front = 1 .. Len(front)
      /\ other \in Seq(T) /\ DOMAIN other = 1 .. Len(list) /\ other \in [1 .. Len(list) -> T]
  BY LenProperties DEF Enumerates, Injects
<1>0. /\ \A i, j \in 1 .. Len(list) : list[i] = list[j] => i = j
      /\ \A i, j \in 1 .. Len(list) : other[i] = other[j] => i = j
  BY DEF Enumerates, Injects
<1> DEFINE pos(j) == CHOOSE i \in 1 .. Len(list) : list[i] = front[j]
<1>2. \A j \in 1 .. Len(front) : pos(j) \in 1 .. Len(list) /\ list[pos(j)] = front[j]
  <2> SUFFICES ASSUME NEW j \in 1 .. Len(front)
               PROVE  pos(j) \in 1 .. Len(list) /\ list[pos(j)] = front[j]
    OBVIOUS
  <2>1. front[j] \in S
    BY <1>1, ElementOfSeq
  <2>2. \E i \in 1 .. Len(list) : list[i] = front[j]
    BY <2>1 DEF Enumerates
  <2> QED
    BY <2>2
<1>3. positions = [j \in 1 .. Len(front) |-> pos(j) - 1]
  BY <1>1 DEF Positions
<1> HIDE DEF pos
<1>4. positions \in [1 .. Len(front) -> Nat] /\ DOMAIN positions = 1 .. Len(front)
  <2>1. \A j \in 1 .. Len(front) : pos(j) - 1 \in Nat
    BY <1>1, <1>2
  <2> QED
    BY <1>3, <2>1
<1>5. positions \in Seq(Nat) /\ Len(positions) = Len(front)
  <2>1. positions \in Seq(Nat)
    BY ONLY <1>1, <1>4, SeqDef
  <2> QED
    BY <1>1, <1>4, <2>1, LenProperties
<1>6. \A j \in 1 .. Len(front) : positions[j] + 1 = pos(j)
  BY <1>1, <1>2, <1>3
<1>7. moved = [j \in 1 .. Len(front) |-> other[pos(j)]]
  BY <1>4, <1>6 DEF Moved
<1>8. moved \in [1 .. Len(front) -> T] /\ DOMAIN moved = 1 .. Len(front)
  BY <1>1, <1>2, <1>7
<1>9. moved \in Seq(T) /\ Len(moved) = Len(front)
  <2>1. moved \in Seq(T)
    BY <1>1, <1>8, SeqDef
  <2> QED
    BY <1>1, <1>8, <2>1, LenProperties
<1>10. ASSUME NEW j \in 1 .. Len(front), NEW k \in 1 .. Len(front), moved[j] = moved[k] PROVE j = k
  <2>0. moved[j] = other[pos(j)] /\ moved[k] = other[pos(k)]
    BY <1>7
  <2>1. pos(j) = pos(k)
    BY ONLY ZenonT(30), <1>0, <1>2, <1>10, <2>0
  <2>2. front[j] = front[k]
    BY <1>2, <2>1
  <2> QED
    BY <2>2 DEF Injects
<1>11. Injects(moved, T)
  BY ONLY <1>9, <1>10 DEF Injects
<1> DEFINE rest  == { i \in DOMAIN list : list[i] \notin ToSet(front) }
           rest2 == { i \in DOMAIN other : other[i] \notin ToSet(moved) }
           new   == FrontFirst(front, list)
           new2  == FrontFirst(moved, other)
<1>12. rest = rest2
  <2>1. ToSet(front) = { front[j] : j \in 1 .. Len(front) } /\ ToSet(moved) = { moved[j] : j \in 1 .. Len(front) }
    BY <1>1, <1>8 DEF ToSet
  <2>2. ASSUME NEW i \in 1 .. Len(list)
        PROVE  list[i] \in ToSet(front) <=> other[i] \in ToSet(moved)
    <3>1. \A j \in 1 .. Len(front) : front[j] = list[i] <=> pos(j) = i
      BY ONLY <1>0, <1>2, <2>2
    <3>2. \A j \in 1 .. Len(front) : moved[j] = other[i] <=> pos(j) = i
      <4> SUFFICES ASSUME NEW j \in 1 .. Len(front) PROVE moved[j] = other[i] <=> pos(j) = i
        OBVIOUS
      <4>1. moved[j] = other[pos(j)] /\ pos(j) \in 1 .. Len(list)
        BY <1>2, <1>7
      <4> QED
        BY ONLY <1>0, <2>2, <4>1
    <3> QED
      BY <2>1, <3>1, <3>2
  <2> QED
    BY <1>1, <2>2
<1>13. rest \in SUBSET (1 .. Len(list))
  BY <1>1
<1>14. new = front \o Picked(list, rest) /\ new2 = moved \o Picked(other, rest)
  BY <1>12 DEF FrontFirst
<1> HIDE DEF rest, rest2
<1> DEFINE tail == Picked(list, rest)
           tail2 == Picked(other, rest)
<1>15. /\ tail \in Seq(S) /\ Len(tail) = Cardinality(rest) /\ Cardinality(rest) \in Nat
       /\ \A k \in 1 .. Cardinality(rest) : Kth(rest, k) \in rest /\ tail[k] = list[Kth(rest, k)]
  BY <1>1, <1>13, PickedType
<1>16. /\ tail2 \in Seq(T) /\ Len(tail2) = Cardinality(rest)
       /\ \A k \in 1 .. Cardinality(rest) : Kth(rest, k) \in rest /\ tail2[k] = other[Kth(rest, k)]
  BY <1>1, <1>13, PickedType
<1> HIDE DEF tail, tail2
<1>17. \A i \in 1 .. Len(front) + Len(tail) : (front \o tail)[i] = IF i <= Len(front) THEN front[i] ELSE tail[i - Len(front)]
  BY <1>1, <1>15, ConcatProperties
<1>18. \A i \in 1 .. Len(moved) + Len(tail2) : (moved \o tail2)[i] = IF i <= Len(moved) THEN moved[i] ELSE tail2[i - Len(moved)]
  BY <1>9, <1>16, ConcatProperties
<1>19. new = front \o tail /\ new2 = moved \o tail2
  BY <1>14 DEF tail, tail2
<1>20. Len(list) = Len(front) + Len(tail)
  <2>1. Len(new) = Len(list)
    BY FrontFirstEnumerates
  <2>2. Len(front \o tail) = Len(front) + Len(tail)
    BY <1>1, <1>15, ConcatProperties
  <2> QED
    BY <1>19, <2>1, <2>2
<1> HIDE DEF new, new2
<1>21. ASSUME NEW j \in 1 .. Len(list)
       PROVE  \E i \in 1 .. Len(list) : new[j] = list[i] /\ new2[j] = other[i]
  <2>1. CASE j <= Len(front)
    <3>1. j \in 1 .. Len(front) /\ pos(j) \in 1 .. Len(list)
      BY <1>1, <1>2, <2>1
    <3>2. new[j] = front[j] /\ new2[j] = moved[j]
      BY <1>9, <1>15, <1>16, <1>17, <1>18, <1>19, <1>20, <2>1
    <3> QED
      BY <1>2, <1>7, <3>1, <3>2
  <2>2. CASE ~(j <= Len(front))
    <3>1. j - Len(front) \in 1 .. Cardinality(rest)
      BY <1>1, <1>15, <1>20, <2>2
    <3>2. new[j] = tail[j - Len(front)] /\ new2[j] = tail2[j - Len(front)]
      BY Zenon, <1>9, <1>15, <1>16, <1>17, <1>18, <1>19, <1>20, <2>2
    <3> QED
      BY <1>13, <1>15, <1>16, <3>1, <3>2
  <2> QED
    BY <2>1, <2>2
<1>22. MovedAlike(list, new, other, new2)
  BY <1>21 DEF MovedAlike
<1> QED
  BY <1>5, <1>9, <1>11, <1>22 DEF new, new2

\* FrontPart repeats no node: IndexRearrangementForStreams keeps the order.
LEMMA FrontPartInjects ==
  ASSUME NEW s, NEW r, NEW S, NEW list, Injects(list, S)
  PROVE  Injects(FrontPart(s, r, list), S)
<1> DEFINE fine   == FineToCoarseNodes[s][r]
           coarse == CoarseToFineNodes[s][r]
           one == { i \in DOMAIN list : list[i] \in fine }
           two == { i \in DOMAIN list : list[i] \in coarse \ fine }
<1>1. list \in Seq(S) /\ DOMAIN list = 1 .. Len(list) /\ Len(list) \in Nat
  BY LenProperties DEF Injects
<1>2. one \in SUBSET (1 .. Len(list)) /\ two \in SUBSET (1 .. Len(list))
  BY <1>1
<1>3. FrontPart(s, r, list) = Picked(list, one) \o Picked(list, two)
  BY DEF FrontPart
<1>4. \A i \in one, j \in two : list[i] # list[j]
  OBVIOUS
<1> HIDE DEF one, two
<1>5. Injects(Picked(list, one), S) /\ Injects(Picked(list, two), S)
  BY <1>2, PickedInjects
<1>6. /\ Len(Picked(list, one)) = Cardinality(one)
      /\ \A k \in 1 .. Cardinality(one) : Kth(one, k) \in one /\ Picked(list, one)[k] = list[Kth(one, k)]
  BY <1>1, <1>2, PickedType
<1>7. /\ Len(Picked(list, two)) = Cardinality(two)
      /\ \A k \in 1 .. Cardinality(two) : Kth(two, k) \in two /\ Picked(list, two)[k] = list[Kth(two, k)]
  BY <1>1, <1>2, PickedType
<1>8. \A i \in 1 .. Len(Picked(list, one)), j \in 1 .. Len(Picked(list, two)) : Picked(list, one)[i] # Picked(list, two)[j]
  BY <1>4, <1>6, <1>7
<1> QED
  BY <1>3, <1>5, <1>8, ConcatInjects

-----------------------------------------------------------------------------
(* Neighbours and layers *)

SideSet   == {-1, 1}
\* Every layer there could be, of whatever process.
AllLayers == Axes \X SideSet

\* What a setup has, by the assumption on the constants.
LEMMA SetupFacts ==
  ASSUME NEW s \in Setups
  PROVE  /\ s.n \in Extent /\ s.width \in Nat \ {0} /\ s.steps \in Nat \ {0}
         /\ s.periodic \in [Axes -> BOOLEAN]
         /\ Processes(s) = 0 .. Size(s.n) - 1 /\ Size(s.n) \in Nat \ {0}
         /\ \A a \in Axes : s.n[a] \in Nat \ {0}
<1>1. s.n \in Extent /\ s.width \in Nat \ {0} /\ s.periodic \in [Axes -> BOOLEAN] /\ s.steps \in Nat \ {0}
  BY SetupsAssumption DEF Extent
<1>2. Size(s.n) \in Nat \ {0}
  BY <1>1, SizeType
<1> QED
  BY <1>1, <1>2 DEF Processes, Extent

\* A process has a place in the grid of sub-domains, and the place its number.
LEMMA IndexInGrid ==
  ASSUME NEW s \in Setups, NEW r \in Processes(s)
  PROVE  /\ Index3D(s, r) \in Within(s.n) /\ Index1D(s, Index3D(s, r)) = r
         /\ \A a \in Axes : Index3D(s, r)[a] \in 0 .. s.n[a] - 1
<1>1. s.n \in Extent /\ r \in 0 .. Size(s.n) - 1
  BY SetupFacts
<1>2. Place(s.n, r) \in Within(s.n) /\ Number(s.n, Place(s.n, r)) = r
  BY <1>1, PlaceInBox
<1>3. \A a \in Axes : s.n[a] \in Nat
  BY SetupFacts
<1> QED
  BY <1>2, <1>3 DEF Index3D, Index1D, Within

\* Every place in the grid of sub-domains has a process.
LEMMA ProcessAtIndex ==
  ASSUME NEW s \in Setups, NEW i \in Within(s.n)
  PROVE  Index1D(s, i) \in Processes(s) /\ Index3D(s, Index1D(s, i)) = i
<1>1. s.n \in Extent /\ Processes(s) = 0 .. Size(s.n) - 1
  BY SetupFacts
<1> QED
  BY <1>1, NumberOfPlace DEF Index3D, Index1D

\* Whether there is a neighbour is a matter of the place on this axis.
LEMMA NeighborExists ==
  ASSUME NEW s \in Setups, NEW r \in Processes(s), NEW a \in Axes, NEW side \in SideSet
  PROVE  CommunicationProcess(s, r, a, side) # None
           <=> Index3D(s, r)[a] + side \in 0 .. s.n[a] - 1 \/ (s.periodic[a] /\ s.n[a] > 1)
<1> DEFINE i == Index3D(s, r)
<1>1. i \in Within(s.n) /\ i[a] \in 0 .. s.n[a] - 1 /\ s.n[a] \in Nat
  BY IndexInGrid, SetupFacts
<1> HIDE DEF i
<1>2. CASE i[a] + side \in 0 .. s.n[a] - 1
  <2>1. [i EXCEPT ![a] = @ + side] \in Within(s.n)
    BY <1>1, <1>2 DEF Within
  <2>2. Index1D(s, [i EXCEPT ![a] = @ + side]) \in Processes(s)
    BY <2>1, ProcessAtIndex
  <2>3. Index1D(s, [i EXCEPT ![a] = @ + side]) # None
    BY <2>2, SetupFacts DEF None
  <2> QED
    BY <1>2, <2>3 DEF CommunicationProcess, i
<1>3. CASE ~(i[a] + side \in 0 .. s.n[a] - 1)
  <2>1. [i EXCEPT ![a] = (@ + side) % s.n[a]] \in Within(s.n)
    <3>1. i[a] + side \in Int
      BY <1>1 DEF SideSet
    <3>2. (i[a] + side) % s.n[a] \in 0 .. s.n[a] - 1
      BY <1>1, <3>1
    <3> QED
      BY <1>1, <3>2 DEF Within
  <2>2. Index1D(s, [i EXCEPT ![a] = (@ + side) % s.n[a]]) \in Processes(s)
    BY <2>1, ProcessAtIndex
  <2>3. Index1D(s, [i EXCEPT ![a] = (@ + side) % s.n[a]]) # None
    BY <2>2, SetupFacts DEF None
  <2> QED
    BY <1>3, <2>3 DEF CommunicationProcess, i
<1> QED
  BY <1>2, <1>3 DEF i

\* A step along a ring and back; one that leaves the row comes back over the other end.
LEMMA RingStep ==
  ASSUME NEW n \in Nat, n > 1, NEW i \in 0 .. n - 1, NEW side \in SideSet
  PROVE  /\ (i + side) % n \in 0 .. n - 1 /\ (i + side) % n # i
         /\ (((i + side) % n) + (-side)) % n = i
         /\ i + side \in 0 .. n - 1 => (i + side) % n = i + side
         /\ i + side \notin 0 .. n - 1 => ((i + side) % n) + (-side) \notin 0 .. n - 1
<1>1. i + side \in 0 .. n - 1 => (i + side) % n = i + side
  BY DEF SideSet
<1>2. i + side = -1 => (i + side) % n = n - 1
  BY DEF SideSet
<1>3. i + side = n => (i + side) % n = 0
  BY DEF SideSet
<1>4. i + side \in 0 .. n - 1 \/ i + side = -1 \/ i + side = n
  BY DEF SideSet
<1>5. n % n = 0
  OBVIOUS
<1>6. (-1) % n = n - 1
  OBVIOUS
<1>7. i % n = i
  OBVIOUS
<1> QED
  BY <1>1, <1>2, <1>3, <1>4, <1>5, <1>6, <1>7 DEF SideSet

\* The neighbour on a side: one step away on the axis, with r on its other side.
LEMMA NeighborIs ==
  ASSUME NEW s \in Setups, NEW r \in Processes(s), NEW a \in Axes, NEW side \in SideSet,
         NEW p, p = CommunicationProcess(s, r, a, side), p # None
  PROVE  /\ p \in Processes(s) /\ p # r /\ s.n[a] > 1
         /\ Index3D(s, p) = [Index3D(s, r) EXCEPT ![a] = (@ + side) % s.n[a]]
         /\ CommunicationProcess(s, p, a, -side) = r
<1> DEFINE i == Index3D(s, r)  n == s.n[a]
           j == [i EXCEPT ![a] = (@ + side) % n]
<1>1. i \in Within(s.n) /\ i[a] \in 0 .. n - 1 /\ n \in Nat /\ Index1D(s, i) = r
  BY IndexInGrid, SetupFacts
<1>2. i[a] + side \in 0 .. n - 1 \/ (s.periodic[a] /\ n > 1)
  BY NeighborExists
<1>3. n > 1
  <2>1. i[a] + side \in 0 .. n - 1 => n > 1
    BY <1>1 DEF SideSet
  <2> QED
    BY <1>2, <2>1
<1> HIDE DEF i, n
<1>4. /\ (i[a] + side) % n \in 0 .. n - 1 /\ (i[a] + side) % n # i[a]
      /\ (((i[a] + side) % n) + (-side)) % n = i[a]
      /\ i[a] + side \in 0 .. n - 1 => (i[a] + side) % n = i[a] + side
      /\ i[a] + side \notin 0 .. n - 1 => ((i[a] + side) % n) + (-side) \notin 0 .. n - 1
  BY <1>1, <1>3, RingStep
<1>5. j \in Within(s.n) /\ j[a] = (i[a] + side) % n
  BY <1>1, <1>4 DEF Within, n
<1>6. p = Index1D(s, j)
  BY <1>2, <1>4 DEF CommunicationProcess, i, n
<1> HIDE DEF j
<1>7. p \in Processes(s) /\ Index3D(s, p) = j
  BY <1>5, <1>6, ProcessAtIndex
<1>8. p # r
  BY <1>4, <1>5, <1>7 DEF i
<1>9. CommunicationProcess(s, p, a, -side) = r
  <2>1. i = [j EXCEPT ![a] = (@ + (-side)) % n]
    BY <1>1, <1>4 DEF j, Within
  <2>2. CASE i[a] + side \in 0 .. n - 1
    <3>1. j[a] + (-side) = i[a]
      BY <1>1, <1>4, <1>5, <2>2 DEF SideSet
    <3>2. i = [j EXCEPT ![a] = @ + (-side)] /\ j[a] + (-side) \in 0 .. n - 1
      BY <1>1, <2>1, <3>1 DEF j, Within
    <3> QED
      BY <1>1, <1>7, <3>2 DEF CommunicationProcess, n
  <2>3. CASE i[a] + side \notin 0 .. n - 1
    <3>1. j[a] + (-side) \notin 0 .. n - 1 /\ s.periodic[a]
      BY <1>2, <1>4, <1>5, <2>3
    <3> QED
      BY <1>1, <1>3, <1>7, <2>1, <3>1 DEF CommunicationProcess, n
  <2> QED
    BY <2>2, <2>3
<1> QED
  BY <1>3, <1>7, <1>8, <1>9 DEF j, i, n

\* A process has a neighbour on one side of an axis.
Has(s, r, a, side) == CommunicationProcess(s, r, a, side) # None

\* A neighbour on one axis has the same place, neighbours and nodes on the others.
LEMMA SameOnOtherAxes ==
  ASSUME NEW s \in Setups, NEW r \in Processes(s), NEW a \in Axes, NEW side \in SideSet,
         NEW p, p = CommunicationProcess(s, r, a, side), p # None,
         NEW b \in Axes, b # a
  PROVE  /\ Index3D(s, p)[b] = Index3D(s, r)[b]
         /\ \A t \in SideSet : Has(s, p, b, t) <=> Has(s, r, b, t)
         /\ Lowest(s, p, b) = Lowest(s, r, b) /\ Highest(s, p, b) = Highest(s, r, b)
<1>1. p \in Processes(s) /\ Index3D(s, p) = [Index3D(s, r) EXCEPT ![a] = (@ + side) % s.n[a]]
  BY NeighborIs
<1>2. Index3D(s, r) \in [Axes -> Nat]
  BY IndexInGrid DEF Within
<1>3. Index3D(s, p)[b] = Index3D(s, r)[b]
  BY <1>1, <1>2
<1>0. ASSUME NEW q \in Processes(s), NEW t \in SideSet
      PROVE  Has(s, q, b, t) <=> Index3D(s, q)[b] + t \in 0 .. s.n[b] - 1 \/ (s.periodic[b] /\ s.n[b] > 1)
  BY NeighborExists DEF Has
<1>4. ASSUME NEW t \in SideSet PROVE Has(s, p, b, t) <=> Has(s, r, b, t)
  BY <1>0, <1>1, <1>3
<1>5. Has(s, p, b, -1) <=> Has(s, r, b, -1)
  BY <1>4 DEF SideSet
<1>6. Has(s, p, b, 1) <=> Has(s, r, b, 1)
  BY <1>4 DEF SideSet
<1> QED
  BY <1>3, <1>4, <1>5, <1>6 DEF Lowest, Highest, Has

\* Two processes are neighbours on one axis only.
LEMMA OneSharedAxis ==
  ASSUME NEW s \in Setups, NEW r \in Processes(s),
         NEW a \in Axes, NEW side \in SideSet, NEW b \in Axes, NEW t \in SideSet,
         Has(s, r, a, side), CommunicationProcess(s, r, a, side) = CommunicationProcess(s, r, b, t)
  PROVE  a = b
<1> DEFINE p == CommunicationProcess(s, r, a, side)
<1>1. p # None
  BY DEF Has
<1>2. /\ p \in Processes(s) /\ p # r
      /\ Index3D(s, p) = [Index3D(s, r) EXCEPT ![a] = (@ + side) % s.n[a]]
  BY <1>1, NeighborIs
<1>3. p = CommunicationProcess(s, r, b, t)
  OBVIOUS
<1> HIDE DEF p
<1>4. Index3D(s, p) = [Index3D(s, r) EXCEPT ![b] = (@ + t) % s.n[b]]
  BY <1>1, <1>3, NeighborIs
<1>5. SUFFICES ASSUME a # b PROVE FALSE
  OBVIOUS
<1>6. Index3D(s, r) \in [Axes -> Nat]
  BY IndexInGrid DEF Within
<1>7. \A c \in Axes : Index3D(s, p)[c] = Index3D(s, r)[c]
  BY <1>2, <1>4, <1>5, <1>6
<1>8. Index3D(s, p) = Index3D(s, r)
  BY <1>2, <1>6, <1>7
<1>9. p = r
  BY <1>2, <1>8, IndexInGrid
<1> QED
  BY <1>2, <1>9

\* The sides with a neighbour, in the order in which they are listed.
LEMMA SidesListed ==
  ASSUME NEW s \in Setups, NEW r \in Processes(s), NEW a \in Axes
  PROVE  LET list == ProcessNeighbor[s][r][a]
         IN /\ list \in Seq(SideSet) /\ Len(list) \in 0 .. 2 /\ DOMAIN list = 1 .. Len(list)
            /\ \A t \in SideSet : Has(s, r, a, t) <=> \E k \in 1 .. Len(list) : list[k] = t
            /\ \A k \in 1 .. Len(list) : list[k] \in SideSet /\ Has(s, r, a, list[k])
            /\ Len(list) = 2 => list = FillOrder(s, r, a) /\ list[2] = -list[1]
<1> DEFINE list == ProcessNeighbor[s][r][a]
           one == FillOrder(s, r, a)[1]  two == FillOrder(s, r, a)[2]
           p == IfNeighbor(s, r, a, one)  q == IfNeighbor(s, r, a, two)
<1>1. list = p \o q
  BY DEF ProcessNeighbor
<1>2. FillOrder(s, r, a) = <<one, two>> /\ one \in SideSet /\ two = -one /\ \A t \in SideSet : t = one \/ t = two
  BY DEF FillOrder, SideSet
<1>3. p = IF Has(s, r, a, one) THEN <<one>> ELSE << >>
  BY DEF IfNeighbor, Has
<1>4. q = IF Has(s, r, a, two) THEN <<two>> ELSE << >>
  BY DEF IfNeighbor, Has
<1>5. p \in Seq(SideSet) /\ q \in Seq(SideSet)
  <2>1. << >> \in Seq(SideSet) /\ \A t \in SideSet : <<t>> \in Seq(SideSet)
    OBVIOUS
  <2>2. one \in SideSet /\ two \in SideSet
    BY <1>2 DEF SideSet
  <2> QED
    BY ONLY <1>3, <1>4, <2>1, <2>2
<1>6. Len(p) = IF Has(s, r, a, one) THEN 1 ELSE 0
  BY <1>3
<1>7. Len(q) = IF Has(s, r, a, two) THEN 1 ELSE 0
  BY <1>4
<1>8. Has(s, r, a, one) => p[1] = one
  BY <1>3
<1>9. Has(s, r, a, two) => q[1] = two
  BY <1>4
<1> HIDE DEF p, q, one, two, list
<1>10. /\ list \in Seq(SideSet) /\ Len(list) = Len(p) + Len(q)
       /\ \A i \in 1 .. Len(p) + Len(q) : list[i] = IF i <= Len(p) THEN p[i] ELSE q[i - Len(p)]
  BY <1>1, <1>5, ConcatProperties
<1>11. DOMAIN list = 1 .. Len(list)
  BY <1>10, LenProperties
<1>12. CASE Has(s, r, a, one) /\ Has(s, r, a, two)
  <2>1. Len(list) = 2 /\ list[1] = one /\ list[2] = two
    BY <1>6, <1>7, <1>8, <1>9, <1>10, <1>12
  <2>2. list = <<one, two>>
    <3>1. <<one, two>> \in Seq(SideSet) /\ Len(<<one, two>>) = 2
      BY <1>2 DEF SideSet
    <3>2. \A i \in 1 .. 2 : list[i] = <<one, two>>[i]
      BY <2>1
    <3> QED
      BY ONLY <1>10, <2>1, <3>1, <3>2, SeqEqual
  <2> QED
    BY <1>2, <1>10, <1>11, <1>12, <2>1, <2>2 DEF list
<1>13. CASE Has(s, r, a, one) /\ ~Has(s, r, a, two)
  <2>1. Len(list) = 1 /\ list[1] = one
    BY <1>6, <1>7, <1>8, <1>10, <1>13
  <2> QED
    BY <1>2, <1>10, <1>11, <1>13, <2>1 DEF list
<1>14. CASE ~Has(s, r, a, one) /\ Has(s, r, a, two)
  <2>1. Len(list) = 1 /\ list[1] = two
    BY <1>6, <1>7, <1>9, <1>10, <1>14
  <2>2. two \in SideSet
    BY <1>2 DEF SideSet
  <2> QED
    BY SMTT(30), <1>2, <1>10, <1>11, <1>14, <2>1, <2>2 DEF list
<1>15. CASE ~Has(s, r, a, one) /\ ~Has(s, r, a, two)
  <2>1. Len(list) = 0
    BY <1>6, <1>7, <1>10, <1>15
  <2> QED
    BY <1>2, <1>10, <1>11, <1>15, <2>1 DEF list
<1> QED
  BY <1>12, <1>13, <1>14, <1>15

\* The processes an axis lists are the neighbours on the sides it lists.
LEMMA PartnersListed ==
  ASSUME NEW s \in Setups, NEW r \in Processes(s), NEW a \in Axes
  PROVE  /\ DOMAIN RankNeighbor[s][r][a] = 1 .. Len(ProcessNeighbor[s][r][a])
         /\ Len(RankNeighbor[s][r][a]) = Len(ProcessNeighbor[s][r][a])
         /\ RankNeighbor[s][r][a] \in Seq(Processes(s))
         /\ \A k \in 1 .. Len(ProcessNeighbor[s][r][a]) :
              RankNeighbor[s][r][a][k] = CommunicationProcess(s, r, a, ProcessNeighbor[s][r][a][k])
<1> DEFINE list == ProcessNeighbor[s][r][a]  partners == RankNeighbor[s][r][a]
<1>1. partners = [k \in DOMAIN list |-> CommunicationProcess(s, r, a, list[k])]
  BY DEF RankNeighbor
<1>2. /\ list \in Seq(SideSet) /\ Len(list) \in 0 .. 2 /\ DOMAIN list = 1 .. Len(list)
      /\ \A k \in 1 .. Len(list) : list[k] \in SideSet /\ Has(s, r, a, list[k])
  BY SidesListed
<1> HIDE DEF list, partners
<1>3. \A k \in 1 .. Len(list) : CommunicationProcess(s, r, a, list[k]) \in Processes(s)
  BY <1>2, NeighborIs DEF Has
<1>4. partners \in [1 .. Len(list) -> Processes(s)] /\ Len(list) \in Nat
  BY <1>1, <1>2, <1>3
<1>5. partners \in Seq(Processes(s))
  BY ONLY <1>4, SeqDef
<1>6. Len(partners) = Len(list)
  BY <1>4, <1>5, LenProperties
<1> QED
  BY <1>1, <1>2, <1>4, <1>5, <1>6 DEF list, partners

\* Where the layers of an axis begin in the list of all layers.
Offset(s, r, a) == (IF a > 1 THEN Len(ProcessNeighbor[s][r][1]) ELSE 0)
                     + (IF a > 2 THEN Len(ProcessNeighbor[s][r][2]) ELSE 0)

\* The layers of an axis in the order of its sides.
LEMMA LayersOnAxis ==
  ASSUME NEW s \in Setups, NEW r \in Processes(s), NEW a \in Axes
  PROVE  /\ LayersOn(s, r, a) \in Seq(AllLayers)
         /\ Len(LayersOn(s, r, a)) = Len(ProcessNeighbor[s][r][a])
         /\ \A k \in 1 .. Len(ProcessNeighbor[s][r][a]) : LayersOn(s, r, a)[k] = <<a, ProcessNeighbor[s][r][a][k]>>
<1> DEFINE list == ProcessNeighbor[s][r][a]
<1>1. /\ Len(list) \in Nat /\ DOMAIN list = 1 .. Len(list)
      /\ \A k \in 1 .. Len(list) : list[k] \in SideSet
  BY SidesListed
<1>2. LayersOn(s, r, a) = [k \in DOMAIN list |-> <<a, list[k]>>]
  BY DEF LayersOn
<1> HIDE DEF list
<1>3. LayersOn(s, r, a) \in [1 .. Len(list) -> AllLayers]
  BY <1>1, <1>2 DEF AllLayers
<1>4. LayersOn(s, r, a) \in Seq(AllLayers)
  BY ONLY <1>1, <1>3, SeqDef
<1>5. Len(LayersOn(s, r, a)) = Len(list)
  BY <1>1, <1>3, <1>4, LenProperties
<1> QED
  BY <1>1, <1>2, <1>4, <1>5 DEF list

\* The layers of a process stand in the order of the axes and of their sides.
LEMMA LayersInOrder ==
  ASSUME NEW s \in Setups, NEW r \in Processes(s)
  PROVE  LET list == LayerSeq[s][r]
         IN /\ list \in Seq(AllLayers) /\ Len(list) \in 0 .. 6 /\ DOMAIN list = 1 .. Len(list)
            /\ \A a \in Axes : \A i \in 1 .. Len(ProcessNeighbor[s][r][a]) :
                 /\ Offset(s, r, a) + i \in 1 .. Len(list)
                 /\ list[Offset(s, r, a) + i] = <<a, ProcessNeighbor[s][r][a][i]>>
            /\ \A k \in 1 .. Len(list) : \E a \in Axes : \E i \in 1 .. Len(ProcessNeighbor[s][r][a]) :
                 k = Offset(s, r, a) + i
<1> DEFINE P(a) == ProcessNeighbor[s][r][a]  L(a) == LayersOn(s, r, a)
           one == L(1) \o L(2)  list == LayerSeq[s][r]
<1>1. \A a \in Axes : /\ L(a) \in Seq(AllLayers) /\ Len(L(a)) = Len(P(a)) /\ Len(P(a)) \in 0 .. 2
                      /\ \A k \in 1 .. Len(P(a)) : L(a)[k] = <<a, P(a)[k]>>
  BY LayersOnAxis, SidesListed
<1>2. list = one \o L(3)
  BY DEF LayerSeq
<1> HIDE DEF P, L, list
<1>3. 1 \in Axes /\ 2 \in Axes /\ 3 \in Axes
  BY DEF Axes
<1>4. /\ one \in Seq(AllLayers) /\ Len(one) = Len(P(1)) + Len(P(2))
      /\ \A i \in 1 .. Len(P(1)) + Len(P(2)) : one[i] = IF i <= Len(P(1)) THEN L(1)[i] ELSE L(2)[i - Len(P(1))]
  <2>1. L(1) \in Seq(AllLayers) /\ L(2) \in Seq(AllLayers) /\ Len(L(1)) = Len(P(1)) /\ Len(L(2)) = Len(P(2))
    BY <1>1, <1>3
  <2>2. /\ L(1) \o L(2) \in Seq(AllLayers) /\ Len(L(1) \o L(2)) = Len(L(1)) + Len(L(2))
        /\ \A i \in 1 .. Len(L(1)) + Len(L(2)) : (L(1) \o L(2))[i] = IF i <= Len(L(1)) THEN L(1)[i] ELSE L(2)[i - Len(L(1))]
    BY <2>1, ConcatProperties
  <2> QED
    BY <2>1, <2>2
<1> HIDE DEF one
<1>5. /\ list \in Seq(AllLayers) /\ Len(list) = Len(P(1)) + Len(P(2)) + Len(P(3))
      /\ \A i \in 1 .. Len(P(1)) + Len(P(2)) + Len(P(3)) :
           list[i] = IF i <= Len(P(1)) + Len(P(2)) THEN one[i] ELSE L(3)[i - (Len(P(1)) + Len(P(2)))]
  <2>1. L(3) \in Seq(AllLayers) /\ Len(L(3)) = Len(P(3))
    BY <1>1, <1>3
  <2>2. /\ one \o L(3) \in Seq(AllLayers) /\ Len(one \o L(3)) = Len(one) + Len(L(3))
        /\ \A i \in 1 .. Len(one) + Len(L(3)) : (one \o L(3))[i] = IF i <= Len(one) THEN one[i] ELSE L(3)[i - Len(one)]
    <3> DEFINE o == L(3)
    <3>1. one \in Seq(AllLayers) /\ o \in Seq(AllLayers)
      BY <1>4, <2>1
    <3> HIDE DEF o
    <3>2. /\ one \o o \in Seq(AllLayers) /\ Len(one \o o) = Len(one) + Len(o)
          /\ \A i \in 1 .. Len(one) + Len(o) : (one \o o)[i] = IF i <= Len(one) THEN one[i] ELSE o[i - Len(one)]
      BY ONLY <3>1, ConcatProperties
    <3> QED
      BY <3>2 DEF o
  <2> QED
    BY <1>2, <1>4, <2>1, <2>2
<1>6. Len(P(1)) \in 0 .. 2 /\ Len(P(2)) \in 0 .. 2 /\ Len(P(3)) \in 0 .. 2
  BY <1>1, <1>3
<1>7. Offset(s, r, 1) = 0 /\ Offset(s, r, 2) = Len(P(1)) /\ Offset(s, r, 3) = Len(P(1)) + Len(P(2))
  BY <1>6 DEF Offset, P
<1>8. DOMAIN list = 1 .. Len(list) /\ Len(list) \in 0 .. 6
  <2>1. DOMAIN list = 1 .. Len(list)
    BY ONLY <1>5, LenProperties
  <2> QED
    <3> DEFINE n == Len(list)  u == Len(P(1))  v == Len(P(2))  w == Len(P(3))
    <3>1. n = u + v + w /\ u \in 0 .. 2 /\ v \in 0 .. 2 /\ w \in 0 .. 2
      BY ONLY <1>5, <1>6
    <3> HIDE DEF n, u, v, w
    <3>2. n \in 0 .. 6
      BY ONLY <3>1
    <3> QED
      BY ONLY <2>1, <3>2 DEF n
<1>9. ASSUME NEW a \in Axes, NEW i \in 1 .. Len(P(a))
      PROVE  Offset(s, r, a) + i \in 1 .. Len(list) /\ list[Offset(s, r, a) + i] = <<a, P(a)[i]>>
  <2>1. L(a)[i] = <<a, P(a)[i]>>
    BY <1>1, <1>9
  <2>2. CASE a = 1
    <3>1. i \in 1 .. Len(P(1)) + Len(P(2)) /\ i \in 1 .. Len(list) /\ i <= Len(P(1)) /\ Offset(s, r, a) + i = i
      BY <1>5, <1>6, <1>7, <1>9, <2>2
    <3>2. list[i] = one[i] /\ one[i] = L(1)[i]
      BY <1>4, <1>5, <1>6, <3>1
    <3> QED
      BY <2>1, <2>2, <3>1, <3>2
  <2>3. CASE a = 2
    <3> DEFINE k == Len(P(1)) + i
    <3>1. /\ k \in 1 .. Len(P(1)) + Len(P(2)) /\ k \in 1 .. Len(list)
          /\ ~(k <= Len(P(1))) /\ Offset(s, r, a) + i = k /\ k - Len(P(1)) = i
      BY SMTT(30), <1>5, <1>6, <1>7, <1>9, <2>3
    <3> HIDE DEF k
    <3>2. list[k] = one[k] /\ one[k] = L(2)[i]
      BY <1>4, <1>5, <1>6, <3>1
    <3> QED
      BY <2>1, <2>3, <3>1, <3>2
  <2>4. CASE a = 3
    <3> DEFINE k == Len(P(1)) + Len(P(2)) + i
    <3>1. /\ k \in 1 .. Len(P(1)) + Len(P(2)) + Len(P(3)) /\ k \in 1 .. Len(list)
          /\ ~(k <= Len(P(1)) + Len(P(2))) /\ Offset(s, r, a) + i = k /\ k - (Len(P(1)) + Len(P(2))) = i
      BY <1>5, <1>6, <1>7, <1>9, <2>4
    <3> HIDE DEF k
    <3>2. list[k] = L(3)[i]
      BY <1>5, <3>1
    <3> QED
      BY <2>1, <2>4, <3>1, <3>2
  <2> QED
    BY <2>2, <2>3, <2>4 DEF Axes
<1>10. ASSUME NEW k \in 1 .. Len(list)
       PROVE  \E a \in Axes : \E i \in 1 .. Len(P(a)) : k = Offset(s, r, a) + i
  <2>1. CASE k <= Len(P(1))
    <3>1. k \in 1 .. Len(P(1)) /\ k = Offset(s, r, 1) + k
      BY <1>6, <1>7, <2>1
    <3> QED
      BY <1>3, <3>1
  <2>2. CASE ~(k <= Len(P(1))) /\ k <= Len(P(1)) + Len(P(2))
    <3>1. k - Len(P(1)) \in 1 .. Len(P(2)) /\ k = Offset(s, r, 2) + (k - Len(P(1)))
      BY <1>6, <1>7, <2>2
    <3> QED
      BY <1>3, <3>1
  <2>3. CASE ~(k <= Len(P(1)) + Len(P(2)))
    <3>1. k - (Len(P(1)) + Len(P(2))) \in 1 .. Len(P(3)) /\ k = Offset(s, r, 3) + (k - (Len(P(1)) + Len(P(2))))
      BY <1>5, <1>6, <1>7, <2>3
    <3> QED
      BY <1>3, <3>1
  <2> QED
    BY <2>1, <2>2, <2>3
<1> QED
  BY <1>5, <1>8, <1>9, <1>10 DEF P, list

\* The layers are those with a neighbour behind them.
LEMMA LayersAre ==
  ASSUME NEW s \in Setups, NEW r \in Processes(s)
  PROVE  /\ LayersOf(s, r) = { l \in AllLayers : Has(s, r, l[1], l[2]) }
         /\ \A k \in 1 .. Len(LayerSeq[s][r]) : LayerSeq[s][r][k] \in LayersOf(s, r)
         /\ \A l \in LayersOf(s, r) : \E k \in 1 .. Len(LayerSeq[s][r]) : LayerSeq[s][r][k] = l
<1> DEFINE list == LayerSeq[s][r]  P(a) == ProcessNeighbor[s][r][a]
<1>1. /\ list \in Seq(AllLayers) /\ DOMAIN list = 1 .. Len(list)
      /\ \A a \in Axes : \A i \in 1 .. Len(P(a)) :
           /\ Offset(s, r, a) + i \in 1 .. Len(list)
           /\ list[Offset(s, r, a) + i] = <<a, P(a)[i]>>
      /\ \A k \in 1 .. Len(list) : \E a \in Axes : \E i \in 1 .. Len(P(a)) : k = Offset(s, r, a) + i
  BY LayersInOrder
<1>2. \A a \in Axes : /\ \A t \in SideSet : Has(s, r, a, t) <=> \E k \in 1 .. Len(P(a)) : P(a)[k] = t
                      /\ \A k \in 1 .. Len(P(a)) : P(a)[k] \in SideSet /\ Has(s, r, a, P(a)[k])
  BY SidesListed
<1>3. LayersOf(s, r) = { list[k] : k \in 1 .. Len(list) }
  BY <1>1 DEF LayersOf, ToSet
<1> HIDE DEF list, P
<1>4. ASSUME NEW k \in 1 .. Len(list) PROVE list[k] \in AllLayers /\ Has(s, r, list[k][1], list[k][2])
  <2>1. PICK a \in Axes : \E i \in 1 .. Len(P(a)) : k = Offset(s, r, a) + i
    BY <1>1
  <2>2. PICK i \in 1 .. Len(P(a)) : k = Offset(s, r, a) + i
    BY <2>1
  <2>3. list[k] = <<a, P(a)[i]>> /\ P(a)[i] \in SideSet /\ Has(s, r, a, P(a)[i])
    BY <1>1, <1>2, <2>2
  <2> QED
    BY <2>3 DEF AllLayers
<1>5. ASSUME NEW l \in AllLayers, Has(s, r, l[1], l[2]) PROVE \E k \in 1 .. Len(list) : list[k] = l
  <2>1. l[1] \in Axes /\ l[2] \in SideSet /\ l = <<l[1], l[2]>>
    BY DEF AllLayers
  <2>2. PICK i \in 1 .. Len(P(l[1])) : P(l[1])[i] = l[2]
    BY <1>2, <1>5, <2>1
  <2>3. Offset(s, r, l[1]) + i \in 1 .. Len(list) /\ list[Offset(s, r, l[1]) + i] = l
    BY <1>1, <2>1, <2>2
  <2> QED
    BY <2>3
<1>6. LayersOf(s, r) = { l \in AllLayers : Has(s, r, l[1], l[2]) }
  BY <1>3, <1>4, <1>5
<1> QED
  BY <1>3, <1>6 DEF list

\* They come axis by axis, and on an axis in the order of its sides.
LEMMA LayersSorted ==
  ASSUME NEW s \in Setups, NEW r \in Processes(s),
         NEW i \in 1 .. Len(LayerSeq[s][r]), NEW j \in 1 .. Len(LayerSeq[s][r]), i < j
  PROVE  LET l == LayerSeq[s][r][i]  m == LayerSeq[s][r][j]
         IN l[1] <= m[1] /\ (l[1] = m[1] => IsFirst(s, r, l) /\ m = Opposite(l) /\ ~IsFirst(s, r, m))
<1> DEFINE list == LayerSeq[s][r]  P(a) == ProcessNeighbor[s][r][a]
<1>1. /\ list \in Seq(AllLayers) /\ DOMAIN list = 1 .. Len(list)
      /\ \A a \in Axes : \A k \in 1 .. Len(P(a)) :
           /\ Offset(s, r, a) + k \in 1 .. Len(list)
           /\ list[Offset(s, r, a) + k] = <<a, P(a)[k]>>
      /\ \A k \in 1 .. Len(list) : \E a \in Axes : \E o \in 1 .. Len(P(a)) : k = Offset(s, r, a) + o
  BY LayersInOrder
<1>2. \A a \in Axes : /\ Len(P(a)) \in 0 .. 2 /\ \A k \in 1 .. Len(P(a)) : P(a)[k] \in SideSet
                      /\ Len(P(a)) = 2 => P(a)[2] = -P(a)[1]
  BY SidesListed
<1>3. PICK a \in Axes : \E o \in 1 .. Len(P(a)) : i = Offset(s, r, a) + o
  BY <1>1
<1>4. PICK o \in 1 .. Len(P(a)) : i = Offset(s, r, a) + o
  BY <1>3
<1>5. PICK b \in Axes : \E u \in 1 .. Len(P(b)) : j = Offset(s, r, b) + u
  BY <1>1
<1>6. PICK u \in 1 .. Len(P(b)) : j = Offset(s, r, b) + u
  BY <1>5
<1>7. Offset(s, r, 1) = 0 /\ Offset(s, r, 2) = Len(P(1)) /\ Offset(s, r, 3) = Len(P(1)) + Len(P(2))
  BY <1>2 DEF Offset, P, Axes
<1>8. list[i] = <<a, P(a)[o]>> /\ list[j] = <<b, P(b)[u]>>
  BY <1>1, <1>4, <1>6
<1> HIDE DEF P, list
<1>9. a <= b
  BY SMTT(30), <1>2, <1>4, <1>6, <1>7 DEF Axes
<1>10. ASSUME a = b PROVE o = 1 /\ u = 2 /\ Len(P(a)) = 2
  <2>1. Len(P(a)) \in 0 .. 2
    BY <1>2
  <2>2. Offset(s, r, a) \in Int
    BY <1>2, <1>7 DEF Axes
  <2>3. o \in 1 .. Len(P(a)) /\ u \in 1 .. Len(P(a)) /\ j = Offset(s, r, a) + u
    BY <1>4, <1>6, <1>10
  <2>4. i \in Int /\ j \in Int
    BY <1>4, <2>2, <2>3
  <2> QED
    <3> DEFINE f == Offset(s, r, a)  n == Len(P(a))
    <3>1. i = f + o /\ j = f + u /\ f \in Int /\ n \in 0 .. 2 /\ o \in 1 .. n /\ u \in 1 .. n /\ i < j
      BY <1>4, <2>1, <2>2, <2>3
    <3> HIDE DEF f, n
    <3>2. o = 1 /\ u = 2 /\ n = 2
      BY ONLY <3>1
    <3> QED
      BY ONLY <3>2 DEF n
<1>11. ASSUME a = b PROVE P(b)[u] = -P(a)[o] /\ P(b)[u] # P(a)[o] /\ P(a)[o] = P(a)[1]
  BY <1>2, <1>10, <1>11 DEF SideSet
<1> QED
  BY <1>8, <1>9, <1>11 DEF IsFirst, Opposite, P, list

-----------------------------------------------------------------------------
(* The nodes of a layer *)

\* A sub-domain has ghost nodes on the sides on which it has a neighbour.
LEMMA Bounds ==
  ASSUME NEW s \in Setups, NEW r \in Processes(s), NEW a \in Axes
  PROVE  /\ Lowest(s, r, a) \in {0, 1} /\ Highest(s, r, a) \in {s.width, s.width + 1}
         /\ s.width \in Nat \ {0} /\ Lowest(s, r, a) <= Highest(s, r, a)
         /\ Has(s, r, a, -1) <=> Lowest(s, r, a) = 0
         /\ Has(s, r, a, 1) <=> Highest(s, r, a) = s.width + 1
BY SetupFacts DEF Lowest, Highest, Has

\* The nodes of a sub-domain form a box.
LEMMA NodesAre ==
  ASSUME NEW s \in Setups, NEW r \in Processes(s)
  PROVE  Nodes[s][r] = { x \in [Axes -> 0 .. s.width + 1] :
                           \A a \in Axes : x[a] \in Lowest(s, r, a) .. Highest(s, r, a) }
BY DEF Nodes

\* The size of a layer and its first node.
LayerLength(s, r, a) == [b \in Axes |-> IF b = a THEN 1 ELSE Highest(s, r, b) - Lowest(s, r, b) + 1]
LayerFirst(s, r, a, c) == [b \in Axes |-> IF b = a THEN c ELSE Lowest(s, r, b)]

\* A layer is numbered like a box that is one node thick.
LEMMA LayerAtIs ==
  ASSUME NEW s, NEW r, NEW a, NEW c
  PROVE  LayerAt(s, r, a, c) =
           [k \in 1 .. Size(LayerLength(s, r, a)) |->
              [b \in Axes |-> LayerFirst(s, r, a, c)[b] + Place(LayerLength(s, r, a), k - 1)[b]]]
BY DEF LayerAt, LayerLength, LayerFirst

\* A layer has nodes.
LEMMA LayerExtent ==
  ASSUME NEW s \in Setups, NEW r \in Processes(s), NEW a \in Axes
  PROVE  LayerLength(s, r, a) \in Extent /\ Size(LayerLength(s, r, a)) \in Nat \ {0}
<1>1. ASSUME NEW b \in Axes PROVE LayerLength(s, r, a)[b] \in Nat \ {0}
  <2>1. Highest(s, r, b) - Lowest(s, r, b) + 1 \in Nat \ {0}
    BY Bounds
  <2> QED
    BY <2>1 DEF LayerLength
<1>2. LayerLength(s, r, a) \in Extent
  BY <1>1 DEF Extent, LayerLength
<1> QED
  BY <1>2, SizeType

\* A layer lists its nodes, and each of them once.
LEMMA LayerListed ==
  ASSUME NEW s \in Setups, NEW r \in Processes(s), NEW a \in Axes,
         NEW c \in Lowest(s, r, a) .. Highest(s, r, a)
  PROVE  /\ Enumerates(LayerAt(s, r, a, c), { x \in Nodes[s][r] : x[a] = c })
         /\ Len(LayerAt(s, r, a, c)) = Size(LayerLength(s, r, a))
<1> DEFINE size == LayerLength(s, r, a)  first == LayerFirst(s, r, a, c)
           list == LayerAt(s, r, a, c)  S == { x \in Nodes[s][r] : x[a] = c }
           N == Size(size)
<1>1. size \in Extent /\ N \in Nat \ {0}
  BY LayerExtent
<1>2. list = [k \in 1 .. N |-> [b \in Axes |-> first[b] + Place(size, k - 1)[b]]]
  BY LayerAtIs
<1>3. \A b \in Axes : size[b] = IF b = a THEN 1 ELSE Highest(s, r, b) - Lowest(s, r, b) + 1
  BY DEF LayerLength
<1>4. \A b \in Axes : first[b] = IF b = a THEN c ELSE Lowest(s, r, b)
  BY DEF LayerFirst
<1>5. \A b \in Axes : /\ Lowest(s, r, b) \in Int /\ Highest(s, r, b) \in Int
                      /\ 0 <= Lowest(s, r, b) /\ Highest(s, r, b) <= s.width + 1 /\ s.width \in Nat
  BY Bounds
<1>6. c \in Int /\ Lowest(s, r, a) <= c /\ c <= Highest(s, r, a)
  BY <1>5
<1>7. \A x : x \in S <=> /\ x \in [Axes -> 0 .. s.width + 1] /\ x[a] = c
                         /\ \A b \in Axes : x[b] \in Lowest(s, r, b) .. Highest(s, r, b)
  BY NodesAre
<1> HIDE DEF size, first, list, S
<1>8. \A k \in 1 .. N : k - 1 \in 0 .. N - 1
  BY <1>1
<1>9. \A k \in 1 .. N : Place(size, k - 1) \in Within(size) /\ Number(size, Place(size, k - 1)) = k - 1
  BY <1>1, <1>8, PlaceInBox
<1>10. ASSUME NEW k \in 1 .. N PROVE list[k] \in S
  <2> DEFINE i == Place(size, k - 1)
  <2>1. \A b \in Axes : i[b] \in Nat /\ i[b] < size[b]
    BY <1>9 DEF Within
  <2>2. list[k] = [b \in Axes |-> first[b] + i[b]]
    BY <1>2
  <2> HIDE DEF i
  <2>3. ASSUME NEW b \in Axes
        PROVE  /\ first[b] + i[b] \in Lowest(s, r, b) .. Highest(s, r, b) /\ first[b] + i[b] \in 0 .. s.width + 1
               /\ b = a => first[b] + i[b] = c
    <3>1. i[b] \in Nat /\ i[b] < size[b]
      BY <2>1
    <3>2. CASE b = a
      BY <1>3, <1>4, <1>5, <1>6, <3>1, <3>2
    <3>3. CASE b # a
      BY <1>3, <1>4, <1>5, <3>1, <3>3
    <3> QED
      BY <3>2, <3>3
  <2> QED
    BY <1>7, <2>2, <2>3
<1>11. list \in [1 .. N -> S]
  BY <1>2, <1>10
<1>12. list \in Seq(S) /\ Len(list) = N
  <2>1. list \in Seq(S)
    BY ONLY <1>1, <1>11, SeqDef
  <2> QED
    BY <1>1, <1>11, <2>1, LenProperties
<1>13. ASSUME NEW k \in 1 .. N, NEW m \in 1 .. N, list[k] = list[m] PROVE k = m
  <2> DEFINE i == Place(size, k - 1)  j == Place(size, m - 1)
  <2>1. i \in Within(size) /\ j \in Within(size) /\ Number(size, i) = k - 1 /\ Number(size, j) = m - 1
    BY <1>9
  <2>2. list[k] = [b \in Axes |-> first[b] + i[b]] /\ list[m] = [b \in Axes |-> first[b] + j[b]]
    BY <1>2
  <2> HIDE DEF i, j
  <2>3. \A b \in Axes : first[b] \in Int /\ i[b] \in Int /\ j[b] \in Int /\ first[b] + i[b] = first[b] + j[b]
    <3>1. \A b \in Axes : first[b] \in Int
      BY <1>4, <1>5, <1>6
    <3>2. \A b \in Axes : i[b] \in Int /\ j[b] \in Int
      BY <2>1 DEF Within
    <3>3. \A b \in Axes : list[k][b] = first[b] + i[b] /\ list[m][b] = first[b] + j[b]
      BY <2>2
    <3> QED
      BY <1>13, <3>1, <3>2, <3>3
  <2>4. ASSUME NEW b \in Axes PROVE i[b] = j[b]
    <3> DEFINE f == first[b]  u == i[b]  v == j[b]
    <3>1. f \in Int /\ u \in Int /\ v \in Int /\ f + u = f + v
      BY <2>3
    <3> HIDE DEF f, u, v
    <3>2. u = v
      BY ONLY <3>1
    <3> QED
      BY <3>2 DEF u, v
  <2>5. i = j
    BY <2>1, <2>4 DEF Within
  <2>6. k - 1 = m - 1 /\ k \in Int /\ m \in Int
    BY <2>1, <2>5
  <2> QED
    BY <2>6
<1>14. ASSUME NEW x \in S PROVE \E k \in 1 .. N : list[k] = x
  <2> DEFINE i == [b \in Axes |-> x[b] - first[b]]
  <2>1. /\ x \in [Axes -> 0 .. s.width + 1] /\ x[a] = c
        /\ \A b \in Axes : x[b] \in Lowest(s, r, b) .. Highest(s, r, b)
    BY <1>7, <1>14
  <2>2. ASSUME NEW b \in Axes
        PROVE  /\ x[b] - first[b] \in Nat /\ x[b] - first[b] < size[b]
               /\ first[b] + (x[b] - first[b]) = x[b]
    <3>1. CASE b = a
      BY <1>3, <1>4, <1>6, <2>1, <3>1
    <3>2. CASE b # a
      BY <1>3, <1>4, <1>5, <2>1, <3>2
    <3> QED
      BY <3>1, <3>2
  <2>3. i \in Within(size)
    BY <2>2 DEF Within
  <2>4. \A b \in Axes : first[b] + i[b] = x[b]
    BY <2>2
  <2> HIDE DEF i
  <2>5. Number(size, i) \in 0 .. N - 1 /\ Place(size, Number(size, i)) = i
    BY <1>1, <2>3, NumberOfPlace
  <2> DEFINE k == Number(size, i) + 1
  <2>6. k \in 1 .. N /\ k - 1 = Number(size, i)
    BY <1>1, <2>5
  <2> HIDE DEF k
  <2>7. list[k] = [b \in Axes |-> first[b] + i[b]]
    BY <1>2, <2>5, <2>6
  <2>8. list[k] = x
    BY <2>1, <2>4, <2>7
  <2> QED
    BY <2>6, <2>8
<1>15. Enumerates(list, S)
  BY <1>12, <1>13, <1>14 DEF Enumerates, Injects
<1> QED
  BY <1>12, <1>15 DEF list, S, size

\* One step across the border between two sub-domains, or around the whole grid.
LEMMA GlobalStep ==
  ASSUME NEW n \in Nat, n > 1, NEW i \in 0 .. n - 1, NEW w \in Nat \ {0}
  PROVE  /\ n * w \in Nat \ {0}
         /\ (i * w + 0 - 1) % (n * w) = (((i + (-1)) % n) * w + w - 1) % (n * w)
         /\ (i * w + (w + 1) - 1) % (n * w) = (((i + 1) % n) * w + 1 - 1) % (n * w)
<1> DEFINE m == n * w
<1>1. m \in Nat \ {0}
  BY ProductType
<1>2. ((i + (-1)) % n) = IF i = 0 THEN n - 1 ELSE i - 1
  OBVIOUS
<1>3. ((i + 1) % n) = IF i = n - 1 THEN 0 ELSE i + 1
  OBVIOUS
<1>4. (i * w + 0 - 1) % m = (((i + (-1)) % n) * w + w - 1) % m
  <2>1. CASE i = 0
    <3>1. i * w + 0 - 1 = -1 /\ ((i + (-1)) % n) * w + w - 1 = m - 1
      BY <1>2, <2>1
    <3> HIDE DEF m
    <3>2. (-1) % m = m - 1 /\ (m - 1) % m = m - 1
      BY <1>1
    <3> QED
      BY <3>1, <3>2
  <2>2. CASE i # 0
    <3>0. (i + (-1)) % n = i - 1 /\ (i - 1) * w = i * w - w
      BY <1>2, <2>2
    <3> DEFINE u == (i - 1) * w  v == i * w
    <3>1. v + 0 - 1 = u + w - 1
      <4>1. u \in Int /\ v \in Int /\ u = v - w
        BY <3>0
      <4> HIDE DEF u, v
      <4> QED
        BY <4>1
    <3>2. i * w + 0 - 1 = ((i + (-1)) % n) * w + w - 1
      BY <3>0, <3>1
    <3> HIDE DEF u, v, m
    <3> QED
      BY <3>2
  <2> QED
    BY <2>1, <2>2
<1>5. (i * w + (w + 1) - 1) % m = (((i + 1) % n) * w + 1 - 1) % m
  <2>1. CASE i = n - 1
    <3>1. i * w + (w + 1) - 1 = m /\ ((i + 1) % n) * w + 1 - 1 = 0
      BY <1>3, <2>1
    <3> HIDE DEF m
    <3>2. m % m = 0 /\ 0 % m = 0
      BY <1>1
    <3> QED
      BY <3>1, <3>2
  <2>2. CASE i # n - 1
    <3>1. i * w + (w + 1) - 1 = ((i + 1) % n) * w + 1 - 1
      BY <1>3, <2>2
    <3> QED
      BY <3>1
  <2> QED
    BY <2>1, <2>2
<1> QED
  BY <1>1, <1>4, <1>5

\* A node of a sub-domain is one of the whole grid.
LEMMA GlobalType ==
  ASSUME NEW s \in Setups, NEW r \in Processes(s), NEW x \in Nodes[s][r]
  PROVE  /\ GlobalNode[s][r][x] \in [Axes -> Nat] /\ DOMAIN GlobalNode[s][r][x] = Axes
         /\ GlobalNode[s][r][x] = [a \in Axes |-> (Index3D(s, r)[a] * s.width + x[a] - 1) % (s.n[a] * s.width)]
<1>1. GlobalNode[s][r][x] = [a \in Axes |-> (Index3D(s, r)[a] * s.width + x[a] - 1) % (s.n[a] * s.width)]
  BY DEF GlobalNode
<1>2. ASSUME NEW a \in Axes
      PROVE  (Index3D(s, r)[a] * s.width + x[a] - 1) % (s.n[a] * s.width) \in Nat
  <2> DEFINE i == Index3D(s, r)[a]  w == s.width  n == s.n[a]  c == x[a]
  <2>1. i \in Nat /\ w \in Nat \ {0} /\ n \in Nat \ {0}
    BY IndexInGrid, SetupFacts DEF Within
  <2>2. c \in Nat
    BY NodesAre, SetupFacts
  <2> HIDE DEF i, w, n, c
  <2>3. n * w \in Nat \ {0}
    BY <2>1, ProductType
  <2>4. i * w + c - 1 \in Int
    BY <2>1, <2>2
  <2> DEFINE m == n * w  k == i * w + c - 1
  <2>5. m \in Nat \ {0} /\ k \in Int
    BY <2>3, <2>4
  <2> HIDE DEF m, k
  <2>6. k % m \in Nat
    BY <2>5
  <2> QED
    BY <2>6 DEF m, k, i, w, n, c
<1> QED
  BY <1>1, <1>2

\* A layer and that of the neighbour behind it.
LEMMA OtherSide ==
  ASSUME NEW s \in Setups, NEW r \in Processes(s), NEW l \in LayersOf(s, r)
  PROVE  /\ l \in AllLayers /\ l[1] \in Axes /\ l[2] \in SideSet /\ l = <<l[1], l[2]>>
         /\ Has(s, r, l[1], l[2])
         /\ Source(s, r, l) = CommunicationProcess(s, r, l[1], l[2])
         /\ Source(s, r, l) \in Processes(s) /\ Source(s, r, l) # r /\ Source(s, r, l) # None
         /\ Opposite(l) = <<l[1], -l[2]>> /\ Opposite(l)[1] = l[1] /\ Opposite(l)[2] = -l[2]
         /\ Opposite(l) \in AllLayers /\ Opposite(Opposite(l)) = l /\ Opposite(l) # l
         /\ Opposite(l) \in LayersOf(s, Source(s, r, l))
         /\ Source(s, Source(s, r, l), Opposite(l)) = r
<1> DEFINE p == Source(s, r, l)
<1>1. l \in AllLayers /\ Has(s, r, l[1], l[2])
  BY LayersAre
<1>2. l[1] \in Axes /\ l[2] \in SideSet /\ l = <<l[1], l[2]>>
  BY <1>1 DEF AllLayers
<1>3. p = CommunicationProcess(s, r, l[1], l[2]) /\ p # None
  BY <1>1 DEF Source, Has
<1>4. Opposite(l) = <<l[1], -l[2]>> /\ Opposite(l)[1] = l[1] /\ Opposite(l)[2] = -l[2]
  BY DEF Opposite
<1> HIDE DEF p
<1>5. p \in Processes(s) /\ p # r /\ CommunicationProcess(s, p, l[1], -l[2]) = r
  BY <1>2, <1>3, NeighborIs
<1>6. Opposite(l) \in AllLayers /\ -l[2] # l[2] /\ -(-l[2]) = l[2]
  BY <1>2, <1>4 DEF AllLayers, SideSet
<1>7. Opposite(l) # l /\ Opposite(Opposite(l)) = l
  BY <1>2, <1>4, <1>6 DEF Opposite
<1>8. Has(s, p, l[1], -l[2])
  BY <1>5, SetupFacts DEF Has, None
<1>9. Opposite(l) \in LayersOf(s, p)
  BY <1>4, <1>5, <1>6, <1>8, LayersAre
<1>10. Source(s, p, Opposite(l)) = r
  BY <1>4, <1>5 DEF Source
<1> QED
  BY <1>1, <1>2, <1>3, <1>4, <1>5, <1>6, <1>7, <1>9, <1>10 DEF p

\* The nodes that are sent and received on a layer.
SendNodes(s, r, l) == { x \in Nodes[s][r] : x[l[1]] = SendCoordinate(s, l[2]) }
\* The nodes of a sub-domain that a layer receives.
RecvNodes(s, r, l) == { x \in Nodes[s][r] : x[l[1]] = RecvCoordinate(s, l[2]) }

\* The lists of the grid generator have the nodes of the layers, each once.
LEMMA IndicesListed ==
  ASSUME NEW s \in Setups, NEW r \in Processes(s), NEW l \in LayersOf(s, r)
  PROVE  /\ Enumerates(SendIndices[s][r][l], SendNodes(s, r, l))
         /\ Enumerates(ReceiveIndices[s][r][l], RecvNodes(s, r, l))
         /\ SendIndices[s][r][l] = LayerAt(s, r, l[1], SendCoordinate(s, l[2]))
         /\ ReceiveIndices[s][r][l] = LayerAt(s, r, l[1], RecvCoordinate(s, l[2]))
         /\ Len(SendIndices[s][r][l]) = Size(LayerLength(s, r, l[1]))
         /\ Len(ReceiveIndices[s][r][l]) = Size(LayerLength(s, r, l[1]))
<1>1. l[1] \in Axes /\ l[2] \in SideSet /\ Has(s, r, l[1], l[2])
  BY OtherSide
<1>2. /\ SendIndices[s][r][l] = LayerAt(s, r, l[1], SendCoordinate(s, l[2]))
      /\ ReceiveIndices[s][r][l] = LayerAt(s, r, l[1], RecvCoordinate(s, l[2]))
  BY DEF SendIndices, ReceiveIndices, LayersOf
<1>3. /\ Lowest(s, r, l[1]) \in {0, 1} /\ Highest(s, r, l[1]) \in {s.width, s.width + 1} /\ s.width \in Nat \ {0}
      /\ Has(s, r, l[1], -1) <=> Lowest(s, r, l[1]) = 0
      /\ Has(s, r, l[1], 1) <=> Highest(s, r, l[1]) = s.width + 1
  BY <1>1, Bounds
<1>4. SendCoordinate(s, l[2]) \in Lowest(s, r, l[1]) .. Highest(s, r, l[1])
  BY <1>1, <1>3 DEF SendCoordinate, SideSet
<1>5. RecvCoordinate(s, l[2]) \in Lowest(s, r, l[1]) .. Highest(s, r, l[1])
  BY <1>1, <1>3 DEF RecvCoordinate, SideSet
<1>6. /\ Enumerates(LayerAt(s, r, l[1], SendCoordinate(s, l[2])), SendNodes(s, r, l))
      /\ Len(LayerAt(s, r, l[1], SendCoordinate(s, l[2]))) = Size(LayerLength(s, r, l[1]))
  BY <1>1, <1>4, LayerListed DEF SendNodes
<1>7. /\ Enumerates(LayerAt(s, r, l[1], RecvCoordinate(s, l[2])), RecvNodes(s, r, l))
      /\ Len(LayerAt(s, r, l[1], RecvCoordinate(s, l[2]))) = Size(LayerLength(s, r, l[1]))
  BY <1>1, <1>5, LayerListed DEF RecvNodes
<1> QED
  BY <1>2, <1>6, <1>7

\* What two lists have in common at the same place: the node of the whole grid
\* and the coordinates on the other axes.
SameNode(s, r, x, p, y, a) ==
  /\ GlobalNode[s][r][x] = GlobalNode[s][p][y]
  /\ \A b \in Axes : b # a => x[b] = y[b]

\* The k-th node of a layer that is received is the k-th that the neighbour sends.
LEMMA LayersAgree ==
  ASSUME NEW s \in Setups, NEW r \in Processes(s), NEW l \in LayersOf(s, r), NEW p, p = Source(s, r, l)
  PROVE  /\ Len(ReceiveIndices[s][r][l]) = Len(SendIndices[s][p][Opposite(l)])
         /\ \A k \in 1 .. Len(ReceiveIndices[s][r][l]) :
              SameNode(s, r, ReceiveIndices[s][r][l][k], p, SendIndices[s][p][Opposite(l)][k], l[1])
<1> DEFINE m == Opposite(l)  a == l[1]  side == l[2]
           list == ReceiveIndices[s][r][l]  other == SendIndices[s][p][m]
           size == LayerLength(s, r, a)
           rc == RecvCoordinate(s, side)  sc == SendCoordinate(s, -side)
<1>1. /\ a \in Axes /\ side \in SideSet /\ p = CommunicationProcess(s, r, a, side) /\ p # None
      /\ p \in Processes(s) /\ m \in LayersOf(s, p) /\ m[1] = a /\ m[2] = -side
  BY OtherSide
<1>2. \A b \in Axes : b # a => /\ Index3D(s, p)[b] = Index3D(s, r)[b]
                               /\ Lowest(s, p, b) = Lowest(s, r, b) /\ Highest(s, p, b) = Highest(s, r, b)
  BY <1>1, SameOnOtherAxes
<1>3. Index3D(s, p) = [Index3D(s, r) EXCEPT ![a] = (@ + side) % s.n[a]] /\ s.n[a] > 1
  BY <1>1, NeighborIs
<1>4. /\ list = LayerAt(s, r, a, rc) /\ Len(list) = Size(size)
      /\ Enumerates(list, RecvNodes(s, r, l))
  BY IndicesListed
<1>5. /\ other = LayerAt(s, p, a, sc) /\ Len(other) = Size(LayerLength(s, p, a))
      /\ Enumerates(other, SendNodes(s, p, m))
  BY <1>1, IndicesListed
<1>6. LayerLength(s, p, a) = size
  BY <1>2 DEF LayerLength
<1> DEFINE F == LayerFirst(s, r, a, rc)  G == LayerFirst(s, p, a, sc)
<1>7. \A b \in Axes : F[b] = (IF b = a THEN rc ELSE Lowest(s, r, b)) /\ G[b] = (IF b = a THEN sc ELSE Lowest(s, p, b))
  BY DEF LayerFirst
<1>8. list = [k \in 1 .. Size(size) |-> [b \in Axes |-> F[b] + Place(size, k - 1)[b]]]
  BY <1>4, LayerAtIs
<1>9. other = [k \in 1 .. Size(size) |-> [b \in Axes |-> G[b] + Place(size, k - 1)[b]]]
  BY <1>5, <1>6, LayerAtIs
<1>10. size[a] = 1 /\ size \in Extent /\ Size(size) \in Nat \ {0}
  BY <1>1, LayerExtent DEF LayerLength
<1>11. Index3D(s, r) \in Within(s.n) /\ Index3D(s, r)[a] \in 0 .. s.n[a] - 1 /\ s.n[a] \in Nat /\ s.width \in Nat \ {0}
  BY <1>1, IndexInGrid, SetupFacts
<1>12. rc \in Nat /\ sc \in Nat /\ rc = (IF side = -1 THEN 0 ELSE s.width + 1) /\ sc = (IF side = -1 THEN s.width ELSE 1)
  BY <1>1, <1>11 DEF RecvCoordinate, SendCoordinate, SideSet
<1> HIDE DEF size, F, G, list, other, m, rc, sc, a, side
<1>13. ASSUME NEW k \in 1 .. Size(size) PROVE SameNode(s, r, list[k], p, other[k], a)
  <2> DEFINE i == Place(size, k - 1)  x == list[k]  y == other[k]
  <2>1. i \in Within(size)
    BY <1>10, PlaceInBox
  <2>2. i[a] = 0 /\ \A b \in Axes : i[b] \in Nat
    BY <1>1, <1>10, <2>1 DEF Within
  <2>3. x = [b \in Axes |-> F[b] + i[b]] /\ y = [b \in Axes |-> G[b] + i[b]]
    BY <1>8, <1>9
  <2>4. x \in Nodes[s][r] /\ y \in Nodes[s][p]
    <3>1. list \in Seq(RecvNodes(s, r, l)) /\ other \in Seq(SendNodes(s, p, m))
      BY <1>4, <1>5 DEF Enumerates, Injects
    <3>2. x \in RecvNodes(s, r, l) /\ y \in SendNodes(s, p, m)
      BY <1>4, <1>5, <1>6, <3>1, ElementOfSeq
    <3> QED
      BY <3>2 DEF RecvNodes, SendNodes
  <2> HIDE DEF i, x, y
  <2>5. \A b \in Axes : b # a => x[b] = y[b]
    BY <1>2, <1>7, <2>3
  <2>6. x[a] = rc /\ y[a] = sc
    BY <1>1, <1>7, <1>12, <2>2, <2>3
  <2>7. /\ GlobalNode[s][r][x] = [b \in Axes |-> (Index3D(s, r)[b] * s.width + x[b] - 1) % (s.n[b] * s.width)]
        /\ GlobalNode[s][p][y] = [b \in Axes |-> (Index3D(s, p)[b] * s.width + y[b] - 1) % (s.n[b] * s.width)]
    BY Zenon, <1>1, <2>4, GlobalType
  <2>8. ASSUME NEW b \in Axes
        PROVE  (Index3D(s, r)[b] * s.width + x[b] - 1) % (s.n[b] * s.width)
                 = (Index3D(s, p)[b] * s.width + y[b] - 1) % (s.n[b] * s.width)
    <3>1. CASE b # a
      BY <1>2, <2>5, <3>1
    <3>2. CASE b = a
      <4> DEFINE n == s.n[a]  w == s.width  o == Index3D(s, r)[a]
      <4>1. n \in Nat /\ n > 1 /\ w \in Nat \ {0} /\ o \in 0 .. n - 1
        BY <1>3, <1>11
      <4>2. Index3D(s, p)[a] = (o + side) % n
        BY <1>1, <1>3, <1>11 DEF Within
      <4> HIDE DEF n, w, o
      <4>3. /\ (o * w + 0 - 1) % (n * w) = (((o + (-1)) % n) * w + w - 1) % (n * w)
            /\ (o * w + (w + 1) - 1) % (n * w) = (((o + 1) % n) * w + 1 - 1) % (n * w)
        BY <4>1, GlobalStep
      <4>4. CASE side = -1
        <5>1. rc = 0 /\ sc = w
          BY <1>12, <4>4 DEF w
        <5>2. (o * w + rc - 1) % (n * w) = (((o + side) % n) * w + sc - 1) % (n * w)
          BY <4>3, <4>4, <5>1
        <5> QED
          BY <2>6, <3>2, <4>2, <5>2 DEF n, w, o
      <4>5. CASE side = 1
        <5>1. rc = w + 1 /\ sc = 1
          BY <1>12, <4>5 DEF w
        <5>2. (o * w + rc - 1) % (n * w) = (((o + side) % n) * w + sc - 1) % (n * w)
          BY <4>3, <4>5, <5>1
        <5> QED
          BY <2>6, <3>2, <4>2, <5>2 DEF n, w, o
      <4> QED
        BY <1>1, <4>4, <4>5 DEF SideSet
    <3> QED
      BY <3>1, <3>2
  <2>9. GlobalNode[s][r][x] = GlobalNode[s][p][y]
    BY <2>7, <2>8
  <2> QED
    BY <2>5, <2>9 DEF SameNode, x, y
<1> QED
  BY <1>4, <1>5, <1>6, <1>13 DEF list, other, m, a

\* The front parts, and the lists with these in front.
LEMMA ListsArranged ==
  ASSUME NEW s \in Setups, NEW r \in Processes(s), NEW l \in LayersOf(s, r),
         NEW p, p = Source(s, r, l), NEW m, m = Opposite(l)
  PROVE  /\ Enumerates(SendList(s, p, m), SendNodes(s, p, m))
         /\ Enumerates(RecvList(s, r, l), RecvNodes(s, r, l))
         /\ Len(SendList(s, p, m)) = Len(SendIndices[s][p][m])
         /\ Len(RecvList(s, r, l)) = Len(SendIndices[s][p][m])
         /\ Len(ReceiveIndices[s][r][l]) = Len(SendIndices[s][p][m])
         /\ Len(SendFront(s, p, m)) \in 0 .. Len(SendIndices[s][p][m])
         /\ Len(RecvFront(s, r, l)) = Len(SendFront(s, p, m))
         /\ Told(s, r, l) \in Seq(Nat) /\ Len(Told(s, r, l)) = Len(SendFront(s, p, m))
         /\ \A j \in 1 .. Len(SendIndices[s][p][m]) : SameNode(s, r, RecvList(s, r, l)[j], p, SendList(s, p, m)[j], l[1])
         /\ Refined(s) => \A j \in 1 .. Len(SendFront(s, p, m)) :
              /\ SendList(s, p, m)[j] = SendFront(s, p, m)[j]
              /\ RecvList(s, r, l)[j] = RecvFront(s, r, l)[j]
<1> DEFINE list == SendIndices[s][p][m]  other == ReceiveIndices[s][r][l]
           S == SendNodes(s, p, m)  T == RecvNodes(s, r, l)
           front == SendFront(s, p, m)  positions == Told(s, r, l)  moved == RecvFront(s, r, l)
<1>1. p \in Processes(s) /\ m \in LayersOf(s, p)
  BY OtherSide
<1>2. Enumerates(list, S)
  BY <1>1, IndicesListed
<1>3. Enumerates(other, T)
  BY IndicesListed
<1>4. /\ Len(other) = Len(list)
      /\ \A k \in 1 .. Len(other) : SameNode(s, r, other[k], p, list[k], l[1])
  BY LayersAgree
<1>5. Injects(front, S)
  BY <1>2, FrontPartInjects DEF SendFront, Enumerates
<1>6. positions = Positions(front, list)
  BY DEF Told
<1>7. moved = Moved(other, positions)
  BY DEF RecvFront, Moved
<1>8. /\ SendList(s, p, m) = IF Refined(s) THEN FrontFirst(front, list) ELSE list
      /\ RecvList(s, r, l) = IF Refined(s) THEN FrontFirst(moved, other) ELSE other
  BY DEF SendList, RecvList
<1> HIDE DEF list, other, S, T, front, positions, moved
<1>9. /\ positions \in Seq(Nat) /\ Len(positions) = Len(front)
      /\ Injects(moved, T) /\ Len(moved) = Len(front)
      /\ MovedAlike(list, FrontFirst(front, list), other, FrontFirst(moved, other))
  <2>1. Len(other) = Len(list)
    BY <1>4
  <2> QED
    BY ONLY <1>2, <1>3, <2>1, <1>5, <1>6, <1>7, SameRearrangement
<1>10. /\ Enumerates(FrontFirst(front, list), S)
       /\ Len(front) \in 0 .. Len(list) /\ Len(FrontFirst(front, list)) = Len(list)
       /\ \A j \in 1 .. Len(front) : FrontFirst(front, list)[j] = front[j]
  BY <1>2, <1>5, FrontFirstEnumerates
<1>11. /\ Enumerates(FrontFirst(moved, other), T) /\ Len(FrontFirst(moved, other)) = Len(other)
       /\ \A j \in 1 .. Len(moved) : FrontFirst(moved, other)[j] = moved[j]
  BY <1>3, <1>9, FrontFirstEnumerates
<1>12. ASSUME NEW j \in 1 .. Len(list)
       PROVE  SameNode(s, r, RecvList(s, r, l)[j], p, SendList(s, p, m)[j], l[1])
  BY Zenon, <1>4, <1>8, <1>9 DEF MovedAlike
<1>13. CASE Refined(s)
  BY Zenon, <1>4, <1>8, <1>9, <1>10, <1>11, <1>12, <1>13 DEF list, other, S, T, front, positions, moved
<1>14. CASE ~Refined(s)
  BY <1>2, <1>3, <1>4, <1>8, <1>9, <1>10, <1>12, <1>14 DEF list, other, S, T, front, positions, moved
<1> QED
  BY <1>13, <1>14

\* The same for the layer that is sent.
LEMMA SentArranged ==
  ASSUME NEW s \in Setups, NEW r \in Processes(s), NEW l \in LayersOf(s, r)
  PROVE  /\ Enumerates(SendList(s, r, l), SendNodes(s, r, l))
         /\ Len(SendList(s, r, l)) = Len(SendIndices[s][r][l])
         /\ Len(SendFront(s, r, l)) \in 0 .. Len(SendIndices[s][r][l])
         /\ Len(SendIndices[s][r][l]) \in Nat
<1>1. /\ Source(s, r, l) \in Processes(s) /\ Opposite(l) \in LayersOf(s, Source(s, r, l))
      /\ Source(s, Source(s, r, l), Opposite(l)) = r /\ Opposite(Opposite(l)) = l
  BY OtherSide
<1>2. /\ Enumerates(SendList(s, r, l), SendNodes(s, r, l))
      /\ Len(SendList(s, r, l)) = Len(SendIndices[s][r][l])
      /\ Len(SendFront(s, r, l)) \in 0 .. Len(SendIndices[s][r][l])
  BY <1>1, ListsArranged
<1>3. SendIndices[s][r][l] \in Seq(SendNodes(s, r, l))
  BY IndicesListed DEF Enumerates, Injects
<1> QED
  BY <1>2, <1>3, LenProperties

\* Nodes that differ on one axis only are settled alike after it.
LEMMA SettledAlike ==
  ASSUME NEW s \in Setups, NEW a \in Axes, NEW x, NEW y, \A b \in Axes : b # a => x[b] = y[b]
  PROVE  Settled(s, x, a + 1) <=> Settled(s, y, a + 1)
<1>1. \A b \in a + 1 .. 3 : b \in Axes /\ b # a
  BY DEF Axes
<1> QED
  BY <1>1 DEF Settled

\* Two copies of a node of the grid have the same value.
LEMMA InAlike ==
  ASSUME NEW s, NEW r, NEW x, NEW p, NEW y, NEW a, SameNode(s, r, x, p, y, a), NEW e
  PROVE  In(s, r, x, e) = In(s, p, y, e)
BY DEF SameNode, In

\* How many nodes go over a layer.
LEMMA CountsAgree ==
  ASSUME NEW s \in Setups, NEW r \in Processes(s), NEW l \in LayersOf(s, r), NEW e \in Nat
  PROVE  /\ RecvLength(s, r, l, e) = Count(s, Source(s, r, l), Opposite(l), e)
         /\ RecvLength(s, r, l, e) \in 0 .. Len(RecvList(s, r, l))
         /\ Count(s, r, l, e) \in 0 .. Len(SendList(s, r, l))
         /\ Len(RecvList(s, r, l)) \in Nat /\ Len(SendList(s, r, l)) \in Nat
<1> DEFINE p == Source(s, r, l)  m == Opposite(l)
<1>1. /\ Len(ReceiveIndices[s][r][l]) = Len(SendIndices[s][p][m]) /\ Len(RecvFront(s, r, l)) = Len(SendFront(s, p, m))
      /\ Len(RecvList(s, r, l)) = Len(SendIndices[s][p][m])
      /\ Len(SendFront(s, p, m)) \in 0 .. Len(SendIndices[s][p][m])
  BY ListsArranged
<1>2. /\ Len(SendIndices[s][r][l]) \in Nat /\ Len(SendFront(s, r, l)) \in 0 .. Len(SendIndices[s][r][l])
      /\ Len(SendList(s, r, l)) = Len(SendIndices[s][r][l])
  BY SentArranged
<1>3. Len(SendIndices[s][p][m]) \in Nat
  BY OtherSide, SentArranged
<1> QED
  BY <1>1, <1>2, <1>3 DEF Count, RecvLength

\* What is right on one side is right on the other.
LEMMA RightPassed ==
  ASSUME NEW s \in Setups, NEW r \in Processes(s), NEW l \in LayersOf(s, r), NEW e \in Nat, NEW message,
         RightSent(s, Source(s, r, l), Opposite(l), e, message)
  PROVE  RightReceived(s, r, l, e, message)
<1> DEFINE p == Source(s, r, l)  m == Opposite(l)  n == RecvLength(s, r, l, e)
           L == RecvList(s, r, l)  K == SendList(s, p, m)
<1>1. n = Count(s, p, m, e) /\ n \in 0 .. Len(L) /\ Len(L) \in Nat
  BY CountsAgree
<1>2. l[1] \in Axes /\ m[1] = l[1]
  BY OtherSide
<1>3. \A j \in 1 .. Len(L) : SameNode(s, r, L[j], p, K[j], l[1])
  BY ListsArranged
<1>4. Right(s, p, l[1], e, K, n, message)
  BY <1>1, <1>2 DEF RightSent
<1> HIDE DEF p, m, n, L, K
<1>5. ASSUME NEW j \in 1 .. n
      PROVE  /\ message[j] \in {In(s, r, L[j], e - 1), In(s, r, L[j], e)}
             /\ Settled(s, L[j], l[1] + 1) => message[j] = In(s, r, L[j], e)
  <2>1. SameNode(s, r, L[j], p, K[j], l[1])
    BY <1>1, <1>3
  <2>2. In(s, r, L[j], e) = In(s, p, K[j], e) /\ In(s, r, L[j], e - 1) = In(s, p, K[j], e - 1)
    BY <2>1, InAlike
  <2>3. Settled(s, L[j], l[1] + 1) <=> Settled(s, K[j], l[1] + 1)
    BY <1>2, <2>1, SettledAlike DEF SameNode
  <2> QED
    BY <1>4, <2>2, <2>3 DEF Right
<1>6. Right(s, r, l[1], e, L, n, message)
  BY <1>4, <1>5 DEF Right
<1> QED
  BY <1>6 DEF RightReceived, n, L

\* With the same neighbour on both sides of an axis.
LEMMA TwinFacts ==
  ASSUME NEW s \in Setups, ToldByParity(s), NEW r \in Processes(s), NEW l \in LayersOf(s, r), NEW p, p = Source(s, r, l)
  PROVE  /\ Twin(s, r, l) => /\ Opposite(l) \in LayersOf(s, r) /\ Source(s, r, Opposite(l)) = p /\ Twin(s, r, Opposite(l))
                             /\ IsFirst(s, r, Opposite(l)) <=> ~IsFirst(s, r, l)
                             /\ IsFirst(s, p, Opposite(l)) <=> IsFirst(s, r, l)
         /\ Twin(s, p, Opposite(l)) <=> Twin(s, r, l)
         /\ \A m \in LayersOf(s, r) : Source(s, r, m) = p => m = l \/ (m = Opposite(l) /\ Twin(s, r, l))
         /\ ~IsFirst(s, r, l) => Opposite(l) \in LayersOf(s, r) /\ IsFirst(s, r, Opposite(l))
<1>0. /\ l[1] \in Axes /\ l[2] \in SideSet /\ l = <<l[1], l[2]>> /\ Has(s, r, l[1], l[2])
      /\ Opposite(l) = <<l[1], -l[2]>> /\ Opposite(l)[1] = l[1] /\ Opposite(l)[2] = -l[2]
      /\ Opposite(Opposite(l)) = l /\ Opposite(l) # l /\ Opposite(l) \in AllLayers
      /\ p = CommunicationProcess(s, r, l[1], l[2]) /\ p \in Processes(s) /\ p # None
      /\ Opposite(l) \in LayersOf(s, p) /\ Source(s, p, Opposite(l)) = r
  BY OtherSide
<1> DEFINE a == l[1]  t == l[2]
<1>1. ASSUME NEW q \in Processes(s)
      PROVE  LET list == ProcessNeighbor[s][q][a]
             IN /\ Len(list) \in 0 .. 2
                /\ \A u \in SideSet : Has(s, q, a, u) <=> \E k \in 1 .. Len(list) : list[k] = u
                /\ \A k \in 1 .. Len(list) : list[k] \in SideSet /\ Has(s, q, a, list[k])
                /\ Len(list) = 2 => list = FillOrder(s, q, a) /\ list[2] = -list[1]
  BY ZenonT(30), <1>0, SidesListed
<1>2. ASSUME NEW q \in Processes(s), NEW u \in SideSet
      PROVE  <<a, u>> \in LayersOf(s, q) <=> Has(s, q, a, u)
  <2>1. <<a, u>> \in AllLayers /\ <<a, u>>[1] = a /\ <<a, u>>[2] = u
    BY <1>0 DEF AllLayers
  <2> QED
    BY <2>1, LayersAre
<1>3. -t \in SideSet /\ -(-t) = t /\ -t # t /\ SideSet = {t, -t}
  BY <1>0 DEF SideSet
<1>4. ASSUME NEW q \in Processes(s), NEW u \in SideSet, Has(s, q, a, u), Has(s, q, a, -u)
      PROVE  /\ IsFirst(s, q, <<a, u>>) <=> FillOrder(s, q, a)[1] = u
             /\ IsFirst(s, q, <<a, u>>) <=> ~IsFirst(s, q, <<a, -u>>)
  <2> DEFINE list == ProcessNeighbor[s][q][a]
  <2>1. -u \in SideSet /\ -u # u
    BY DEF SideSet
  <2>2. PICK k \in 1 .. Len(list) : list[k] = u
    BY <1>1, <1>4
  <2>3. PICK i \in 1 .. Len(list) : list[i] = -u
    BY <1>1, <1>4, <2>1
  <2>4. Len(list) = 2
    BY <1>1, <2>1, <2>2, <2>3
  <2>5. list = FillOrder(s, q, a) /\ list[2] = -list[1] /\ list[1] \in SideSet
    BY <1>1, <2>4
  <2>6. <<a, u>>[1] = a /\ <<a, u>>[2] = u /\ <<a, -u>>[1] = a /\ <<a, -u>>[2] = -u
    OBVIOUS
  <2>7. IsFirst(s, q, <<a, u>>) <=> list[1] = u
    BY <2>6 DEF IsFirst
  <2>8. IsFirst(s, q, <<a, -u>>) <=> list[1] = -u
    BY <2>6 DEF IsFirst
  <2> HIDE DEF list
  <2>9. list[1] = u <=> ~(list[1] = -u)
    BY <2>5 DEF SideSet
  <2> QED
    BY <2>5, <2>7, <2>8, <2>9
<1>5. Twin(s, r, l) <=> Has(s, r, a, -t) /\ CommunicationProcess(s, r, a, -t) = p
  BY <1>0, <1>2, <1>3 DEF Twin, Source
<1>6. Twin(s, p, Opposite(l)) <=> Has(s, p, a, t) /\ CommunicationProcess(s, p, a, t) = r
  BY <1>0, <1>2, <1>3 DEF Twin, Source
<1> HIDE DEF a, t
<1>8. CommunicationProcess(s, p, a, -t) = r /\ Has(s, p, a, -t)
  BY <1>0, <1>3, NeighborIs, SetupFacts DEF a, t, Has, None
<1>7. Twin(s, p, Opposite(l)) <=> Twin(s, r, l)
  <2>1. ASSUME Twin(s, r, l) PROVE Twin(s, p, Opposite(l))
    <3>1. -t \in SideSet /\ p = CommunicationProcess(s, r, a, -t) /\ p # None /\ -(-t) = t /\ a \in Axes
      BY <1>0, <1>3, <1>5, <2>1 DEF a
    <3>2. CommunicationProcess(s, p, a, -(-t)) = r
      BY <3>1, NeighborIs
    <3> QED
      BY <1>6, <3>1, <3>2, SetupFacts DEF Has, None
  <2>2. ASSUME Twin(s, p, Opposite(l)) PROVE Twin(s, r, l)
    <3>1. t \in SideSet /\ r = CommunicationProcess(s, p, a, t) /\ r # None /\ a \in Axes /\ p \in Processes(s)
      BY <1>0, <1>3, <1>6, <2>2, SetupFacts DEF None, a
    <3>2. CommunicationProcess(s, r, a, -t) = p
      BY <3>1, NeighborIs
    <3> QED
      BY <1>0, <1>5, <3>2 DEF Has
  <2> QED
    BY <2>1, <2>2
<1>9. ASSUME NEW m \in LayersOf(s, r), Source(s, r, m) = p PROVE m = l \/ (m = Opposite(l) /\ Twin(s, r, l))
  <2>1. /\ m[1] \in Axes /\ m[2] \in SideSet /\ m = <<m[1], m[2]>> /\ Has(s, r, m[1], m[2])
        /\ p = CommunicationProcess(s, r, m[1], m[2])
    BY <1>9, OtherSide
  <2>2. m[1] = a
    BY <1>0, <2>1, OneSharedAxis DEF a
  <2>3. m[2] = t \/ m[2] = -t
    BY <1>3, <2>1
  <2>4. CASE m[2] = t
    BY <1>0, <2>1, <2>2, <2>4 DEF a, t
  <2>5. CASE m[2] = -t
    BY <1>0, <1>5, <2>1, <2>2, <2>5 DEF a, t
  <2> QED
    BY <2>3, <2>4, <2>5
<1>10. ASSUME Twin(s, r, l)
       PROVE  /\ Opposite(l) \in LayersOf(s, r) /\ Source(s, r, Opposite(l)) = p /\ Twin(s, r, Opposite(l))
              /\ IsFirst(s, r, Opposite(l)) <=> ~IsFirst(s, r, l)
              /\ IsFirst(s, p, Opposite(l)) <=> IsFirst(s, r, l)
  <2>1. Opposite(l) \in LayersOf(s, r) /\ Source(s, r, Opposite(l)) = p
    BY <1>10 DEF Twin
  <2>2. Twin(s, r, Opposite(l))
    BY <1>0, <2>1 DEF Twin
  <2>3. l = <<a, t>> /\ Opposite(l) = <<a, -t>> /\ a \in Axes /\ t \in SideSet
    BY <1>0 DEF a, t
  <2>4. /\ Has(s, r, a, t) /\ Has(s, r, a, -t) /\ Has(s, p, a, t) /\ Has(s, p, a, -t)
        /\ CommunicationProcess(s, r, a, t) = p /\ CommunicationProcess(s, r, a, -t) = p
        /\ CommunicationProcess(s, p, a, t) = r /\ CommunicationProcess(s, p, a, -t) = r
    BY <1>0, <1>5, <1>6, <1>7, <1>8, <1>10 DEF a, t
  <2>5. /\ IsFirst(s, r, <<a, t>>) <=> FillOrder(s, r, a)[1] = t
        /\ IsFirst(s, r, <<a, t>>) <=> ~IsFirst(s, r, <<a, -t>>)
    BY <1>4, <2>3, <2>4
  <2>6. /\ IsFirst(s, p, <<a, -t>>) <=> FillOrder(s, p, a)[1] = -t
    <3> DEFINE u == -t
    <3>1. u \in SideSet /\ -u = t
      BY <1>3
    <3>2. Has(s, p, a, u) /\ Has(s, p, a, -u)
      BY <2>4, <3>1
    <3> HIDE DEF u
    <3>3. IsFirst(s, p, <<a, u>>) <=> FillOrder(s, p, a)[1] = u
      BY <1>0, <1>4, <3>1, <3>2
    <3> QED
      BY <3>3 DEF u
  <2>7. p % 2 # r % 2
    <3>1. CommunicationProcess(s, r, a, 1) = p /\ CommunicationProcess(s, r, a, -1) = p
      BY <2>3, <2>4 DEF SideSet
    <3> QED
      BY <1>0, <2>3, <3>1 DEF ToldByParity
  <2>8. p % 2 \in {0, 1} /\ r % 2 \in {0, 1}
    <3>1. p \in Nat /\ r \in Nat
      BY <1>0, SetupFacts
    <3> QED
      BY <3>1
  <2>9. ASSUME NEW q \in {p, r}
        PROVE FillOrder(s, q, a)[1] = (IF q % 2 = 1 THEN 1 ELSE -1)
    <3>1. CommunicationProcess(s, q, a, -1) = CommunicationProcess(s, q, a, 1)
      BY <2>3, <2>4 DEF SideSet
    <3> QED
      BY <3>1 DEF FillOrder
  <2>10. FillOrder(s, p, a)[1] = -t <=> FillOrder(s, r, a)[1] = t
    BY <2>3, <2>7, <2>8, <2>9 DEF SideSet
  <2> QED
    BY <2>1, <2>2, <2>3, <2>5, <2>6, <2>10
<1>11. ASSUME ~IsFirst(s, r, l) PROVE Opposite(l) \in LayersOf(s, r) /\ IsFirst(s, r, Opposite(l))
  <2> DEFINE list == ProcessNeighbor[s][r][a]
  <2>1. PICK k \in 1 .. Len(list) : list[k] = t
    BY <1>0, <1>1 DEF a, t
  <2>2. list[1] # t
    BY <1>11 DEF IsFirst, a, t
  <2>3. 1 \in 1 .. Len(list) /\ list[1] \in SideSet /\ Has(s, r, a, list[1])
    BY <1>1, <2>1
  <2>4. list[1] = -t
    BY <1>3, <2>2, <2>3
  <2>5. Opposite(l) \in LayersOf(s, r)
    BY <1>0, <1>2, <1>3, <2>3, <2>4 DEF a, t
  <2> QED
    BY <1>0, <2>4, <2>5 DEF IsFirst, a, t
<1> QED
  BY <1>7, <1>9, <1>10, <1>11

-----------------------------------------------------------------------------
(* Places of layers, and the axis that follows *)

\* Every layer has its place, and every place its layer.
LEMMA Places ==
  ASSUME NEW s \in Setups, NEW r \in Processes(s)
  PROVE  /\ \A l \in LayersOf(s, r) : PlaceOf(s, r, l) \in 1 .. Len(LayerSeq[s][r]) /\ LayerSeq[s][r][PlaceOf(s, r, l)] = l
         /\ \A k \in 1 .. Len(LayerSeq[s][r]) : LayerSeq[s][r][k] \in LayersOf(s, r) /\ PlaceOf(s, r, LayerSeq[s][r][k]) = k
         /\ Len(LayerSeq[s][r]) \in 0 .. 6
<1> DEFINE list == LayerSeq[s][r]
<1>1. /\ \A k \in 1 .. Len(list) : list[k] \in LayersOf(s, r)
      /\ \A l \in LayersOf(s, r) : \E k \in 1 .. Len(list) : list[k] = l
  BY LayersAre
<1>2. Len(list) \in 0 .. 6
  BY LayersInOrder
<1>3. ASSUME NEW l \in LayersOf(s, r) PROVE PlaceOf(s, r, l) \in 1 .. Len(list) /\ list[PlaceOf(s, r, l)] = l
  BY <1>1 DEF PlaceOf
<1>4. ASSUME NEW i \in 1 .. Len(list), NEW j \in 1 .. Len(list), i < j PROVE list[i] # list[j]
  <2>1. list[i][1] = list[j][1] => list[j] = Opposite(list[i])
    BY <1>4, LayersSorted
  <2>2. Opposite(list[i]) # list[i]
    BY <1>1, OtherSide
  <2> QED
    BY <2>1, <2>2
<1> HIDE DEF list
<1>5. ASSUME NEW k \in 1 .. Len(list) PROVE PlaceOf(s, r, list[k]) = k
  <2> DEFINE i == PlaceOf(s, r, list[k])
  <2>1. list[k] \in LayersOf(s, r)
    BY <1>1
  <2>2. i \in 1 .. Len(list) /\ list[i] = list[k]
    BY <1>3, <2>1
  <2> HIDE DEF i
  <2>3. ~(i < k) /\ ~(k < i)
    BY <1>4, <2>2
  <2> QED
    BY <1>2, <2>2, <2>3 DEF i
<1> QED
  BY <1>1, <1>2, <1>3, <1>5 DEF list

\* The k-th of the layers of an axis.
LEMMA SidePlaces ==
  ASSUME NEW s \in Setups, NEW r \in Processes(s)
  PROVE  /\ \A l \in LayersOf(s, r) :
              /\ SideOf(s, r, l) \in 1 .. Len(ProcessNeighbor[s][r][l[1]]) /\ Len(ProcessNeighbor[s][r][l[1]]) \in 1 .. 2
              /\ ProcessNeighbor[s][r][l[1]][SideOf(s, r, l)] = l[2]
              /\ RankNeighbor[s][r][l[1]][SideOf(s, r, l)] = Source(s, r, l)
              /\ \A k \in 1 .. Len(ProcessNeighbor[s][r][l[1]]) : ProcessNeighbor[s][r][l[1]][k] = l[2] => k = SideOf(s, r, l)
         /\ \A a \in Axes : \A k \in 1 .. Len(ProcessNeighbor[s][r][a]) :
              LET l == <<a, ProcessNeighbor[s][r][a][k]>>
              IN l \in LayersOf(s, r) /\ SideOf(s, r, l) = k
<1> DEFINE P(a) == ProcessNeighbor[s][r][a]
<1>1. \A a \in Axes : /\ Len(P(a)) \in 0 .. 2 /\ DOMAIN P(a) = 1 .. Len(P(a))
                      /\ \A t \in SideSet : Has(s, r, a, t) <=> \E k \in 1 .. Len(P(a)) : P(a)[k] = t
                      /\ \A k \in 1 .. Len(P(a)) : P(a)[k] \in SideSet /\ Has(s, r, a, P(a)[k])
                      /\ Len(P(a)) = 2 => P(a)[2] = -P(a)[1]
  BY SidesListed
<1>2. \A a \in Axes : \A k \in 1 .. Len(P(a)) : RankNeighbor[s][r][a][k] = CommunicationProcess(s, r, a, P(a)[k])
  BY PartnersListed
<1> HIDE DEF P
<1>3. ASSUME NEW l \in LayersOf(s, r)
      PROVE  /\ SideOf(s, r, l) \in 1 .. Len(P(l[1])) /\ Len(P(l[1])) \in 1 .. 2
             /\ P(l[1])[SideOf(s, r, l)] = l[2]
             /\ RankNeighbor[s][r][l[1]][SideOf(s, r, l)] = Source(s, r, l)
             /\ \A k \in 1 .. Len(P(l[1])) : P(l[1])[k] = l[2] => k = SideOf(s, r, l)
  <2> DEFINE a == l[1]
  <2>1. a \in Axes /\ l[2] \in SideSet /\ Has(s, r, a, l[2]) /\ Source(s, r, l) = CommunicationProcess(s, r, a, l[2])
    BY OtherSide
  <2>2. PICK k \in 1 .. Len(P(a)) : P(a)[k] = l[2]
    BY <1>1, <2>1
  <2>3. IsFirst(s, r, l) <=> P(a)[1] = l[2]
    BY DEF IsFirst, P
  <2>4. Len(P(a)) \in 0 .. 2 /\ P(a)[1] \in SideSet /\ (Len(P(a)) = 2 => P(a)[2] = -P(a)[1])
    BY <1>1, <2>1, <2>2
  <2> HIDE DEF a
  <2>5. Len(P(a)) \in 1 .. 2
    BY <2>2, <2>4
  <2>6. SideOf(s, r, l) \in 1 .. Len(P(a)) /\ P(a)[SideOf(s, r, l)] = l[2]
    <3>1. CASE k = 1
      BY <2>2, <2>3, <2>5, <3>1 DEF SideOf
    <3>2. CASE k # 1
      <4>1. k = 2 /\ Len(P(a)) = 2
        BY <2>2, <2>4, <3>2
      <4>2. P(a)[1] # l[2]
        BY <2>2, <2>4, <4>1 DEF SideSet
      <4> QED
        BY <2>2, <2>3, <4>1, <4>2 DEF SideOf
    <3> QED
      BY <3>1, <3>2
  <2>7. ASSUME NEW i \in 1 .. Len(P(a)), P(a)[i] = l[2] PROVE i = SideOf(s, r, l)
    <3>1. CASE i = 1
      BY <2>3, <2>7, <3>1 DEF SideOf
    <3>2. CASE i # 1
      <4> DEFINE n == Len(P(a))
      <4>0. n \in 1 .. 2 /\ i \in 1 .. n
        BY <2>5
      <4> HIDE DEF n
      <4>1. i = 2 /\ n = 2
        BY ONLY <3>2, <4>0
      <4> USE DEF n
      <4>2. P(a)[1] # l[2]
        BY <2>4, <2>7, <4>1 DEF SideSet
      <4> QED
        BY <2>3, <4>1, <4>2 DEF SideOf
    <3> QED
      BY <3>1, <3>2
  <2>8. RankNeighbor[s][r][a][SideOf(s, r, l)] = Source(s, r, l)
    BY <1>2, <2>1, <2>6
  <2> QED
    BY <2>5, <2>6, <2>7, <2>8 DEF a
<1>4. ASSUME NEW a \in Axes, NEW k \in 1 .. Len(P(a))
      PROVE  <<a, P(a)[k]>> \in LayersOf(s, r) /\ SideOf(s, r, <<a, P(a)[k]>>) = k
  <2> DEFINE l == <<a, P(a)[k]>>
  <2>1. l \in AllLayers /\ l[1] = a /\ l[2] = P(a)[k] /\ Has(s, r, l[1], l[2])
    BY <1>1 DEF AllLayers
  <2> HIDE DEF l
  <2>2. l \in LayersOf(s, r)
    BY <2>1, LayersAre
  <2>3. SideOf(s, r, l) = k
    BY <1>3, <2>1, <2>2
  <2> QED
    BY <2>2, <2>3 DEF l
<1> QED
  BY <1>3, <1>4 DEF P

\* Of two layers with the same neighbour one comes directly after the other.
LEMMA TwinPlaces ==
  ASSUME NEW s \in Setups, NEW r \in Processes(s), NEW l \in LayersOf(s, r), Opposite(l) \in LayersOf(s, r), IsFirst(s, r, l)
  PROVE  PlaceOf(s, r, Opposite(l)) = PlaceOf(s, r, l) + 1 /\ ~IsFirst(s, r, Opposite(l))
<1> DEFINE list == LayerSeq[s][r]  a == l[1]  P == ProcessNeighbor[s][r][a]  m == Opposite(l)
<1>1. l[1] \in Axes /\ l[2] \in SideSet /\ l = <<l[1], l[2]>> /\ m = <<l[1], -l[2]>> /\ m[1] = l[1] /\ m[2] = -l[2] /\ m # l
  BY OtherSide
<1>2. /\ SideOf(s, r, m) \in 1 .. Len(P) /\ Len(P) \in 1 .. 2 /\ P[SideOf(s, r, m)] = m[2]
      /\ SideOf(s, r, l) \in 1 .. Len(P) /\ P[SideOf(s, r, l)] = l[2]
  BY <1>1, SidePlaces
<1>3. SideOf(s, r, l) = 1
  BY DEF SideOf
<1>4. -l[2] # l[2]
  BY <1>1 DEF SideSet
<1>5. SideOf(s, r, m) = 2 /\ ~IsFirst(s, r, m)
  BY <1>1, <1>2, <1>3, <1>4 DEF SideOf
<1>6. /\ DOMAIN list = 1 .. Len(list)
      /\ \A k \in 1 .. Len(P) : Offset(s, r, a) + k \in 1 .. Len(list) /\ list[Offset(s, r, a) + k] = <<a, P[k]>>
  BY <1>1, LayersInOrder
<1>7. Offset(s, r, a) \in Int
  <2>1. \A b \in Axes : Len(ProcessNeighbor[s][r][b]) \in 0 .. 2
    BY SidesListed
  <2>2. Len(ProcessNeighbor[s][r][1]) \in 0 .. 2 /\ Len(ProcessNeighbor[s][r][2]) \in 0 .. 2
    BY <2>1 DEF Axes
  <2> QED
    BY <2>2 DEF Offset
<1> HIDE DEF list, P, a, m
<1>8. Offset(s, r, a) + 1 \in 1 .. Len(list) /\ list[Offset(s, r, a) + 1] = l
  BY <1>1, <1>2, <1>3, <1>6 DEF a
<1>9. Offset(s, r, a) + 2 \in 1 .. Len(list) /\ list[Offset(s, r, a) + 2] = m
  BY <1>1, <1>2, <1>5, <1>6 DEF a
<1>10. PlaceOf(s, r, l) = Offset(s, r, a) + 1 /\ PlaceOf(s, r, m) = Offset(s, r, a) + 2
  BY <1>8, <1>9, Places DEF list
<1> QED
  BY <1>5, <1>7, <1>10 DEF m

\* Next(b): the axis that follows a.
FollowingIs(s, r, a, b) ==
  /\ b \in a + 1 .. 4
  /\ b = 4 \/ Len(ProcessNeighbor[s][r][b]) > 0
  /\ \A l \in LayersOf(s, r) : l[1] <= a \/ l[1] >= b

\* The axis found is the next one that has a neighbour, or there is none.
LEMMA FollowingAxis ==
  ASSUME NEW s \in Setups, setup = s, NEW r \in Processes(s), NEW a \in 0 .. 3
  PROVE  FollowingIs(s, r, a, Following(r, a))
<1> DEFINE P(c) == ProcessNeighbor[s][r][c]
           Q(b) == (b = 4 \/ Sides(r, b) # {}) /\ \A c \in a + 1 .. b - 1 : Sides(r, c) = {}
           b == Following(r, a)
<1>1. \A c \in Axes : /\ Len(P(c)) \in 0 .. 2 /\ DOMAIN P(c) = 1 .. Len(P(c))
                      /\ \A t \in SideSet : Has(s, r, c, t) <=> \E k \in 1 .. Len(P(c)) : P(c)[k] = t
  BY SidesListed
<1>2. ASSUME NEW c \in Axes PROVE Sides(r, c) = { P(c)[k] : k \in 1 .. Len(P(c)) }
  <2>1. Sides(r, c) = { P(c)[k] : k \in DOMAIN P(c) }
    BY DEF Sides, ProcessNeighbors, ToSet
  <2> QED
    BY <1>1, <2>1
<1> HIDE DEF P
<1>3. \A c \in Axes : Sides(r, c) # {} <=> Len(P(c)) > 0
  BY <1>1, <1>2
<1>4. \E c \in a + 1 .. 4 : Q(c)
  <2>1. CASE a = 3
    <3>1. 4 \in a + 1 .. 4 /\ \A c \in a + 1 .. 4 - 1 : FALSE
      BY <2>1
    <3> QED
      BY <3>1
  <2>2. CASE a = 2
    <3>1. CASE Sides(r, 3) # {}
      <4>1. 3 \in a + 1 .. 4 /\ \A c \in a + 1 .. 3 - 1 : FALSE
        BY <2>2
      <4> QED
        BY <3>1, <4>1
    <3>2. CASE Sides(r, 3) = {}
      <4>1. 4 \in a + 1 .. 4 /\ \A c \in a + 1 .. 4 - 1 : c = 3
        BY <2>2
      <4> QED
        BY <3>2, <4>1
    <3> QED
      BY <3>1, <3>2
  <2>3. CASE a = 1
    <3>1. CASE Sides(r, 2) # {}
      <4>1. 2 \in a + 1 .. 4 /\ \A c \in a + 1 .. 2 - 1 : FALSE
        BY <2>3
      <4> QED
        BY <3>1, <4>1
    <3>2. CASE Sides(r, 2) = {} /\ Sides(r, 3) # {}
      <4>1. 3 \in a + 1 .. 4 /\ \A c \in a + 1 .. 3 - 1 : c = 2
        BY <2>3
      <4> QED
        BY <3>2, <4>1
    <3>3. CASE Sides(r, 2) = {} /\ Sides(r, 3) = {}
      <4>1. 4 \in a + 1 .. 4 /\ \A c \in a + 1 .. 4 - 1 : c = 2 \/ c = 3
        BY <2>3
      <4> QED
        BY <3>3, <4>1
    <3> QED
      BY <3>1, <3>2, <3>3
  <2>4. CASE a = 0
    <3>1. CASE Sides(r, 1) # {}
      <4>1. 1 \in a + 1 .. 4 /\ \A c \in a + 1 .. 1 - 1 : FALSE
        BY <2>4
      <4> QED
        BY <3>1, <4>1
    <3>2. CASE Sides(r, 1) = {} /\ Sides(r, 2) # {}
      <4>1. 2 \in a + 1 .. 4 /\ \A c \in a + 1 .. 2 - 1 : c = 1
        BY <2>4
      <4> QED
        BY <3>2, <4>1
    <3>3. CASE Sides(r, 1) = {} /\ Sides(r, 2) = {} /\ Sides(r, 3) # {}
      <4>1. 3 \in a + 1 .. 4 /\ \A c \in a + 1 .. 3 - 1 : c = 1 \/ c = 2
        BY <2>4
      <4> QED
        BY <3>3, <4>1
    <3>4. CASE Sides(r, 1) = {} /\ Sides(r, 2) = {} /\ Sides(r, 3) = {}
      <4>1. 4 \in a + 1 .. 4 /\ \A c \in a + 1 .. 4 - 1 : c = 1 \/ c = 2 \/ c = 3
        BY <2>4
      <4> QED
        BY <3>4, <4>1
    <3> QED
      BY <3>1, <3>2, <3>3, <3>4
  <2> QED
    BY <2>1, <2>2, <2>3, <2>4
<1>5. b = CHOOSE c \in a + 1 .. 4 : Q(c)
  BY DEF Following
<1>6. b \in a + 1 .. 4 /\ Q(b)
  <2> HIDE DEF Q, b
  <2> QED
    BY <1>4, <1>5
<1> HIDE DEF b
<1>7. b = 4 \/ Len(P(b)) > 0
  <2>1. b # 4 => b \in Axes
    BY <1>6 DEF Axes
  <2> QED
    BY <1>3, <1>6, <2>1
<1>8. ASSUME NEW l \in LayersOf(s, r) PROVE l[1] <= a \/ l[1] >= b
  <2>1. l[1] \in Axes /\ l[2] \in SideSet /\ Has(s, r, l[1], l[2])
    BY OtherSide
  <2>2. Sides(r, l[1]) # {}
    <3>1. PICK k \in 1 .. Len(P(l[1])) : P(l[1])[k] = l[2]
      BY <1>1, <2>1
    <3> QED
      BY <1>2, <2>1, <3>1
  <2> DEFINE c == l[1]
  <2>3. c \notin a + 1 .. b - 1
    BY <1>6, <2>2
  <2>4. c \in Int /\ b \in Int
    BY <1>6, <2>1 DEF Axes
  <2> HIDE DEF c
  <2>5. c <= a \/ c >= b
    BY <1>6, <2>3, <2>4
  <2> QED
    BY <2>5 DEF c
<1> QED
  BY <1>6, <1>7, <1>8 DEF FollowingIs, P, b

-----------------------------------------------------------------------------
(* Lists of anything *)

\* The length and the positions of a list.
LEMMA ListType ==
  ASSUME NEW f, IsList(f)
  PROVE  Len(f) \in Nat /\ DOMAIN f = 1 .. Len(f)
BY LenProperties DEF IsList

\* A sequence is a list.
LEMMA SeqIsList ==
  ASSUME NEW S, NEW f \in Seq(S)
  PROVE  IsList(f) /\ Len(f) \in Nat /\ DOMAIN f = 1 .. Len(f)
<1>1. Len(f) \in Nat /\ DOMAIN f = 1 .. Len(f) /\ f \in [1 .. Len(f) -> S]
  BY LenProperties
<1>2. f \in [1 .. Len(f) -> { f[j] : j \in DOMAIN f }]
  BY <1>1
<1>3. f \in Seq({ f[j] : j \in DOMAIN f })
  BY ONLY <1>1, <1>2, SeqDef
<1> QED
  BY <1>1, <1>3 DEF IsList

\* A function on 1 .. n is a list of length n.
LEMMA FunctionIsList ==
  ASSUME NEW S, NEW n \in Nat, NEW f \in [1 .. n -> S]
  PROVE  IsList(f) /\ Len(f) = n /\ DOMAIN f = 1 .. n
<1>1. f \in Seq(S)
  BY SeqDef
<1> QED
  BY <1>1, SeqIsList, LenProperties

\* A sequence may have its elements in a larger set.
LEMMA InWider ==
  ASSUME NEW S, NEW T, NEW f \in Seq(S)
  PROVE  f \in Seq(S \cup T) /\ f \in Seq(T \cup S)
<1>1. Len(f) \in Nat /\ f \in [1 .. Len(f) -> S]
  BY LenProperties
<1>2. f \in [1 .. Len(f) -> S \cup T] /\ f \in [1 .. Len(f) -> T \cup S]
  BY <1>1
<1> QED
  BY ONLY <1>1, <1>2, SeqDef

\* Two lists make a list.
LEMMA ConcatList ==
  ASSUME NEW f, IsList(f), NEW g, IsList(g)
  PROVE  IsList(f \o g) /\ Len(f \o g) = Len(f) + Len(g)
<1> DEFINE S == { f[j] : j \in DOMAIN f }  T == { g[j] : j \in DOMAIN g }
<1>1. f \in Seq(S) /\ g \in Seq(T)
  BY DEF IsList
<1> HIDE DEF S, T
<1>2. f \in Seq(S \cup T) /\ g \in Seq(S \cup T)
  BY <1>1, InWider
<1>3. f \o g \in Seq(S \cup T) /\ Len(f \o g) = Len(f) + Len(g)
  BY <1>2, ConcatProperties
<1> QED
  BY <1>3, SeqIsList

\* Append adds one element at the end.
LEMMA AppendList ==
  ASSUME NEW f, IsList(f), NEW v
  PROVE  /\ IsList(Append(f, v)) /\ Len(Append(f, v)) = Len(f) + 1
         /\ \A i \in 1 .. Len(f) : Append(f, v)[i] = f[i]
         /\ Append(f, v)[Len(f) + 1] = v
<1> DEFINE S == { f[j] : j \in DOMAIN f }  T == {v}
<1>1. f \in Seq(S) /\ v \in T
  BY DEF IsList
<1> HIDE DEF S, T
<1>2. f \in Seq(S \cup T) /\ v \in S \cup T
  BY <1>1, InWider
<1>3. /\ Append(f, v) \in Seq(S \cup T) /\ Len(Append(f, v)) = Len(f) + 1
      /\ \A i \in 1 .. Len(f) : Append(f, v)[i] = f[i]
      /\ Append(f, v)[Len(f) + 1] = v
  BY <1>2, AppendProperties
<1> QED
  BY <1>3, SeqIsList

\* A list without its first k elements.
LEMMA DropList ==
  ASSUME NEW f, IsList(f), NEW k \in Nat, k <= Len(f)
  PROVE  /\ IsList(SubSeq(f, k + 1, Len(f))) /\ Len(SubSeq(f, k + 1, Len(f))) = Len(f) - k
         /\ \A i \in 1 .. Len(f) - k : SubSeq(f, k + 1, Len(f))[i] = f[i + k]
<1> DEFINE S == { f[j] : j \in DOMAIN f }  g == SubSeq(f, k + 1, Len(f))
<1>1. f \in Seq(S) /\ Len(f) \in Nat /\ DOMAIN f = 1 .. Len(f)
  BY ListType DEF IsList
<1>2. g = [i \in 1 .. (1 + Len(f) - (k + 1)) |-> f[i + (k + 1) - 1]]
  BY <1>1 DEF SubSeq
<1>3. 1 + Len(f) - (k + 1) = Len(f) - k /\ Len(f) - k \in Nat
  BY <1>1
<1>4. \A i \in 1 .. Len(f) - k : i + (k + 1) - 1 = i + k /\ i + k \in 1 .. Len(f)
  BY <1>1
<1>5. g = [i \in 1 .. Len(f) - k |-> f[i + k]]
  BY <1>2, <1>3, <1>4
<1>6. g \in [1 .. Len(f) - k -> S]
  BY <1>1, <1>4, <1>5
<1> HIDE DEF g, S
<1>7. IsList(g) /\ Len(g) = Len(f) - k
  BY Zenon, <1>3, <1>6, FunctionIsList
<1> QED
  BY <1>5, <1>7 DEF g

\* A list without its first element.
LEMMA TailList ==
  ASSUME NEW f, IsList(f), f # << >>
  PROVE  /\ IsList(Tail(f)) /\ Len(Tail(f)) = Len(f) - 1 /\ Len(f) > 0
         /\ Head(f) = f[1] /\ \A i \in 1 .. Len(f) - 1 : Tail(f)[i] = f[i + 1]
<1> DEFINE S == { f[j] : j \in DOMAIN f }
<1>1. f \in Seq(S)
  BY DEF IsList
<1> HIDE DEF S
<1>2. Head(f) = f[1] /\ Tail(f) \in Seq(S) /\ Len(Tail(f)) = Len(f) - 1 /\ \A i \in 1 .. Len(Tail(f)) : Tail(f)[i] = f[i + 1]
  BY <1>1, HeadTailProperties
<1>3. Len(f) \in Nat /\ Len(f) # 0
  BY <1>1, EmptySeq, LenProperties
<1>4. IsList(Tail(f))
  BY <1>2, SeqIsList
<1>5. Len(f) > 0
  BY <1>3
<1>6. \A i \in 1 .. Len(f) - 1 : Tail(f)[i] = f[i + 1]
  BY <1>2
<1> QED
  BY <1>2, <1>4, <1>5, <1>6

\* What is picked of a list is a list.
LEMMA PickedList ==
  ASSUME NEW list, IsList(list), NEW at \in SUBSET (1 .. Len(list))
  PROVE  IsList(Picked(list, at))
<1> DEFINE S == { list[j] : j \in DOMAIN list }
<1>1. list \in Seq(S)
  BY DEF IsList
<1> HIDE DEF S
<1>2. Picked(list, at) \in Seq(S)
  BY <1>1, PickedType
<1> QED
  BY <1>2, SeqIsList

\* The rearranged list is a list that is at least as long as its front.
LEMMA FrontFirstList ==
  ASSUME NEW list, IsList(list), NEW front, IsList(front)
  PROVE  IsList(FrontFirst(front, list)) /\ Len(front) \in 0 .. Len(FrontFirst(front, list))
<1> DEFINE at == { i \in DOMAIN list : list[i] \notin ToSet(front) }
<1>1. at \in SUBSET (1 .. Len(list))
  BY ListType
<1>2. FrontFirst(front, list) = front \o Picked(list, at)
  BY DEF FrontFirst
<1> HIDE DEF at
<1>3. IsList(Picked(list, at))
  BY <1>1, PickedList
<1>4. IsList(FrontFirst(front, list)) /\ Len(FrontFirst(front, list)) = Len(front) + Len(Picked(list, at))
  BY <1>2, <1>3, ConcatList
<1>5. Len(front) \in Nat /\ Len(Picked(list, at)) \in Nat
  BY <1>3, ListType
<1> QED
  BY <1>4, <1>5

\* The front part of a list is a list.
LEMMA FrontPartList ==
  ASSUME NEW s, NEW r, NEW list, IsList(list)
  PROVE  IsList(FrontPart(s, r, list))
<1> DEFINE fine   == FineToCoarseNodes[s][r]
           coarse == CoarseToFineNodes[s][r]
           one == { i \in DOMAIN list : list[i] \in fine }
           two == { i \in DOMAIN list : list[i] \in coarse \ fine }
<1>1. DOMAIN list = 1 .. Len(list)
  BY ListType
<1>2. one \in SUBSET (1 .. Len(list)) /\ two \in SUBSET (1 .. Len(list))
  BY <1>1
<1>3. FrontPart(s, r, list) = Picked(list, one) \o Picked(list, two)
  BY DEF FrontPart
<1> HIDE DEF one, two
<1> QED
  BY <1>2, <1>3, PickedList, ConcatList

\* There are as many positions as nodes to find.
LEMMA PositionsList ==
  ASSUME NEW front, IsList(front), NEW list
  PROVE  IsList(Positions(front, list)) /\ Len(Positions(front, list)) = Len(front)
<1> DEFINE f == Positions(front, list)
<1>1. DOMAIN front = 1 .. Len(front) /\ Len(front) \in Nat
  BY ListType
<1>2. f = [j \in DOMAIN front |-> (CHOOSE i \in DOMAIN list : list[i] = front[j]) - 1]
  BY DEF Positions
<1>3. DOMAIN f = 1 .. Len(front) /\ f \in [1 .. Len(front) -> { f[j] : j \in 1 .. Len(front) }]
  BY <1>1, <1>2
<1> HIDE DEF f
<1>4. IsList(f) /\ Len(f) = Len(front)
  BY <1>1, <1>3, FunctionIsList
<1> QED
  BY <1>4 DEF f

\* The positions that are kept are a list.
LEMMA TrimmedList ==
  ASSUME NEW f, IsList(f), NEW size
  PROVE  IsList(Trimmed(f, size))
<1>1. Len(f) \in Nat /\ DOMAIN f = 1 .. Len(f)
  BY ListType
<1>2. IsList(<< >>)
  BY DEF IsList
<1>3. ASSUME f # << >> PROVE IsList(Front(f))
  <2>0. Len(f) # 0
    <3>1. f \in Seq({ f[j] : j \in DOMAIN f })
      BY DEF IsList
    <3> QED
      BY <1>3, <3>1, EmptySeq
  <2>1. Front(f) = SubSeq(f, 1, Len(f) - 1)
    BY DEF Front
  <2>2. Front(f) = [i \in 1 .. Len(f) - 1 |-> f[i]]
    BY <1>1, <2>1 DEF SubSeq
  <2>3. Front(f) \in [1 .. Len(f) - 1 -> { f[j] : j \in 1 .. Len(f) }] /\ Len(f) - 1 \in Nat
    BY <1>1, <2>0, <2>2
  <2> QED
    BY <2>3, FunctionIsList
<1>4. CASE size = 0
  BY <1>2, <1>4 DEF Trimmed
<1>5. CASE size # 0
  <2>1. Trimmed(f, size) = IF Len(f) = size \/ (f # << >> /\ Last(f) = 0) THEN Front(f) ELSE f
    BY <1>5 DEF Trimmed
  <2>2. Len(f) = size => f # << >>
    BY <1>5
  <2> QED
    BY <1>3, <2>1, <2>2
<1> QED
  BY <1>4, <1>5

\* The list that was told of has as many nodes as positions.
LEMMA MovedList ==
  ASSUME NEW list, NEW positions, IsList(positions), NEW f, f = Moved(list, positions)
  PROVE  IsList(f) /\ Len(f) = Len(positions)
<1>1. DOMAIN positions = 1 .. Len(positions) /\ Len(positions) \in Nat
  BY ListType
<1>2. f = [j \in DOMAIN positions |-> list[positions[j] + 1]]
  BY DEF Moved
<1>3. f \in [1 .. Len(positions) -> { f[j] : j \in 1 .. Len(positions) }]
  BY <1>1, <1>2
<1> QED
  BY <1>1, <1>3, FunctionIsList

-----------------------------------------------------------------------------
(* The state, described by how far every process has come *)

\* The number of the exchange that a process does or has done last.
Exchange(s, r) == IF Refined(s) THEN 2 * step[r] - (IF afterFtoC[r] THEN 0 ELSE 1) ELSE step[r]

\* Whether a process has started up, and whether it has told and heard the
\* positions of a layer.
Started(s, r)    == ~Refined(s) \/ turn[r] > Len(LayerSeq[s][r])
ToldOn(s, r, l)  == Refined(s) /\ (PlaceOf(s, r, l) < turn[r] \/ (PlaceOf(s, r, l) = turn[r] /\ told[r]))
\* Process r has received the positions for layer l.
HeardOn(s, r, l) == Refined(s) /\ PlaceOf(s, r, l) < turn[r]

\* The lists of nodes of a process, and how many of their first nodes are sent
\* and received after an interpolation: known for the layers told and heard.
Lists(s, r) ==
  /\ DOMAIN sendIndex[r] = LayersOf(s, r) /\ DOMAIN recvIndex[r] = LayersOf(s, r)
  /\ \A l \in LayersOf(s, r) : IsList(sendIndex[r][l]) /\ IsList(recvIndex[r][l])
  /\ DOMAIN sendNumber[r] = { l \in LayersOf(s, r) : ToldOn(s, r, l) }
  /\ DOMAIN recvNumber[r] = { l \in LayersOf(s, r) : HeardOn(s, r, l) }
  /\ \A l \in LayersOf(s, r) : ToldOn(s, r, l) => sendNumber[r][l] \in 0 .. Len(sendIndex[r][l])
  /\ \A l \in LayersOf(s, r) : HeardOn(s, r, l) => recvNumber[r][l] \in 0 .. Len(recvIndex[r][l])
\* What the counters of a process may be: one on an axis is in an exchange and
\* has neighbours there; one that has not started up has done nothing else.
Time(s, r) ==
  /\ turn[r] \in 1 .. Len(LayerSeq[s][r]) + 1
  /\ afterFtoC[r] => Refined(s)
  /\ Refined(s) /\ ~afterFtoC[r] => step[r] > 0
  /\ axis[r] \in Axes =>
       /\ Exchange(s, r) > 0
       /\ sent[r] <= Len(ProcessNeighbor[s][r][axis[r]]) /\ Len(ProcessNeighbor[s][r][axis[r]]) > 0
  /\ ~Started(s, r) => step[r] = 0 /\ axis[r] = 4 /\ afterFtoC[r]
  /\ Started(s, r) => ~told[r]
\* The buffers of a process: lists, and in an exchange one for every layer.
Buffers(s, r) ==
  /\ \A l \in DOMAIN sendBuffer[r] : IsList(sendBuffer[r][l])
  /\ axis[r] \in Axes => DOMAIN sendBuffer[r] = LayersOf(s, r)
  /\ DOMAIN ghost[r] = GhostNode[s][r]
\* A channel is a list of messages that are lists.
IsChannel(c) == IsList(c) /\ \A i \in 1 .. Len(c) : IsList(c[i])
Channels(s) ==
  /\ DOMAIN channel = Processes(s)
  /\ \A p \in Processes(s) : DOMAIN channel[p] = Processes(s) /\ \A r \in Processes(s) : IsChannel(channel[p][r])
\* The variables are functions on the processes.
Typed(s) ==
  /\ step \in [Processes(s) -> 0 .. s.steps]
  /\ afterFtoC \in [Processes(s) -> BOOLEAN] /\ told \in [Processes(s) -> BOOLEAN]
  /\ axis \in [Processes(s) -> 1 .. 4] /\ sent \in [Processes(s) -> 0 .. 2]
  /\ turn \in [Processes(s) -> Nat]
  /\ DOMAIN sendIndex = Processes(s) /\ DOMAIN recvIndex = Processes(s)
  /\ DOMAIN sendNumber = Processes(s) /\ DOMAIN recvNumber = Processes(s)
  /\ DOMAIN ghost = Processes(s) /\ DOMAIN sendBuffer = Processes(s) /\ DOMAIN recvBuffer = Processes(s)
\* The type invariant, which implies TypeOK and says which counters go together.
TypeInv(s) ==
  /\ setup = s /\ Typed(s) /\ Channels(s)
  /\ \A r \in Processes(s) : Lists(s, r) /\ Time(s, r) /\ Buffers(s, r)

\* The operators of GpuHalo when the setup is s.
LEMMA Names ==
  ASSUME NEW s, setup = s
  PROVE  /\ Ranks = Processes(s)
         /\ \A r : Layers(r) = LayersOf(s, r) /\ GhostNodes(r) = GhostNode[s][r]
                   /\ Turn(r) = LayerSeq[s][r][turn[r]] /\ (StartedUp(r) <=> Started(s, r))
         /\ \A r, a : ProcessNeighbors(r, a) = ProcessNeighbor[s][r][a] /\ Partners(r, a) = RankNeighbor[s][r][a]
         /\ \A r, l : Neighbor(r, l) = Source(s, r, l)
         /\ \A r, x : Global(r, x) = GlobalNode[s][r][x]
BY DEF Ranks, Layers, LayersOf, GhostNodes, Turn, StartedUp, Started, ProcessNeighbors, Partners, Neighbor, Source, Global

\* g is f but for i.
Updated(f, g, i, v) ==
  /\ g = [j \in DOMAIN f |-> g[j]] /\ DOMAIN g = DOMAIN f
  /\ g[i] = v /\ \A j \in DOMAIN f : j # i => g[j] = f[j]

\* EXCEPT changes a function at one place.
LEMMA UpdateIs ==
  ASSUME NEW f, NEW i \in DOMAIN f, NEW v
  PROVE  Updated(f, [f EXCEPT ![i] = v], i, v)
BY DEF Updated

\* A function that is changed at one place keeps its type.
LEMMA UpdatedType ==
  ASSUME NEW D, NEW S, NEW f \in [D -> S], NEW g, NEW i, NEW v \in S, Updated(f, g, i, v)
  PROVE  g \in [D -> S]
<1>1. g = [j \in D |-> g[j]] /\ \A j \in D : g[j] \in S
  BY DEF Updated
<1> QED
  BY <1>1

\* What the actions do to the variables.
Telling(s, r) ==
  LET l     == LayerSeq[s][r][turn[r]]
      list  == sendIndex[r][l]
      front == FrontPart(s, r, list)
      p     == Source(s, r, l)
  IN /\ Refined(s) /\ turn[r] <= Len(LayerSeq[s][r]) /\ ~told[r]
     /\ Updated(sendIndex, sendIndex', r, sendIndex'[r]) /\ Updated(sendIndex[r], sendIndex'[r], l, FrontFirst(front, list))
     /\ Updated(sendNumber, sendNumber', r, sendNumber'[r])
     /\ DOMAIN sendNumber'[r] = DOMAIN sendNumber[r] \cup {l} /\ sendNumber'[r][l] = Len(front)
     /\ \A m \in DOMAIN sendNumber[r] : m # l => sendNumber'[r][m] = sendNumber[r][m]
     /\ Updated(channel, channel', r, channel'[r])
     /\ Updated(channel[r], channel'[r], p, Append(channel[r][p], Positions(front, list)))
     /\ Updated(told, told', r, TRUE)
     /\ setup' = setup /\ UNCHANGED <<recvIndex, recvNumber, turn, timeVars>>

\* ReceivePositions: the positions arrive, are trimmed and move nodes to the front.
Hearing(s, r) ==
  LET l     == LayerSeq[s][r][turn[r]]
      p     == Source(s, r, l)
      list  == recvIndex[r][l]
      heard == Trimmed(Head(channel[p][r]), 2 * sendNumber[r][l])
      front == Moved(list, heard)
  IN /\ Refined(s) /\ turn[r] <= Len(LayerSeq[s][r]) /\ told[r] /\ channel[p][r] # << >>
     /\ Updated(recvIndex, recvIndex', r, recvIndex'[r]) /\ Updated(recvIndex[r], recvIndex'[r], l, FrontFirst(front, list))
     /\ Updated(recvNumber, recvNumber', r, recvNumber'[r])
     /\ DOMAIN recvNumber'[r] = DOMAIN recvNumber[r] \cup {l} /\ recvNumber'[r][l] = Len(front)
     /\ \A m \in DOMAIN recvNumber[r] : m # l => recvNumber'[r][m] = recvNumber[r][m]
     /\ Updated(channel, channel', p, channel'[p])
     /\ Updated(channel[p], channel'[p], r, Tail(channel[p][r]))
     /\ Updated(told, told', r, FALSE) /\ Updated(turn, turn', r, turn[r] + 1)
     /\ setup' = setup /\ UNCHANGED <<sendIndex, sendNumber, timeVars>>

\* A layer before the edge nodes are patched.
Base(r, b, l) ==
  IF (IF ~setup.useStreams THEN l[1] = b ELSE axis[r] = 4) THEN Collected(r, l)
  ELSE IF l \in DOMAIN sendBuffer[r] THEN sendBuffer[r][l] ELSE << >>
\* The preparation of axis b, or the scattering when no axis is left.
Preparing(s, r, b) ==
  /\ Updated(axis, axis', r, b) /\ Updated(sent, sent', r, 0)
  /\ Updated(sendBuffer, sendBuffer', r, sendBuffer'[r]) /\ DOMAIN sendBuffer'[r] = LayersOf(s, r)
  /\ \A l \in LayersOf(s, r) :
       sendBuffer'[r][l] = IF s.useStreams /\ l[1] = b THEN WithEdgeNodes(r, l, Base(r, b, l)) ELSE Base(r, b, l)

\* Send: one layer goes to its neighbour.
Sending(s, r) ==
  LET side == ProcessNeighbor[s][r][axis[r]][sent[r] + 1]
      p    == RankNeighbor[s][r][axis[r]][sent[r] + 1]
  IN /\ axis[r] \in Axes /\ sent[r] < Len(ProcessNeighbor[s][r][axis[r]])
     /\ Updated(channel, channel', r, channel'[r])
     /\ Updated(channel[r], channel'[r], p, Append(channel[r][p], sendBuffer[r][<<axis[r], side>>]))
     /\ Updated(sent, sent', r, sent[r] + 1)
     /\ setup' = setup /\ UNCHANGED <<startVars, step, afterFtoC, axis, ghost, sendBuffer, recvBuffer>>

\* Receive: all layers of the axis have arrived, and the next axis is prepared.
Receiving(s, r) ==
  LET a == axis[r]
      b == Following(r, a)
  IN /\ a \in Axes /\ sent[r] = Len(ProcessNeighbor[s][r][a])
     /\ \A p \in Processes(s) : Posted(r, p) > 0 => Len(channel[p][r]) >= Posted(r, p)
     /\ DOMAIN channel' = DOMAIN channel
     /\ \A p \in Processes(s) : Updated(channel[p], channel'[p], r, SubSeq(channel[p][r], Posted(r, p) + 1, Len(channel[p][r])))
     /\ Updated(recvBuffer, recvBuffer', r, recvBuffer'[r]) /\ DOMAIN recvBuffer'[r] = LayersOf(s, r)
     /\ \A l \in LayersOf(s, r) :
          recvBuffer'[r][l] = IF l[1] = a THEN Received(r, l)
                              ELSE IF l \in DOMAIN recvBuffer[r] THEN recvBuffer[r][l] ELSE << >>
     /\ Updated(ghost, ghost', r, Scattered(r, IF ~s.useStreams THEN { l \in LayersOf(s, r) : l[1] = a }
                                               ELSE IF b = 4 THEN LayersOf(s, r) ELSE {}))
     /\ setup' = setup /\ UNCHANGED <<startVars, step, afterFtoC>>
     /\ Preparing(s, r, b)

\* The action SendPositions does what Telling says.
LEMMA TellEffect ==
  ASSUME NEW s \in Setups, TypeInv(s), NEW r \in Processes(s), SendPositions(r)
  PROVE  Telling(s, r)
<1> DEFINE l == LayerSeq[s][r][turn[r]]  list == sendIndex[r][l]  front == FrontPart(s, r, list)  p == Source(s, r, l)
<1>1. setup = s /\ Typed(s) /\ Channels(s) /\ Lists(s, r) /\ Time(s, r)
  BY DEF TypeInv
<1>2. /\ ~StartedUp(r) /\ ~told[r]
      /\ sendIndex' = [sendIndex EXCEPT ![r][Turn(r)] = FrontFirst(FrontPart(setup, r, sendIndex[r][Turn(r)]), sendIndex[r][Turn(r)])]
      /\ sendNumber' = [sendNumber EXCEPT ![r] = [m \in DOMAIN @ \cup {Turn(r)} |->
            IF m = Turn(r) THEN Len(FrontPart(setup, r, sendIndex[r][Turn(r)])) ELSE @[m]]]
      /\ channel' = [channel EXCEPT ![r][Neighbor(r, Turn(r))] =
            Append(@, Positions(FrontPart(setup, r, sendIndex[r][Turn(r)]), sendIndex[r][Turn(r)]))]
      /\ told' = [told EXCEPT ![r] = TRUE]
      /\ UNCHANGED <<setup, recvIndex, recvNumber, turn>> /\ UNCHANGED timeVars
  BY DEF SendPositions, Tell, MayTell
<1>3. Turn(r) = l /\ Neighbor(r, Turn(r)) = p
  BY <1>1, Names
<1>4. Refined(s) /\ turn[r] \in 1 .. Len(LayerSeq[s][r])
  <2>1. ~Started(s, r)
    BY <1>1, <1>2, Names
  <2>2. Len(LayerSeq[s][r]) \in Nat
    BY Places
  <2> QED
    BY <1>1, <2>1, <2>2 DEF Started, Time
<1>13. turn[r] <= Len(LayerSeq[s][r])
  <2>1. Len(LayerSeq[s][r]) \in Nat
    BY Places
  <2> QED
    BY <1>4, <2>1
<1>5. l \in LayersOf(s, r)
  BY <1>4, Places
<1>6. p \in Processes(s)
  BY Zenon, <1>5, OtherSide
<1>7. /\ sendIndex' = [sendIndex EXCEPT ![r] = [sendIndex[r] EXCEPT ![l] = FrontFirst(front, list)]]
      /\ channel' = [channel EXCEPT ![r] = [channel[r] EXCEPT ![p] = Append(channel[r][p], Positions(front, list))]]
      /\ sendNumber' = [sendNumber EXCEPT ![r] = [m \in DOMAIN sendNumber[r] \cup {l} |->
            IF m = l THEN Len(front) ELSE sendNumber[r][m]]]
  BY <1>1, <1>2, <1>3
<1>8. r \in DOMAIN sendIndex /\ l \in DOMAIN sendIndex[r] /\ r \in DOMAIN sendNumber /\ r \in DOMAIN channel /\ p \in DOMAIN channel[r] /\ r \in DOMAIN told
  BY <1>1, <1>5, <1>6 DEF Typed, Lists, Channels
<1> HIDE DEF l, list, front, p
<1>9. Updated(sendIndex, sendIndex', r, sendIndex'[r]) /\ Updated(sendIndex[r], sendIndex'[r], l, FrontFirst(front, list))
  BY <1>7, <1>8 DEF Updated
<1>10. Updated(channel, channel', r, channel'[r]) /\ Updated(channel[r], channel'[r], p, Append(channel[r][p], Positions(front, list)))
  BY <1>7, <1>8 DEF Updated
<1>11. /\ Updated(sendNumber, sendNumber', r, sendNumber'[r])
       /\ DOMAIN sendNumber'[r] = DOMAIN sendNumber[r] \cup {l} /\ sendNumber'[r][l] = Len(front)
       /\ \A m \in DOMAIN sendNumber[r] : m # l => sendNumber'[r][m] = sendNumber[r][m]
  BY <1>7, <1>8 DEF Updated
<1>12. Updated(told, told', r, TRUE)
  BY <1>2, <1>8 DEF Updated
<1>14. setup' = setup /\ UNCHANGED <<recvIndex, recvNumber, turn, timeVars>>
  BY <1>2
<1>15. Refined(s) /\ ~told[r]
  BY Zenon, <1>2, <1>4
<1> QED
  BY ONLY Zenon, <1>9, <1>10, <1>11, <1>12, <1>13, <1>14, <1>15 DEF Telling, l, list, front, p

\* The action ReceivePositions does what Hearing says.
LEMMA HearEffect ==
  ASSUME NEW s \in Setups, TypeInv(s), NEW r \in Processes(s), ReceivePositions(r)
  PROVE  Hearing(s, r)
<1> DEFINE l == LayerSeq[s][r][turn[r]]  list == recvIndex[r][l]  p == Source(s, r, l)
           heard == Trimmed(Head(channel[p][r]), 2 * sendNumber[r][l])
           front == Moved(list, heard)
<1>1. setup = s /\ Typed(s) /\ Channels(s) /\ Lists(s, r) /\ Time(s, r)
  BY DEF TypeInv
<1>3. Turn(r) = l /\ Neighbor(r, Turn(r)) = p
  BY <1>1, Names
<1>2. /\ ~StartedUp(r) /\ told[r] /\ channel[p][r] # << >>
      /\ recvIndex' = [recvIndex EXCEPT ![r][l] = FrontFirst(front, list)]
      /\ recvNumber' = [recvNumber EXCEPT ![r] = [m \in DOMAIN @ \cup {l} |-> IF m = l THEN Len(front) ELSE @[m]]]
      /\ channel' = [channel EXCEPT ![p][r] = Tail(@)]
      /\ told' = [told EXCEPT ![r] = FALSE] /\ turn' = [turn EXCEPT ![r] = @ + 1]
      /\ UNCHANGED <<setup, sendIndex, sendNumber>> /\ UNCHANGED timeVars
  BY Zenon, <1>3 DEF ReceivePositions, Hear, MayHear, Moved
<1>4. Refined(s) /\ turn[r] \in 1 .. Len(LayerSeq[s][r])
  <2>1. ~Started(s, r)
    BY Zenon, <1>1, <1>2, Names
  <2>2. Len(LayerSeq[s][r]) \in Nat
    BY Places
  <2> QED
    BY <1>1, <2>1, <2>2 DEF Started, Time
<1>13. turn[r] <= Len(LayerSeq[s][r])
  <2>1. Len(LayerSeq[s][r]) \in Nat
    BY Places
  <2> QED
    BY <1>4, <2>1
<1>5. l \in LayersOf(s, r)
  BY <1>4, Places
<1>6. p \in Processes(s)
  BY <1>5, OtherSide
<1>8. r \in DOMAIN recvIndex /\ l \in DOMAIN recvIndex[r] /\ r \in DOMAIN recvNumber /\ p \in DOMAIN channel /\ r \in DOMAIN channel[p] /\ r \in DOMAIN told /\ r \in DOMAIN turn
  BY <1>1, <1>5, <1>6 DEF Typed, Lists, Channels
<1> HIDE DEF l, list, front, p, heard
<1>9. Updated(recvIndex, recvIndex', r, recvIndex'[r]) /\ Updated(recvIndex[r], recvIndex'[r], l, FrontFirst(front, list))
  BY <1>2, <1>8 DEF Updated
<1>10. Updated(channel, channel', p, channel'[p]) /\ Updated(channel[p], channel'[p], r, Tail(channel[p][r]))
  BY <1>2, <1>8 DEF Updated
<1>11. /\ Updated(recvNumber, recvNumber', r, recvNumber'[r])
       /\ DOMAIN recvNumber'[r] = DOMAIN recvNumber[r] \cup {l} /\ recvNumber'[r][l] = Len(front)
       /\ \A m \in DOMAIN recvNumber[r] : m # l => recvNumber'[r][m] = recvNumber[r][m]
  BY <1>2, <1>8 DEF Updated
<1>12. Updated(told, told', r, FALSE) /\ Updated(turn, turn', r, turn[r] + 1)
  BY <1>2, <1>8 DEF Updated
<1>14. setup' = setup /\ UNCHANGED <<sendIndex, sendNumber, timeVars>>
  BY <1>2
<1>15. Refined(s) /\ told[r] /\ channel[p][r] # << >>
  BY <1>2, <1>4
<1> QED
  BY ONLY Zenon, <1>9, <1>10, <1>11, <1>12, <1>13, <1>14, <1>15 DEF Hearing, l, list, front, p, heard

\* Prepare does what Preparing says.
LEMMA PrepareEffect ==
  ASSUME NEW s \in Setups, TypeInv(s), NEW r \in Processes(s), NEW b, Prepare(r, b)
  PROVE  Preparing(s, r, b)
<1>1. setup = s /\ Typed(s)
  BY DEF TypeInv
<1>2. Layers(r) = LayersOf(s, r)
  BY <1>1, Names
<1>3. r \in DOMAIN axis /\ r \in DOMAIN sent /\ r \in DOMAIN sendBuffer
  BY <1>1 DEF Typed
<1> DEFINE now   == IF ~setup.useStreams THEN { l \in Layers(r) : l[1] = b }
                    ELSE IF axis[r] = 4 THEN Layers(r) ELSE {}
           layer == [l \in Layers(r) |->
                       IF l \in now THEN Collected(r, l)
                       ELSE IF l \in DOMAIN sendBuffer[r] THEN sendBuffer[r][l] ELSE << >>]
<1>4. /\ axis' = [axis EXCEPT ![r] = b] /\ sent' = [sent EXCEPT ![r] = 0]
      /\ sendBuffer' = [sendBuffer EXCEPT ![r] =
          [l \in Layers(r) |-> IF setup.useStreams /\ l[1] = b THEN WithEdgeNodes(r, l, layer[l]) ELSE layer[l]]]
  BY DEF Prepare
<1>5. \A l \in LayersOf(s, r) : layer[l] = Base(r, b, l)
  BY <1>2 DEF Base
<1> HIDE DEF now, layer
<1>6. Updated(axis, axis', r, b) /\ Updated(sent, sent', r, 0)
  BY <1>3, <1>4 DEF Updated
<1>7. /\ Updated(sendBuffer, sendBuffer', r, sendBuffer'[r]) /\ DOMAIN sendBuffer'[r] = LayersOf(s, r)
      /\ \A l \in LayersOf(s, r) :
           sendBuffer'[r][l] = IF s.useStreams /\ l[1] = b THEN WithEdgeNodes(r, l, layer[l]) ELSE layer[l]
  BY <1>1, <1>2, <1>3, <1>4 DEF Updated
<1> QED
  BY <1>5, <1>6, <1>7 DEF Preparing

\* The action Send does what Sending says.
LEMMA SendEffect ==
  ASSUME NEW s \in Setups, TypeInv(s), NEW r \in Processes(s), Send(r)
  PROVE  Sending(s, r)
<1> DEFINE a == axis[r]  k == sent[r] + 1
           side == ProcessNeighbor[s][r][a][k]
           p    == RankNeighbor[s][r][a][k]
<1>1. setup = s /\ Typed(s) /\ Channels(s)
  BY DEF TypeInv
<1>2. /\ a \in Axes /\ sent[r] < Len(Partners(r, a))
      /\ channel' = [channel EXCEPT ![r][Partners(r, a)[k]] = Append(@, sendBuffer[r][<<a, ProcessNeighbors(r, a)[k]>>])]
      /\ sent' = [sent EXCEPT ![r] = @ + 1]
      /\ UNCHANGED <<setup, startVars, step, afterFtoC, axis, ghost, sendBuffer, recvBuffer>>
  BY DEF Send, MaySend
<1>3. Partners(r, a) = RankNeighbor[s][r][a] /\ ProcessNeighbors(r, a) = ProcessNeighbor[s][r][a]
  BY <1>1, Names
<1>4. Len(RankNeighbor[s][r][a]) = Len(ProcessNeighbor[s][r][a]) /\ RankNeighbor[s][r][a] \in Seq(Processes(s))
  BY <1>2, PartnersListed
<1>5. k \in 1 .. Len(RankNeighbor[s][r][a])
  <2>1. Len(ProcessNeighbor[s][r][a]) \in 0 .. 2
    BY <1>2, SidesListed
  <2>2. sent[r] \in 0 .. 2
    BY Zenon, <1>1 DEF Typed
  <2>3. sent[r] < Len(RankNeighbor[s][r][a])
    BY Zenon, <1>2, <1>3
  <2> DEFINE n == Len(RankNeighbor[s][r][a])  o == sent[r]
  <2>4. n \in 0 .. 2 /\ o \in 0 .. 2 /\ o < n
    BY <1>4, <2>1, <2>2, <2>3
  <2> HIDE DEF n, o
  <2>5. o + 1 \in 1 .. n
    BY ONLY <2>4
  <2> QED
    BY <2>5 DEF n, o
<1>6. p \in Processes(s)
  BY <1>4, <1>5, ElementOfSeq
<1>7. r \in DOMAIN channel /\ p \in DOMAIN channel[r] /\ r \in DOMAIN sent
  BY Zenon, <1>1, <1>6 DEF Typed, Channels
<1>8. channel' = [channel EXCEPT ![r][p] = Append(@, sendBuffer[r][<<a, side>>])]
  BY Zenon, <1>2, <1>3
<1>9. sent[r] < Len(ProcessNeighbor[s][r][a])
  BY Zenon, <1>2, <1>3, <1>4
<1> HIDE DEF a, k, side, p
<1>10. Updated(channel, channel', r, channel'[r]) /\ Updated(channel[r], channel'[r], p, Append(channel[r][p], sendBuffer[r][<<a, side>>]))
  BY <1>7, <1>8 DEF Updated
<1>11. Updated(sent, sent', r, sent[r] + 1)
  BY <1>2, <1>7 DEF Updated
<1> QED
  BY Zenon, <1>2, <1>9, <1>10, <1>11 DEF Sending, a, k, side, p

\* The action Receive does what Receiving says.
LEMMA ReceiveEffect ==
  ASSUME NEW s \in Setups, TypeInv(s), NEW r \in Processes(s), Receive(r)
  PROVE  Receiving(s, r)
<1> DEFINE a == axis[r]  b == Following(r, a)
<1>1. setup = s /\ Typed(s) /\ Channels(s) /\ Ranks = Processes(s)
  BY Names DEF TypeInv
<1>2. /\ a \in Axes /\ sent[r] = Len(Partners(r, a))
      /\ \A p \in ToSet(Partners(r, a)) : Len(channel[p][r]) >= Posted(r, p)
      /\ channel' = [p \in Ranks |-> [channel[p] EXCEPT ![r] = SubSeq(@, Posted(r, p) + 1, Len(@))]]
      /\ recvBuffer' = [recvBuffer EXCEPT ![r] =
          [l \in Layers(r) |-> IF l[1] = a THEN Received(r, l)
                               ELSE IF l \in DOMAIN @ THEN @[l] ELSE << >>]]
      /\ ghost' = [ghost EXCEPT ![r] =
          Scattered(r, IF ~setup.useStreams THEN { l \in Layers(r) : l[1] = a }
                       ELSE IF b = 4 THEN Layers(r) ELSE {})]
      /\ UNCHANGED <<setup, startVars, step, afterFtoC>>
      /\ Prepare(r, b)
  BY DEF Receive, MayReceive
<1>3. Partners(r, a) = RankNeighbor[s][r][a] /\ ProcessNeighbors(r, a) = ProcessNeighbor[s][r][a] /\ Layers(r) = LayersOf(s, r)
  BY <1>1, Names
<1>4. Len(RankNeighbor[s][r][a]) = Len(ProcessNeighbor[s][r][a])
  BY <1>2, PartnersListed
<1>5. Preparing(s, r, b)
  BY <1>2, PrepareEffect
<1>6. r \in DOMAIN recvBuffer /\ r \in DOMAIN ghost /\ \A p \in Processes(s) : r \in DOMAIN channel[p]
  BY <1>1 DEF Typed, Channels
<1>7. ASSUME NEW p \in Processes(s), Posted(r, p) > 0 PROVE Len(channel[p][r]) >= Posted(r, p)
  <2> DEFINE K == { k \in DOMAIN Partners(r, a) : Partners(r, a)[k] = p }
  <2>1. CASE p \in ToSet(Partners(r, a))
    BY <1>2, <2>1
  <2>2. CASE p \notin ToSet(Partners(r, a))
    <3>1. K = {}
      BY <2>2 DEF ToSet
    <3>2. StartedUp(r)
      <4>1. axis[r] # 4
        BY <1>2 DEF Axes
      <4>2. Started(s, r)
        BY <4>1 DEF TypeInv, Time
      <4> QED
        BY <1>1, <4>2, Names
    <3>3. Posted(r, p) = Cardinality(K)
      BY <1>2, <3>2 DEF Posted
    <3>4. Posted(r, p) = 0
      <4> HIDE DEF K
      <4> QED
        BY <3>1, <3>3, FS_EmptySet
    <3> QED
      BY <1>7, <3>4
  <2> QED
    BY <2>1, <2>2
<1> HIDE DEF a, b
<1>8. /\ DOMAIN channel' = DOMAIN channel
      /\ \A p \in Processes(s) : Updated(channel[p], channel'[p], r, SubSeq(channel[p][r], Posted(r, p) + 1, Len(channel[p][r])))
  <2>1. DOMAIN channel' = DOMAIN channel
    BY <1>1, <1>2 DEF Channels
  <2>2. ASSUME NEW p \in Processes(s)
        PROVE Updated(channel[p], channel'[p], r, SubSeq(channel[p][r], Posted(r, p) + 1, Len(channel[p][r])))
    <3> DEFINE v == SubSeq(channel[p][r], Posted(r, p) + 1, Len(channel[p][r]))
    <3>1. channel'[p] = [channel[p] EXCEPT ![r] = v]
      BY <1>1, <1>2
    <3> HIDE DEF v
    <3>2. Updated(channel[p], channel'[p], r, v)
      BY <1>6, <3>1 DEF Updated
    <3> QED
      BY <3>2 DEF v
  <2> QED
    BY <2>1, <2>2
<1>9. /\ Updated(recvBuffer, recvBuffer', r, recvBuffer'[r]) /\ DOMAIN recvBuffer'[r] = LayersOf(s, r)
      /\ \A l \in LayersOf(s, r) :
          recvBuffer'[r][l] = IF l[1] = a THEN Received(r, l)
                              ELSE IF l \in DOMAIN recvBuffer[r] THEN recvBuffer[r][l] ELSE << >>
  BY <1>2, <1>3, <1>6 DEF Updated
<1>10. Updated(ghost, ghost', r, Scattered(r, IF ~s.useStreams THEN { l \in LayersOf(s, r) : l[1] = a }
                                              ELSE IF b = 4 THEN LayersOf(s, r) ELSE {}))
  <2> DEFINE v == Scattered(r, IF ~s.useStreams THEN { l \in LayersOf(s, r) : l[1] = a }
                                              ELSE IF b = 4 THEN LayersOf(s, r) ELSE {})
  <2>1. ghost' = [ghost EXCEPT ![r] = v]
    BY <1>1, <1>2, <1>3
  <2> HIDE DEF v
  <2>2. Updated(ghost, ghost', r, v)
    BY <1>6, <2>1, UpdateIs
  <2> QED
    BY <2>2 DEF v
<1> QED
  BY <1>2, <1>3, <1>4, <1>5, <1>7, <1>8, <1>9, <1>10 DEF Receiving, a, b

-----------------------------------------------------------------------------
(* Types and shapes are kept *)

\* The lists of a process that the step does not touch.
LEMMA SameLists ==
  ASSUME NEW s, NEW q, sendIndex'[q] = sendIndex[q], recvIndex'[q] = recvIndex[q], sendNumber'[q] = sendNumber[q],
         recvNumber'[q] = recvNumber[q], turn'[q] = turn[q], told'[q] = told[q], Lists(s, q)
  PROVE  Lists(s, q)'
<1>1. \A l : (ToldOn(s, q, l)' <=> ToldOn(s, q, l)) /\ (HeardOn(s, q, l)' <=> HeardOn(s, q, l))
  BY DEF ToldOn, HeardOn
<1> QED
  BY <1>1 DEF Lists

\* The counters of a process that the step does not touch.
LEMMA SameTime ==
  ASSUME NEW s, NEW q, turn'[q] = turn[q], told'[q] = told[q], step'[q] = step[q], afterFtoC'[q] = afterFtoC[q],
         axis'[q] = axis[q], sent'[q] = sent[q], Time(s, q)
  PROVE  Time(s, q)'
<1>1. Exchange(s, q)' = Exchange(s, q)
  BY DEF Exchange
<1>2. Started(s, q)' <=> Started(s, q)
  BY DEF Started
<1> QED
  BY <1>1, <1>2 DEF Time

\* The buffers of a process that the step does not touch.
LEMMA SameBuffers ==
  ASSUME NEW s, NEW q, axis'[q] = axis[q], sendBuffer'[q] = sendBuffer[q], ghost'[q] = ghost[q], Buffers(s, q)
  PROVE  Buffers(s, q)'
BY DEF Buffers

\* After start-up everything is told and heard.
LEMMA AllTold ==
  ASSUME NEW s \in Setups, NEW r \in Processes(s), Started(s, r), Refined(s), turn[r] \in Nat, NEW l \in LayersOf(s, r)
  PROVE  ToldOn(s, r, l) /\ HeardOn(s, r, l)
<1>1. PlaceOf(s, r, l) \in 1 .. Len(LayerSeq[s][r]) /\ Len(LayerSeq[s][r]) \in Nat
  BY Places
<1> QED
  BY <1>1 DEF Started, ToldOn, HeardOn

\* copyEdgeNodes keeps the length of the layer it copies into.
LEMMA CopiedLists ==
  ASSUME NEW r, NEW l, NEW layer, IsList(layer), NEW b
  PROVE  IsList(CopyEdgeNodes(r, b, l, layer)) /\ Len(CopyEdgeNodes(r, b, l, layer)) = Len(layer)
<1> DEFINE f == CopyEdgeNodes(r, b, l, layer)
<1>1. DOMAIN layer = 1 .. Len(layer) /\ Len(layer) \in Nat
  BY ListType
<1>2. DOMAIN f = DOMAIN layer /\ f \in [DOMAIN layer -> { f[j] : j \in DOMAIN layer }]
  BY DEF CopyEdgeNodes
<1> HIDE DEF f
<1>3. IsList(f) /\ Len(f) = Len(layer)
  BY <1>1, <1>2, FunctionIsList
<1> QED
  BY <1>3 DEF f

\* A layer that is collected has the number of nodes that is sent of it.
LEMMA CollectedLists ==
  ASSUME NEW s \in Setups, TypeInv(s), NEW r \in Processes(s), Started(s, r), NEW l \in LayersOf(s, r),
         afterFtoC'[r] => Refined(s)
  PROVE  /\ SendCount(r, l) \in Nat
         /\ IsList(Collected(r, l)) /\ Len(Collected(r, l)) = SendCount(r, l)
<1> DEFINE f == Collected(r, l)  n == SendCount(r, l)
<1>1. n \in Nat
  <2>1. CASE afterFtoC'[r]
    <3>1. ToldOn(s, r, l)
      <4>1. turn[r] \in Nat /\ Refined(s)
        BY <2>1 DEF TypeInv, Typed
      <4> QED
        BY <4>1, AllTold
    <3>2. sendNumber[r][l] \in 0 .. Len(sendIndex[r][l]) /\ IsList(sendIndex[r][l])
      BY <3>1 DEF TypeInv, Lists
    <3>3. sendNumber[r][l] \in Nat
      BY <3>2, ListType
    <3> QED
      BY <2>1, <3>3 DEF SendCount
  <2>2. CASE ~afterFtoC'[r]
    <3>1. Len(sendIndex[r][l]) \in Nat
      BY ListType DEF TypeInv, Lists
    <3> QED
      BY <2>2, <3>1 DEF SendCount
  <2> QED
    BY <2>1, <2>2
<1>2. DOMAIN f = 1 .. n /\ f \in [1 .. n -> { f[j] : j \in 1 .. n }]
  BY DEF Collected
<1> HIDE DEF f, n
<1>3. IsList(f) /\ Len(f) = n
  BY <1>1, <1>2, FunctionIsList
<1> QED
  BY <1>1, <1>3 DEF f, n

\* The layers that are prepared are lists.
LEMMA PreparedLists ==
  ASSUME NEW s \in Setups, TypeInv(s), NEW r \in Processes(s), Started(s, r), NEW b, Preparing(s, r, b),
         afterFtoC'[r] => Refined(s)
  PROVE  \A l \in LayersOf(s, r) : IsList(sendBuffer'[r][l])
<1> TAKE l \in LayersOf(s, r)
<1> DEFINE base == Base(r, b, l)
<1>1. IsList(base)
  <2>1. IsList(Collected(r, l))
    BY CollectedLists
  <2>2. l \in DOMAIN sendBuffer[r] => IsList(sendBuffer[r][l])
    BY DEF TypeInv, Buffers
  <2>3. IsList(<< >>)
    BY DEF IsList
  <2> QED
    BY <2>1, <2>2, <2>3 DEF Base
<1>2. sendBuffer'[r][l] = IF s.useStreams /\ l[1] = b THEN WithEdgeNodes(r, l, base) ELSE base
  BY DEF Preparing
<1> HIDE DEF base
<1>3. IsList(WithEdgeNodes(r, l, base))
  <2>1. l[1] = 1 \/ l[1] = 2 \/ l[1] = 3
    BY OtherSide DEF Axes
  <2>2. IsList(CopyEdgeNodes(r, 1, l, base))
    BY <1>1, CopiedLists
  <2>3. IsList(CopyEdgeNodes(r, 2, l, CopyEdgeNodes(r, 1, l, base)))
    BY <2>2, CopiedLists
  <2> QED
    BY <1>1, <2>1, <2>2, <2>3 DEF WithEdgeNodes
<1> QED
  BY <1>1, <1>2, <1>3

\* The layer of which it is the turn in the start-up.
LEMMA AtTurn ==
  ASSUME NEW s \in Setups, TypeInv(s), NEW r \in Processes(s), turn[r] <= Len(LayerSeq[s][r])
  PROVE  /\ turn[r] \in 1 .. Len(LayerSeq[s][r])
         /\ LayerSeq[s][r][turn[r]] \in LayersOf(s, r) /\ PlaceOf(s, r, LayerSeq[s][r][turn[r]]) = turn[r]
<1>1. turn[r] \in 1 .. Len(LayerSeq[s][r])
  <2> DEFINE n == Len(LayerSeq[s][r])
  <2>1. Time(s, r)
    BY DEF TypeInv
  <2>2. n \in Nat /\ turn[r] \in 1 .. n + 1 /\ turn[r] <= n
    BY <2>1, Places DEF Time
  <2> HIDE DEF n
  <2>3. turn[r] \in 1 .. n
    BY ONLY <2>2
  <2> QED
    BY <2>3 DEF n
<1> QED
  BY <1>1, Places

\* SendPositions keeps the type invariant.
LEMMA TellType ==
  ASSUME NEW s \in Setups, TypeInv(s), NEW r \in Processes(s), Telling(s, r)
  PROVE  TypeInv(s)'
<1> DEFINE l     == LayerSeq[s][r][turn[r]]
           list  == sendIndex[r][l]
           front == FrontPart(s, r, list)
           p     == Source(s, r, l)
<1>1. /\ Refined(s) /\ turn[r] <= Len(LayerSeq[s][r]) /\ ~told[r]
      /\ Updated(sendIndex, sendIndex', r, sendIndex'[r]) /\ Updated(sendIndex[r], sendIndex'[r], l, FrontFirst(front, list))
      /\ Updated(sendNumber, sendNumber', r, sendNumber'[r])
      /\ DOMAIN sendNumber'[r] = DOMAIN sendNumber[r] \cup {l} /\ sendNumber'[r][l] = Len(front)
      /\ \A m \in DOMAIN sendNumber[r] : m # l => sendNumber'[r][m] = sendNumber[r][m]
      /\ Updated(channel, channel', r, channel'[r])
      /\ Updated(channel[r], channel'[r], p, Append(channel[r][p], Positions(front, list)))
      /\ Updated(told, told', r, TRUE)
      /\ setup' = setup /\ UNCHANGED <<recvIndex, recvNumber, turn, timeVars>>
  BY Zenon DEF Telling
<1>2. setup = s /\ Typed(s) /\ Channels(s) /\ \A q \in Processes(s) : Lists(s, q) /\ Time(s, q) /\ Buffers(s, q)
  BY Zenon DEF TypeInv
<1>3. turn[r] \in 1 .. Len(LayerSeq[s][r])
  BY Zenon, <1>1, AtTurn
<1>4. l \in LayersOf(s, r) /\ PlaceOf(s, r, l) = turn[r]
  BY Zenon, <1>1, AtTurn
<1>5. p \in Processes(s)
  BY <1>4, OtherSide
<1>6. IsList(list)
  BY <1>2, <1>4 DEF Lists
<1> HIDE DEF list, p
<1>7. IsList(front)
  BY <1>6, FrontPartList
<1> HIDE DEF front
<1>8. IsList(FrontFirst(front, list)) /\ Len(front) \in 0 .. Len(FrontFirst(front, list))
  BY <1>6, <1>7, FrontFirstList
<1>9. IsList(Positions(front, list))
  BY <1>7, PositionsList
<1>10. UNCHANGED <<recvIndex, recvNumber, turn, step, afterFtoC, axis, sent, ghost, sendBuffer, recvBuffer>>
  BY <1>1 DEF timeVars
<1>11. Typed(s)'
  <2>1. told' \in [Processes(s) -> BOOLEAN]
    BY <1>1, <1>2, UpdatedType DEF Typed
  <2> QED
    BY <1>1, <1>2, <1>10, <2>1 DEF Typed, Updated
<1>12. Channels(s)'
  <2> DEFINE c == channel[r][p]  d == Append(c, Positions(front, list))
  <2>1. IsList(c) /\ \A i \in 1 .. Len(c) : IsList(c[i])
    BY <1>2, <1>5 DEF Channels, IsChannel
  <2>2. Len(c) \in Nat
    BY <2>1, ListType
  <2>3. /\ IsList(d) /\ Len(d) = Len(c) + 1 /\ \A i \in 1 .. Len(c) : d[i] = c[i]
        /\ d[Len(c) + 1] = Positions(front, list)
    BY <2>1, AppendList
  <2>4. Updated(channel[r], channel'[r], p, d)
    BY <1>1
  <2> HIDE DEF c, d
  <2>5. \A i \in 1 .. Len(d) : IsList(d[i])
    <3>1. \A i \in 1 .. Len(d) : i \in 1 .. Len(c) \/ i = Len(c) + 1
      BY <2>2, <2>3
    <3> QED
      BY <1>9, <2>1, <2>3, <3>1
  <2>6. IsChannel(d)
    BY <2>3, <2>5 DEF IsChannel
  <2>7. /\ DOMAIN channel = Processes(s)
        /\ \A q \in Processes(s) : DOMAIN channel[q] = Processes(s) /\ \A o \in Processes(s) : IsChannel(channel[q][o])
    BY <1>2 DEF Channels
  <2>8. /\ DOMAIN channel' = Processes(s)
        /\ \A q \in Processes(s) : DOMAIN channel'[q] = Processes(s) /\ \A o \in Processes(s) : IsChannel(channel'[q][o])
    BY Zenon, <1>1, <1>5, <2>4, <2>6, <2>7 DEF Updated
  <2> QED
    BY <2>8 DEF Channels
<1>13. ASSUME NEW q \in Processes(s), q # r PROVE Lists(s, q)' /\ Time(s, q)' /\ Buffers(s, q)'
  <2>1. sendIndex'[q] = sendIndex[q] /\ sendNumber'[q] = sendNumber[q] /\ told'[q] = told[q]
    BY <1>1, <1>2, <1>13 DEF Updated, Typed
  <2>2. Lists(s, q)'
    BY <1>2, <1>10, <2>1, SameLists
  <2>3. Time(s, q)'
    BY <1>2, <1>10, <2>1, SameTime
  <2>4. Buffers(s, q)'
    BY <1>2, <1>10, <2>1, SameBuffers
  <2> QED
    BY <2>2, <2>3, <2>4
<1>14. Buffers(s, r)'
  BY <1>2, <1>10, SameBuffers
<1>15. Time(s, r)'
  <2>1. told'[r] = TRUE
    BY <1>1 DEF Updated
  <2>2. ~Started(s, r)
    BY <1>1, <1>3, Places DEF Started
  <2>3. Exchange(s, r)' = Exchange(s, r) /\ (Started(s, r)' <=> Started(s, r))
    BY <1>10 DEF Exchange, Started
  <2>4. Time(s, r)
    BY <1>2
  <2> QED
    BY <1>10, <2>2, <2>3, <2>4 DEF Time
<1>16. Lists(s, r)'
  <2>1. Lists(s, r)
    BY <1>2
  <2>2. ASSUME NEW m \in LayersOf(s, r)
        PROVE  (ToldOn(s, r, m)' <=> ToldOn(s, r, m) \/ m = l) /\ (HeardOn(s, r, m)' <=> HeardOn(s, r, m))
    <3>1. PlaceOf(s, r, m) = turn[r] <=> m = l
      BY <1>3, <1>4, Places
    <3>2. told'[r] = TRUE /\ turn'[r] = turn[r]
      BY <1>1, <1>10 DEF Updated
    <3> QED
      BY <1>1, <3>1, <3>2 DEF ToldOn, HeardOn
  <2> HIDE DEF l
  <2>3. DOMAIN sendIndex'[r] = LayersOf(s, r) /\ DOMAIN recvIndex'[r] = LayersOf(s, r)
    BY <1>1, <1>10, <2>1 DEF Updated, Lists
  <2>4. ASSUME NEW m \in LayersOf(s, r)
        PROVE  /\ IsList(sendIndex'[r][m]) /\ IsList(recvIndex'[r][m])
               /\ ToldOn(s, r, m)' => sendNumber'[r][m] \in 0 .. Len(sendIndex'[r][m])
               /\ HeardOn(s, r, m)' => recvNumber'[r][m] \in 0 .. Len(recvIndex'[r][m])
    <3>1. CASE m = l
      BY <1>1, <1>8, <1>10, <2>1, <2>2, <3>1 DEF Updated, Lists
    <3>2. CASE m # l
      BY <1>1, <1>10, <2>1, <2>2, <3>2 DEF Updated, Lists
    <3> QED
      BY <3>1, <3>2
  <2>5. DOMAIN sendNumber'[r] = { m \in LayersOf(s, r) : ToldOn(s, r, m)' }
    BY <1>1, <1>4, <2>1, <2>2 DEF Lists
  <2>6. DOMAIN recvNumber'[r] = { m \in LayersOf(s, r) : HeardOn(s, r, m)' }
    BY <1>10, <2>1, <2>2 DEF Lists
  <2> QED
    BY <2>3, <2>4, <2>5, <2>6 DEF Lists
<1> QED
  BY Zenon, <1>1, <1>2, <1>11, <1>12, <1>13, <1>14, <1>15, <1>16 DEF TypeInv

\* ReceivePositions keeps the type invariant.
LEMMA HearType ==
  ASSUME NEW s \in Setups, TypeInv(s), NEW r \in Processes(s), Hearing(s, r)
  PROVE  TypeInv(s)'
<1> DEFINE l     == LayerSeq[s][r][turn[r]]
           p     == Source(s, r, l)
           list  == recvIndex[r][l]
           heard == Trimmed(Head(channel[p][r]), 2 * sendNumber[r][l])
           front == Moved(list, heard)
<1>1. /\ Refined(s) /\ turn[r] <= Len(LayerSeq[s][r]) /\ told[r] /\ channel[p][r] # << >>
      /\ Updated(recvIndex, recvIndex', r, recvIndex'[r]) /\ Updated(recvIndex[r], recvIndex'[r], l, FrontFirst(front, list))
      /\ Updated(recvNumber, recvNumber', r, recvNumber'[r])
      /\ DOMAIN recvNumber'[r] = DOMAIN recvNumber[r] \cup {l} /\ recvNumber'[r][l] = Len(front)
      /\ \A m \in DOMAIN recvNumber[r] : m # l => recvNumber'[r][m] = recvNumber[r][m]
      /\ Updated(channel, channel', p, channel'[p])
      /\ Updated(channel[p], channel'[p], r, Tail(channel[p][r]))
      /\ Updated(told, told', r, FALSE) /\ Updated(turn, turn', r, turn[r] + 1)
      /\ setup' = setup /\ UNCHANGED <<sendIndex, sendNumber, timeVars>>
  BY Zenon DEF Hearing
<1>2. setup = s /\ Typed(s) /\ Channels(s) /\ \A q \in Processes(s) : Lists(s, q) /\ Time(s, q) /\ Buffers(s, q)
  BY DEF TypeInv
<1>3. turn[r] \in 1 .. Len(LayerSeq[s][r]) /\ turn[r] \in Nat /\ Len(LayerSeq[s][r]) \in Nat
  <2>1. turn[r] \in 1 .. Len(LayerSeq[s][r])
    BY Zenon, <1>1, AtTurn
  <2>2. Len(LayerSeq[s][r]) \in Nat
    BY Places
  <2>3. turn[r] \in Nat
    BY Zenon, <1>2 DEF Typed
  <2> QED
    BY Zenon, <2>1, <2>2, <2>3
<1>4. l \in LayersOf(s, r) /\ PlaceOf(s, r, l) = turn[r]
  BY Zenon, <1>1, AtTurn
<1>5. p \in Processes(s)
  BY <1>4, OtherSide
<1>6. IsList(list)
  BY <1>2, <1>4 DEF Lists
<1>7. IsChannel(channel[p][r])
  BY Zenon, <1>2, <1>5 DEF Channels
<1> HIDE DEF list, p
<1>8. /\ IsList(Tail(channel[p][r])) /\ Len(Tail(channel[p][r])) = Len(channel[p][r]) - 1 /\ Len(channel[p][r]) > 0
      /\ Head(channel[p][r]) = channel[p][r][1]
      /\ \A i \in 1 .. Len(channel[p][r]) - 1 : Tail(channel[p][r])[i] = channel[p][r][i + 1]
  BY <1>1, <1>7, TailList DEF IsChannel
<1>9. Len(channel[p][r]) \in Nat
  BY <1>7, ListType DEF IsChannel
<1>10. IsList(Head(channel[p][r]))
  BY <1>7, <1>8, <1>9 DEF IsChannel
<1>11. IsList(heard)
  BY <1>10, TrimmedList
<1> HIDE DEF heard
<1>12. IsList(front)
  BY <1>11, MovedList
<1> HIDE DEF front
<1>13. IsList(FrontFirst(front, list)) /\ Len(front) \in 0 .. Len(FrontFirst(front, list))
  BY <1>6, <1>12, FrontFirstList
<1>14. IsChannel(Tail(channel[p][r]))
  <2>1. \A i \in 1 .. Len(channel[p][r]) - 1 : i + 1 \in 1 .. Len(channel[p][r])
    BY <1>9
  <2> QED
    BY <1>7, <1>8, <2>1 DEF IsChannel
<1>15. UNCHANGED <<sendIndex, sendNumber, step, afterFtoC, axis, sent, ghost, sendBuffer, recvBuffer>>
  BY <1>1 DEF timeVars
<1>16. Typed(s)'
  <2>1. told' \in [Processes(s) -> BOOLEAN]
    BY <1>1, <1>2, UpdatedType DEF Typed
  <2>2. turn' \in [Processes(s) -> Nat]
    <3> DEFINE n == turn[r] + 1
    <3>1. n \in Nat
      BY <1>3
    <3>2. turn \in [Processes(s) -> Nat] /\ Updated(turn, turn', r, n)
      BY <1>1, <1>2 DEF Typed
    <3> HIDE DEF n
    <3> QED
      BY ONLY <3>1, <3>2, UpdatedType
  <2> QED
    BY <1>1, <1>2, <1>15, <2>1, <2>2 DEF Typed, Updated
<1>17. Channels(s)'
  <2>1. /\ DOMAIN channel = Processes(s)
        /\ \A q \in Processes(s) : DOMAIN channel[q] = Processes(s) /\ \A o \in Processes(s) : IsChannel(channel[q][o])
    BY <1>2 DEF Channels
  <2>2. /\ DOMAIN channel' = Processes(s)
        /\ \A q \in Processes(s) : DOMAIN channel'[q] = Processes(s) /\ \A o \in Processes(s) : IsChannel(channel'[q][o])
    BY <1>1, <1>5, <1>14, <2>1 DEF Updated
  <2> QED
    BY <2>2 DEF Channels
<1>18. ASSUME NEW q \in Processes(s), q # r PROVE Lists(s, q)' /\ Time(s, q)' /\ Buffers(s, q)'
  <2>1. recvIndex'[q] = recvIndex[q] /\ recvNumber'[q] = recvNumber[q] /\ told'[q] = told[q] /\ turn'[q] = turn[q]
    BY <1>1, <1>2, <1>18 DEF Updated, Typed
  <2>2. Lists(s, q)'
    BY <1>2, <1>15, <2>1, SameLists
  <2>3. Time(s, q)'
    BY <1>2, <1>15, <2>1, SameTime
  <2>4. Buffers(s, q)'
    BY <1>2, <1>15, <2>1, SameBuffers
  <2> QED
    BY <2>2, <2>3, <2>4
<1>19. Buffers(s, r)'
  BY <1>2, <1>15, SameBuffers
<1>20. told'[r] = FALSE /\ turn'[r] = turn[r] + 1
  BY <1>1 DEF Updated
<1>21. Time(s, r)'
  <2>1. ~Started(s, r)
    BY <1>1, <1>3 DEF Started
  <2>2. Exchange(s, r)' = Exchange(s, r)
    BY <1>15 DEF Exchange
  <2>3. Time(s, r)
    BY <1>2
  <2>4. turn'[r] \in 1 .. Len(LayerSeq[s][r]) + 1
    BY <1>3, <1>20
  <2>5. axis[r] = 4 /\ step[r] = 0 /\ afterFtoC[r]
    BY <2>1, <2>3 DEF Time
  <2> QED
    BY <1>15, <1>20, <2>2, <2>3, <2>4, <2>5 DEF Time, Axes
<1>22. Lists(s, r)'
  <2>1. Lists(s, r)
    BY <1>2
  <2>2. ASSUME NEW m \in LayersOf(s, r)
        PROVE  (ToldOn(s, r, m)' <=> ToldOn(s, r, m)) /\ (HeardOn(s, r, m)' <=> HeardOn(s, r, m) \/ m = l)
    <3>1. PlaceOf(s, r, m) = turn[r] <=> m = l
      BY <1>3, <1>4, Places
    <3>2. PlaceOf(s, r, m) \in Nat
      BY <1>3, Places
    <3>3. PlaceOf(s, r, m) < turn[r] + 1 <=> PlaceOf(s, r, m) < turn[r] \/ PlaceOf(s, r, m) = turn[r]
      BY <1>3, <3>2
    <3> QED
      BY <1>1, <1>20, <3>1, <3>3 DEF ToldOn, HeardOn
  <2> HIDE DEF l
  <2>3. DOMAIN sendIndex'[r] = LayersOf(s, r) /\ DOMAIN recvIndex'[r] = LayersOf(s, r)
    BY <1>1, <1>15, <2>1 DEF Updated, Lists
  <2>4. ASSUME NEW m \in LayersOf(s, r)
        PROVE  /\ IsList(sendIndex'[r][m]) /\ IsList(recvIndex'[r][m])
               /\ ToldOn(s, r, m)' => sendNumber'[r][m] \in 0 .. Len(sendIndex'[r][m])
               /\ HeardOn(s, r, m)' => recvNumber'[r][m] \in 0 .. Len(recvIndex'[r][m])
    <3>1. CASE m = l
      BY <1>1, <1>13, <1>15, <2>1, <2>2, <3>1 DEF Updated, Lists
    <3>2. CASE m # l
      BY <1>1, <1>15, <2>1, <2>2, <3>2 DEF Updated, Lists
    <3> QED
      BY <3>1, <3>2
  <2>5. DOMAIN sendNumber'[r] = { m \in LayersOf(s, r) : ToldOn(s, r, m)' }
    BY <1>15, <2>1, <2>2 DEF Lists
  <2>6. DOMAIN recvNumber'[r] = { m \in LayersOf(s, r) : HeardOn(s, r, m)' }
    BY <1>1, <1>4, <2>1, <2>2 DEF Lists
  <2> QED
    BY <2>3, <2>4, <2>5, <2>6 DEF Lists
<1> QED
  BY Zenon, <1>1, <1>2, <1>16, <1>17, <1>18, <1>19, <1>21, <1>22 DEF TypeInv

\* The exchange of one process begins or goes on, the others stay where they are.
LEMMA PreparedType ==
  ASSUME NEW s \in Setups, TypeInv(s), NEW r \in Processes(s), Started(s, r),
         NEW a \in 0 .. 3, NEW b, FollowingIs(s, r, a, b), Preparing(s, r, b),
         setup' = s, UNCHANGED startVars,
         step' \in [Processes(s) -> 0 .. s.steps], afterFtoC' \in [Processes(s) -> BOOLEAN],
         afterFtoC'[r] => Refined(s), Exchange(s, r)' > 0, Refined(s) /\ ~afterFtoC'[r] => step'[r] > 0,
         \A q \in Processes(s) : q # r => step'[q] = step[q] /\ afterFtoC'[q] = afterFtoC[q] /\ ghost'[q] = ghost[q],
         DOMAIN ghost' = Processes(s), DOMAIN ghost'[r] = GhostNode[s][r], DOMAIN recvBuffer' = Processes(s),
         Channels(s)'
  PROVE  TypeInv(s)'
<1>1. setup = s /\ Typed(s) /\ \A q \in Processes(s) : Lists(s, q) /\ Time(s, q) /\ Buffers(s, q)
  BY DEF TypeInv
<1>2. UNCHANGED <<sendIndex, recvIndex, sendNumber, recvNumber, turn, told>>
  BY DEF startVars
<1>3. /\ Updated(axis, axis', r, b) /\ Updated(sent, sent', r, 0)
      /\ Updated(sendBuffer, sendBuffer', r, sendBuffer'[r]) /\ DOMAIN sendBuffer'[r] = LayersOf(s, r)
  BY DEF Preparing
<1>4. b \in 1 .. 4
  BY DEF FollowingIs
<1>5. axis' \in [Processes(s) -> 1 .. 4]
  <2>1. axis \in [Processes(s) -> 1 .. 4]
    BY <1>1 DEF Typed
  <2>2. Updated(axis, axis', r, b)
    BY <1>3
  <2> QED
    BY ONLY ZenonT(30), <1>4, <2>1, <2>2, UpdatedType
<1>6. sent' \in [Processes(s) -> 0 .. 2]
  <2>1. 0 \in 0 .. 2 /\ sent \in [Processes(s) -> 0 .. 2]
    BY <1>1 DEF Typed
  <2> QED
    BY <1>3, <2>1, UpdatedType
<1>7. Typed(s)'
  BY <1>1, <1>2, <1>3, <1>5, <1>6 DEF Typed, Updated
<1>8. ASSUME NEW q \in Processes(s), q # r PROVE Lists(s, q)' /\ Time(s, q)' /\ Buffers(s, q)'
  <2>1. axis'[q] = axis[q] /\ sent'[q] = sent[q] /\ sendBuffer'[q] = sendBuffer[q]
    BY <1>1, <1>3, <1>8 DEF Updated, Typed
  <2>2. step'[q] = step[q] /\ afterFtoC'[q] = afterFtoC[q] /\ ghost'[q] = ghost[q]
    BY <1>8
  <2>3. Lists(s, q)'
    BY <1>1, <1>2, SameLists
  <2>4. Time(s, q)'
    BY <1>1, <1>2, <2>1, <2>2, SameTime
  <2>5. Buffers(s, q)'
    BY <1>1, <2>1, <2>2, SameBuffers
  <2> QED
    BY <2>3, <2>4, <2>5
<1>9. Lists(s, r)'
  BY <1>1, <1>2, SameLists
<1>10. Buffers(s, r)'
  <2>1. \A l \in LayersOf(s, r) : IsList(sendBuffer'[r][l])
    BY PreparedLists
  <2> QED
    BY <1>3, <2>1 DEF Buffers
<1>11. axis'[r] = b /\ sent'[r] = 0
  BY <1>3 DEF Updated
<1>12. Started(s, r)'
  BY <1>2 DEF Started
<1>13. Time(s, r)'
  <2>1. turn'[r] \in 1 .. Len(LayerSeq[s][r]) + 1 /\ ~told'[r]
    BY <1>1, <1>2 DEF Time
  <2>2. b \in Axes => Len(ProcessNeighbor[s][r][b]) > 0 /\ sent'[r] <= Len(ProcessNeighbor[s][r][b])
    <3>1. ASSUME b \in Axes PROVE Len(ProcessNeighbor[s][r][b]) \in 0 .. 2 /\ b # 4
      BY <3>1, SidesListed DEF Axes
    <3> QED
      BY <1>11, <3>1 DEF FollowingIs
  <2> QED
    BY <1>11, <1>12, <2>1, <2>2 DEF Time
<1> QED
  BY <1>7, <1>8, <1>9, <1>10, <1>13 DEF TypeInv

\* The layer on the k-th side of an axis.
LEMMA SideLayer ==
  ASSUME NEW s \in Setups, NEW r \in Processes(s), NEW a \in Axes, NEW k \in 1 .. Len(ProcessNeighbor[s][r][a]),
         NEW l, l = <<a, ProcessNeighbor[s][r][a][k]>>
  PROVE  /\ l \in LayersOf(s, r) /\ SideOf(s, r, l) = k /\ l[1] = a
         /\ RankNeighbor[s][r][a][k] = Source(s, r, l)
<1>1. l \in LayersOf(s, r) /\ SideOf(s, r, l) = k
  BY SidePlaces
<1> QED
  BY <1>1, SidePlaces

\* Send keeps the type invariant.
LEMMA SendType ==
  ASSUME NEW s \in Setups, TypeInv(s), NEW r \in Processes(s), Sending(s, r)
  PROVE  TypeInv(s)'
<1> DEFINE side == ProcessNeighbor[s][r][axis[r]][sent[r] + 1]
           p    == RankNeighbor[s][r][axis[r]][sent[r] + 1]
           l    == <<axis[r], side>>
           n    == Len(ProcessNeighbor[s][r][axis[r]])
<1>1. /\ axis[r] \in Axes /\ sent[r] < n
      /\ Updated(channel, channel', r, channel'[r])
      /\ Updated(channel[r], channel'[r], p, Append(channel[r][p], sendBuffer[r][l]))
      /\ Updated(sent, sent', r, sent[r] + 1)
      /\ setup' = setup /\ UNCHANGED <<startVars, step, afterFtoC, axis, ghost, sendBuffer, recvBuffer>>
  BY DEF Sending
<1>2. setup = s /\ Typed(s) /\ Channels(s) /\ \A q \in Processes(s) : Lists(s, q) /\ Time(s, q) /\ Buffers(s, q)
  BY Zenon DEF TypeInv
<1>3. n \in 0 .. 2 /\ sent[r] \in 0 .. 2
  BY Zenon, <1>1, <1>2, SidesListed DEF Typed
<1>4. sent[r] + 1 \in 1 .. n /\ sent[r] + 1 \in 0 .. 2
  <2> DEFINE o == sent[r]
  <2>1. n \in 0 .. 2 /\ o \in 0 .. 2 /\ o < n
    BY <1>1, <1>3
  <2> HIDE DEF n, o
  <2>2. o + 1 \in 1 .. n /\ o + 1 \in 0 .. 2
    BY ONLY <2>1
  <2> QED
    BY Zenon, <2>2 DEF o
<1>5. l \in LayersOf(s, r) /\ p = Source(s, r, l)
  <2>1. l \in LayersOf(s, r) /\ SideOf(s, r, l) = sent[r] + 1
    <3> DEFINE k == sent[r] + 1
    <3>1. k \in 1 .. Len(ProcessNeighbor[s][r][axis[r]]) /\ l = <<axis[r], ProcessNeighbor[s][r][axis[r]][k]>>
      BY Zenon, <1>4
    <3>2. axis[r] \in Axes
      BY <1>1
    <3> HIDE DEF k, l
    <3>3. l \in LayersOf(s, r) /\ SideOf(s, r, l) = k
      BY ONLY <3>1, <3>2, SideLayer
    <3> QED
      BY <3>3 DEF k
  <2>2. RankNeighbor[s][r][l[1]][SideOf(s, r, l)] = Source(s, r, l)
    BY SMTT(30), <2>1, SidePlaces
  <2> QED
    BY <2>1, <2>2
<1>6. p \in Processes(s)
  BY <1>5, OtherSide
<1>7. IsList(sendBuffer[r][l])
  BY Zenon, <1>1, <1>2, <1>5 DEF Buffers
<1> HIDE DEF n, p, l, side
<1>8. UNCHANGED <<sendIndex, recvIndex, sendNumber, recvNumber, turn, told, step, afterFtoC, axis, ghost, sendBuffer, recvBuffer>>
  BY <1>1 DEF startVars
<1>9. Typed(s)'
  <2>1. sent' \in [Processes(s) -> 0 .. 2]
    <3> DEFINE v == sent[r] + 1
    <3>1. v \in 0 .. 2 /\ sent \in [Processes(s) -> 0 .. 2] /\ Updated(sent, sent', r, v)
      BY <1>1, <1>2, <1>4 DEF Typed
    <3> HIDE DEF v
    <3> QED
      BY ONLY Zenon, <3>1, UpdatedType
  <2> QED
    BY <1>1, <1>2, <1>8, <2>1 DEF Typed, Updated
<1>10. Channels(s)'
  <2> DEFINE c == channel[r][p]  d == Append(c, sendBuffer[r][l])
  <2>1. IsList(c) /\ \A i \in 1 .. Len(c) : IsList(c[i])
    BY <1>2, <1>6 DEF Channels, IsChannel
  <2>2. Len(c) \in Nat
    BY <2>1, ListType
  <2>3. /\ IsList(d) /\ Len(d) = Len(c) + 1 /\ \A i \in 1 .. Len(c) : d[i] = c[i]
        /\ d[Len(c) + 1] = sendBuffer[r][l]
    BY <2>1, AppendList
  <2>4. Updated(channel[r], channel'[r], p, d)
    BY <1>1
  <2> HIDE DEF c, d
  <2>5. \A i \in 1 .. Len(d) : IsList(d[i])
    <3>1. \A i \in 1 .. Len(d) : i \in 1 .. Len(c) \/ i = Len(c) + 1
      BY <2>2, <2>3
    <3> QED
      BY <1>7, <2>1, <2>3, <3>1
  <2>6. IsChannel(d)
    BY <2>3, <2>5 DEF IsChannel
  <2>7. /\ DOMAIN channel = Processes(s)
        /\ \A q \in Processes(s) : DOMAIN channel[q] = Processes(s) /\ \A o \in Processes(s) : IsChannel(channel[q][o])
    BY <1>2 DEF Channels
  <2>8. /\ DOMAIN channel' = Processes(s)
        /\ \A q \in Processes(s) : DOMAIN channel'[q] = Processes(s) /\ \A o \in Processes(s) : IsChannel(channel'[q][o])
    BY <1>1, <1>6, <2>4, <2>6, <2>7 DEF Updated
  <2> QED
    BY <2>8 DEF Channels
<1>11. \A q \in Processes(s) : Lists(s, q)' /\ Buffers(s, q)'
  BY <1>2, <1>8, SameLists, SameBuffers
<1>12. ASSUME NEW q \in Processes(s), q # r PROVE Time(s, q)'
  <2>1. sent'[q] = sent[q]
    BY <1>1, <1>2, <1>12 DEF Updated, Typed
  <2> QED
    BY <1>2, <1>8, <2>1, SameTime
<1>13. Time(s, r)'
  <2>1. Exchange(s, r)' = Exchange(s, r) /\ (Started(s, r)' <=> Started(s, r))
    BY <1>8 DEF Exchange, Started
  <2>2. sent'[r] = sent[r] + 1
    BY <1>1 DEF Updated
  <2>3. sent'[r] <= n
    BY <1>3, <1>4, <2>2
  <2>4. Time(s, r)
    BY <1>2
  <2> QED
    BY <1>8, <2>1, <2>3, <2>4 DEF Time, n
<1> QED
  BY Zenon, <1>1, <1>2, <1>9, <1>10, <1>11, <1>12, <1>13 DEF TypeInv

\* The number of posted receives is a number.
LEMMA PostedNumber ==
  ASSUME NEW s \in Setups, TypeInv(s), NEW r \in Processes(s), NEW p
  PROVE  Posted(r, p) \in Nat
<1>1. setup = s /\ Typed(s) /\ Ranks = Processes(s)
  BY Names DEF TypeInv
<1> DEFINE K == { k \in DOMAIN Partners(r, axis[r]) : Partners(r, axis[r])[k] = p }
<1>2. ASSUME axis[r] \in Axes PROVE Cardinality(K) \in Nat
  <2>1. DOMAIN Partners(r, axis[r]) = 1 .. Len(ProcessNeighbor[s][r][axis[r]]) /\ Len(ProcessNeighbor[s][r][axis[r]]) \in Nat
    BY SMTT(30), <1>1, <1>2, Names, PartnersListed, SidesListed
  <2>2. K \in SUBSET (1 .. Len(ProcessNeighbor[s][r][axis[r]]))
    BY <2>1
  <2> HIDE DEF K
  <2>3. Cardinality(K) \in 0 .. Len(ProcessNeighbor[s][r][axis[r]])
    BY <2>1, <2>2, PositionsFinite
  <2> QED
    BY <2>1, <2>3
<1> HIDE DEF K
<1> QED
  BY <1>2 DEF Posted, K

\* Receive keeps the type invariant.
LEMMA ReceiveType ==
  ASSUME NEW s \in Setups, TypeInv(s), NEW r \in Processes(s), Receiving(s, r)
  PROVE  TypeInv(s)'
<1> DEFINE a == axis[r]  b == Following(r, a)
           layers == IF ~s.useStreams THEN { l \in LayersOf(s, r) : l[1] = a } ELSE IF b = 4 THEN LayersOf(s, r) ELSE {}
<1>1. /\ a \in Axes
      /\ \A p \in Processes(s) : Posted(r, p) > 0 => Len(channel[p][r]) >= Posted(r, p)
      /\ DOMAIN channel' = DOMAIN channel
      /\ \A p \in Processes(s) : Updated(channel[p], channel'[p], r, SubSeq(channel[p][r], Posted(r, p) + 1, Len(channel[p][r])))
      /\ Updated(recvBuffer, recvBuffer', r, recvBuffer'[r])
      /\ Updated(ghost, ghost', r, Scattered(r, layers))
      /\ setup' = setup /\ UNCHANGED <<startVars, step, afterFtoC>>
      /\ Preparing(s, r, b)
  BY DEF Receiving
<1>2. setup = s /\ Typed(s) /\ Channels(s) /\ \A q \in Processes(s) : Lists(s, q) /\ Time(s, q) /\ Buffers(s, q)
  BY DEF TypeInv
<1>3. a \in 0 .. 3
  BY <1>1 DEF Axes
<1>4. FollowingIs(s, r, a, b)
  BY <1>2, <1>3, FollowingAxis
<1>5. Started(s, r)
  <2>1. axis[r] # 4
    BY <1>1 DEF Axes
  <2> QED
    BY <1>2, <2>1 DEF Time
<1>6. DOMAIN Scattered(r, layers) = GhostNode[s][r]
  BY <1>2, Names DEF Scattered
<1> HIDE DEF layers
<1>7. /\ DOMAIN ghost' = Processes(s) /\ DOMAIN ghost'[r] = GhostNode[s][r]
      /\ \A q \in Processes(s) : q # r => ghost'[q] = ghost[q]
      /\ DOMAIN recvBuffer' = Processes(s)
  BY <1>1, <1>2, <1>6 DEF Updated, Typed
<1>8. step' \in [Processes(s) -> 0 .. s.steps] /\ afterFtoC' \in [Processes(s) -> BOOLEAN]
      /\ (afterFtoC'[r] => Refined(s)) /\ (Refined(s) /\ ~afterFtoC'[r] => step'[r] > 0)
      /\ \A q \in Processes(s) : q # r => step'[q] = step[q] /\ afterFtoC'[q] = afterFtoC[q]
  BY <1>1, <1>2 DEF Typed, Time
<1>9. Exchange(s, r)' > 0
  <2>1. Exchange(s, r)' = Exchange(s, r)
    BY <1>1 DEF Exchange
  <2> QED
    BY <1>1, <1>2, <2>1 DEF Time
<1>10. Channels(s)'
  <2>1. ASSUME NEW p \in Processes(s), NEW q \in Processes(s)
        PROVE  DOMAIN channel'[p] = Processes(s) /\ IsChannel(channel'[p][q])
    <3> DEFINE c == channel[p][r]  k == Posted(r, p)  d == SubSeq(c, k + 1, Len(c))
    <3>1. DOMAIN channel[p] = Processes(s) /\ IsChannel(channel[p][q]) /\ IsChannel(c)
      BY <1>2 DEF Channels
    <3>2. Updated(channel[p], channel'[p], r, d)
      BY <1>1
    <3>3. k \in Nat /\ (k > 0 => Len(c) >= k)
      BY <1>1, PostedNumber
    <3>4. IsList(c) /\ Len(c) \in Nat /\ \A i \in 1 .. Len(c) : IsList(c[i])
      BY <3>1, ListType DEF IsChannel
    <3> HIDE DEF c, k
    <3>5. k <= Len(c)
      BY <3>3, <3>4
    <3>6. IsList(d) /\ Len(d) = Len(c) - k /\ \A i \in 1 .. Len(c) - k : d[i] = c[i + k]
      BY <3>3, <3>4, <3>5, DropList
    <3> HIDE DEF d
    <3>7. \A i \in 1 .. Len(c) - k : i + k \in 1 .. Len(c)
      BY <3>3, <3>4, <3>5
    <3>8. IsChannel(d)
      BY <3>4, <3>6, <3>7 DEF IsChannel
    <3> QED
      BY <3>1, <3>2, <3>8 DEF Updated
  <2>2. DOMAIN channel' = Processes(s)
    BY <1>1, <1>2 DEF Channels
  <2> QED
    BY <2>1, <2>2 DEF Channels
<1> HIDE DEF a, b
<1> QED
  BY <1>1, <1>2, <1>3, <1>4, <1>5, <1>7, <1>8, <1>9, <1>10, PreparedType

\* The beginning of an exchange: the collision or the interpolation, and the
\* preparation of the first axis.
Beginning(s, r) ==
  /\ Started(s, r) /\ axis[r] = 4
  /\ setup' = setup /\ UNCHANGED <<channel, startVars, ghost, recvBuffer>>
  /\ step' \in [Processes(s) -> 0 .. s.steps] /\ afterFtoC' \in [Processes(s) -> BOOLEAN]
  /\ afterFtoC'[r] => Refined(s)
  /\ Refined(s) /\ ~afterFtoC'[r] => step'[r] > 0
  /\ Exchange(s, r)' = Exchange(s, r) + 1
  /\ \A q \in Processes(s) : q # r => step'[q] = step[q] /\ afterFtoC'[q] = afterFtoC[q]
  /\ Preparing(s, r, Following(r, 0))

\* The number of an exchange tells the step and the half of it.
LEMMA ExchangeNumber ==
  ASSUME NEW s, NEW t \in Nat, NEW f \in BOOLEAN, f => Refined(s), Refined(s) /\ ~f => t > 0,
         NEW e, e = IF Refined(s) THEN 2 * t - (IF f THEN 0 ELSE 1) ELSE t
  PROVE  /\ e \in Nat
         /\ (IF Refined(s) THEN (e + 1) \div 2 ELSE e) = t
         /\ (Refined(s) /\ e % 2 = 0) <=> f
<1>1. CASE ~Refined(s)
  BY <1>1
<1>2. CASE Refined(s) /\ f
  <2>1. e = 2 * t /\ t \in Nat
    BY <1>2
  <2>2. e \in Nat /\ (e + 1) \div 2 = t /\ e % 2 = 0
    BY ONLY <2>1
  <2> QED
    BY <1>2, <2>2
<1>3. CASE Refined(s) /\ ~f
  <2>1. e = 2 * t - 1 /\ t \in Nat /\ t > 0
    BY <1>3
  <2>2. e \in Nat /\ (e + 1) \div 2 = t /\ e % 2 = 1
    BY ONLY <2>1
  <2> QED
    BY <1>3, <2>2
<1> QED
  BY <1>1, <1>2, <1>3

\* Collide begins an exchange.
LEMMA CollideEffect ==
  ASSUME NEW s \in Setups, TypeInv(s), NEW r \in Processes(s), Collide(r)
  PROVE  Beginning(s, r)
<1>1. setup = s /\ Typed(s) /\ Time(s, r)
  BY DEF TypeInv
<1>2. /\ StartedUp(r) /\ axis[r] = 4 /\ afterFtoC[r] = Refined(setup) /\ step[r] < setup.steps
      /\ step' = [step EXCEPT ![r] = @ + 1]
      /\ afterFtoC' = [afterFtoC EXCEPT ![r] = FALSE]
      /\ UNCHANGED <<setup, channel, startVars, ghost, recvBuffer>>
      /\ Prepare(r, Following(r, 0))
  BY DEF Collide, MayCollide
<1>3. Preparing(s, r, Following(r, 0))
  BY <1>2, PrepareEffect
<1>4. Started(s, r)
  BY <1>1, <1>2, Names
<1>5. step[r] \in Nat /\ step[r] + 1 \in 0 .. s.steps /\ s.steps \in Nat /\ step'[r] = step[r] + 1
  <2>1. step[r] \in 0 .. s.steps /\ s.steps \in Nat /\ step[r] < s.steps
    BY <1>1, <1>2, SetupFacts DEF Typed
  <2>2. step'[r] = step[r] + 1
    BY <1>1, <1>2 DEF Typed
  <2> QED
    BY <2>1, <2>2
<1>6. step' \in [Processes(s) -> 0 .. s.steps]
  <2> DEFINE v == step[r] + 1
  <2>1. v \in 0 .. s.steps /\ step' = [step EXCEPT ![r] = v] /\ step \in [Processes(s) -> 0 .. s.steps]
    BY <1>1, <1>2, <1>5 DEF Typed
  <2> HIDE DEF v
  <2> QED
    BY <2>1
<1>7. afterFtoC' \in [Processes(s) -> BOOLEAN] /\ afterFtoC'[r] = FALSE
  BY <1>1, <1>2 DEF Typed
<1>8. \A q \in Processes(s) : q # r => step'[q] = step[q] /\ afterFtoC'[q] = afterFtoC[q]
  BY <1>1, <1>2 DEF Typed
<1>9. Exchange(s, r)' = Exchange(s, r) + 1
  BY <1>1, <1>2, <1>5, <1>7 DEF Exchange
<1> QED
  BY <1>2, <1>3, <1>4, <1>5, <1>6, <1>7, <1>8, <1>9 DEF Beginning

\* Interpolate begins an exchange.
LEMMA InterpolateEffect ==
  ASSUME NEW s \in Setups, TypeInv(s), NEW r \in Processes(s), Interpolate(r)
  PROVE  Beginning(s, r)
<1>1. setup = s /\ Typed(s) /\ Time(s, r)
  BY DEF TypeInv
<1>2. /\ Refined(s) /\ axis[r] = 4 /\ ~afterFtoC[r]
      /\ afterFtoC' = [afterFtoC EXCEPT ![r] = TRUE]
      /\ UNCHANGED <<setup, channel, startVars, step, ghost, recvBuffer>>
      /\ Prepare(r, Following(r, 0))
  BY <1>1 DEF Interpolate, MayInterpolate
<1>3. Preparing(s, r, Following(r, 0))
  BY <1>2, PrepareEffect
<1>4. Started(s, r)
  BY <1>1, <1>2 DEF Time
<1>7. afterFtoC' \in [Processes(s) -> BOOLEAN] /\ afterFtoC'[r] = TRUE
  BY <1>1, <1>2 DEF Typed
<1>8. \A q \in Processes(s) : q # r => step'[q] = step[q] /\ afterFtoC'[q] = afterFtoC[q]
  BY <1>1, <1>2 DEF Typed
<1>5. step[r] \in Nat /\ step'[r] = step[r]
  <2>1. step[r] \in 0 .. s.steps /\ s.steps \in Nat
    BY <1>1, SetupFacts DEF Typed
  <2> QED
    BY <1>2, <2>1
<1>9. Exchange(s, r)' = Exchange(s, r) + 1
  BY <1>2, <1>5, <1>7 DEF Exchange
<1>10. step' \in [Processes(s) -> 0 .. s.steps]
  BY <1>1, <1>2 DEF Typed
<1> QED
  BY <1>2, <1>3, <1>4, <1>5, <1>7, <1>8, <1>9, <1>10 DEF Beginning

\* The number of the exchange a process is in.
LEMMA ExchangeType ==
  ASSUME NEW s \in Setups, TypeInv(s), NEW r \in Processes(s)
  PROVE  /\ Exchange(s, r) \in Nat /\ step[r] \in Nat
         /\ (IF Refined(s) THEN (Exchange(s, r) + 1) \div 2 ELSE Exchange(s, r)) = step[r]
         /\ (Refined(s) /\ Exchange(s, r) % 2 = 0) <=> afterFtoC[r]
<1>1. step[r] \in Nat /\ afterFtoC[r] \in BOOLEAN /\ (afterFtoC[r] => Refined(s)) /\ (Refined(s) /\ ~afterFtoC[r] => step[r] > 0)
  BY SetupFacts DEF TypeInv, Typed, Time
<1> DEFINE e == Exchange(s, r)  t == step[r]  f == afterFtoC[r]
<1>2. e = IF Refined(s) THEN 2 * t - (IF f THEN 0 ELSE 1) ELSE t
  BY DEF Exchange
<1>3. t \in Nat /\ f \in BOOLEAN /\ (f => Refined(s)) /\ (Refined(s) /\ ~f => t > 0)
  BY <1>1
<1> HIDE DEF e, t, f
<1>4. /\ e \in Nat /\ (IF Refined(s) THEN (e + 1) \div 2 ELSE e) = t
      /\ (Refined(s) /\ e % 2 = 0) <=> f
  BY ONLY <1>2, <1>3, ExchangeNumber
<1> QED
  BY <1>3, <1>4 DEF e, t, f

\* The beginning of an exchange keeps the type invariant.
LEMMA BeginType ==
  ASSUME NEW s \in Setups, TypeInv(s), NEW r \in Processes(s), Beginning(s, r)
  PROVE  TypeInv(s)'
<1> DEFINE b == Following(r, 0)
<1>1. setup = s /\ Typed(s) /\ Channels(s) /\ Buffers(s, r)
  BY DEF TypeInv
<1>2. 0 \in 0 .. 3
  OBVIOUS
<1>3. FollowingIs(s, r, 0, b)
  BY <1>1, <1>2, FollowingAxis
<1> HIDE DEF b
<1>4. /\ Started(s, r) /\ setup' = setup /\ UNCHANGED <<channel, startVars, ghost, recvBuffer>>
      /\ step' \in [Processes(s) -> 0 .. s.steps] /\ afterFtoC' \in [Processes(s) -> BOOLEAN]
      /\ afterFtoC'[r] => Refined(s)
      /\ Refined(s) /\ ~afterFtoC'[r] => step'[r] > 0
      /\ Exchange(s, r)' = Exchange(s, r) + 1
      /\ \A q \in Processes(s) : q # r => step'[q] = step[q] /\ afterFtoC'[q] = afterFtoC[q]
      /\ Preparing(s, r, b)
  BY DEF Beginning, b
<1>5. Exchange(s, r)' > 0
  BY <1>4, ExchangeType
<1>6. Channels(s)'
  BY <1>1, <1>4 DEF Channels
<1>7. /\ DOMAIN ghost' = Processes(s) /\ DOMAIN ghost'[r] = GhostNode[s][r] /\ DOMAIN recvBuffer' = Processes(s)
      /\ \A q \in Processes(s) : q # r => ghost'[q] = ghost[q]
  BY <1>1, <1>4 DEF Typed, Buffers
<1>8. setup' = s /\ UNCHANGED startVars
  BY <1>1, <1>4
<1>9. \A q \in Processes(s) : q # r => step'[q] = step[q] /\ afterFtoC'[q] = afterFtoC[q] /\ ghost'[q] = ghost[q]
  BY <1>4, <1>7
<1> QED
  BY <1>2, <1>3, <1>4, <1>5, <1>6, <1>7, <1>8, <1>9, PreparedType

\* The type invariant holds at the start.
LEMMA InitType == ASSUME NEW s \in Setups, Init, setup = s PROVE TypeInv(s)
<1>1. /\ channel = [p \in Processes(s) |-> [r \in Processes(s) |-> << >>]]
      /\ sendIndex = SendIndices[s] /\ recvIndex = ReceiveIndices[s]
      /\ sendNumber = [r \in Processes(s) |-> << >>] /\ recvNumber = [r \in Processes(s) |-> << >>]
      /\ turn = [r \in Processes(s) |-> 1] /\ told = [r \in Processes(s) |-> FALSE]
      /\ step = [r \in Processes(s) |-> 0]
      /\ afterFtoC = [r \in Processes(s) |-> Refined(s)]
      /\ axis = [r \in Processes(s) |-> 4] /\ sent = [r \in Processes(s) |-> 0]
      /\ sendBuffer = [r \in Processes(s) |-> << >>] /\ recvBuffer = [r \in Processes(s) |-> << >>]
  BY Names DEF Init, StartUp
<1>2. DOMAIN ghost = Processes(s) /\ \A r \in Processes(s) : DOMAIN ghost[r] = GhostNode[s][r]
  BY Names DEF Init
<1>3. Typed(s)
  <2>1. Refined(s) \in BOOLEAN
    BY DEF Refined
  <2>2. 0 \in 0 .. s.steps
    BY SetupFacts
  <2>3. DOMAIN sendIndex = Processes(s) /\ DOMAIN recvIndex = Processes(s)
    BY <1>1 DEF SendIndices, ReceiveIndices
  <2> QED
    BY <1>1, <1>2, <2>1, <2>2, <2>3 DEF Typed
<1>4. Channels(s)
  <2>1. IsList(<< >>) /\ Len(<< >>) = 0
    BY DEF IsList
  <2>2. IsChannel(<< >>)
    BY <2>1 DEF IsChannel
  <2> QED
    BY <1>1, <2>2 DEF Channels
<1>5. ASSUME NEW r \in Processes(s) PROVE Lists(s, r) /\ Time(s, r) /\ Buffers(s, r)
  <2>1. DOMAIN sendIndex[r] = LayersOf(s, r) /\ DOMAIN recvIndex[r] = LayersOf(s, r)
    BY <1>1 DEF SendIndices, ReceiveIndices, LayersOf
  <2>2. \A l \in LayersOf(s, r) : IsList(sendIndex[r][l]) /\ IsList(recvIndex[r][l])
    <3> TAKE l \in LayersOf(s, r)
    <3>1. SendIndices[s][r][l] \in Seq(SendNodes(s, r, l)) /\ ReceiveIndices[s][r][l] \in Seq(RecvNodes(s, r, l))
      BY IndicesListed DEF Enumerates, Injects
    <3> QED
      BY <1>1, <3>1, SeqIsList
  <2>3. \A l \in LayersOf(s, r) : ~ToldOn(s, r, l) /\ ~HeardOn(s, r, l)
    <3> TAKE l \in LayersOf(s, r)
    <3>1. PlaceOf(s, r, l) \in 1 .. Len(LayerSeq[s][r]) /\ Len(LayerSeq[s][r]) \in Nat
      BY Places
    <3> QED
      BY <1>1, <3>1 DEF ToldOn, HeardOn
  <2>4. DOMAIN sendNumber[r] = {} /\ DOMAIN recvNumber[r] = {}
    BY <1>1
  <2>5. Lists(s, r)
    BY <2>1, <2>2, <2>3, <2>4 DEF Lists
  <2>6. Time(s, r)
    <3>1. 1 \in 1 .. Len(LayerSeq[s][r]) + 1
      <4>1. Len(LayerSeq[s][r]) \in Nat
        BY Places
      <4> QED
        BY <4>1
    <3>2. Started(s, r) \/ Refined(s)
      BY DEF Started
    <3> QED
      BY <1>1, <3>1, <3>2 DEF Time, Axes
  <2>7. Buffers(s, r)
    <3>1. DOMAIN sendBuffer[r] = {}
      BY <1>1
    <3> QED
      BY <1>1, <1>2, <3>1 DEF Buffers, Axes
  <2> QED
    BY <2>5, <2>6, <2>7
<1> QED
  BY <1>3, <1>4, <1>5 DEF TypeInv

\* A step that changes nothing keeps the type invariant.
LEMMA StutterType == ASSUME NEW s \in Setups, TypeInv(s), UNCHANGED vars PROVE TypeInv(s)'
<1>1. UNCHANGED <<setup, channel, sendIndex, recvIndex, sendNumber, recvNumber, turn, told, step, afterFtoC, axis, sent,
                  ghost, sendBuffer, recvBuffer>>
  BY DEF vars, startVars, timeVars
<1>2. setup = s /\ Typed(s) /\ Channels(s) /\ \A q \in Processes(s) : Lists(s, q) /\ Time(s, q) /\ Buffers(s, q)
  BY DEF TypeInv
<1>3. \A q \in Processes(s) : Lists(s, q)' /\ Time(s, q)' /\ Buffers(s, q)'
  BY <1>1, <1>2, SameLists, SameTime, SameBuffers
<1>4. Typed(s)' /\ Channels(s)'
  BY <1>1, <1>2 DEF Typed, Channels
<1> QED
  BY <1>1, <1>2, <1>3, <1>4 DEF TypeInv

\* What the steps do, all of them at once.
Effect(s, r) == Telling(s, r) \/ Hearing(s, r) \/ Beginning(s, r) \/ Sending(s, r) \/ Receiving(s, r)

\* Every step is one of the five effects of one process.
LEMMA StepEffect ==
  ASSUME NEW s \in Setups, TypeInv(s), Next
  PROVE  \E r \in Processes(s) : Effect(s, r)
<1>1. Ranks = Processes(s)
  BY Names DEF TypeInv
<1>2. PICK r \in Processes(s) : Act(r)
  BY <1>1 DEF Next
<1>3. Effect(s, r)
  BY <1>2, TellEffect, HearEffect, CollideEffect, InterpolateEffect, SendEffect, ReceiveEffect DEF Act, Effect
<1> QED
  BY <1>3

\* Every step keeps the type invariant.
LEMMA StepType ==
  ASSUME NEW s \in Setups, TypeInv(s), [Next]_vars
  PROVE  TypeInv(s)'
<1>1. CASE UNCHANGED vars
  BY <1>1, StutterType
<1>2. CASE Next
  BY <1>2, StepEffect, TellType, HearType, BeginType, SendType, ReceiveType DEF Effect
<1> QED
  BY <1>1, <1>2

\* The type invariant implies TypeOK.
LEMMA TypeInvGivesTypeOK == ASSUME NEW s \in Setups, TypeInv(s) PROVE TypeOK
<1>1. setup = s /\ Typed(s) /\ \A q \in Processes(s) : Lists(s, q) /\ Time(s, q) /\ Buffers(s, q)
  BY DEF TypeInv
<1>2. Ranks = Processes(s) /\ \A r : GhostNodes(r) = GhostNode[s][r]
  BY <1>1, Names
<1>3. /\ setup \in Setups /\ step \in [Ranks -> 0 .. setup.steps]
      /\ afterFtoC \in [Ranks -> BOOLEAN] /\ told \in [Ranks -> BOOLEAN]
      /\ axis \in [Ranks -> 1 .. 4] /\ sent \in [Ranks -> 0 .. 2]
  BY <1>1, <1>2 DEF Typed
<1>4. ASSUME NEW r \in Ranks
      PROVE  /\ turn[r] \in 1 .. Len(LayerSeq[setup][r]) + 1
             /\ DOMAIN ghost[r] = GhostNodes(r)
             /\ \A l \in DOMAIN sendNumber[r] : sendNumber[r][l] \in 0 .. Len(sendIndex[r][l])
             /\ \A l \in DOMAIN recvNumber[r] : recvNumber[r][l] \in 0 .. Len(recvIndex[r][l])
  <2>1. Lists(s, r) /\ Time(s, r) /\ Buffers(s, r)
    BY <1>1, <1>2
  <2>2. turn[r] \in 1 .. Len(LayerSeq[setup][r]) + 1 /\ DOMAIN ghost[r] = GhostNodes(r)
    BY <1>1, <1>2, <2>1 DEF Time, Buffers
  <2>3. /\ \A l \in DOMAIN sendNumber[r] : sendNumber[r][l] \in 0 .. Len(sendIndex[r][l])
        /\ \A l \in DOMAIN recvNumber[r] : recvNumber[r][l] \in 0 .. Len(recvIndex[r][l])
    BY <2>1 DEF Lists
  <2> QED
    BY <2>2, <2>3
<1> QED
  BY <1>3, <1>4 DEF TypeOK

\* In every state of every grid a process is somewhere in its start-up or its
\* exchange and has a value on every ghost node, and the front part of a list
\* is no longer than the list (GridGenerator, ExchangeData27).
THEOREM Typing == Spec => []TypeOK
<1> DEFINE Some == \E s \in Setups : TypeInv(s)
<1>1. Init => Some
  <2> SUFFICES ASSUME Init PROVE Some
    OBVIOUS
  <2>1. setup \in Setups
    BY DEF Init, StartUp
  <2>2. PICK s \in Setups : setup = s
    BY <2>1
  <2> QED
    BY <2>2, InitType
<1>2. Some /\ [Next]_vars => Some'
  <2> SUFFICES ASSUME Some, [Next]_vars PROVE Some'
    OBVIOUS
  <2>1. PICK s \in Setups : TypeInv(s)
    OBVIOUS
  <2>2. TypeInv(s)'
    BY <2>1, StepType
  <2> QED
    BY <2>2
<1>3. Some => TypeOK
  BY TypeInvGivesTypeOK
<1> QED
  BY <1>1, <1>2, <1>3, PTL DEF Spec

-----------------------------------------------------------------------------
(* How many messages a process has sent and received on its layers *)

\* Whether the exchange at hand has sent on a layer, and the messages sent and
\* received on it since the start, the positions of the start-up among them.
SentIn(s, r, l) == axis[r] > l[1] \/ (axis[r] = l[1] /\ SideOf(s, r, l) <= sent[r])
\* How many messages process r has sent on layer l, the positions among them.
SentOn(s, r, l) == (IF ToldOn(s, r, l) THEN 1 ELSE 0) + Exchange(s, r) - (IF SentIn(s, r, l) THEN 0 ELSE 1)
GotOn(s, r, l)  == (IF HeardOn(s, r, l) THEN 1 ELSE 0) + Exchange(s, r) - (IF axis[r] > l[1] THEN 0 ELSE 1)

\* Process r is the only one to send, or to receive, and it does on these layers.
Sends(s, r, layers) ==
  \A q \in Processes(s) : \A m \in LayersOf(s, q) :
    SentOn(s, q, m)' = SentOn(s, q, m) + (IF q = r /\ m \in layers THEN 1 ELSE 0)
\* Process r is the only one to receive, and it does on the layers given.
Gets(s, r, layers) ==
  \A q \in Processes(s) : \A m \in LayersOf(s, q) :
    GotOn(s, q, m)' = GotOn(s, q, m) + (IF q = r /\ m \in layers THEN 1 ELSE 0)

\* The types of what the numbers are made of.
LEMMA CountParts ==
  ASSUME NEW s \in Setups, TypeInv(s), NEW r \in Processes(s), NEW l \in LayersOf(s, r)
  PROVE  /\ Exchange(s, r) \in Nat /\ axis[r] \in 1 .. 4 /\ sent[r] \in 0 .. 2 /\ turn[r] \in Nat
         /\ l[1] \in 1 .. 3 /\ SideOf(s, r, l) \in 1 .. 2 /\ PlaceOf(s, r, l) \in Nat
         /\ SideOf(s, r, l) = IF IsFirst(s, r, l) THEN 1 ELSE 2
         /\ axis[r] # 4 => Exchange(s, r) > 0 /\ axis[r] \in 1 .. 3
<1>1. Typed(s) /\ Time(s, r)
  BY DEF TypeInv
<1>2. Exchange(s, r) \in Nat
  BY ExchangeType
<1>3. l[1] \in 1 .. 3
  BY OtherSide DEF Axes
<1>4. PlaceOf(s, r, l) \in Nat
  BY Places
<1>5. axis[r] \in 1 .. 4 /\ sent[r] \in 0 .. 2 /\ turn[r] \in Nat
  BY <1>1 DEF Typed
<1>6. axis[r] # 4 => Exchange(s, r) > 0 /\ axis[r] \in 1 .. 3
  BY <1>1, <1>5 DEF Time, Axes
<1> QED
  BY <1>2, <1>3, <1>4, <1>5, <1>6 DEF SideOf

\* The numbers of messages are numbers.
LEMMA CountsType ==
  ASSUME NEW s \in Setups, TypeInv(s), NEW r \in Processes(s), NEW l \in LayersOf(s, r)
  PROVE  SentOn(s, r, l) \in Nat /\ GotOn(s, r, l) \in Nat
<1>1. /\ Exchange(s, r) \in Nat /\ axis[r] \in 1 .. 4 /\ l[1] \in 1 .. 3
      /\ axis[r] # 4 => Exchange(s, r) > 0
  BY CountParts
<1>2. axis[r] = 4 => axis[r] > l[1]
  BY <1>1
<1> QED
  BY <1>1, <1>2 DEF SentOn, GotOn, SentIn

\* The messages of a process that the step does not touch.
LEMMA SameCounts ==
  ASSUME NEW s, NEW q, turn'[q] = turn[q], told'[q] = told[q], step'[q] = step[q], afterFtoC'[q] = afterFtoC[q],
         axis'[q] = axis[q], sent'[q] = sent[q]
  PROVE  \A m : SentOn(s, q, m)' = SentOn(s, q, m) /\ GotOn(s, q, m)' = GotOn(s, q, m)
BY DEF SentOn, GotOn, SentIn, ToldOn, HeardOn, Exchange

\* Of the two sides of an axis one comes first.
LEMMA OtherIsFirst ==
  ASSUME NEW s \in Setups, NEW r \in Processes(s), NEW l \in LayersOf(s, r), Opposite(l) \in LayersOf(s, r)
  PROVE  /\ IsFirst(s, r, Opposite(l)) <=> ~IsFirst(s, r, l)
         /\ Opposite(Opposite(l)) = l /\ Opposite(l)[1] = l[1] /\ Opposite(l) # l
<1>1. /\ l[2] \in SideSet /\ Opposite(l)[1] = l[1] /\ Opposite(l)[2] = -l[2] /\ Opposite(Opposite(l)) = l
      /\ Opposite(l) # l
  BY OtherSide
<1>2. l[2] # -l[2]
  BY <1>1 DEF SideSet
<1>3. /\ ProcessNeighbor[s][r][l[1]][SideOf(s, r, l)] = l[2]
      /\ ProcessNeighbor[s][r][l[1]][SideOf(s, r, Opposite(l))] = -l[2]
  BY <1>1, SidePlaces
<1>4. SideOf(s, r, l) # SideOf(s, r, Opposite(l))
  BY <1>2, <1>3
<1> QED
  BY <1>1, <1>4 DEF SideOf

\* Of the two layers of an axis the first is told, heard and sent first.
LEMMA TellCounts ==
  ASSUME NEW s \in Setups, TypeInv(s), TypeInv(s)', NEW r \in Processes(s), Telling(s, r),
         NEW l, l = LayerSeq[s][r][turn[r]]
  PROVE  /\ l \in LayersOf(s, r) /\ ~ToldOn(s, r, l) /\ SentOn(s, r, l) = 0 /\ Sends(s, r, {l}) /\ Gets(s, r, {})
         /\ Opposite(l) \in LayersOf(s, r) =>
              SentOn(s, r, Opposite(l)) = IF IsFirst(s, r, l) THEN 0 ELSE 1
<1>1. /\ Refined(s) /\ turn[r] <= Len(LayerSeq[s][r]) /\ ~told[r]
      /\ Updated(told, told', r, TRUE) /\ UNCHANGED <<turn, timeVars>>
  BY Zenon DEF Telling
<1>2. l \in LayersOf(s, r) /\ PlaceOf(s, r, l) = turn[r] /\ turn[r] \in 1 .. Len(LayerSeq[s][r])
  BY <1>1, AtTurn
<1>3. Typed(s) /\ Time(s, r)
  BY DEF TypeInv
<1>4. turn[r] \in Nat
  BY <1>3 DEF Typed
<1>5. ~Started(s, r)
  BY <1>1, <1>2, Places DEF Started
<1>6. Exchange(s, r) = 0 /\ axis[r] = 4
  BY <1>1, <1>3, <1>5 DEF Time, Exchange
<1>7. \A m \in LayersOf(s, r) : SentIn(s, r, m) /\ axis[r] > m[1]
  <2> TAKE m \in LayersOf(s, r)
  <2>1. m[1] \in 1 .. 3
    BY OtherSide DEF Axes
  <2> QED
    BY <1>6, <2>1 DEF SentIn
<1>8. \A m \in LayersOf(s, r) : SentOn(s, r, m) = IF ToldOn(s, r, m) THEN 1 ELSE 0
  BY <1>6, <1>7 DEF SentOn
<1>9. UNCHANGED <<step, afterFtoC, axis, sent>> /\ told'[r] = TRUE
  BY <1>1 DEF timeVars, Updated
<1>10. ASSUME NEW m \in LayersOf(s, r)
       PROVE  /\ ToldOn(s, r, m)' <=> ToldOn(s, r, m) \/ m = l
              /\ HeardOn(s, r, m)' <=> HeardOn(s, r, m)
  <2>1. PlaceOf(s, r, m) = turn[r] <=> m = l
    BY <1>2, Places
  <2> QED
    BY <1>1, <1>9, <2>1 DEF ToldOn, HeardOn
<1>11. ~ToldOn(s, r, l)
  BY <1>1, <1>2, <1>4 DEF ToldOn
<1>12. ASSUME NEW q \in Processes(s), NEW m \in LayersOf(s, q)
       PROVE  /\ SentOn(s, q, m)' = SentOn(s, q, m) + (IF q = r /\ m \in {l} THEN 1 ELSE 0)
              /\ GotOn(s, q, m)' = GotOn(s, q, m)
              /\ GotOn(s, q, m) \in Int
  <2>1. SentOn(s, q, m) \in Nat /\ GotOn(s, q, m) \in Nat
    BY CountsType
  <2>2. CASE q # r
    <3>1. told'[q] = told[q]
      BY <1>1, <1>3, <2>2 DEF Updated, Typed
    <3> QED
      BY <1>1, <1>9, <2>1, <2>2, <3>1, SameCounts
  <2>3. CASE q = r
    <3>1. Exchange(s, r)' = Exchange(s, r) /\ (SentIn(s, r, m)' <=> SentIn(s, r, m))
      BY <1>9 DEF Exchange, SentIn
    <3>2. SentIn(s, r, m) /\ Exchange(s, r) = 0
      BY <1>6, <1>7, <2>3
    <3>3. SentOn(s, r, m)' = SentOn(s, r, m) + (IF m = l THEN 1 ELSE 0)
      BY <1>10, <1>11, <2>3, <3>1, <3>2 DEF SentOn
    <3>4. GotOn(s, r, m)' = GotOn(s, r, m)
      BY <1>9, <1>10, <2>3, <3>1 DEF GotOn
    <3> QED
      BY <2>1, <2>3, <3>3, <3>4
  <2> QED
    BY <2>1, <2>2, <2>3
<1>13. Sends(s, r, {l}) /\ Gets(s, r, {})
  BY <1>12 DEF Sends, Gets
<1>14. ASSUME Opposite(l) \in LayersOf(s, r) PROVE SentOn(s, r, Opposite(l)) = IF IsFirst(s, r, l) THEN 0 ELSE 1
  <2>1. CASE IsFirst(s, r, l)
    <3>1. PlaceOf(s, r, Opposite(l)) = turn[r] + 1
      BY <1>2, <1>14, <2>1, TwinPlaces
    <3>2. ~ToldOn(s, r, Opposite(l))
      BY <1>4, <3>1 DEF ToldOn
    <3> QED
      BY <1>8, <1>14, <2>1, <3>2
  <2>2. CASE ~IsFirst(s, r, l)
    <3>1. IsFirst(s, r, Opposite(l)) /\ Opposite(Opposite(l)) = l
      BY <1>2, <1>14, <2>2, OtherIsFirst
    <3>2. turn[r] = PlaceOf(s, r, Opposite(l)) + 1
      BY <1>2, <1>14, <3>1, TwinPlaces
    <3>3. PlaceOf(s, r, Opposite(l)) \in Nat
      BY <1>14, Places
    <3>4. ToldOn(s, r, Opposite(l))
      BY <1>1, <1>4, <3>2, <3>3 DEF ToldOn
    <3> QED
      BY <1>8, <1>14, <2>2, <3>4
  <2> QED
    BY <2>1, <2>2
<1> QED
  BY Zenon, <1>2, <1>8, <1>11, <1>13, <1>14

\* ReceivePositions takes one message, the first of its layer.
LEMMA HearCounts ==
  ASSUME NEW s \in Setups, TypeInv(s), TypeInv(s)', NEW r \in Processes(s), Hearing(s, r),
         NEW l, l = LayerSeq[s][r][turn[r]]
  PROVE  /\ l \in LayersOf(s, r) /\ ToldOn(s, r, l) /\ ~HeardOn(s, r, l) /\ GotOn(s, r, l) = 0
         /\ Gets(s, r, {l}) /\ Sends(s, r, {})
         /\ Opposite(l) \in LayersOf(s, r) =>
              GotOn(s, r, Opposite(l)) = IF IsFirst(s, r, l) THEN 0 ELSE 1
<1>1. /\ Refined(s) /\ turn[r] <= Len(LayerSeq[s][r]) /\ told[r]
      /\ Updated(told, told', r, FALSE) /\ Updated(turn, turn', r, turn[r] + 1) /\ UNCHANGED timeVars
  BY Zenon DEF Hearing
<1>2. l \in LayersOf(s, r) /\ PlaceOf(s, r, l) = turn[r] /\ turn[r] \in 1 .. Len(LayerSeq[s][r])
  BY <1>1, AtTurn
<1>3. Typed(s) /\ Time(s, r)
  BY DEF TypeInv
<1>4. turn[r] \in Nat
  BY <1>3 DEF Typed
<1>5. ~Started(s, r)
  BY <1>1, <1>2, Places DEF Started
<1>6. Exchange(s, r) = 0 /\ axis[r] = 4
  BY <1>1, <1>3, <1>5 DEF Time, Exchange
<1>7. \A m \in LayersOf(s, r) : axis[r] > m[1]
  <2> TAKE m \in LayersOf(s, r)
  <2>1. m[1] \in 1 .. 3
    BY OtherSide DEF Axes
  <2> QED
    BY <1>6, <2>1
<1>8. \A m \in LayersOf(s, r) : GotOn(s, r, m) = IF HeardOn(s, r, m) THEN 1 ELSE 0
  BY <1>6, <1>7 DEF GotOn
<1>9. UNCHANGED <<step, afterFtoC, axis, sent>> /\ told'[r] = FALSE /\ turn'[r] = turn[r] + 1
  BY <1>1 DEF timeVars, Updated
<1>10. ASSUME NEW m \in LayersOf(s, r)
       PROVE  /\ ToldOn(s, r, m)' <=> ToldOn(s, r, m)
              /\ HeardOn(s, r, m)' <=> HeardOn(s, r, m) \/ m = l
  <2>1. PlaceOf(s, r, m) = turn[r] <=> m = l
    BY <1>2, Places
  <2>2. PlaceOf(s, r, m) \in Nat
    BY Places
  <2>3. PlaceOf(s, r, m) < turn[r] + 1 <=> PlaceOf(s, r, m) < turn[r] \/ PlaceOf(s, r, m) = turn[r]
    BY <1>4, <2>2
  <2> QED
    BY <1>1, <1>9, <2>1, <2>3 DEF ToldOn, HeardOn
<1>11. ~HeardOn(s, r, l) /\ ToldOn(s, r, l)
  BY <1>1, <1>2, <1>4 DEF ToldOn, HeardOn
<1>12. ASSUME NEW q \in Processes(s), NEW m \in LayersOf(s, q)
       PROVE  /\ GotOn(s, q, m)' = GotOn(s, q, m) + (IF q = r /\ m \in {l} THEN 1 ELSE 0)
              /\ SentOn(s, q, m)' = SentOn(s, q, m)
              /\ SentOn(s, q, m) \in Int
  <2>1. SentOn(s, q, m) \in Nat /\ GotOn(s, q, m) \in Nat
    BY CountsType
  <2>2. CASE q # r
    <3>1. told'[q] = told[q] /\ turn'[q] = turn[q]
      BY <1>1, <1>3, <2>2 DEF Updated, Typed
    <3> QED
      BY <1>9, <2>1, <2>2, <3>1, SameCounts
  <2>3. CASE q = r
    <3>1. Exchange(s, r)' = Exchange(s, r) /\ (SentIn(s, r, m)' <=> SentIn(s, r, m))
      BY <1>9 DEF Exchange, SentIn
    <3>2. axis[r] > m[1] /\ Exchange(s, r) = 0 /\ axis'[r] = axis[r]
      BY <1>6, <1>7, <1>9, <2>3
    <3>3. GotOn(s, r, m)' = GotOn(s, r, m) + (IF m = l THEN 1 ELSE 0)
      BY <1>10, <1>11, <2>3, <3>1, <3>2 DEF GotOn
    <3>4. SentOn(s, r, m)' = SentOn(s, r, m)
      BY <1>9, <1>10, <2>3, <3>1 DEF SentOn
    <3> QED
      BY <2>1, <2>3, <3>3, <3>4
  <2> QED
    BY <2>1, <2>2, <2>3
<1>13. Gets(s, r, {l}) /\ Sends(s, r, {})
  BY <1>12 DEF Sends, Gets
<1>14. ASSUME Opposite(l) \in LayersOf(s, r) PROVE GotOn(s, r, Opposite(l)) = IF IsFirst(s, r, l) THEN 0 ELSE 1
  <2>1. CASE IsFirst(s, r, l)
    <3>1. PlaceOf(s, r, Opposite(l)) = turn[r] + 1
      BY <1>2, <1>14, <2>1, TwinPlaces
    <3>2. ~HeardOn(s, r, Opposite(l))
      BY <1>4, <3>1 DEF HeardOn
    <3> QED
      BY <1>8, <1>14, <2>1, <3>2
  <2>2. CASE ~IsFirst(s, r, l)
    <3>1. IsFirst(s, r, Opposite(l)) /\ Opposite(Opposite(l)) = l
      BY <1>2, <1>14, <2>2, OtherIsFirst
    <3>2. turn[r] = PlaceOf(s, r, Opposite(l)) + 1
      BY <1>2, <1>14, <3>1, TwinPlaces
    <3>3. PlaceOf(s, r, Opposite(l)) \in Nat
      BY <1>14, Places
    <3>4. HeardOn(s, r, Opposite(l))
      BY <1>1, <1>4, <3>2, <3>3 DEF HeardOn
    <3> QED
      BY <1>8, <1>14, <2>2, <3>4
  <2> QED
    BY <2>1, <2>2
<1> QED
  BY Zenon, <1>2, <1>8, <1>11, <1>13, <1>14

\* When an axis is prepared, the layers of the axes before it are sent.
LEMMA PreparedCounts ==
  ASSUME NEW s \in Setups, TypeInv(s), TypeInv(s)', NEW r \in Processes(s), NEW a \in 0 .. 3, NEW b,
         FollowingIs(s, r, a, b), Preparing(s, r, b), UNCHANGED <<turn, told>>, NEW m \in LayersOf(s, r)
  PROVE  /\ SentIn(s, r, m)' <=> m[1] <= a
         /\ axis'[r] > m[1] <=> m[1] <= a
         /\ (ToldOn(s, r, m)' <=> ToldOn(s, r, m)) /\ (HeardOn(s, r, m)' <=> HeardOn(s, r, m))
<1>1. Updated(axis, axis', r, b) /\ Updated(sent, sent', r, 0)
  BY DEF Preparing
<1>2. axis'[r] = b /\ sent'[r] = 0
  BY <1>1 DEF Updated
<1>3. /\ b \in a + 1 .. 4
      /\ m[1] <= a \/ m[1] >= b
  BY DEF FollowingIs
<1>4. m[1] \in 1 .. 3 /\ SideOf(s, r, m) \in 1 .. 2
  BY CountParts
<1>5. b > m[1] <=> m[1] <= a
  BY <1>3, <1>4
<1>6. ~(SideOf(s, r, m) <= 0)
  BY <1>4
<1>7. SentIn(s, r, m)' <=> m[1] <= a
  BY <1>2, <1>5, <1>6 DEF SentIn
<1> QED
  BY <1>2, <1>5, <1>7 DEF ToldOn, HeardOn

\* The beginning of an exchange sends and receives nothing.
LEMMA BeginCounts ==
  ASSUME NEW s \in Setups, TypeInv(s), TypeInv(s)', NEW r \in Processes(s), Beginning(s, r)
  PROVE  Sends(s, r, {}) /\ Gets(s, r, {})
<1> DEFINE b == Following(r, 0)
<1>1. setup = s
  BY DEF TypeInv
<1>2. FollowingIs(s, r, 0, b)
  BY <1>1, FollowingAxis
<1> HIDE DEF b
<1>3. /\ axis[r] = 4 /\ UNCHANGED <<turn, told>>
      /\ Exchange(s, r)' = Exchange(s, r) + 1
      /\ \A q \in Processes(s) : q # r => step'[q] = step[q] /\ afterFtoC'[q] = afterFtoC[q]
      /\ Preparing(s, r, b)
  BY DEF Beginning, b, startVars
<1>4. Updated(axis, axis', r, b) /\ Updated(sent, sent', r, 0)
  BY <1>3 DEF Preparing
<1>5. ASSUME NEW q \in Processes(s), NEW m \in LayersOf(s, q)
      PROVE  SentOn(s, q, m)' = SentOn(s, q, m) /\ GotOn(s, q, m)' = GotOn(s, q, m)
  <2>1. CASE q # r
    <3>1. axis'[q] = axis[q] /\ sent'[q] = sent[q]
      BY <1>4, <2>1 DEF Updated, TypeInv, Typed
    <3> QED
      BY <1>3, <2>1, <3>1, SameCounts
  <2>2. CASE q = r
    <3>1. m \in LayersOf(s, r) /\ m[1] \in 1 .. 3 /\ Exchange(s, r) \in Nat
      BY <2>2, CountParts
    <3>2. ~(m[1] <= 0) /\ axis[r] > m[1]
      BY <1>3, <3>1
    <3>3. 0 \in 0 .. 3
      OBVIOUS
    <3>4. /\ ~SentIn(s, r, m)' /\ ~(axis'[r] > m[1])
          /\ (ToldOn(s, r, m)' <=> ToldOn(s, r, m)) /\ (HeardOn(s, r, m)' <=> HeardOn(s, r, m))
      BY <1>2, <1>3, <3>1, <3>2, <3>3, PreparedCounts
    <3>5. SentIn(s, r, m)
      BY <3>2 DEF SentIn
    <3>6. SentOn(s, r, m)' = SentOn(s, r, m)
      BY <1>3, <3>1, <3>4, <3>5 DEF SentOn
    <3>7. GotOn(s, r, m)' = GotOn(s, r, m)
      BY <1>3, <3>1, <3>2, <3>4 DEF GotOn
    <3> QED
      BY <2>2, <3>6, <3>7
  <2> QED
    BY <2>1, <2>2
<1>6. ASSUME NEW q \in Processes(s), NEW m \in LayersOf(s, q)
      PROVE  SentOn(s, q, m)' = SentOn(s, q, m) + 0 /\ GotOn(s, q, m)' = GotOn(s, q, m) + 0
  BY <1>5, CountsType
<1> QED
  BY <1>6 DEF Sends, Gets

\* Receive takes one message on every layer of the axis.
LEMMA ReceiveCounts ==
  ASSUME NEW s \in Setups, TypeInv(s), TypeInv(s)', NEW r \in Processes(s), Receiving(s, r)
  PROVE  Sends(s, r, {}) /\ Gets(s, r, { l \in LayersOf(s, r) : l[1] = axis[r] })
<1> DEFINE a == axis[r]  b == Following(r, a)
<1>1. /\ a \in Axes /\ sent[r] = Len(ProcessNeighbor[s][r][a])
      /\ UNCHANGED <<turn, told, step, afterFtoC>> /\ Preparing(s, r, b)
  BY DEF Receiving, startVars
<1>2. a \in 0 .. 3 /\ a \in Int
  BY <1>1 DEF Axes
<1>3. FollowingIs(s, r, a, b)
  BY <1>2, FollowingAxis DEF TypeInv
<1> HIDE DEF b
<1>4. Updated(axis, axis', r, b) /\ Updated(sent, sent', r, 0)
  BY <1>1 DEF Preparing
<1>5. ASSUME NEW q \in Processes(s), NEW m \in LayersOf(s, q)
      PROVE  /\ SentOn(s, q, m)' = SentOn(s, q, m) + 0
             /\ GotOn(s, q, m)' = GotOn(s, q, m) + (IF q = r /\ m[1] = a THEN 1 ELSE 0)
  <2>0. SentOn(s, q, m) \in Nat /\ GotOn(s, q, m) \in Nat
    BY CountsType
  <2>1. CASE q # r
    <3>1. axis'[q] = axis[q] /\ sent'[q] = sent[q]
      BY <1>4, <2>1 DEF Updated, TypeInv, Typed
    <3> QED
      BY <1>1, <2>0, <2>1, <3>1, SameCounts
  <2>2. CASE q = r
    <3>1. m \in LayersOf(s, r) /\ m[1] \in 1 .. 3 /\ Exchange(s, r) \in Nat
      BY <2>2, CountParts
    <3>2. /\ SentIn(s, r, m)' <=> m[1] <= a
          /\ axis'[r] > m[1] <=> m[1] <= a
          /\ (ToldOn(s, r, m)' <=> ToldOn(s, r, m)) /\ (HeardOn(s, r, m)' <=> HeardOn(s, r, m))
      BY <1>1, <1>2, <1>3, <3>1, PreparedCounts
    <3>3. SentIn(s, r, m) <=> m[1] <= a
      <4>1. SideOf(s, r, m) \in 1 .. Len(ProcessNeighbor[s][r][m[1]]) /\ Len(ProcessNeighbor[s][r][m[1]]) \in 1 .. 2
        BY <3>1, SidePlaces
      <4>2. m[1] = a => SideOf(s, r, m) <= sent[r]
        BY <1>1, <4>1
      <4> QED
        BY <1>2, <3>1, <4>2 DEF SentIn
    <3>4. Exchange(s, r)' = Exchange(s, r)
      BY <1>1 DEF Exchange
    <3>5. SentOn(s, r, m)' = SentOn(s, r, m)
      BY <3>2, <3>3, <3>4 DEF SentOn
    <3>6. m[1] <= a <=> a > m[1] \/ m[1] = a
      BY <1>2, <3>1
    <3>7. m[1] = a => ~(a > m[1])
      BY <1>2, <3>1
    <3>8. GotOn(s, r, m)' = GotOn(s, r, m) + (IF m[1] = a THEN 1 ELSE 0)
      BY <3>1, <3>2, <3>4, <3>6, <3>7 DEF GotOn
    <3> QED
      BY <2>0, <2>2, <3>5, <3>8
  <2> QED
    BY <2>1, <2>2
<1>6. \A q \in Processes(s) : \A m \in LayersOf(s, q) :
        (q = r /\ m \in { l \in LayersOf(s, r) : l[1] = axis[r] }) <=> (q = r /\ m[1] = a)
  OBVIOUS
<1>7. Sends(s, r, {})
  BY <1>5 DEF Sends
<1>8. Gets(s, r, { l \in LayersOf(s, r) : l[1] = axis[r] })
  BY Zenon, <1>5, <1>6 DEF Gets
<1> QED
  BY <1>7, <1>8

\* Send sends one message, in turn when both sides have the same neighbour.
LEMMA SendCounts ==
  ASSUME NEW s \in Setups, TypeInv(s), TypeInv(s)', NEW r \in Processes(s), Sending(s, r),
         NEW l, l = <<axis[r], ProcessNeighbor[s][r][axis[r]][sent[r] + 1]>>
  PROVE  /\ l \in LayersOf(s, r) /\ l[1] = axis[r] /\ SideOf(s, r, l) = sent[r] + 1
         /\ RankNeighbor[s][r][axis[r]][sent[r] + 1] = Source(s, r, l)
         /\ Sends(s, r, {l}) /\ Gets(s, r, {})
         /\ Opposite(l) \in LayersOf(s, r) =>
              SentOn(s, r, Opposite(l)) = IF IsFirst(s, r, l) THEN SentOn(s, r, l) ELSE SentOn(s, r, l) + 1
<1> DEFINE k == sent[r] + 1
<1>1. /\ axis[r] \in Axes /\ sent[r] < Len(ProcessNeighbor[s][r][axis[r]])
      /\ Updated(sent, sent', r, sent[r] + 1)
      /\ UNCHANGED <<turn, told, step, afterFtoC, axis>>
  BY Zenon DEF Sending, startVars
<1>2. Typed(s) /\ Time(s, r)
  BY DEF TypeInv
<1>3. sent[r] \in 0 .. 2 /\ Len(ProcessNeighbor[s][r][axis[r]]) \in 0 .. 2
  BY <1>1, <1>2, SidesListed DEF Typed
<1>4. k \in 1 .. Len(ProcessNeighbor[s][r][axis[r]])
  <2> DEFINE n == Len(ProcessNeighbor[s][r][axis[r]])  o == sent[r]
  <2>1. n \in 0 .. 2 /\ o \in 0 .. 2 /\ o < n
    BY <1>1, <1>3
  <2> HIDE DEF n, o
  <2>2. o + 1 \in 1 .. n
    BY ONLY <2>1
  <2> QED
    BY <2>2 DEF n, o
<1>5. axis[r] \in Axes /\ l = <<axis[r], ProcessNeighbor[s][r][axis[r]][k]>>
  BY <1>1
<1> HIDE DEF k
<1>6. l \in LayersOf(s, r) /\ SideOf(s, r, l) = k /\ l[1] = axis[r] /\ RankNeighbor[s][r][axis[r]][k] = Source(s, r, l)
  BY ONLY <1>4, <1>5, SideLayer
<1>7. k = sent[r] + 1 /\ sent'[r] = k
  BY <1>1 DEF k, Updated
<1>8. UNCHANGED <<turn, told, step, afterFtoC, axis>> /\ \A q \in Processes(s) : q # r => sent'[q] = sent[q]
  BY <1>1, <1>2 DEF Updated, Typed
<1>9. ASSUME NEW m \in LayersOf(s, r)
      PROVE  /\ SentIn(s, r, m)' <=> SentIn(s, r, m) \/ m = l
             /\ m = l => ~SentIn(s, r, m)
  <2>1. m[1] \in 1 .. 3 /\ axis[r] \in 1 .. 4 /\ SideOf(s, r, m) \in 1 .. 2
    BY CountParts
  <2>2. axis[r] = m[1] => (SideOf(s, r, m) = k <=> m = l)
    <3> SUFFICES ASSUME axis[r] = m[1], SideOf(s, r, m) = k PROVE m = l
      BY Zenon, <1>6
    <3>1. ProcessNeighbor[s][r][m[1]][k] = m[2] /\ ProcessNeighbor[s][r][l[1]][k] = l[2]
      BY SMTT(30), <1>6, SidePlaces
    <3> QED
      BY <1>6, <3>1, OtherSide
  <2>3. SideOf(s, r, m) <= sent[r] + 1 <=> SideOf(s, r, m) <= sent[r] \/ SideOf(s, r, m) = sent[r] + 1
    BY <1>3, <2>1
  <2>4. m = l => axis[r] = m[1] /\ SideOf(s, r, m) = sent[r] + 1
    BY <1>6, <1>7
  <2>5. m = l => ~(axis[r] > m[1]) /\ ~(SideOf(s, r, m) <= sent[r])
    BY <1>3, <2>1, <2>4
  <2> QED
    BY <1>7, <1>8, <2>2, <2>3, <2>4, <2>5 DEF SentIn
<1>10. ASSUME NEW q \in Processes(s), NEW m \in LayersOf(s, q)
       PROVE  /\ SentOn(s, q, m)' = SentOn(s, q, m) + (IF q = r /\ m \in {l} THEN 1 ELSE 0)
              /\ GotOn(s, q, m)' = GotOn(s, q, m) + 0
  <2>1. SentOn(s, q, m) \in Nat /\ GotOn(s, q, m) \in Nat /\ Exchange(s, q) \in Nat
    BY CountsType, CountParts
  <2>2. CASE q # r
    BY <1>8, <2>1, <2>2, SameCounts
  <2>3. CASE q = r
    <3>1. Exchange(s, r)' = Exchange(s, r) /\ (ToldOn(s, r, m)' <=> ToldOn(s, r, m)) /\ (HeardOn(s, r, m)' <=> HeardOn(s, r, m))
      BY <1>8 DEF Exchange, ToldOn, HeardOn
    <3>2. SentOn(s, r, m)' = SentOn(s, r, m) + (IF m = l THEN 1 ELSE 0)
      BY <1>9, <2>1, <2>3, <3>1 DEF SentOn
    <3>3. GotOn(s, r, m)' = GotOn(s, r, m)
      BY <1>8, <3>1 DEF GotOn
    <3> QED
      BY <2>1, <2>3, <3>2, <3>3
  <2> QED
    BY <2>2, <2>3
<1>11. Sends(s, r, {l}) /\ Gets(s, r, {})
  BY <1>10 DEF Sends, Gets
<1>12. ASSUME Opposite(l) \in LayersOf(s, r)
       PROVE  SentOn(s, r, Opposite(l)) = IF IsFirst(s, r, l) THEN SentOn(s, r, l) ELSE SentOn(s, r, l) + 1
  <2> DEFINE m == Opposite(l)
  <2>1. Started(s, r)
    BY <1>1, <1>2 DEF Time, Axes
  <2>2. ToldOn(s, r, l) <=> ToldOn(s, r, m)
    BY Zenon, <1>6, <1>12, <2>1, AllTold, CountParts DEF ToldOn
  <2>3. ~SentIn(s, r, l)
    BY <1>6, <1>9
  <2>4. m[1] = axis[r] /\ (IsFirst(s, r, m) <=> ~IsFirst(s, r, l))
    BY <1>6, <1>12, OtherIsFirst
  <2>5. SentIn(s, r, m) <=> ~IsFirst(s, r, l)
    <3>1. SideOf(s, r, l) = sent[r] + 1
      BY <1>6, <1>7
    <3>2. ~(axis[r] > m[1])
      BY <1>1, <2>4 DEF Axes
    <3>3. SideOf(s, r, m) <= sent[r] <=> ~IsFirst(s, r, l)
      BY <1>3, <2>4, <3>1 DEF SideOf
    <3> QED
      BY <2>4, <3>2, <3>3 DEF SentIn
  <2>6. Exchange(s, r) \in Nat
    BY <1>6, CountParts
  <2> HIDE DEF m
  <2>7. SentOn(s, r, m) = IF IsFirst(s, r, l) THEN SentOn(s, r, l) ELSE SentOn(s, r, l) + 1
    BY <2>2, <2>3, <2>5, <2>6 DEF SentOn
  <2> QED
    BY <2>7 DEF m
<1> QED
  BY Zenon, <1>6, <1>7, <1>11, <1>12

\* On the axis of its exchange a process has received as much on one layer as
\* on the other, and what it receives next belongs to this exchange.
LEMMA CountsOnAxis ==
  ASSUME NEW s \in Setups, TypeInv(s), NEW r \in Processes(s), NEW l \in LayersOf(s, r), l[1] = axis[r]
  PROVE  /\ Opposite(l) \in LayersOf(s, r) => GotOn(s, r, Opposite(l)) = GotOn(s, r, l)
         /\ GotOn(s, r, l) + 1 = (IF Refined(s) THEN 1 ELSE 0) + Exchange(s, r)
         /\ ~SentIn(s, r, l) => SentOn(s, r, l) + 1 = (IF Refined(s) THEN 1 ELSE 0) + Exchange(s, r)
<1>1. /\ Exchange(s, r) \in Nat /\ l[1] \in 1 .. 3 /\ turn[r] \in Nat
  BY CountParts
<1>2. ~(axis[r] > l[1]) /\ axis[r] # 4
  BY <1>1
<1>3. Started(s, r)
  BY <1>2 DEF TypeInv, Time
<1>4. \A m \in LayersOf(s, r) : (HeardOn(s, r, m) <=> Refined(s)) /\ (ToldOn(s, r, m) <=> Refined(s))
  BY <1>1, <1>3, AllTold DEF HeardOn, ToldOn
<1>5. GotOn(s, r, l) + 1 = (IF Refined(s) THEN 1 ELSE 0) + Exchange(s, r)
  BY <1>1, <1>2, <1>4 DEF GotOn
<1>6. ~SentIn(s, r, l) => SentOn(s, r, l) + 1 = (IF Refined(s) THEN 1 ELSE 0) + Exchange(s, r)
  BY <1>1, <1>4 DEF SentOn
<1>7. Opposite(l) \in LayersOf(s, r) => GotOn(s, r, Opposite(l)) = GotOn(s, r, l)
  BY <1>4, OtherSide DEF GotOn
<1> QED
  BY <1>5, <1>6, <1>7

-----------------------------------------------------------------------------
(* The messages in a channel *)

\* Of the messages from a neighbour to r, counted from the start: the layer and
\* the number on this layer of the k-th.  A neighbour on both sides of an axis
\* sends alternately for the one and the other.
LayerOf(s, r, l, k) == IF Twin(s, r, l) /\ (IsFirst(s, r, l) <=> k % 2 = 0) THEN Opposite(l) ELSE l
\* The number of a message among those of its layer.
IndexOf(s, r, l, k) == IF Twin(s, r, l) THEN (k + 1) \div 2 ELSE k

\* The first message on a level that has a finer one are the positions, the
\* others the nodes of one exchange after the other.
RightMessage(s, r, l, i, message) ==
  IF Refined(s) /\ i = 1 THEN message = Told(s, r, l)
  ELSE LET e == IF Refined(s) THEN i - 1 ELSE i
       IN /\ IsList(message) /\ Len(message) = RecvLength(s, r, l, e)
          /\ Carried(s) /\ Patched(s) => RightReceived(s, r, l, e, message)
\* The k-th message of a channel is the right one.
IsMessage(s, r, l, k, message) == RightMessage(s, r, LayerOf(s, r, l, k), IndexOf(s, r, l, k), message)

\* What is in a channel of which n messages were sent and g received.
Holds(s, r, l, c, n, g) == Len(c) = n - g /\ \A j \in 1 .. Len(c) : IsMessage(s, r, l, g + j, c[j])

\* The messages a channel has carried: of one layer or of two.
AllSent(s, r, l) == SentOn(s, r, l) + (IF Twin(s, r, l) THEN SentOn(s, r, Opposite(l)) ELSE 0)
AllGot(s, r, l)  == GotOn(s, r, l) + (IF Twin(s, r, l) THEN GotOn(s, r, Opposite(l)) ELSE 0)
\* A channel holds, in order, what was sent and not yet received.
ChannelIs(s, r, l) ==
  Holds(s, r, l, channel[Source(s, r, l)][r], AllSent(s, Source(s, r, l), Opposite(l)), AllGot(s, r, l))
\* All channels do.
ChannelsAre(s) == \A r \in Processes(s) : \A l \in LayersOf(s, r) : ChannelIs(s, r, l)

\* The message that comes next on a layer, when the other layer of a pair has
\* had as many, or one more if it is the first.
LEMMA NextMessage ==
  ASSUME NEW s, NEW r, NEW l, NEW i \in Nat, NEW o, o = IF IsFirst(s, r, l) THEN i ELSE i + 1,
         NEW k, k = i + (IF Twin(s, r, l) THEN o ELSE 0) + 1
  PROVE  LayerOf(s, r, l, k) = l /\ IndexOf(s, r, l, k) = i + 1
<1>1. CASE ~Twin(s, r, l)
  <2>1. k = i + 1
    BY <1>1
  <2> QED
    BY <1>1, <2>1 DEF LayerOf, IndexOf
<1>2. CASE Twin(s, r, l) /\ IsFirst(s, r, l)
  <2>1. k = i + i + 1
    BY <1>2
  <2>2. k % 2 = 1 /\ (k + 1) \div 2 = i + 1
    BY ONLY <2>1, i \in Nat
  <2> QED
    BY <1>2, <2>2 DEF LayerOf, IndexOf
<1>3. CASE Twin(s, r, l) /\ ~IsFirst(s, r, l)
  <2>1. k = i + (i + 1) + 1
    BY <1>3
  <2>2. k % 2 = 0 /\ (k + 1) \div 2 = i + 1
    BY ONLY <2>1, i \in Nat
  <2> QED
    BY <1>3, <2>2 DEF LayerOf, IndexOf
<1> QED
  BY <1>1, <1>2, <1>3

\* A channel that gets one message more.
LEMMA AppendHolds ==
  ASSUME NEW s, NEW r, NEW l, NEW c, IsList(c), NEW n \in Nat, NEW g \in Nat, Holds(s, r, l, c, n, g),
         NEW v, IsMessage(s, r, l, n + 1, v)
  PROVE  Holds(s, r, l, Append(c, v), n + 1, g)
<1> DEFINE d == Append(c, v)  k == Len(c)
<1>1. Len(d) = k + 1 /\ (\A i \in 1 .. k : d[i] = c[i]) /\ d[k + 1] = v /\ k \in Nat
  BY AppendList, ListType
<1>2. k = n - g /\ \A j \in 1 .. k : IsMessage(s, r, l, g + j, c[j])
  BY DEF Holds
<1> HIDE DEF d, k
<1>3. Len(d) = n + 1 - g /\ g + (k + 1) = n + 1
  BY <1>1, <1>2
<1>4. ASSUME NEW j \in 1 .. Len(d) PROVE IsMessage(s, r, l, g + j, d[j])
  <2>1. j \in 1 .. k \/ j = k + 1
    BY <1>1
  <2>2. CASE j \in 1 .. k
    BY <1>1, <1>2, <2>2
  <2>3. CASE j = k + 1
    <3>1. g + j = n + 1 /\ d[j] = v
      BY <1>1, <1>3, <2>3
    <3> QED
      BY <3>1
  <2> QED
    BY <2>1, <2>2, <2>3
<1>5. Holds(s, r, l, d, n + 1, g)
  BY <1>3, <1>4 DEF Holds
<1> QED
  BY <1>5 DEF d

\* d is c without its first k elements.
Dropped(c, d, k) == Len(d) = Len(c) - k /\ \A i \in 1 .. Len(c) - k : d[i] = c[i + k]

\* A channel of which messages are taken.
LEMMA DropHolds ==
  ASSUME NEW s, NEW r, NEW l, NEW c, IsList(c), NEW n \in Nat, NEW g \in Nat, Holds(s, r, l, c, n, g),
         NEW k \in Nat, NEW d, Dropped(c, d, k)
  PROVE  Holds(s, r, l, d, n, g + k)
<1> DEFINE m == Len(c)
<1>1. m = n - g /\ \A j \in 1 .. m : IsMessage(s, r, l, g + j, c[j])
  BY DEF Holds
<1>2. Len(d) = m - k /\ \A i \in 1 .. m - k : d[i] = c[i + k]
  BY DEF Dropped
<1>3. m \in Nat
  BY ListType
<1> HIDE DEF m
<1>4. Len(d) = n - (g + k)
  BY <1>1, <1>2
<1>5. ASSUME NEW j \in 1 .. m - k PROVE IsMessage(s, r, l, g + k + j, d[j])
  <2>1. j + k \in 1 .. m /\ g + (j + k) = g + k + j
    BY <1>3
  <2>2. IsMessage(s, r, l, g + (j + k), c[j + k])
    BY <1>1, <2>1
  <2> QED
    BY <1>2, <2>1, <2>2
<1> QED
  BY <1>2, <1>4, <1>5 DEF Holds

\* The two layers of a pair look at the same channel.
LEMMA TwinHolds ==
  ASSUME NEW s \in Setups, ToldByParity(s), NEW r \in Processes(s), NEW l \in LayersOf(s, r), Twin(s, r, l),
         NEW c, NEW n, NEW g, Holds(s, r, l, c, n, g)
  PROVE  Holds(s, r, Opposite(l), c, n, g)
<1>1. Twin(s, r, Opposite(l)) /\ (IsFirst(s, r, Opposite(l)) <=> ~IsFirst(s, r, l)) /\ Opposite(Opposite(l)) = l
  BY TwinFacts, OtherSide
<1>2. ASSUME NEW k PROVE LayerOf(s, r, Opposite(l), k) = LayerOf(s, r, l, k) /\ IndexOf(s, r, Opposite(l), k) = IndexOf(s, r, l, k)
  BY <1>1 DEF LayerOf, IndexOf
<1>3. \A k : \A v : IsMessage(s, r, l, k, v) => IsMessage(s, r, Opposite(l), k, v)
  BY <1>2 DEF IsMessage
<1> QED
  BY <1>3 DEF Holds

\* The numbers of messages of a channel are numbers.
LEMMA AllType ==
  ASSUME NEW s \in Setups, TypeInv(s), NEW r \in Processes(s), NEW l \in LayersOf(s, r)
  PROVE  AllSent(s, r, l) \in Nat /\ AllGot(s, r, l) \in Nat
<1>1. Twin(s, r, l) => Opposite(l) \in LayersOf(s, r)
  BY DEF Twin
<1> QED
  BY <1>1, CountsType DEF AllSent, AllGot

\* Nothing is sent, or received, for a layer.
LEMMA SameSent ==
  ASSUME NEW s \in Setups, TypeInv(s), NEW q, NEW layers, Sends(s, q, layers), NEW r \in Processes(s), NEW l \in LayersOf(s, r),
         r # q \/ (l \notin layers /\ (Twin(s, r, l) => Opposite(l) \notin layers))
  PROVE  AllSent(s, r, l)' = AllSent(s, r, l)
<1>1. SentOn(s, r, l)' = SentOn(s, r, l)
  <2>1. SentOn(s, r, l)' = SentOn(s, r, l) + 0
    BY DEF Sends
  <2> QED
    BY <2>1, CountsType
<1>2. ASSUME Twin(s, r, l) PROVE SentOn(s, r, Opposite(l))' = SentOn(s, r, Opposite(l))
  <2>1. Opposite(l) \in LayersOf(s, r)
    BY <1>2 DEF Twin
  <2>2. SentOn(s, r, Opposite(l))' = SentOn(s, r, Opposite(l)) + 0
    BY <1>2, <2>1 DEF Sends
  <2> QED
    BY <2>1, <2>2, CountsType
<1> QED
  BY <1>1, <1>2 DEF AllSent

\* A channel whose receiver takes nothing of it.
LEMMA SameGot ==
  ASSUME NEW s \in Setups, TypeInv(s), NEW q, NEW layers, Gets(s, q, layers), NEW r \in Processes(s), NEW l \in LayersOf(s, r),
         r # q \/ (l \notin layers /\ (Twin(s, r, l) => Opposite(l) \notin layers))
  PROVE  AllGot(s, r, l)' = AllGot(s, r, l)
<1>1. GotOn(s, r, l)' = GotOn(s, r, l)
  <2>1. GotOn(s, r, l)' = GotOn(s, r, l) + 0
    BY DEF Gets
  <2> QED
    BY <2>1, CountsType
<1>2. ASSUME Twin(s, r, l) PROVE GotOn(s, r, Opposite(l))' = GotOn(s, r, Opposite(l))
  <2>1. Opposite(l) \in LayersOf(s, r)
    BY <1>2 DEF Twin
  <2>2. GotOn(s, r, Opposite(l))' = GotOn(s, r, Opposite(l)) + 0
    BY <1>2, <2>1 DEF Gets
  <2> QED
    BY <2>1, <2>2, CountsType
<1> QED
  BY <1>1, <1>2 DEF AllGot

\* A channel is a list.
LEMMA ChannelList ==
  ASSUME NEW s \in Setups, TypeInv(s), NEW r \in Processes(s), NEW l \in LayersOf(s, r), NEW p, p = Source(s, r, l)
  PROVE  p \in Processes(s) /\ IsList(channel[p][r]) /\ Len(channel[p][r]) \in Nat
<1>1. p \in Processes(s)
  BY OtherSide
<1>2. IsList(channel[p][r])
  BY <1>1 DEF TypeInv, Channels, IsChannel
<1> QED
  BY <1>1, <1>2, ListType

\* A process sends the message that the neighbour expects next on the layer.
LEMMA AppendChannels ==
  ASSUME NEW s \in Setups, ToldByParity(s), TypeInv(s), ChannelsAre(s),
         NEW r \in Processes(s), NEW l \in LayersOf(s, r), NEW p, p = Source(s, r, l), NEW m, m = Opposite(l), NEW v,
         Updated(channel, channel', r, channel'[r]), Updated(channel[r], channel'[r], p, Append(channel[r][p], v)),
         Sends(s, r, {l}), Gets(s, r, {}),
         m \in LayersOf(s, r) => SentOn(s, r, m) = IF IsFirst(s, r, l) THEN SentOn(s, r, l) ELSE SentOn(s, r, l) + 1,
         RightMessage(s, p, m, SentOn(s, r, l) + 1, v)
  PROVE  ChannelsAre(s)'
<1>1. /\ p \in Processes(s) /\ m \in LayersOf(s, p) /\ Source(s, p, m) = r /\ Opposite(m) = l
  BY OtherSide
<1>2. /\ Twin(s, p, m) <=> Twin(s, r, l)
      /\ Twin(s, r, l) => (IsFirst(s, p, m) <=> IsFirst(s, r, l)) /\ m \in LayersOf(s, r) /\ l # m
  BY TwinFacts, OtherSide
<1>3. DOMAIN channel = Processes(s) /\ \A q \in Processes(s) : DOMAIN channel[q] = Processes(s)
  BY DEF TypeInv, Channels
<1> DEFINE n == AllSent(s, r, l)  g == AllGot(s, p, m)  i == SentOn(s, r, l)
<1>4. n \in Nat /\ g \in Nat /\ i \in Nat
  BY <1>1, AllType, CountsType
<1>5. IsMessage(s, p, m, n + 1, v)
  <2> DEFINE o == IF IsFirst(s, p, m) THEN i ELSE i + 1
             k == i + (IF Twin(s, p, m) THEN o ELSE 0) + 1
  <2>1. Twin(s, r, l) => SentOn(s, r, m) = o
    BY <1>2
  <2>2. n + 1 = k
    BY <1>2, <2>1 DEF AllSent
  <2>3. LayerOf(s, p, m, k) = m /\ IndexOf(s, p, m, k) = i + 1
    BY <1>4, NextMessage
  <2> HIDE DEF n, k, i
  <2> QED
    BY <2>2, <2>3 DEF IsMessage, i
<1>6. AllSent(s, r, l)' = n + 1
  <2>1. SentOn(s, r, l)' = i + 1
    BY DEF Sends
  <2>2. Twin(s, r, l) => SentOn(s, r, m)' = SentOn(s, r, m) + 0 /\ SentOn(s, r, m) \in Nat
    BY <1>2, CountsType DEF Sends
  <2> QED
    BY <1>4, <2>1, <2>2 DEF AllSent
<1>7. AllGot(s, p, m)' = g
  <2>1. p # r \/ (m \notin {} /\ Opposite(m) \notin {})
    OBVIOUS
  <2> QED
    BY <1>1, <2>1, SameGot
<1>8. Holds(s, p, m, channel'[r][p], n + 1, g)
  <2>1. IsList(channel[r][p])
    BY <1>1, ChannelList
  <2>2. Holds(s, p, m, channel[r][p], n, g)
    BY <1>1 DEF ChannelsAre, ChannelIs
  <2>3. channel'[r][p] = Append(channel[r][p], v)
    BY DEF Updated
  <2> HIDE DEF n, g
  <2> QED
    BY <1>4, <1>5, <2>1, <2>2, <2>3, AppendHolds
<1> HIDE DEF n, g, i
<1>9. ChannelIs(s, p, m)'
  BY <1>1, <1>6, <1>7, <1>8 DEF ChannelIs
<1>10. ASSUME NEW q \in Processes(s), NEW h \in LayersOf(s, q) PROVE ChannelIs(s, q, h)'
  <2> DEFINE o == Source(s, q, h)
  <2>1. o \in Processes(s) /\ Opposite(h) \in LayersOf(s, o) /\ Source(s, o, Opposite(h)) = q /\ Opposite(Opposite(h)) = h
    BY OtherSide
  <2>2. CASE o = r /\ q = p
    <3>1. h = m \/ (h = Opposite(m) /\ Twin(s, p, m))
      BY <1>1, <2>2, TwinFacts
    <3>2. CASE h = m
      BY <1>9, <2>2, <3>2
    <3>3. CASE h = Opposite(m) /\ Twin(s, p, m)
      <4>1. h = l /\ Opposite(h) = m /\ Twin(s, r, m) /\ Opposite(m) = l /\ Twin(s, p, h)
        BY <1>1, <1>2, <3>3, TwinFacts
      <4>2. AllSent(s, o, Opposite(h))' = AllSent(s, r, l)'
        <5>1. AllSent(s, r, l)' = SentOn(s, r, l)' + SentOn(s, r, m)' /\ AllSent(s, r, m)' = SentOn(s, r, m)' + SentOn(s, r, l)'
          BY <1>2, <3>3, <4>1 DEF AllSent
        <5>2. SentOn(s, r, l)' \in Int /\ SentOn(s, r, m)' \in Int
          <6>1. SentOn(s, r, l)' = SentOn(s, r, l) + 1 /\ SentOn(s, r, m)' = SentOn(s, r, m) + 0
            BY <1>2, <3>3 DEF Sends
          <6>2. SentOn(s, r, l) \in Nat /\ SentOn(s, r, m) \in Nat
            BY <1>2, <3>3, CountsType
          <6> QED
            BY <6>1, <6>2
        <5> QED
          BY <2>2, <4>1, <5>1, <5>2
      <4>3. AllGot(s, q, h)' = AllGot(s, p, m)'
        <5>1. AllGot(s, p, m)' = GotOn(s, p, m)' + GotOn(s, p, h)' /\ AllGot(s, p, h)' = GotOn(s, p, h)' + GotOn(s, p, m)'
          BY <1>1, <3>3, <4>1 DEF AllGot
        <5>2. GotOn(s, p, m)' \in Int /\ GotOn(s, p, h)' \in Int
          <6>1. h \in LayersOf(s, p)
            BY <2>2
          <6>2. GotOn(s, p, m)' = GotOn(s, p, m) + 0 /\ GotOn(s, p, h)' = GotOn(s, p, h) + 0
            BY <1>1, <6>1 DEF Gets
          <6>3. GotOn(s, p, m) \in Nat /\ GotOn(s, p, h) \in Nat
            BY <1>1, <6>1, CountsType
          <6> QED
            BY <6>2, <6>3
        <5> QED
          BY <2>2, <5>1, <5>2
      <4>4. Holds(s, p, h, channel'[r][p], n + 1, g)
        BY <1>1, <1>8, <3>3, TwinHolds
      <4> QED
        BY <1>6, <1>7, <2>2, <4>2, <4>3, <4>4 DEF ChannelIs
    <3> QED
      BY <3>1, <3>2, <3>3
  <2>3. CASE ~(o = r /\ q = p)
    <3>1. channel'[o][q] = channel[o][q]
      BY <1>3, <2>1, <2>3 DEF Updated
    <3>2. AllGot(s, q, h)' = AllGot(s, q, h)
      <4>1. q # r \/ (h \notin {} /\ Opposite(h) \notin {})
        OBVIOUS
      <4> QED
        BY <4>1, SameGot
    <3>3. AllSent(s, o, Opposite(h))' = AllSent(s, o, Opposite(h))
      <4>1. ASSUME o = r PROVE Opposite(h) # l /\ (Twin(s, o, Opposite(h)) => h # l)
        <5>1. Opposite(h) # l
          BY <2>1, <2>3, <4>1
        <5>2. ASSUME Twin(s, o, Opposite(h)) PROVE Source(s, o, h) = q
          BY <2>1, <5>2 DEF Twin
        <5> QED
          BY <2>3, <4>1, <5>1, <5>2
      <4>2. o # r \/ (Opposite(h) \notin {l} /\ (Twin(s, o, Opposite(h)) => Opposite(Opposite(h)) \notin {l}))
        BY <2>1, <4>1
      <4> HIDE DEF o
      <4> QED
        BY <2>1, <4>2, SameSent
    <3>4. ChannelIs(s, q, h)
      BY DEF ChannelsAre
    <3> QED
      BY <3>1, <3>2, <3>3, <3>4 DEF ChannelIs
  <2> QED
    BY <2>2, <2>3
<1> QED
  BY <1>10 DEF ChannelsAre

\* The first messages in the channels to r are taken.
LEMMA DropChannels ==
  ASSUME NEW s \in Setups, ToldByParity(s), TypeInv(s), ChannelsAre(s), NEW r \in Processes(s),
         NEW layers, Gets(s, r, layers), Sends(s, r, {}),
         \A p, q \in Processes(s) : q # r => channel'[p][q] = channel[p][q],
         \A l \in LayersOf(s, r) : \E k \in Nat :
           /\ Dropped(channel[Source(s, r, l)][r], channel'[Source(s, r, l)][r], k)
           /\ AllGot(s, r, l)' = AllGot(s, r, l) + k
  PROVE  ChannelsAre(s)'
<1>1. ASSUME NEW q \in Processes(s), NEW l \in LayersOf(s, q) PROVE ChannelIs(s, q, l)'
  <2> DEFINE p == Source(s, q, l)  m == Opposite(l)
  <2>1. p \in Processes(s) /\ m \in LayersOf(s, p)
    BY OtherSide
  <2>2. ChannelIs(s, q, l)
    BY DEF ChannelsAre
  <2> HIDE DEF m
  <2>3. AllSent(s, p, m)' = AllSent(s, p, m)
    <3>1. p # r \/ (m \notin {} /\ (Twin(s, p, m) => Opposite(m) \notin {}))
      OBVIOUS
    <3> QED
      BY <2>1, <3>1, SameSent
  <2>4. CASE q # r
    <3>1. AllGot(s, q, l)' = AllGot(s, q, l)
      BY <2>4, SameGot
    <3>2. channel'[p][q] = channel[p][q]
      BY <2>1, <2>4
    <3> QED
      BY <2>2, <2>3, <3>1, <3>2 DEF ChannelIs, m
  <2>5. CASE q = r
    <3>1. PICK k \in Nat : Dropped(channel[p][q], channel'[p][q], k) /\ AllGot(s, q, l)' = AllGot(s, q, l) + k
      BY <2>5
    <3>2. IsList(channel[p][q])
      BY ChannelList
    <3>3. AllSent(s, p, m) \in Nat /\ AllGot(s, q, l) \in Nat
      BY <2>1, AllType
    <3>4. Holds(s, q, l, channel[p][q], AllSent(s, p, m), AllGot(s, q, l))
      BY <2>2 DEF ChannelIs, m
    <3>5. Holds(s, q, l, channel'[p][q], AllSent(s, p, m), AllGot(s, q, l) + k)
      BY <3>1, <3>2, <3>3, <3>4, DropHolds
    <3> QED
      BY <2>3, <3>1, <3>5 DEF ChannelIs, m
  <2> QED
    BY <2>4, <2>5
<1> QED
  BY <1>1 DEF ChannelsAre

\* The first message in a channel, and the second of a pair.
LEMMA InChannel ==
  ASSUME NEW s \in Setups, TypeInv(s), ChannelsAre(s), NEW r \in Processes(s), NEW l \in LayersOf(s, r),
         NEW p, p = Source(s, r, l),
         NEW i, i = GotOn(s, r, l), NEW o, o = IF IsFirst(s, r, l) THEN i ELSE i + 1,
         NEW j \in Nat, AllGot(s, r, l) + j = i + (IF Twin(s, r, l) THEN o ELSE 0) + 1, j > 0, j <= Len(channel[p][r])
  PROVE  RightMessage(s, r, l, i + 1, channel[p][r][j])
<1> DEFINE k == AllGot(s, r, l) + j
<1>1. Len(channel[p][r]) \in Nat
  BY ChannelList
<1>2. i \in Nat
  BY CountsType
<1>3. LayerOf(s, r, l, k) = l /\ IndexOf(s, r, l, k) = i + 1
  <2> DEFINE u == IF IsFirst(s, r, l) THEN i ELSE i + 1
             z == i + (IF Twin(s, r, l) THEN u ELSE 0) + 1
  <2>1. LayerOf(s, r, l, z) = l /\ IndexOf(s, r, l, z) = i + 1
    BY ONLY <1>2, NextMessage
  <2>2. k = z
    OBVIOUS
  <2> HIDE DEF k, z
  <2> QED
    BY <2>1, <2>2
<1>4. IsMessage(s, r, l, k, channel[p][r][j])
  <2>1. j \in 1 .. Len(channel[p][r])
    BY <1>1
  <2> QED
    BY <2>1 DEF ChannelsAre, ChannelIs, Holds
<1> HIDE DEF k
<1> QED
  BY <1>3, <1>4 DEF IsMessage

-----------------------------------------------------------------------------
(* The lists *)

\* After the start-up of a layer its lists are those the neighbours agree on.
ListsAre(s) ==
  \A r \in Processes(s) : \A l \in LayersOf(s, r) :
    /\ sendIndex[r][l] = IF ToldOn(s, r, l) THEN SendList(s, r, l) ELSE SendIndices[s][r][l]
    /\ recvIndex[r][l] = IF HeardOn(s, r, l) THEN RecvList(s, r, l) ELSE ReceiveIndices[s][r][l]
    /\ ToldOn(s, r, l) => sendNumber[r][l] = Len(SendFront(s, r, l))
    /\ HeardOn(s, r, l) => recvNumber[r][l] = Len(RecvFront(s, r, l))

\* In its turn of the start-up a process tells what its neighbour expects.
LEMMA TellLists ==
  ASSUME NEW s \in Setups, ToldByParity(s), TypeInv(s), TypeInv(s)', ListsAre(s), ChannelsAre(s),
         NEW r \in Processes(s), Telling(s, r)
  PROVE  ListsAre(s)' /\ ChannelsAre(s)'
<1> DEFINE l     == LayerSeq[s][r][turn[r]]
           list  == sendIndex[r][l]
           front == FrontPart(s, r, list)
           p     == Source(s, r, l)
           m     == Opposite(l)
           v     == Positions(front, list)
<1>1. /\ l \in LayersOf(s, r) /\ ~ToldOn(s, r, l) /\ SentOn(s, r, l) = 0 /\ Sends(s, r, {l}) /\ Gets(s, r, {})
      /\ m \in LayersOf(s, r) => SentOn(s, r, m) = IF IsFirst(s, r, l) THEN 0 ELSE 1
  BY TellCounts
<1>2. list = SendIndices[s][r][l]
  BY <1>1 DEF ListsAre
<1>3. front = SendFront(s, r, l)
  BY <1>2 DEF SendFront
<1>4. p \in Processes(s) /\ m \in LayersOf(s, p) /\ Source(s, p, m) = r /\ Opposite(m) = l
  BY <1>1, OtherSide
<1>5. v = Told(s, p, m)
  BY Zenon, <1>2, <1>3, <1>4 DEF Told
<1>6. /\ Refined(s)
      /\ Updated(sendIndex, sendIndex', r, sendIndex'[r]) /\ Updated(sendIndex[r], sendIndex'[r], l, FrontFirst(front, list))
      /\ Updated(sendNumber, sendNumber', r, sendNumber'[r]) /\ sendNumber'[r][l] = Len(front)
      /\ \A h \in DOMAIN sendNumber[r] : h # l => sendNumber'[r][h] = sendNumber[r][h]
      /\ Updated(channel, channel', r, channel'[r]) /\ Updated(channel[r], channel'[r], p, Append(channel[r][p], v))
      /\ Updated(told, told', r, TRUE)
      /\ turn[r] <= Len(LayerSeq[s][r])
      /\ UNCHANGED <<recvIndex, recvNumber, turn, timeVars>>
  BY Zenon DEF Telling
<1>7. Typed(s) /\ \A q \in Processes(s) : Lists(s, q)
  BY Zenon DEF TypeInv
<1>8. PlaceOf(s, r, l) = turn[r] /\ turn[r] \in 1 .. Len(LayerSeq[s][r])
  BY Zenon, <1>6, AtTurn
<1>9. ASSUME NEW q \in Processes(s), NEW h \in LayersOf(s, q)
      PROVE  /\ ToldOn(s, q, h)' <=> ToldOn(s, q, h) \/ (q = r /\ h = l)
             /\ HeardOn(s, q, h)' <=> HeardOn(s, q, h)
  <2>1. CASE q # r
    <3>1. told'[q] = told[q] /\ turn'[q] = turn[q]
      BY ZenonT(30), <1>6, <1>7, <2>1 DEF Updated, Typed
    <3> QED
      BY Zenon, <2>1, <3>1 DEF ToldOn, HeardOn
  <2>2. CASE q = r
    <3>1. PlaceOf(s, r, h) = turn[r] <=> h = l
      BY <1>8, <2>2, Places
    <3>2. told'[r] = TRUE /\ turn' = turn
      BY Zenon, <1>6 DEF Updated
    <3> QED
      BY Zenon, <1>6, <2>2, <3>1, <3>2 DEF ToldOn, HeardOn
  <2> QED
    BY <2>1, <2>2
<1>10. SendList(s, r, l) = FrontFirst(front, list)
  BY Zenon, <1>2, <1>3, <1>6 DEF SendList
<1> HIDE DEF l, list, front, p, m, v
<1>11. ASSUME NEW q \in Processes(s), NEW h \in LayersOf(s, q)
       PROVE  /\ sendIndex'[q][h] = IF ToldOn(s, q, h)' THEN SendList(s, q, h) ELSE SendIndices[s][q][h]
              /\ recvIndex'[q][h] = IF HeardOn(s, q, h)' THEN RecvList(s, q, h) ELSE ReceiveIndices[s][q][h]
              /\ ToldOn(s, q, h)' => sendNumber'[q][h] = Len(SendFront(s, q, h))
              /\ HeardOn(s, q, h)' => recvNumber'[q][h] = Len(RecvFront(s, q, h))
  <2>1. /\ sendIndex[q][h] = IF ToldOn(s, q, h) THEN SendList(s, q, h) ELSE SendIndices[s][q][h]
        /\ recvIndex[q][h] = IF HeardOn(s, q, h) THEN RecvList(s, q, h) ELSE ReceiveIndices[s][q][h]
        /\ ToldOn(s, q, h) => sendNumber[q][h] = Len(SendFront(s, q, h))
        /\ HeardOn(s, q, h) => recvNumber[q][h] = Len(RecvFront(s, q, h))
    BY DEF ListsAre
  <2>2. recvIndex'[q][h] = recvIndex[q][h] /\ recvNumber'[q][h] = recvNumber[q][h]
    BY <1>6
  <2>3. CASE q = r /\ h = l
    <3>1. sendIndex'[q][h] = FrontFirst(front, list) /\ sendNumber'[q][h] = Len(front)
      BY <1>6, <2>3 DEF Updated
    <3> QED
      BY <1>3, <1>9, <1>10, <2>1, <2>2, <2>3, <3>1
  <2>4. CASE ~(q = r /\ h = l)
    <3>1. sendIndex'[q][h] = sendIndex[q][h]
      BY <1>6, <1>7, <2>4 DEF Updated, Typed, Lists
    <3>2. ToldOn(s, q, h) => sendNumber'[q][h] = sendNumber[q][h]
      BY <1>6, <1>7, <2>4 DEF Updated, Typed, Lists
    <3> QED
      BY <1>9, <2>1, <2>2, <2>4, <3>1, <3>2
  <2> QED
    BY <2>3, <2>4
<1>12. RightMessage(s, p, m, SentOn(s, r, l) + 1, v)
  <2>1. SentOn(s, r, l) + 1 = 1
    BY <1>1
  <2> QED
    BY <1>5, <1>6, <2>1 DEF RightMessage
<1>13. m \in LayersOf(s, r) => SentOn(s, r, m) = IF IsFirst(s, r, l) THEN SentOn(s, r, l) ELSE SentOn(s, r, l) + 1
  BY <1>1
<1>14. p = Source(s, r, l) /\ m = Opposite(l)
  BY DEF p, m
<1>15. ChannelsAre(s)'
  BY <1>1, <1>6, <1>12, <1>13, <1>14, AppendChannels
<1> QED
  BY <1>11, <1>15 DEF ListsAre

\* It hears the positions that the neighbour has told, and finds their end.
LEMMA HearLists ==
  ASSUME NEW s \in Setups, ToldByParity(s), Guessed(s), TypeInv(s), TypeInv(s)', ListsAre(s), ChannelsAre(s),
         NEW r \in Processes(s), Hearing(s, r)
  PROVE  ListsAre(s)' /\ ChannelsAre(s)'
<1> DEFINE l     == LayerSeq[s][r][turn[r]]
           p     == Source(s, r, l)
           list  == recvIndex[r][l]
           heard == Trimmed(Head(channel[p][r]), 2 * sendNumber[r][l])
           front == Moved(list, heard)
<1>1. /\ l \in LayersOf(s, r) /\ ToldOn(s, r, l) /\ ~HeardOn(s, r, l) /\ GotOn(s, r, l) = 0
      /\ Gets(s, r, {l}) /\ Sends(s, r, {})
      /\ Opposite(l) \in LayersOf(s, r) => GotOn(s, r, Opposite(l)) = IF IsFirst(s, r, l) THEN 0 ELSE 1
  BY Zenon, HearCounts
<1>2. /\ Refined(s) /\ turn[r] <= Len(LayerSeq[s][r]) /\ channel[p][r] # << >>
      /\ Updated(recvIndex, recvIndex', r, recvIndex'[r]) /\ Updated(recvIndex[r], recvIndex'[r], l, FrontFirst(front, list))
      /\ Updated(recvNumber, recvNumber', r, recvNumber'[r]) /\ recvNumber'[r][l] = Len(front)
      /\ \A h \in DOMAIN recvNumber[r] : h # l => recvNumber'[r][h] = recvNumber[r][h]
      /\ Updated(channel, channel', p, channel'[p])
      /\ Updated(channel[p], channel'[p], r, Tail(channel[p][r]))
      /\ Updated(told, told', r, FALSE) /\ Updated(turn, turn', r, turn[r] + 1) /\ told[r]
      /\ UNCHANGED <<sendIndex, sendNumber, timeVars>>
  BY Zenon DEF Hearing
<1>3. list = ReceiveIndices[s][r][l] /\ sendNumber[r][l] = Len(SendFront(s, r, l))
  BY <1>1 DEF ListsAre
<1>4. p \in Processes(s) /\ IsList(channel[p][r]) /\ Len(channel[p][r]) \in Nat
  BY Zenon, <1>1, ChannelList
<1>5. /\ Head(channel[p][r]) = channel[p][r][1] /\ Len(channel[p][r]) > 0
      /\ Len(Tail(channel[p][r])) = Len(channel[p][r]) - 1
      /\ \A i \in 1 .. Len(channel[p][r]) - 1 : Tail(channel[p][r])[i] = channel[p][r][i + 1]
  BY Zenon, <1>2, <1>4, TailList
<1>6. channel[p][r][1] = Told(s, r, l)
  <2> DEFINE i == GotOn(s, r, l)  o == IF IsFirst(s, r, l) THEN i ELSE i + 1
  <2>1. AllGot(s, r, l) + 1 = i + (IF Twin(s, r, l) THEN o ELSE 0) + 1
    BY <1>1 DEF AllGot, Twin
  <2>2. 1 > 0 /\ 1 <= Len(channel[p][r]) /\ 1 \in Nat
    <3> DEFINE n == Len(channel[p][r])
    <3>1. n \in Nat /\ n > 0
      BY Zenon, <1>4, <1>5
    <3> HIDE DEF n
    <3>2. 1 > 0 /\ 1 <= n /\ 1 \in Nat
      BY ONLY <3>1
    <3> QED
      BY Zenon, <3>2 DEF n
  <2>3. RightMessage(s, r, l, i + 1, channel[p][r][1])
    <3> HIDE DEF l
    <3>1. p = Source(s, r, l) /\ i = GotOn(s, r, l) /\ o = IF IsFirst(s, r, l) THEN i ELSE i + 1
      OBVIOUS
    <3> HIDE DEF i, o, p
    <3> QED
      BY <1>1, <2>1, <2>2, <3>1, InChannel
  <2>4. i + 1 = 1
    BY <1>1
  <2> QED
    BY Zenon, <1>2, <2>3, <2>4 DEF RightMessage
<1>7. heard = Told(s, r, l)
  <2>1. Trimmed(Told(s, r, l), 2 * Len(SendFront(s, r, l))) = Told(s, r, l)
    BY Zenon, <1>1, <1>2 DEF Guessed
  <2> QED
    BY Zenon, <1>3, <1>5, <1>6, <2>1
<1>8. front = RecvFront(s, r, l)
  BY Zenon, <1>3, <1>7 DEF RecvFront, Moved
<1>9. RecvList(s, r, l) = FrontFirst(front, list)
  BY Zenon, <1>2, <1>3, <1>8 DEF RecvList
<1>10. Typed(s) /\ \A q \in Processes(s) : Lists(s, q)
  BY Zenon DEF TypeInv
<1>11. PlaceOf(s, r, l) = turn[r] /\ turn[r] \in 1 .. Len(LayerSeq[s][r])
  BY Zenon, <1>2, AtTurn
<1>12. ASSUME NEW q \in Processes(s), NEW h \in LayersOf(s, q)
       PROVE  /\ ToldOn(s, q, h)' <=> ToldOn(s, q, h)
              /\ HeardOn(s, q, h)' <=> HeardOn(s, q, h) \/ (q = r /\ h = l)
  <2>1. CASE q # r
    <3>1. told'[q] = told[q] /\ turn'[q] = turn[q]
      BY ZenonT(30), <1>2, <1>10, <2>1 DEF Updated, Typed
    <3> QED
      BY Zenon, <2>1, <3>1 DEF ToldOn, HeardOn
  <2>2. CASE q = r
    <3>1. PlaceOf(s, r, h) = turn[r] <=> h = l
      BY <1>11, <2>2, Places
    <3>2. told'[r] = FALSE /\ turn'[r] = turn[r] + 1
      BY Zenon, <1>2 DEF Updated
    <3>3. PlaceOf(s, r, h) \in Nat /\ turn[r] \in Nat
      BY <1>10, <2>2, Places DEF Typed
    <3>4. PlaceOf(s, r, h) < turn[r] + 1 <=> PlaceOf(s, r, h) < turn[r] \/ PlaceOf(s, r, h) = turn[r]
      BY <3>3
    <3> QED
      BY Zenon, <1>2, <2>2, <3>1, <3>2, <3>4 DEF ToldOn, HeardOn
  <2> QED
    BY <2>1, <2>2
<1> HIDE DEF l, list, heard, front, p
<1>13. ASSUME NEW q \in Processes(s), NEW h \in LayersOf(s, q)
       PROVE  /\ sendIndex'[q][h] = IF ToldOn(s, q, h)' THEN SendList(s, q, h) ELSE SendIndices[s][q][h]
              /\ recvIndex'[q][h] = IF HeardOn(s, q, h)' THEN RecvList(s, q, h) ELSE ReceiveIndices[s][q][h]
              /\ ToldOn(s, q, h)' => sendNumber'[q][h] = Len(SendFront(s, q, h))
              /\ HeardOn(s, q, h)' => recvNumber'[q][h] = Len(RecvFront(s, q, h))
  <2>1. /\ sendIndex[q][h] = IF ToldOn(s, q, h) THEN SendList(s, q, h) ELSE SendIndices[s][q][h]
        /\ recvIndex[q][h] = IF HeardOn(s, q, h) THEN RecvList(s, q, h) ELSE ReceiveIndices[s][q][h]
        /\ ToldOn(s, q, h) => sendNumber[q][h] = Len(SendFront(s, q, h))
        /\ HeardOn(s, q, h) => recvNumber[q][h] = Len(RecvFront(s, q, h))
    BY DEF ListsAre
  <2>2. sendIndex'[q][h] = sendIndex[q][h] /\ sendNumber'[q][h] = sendNumber[q][h]
    BY <1>2
  <2>3. CASE q = r /\ h = l
    <3>1. recvIndex'[q][h] = FrontFirst(front, list) /\ recvNumber'[q][h] = Len(front)
      BY <1>2, <2>3 DEF Updated
    <3> QED
      BY <1>8, <1>9, <1>12, <2>1, <2>2, <2>3, <3>1
  <2>4. CASE ~(q = r /\ h = l)
    <3>1. recvIndex'[q][h] = recvIndex[q][h]
      BY <1>2, <1>10, <2>4 DEF Updated, Typed, Lists
    <3>2. HeardOn(s, q, h) => recvNumber'[q][h] = recvNumber[q][h]
      BY <1>2, <1>10, <2>4 DEF Updated, Typed, Lists
    <3> QED
      BY <1>12, <2>1, <2>2, <2>4, <3>1, <3>2
  <2> QED
    BY <2>3, <2>4
<1>14. ChannelsAre(s)'
  <2>1. DOMAIN channel = Processes(s) /\ \A q \in Processes(s) : DOMAIN channel[q] = Processes(s)
    BY DEF TypeInv, Channels
  <2>2. \A o, q \in Processes(s) : q # r \/ o # p => channel'[o][q] = channel[o][q]
    BY <1>2, <1>4, <2>1 DEF Updated
  <2>3. channel'[p][r] = Tail(channel[p][r])
    BY <1>2, <1>4, <2>1 DEF Updated
  <2>4. ASSUME NEW h \in LayersOf(s, r)
        PROVE  \E k \in Nat : /\ Dropped(channel[Source(s, r, h)][r], channel'[Source(s, r, h)][r], k)
                              /\ AllGot(s, r, h)' = AllGot(s, r, h) + k
    <3>1. CASE Source(s, r, h) = p
      <4>1. h = l \/ (h = Opposite(l) /\ Twin(s, r, l))
        BY <1>1, <3>1, TwinFacts DEF p
      <4>2. AllGot(s, r, h)' = AllGot(s, r, h) + 1
        <5>1. Twin(s, r, h) => Opposite(h) \in LayersOf(s, r)
          BY DEF Twin
        <5>2. (h = l /\ Opposite(h) # l) \/ (h # l /\ Opposite(h) = l /\ Twin(s, r, h))
          BY <1>1, <4>1, OtherSide, TwinFacts
        <5>4. Twin(s, r, h) => GotOn(s, r, Opposite(h))' = GotOn(s, r, Opposite(h)) + (IF Opposite(h) = l THEN 1 ELSE 0)
          BY <1>1, <5>1 DEF Gets
        <5>5. GotOn(s, r, h) \in Nat /\ (Twin(s, r, h) => GotOn(s, r, Opposite(h)) \in Nat)
          BY <5>1, CountsType
        <5>6. GotOn(s, r, h)' = GotOn(s, r, h) + (IF h = l THEN 1 ELSE 0)
          BY <1>1 DEF Gets
        <5> QED
          BY <5>2, <5>4, <5>5, <5>6 DEF AllGot
      <4>3. Dropped(channel[p][r], channel'[p][r], 1)
        BY <1>5, <2>3 DEF Dropped
      <4> QED
        BY <3>1, <4>2, <4>3
    <3>2. CASE Source(s, r, h) # p
      <4>1. h # l /\ (Twin(s, r, h) => Opposite(h) # l)
        <5>1. Twin(s, r, h) => Source(s, r, Opposite(h)) = Source(s, r, h)
          BY DEF Twin
        <5> QED
          BY <3>2, <5>1 DEF p
      <4>2. AllGot(s, r, h)' = AllGot(s, r, h)
        <5>1. r # r \/ (h \notin {l} /\ (Twin(s, r, h) => Opposite(h) \notin {l}))
          BY <4>1
        <5> QED
          BY <1>1, <5>1, SameGot
      <4>3. AllGot(s, r, h) \in Nat
        BY AllType
      <4>4. channel'[Source(s, r, h)][r] = channel[Source(s, r, h)][r] /\ Len(channel[Source(s, r, h)][r]) \in Nat
        BY <2>2, <3>2, ChannelList
      <4>5. Dropped(channel[Source(s, r, h)][r], channel'[Source(s, r, h)][r], 0)
        <5> DEFINE c == channel[Source(s, r, h)][r]
        <5>1. Len(c) \in Nat /\ channel'[Source(s, r, h)][r] = c
          BY <4>4
        <5> HIDE DEF c
        <5>2. Dropped(c, c, 0)
          <6>1. Len(c) = Len(c) - 0 /\ \A i \in 1 .. Len(c) - 0 : i = i + 0
            BY <5>1
          <6> QED
            BY <6>1 DEF Dropped
        <5> QED
          BY <5>1, <5>2 DEF c
      <4>6. AllGot(s, r, h)' = AllGot(s, r, h) + 0 /\ 0 \in Nat
        BY <4>2, <4>3
      <4> QED
        BY <4>5, <4>6
    <3> QED
      BY <3>1, <3>2
  <2>5. \A o, q \in Processes(s) : q # r => channel'[o][q] = channel[o][q]
    BY <2>2
  <2> QED
    BY <1>1, <2>4, <2>5, DropChannels
<1> QED
  BY <1>13, <1>14 DEF ListsAre

-----------------------------------------------------------------------------
(* Which nodes lie where *)

Contents(s)        == Carried(s) /\ Patched(s)
Inside(s, x, a)    == x[a] \in 1 .. s.width

\* What is settled before an axis is inside on it and settled after it.
LEMMA SettledFrom ==
  ASSUME NEW s \in Setups, NEW x, NEW a \in Axes
  PROVE  /\ Settled(s, x, a) <=> Inside(s, x, a) /\ Settled(s, x, a + 1)
         /\ Settled(s, x, 4)
<1>1. a \in 1 .. 3
  BY DEF Axes
<1>2. \A b \in Int : b \in a .. 3 <=> b = a \/ b \in a + 1 .. 3
  BY <1>1
<1>3. \A b \in a .. 3 : b \in Int
  BY <1>1
<1>4. \A b \in a + 1 .. 3 : b \in Int
  BY <1>1
<1>5. a \in Int /\ 4 .. 3 = {}
  BY <1>1
<1> QED
  BY <1>2, <1>3, <1>4, <1>5 DEF Settled, Inside

\* A ghost node beyond the border of an axis is received on a layer of this axis.
LEMMA OutsideReceived ==
  ASSUME NEW s \in Setups, NEW r \in Processes(s), NEW x \in Nodes[s][r], NEW a \in Axes, ~Inside(s, x, a)
  PROVE  \E l \in LayersOf(s, r) : l[1] = a /\ x \in RecvNodes(s, r, l)
<1>1. x[a] \in Lowest(s, r, a) .. Highest(s, r, a)
  BY NodesAre
<1>2. /\ Lowest(s, r, a) \in {0, 1} /\ Highest(s, r, a) \in {s.width, s.width + 1} /\ s.width \in Nat
      /\ Has(s, r, a, -1) <=> Lowest(s, r, a) = 0
      /\ Has(s, r, a, 1) <=> Highest(s, r, a) = s.width + 1
  BY Bounds
<1>3. (x[a] = 0 /\ Lowest(s, r, a) = 0) \/ (x[a] = s.width + 1 /\ Highest(s, r, a) = s.width + 1)
  BY <1>1, <1>2 DEF Inside
<1>4. ASSUME NEW t \in SideSet, Has(s, r, a, t), x[a] = RecvCoordinate(s, t)
      PROVE  \E l \in LayersOf(s, r) : l[1] = a /\ x \in RecvNodes(s, r, l)
  <2> DEFINE l == <<a, t>>
  <2>1. l \in AllLayers /\ l[1] = a /\ l[2] = t
    BY DEF AllLayers
  <2>2. l \in LayersOf(s, r)
    BY <1>4, <2>1, LayersAre
  <2>3. x \in RecvNodes(s, r, l)
    BY <1>4, <2>1 DEF RecvNodes
  <2> QED
    BY <2>1, <2>2, <2>3
<1>5. CASE x[a] = 0 /\ Lowest(s, r, a) = 0
  <2>1. -1 \in SideSet /\ RecvCoordinate(s, -1) = 0
    BY DEF SideSet, RecvCoordinate
  <2> QED
    BY <1>2, <1>4, <1>5, <2>1
<1>6. CASE x[a] = s.width + 1 /\ Highest(s, r, a) = s.width + 1
  <2>1. 1 \in SideSet /\ RecvCoordinate(s, 1) = s.width + 1
    BY DEF SideSet, RecvCoordinate
  <2> QED
    BY <1>2, <1>4, <1>6, <2>1
<1> QED
  BY <1>3, <1>5, <1>6

\* What is sent lies inside on its axis, what is received is a ghost node of one layer only.
LEMMA NodesOfLayers ==
  ASSUME NEW s \in Setups, NEW r \in Processes(s), NEW l \in LayersOf(s, r)
  PROVE  /\ \A x \in SendNodes(s, r, l) : x \in Nodes[s][r] /\ Inside(s, x, l[1])
         /\ \A x \in RecvNodes(s, r, l) : x \in GhostNode[s][r] /\ x \in Nodes[s][r] /\ ~Inside(s, x, l[1])
         /\ \A m \in LayersOf(s, r) : \A x \in RecvNodes(s, r, l) : x \in RecvNodes(s, r, m) /\ m[1] = l[1] => m = l
         /\ \A x \in SendNodes(s, r, l) : s.width > 1 => x \notin SendNodes(s, r, Opposite(l))
<1>1. s.width \in Nat \ {0}
  BY SetupFacts
<1>2. l[1] \in Axes /\ l[2] \in SideSet /\ l = <<l[1], l[2]>> /\ Opposite(l)[1] = l[1] /\ Opposite(l)[2] = -l[2]
  BY OtherSide
<1>3. \A x \in SendNodes(s, r, l) : x \in Nodes[s][r] /\ Inside(s, x, l[1])
  BY <1>1 DEF SendNodes, SendCoordinate, Inside
<1>4. \A x \in RecvNodes(s, r, l) : x \in Nodes[s][r] /\ ~Inside(s, x, l[1])
  BY <1>1 DEF RecvNodes, RecvCoordinate, Inside
<1>5. \A x \in RecvNodes(s, r, l) : x \in GhostNode[s][r]
  BY <1>2, <1>4 DEF GhostNode, IsGhost, Inside
<1>6. ASSUME NEW m \in LayersOf(s, r), NEW x \in RecvNodes(s, r, l), x \in RecvNodes(s, r, m), m[1] = l[1] PROVE m = l
  <2>1. m[2] \in SideSet /\ m = <<m[1], m[2]>>
    BY OtherSide
  <2>2. RecvCoordinate(s, m[2]) = RecvCoordinate(s, l[2])
    BY <1>6 DEF RecvNodes
  <2>3. m[2] = l[2]
    BY <1>1, <1>2, <2>1, <2>2 DEF RecvCoordinate, SideSet
  <2> QED
    BY <1>2, <1>6, <2>1, <2>3
<1>7. \A x \in SendNodes(s, r, l) : s.width > 1 => x \notin SendNodes(s, r, Opposite(l))
  BY <1>1, <1>2 DEF SendNodes, SendCoordinate, SideSet
<1> QED
  BY <1>3, <1>4, <1>5, <1>6, <1>7

\* A node that the interpolation leaves alone has one value in both exchanges.
LEMMA SameValue ==
  ASSUME NEW s, NEW r, NEW x, NEW e \in Nat, Refined(s), e % 2 = 0, GlobalNode[s][r][x] \notin s.fineToCoarse
  PROVE  In(s, r, x, e - 1) = In(s, r, x, e)
<1>1. (e + 1) \div 2 = (e - 1 + 1) \div 2
  BY ONLY e \in Nat, e % 2 = 0
<1> QED
  BY <1>1 DEF In

\* A node that the last exchange of its step ought to receive and does not has
\* its value already.
LEMMA NotReceived ==
  ASSUME NEW s \in Setups, Carried(s), NEW r \in Processes(s), NEW l \in LayersOf(s, r), NEW x \in RecvNodes(s, r, l),
         Settled(s, x, l[1] + 1), NEW e \in Nat,
         \A j \in 1 .. RecvLength(s, r, l, e) : RecvList(s, r, l)[j] # x
  PROVE  In(s, r, x, e - 1) = In(s, r, x, e)
<1> DEFINE p == Source(s, r, l)  m == Opposite(l)
<1>1. /\ Enumerates(RecvList(s, r, l), RecvNodes(s, r, l))
      /\ Len(RecvList(s, r, l)) = Len(SendIndices[s][p][m]) /\ Len(ReceiveIndices[s][r][l]) = Len(SendIndices[s][p][m])
      /\ Len(RecvFront(s, r, l)) = Len(SendFront(s, p, m))
      /\ Refined(s) => \A j \in 1 .. Len(SendFront(s, p, m)) : RecvList(s, r, l)[j] = RecvFront(s, r, l)[j]
  BY ListsArranged
<1>2. PICK i \in 1 .. Len(RecvList(s, r, l)) : RecvList(s, r, l)[i] = x
  BY <1>1 DEF Enumerates
<1>3. Refined(s) /\ e % 2 = 0
  <2>1. ~(Refined(s) /\ e % 2 = 0) => RecvLength(s, r, l, e) = Len(RecvList(s, r, l))
    BY <1>1 DEF RecvLength
  <2> QED
    BY <1>2, <2>1
<1>4. RecvLength(s, r, l, e) = Len(SendFront(s, p, m))
  BY <1>1, <1>3 DEF RecvLength
<1>5. x \notin ToSet(RecvFront(s, r, l))
  <2>1. RecvFront(s, r, l) = Moved(ReceiveIndices[s][r][l], Told(s, r, l))
    BY DEF RecvFront, Moved
  <2>2. Told(s, r, l) \in Seq(Nat)
    BY ListsArranged
  <2>3. IsList(RecvFront(s, r, l))
    BY <2>1, <2>2, SeqIsList, MovedList
  <2>4. DOMAIN RecvFront(s, r, l) = 1 .. Len(SendFront(s, p, m))
    BY <1>1, <2>3, ListType
  <2> HIDE DEF p, m
  <2> QED
    BY <1>1, <1>3, <1>4, <2>4 DEF ToSet
<1>6. x \in ToSet(ReceiveIndices[s][r][l])
  <2>1. Enumerates(ReceiveIndices[s][r][l], RecvNodes(s, r, l))
    BY IndicesListed
  <2>2. PICK k \in 1 .. Len(ReceiveIndices[s][r][l]) : ReceiveIndices[s][r][l][k] = x
    BY <2>1 DEF Enumerates
  <2>3. DOMAIN ReceiveIndices[s][r][l] = 1 .. Len(ReceiveIndices[s][r][l])
    BY <2>1 DEF Enumerates, Injects
  <2> QED
    BY <2>2, <2>3 DEF ToSet
<1>7. GlobalNode[s][r][x] \notin s.fineToCoarse
  BY <1>3, <1>5, <1>6 DEF Carried
<1> QED
  BY <1>3, <1>7, SameValue

\* On an axis without a neighbour there is nothing beyond the border.
LEMMA NothingOutside ==
  ASSUME NEW s \in Setups, NEW r \in Processes(s), NEW a \in 0 .. 3, NEW b, FollowingIs(s, r, a, b), NEW x \in Nodes[s][r]
  PROVE  /\ \A c \in a + 1 .. b - 1 : Inside(s, x, c)
         /\ Settled(s, x, b) => Settled(s, x, a + 1)
<1>1. b \in a + 1 .. 4
  BY DEF FollowingIs
<1>2. \A c \in a + 1 .. b - 1 : c \in Axes
  BY <1>1 DEF Axes
<1>3. ASSUME NEW c \in a + 1 .. b - 1 PROVE Inside(s, x, c)
  <2>1. c \in Axes
    BY <1>2
  <2>2. ASSUME ~Inside(s, x, c) PROVE FALSE
    <3>1. PICK l \in LayersOf(s, r) : l[1] = c
      BY <2>1, <2>2, OutsideReceived
    <3>2. c <= a \/ c >= b
      BY <3>1 DEF FollowingIs
    <3> QED
      BY <1>1, <3>2
  <2> QED
    BY <2>2
<1>4. \A c \in a + 1 .. 3 : c \in a + 1 .. b - 1 \/ c \in b .. 3
  BY <1>1
<1>5. Settled(s, x, b) => Settled(s, x, a + 1)
  BY <1>3, <1>4 DEF Settled, Inside
<1> QED
  BY <1>3, <1>5

-----------------------------------------------------------------------------
(* What the buffers and the ghost nodes hold *)

\* In exchange e on axis a: without streams a ghost node has been received if it
\* is settled, with streams when the exchange has ended.
GhostRight(s, r, e, a, g) ==
  \A x \in GhostNode[s][r] :
    IF s.useStreams THEN g[x] = In(s, r, x, IF a = 4 THEN e ELSE e - 1)
    ELSE g[x] \in {In(s, r, x, e - 1), In(s, r, x, e)} /\ (Settled(s, x, a) => g[x] = In(s, r, x, e))

\* The layers of this axis are ready to be sent, with streams those of the later
\* axes as they were collected.
SendRight(s, r, e, a, buffer) ==
  \A l \in LayersOf(s, r) :
    /\ l[1] = a \/ (s.useStreams /\ l[1] > a) => Len(buffer[l]) = Count(s, r, l, e)
    /\ Contents(s) => /\ l[1] = a => RightSent(s, r, l, e, buffer[l])
                      /\ s.useStreams /\ l[1] > a => Old(s, r, l, e, buffer[l])

\* With streams the layers of the earlier axes are kept.
RecvRight(s, r, e, a, buffer) ==
  \A l \in LayersOf(s, r) : l[1] < a => l \in DOMAIN buffer /\ RightReceived(s, r, l, e, buffer[l])

\* The ghost nodes and the buffers of a process hold the values of the exchange it is in.
HostIs(s, r) ==
  /\ axis[r] # 4 => SendRight(s, r, Exchange(s, r), axis[r], sendBuffer[r])
  /\ axis[r] # 4 /\ s.useStreams /\ Contents(s) => RecvRight(s, r, Exchange(s, r), axis[r], recvBuffer[r])
  /\ Contents(s) => GhostRight(s, r, Exchange(s, r), axis[r], ghost[r])
\* Those of all processes do.
HostsAre(s) == \A r \in Processes(s) : HostIs(s, r)

\* After start-up a process has the lists that it should have.
LEMMA ListsKnown ==
  ASSUME NEW s \in Setups, TypeInv(s), ListsAre(s), NEW r \in Processes(s), Started(s, r), NEW l \in LayersOf(s, r)
  PROVE  /\ sendIndex[r][l] = SendList(s, r, l) /\ recvIndex[r][l] = RecvList(s, r, l)
         /\ Refined(s) => sendNumber[r][l] = Len(SendFront(s, r, l)) /\ recvNumber[r][l] = Len(RecvFront(s, r, l))
<1>1. CASE Refined(s)
  <2>1. turn[r] \in Nat
    BY DEF TypeInv, Typed
  <2>2. ToldOn(s, r, l) /\ HeardOn(s, r, l)
    BY <1>1, <2>1, AllTold
  <2> QED
    BY <2>2 DEF ListsAre
<1>2. CASE ~Refined(s)
  <2>1. ~ToldOn(s, r, l) /\ ~HeardOn(s, r, l)
    BY <1>2 DEF ToldOn, HeardOn
  <2> QED
    BY <1>2, <2>1 DEF ListsAre, SendList, RecvList
<1> QED
  BY <1>1, <1>2

\* The front part of a list that is sent is in front.
LEMMA FrontIsSent ==
  ASSUME NEW s \in Setups, NEW r \in Processes(s), NEW l \in LayersOf(s, r), Refined(s)
  PROVE  \A j \in 1 .. Len(SendFront(s, r, l)) : SendList(s, r, l)[j] = SendFront(s, r, l)[j]
<1> DEFINE p == Source(s, r, l)
           m == Opposite(l)
<1>1. p \in Processes(s) /\ m \in LayersOf(s, p) /\ Source(s, p, m) = r /\ Opposite(m) = l
  BY OtherSide
<1>2. Len(SendFront(s, r, l)) \in 0 .. Len(SendIndices[s][r][l])
  BY SentArranged
<1> HIDE DEF p, m
<1> QED
  BY <1>1, ListsArranged

\* That of a list that is received.
LEMMA FrontIsReceived ==
  ASSUME NEW s \in Setups, NEW r \in Processes(s), NEW l \in LayersOf(s, r)
  PROVE  /\ Len(RecvFront(s, r, l)) \in 0 .. Len(RecvList(s, r, l))
         /\ Len(RecvList(s, r, l)) = Len(ReceiveIndices[s][r][l]) /\ Len(RecvList(s, r, l)) \in Nat
         /\ Enumerates(RecvList(s, r, l), RecvNodes(s, r, l))
         /\ Refined(s) => \A j \in 1 .. Len(RecvFront(s, r, l)) : RecvList(s, r, l)[j] = RecvFront(s, r, l)[j]
<1> DEFINE p == Source(s, r, l)
           m == Opposite(l)
<1>1. p \in Processes(s) /\ m \in LayersOf(s, p)
  BY OtherSide
<1>2. Len(SendIndices[s][p][m]) \in Nat
  BY <1>1, SentArranged
<1> HIDE DEF p, m
<1>3. /\ Enumerates(RecvList(s, r, l), RecvNodes(s, r, l))
      /\ Len(RecvList(s, r, l)) = Len(SendIndices[s][p][m]) /\ Len(ReceiveIndices[s][r][l]) = Len(SendIndices[s][p][m])
      /\ Len(SendFront(s, p, m)) \in 0 .. Len(SendIndices[s][p][m]) /\ Len(RecvFront(s, r, l)) = Len(SendFront(s, p, m))
      /\ Refined(s) => \A j \in 1 .. Len(SendFront(s, p, m)) : RecvList(s, r, l)[j] = RecvFront(s, r, l)[j]
  BY SMTT(30), ListsArranged DEF p, m
<1> QED
  BY <1>2, <1>3

\* How many nodes of a layer are sent in the exchange that begins or goes on, and
\* how many are received.
LEMMA SendCountIs ==
  ASSUME NEW s \in Setups, TypeInv(s), ListsAre(s), NEW r \in Processes(s), Started(s, r), NEW l \in LayersOf(s, r),
         NEW e \in Nat, (Refined(s) /\ e % 2 = 0) <=> afterFtoC'[r]
  PROVE  SendCount(r, l) = Count(s, r, l, e)
<1>1. /\ sendIndex[r][l] = SendList(s, r, l)
      /\ Refined(s) => sendNumber[r][l] = Len(SendFront(s, r, l))
  BY ListsKnown
<1>2. Len(SendList(s, r, l)) = Len(SendIndices[s][r][l])
  BY SentArranged
<1> QED
  BY <1>1, <1>2 DEF SendCount, Count

\* A receive reads as many nodes as the neighbour sends.
LEMMA RecvCountIs ==
  ASSUME NEW s \in Setups, TypeInv(s), ListsAre(s), NEW r \in Processes(s), Started(s, r), NEW l \in LayersOf(s, r)
  PROVE  RecvCount(r, l) = RecvLength(s, r, l, Exchange(s, r))
<1>1. /\ recvIndex[r][l] = RecvList(s, r, l)
      /\ Refined(s) => recvNumber[r][l] = Len(RecvFront(s, r, l))
  BY ListsKnown
<1>2. Len(RecvList(s, r, l)) = Len(ReceiveIndices[s][r][l])
  BY FrontIsReceived
<1>3. (Refined(s) /\ Exchange(s, r) % 2 = 0) <=> afterFtoC[r]
  BY ExchangeType
<1> QED
  BY <1>1, <1>2, <1>3 DEF RecvCount, RecvLength

\* The number of the next exchange and what it says of the next state.
LEMMA NextExchange ==
  ASSUME NEW s \in Setups, TypeInv(s), TypeInv(s)', NEW r \in Processes(s), NEW e, e = Exchange(s, r)'
  PROVE  /\ e \in Nat /\ setup' = s /\ setup = s
         /\ (IF Refined(s) THEN (e + 1) \div 2 ELSE e) = step'[r]
         /\ (Refined(s) /\ e % 2 = 0) <=> afterFtoC'[r]
         /\ afterFtoC'[r] => Refined(s)
<1>1. /\ step'[r] \in Nat /\ afterFtoC'[r] \in BOOLEAN /\ setup' = s /\ setup = s
      /\ afterFtoC'[r] => Refined(s) /\ (Refined(s) /\ ~afterFtoC'[r] => step'[r] > 0)
      /\ Refined(s) /\ ~afterFtoC'[r] => step'[r] > 0
  <2>1. step' \in [Processes(s) -> 0 .. s.steps] /\ afterFtoC' \in [Processes(s) -> BOOLEAN] /\ setup' = s /\ setup = s
    BY DEF TypeInv, Typed
  <2>2. s.steps \in Nat
    BY SetupFacts
  <2>3. /\ afterFtoC'[r] => Refined(s)
        /\ Refined(s) /\ ~afterFtoC'[r] => step'[r] > 0
    BY DEF TypeInv, Time, Refined
  <2> QED
    BY <2>1, <2>2, <2>3
<1>2. e = IF Refined(s) THEN 2 * step'[r] - (IF afterFtoC'[r] THEN 0 ELSE 1) ELSE step'[r]
  BY DEF Exchange, Refined
<1>3. /\ e \in Nat
      /\ (IF Refined(s) THEN (e + 1) \div 2 ELSE e) = step'[r]
      /\ (Refined(s) /\ e % 2 = 0) <=> afterFtoC'[r]
  BY <1>1, <1>2, ExchangeNumber
<1> QED
  BY <1>1, <1>3

\* What is collected of a layer.
LEMMA CollectedIs ==
  ASSUME NEW s \in Setups, TypeInv(s), TypeInv(s)', ListsAre(s), NEW r \in Processes(s), Started(s, r), NEW l \in LayersOf(s, r),
         sendIndex' = sendIndex, NEW e, e = Exchange(s, r)'
  PROVE  /\ e \in Nat
         /\ IsList(Collected(r, l)) /\ Len(Collected(r, l)) = Count(s, r, l, e)
         /\ \A j \in 1 .. Count(s, r, l, e) :
              Collected(r, l)[j] = IF IsGhost(s, SendList(s, r, l)[j]) THEN ghost'[r][SendList(s, r, l)[j]]
                                   ELSE In(s, r, SendList(s, r, l)[j], e)
<1>1. setup' = s /\ setup = s /\ (afterFtoC'[r] => Refined(s))
  BY NextExchange
<1>3. /\ e \in Nat
      /\ (IF Refined(s) THEN (e + 1) \div 2 ELSE e) = step'[r]
      /\ (Refined(s) /\ e % 2 = 0) <=> afterFtoC'[r]
  BY NextExchange
<1>4. SendCount(r, l) = Count(s, r, l, e)
  BY <1>3, SendCountIs
<1>5. IsList(Collected(r, l)) /\ Len(Collected(r, l)) = SendCount(r, l)
  BY <1>1, CollectedLists
<1>6. sendIndex[r][l] = SendList(s, r, l)
  BY ListsKnown
<1>7. ASSUME NEW j \in 1 .. Count(s, r, l, e), NEW x, x = SendList(s, r, l)[j]
      PROVE  Collected(r, l)[j] = IF IsGhost(s, x) THEN ghost'[r][x] ELSE In(s, r, x, e)
  <2>1. Collected(r, l)[j] = IF IsGhost(setup, x) THEN ghost'[r][x] ELSE Value(r, x)'
    <3>1. x = sendIndex[r][l][j] /\ x = sendIndex'[r][l][j]
      BY <1>6, <1>7
    <3> QED
      BY <1>4, <3>1 DEF Collected, Value, Global
  <2>2. Value(r, x)' = In(s, r, x, e)
    BY <1>1, <1>3 DEF Value, In, Global
  <2> QED
    BY <1>1, <2>1, <2>2
<1> QED
  BY <1>3, <1>4, <1>5, <1>7

-----------------------------------------------------------------------------
(* The layers that are sent *)

\* A node of a layer that is sent.
LEMMA SentNode ==
  ASSUME NEW s \in Setups, NEW r \in Processes(s), NEW l \in LayersOf(s, r), NEW e \in Nat,
         NEW j \in 1 .. Count(s, r, l, e), NEW x, x = SendList(s, r, l)[j]
  PROVE  /\ j \in 1 .. Len(SendList(s, r, l)) /\ x \in SendNodes(s, r, l) /\ x \in Nodes[s][r] /\ Inside(s, x, l[1])
         /\ IsGhost(s, x) => x \in GhostNode[s][r]
         /\ ~IsGhost(s, x) <=> Settled(s, x, 1)
<1>1. Count(s, r, l, e) \in 0 .. Len(SendList(s, r, l)) /\ Len(SendList(s, r, l)) \in Nat
  BY CountsAgree
<1>2. SendList(s, r, l) \in Seq(SendNodes(s, r, l))
  BY SentArranged DEF Enumerates, Injects
<1>3. j \in 1 .. Len(SendList(s, r, l))
  BY <1>1
<1>4. x \in SendNodes(s, r, l)
  BY <1>2, <1>3
<1>5. x \in Nodes[s][r] /\ Inside(s, x, l[1])
  BY <1>4, NodesOfLayers
<1>6. IsGhost(s, x) => x \in GhostNode[s][r]
  BY <1>5 DEF GhostNode
<1>7. ~IsGhost(s, x) <=> Settled(s, x, 1)
  BY DEF IsGhost, Settled, Axes
<1> QED
  BY <1>3, <1>4, <1>5, <1>6, <1>7

\* A layer that is collected without streams is right as it is.
LEMMA CollectedRight ==
  ASSUME NEW s \in Setups, ~s.useStreams, NEW r \in Processes(s), NEW l \in LayersOf(s, r), NEW e \in Nat,
         NEW g, GhostRight(s, r, e, l[1], g), NEW v, IsList(v), Len(v) = Count(s, r, l, e),
         \A j \in 1 .. Count(s, r, l, e) :
           v[j] = IF IsGhost(s, SendList(s, r, l)[j]) THEN g[SendList(s, r, l)[j]] ELSE In(s, r, SendList(s, r, l)[j], e)
  PROVE  RightSent(s, r, l, e, v)
<1>1. ASSUME NEW j \in 1 .. Count(s, r, l, e), NEW x, x = SendList(s, r, l)[j]
      PROVE  /\ v[j] \in {In(s, r, x, e - 1), In(s, r, x, e)}
             /\ Settled(s, x, l[1] + 1) => v[j] = In(s, r, x, e)
  <2>1. /\ Inside(s, x, l[1]) /\ (IsGhost(s, x) => x \in GhostNode[s][r])
    BY <1>1, SentNode
  <2>2. v[j] = IF IsGhost(s, x) THEN g[x] ELSE In(s, r, x, e)
    BY <1>1
  <2>3. l[1] \in Axes
    BY OtherSide
  <2>4. Settled(s, x, l[1] + 1) => Settled(s, x, l[1])
    BY <2>1, <2>3, SettledFrom
  <2> QED
    BY <2>1, <2>2, <2>4 DEF GhostRight
<1> QED
  BY <1>1 DEF RightSent, Right

\* With streams all layers are collected before anything is received.
LEMMA CollectedOld ==
  ASSUME NEW s \in Setups, s.useStreams, NEW r \in Processes(s), NEW l \in LayersOf(s, r), NEW e \in Nat,
         NEW b, b # 4, NEW g, GhostRight(s, r, e, b, g), NEW v, IsList(v), Len(v) = Count(s, r, l, e),
         \A j \in 1 .. Count(s, r, l, e) :
           v[j] = IF IsGhost(s, SendList(s, r, l)[j]) THEN g[SendList(s, r, l)[j]] ELSE In(s, r, SendList(s, r, l)[j], e)
  PROVE  Old(s, r, l, e, v)
<1>1. ASSUME NEW j \in 1 .. Count(s, r, l, e), NEW x, x = SendList(s, r, l)[j]
      PROVE  v[j] = IF IsGhost(s, x) THEN In(s, r, x, e - 1) ELSE In(s, r, x, e)
  BY <1>1, SentNode DEF GhostRight
<1> QED
  BY <1>1 DEF Old

\* A layer that was collected before the first axis is right for it.
LEMMA OldIsRight ==
  ASSUME NEW s \in Setups, NEW r \in Processes(s), NEW l \in LayersOf(s, r), NEW e \in Nat, NEW v, Old(s, r, l, e, v)
  PROVE  Right(s, r, 0, e, SendList(s, r, l), Count(s, r, l, e), v)
<1>1. ASSUME NEW j \in 1 .. Count(s, r, l, e), NEW x, x = SendList(s, r, l)[j]
      PROVE  /\ v[j] \in {In(s, r, x, e - 1), In(s, r, x, e)}
             /\ Settled(s, x, 1) => v[j] = In(s, r, x, e)
  BY <1>1, SentNode DEF Old
<1>2. 0 + 1 = 1
  OBVIOUS
<1> QED
  BY <1>1, <1>2 DEF Old, Right

\* On an axis where nothing has been received, or of which nothing is sent, a layer
\* that is right up to one axis is right up to the next.
LEMMA RightOnward ==
  ASSUME NEW s \in Setups, NEW r \in Processes(s), NEW a \in Axes, NEW e \in Nat, NEW list, NEW n \in Nat, NEW v,
         Right(s, r, a - 1, e, list, n, v), \A j \in 1 .. n : Inside(s, list[j], a)
  PROVE  Right(s, r, a, e, list, n, v)
<1>1. ASSUME NEW j \in 1 .. n, NEW x, x = list[j]
      PROVE  /\ v[j] \in {In(s, r, x, e - 1), In(s, r, x, e)}
             /\ Settled(s, x, a + 1) => v[j] = In(s, r, x, e)
  <2>1. a - 1 + 1 = a
    BY DEF Axes
  <2>2. Settled(s, x, a + 1) => Settled(s, x, a)
    BY <1>1, SettledFrom
  <2> QED
    BY <1>1, <2>1, <2>2 DEF Right
<1> QED
  BY <1>1 DEF Right

\* The edge nodes: what is at the one place is received, that at the other sent.
EdgesAre(s, r, c, l, edges) ==
  /\ \A e \in edges : LET m == <<c, e[1]>>
                      IN /\ m \in LayersOf(s, r)
                         /\ e[2] \in 1 .. Len(RecvList(s, r, m)) /\ e[3] \in 1 .. Len(SendList(s, r, l))
                         /\ RecvList(s, r, m)[e[2]] = SendList(s, r, l)[e[3]]
  /\ \A m \in LayersOf(s, r) : \A i \in 1 .. Len(RecvList(s, r, m)), k \in 1 .. Len(SendList(s, r, l)) :
       m[1] = c /\ RecvList(s, r, m)[i] = SendList(s, r, l)[k] => \E e \in edges : e[3] = k

\* The lists of a process after its start-up.
KnownLists(s, r) ==
  \A l \in LayersOf(s, r) :
    /\ sendIndex[r][l] = SendList(s, r, l) /\ recvIndex[r][l] = RecvList(s, r, l)
    /\ Refined(s) => sendNumber[r][l] = Len(SendFront(s, r, l)) /\ recvNumber[r][l] = Len(RecvFront(s, r, l))

\* The sides of an axis on which there is a neighbour.
LEMMA SidesAre ==
  ASSUME NEW s \in Setups, setup = s, NEW r \in Processes(s), NEW c \in Axes
  PROVE  \A t : t \in Sides(r, c) <=> <<c, t>> \in LayersOf(s, r)
<1>1. Sides(r, c) = ToSet(ProcessNeighbor[s][r][c])
  BY DEF Sides, ProcessNeighbors
<1> DEFINE list == ProcessNeighbor[s][r][c]
<1>2. /\ list \in Seq(SideSet) /\ DOMAIN list = 1 .. Len(list)
      /\ \A t \in SideSet : Has(s, r, c, t) <=> \E k \in 1 .. Len(list) : list[k] = t
      /\ \A k \in 1 .. Len(list) : list[k] \in SideSet
  BY SidesListed
<1>3. \A t : <<c, t>> \in LayersOf(s, r) <=> t \in SideSet /\ Has(s, r, c, t)
  <2>1. LayersOf(s, r) = { l \in AllLayers : Has(s, r, l[1], l[2]) }
    BY LayersAre
  <2> QED
    BY <2>1 DEF AllLayers
<1>4. ToSet(list) = { list[k] : k \in 1 .. Len(list) }
  BY <1>2 DEF ToSet
<1> HIDE DEF list
<1> QED
  BY <1>1, <1>2, <1>3, <1>4 DEF list

\* findEdgeNodes finds, where Patched holds, the edge nodes that have to be copied.
LEMMA EdgesFound ==
  ASSUME NEW s \in Setups, setup = s, s.useStreams, Patched(s), NEW r \in Processes(s), KnownLists(s, r),
         NEW l \in LayersOf(s, r), NEW c \in Axes, c < l[1]
  PROVE  EdgesAre(s, r, c, l, EdgeNodes(r, c, l))
<1> DEFINE first == ProcessNeighbor[s][r][l[1]][1]
<1>1. l[1] \in Axes /\ l = <<l[1], l[2]>> /\ Opposite(l) = <<l[1], -l[2]>> /\ l[2] \in SideSet
  BY OtherSide
<1>2. ASSUME NEW m \in LayersOf(s, r), m[1] = c, NEW i \in 1 .. Len(RecvList(s, r, m)), NEW k \in 1 .. Len(SendList(s, r, l)),
             RecvList(s, r, m)[i] = SendList(s, r, l)[k]
      PROVE  \/ first = l[2] 
             \/ SendList(s, r, l)[k] \notin ToSet(SendList(s, r, <<l[1], first>>))
  <2>1. SUFFICES ASSUME first # l[2]
                 PROVE  SendList(s, r, l)[k] \notin ToSet(SendList(s, r, <<l[1], first>>))
    OBVIOUS
  <2>2. first \in SideSet /\ <<l[1], first>> \in LayersOf(s, r)
    <3>1. Len(ProcessNeighbor[s][r][l[1]]) \in 1 .. 2
      BY SidePlaces
    <3>a. \A n \in 1 .. 2 : 1 \in 1 .. n
      OBVIOUS
    <3>2. 1 \in 1 .. Len(ProcessNeighbor[s][r][l[1]])
      BY ONLY <3>1, <3>a
    <3>3. first \in SideSet
      BY <3>2, <1>1, SidesListed
    <3>4. <<l[1], first>> \in LayersOf(s, r)
      BY <3>2, <1>1, SideLayer
    <3> QED
      BY <3>3, <3>4
  <2>3. first = -l[2]
    BY <1>1, <2>1, <2>2 DEF SideSet
  <2>4. Opposite(l) \in LayersOf(s, r) /\ <<l[1], first>> = Opposite(l)
    BY <1>1, <2>2, <2>3
  <2>5. s.width > 1
    BY <1>2, <2>4 DEF Patched
  <2>6. SendList(s, r, l)[k] \in SendNodes(s, r, l)
    <3>1. SendList(s, r, l) \in Seq(SendNodes(s, r, l))
      BY SentArranged DEF Enumerates, Injects
    <3> QED
      BY <3>1
  <2>7. SendList(s, r, l)[k] \notin SendNodes(s, r, Opposite(l))
    BY <2>5, <2>6, NodesOfLayers
  <2>8. ToSet(SendList(s, r, Opposite(l))) \subseteq SendNodes(s, r, Opposite(l))
    <3>1. SendList(s, r, Opposite(l)) \in Seq(SendNodes(s, r, Opposite(l)))
      BY <2>4, SentArranged DEF Enumerates, Injects
    <3> QED
      BY <3>1 DEF ToSet
  <2> QED
    BY <2>4, <2>7, <2>8
<1>3. \A m \in LayersOf(s, r) : /\ DOMAIN RecvList(s, r, m) = 1 .. Len(RecvList(s, r, m))
                                /\ DOMAIN SendList(s, r, m) = 1 .. Len(SendList(s, r, m))
  <2> TAKE m \in LayersOf(s, r)
  <2>1. RecvList(s, r, m) \in Seq(RecvNodes(s, r, m)) /\ SendList(s, r, m) \in Seq(SendNodes(s, r, m))
    BY FrontIsReceived, SentArranged DEF Enumerates, Injects
  <2> QED
    BY <2>1
<1> DEFINE Edges(t) == { e \in {t} \X (DOMAIN recvIndex[r][<<c, t>>]) \X (DOMAIN sendIndex[r][l]) :
                           /\ recvIndex[r][<<c, t>>][e[2]] = sendIndex[r][l][e[3]]
                           /\ first = l[2] \/ sendIndex[r][l][e[3]] \notin ToSet(sendIndex[r][<<l[1], first>>]) }
<1>4. EdgeNodes(r, c, l) = UNION { Edges(t) : t \in Sides(r, c) }
  BY DEF EdgeNodes, ProcessNeighbors
<1>5. \A t : t \in Sides(r, c) <=> <<c, t>> \in LayersOf(s, r)
  BY SidesAre
<1>6. <<l[1], first>> \in LayersOf(s, r)
  <2>1. Len(ProcessNeighbor[s][r][l[1]]) \in 1 .. 2
    BY SidePlaces
  <2>a. \A n \in 1 .. 2 : 1 \in 1 .. n
    OBVIOUS
  <2>2. 1 \in 1 .. Len(ProcessNeighbor[s][r][l[1]])
    BY ONLY <2>1, <2>a
  <2> QED
    BY <2>2, <1>1, SideLayer
<1>7. ASSUME NEW e \in EdgeNodes(r, c, l), NEW m, m = <<c, e[1]>>
      PROVE  /\ m \in LayersOf(s, r)
             /\ e[2] \in 1 .. Len(RecvList(s, r, m)) /\ e[3] \in 1 .. Len(SendList(s, r, l))
             /\ RecvList(s, r, m)[e[2]] = SendList(s, r, l)[e[3]]
  <2>1. PICK t \in Sides(r, c) : e \in Edges(t)
    BY <1>4, <1>7
  <2>2. e[1] = t /\ e[2] \in DOMAIN recvIndex[r][<<c, t>>] /\ e[3] \in DOMAIN sendIndex[r][l]
        /\ recvIndex[r][<<c, t>>][e[2]] = sendIndex[r][l][e[3]]
    BY <2>1
  <2>3. m = <<c, t>> /\ m \in LayersOf(s, r)
    BY <1>5, <1>7, <2>2
  <2>4. recvIndex[r][m] = RecvList(s, r, m) /\ sendIndex[r][l] = SendList(s, r, l)
    BY <2>3 DEF KnownLists
  <2> QED
    BY <1>3, <2>2, <2>3, <2>4
<1>8. ASSUME NEW m \in LayersOf(s, r), m[1] = c, NEW i \in 1 .. Len(RecvList(s, r, m)), NEW k \in 1 .. Len(SendList(s, r, l)),
             RecvList(s, r, m)[i] = SendList(s, r, l)[k]
      PROVE  \E e \in EdgeNodes(r, c, l) : e[3] = k
  <2>1. m = <<c, m[2]>> /\ m[2] \in Sides(r, c)
    <3>1. m = <<m[1], m[2]>>
      BY OtherSide
    <3> QED
      BY <1>5, <1>8, <3>1
  <2>2. /\ recvIndex[r][m] = RecvList(s, r, m) /\ sendIndex[r][l] = SendList(s, r, l)
        /\ sendIndex[r][<<l[1], first>>] = SendList(s, r, <<l[1], first>>)
    BY <1>6 DEF KnownLists
  <2>3. first = l[2] \/ SendList(s, r, l)[k] \notin ToSet(SendList(s, r, <<l[1], first>>))
    BY <1>2, <1>8
  <2>4. i \in DOMAIN recvIndex[r][m] /\ k \in DOMAIN sendIndex[r][l]
    BY <1>3, <2>2
  <2>5. <<m[2], i, k>> \in Edges(m[2])
    <3> DEFINE e == <<m[2], i, k>>
    <3>1. e \in {m[2]} \X (DOMAIN recvIndex[r][<<c, m[2]>>]) \X (DOMAIN sendIndex[r][l])
      BY <2>1, <2>4
    <3>2. e[2] = i /\ e[3] = k
      OBVIOUS
    <3>3. recvIndex[r][<<c, m[2]>>][e[2]] = sendIndex[r][l][e[3]]
      BY <1>8, <2>1, <2>2, <3>2
    <3>4. first = l[2] \/ sendIndex[r][l][e[3]] \notin ToSet(sendIndex[r][<<l[1], first>>])
      BY <2>2, <2>3, <3>2
    <3> HIDE DEF e, first
    <3> QED
      BY <3>1, <3>3, <3>4 DEF e
  <2> HIDE DEF Edges
  <2>6. <<m[2], i, k>> \in EdgeNodes(r, c, l)
    BY <1>4, <2>1, <2>5
  <2>7. <<m[2], i, k>>[3] = k
    OBVIOUS
  <2> QED
    BY <2>6, <2>7
<1> QED
  BY <1>7, <1>8 DEF EdgesAre

\* An edge node is read from the place where it was received.
LEMMA NumberKnown ==
  ASSUME NEW s \in Setups, setup = s, s.useStreams, Patched(s), NEW r \in Processes(s), KnownLists(s, r),
         NEW l \in LayersOf(s, r), NEW m \in LayersOf(s, r), m[1] < l[1],
         NEW e \in Nat, (Refined(s) /\ e % 2 = 0) <=> afterFtoC'[r],
         NEW i \in 1 .. Len(RecvList(s, r, m)), NEW j \in 1 .. Count(s, r, l, e), RecvList(s, r, m)[i] = SendList(s, r, l)[j],
         NEW number, number = IF ExchangesAll(r, l[1]) THEN Len(recvIndex[r][m]) ELSE recvNumber[r][m]
  PROVE  number = RecvLength(s, r, m, e) /\ i \in 1 .. number
<1>1. /\ Len(RecvFront(s, r, m)) \in 0 .. Len(RecvList(s, r, m))
      /\ Len(RecvList(s, r, m)) = Len(ReceiveIndices[s][r][m]) /\ Len(RecvList(s, r, m)) \in Nat
      /\ Enumerates(RecvList(s, r, m), RecvNodes(s, r, m))
      /\ Refined(s) => \A k \in 1 .. Len(RecvFront(s, r, m)) : RecvList(s, r, m)[k] = RecvFront(s, r, m)[k]
  BY FrontIsReceived
<1>2. recvIndex[r][m] = RecvList(s, r, m) /\ (Refined(s) => recvNumber[r][m] = Len(RecvFront(s, r, m)))
  BY DEF KnownLists
<1> DEFINE first == ProcessNeighbor[s][r][l[1]][1]
           f     == <<l[1], first>>
<1>3. l[1] \in Axes /\ l = <<l[1], l[2]>>
  BY OtherSide
<1>4. f \in LayersOf(s, r) /\ f[1] = l[1] /\ f[2] = first
  <2>1. Len(ProcessNeighbor[s][r][l[1]]) \in 1 .. 2
    BY SidePlaces
  <2>a. \A n \in 1 .. 2 : 1 \in 1 .. n
    OBVIOUS
  <2>2. 1 \in 1 .. Len(ProcessNeighbor[s][r][l[1]])
    BY ONLY <2>1, <2>a
  <2> QED
    BY <2>2, <1>3, SideLayer
<1>5. ExchangesAll(r, l[1]) <=> Len(SendList(s, r, f)) = Count(s, r, f, e)
  <2>1. ExchangesAll(r, l[1]) <=> Len(sendIndex[r][f]) = SendCount(r, f)
    BY DEF ExchangesAll, ProcessNeighbors
  <2>2. sendIndex[r][f] = SendList(s, r, f) /\ (Refined(s) => sendNumber[r][f] = Len(SendFront(s, r, f)))
    BY <1>4 DEF KnownLists
  <2>3. Len(SendList(s, r, f)) = Len(SendIndices[s][r][f])
    BY <1>4, SentArranged
  <2> HIDE DEF f
  <2>4. SendCount(r, f) = Count(s, r, f, e)
    BY <2>2, <2>3 DEF SendCount, Count
  <2> QED
    BY <2>1, <2>2, <2>4
<1>6. Len(SendList(s, r, f)) = Len(SendIndices[s][r][f])
  BY <1>4, SentArranged
<1>7. CASE ~(Refined(s) /\ e % 2 = 0)
  <2>1. Len(SendList(s, r, f)) = Count(s, r, f, e)
    BY <1>6, <1>7 DEF Count
  <2>2. number = Len(RecvList(s, r, m))
    BY <1>2, <1>5, <2>1
  <2>3. RecvLength(s, r, m, e) = Len(ReceiveIndices[s][r][m])
    BY <1>7 DEF RecvLength
  <2> QED
    BY <1>1, <2>2, <2>3
<1>8. CASE Refined(s) /\ e % 2 = 0
  <2>1. RecvLength(s, r, m, e) = Len(RecvFront(s, r, m)) /\ Count(s, r, l, e) = Len(SendFront(s, r, l))
        /\ Count(s, r, f, e) = Len(SendFront(s, r, f))
    BY <1>8 DEF RecvLength, Count
  <2>2. number = Len(RecvFront(s, r, m))
    <3>1. CASE ExchangesAll(r, l[1])
      <4>1. Len(SendFront(s, r, f)) = Len(SendIndices[s][r][f])
        BY <1>5, <1>6, <2>1, <3>1
      <4>2. f[2] = ProcessNeighbor[s][r][f[1]][1] /\ m[1] < f[1]
        BY <1>4
      <4>3. Len(RecvFront(s, r, m)) = Len(ReceiveIndices[s][r][m])
        BY <1>4, <1>8, <4>1, <4>2 DEF Patched
      <4> QED
        BY <1>1, <1>2, <3>1, <4>3
    <3>2. CASE ~ExchangesAll(r, l[1])
      BY <1>2, <1>8, <3>2
    <3> QED
      BY <3>1, <3>2
  <2>3. SendList(s, r, l)[j] = SendFront(s, r, l)[j] /\ SendFront(s, r, l)[j] \in ToSet(SendFront(s, r, l))
    <3>1. SendList(s, r, l)[j] = SendFront(s, r, l)[j]
      BY <1>8, <2>1, FrontIsSent
    <3>2. IsList(SendFront(s, r, l))
      <4>1. Enumerates(SendIndices[s][r][l], SendNodes(s, r, l))
        BY IndicesListed
      <4>2. IsList(SendIndices[s][r][l])
        BY <4>1, SeqIsList DEF Enumerates, Injects
      <4> QED
        BY <4>2, FrontPartList DEF SendFront
    <3>3. DOMAIN SendFront(s, r, l) = 1 .. Len(SendFront(s, r, l))
      BY <3>2, ListType
    <3> QED
      BY <2>1, <3>1, <3>3 DEF ToSet
  <2> DEFINE x == SendList(s, r, l)[j]
  <2>4. x \in ToSet(ReceiveIndices[s][r][m])
    <3>1. Enumerates(ReceiveIndices[s][r][m], RecvNodes(s, r, m))
      BY IndicesListed
    <3>2. x \in RecvNodes(s, r, m)
      <4>1. RecvList(s, r, m) \in Seq(RecvNodes(s, r, m))
        BY <1>1 DEF Enumerates, Injects
      <4> QED
        BY <4>1
    <3>3. PICK k \in 1 .. Len(ReceiveIndices[s][r][m]) : ReceiveIndices[s][r][m][k] = x
      BY <3>1, <3>2 DEF Enumerates
    <3>4. DOMAIN ReceiveIndices[s][r][m] = 1 .. Len(ReceiveIndices[s][r][m])
      BY <3>1, SeqIsList DEF Enumerates, Injects
    <3> QED
      BY <3>3, <3>4 DEF ToSet
  <2>5. x \in ToSet(RecvFront(s, r, m))
    BY <1>8, <2>3, <2>4 DEF Patched
  <2>6. PICK k \in DOMAIN RecvFront(s, r, m) : RecvFront(s, r, m)[k] = x
    BY <2>5 DEF ToSet
  <2>7. DOMAIN RecvFront(s, r, m) = 1 .. Len(RecvFront(s, r, m))
    <3> DEFINE p == Source(s, r, m)
    <3>1. IsList(Told(s, r, m))
      <4>1. Told(s, r, m) \in Seq(Nat)
        BY ListsArranged
      <4> QED
        BY <4>1, SeqIsList
    <3>2. RecvFront(s, r, m) = Moved(ReceiveIndices[s][r][m], Told(s, r, m))
      BY DEF RecvFront, Moved
    <3>3. IsList(RecvFront(s, r, m))
      BY <3>1, <3>2, MovedList
    <3> QED
      BY <3>3, ListType
  <2>8. k \in 1 .. Len(RecvList(s, r, m)) /\ RecvList(s, r, m)[k] = x
    BY <1>1, <1>8, <2>6, <2>7
  <2>9. i = k
    BY <1>1, <2>8 DEF Enumerates, Injects
  <2> QED
    BY <2>1, <2>2, <2>6, <2>7, <2>9
<1> QED
  BY <1>7, <1>8

\* After the edge nodes of one more axis have been patched the layer is right up to
\* this axis.
LEMMA CopyRight ==
  ASSUME NEW s \in Setups, setup = s, s.useStreams, Patched(s), NEW r \in Processes(s), KnownLists(s, r),
         NEW l \in LayersOf(s, r), NEW c \in Axes, c < l[1],
         NEW e \in Nat, (Refined(s) /\ e % 2 = 0) <=> afterFtoC'[r],
         NEW layer, Right(s, r, c - 1, e, SendList(s, r, l), Count(s, r, l, e), layer),
         \A m \in LayersOf(s, r) : m[1] = c => RightReceived(s, r, m, e, recvBuffer'[r][m])
  PROVE  Right(s, r, c, e, SendList(s, r, l), Count(s, r, l, e), CopyEdgeNodes(r, c, l, layer))
<1> DEFINE edges == EdgeNodes(r, c, l)
           copy  == CopyEdgeNodes(r, c, l, layer)
           n     == Count(s, r, l, e)
<1>1. IsList(layer) /\ Len(layer) = n
  BY DEF Right
<1>2. IsList(copy) /\ Len(copy) = n
  BY <1>1, CopiedLists
<1>3. EdgesAre(s, r, c, l, edges)
  BY EdgesFound
<1>4. n \in 0 .. Len(SendList(s, r, l)) /\ DOMAIN layer = 1 .. n
  BY <1>1, ListType, CountsAgree
<1>5. c - 1 + 1 = c
  BY DEF Axes
<1>6. ASSUME NEW j \in 1 .. n, NEW x, x = SendList(s, r, l)[j]
      PROVE  /\ copy[j] \in {In(s, r, x, e - 1), In(s, r, x, e)}
             /\ Settled(s, x, c + 1) => copy[j] = In(s, r, x, e)
  <2>1. CASE \E d \in edges : d[3] = j
    <3> DEFINE d      == CHOOSE d \in edges : d[3] = j
               m      == <<c, d[1]>>
               number == IF ExchangesAll(r, l[1]) THEN Len(recvIndex[r][m]) ELSE recvNumber[r][m]
               buffer == recvBuffer'[r][m]
    <3>1. d \in edges /\ d[3] = j
      BY <2>1
    <3>2. copy[j] = Read(buffer, number, d[2])
      BY <1>4, <2>1 DEF CopyEdgeNodes
    <3> HIDE DEF d
    <3>3. m \in LayersOf(s, r) /\ m[1] = c /\ d[2] \in 1 .. Len(RecvList(s, r, m)) /\ RecvList(s, r, m)[d[2]] = x
      BY <1>3, <1>6, <3>1 DEF EdgesAre
    <3> HIDE DEF m
    <3>4. number = RecvLength(s, r, m, e) /\ d[2] \in 1 .. number
      <4> DEFINE i == d[2]
      <4>1. i \in 1 .. Len(RecvList(s, r, m)) /\ RecvList(s, r, m)[i] = SendList(s, r, l)[j] /\ m[1] < l[1]
        BY <1>6, <3>3
      <4>2. j \in 1 .. Count(s, r, l, e)
        BY <1>6
      <4> HIDE DEF i
      <4>3. ASSUME NEW k, k = number PROVE k = RecvLength(s, r, m, e) /\ i \in 1 .. k
        BY SMTT(30), <3>3, <4>1, <4>2, <4>3, NumberKnown
      <4> HIDE DEF number
      <4> QED
        BY <4>3 DEF i
    <3>5. RightReceived(s, r, m, e, buffer)
      BY <3>3
    <3>6. Len(buffer) = number /\ d[2] <= number
      BY <3>4, <3>5 DEF RightReceived, Right
    <3>7. copy[j] = buffer[d[2]]
      BY <3>2, <3>6 DEF Read
    <3>8. /\ buffer[d[2]] \in {In(s, r, x, e - 1), In(s, r, x, e)}
          /\ Settled(s, x, c + 1) => buffer[d[2]] = In(s, r, x, e)
      BY <3>3, <3>4, <3>5 DEF RightReceived, Right
    <3> QED
      BY <3>7, <3>8
  <2>2. CASE ~\E d \in edges : d[3] = j
    <3>1. copy[j] = layer[j]
      BY <1>4, <2>2 DEF CopyEdgeNodes
    <3>2. x \in Nodes[s][r] /\ j \in 1 .. Len(SendList(s, r, l))
      BY <1>6, SentNode
    <3>3. Inside(s, x, c)
      <4>1. SUFFICES ASSUME ~Inside(s, x, c) PROVE FALSE
        OBVIOUS
      <4>2. PICK m \in LayersOf(s, r) : m[1] = c /\ x \in RecvNodes(s, r, m)
        BY <3>2, <4>1, OutsideReceived
      <4>3. Enumerates(RecvList(s, r, m), RecvNodes(s, r, m))
        BY FrontIsReceived
      <4>4. PICK i \in 1 .. Len(RecvList(s, r, m)) : RecvList(s, r, m)[i] = x
        BY <4>2, <4>3 DEF Enumerates
      <4> QED
        BY <1>3, <1>6, <2>2, <3>2, <4>2, <4>4 DEF EdgesAre
    <3>4. Settled(s, x, c + 1) => Settled(s, x, c)
      BY <3>3, SettledFrom
    <3>5. /\ layer[j] \in {In(s, r, x, e - 1), In(s, r, x, e)}
          /\ Settled(s, x, c) => layer[j] = In(s, r, x, e)
      BY <1>5, <1>6 DEF Right
    <3> QED
      BY <3>1, <3>4, <3>5
  <2> QED
    BY <2>1, <2>2
<1> HIDE DEF copy, n
<1>7. Right(s, r, c, e, SendList(s, r, l), n, copy)
  BY <1>2, <1>6 DEF Right
<1> QED
  BY <1>7 DEF n, copy

\* With streams what is sent on an axis has been patched on all axes before.
LEMMA PatchedRight ==
  ASSUME NEW s \in Setups, setup = s, s.useStreams, Patched(s), NEW r \in Processes(s), KnownLists(s, r),
         NEW l \in LayersOf(s, r), NEW e \in Nat, (Refined(s) /\ e % 2 = 0) <=> afterFtoC'[r],
         NEW layer, Old(s, r, l, e, layer),
         \A m \in LayersOf(s, r) : m[1] < l[1] => RightReceived(s, r, m, e, recvBuffer'[r][m])
  PROVE  RightSent(s, r, l, e, WithEdgeNodes(r, l, layer))
<1> DEFINE R(c, v) == Right(s, r, c, e, SendList(s, r, l), Count(s, r, l, e), v)
           one == CopyEdgeNodes(r, 1, l, layer)
           two == CopyEdgeNodes(r, 2, l, one)
           v   == WithEdgeNodes(r, l, layer)
<1>1. R(0, layer)
  BY OldIsRight
<1>2. l[1] \in {1, 2, 3} /\ 1 - 1 = 0 /\ 2 - 1 = 1 /\ 3 - 1 = 2 /\ 1 \in Axes /\ 2 \in Axes /\ 3 \in Axes
  BY OtherSide DEF Axes
<1>3. v = CASE l[1] = 1 -> layer [] l[1] = 2 -> one [] l[1] = 3 -> two
  BY DEF WithEdgeNodes
<1>4. ASSUME 1 < l[1] PROVE R(1, one)
  <2>1. \A m \in LayersOf(s, r) : m[1] = 1 => RightReceived(s, r, m, e, recvBuffer'[r][m])
    BY <1>4
  <2>2. Right(s, r, 1 - 1, e, SendList(s, r, l), Count(s, r, l, e), layer)
    BY <1>1, <1>2
  <2> QED
    BY <1>2, <1>4, <2>1, <2>2, CopyRight
<1>5. ASSUME 2 < l[1] PROVE R(2, two)
  <2>1. \A m \in LayersOf(s, r) : m[1] = 2 => RightReceived(s, r, m, e, recvBuffer'[r][m])
    BY <1>5
  <2>2. Right(s, r, 2 - 1, e, SendList(s, r, l), Count(s, r, l, e), one)
    BY <1>2, <1>4, <1>5
  <2> HIDE DEF one
  <2> QED
    BY <1>2, <1>5, <2>1, <2>2, CopyRight
<1> HIDE DEF one, two
<1>6. l[1] \in Axes /\ R(l[1] - 1, v)
  <2>1. CASE l[1] = 1
    <3>1. v = layer
      BY <1>3, <2>1
    <3> QED
      BY <1>1, <1>2, <2>1, <3>1
  <2>2. CASE l[1] = 2
    <3>1. v = one
      BY <1>3, <2>2
    <3> QED
      BY <1>2, <1>4, <2>2, <3>1
  <2>3. CASE l[1] = 3
    <3>1. v = two
      BY <1>3, <2>3
    <3> QED
      BY <1>2, <1>5, <2>3, <3>1
  <2> QED
    BY <1>2, <2>1, <2>2, <2>3
<1>7. \A j \in 1 .. Count(s, r, l, e) : Inside(s, SendList(s, r, l)[j], l[1])
  BY SentNode
<1>8. Count(s, r, l, e) \in Nat
  BY CountsAgree
<1> HIDE DEF v
<1>9. R(l[1], v)
  BY <1>6, <1>7, <1>8, RightOnward
<1> QED
  BY <1>9 DEF RightSent, v

-----------------------------------------------------------------------------
(* An exchange begins, and goes on to the next axis *)

\* A layer keeps its length when edge nodes are copied into it.
LEMMA WithLength ==
  ASSUME NEW s \in Setups, NEW r \in Processes(s), NEW l \in LayersOf(s, r), NEW layer, IsList(layer)
  PROVE  Len(WithEdgeNodes(r, l, layer)) = Len(layer)
<1>1. l[1] \in {1, 2, 3}
  BY OtherSide DEF Axes
<1> DEFINE one == CopyEdgeNodes(r, 1, l, layer)
<1>2. IsList(one) /\ Len(one) = Len(layer)
  BY CopiedLists
<1> HIDE DEF one
<1>3. Len(CopyEdgeNodes(r, 2, l, one)) = Len(layer)
  BY <1>2, CopiedLists
<1> QED
  BY <1>1, <1>2, <1>3 DEF WithEdgeNodes, one

\* Nothing changes for a process that does not take the step.
LEMMA SameHost ==
  ASSUME NEW s, NEW q, step'[q] = step[q], afterFtoC'[q] = afterFtoC[q], axis'[q] = axis[q],
         ghost'[q] = ghost[q], sendBuffer'[q] = sendBuffer[q], recvBuffer'[q] = recvBuffer[q], HostIs(s, q)
  PROVE  HostIs(s, q)'
<1>1. Exchange(s, q)' = Exchange(s, q)
  BY DEF Exchange, Refined
<1> QED
  BY SMTT(30), <1>1 DEF HostIs, SendRight, RecvRight, GhostRight, RightSent, RightReceived, Right, Old, Contents, Carried, Patched

\* The preparation of an axis leaves a process with the right values.
LEMMA PreparedHost ==
  ASSUME NEW s \in Setups, TypeInv(s), TypeInv(s)', ListsAre(s), NEW r \in Processes(s), Started(s, r),
         NEW a \in 0 .. 3, NEW b, FollowingIs(s, r, a, b), Preparing(s, r, b), UNCHANGED startVars,
         NEW e, e = Exchange(s, r)',
         axis[r] = 4 \/ (axis[r] = a /\ a # 0 /\ SendRight(s, r, e, a, sendBuffer[r])),
         Contents(s) => GhostRight(s, r, e, b, ghost'[r]),
         s.useStreams /\ Contents(s) => RecvRight(s, r, e, b, recvBuffer'[r])
  PROVE  HostIs(s, r)'
<1>1. e \in Nat /\ setup' = s /\ setup = s /\ ((Refined(s) /\ e % 2 = 0) <=> afterFtoC'[r])
  BY NextExchange
<1>2. axis'[r] = b /\ b \in 1 .. 4 /\ b > a
  <2>1. axis'[r] = b
    <3>1. DOMAIN axis = Processes(s)
      BY DEF TypeInv, Typed
    <3> QED
      BY <3>1 DEF Preparing, Updated
  <2> QED
    BY <2>1 DEF FollowingIs
<1>3. KnownLists(s, r)
  BY ListsKnown DEF KnownLists
<1>4. ASSUME NEW l \in LayersOf(s, r)
      PROVE  /\ IsList(Collected(r, l)) /\ Len(Collected(r, l)) = Count(s, r, l, e)
             /\ \A j \in 1 .. Count(s, r, l, e) :
                  Collected(r, l)[j] = IF IsGhost(s, SendList(s, r, l)[j]) THEN ghost'[r][SendList(s, r, l)[j]]
                                       ELSE In(s, r, SendList(s, r, l)[j], e)
  <2>1. sendIndex' = sendIndex
    BY DEF startVars
  <2> QED
    BY <2>1, CollectedIs
<1>5. ASSUME b # 4, NEW l \in LayersOf(s, r), l[1] = b \/ (s.useStreams /\ l[1] > b)
      PROVE  /\ IsList(Base(r, b, l)) /\ Len(Base(r, b, l)) = Count(s, r, l, e)
             /\ Contents(s) /\ s.useStreams => Old(s, r, l, e, Base(r, b, l))
             /\ Contents(s) /\ ~s.useStreams => RightSent(s, r, l, e, Base(r, b, l))
  <2>1. CASE ~s.useStreams
    <3>1. l[1] = b /\ Base(r, b, l) = Collected(r, l)
      BY <1>1, <1>5, <2>1 DEF Base
    <3>2. Contents(s) => GhostRight(s, r, e, l[1], ghost'[r])
      BY <3>1
    <3> DEFINE v == Collected(r, l)
    <3>3. /\ IsList(v) /\ Len(v) = Count(s, r, l, e)
          /\ \A j \in 1 .. Count(s, r, l, e) :
                  v[j] = IF IsGhost(s, SendList(s, r, l)[j]) THEN ghost'[r][SendList(s, r, l)[j]]
                         ELSE In(s, r, SendList(s, r, l)[j], e)
      BY <1>4
    <3> HIDE DEF v
    <3>4. Contents(s) => RightSent(s, r, l, e, v)
      BY <1>1, <2>1, <3>2, <3>3, CollectedRight
    <3> QED
      BY <2>1, <3>1, <3>3, <3>4 DEF v
  <2>2. CASE s.useStreams /\ axis[r] = 4
    <3>1. Base(r, b, l) = Collected(r, l)
      BY <1>1, <2>2 DEF Base
    <3> DEFINE v == Collected(r, l)
    <3>3. /\ IsList(v) /\ Len(v) = Count(s, r, l, e)
          /\ \A j \in 1 .. Count(s, r, l, e) :
                  v[j] = IF IsGhost(s, SendList(s, r, l)[j]) THEN ghost'[r][SendList(s, r, l)[j]]
                         ELSE In(s, r, SendList(s, r, l)[j], e)
      BY <1>4
    <3> HIDE DEF v
    <3>4. Contents(s) => Old(s, r, l, e, v)
      BY <1>1, <1>5, <2>2, <3>3, CollectedOld
    <3> QED
      BY <2>2, <3>1, <3>3, <3>4 DEF v
  <2>3. CASE s.useStreams /\ axis[r] # 4
    <3>1. axis[r] = a /\ a \in Axes /\ SendRight(s, r, e, a, sendBuffer[r])
      BY <2>3 DEF Axes
    <3>2. DOMAIN sendBuffer[r] = LayersOf(s, r) /\ IsList(sendBuffer[r][l])
      BY <3>1 DEF TypeInv, Buffers
    <3>3. Base(r, b, l) = sendBuffer[r][l]
      BY <1>1, <2>3, <3>2 DEF Base
    <3>4. l[1] > a
      <4>1. l[1] \in 1 .. 3
        BY OtherSide DEF Axes
      <4> QED
        BY <1>2, <1>5, <4>1
    <3>5. Len(sendBuffer[r][l]) = Count(s, r, l, e) /\ (Contents(s) => Old(s, r, l, e, sendBuffer[r][l]))
      BY <2>3, <3>1, <3>4 DEF SendRight
    <3> QED
      BY <2>3, <3>2, <3>3, <3>5
  <2> QED
    BY <2>1, <2>2, <2>3
<1>6. ASSUME b # 4 PROVE SendRight(s, r, e, b, sendBuffer'[r])
  <2>1. ASSUME NEW l \in LayersOf(s, r), l[1] = b \/ (s.useStreams /\ l[1] > b)
        PROVE  /\ Len(sendBuffer'[r][l]) = Count(s, r, l, e)
               /\ Contents(s) => /\ l[1] = b => RightSent(s, r, l, e, sendBuffer'[r][l])
                                 /\ s.useStreams /\ l[1] > b => Old(s, r, l, e, sendBuffer'[r][l])
    <3> DEFINE v == Base(r, b, l)
    <3>1. /\ IsList(v) /\ Len(v) = Count(s, r, l, e)
          /\ Contents(s) /\ s.useStreams => Old(s, r, l, e, v)
          /\ Contents(s) /\ ~s.useStreams => RightSent(s, r, l, e, v)
      BY <1>5, <1>6, <2>1
    <3>2. sendBuffer'[r][l] = IF s.useStreams /\ l[1] = b THEN WithEdgeNodes(r, l, v) ELSE v
      BY DEF Preparing
    <3> HIDE DEF v
    <3>3. CASE s.useStreams /\ l[1] = b
      <4>1. sendBuffer'[r][l] = WithEdgeNodes(r, l, v)
        BY <3>2, <3>3
      <4>2. Len(sendBuffer'[r][l]) = Count(s, r, l, e)
        BY <3>1, <4>1, WithLength
      <4>3. ASSUME Contents(s) PROVE RightSent(s, r, l, e, sendBuffer'[r][l])
        <5>1. \A m \in LayersOf(s, r) : m[1] < l[1] => RightReceived(s, r, m, e, recvBuffer'[r][m])
          BY <3>3, <4>3 DEF RecvRight
        <5>2. Patched(s) /\ s.useStreams /\ Old(s, r, l, e, v)
          BY <3>1, <3>3, <4>3 DEF Contents
        <5>3. RightSent(s, r, l, e, WithEdgeNodes(r, l, v))
          BY <1>1, <1>3, <5>1, <5>2, PatchedRight
        <5> QED
          BY <4>1, <5>3
      <4>4. ~(l[1] > b)
        BY <1>2, <3>3
      <4> QED
        BY <4>2, <4>3, <4>4
    <3>4. CASE ~(s.useStreams /\ l[1] = b)
      <4>1. sendBuffer'[r][l] = v
        BY <3>2, <3>4
      <4>2. l[1] = b => ~s.useStreams
        BY <3>4
      <4> QED
        BY <3>1, <4>1, <4>2
    <3> QED
      BY <3>3, <3>4
  <2>2. ASSUME NEW l \in LayersOf(s, r), ~(l[1] = b \/ (s.useStreams /\ l[1] > b))
        PROVE  ~(l[1] = b) /\ ~(s.useStreams /\ l[1] > b)
    BY <2>2
  <2> QED
    BY <2>1, <2>2 DEF SendRight
<1>7. /\ axis'[r] # 4 => SendRight(s, r, e, axis'[r], sendBuffer'[r])
      /\ axis'[r] # 4 /\ s.useStreams /\ Contents(s) => RecvRight(s, r, e, axis'[r], recvBuffer'[r])
      /\ Contents(s) => GhostRight(s, r, e, axis'[r], ghost'[r])
  BY <1>2, <1>6
<1> QED
  BY ZenonT(30), <1>7 DEF HostIs, SendRight, RecvRight, GhostRight, RightSent, RightReceived, Right, Old, Contents, Carried, Patched

\* The beginning of an exchange leaves the processes with the right values.
LEMMA BeginHost ==
  ASSUME NEW s \in Setups, TypeInv(s), TypeInv(s)', ListsAre(s), HostsAre(s), NEW r \in Processes(s), Beginning(s, r)
  PROVE  HostsAre(s)'
<1> DEFINE b == Following(r, 0)
           e == Exchange(s, r)
<1>1. Started(s, r) /\ axis[r] = 4 /\ Preparing(s, r, b) /\ UNCHANGED startVars /\ ghost' = ghost /\ recvBuffer' = recvBuffer
      /\ Exchange(s, r)' = e + 1
  BY DEF Beginning
<1>2. setup = s
  BY DEF TypeInv
<1>3. FollowingIs(s, r, 0, b)
  BY <1>2, FollowingAxis
<1>4. e \in Nat
  BY ExchangeType
<1> HIDE DEF b
<1> DEFINE f == e + 1
<1>a. f - 1 = e
  BY <1>4
<1> HIDE DEF f
<1>5. Contents(s) => GhostRight(s, r, f, b, ghost'[r])
  <2>1. SUFFICES ASSUME Contents(s), NEW x \in GhostNode[s][r]
                 PROVE  /\ b # 4 /\ ~Settled(s, x, b)
                        /\ ghost[r][x] = In(s, r, x, e)
    <3>2. ASSUME Contents(s), NEW x \in GhostNode[s][r]
          PROVE  IF s.useStreams THEN ghost[r][x] = In(s, r, x, IF b = 4 THEN f ELSE f - 1)
                 ELSE /\ ghost[r][x] \in {In(s, r, x, f - 1), In(s, r, x, f)}
                      /\ Settled(s, x, b) => ghost[r][x] = In(s, r, x, f)
      BY <1>a, <2>1, <3>2
    <3>3. ASSUME Contents(s) PROVE GhostRight(s, r, f, b, ghost[r])
      BY <3>2, <3>3 DEF GhostRight
    <3>4. ghost'[r] = ghost[r]
      BY <1>1
    <3> QED
      BY <3>3, <3>4
  <2>2. GhostRight(s, r, e, 4, ghost[r])
    BY <1>1, <2>1 DEF HostsAre, HostIs
  <2>3. ghost[r][x] = In(s, r, x, e)
    BY <2>2, SettledFrom DEF GhostRight, Axes
  <2>4. x \in Nodes[s][r] /\ IsGhost(s, x)
    BY DEF GhostNode
  <2>5. ~Settled(s, x, 1)
    BY <2>4 DEF IsGhost, Settled, Axes
  <2>6. Settled(s, x, b) => Settled(s, x, 0 + 1)
    BY <1>3, <2>4, NothingOutside
  <2>7. 0 + 1 = 1
    OBVIOUS
  <2>8. ~Settled(s, x, b)
    BY <2>5, <2>6, <2>7
  <2>9. Settled(s, x, 4)
    BY SettledFrom DEF Axes
  <2> QED
    BY <2>3, <2>8, <2>9
<1>6. RecvRight(s, r, f, b, recvBuffer'[r])
  <2>1. \A l \in LayersOf(s, r) : ~(l[1] < b)
    <3> TAKE l \in LayersOf(s, r)
    <3>1. l[1] <= 0 \/ l[1] >= b
      BY <1>3 DEF FollowingIs
    <3>2. l[1] \in 1 .. 3 /\ b \in 1 .. 4
      BY <1>3, OtherSide DEF Axes, FollowingIs
    <3> QED
      BY <3>1, <3>2
  <2> QED
    BY <2>1 DEF RecvRight
<1>b. f = Exchange(s, r)'
  BY <1>1 DEF f
<1> HIDE DEF e
<1>7. HostIs(s, r)'
  <2>3. 0 \in 0 .. 3
    OBVIOUS
  <2> QED
    BY <1>1, <1>3, <1>5, <1>6, <1>b, <2>3, PreparedHost
<1>8. ASSUME NEW q \in Processes(s), q # r PROVE HostIs(s, q)'
  <2>1. step'[q] = step[q] /\ afterFtoC'[q] = afterFtoC[q]
    BY <1>8 DEF Beginning
  <2>2. q \in DOMAIN axis /\ q \in DOMAIN sendBuffer
    BY DEF TypeInv, Typed
  <2>3. axis'[q] = axis[q] /\ sendBuffer'[q] = sendBuffer[q]
    BY <1>1, <1>8, <2>2 DEF Preparing, Updated
  <2>4. HostIs(s, q)
    BY DEF HostsAre
  <2> QED
    BY <1>1, <2>1, <2>3, <2>4, SameHost
<1> QED
  BY <1>7, <1>8 DEF HostsAre

-----------------------------------------------------------------------------
(* A process receives the layers of an axis *)

\* Whether a node is received on a layer.
Hit(s, r, l, e, x) == \E j \in 1 .. RecvLength(s, r, l, e) : RecvList(s, r, l)[j] = x

\* A ghost node is left alone, or gets what was received last for it.
LEMMA ScatterIs ==
  ASSUME NEW s \in Setups, TypeInv(s), ListsAre(s), NEW r \in Processes(s), Started(s, r),
         NEW layers, layers \subseteq LayersOf(s, r), NEW x \in GhostNode[s][r],
         NEW e, e = Exchange(s, r), NEW v, v = Scattered(r, layers)[x]
  PROVE  \/ v = ghost[r][x] /\ \A l \in layers : ~Hit(s, r, l, e, x)
         \/ \E l \in layers : \E j \in 1 .. RecvLength(s, r, l, e) :
              /\ RecvList(s, r, l)[j] = x /\ v = recvBuffer'[r][l][j]
              /\ \A m \in layers : Hit(s, r, m, e, x) => m[1] <= l[1]
<1> DEFINE At(l) == { j \in 1 .. RecvLength(s, r, l, e) : RecvList(s, r, l)[j] = x }
           hits  == { l \in layers : At(l) # {} }
           last  == CHOOSE l \in hits : \A m \in hits : m[1] <= l[1]
<1>1. setup = s
  BY DEF TypeInv
<1>2. \A l \in layers : RecvCount(r, l) = RecvLength(s, r, l, e) /\ recvIndex[r][l] = RecvList(s, r, l)
  BY ListsKnown, RecvCountIs
<1>3. \A l \in layers : { j \in 1 .. RecvCount(r, l) : recvIndex[r][l][j] = x } = At(l)
  BY <1>2
<1>4. v = IF hits = {} THEN ghost[r][x] ELSE recvBuffer'[r][last][CHOOSE j \in At(last) : TRUE]
  <2> DEFINE At0(y, l) == { j \in 1 .. RecvCount(r, l) : recvIndex[r][l][j] = y }
             hits0 == { l \in layers : At0(x, l) # {} }
             last0 == CHOOSE l \in hits0 : \A m \in hits0 : m[1] <= l[1]
  <2>1. v = IF hits0 = {} THEN ghost[r][x] ELSE recvBuffer'[r][last0][CHOOSE j \in At0(x, last0) : TRUE]
    BY Zenon, <1>1 DEF Scattered, GhostNodes
  <2>2. \A l \in layers : At0(x, l) = At(l)
    BY <1>3
  <2> HIDE DEF At0, At
  <2>3. hits0 = hits
    BY <2>2
  <2>4. last0 = last
    BY <2>3
  <2>5. ASSUME hits # {} PROVE last \in layers
    <3>1. \A l \in hits : l \in layers
      OBVIOUS
    <3>2. \E l \in hits : \A m \in hits : m[1] <= l[1]
      <4>1. \A l \in hits : l[1] \in 1 .. 3
        BY <3>1, OtherSide DEF Axes
      <4> HIDE DEF hits
      <4>2. CASE \E l \in hits : l[1] = 3
        BY <4>1, <4>2
      <4>3. CASE ~(\E l \in hits : l[1] = 3) /\ \E l \in hits : l[1] = 2
        BY <4>1, <4>3
      <4>4. CASE ~(\E l \in hits : l[1] = 3) /\ ~\E l \in hits : l[1] = 2
        BY <2>5, <4>1, <4>4
      <4> QED
        BY <4>2, <4>3, <4>4
    <3>3. last \in hits
      BY <3>2
    <3> QED
      BY <3>1, <3>3
  <2> HIDE DEF hits, hits0, last, last0
  <2>6. CASE hits = {}
    BY <2>1, <2>3, <2>6
  <2>7. CASE hits # {}
    <3>1. At0(x, last0) = At(last)
      BY <2>2, <2>4, <2>5, <2>7
    <3> QED
      BY <2>1, <2>3, <2>4, <2>7, <3>1
  <2> QED
    BY Zenon, <2>6, <2>7
<1>5. \A l \in layers : At(l) # {} <=> Hit(s, r, l, e, x)
  BY DEF Hit
<1>6. CASE hits = {}
  <2>1. \A l \in layers : ~Hit(s, r, l, e, x)
    BY <1>5, <1>6
  <2>2. v = ghost[r][x]
    BY <1>4, <1>6
  <2> QED
    BY <2>1, <2>2
<1>7. CASE hits # {}
  <2>1. \A l \in hits : l \in layers /\ l[1] \in 1 .. 3
    BY OtherSide DEF Axes
  <2> HIDE DEF At, hits
  <2>2. \E l \in hits : \A m \in hits : m[1] <= l[1]
    <3>2. CASE \E l \in hits : l[1] = 3
      BY <2>1, <3>2
    <3>3. CASE ~(\E l \in hits : l[1] = 3) /\ \E l \in hits : l[1] = 2
      BY <2>1, <3>3
    <3>4. CASE ~(\E l \in hits : l[1] = 3) /\ ~\E l \in hits : l[1] = 2
      BY <1>7, <2>1, <3>4
    <3> QED
      BY <3>2, <3>3, <3>4
  <2>3. last \in hits /\ \A m \in hits : m[1] <= last[1]
    BY <2>2
  <2>4. v = recvBuffer'[r][last][CHOOSE j \in At(last) : TRUE]
    BY <1>4, <1>7
  <2> HIDE DEF last
  <2>5. At(last) # {} /\ last \in layers
    BY <2>3 DEF hits
  <2>6. (CHOOSE j \in At(last) : TRUE) \in At(last)
    BY <2>5
  <2> DEFINE j == CHOOSE j \in At(last) : TRUE
  <2>7. j \in 1 .. RecvLength(s, r, last, e) /\ RecvList(s, r, last)[j] = x
    BY <2>6 DEF At
  <2>8. \A m \in layers : Hit(s, r, m, e, x) => m[1] <= last[1]
    BY <1>5, <2>3 DEF hits
  <2> HIDE DEF j
  <2>9. v = recvBuffer'[r][last][j]
    BY <2>4 DEF j
  <2> QED
    BY <2>5, <2>7, <2>8, <2>9
<1> QED
  BY <1>6, <1>7

\* What a ghost node holds when the layers of an axis have been received.
LEMMA ScatterRight ==
  ASSUME NEW s \in Setups, TypeInv(s), ListsAre(s), NEW r \in Processes(s), Started(s, r), Contents(s),
         NEW a \in Axes, NEW b, FollowingIs(s, r, a, b), NEW e, e = Exchange(s, r), GhostRight(s, r, e, a, ghost[r]),
         NEW g, g = Scattered(r, IF ~s.useStreams THEN { l \in LayersOf(s, r) : l[1] = a }
                                 ELSE IF b = 4 THEN LayersOf(s, r) ELSE {}),
         \A l \in LayersOf(s, r) : l[1] = a \/ (s.useStreams /\ l[1] < a) => RightReceived(s, r, l, e, recvBuffer'[r][l])
  PROVE  GhostRight(s, r, e, b, g)
<1> DEFINE layers == IF ~s.useStreams THEN { l \in LayersOf(s, r) : l[1] = a }
                     ELSE IF b = 4 THEN LayersOf(s, r) ELSE {}
<1>1. layers \subseteq LayersOf(s, r) /\ g = Scattered(r, layers)
  OBVIOUS
<1>2. e \in Nat /\ Carried(s)
  BY ExchangeType DEF Contents
<1>3. ASSUME NEW x \in GhostNode[s][r]
      PROVE  \/ g[x] = ghost[r][x] /\ \A l \in layers : ~Hit(s, r, l, e, x)
             \/ \E l \in layers : \E j \in 1 .. RecvLength(s, r, l, e) :
                  /\ RecvList(s, r, l)[j] = x /\ g[x] = recvBuffer'[r][l][j]
                  /\ \A m \in layers : Hit(s, r, m, e, x) => m[1] <= l[1]
  <2> HIDE DEF layers
  <2> DEFINE v == g[x]
  <2>1. v = Scattered(r, layers)[x]
    BY <1>1
  <2> HIDE DEF v
  <2>2. \/ v = ghost[r][x] /\ \A l \in layers : ~Hit(s, r, l, e, x)
        \/ \E l \in layers : \E j \in 1 .. RecvLength(s, r, l, e) :
             /\ RecvList(s, r, l)[j] = x /\ v = recvBuffer'[r][l][j]
             /\ \A m \in layers : Hit(s, r, m, e, x) => m[1] <= l[1]
    BY <1>1, <2>1, ScatterIs
  <2> QED
    BY ONLY <2>2 DEF v
<1>4. ASSUME NEW l \in LayersOf(s, r), RightReceived(s, r, l, e, recvBuffer'[r][l]),
             NEW j \in 1 .. RecvLength(s, r, l, e), NEW x, RecvList(s, r, l)[j] = x
      PROVE  /\ recvBuffer'[r][l][j] \in {In(s, r, x, e - 1), In(s, r, x, e)}
             /\ Settled(s, x, l[1] + 1) => recvBuffer'[r][l][j] = In(s, r, x, e)
             /\ ~Inside(s, x, l[1])
  <2>1. x \in RecvNodes(s, r, l)
    <3>1. RecvList(s, r, l) \in Seq(RecvNodes(s, r, l))
      BY FrontIsReceived DEF Enumerates, Injects
    <3>2. RecvLength(s, r, l, e) \in 0 .. Len(RecvList(s, r, l)) /\ Len(RecvList(s, r, l)) \in Nat
      BY <1>2, CountsAgree
    <3>3. j \in 1 .. Len(RecvList(s, r, l))
      BY <3>2
    <3> QED
      BY <1>4, <3>1, <3>3
  <2>2. ~Inside(s, x, l[1])
    BY <2>1, NodesOfLayers
  <2> QED
    BY <1>4, <2>2 DEF RightReceived, Right
<1>5. ASSUME NEW x \in GhostNode[s][r], NEW h \in Axes, ~Inside(s, x, h), Settled(s, x, h + 1),
             \A l \in LayersOf(s, r) : l[1] = h => ~Hit(s, r, l, e, x)
      PROVE  In(s, r, x, e - 1) = In(s, r, x, e)
  <2>1. x \in Nodes[s][r]
    BY DEF GhostNode
  <2>2. PICK l \in LayersOf(s, r) : l[1] = h /\ x \in RecvNodes(s, r, l)
    BY <1>5, <2>1, OutsideReceived
  <2>3. \A j \in 1 .. RecvLength(s, r, l, e) : RecvList(s, r, l)[j] # x
    BY <1>5, <2>2 DEF Hit
  <2> QED
    BY <1>2, <1>5, <2>2, <2>3, NotReceived
<1>6. ASSUME ~s.useStreams, NEW x \in GhostNode[s][r]
      PROVE  /\ g[x] \in {In(s, r, x, e - 1), In(s, r, x, e)}
             /\ Settled(s, x, b) => g[x] = In(s, r, x, e)
  <2>1. layers = { l \in LayersOf(s, r) : l[1] = a }
    BY <1>6
  <2>2. x \in Nodes[s][r] /\ a \in 0 .. 3
    BY DEF GhostNode, Axes
  <2>3. Settled(s, x, b) => Settled(s, x, a + 1)
    BY <2>2, NothingOutside
  <2>4. /\ ghost[r][x] \in {In(s, r, x, e - 1), In(s, r, x, e)}
        /\ Settled(s, x, a) => ghost[r][x] = In(s, r, x, e)
    BY <1>6 DEF GhostRight
  <2>5. CASE g[x] = ghost[r][x] /\ \A l \in layers : ~Hit(s, r, l, e, x)
    <3>1. ASSUME Settled(s, x, b) PROVE g[x] = In(s, r, x, e)
      <4>1. Settled(s, x, a + 1)
        BY <2>3, <3>1
      <4>2. CASE Inside(s, x, a)
        <5>1. Settled(s, x, a)
          BY <4>1, <4>2, SettledFrom
        <5> QED
          BY <2>4, <2>5, <5>1
      <4>3. CASE ~Inside(s, x, a)
        <5>1. In(s, r, x, e - 1) = In(s, r, x, e)
          BY <1>5, <2>1, <2>5, <4>1, <4>3
        <5> QED
          BY <2>4, <2>5, <5>1
      <4> QED
        BY <4>2, <4>3
    <3> QED
      BY <2>4, <2>5, <3>1
  <2>6. CASE \E l \in layers : \E j \in 1 .. RecvLength(s, r, l, e) :
                  /\ RecvList(s, r, l)[j] = x /\ g[x] = recvBuffer'[r][l][j]
                  /\ \A m \in layers : Hit(s, r, m, e, x) => m[1] <= l[1]
    <3>1. PICK l \in layers : \E j \in 1 .. RecvLength(s, r, l, e) : RecvList(s, r, l)[j] = x /\ g[x] = recvBuffer'[r][l][j]
      BY <2>6
    <3>2. PICK j \in 1 .. RecvLength(s, r, l, e) : RecvList(s, r, l)[j] = x /\ g[x] = recvBuffer'[r][l][j]
      BY <3>1
    <3>3. l \in LayersOf(s, r) /\ l[1] = a
      BY <2>1
    <3>4. RightReceived(s, r, l, e, recvBuffer'[r][l])
      BY <3>3
    <3> HIDE DEF layers
    <3>5. /\ recvBuffer'[r][l][j] \in {In(s, r, x, e - 1), In(s, r, x, e)}
          /\ Settled(s, x, l[1] + 1) => recvBuffer'[r][l][j] = In(s, r, x, e)
      BY <1>4, <3>2, <3>3, <3>4
    <3> QED
      BY <2>3, <3>2, <3>3, <3>5
  <2> HIDE DEF layers
  <2> QED
    BY <1>3, <2>5, <2>6
<1>7. ASSUME s.useStreams, NEW x \in GhostNode[s][r]
      PROVE  g[x] = In(s, r, x, IF b = 4 THEN e ELSE e - 1)
  <2>1. ghost[r][x] = In(s, r, x, e - 1)
    <3>1. a # 4
      BY DEF Axes
    <3> QED
      BY <1>7, <3>1 DEF GhostRight
  <2>2. CASE b # 4
    <3>1. layers = {}
      BY <1>7, <2>2
    <3> HIDE DEF layers
    <3>2. g[x] = ghost[r][x]
      BY <1>3, <3>1
    <3> QED
      BY <2>1, <2>2, <3>2
  <2>3. CASE b = 4
    <3>1. layers = LayersOf(s, r)
      BY <1>7, <2>3
    <3>2. \A l \in LayersOf(s, r) : RightReceived(s, r, l, e, recvBuffer'[r][l])
      <4> TAKE l \in LayersOf(s, r)
      <4>1. l[1] <= a \/ l[1] >= 4
        BY <2>3 DEF FollowingIs
      <4>2. l[1] \in 1 .. 3
        BY OtherSide DEF Axes
      <4>3. l[1] = a \/ l[1] < a
        BY <4>1, <4>2 DEF Axes
      <4> QED
        BY <1>7, <4>3
    <3> HIDE DEF layers
    <3>3. PICK h \in Axes : ~Inside(s, x, h) /\ Settled(s, x, h + 1)
      <4>1. ~Inside(s, x, 1) \/ ~Inside(s, x, 2) \/ ~Inside(s, x, 3)
        BY DEF GhostNode, IsGhost, Inside, Axes
      <4>2. 1 \in Axes /\ 2 \in Axes /\ 3 \in Axes /\ 1 + 1 = 2 /\ 2 + 1 = 3 /\ 3 + 1 = 4
        BY DEF Axes
      <4>3. Settled(s, x, 4)
        BY SettledFrom DEF Axes
      <4>4. /\ Settled(s, x, 3) <=> Inside(s, x, 3)
            /\ Settled(s, x, 2) <=> Inside(s, x, 2) /\ Settled(s, x, 3)
        BY <4>2, <4>3, SettledFrom
      <4>5. CASE ~Inside(s, x, 3)
        BY <4>2, <4>3, <4>5
      <4>6. CASE Inside(s, x, 3) /\ ~Inside(s, x, 2)
        BY <4>2, <4>4, <4>6
      <4>7. CASE Inside(s, x, 3) /\ Inside(s, x, 2)
        BY <4>1, <4>2, <4>4, <4>7
      <4> QED
        BY <4>5, <4>6, <4>7
    <3>4. CASE g[x] = ghost[r][x] /\ \A l \in layers : ~Hit(s, r, l, e, x)
      <4>1. In(s, r, x, e - 1) = In(s, r, x, e)
        BY <1>5, <3>1, <3>3, <3>4
      <4> QED
        BY <2>1, <2>3, <3>4, <4>1
    <3>5. CASE \E l \in layers : \E j \in 1 .. RecvLength(s, r, l, e) :
                    /\ RecvList(s, r, l)[j] = x /\ g[x] = recvBuffer'[r][l][j]
                    /\ \A m \in layers : Hit(s, r, m, e, x) => m[1] <= l[1]
      <4>1. PICK l \in layers : \E j \in 1 .. RecvLength(s, r, l, e) :
              /\ RecvList(s, r, l)[j] = x /\ g[x] = recvBuffer'[r][l][j]
              /\ \A m \in layers : Hit(s, r, m, e, x) => m[1] <= l[1]
        BY <3>5
      <4>2. PICK j \in 1 .. RecvLength(s, r, l, e) :
              /\ RecvList(s, r, l)[j] = x /\ g[x] = recvBuffer'[r][l][j]
              /\ \A m \in layers : Hit(s, r, m, e, x) => m[1] <= l[1]
        BY <4>1
      <4>3. l \in LayersOf(s, r)
        BY <3>1
      <4>4. /\ recvBuffer'[r][l][j] \in {In(s, r, x, e - 1), In(s, r, x, e)}
            /\ Settled(s, x, l[1] + 1) => recvBuffer'[r][l][j] = In(s, r, x, e)
            /\ ~Inside(s, x, l[1])
        BY <1>4, <3>2, <4>2, <4>3
      <4>5. l[1] \in Axes
        BY <4>3, OtherSide
      <4>6. CASE Settled(s, x, l[1] + 1)
        BY <2>3, <4>2, <4>4, <4>6
      <4>7. CASE ~Settled(s, x, l[1] + 1)
        <5>1. l[1] < h
          <6>1. \A c \in h + 1 .. 3 : Inside(s, x, c)
            BY <3>3 DEF Settled, Inside
          <6>2. l[1] <= h
            BY <4>4, <4>5, <6>1 DEF Axes
          <6>3. l[1] # h
            BY <3>3, <4>7
          <6> QED
            BY <4>5, <6>2, <6>3 DEF Axes
        <5>2. \A m \in LayersOf(s, r) : m[1] = h => ~Hit(s, r, m, e, x)
          BY <3>1, <4>2, <4>5, <5>1 DEF Axes
        <5>3. In(s, r, x, e - 1) = In(s, r, x, e)
          BY <1>5, <3>3, <5>2
        <5> QED
          BY <2>3, <4>2, <4>4, <5>3
      <4> QED
        BY <4>6, <4>7
    <3> QED
      BY <1>3, <3>4, <3>5
  <2> QED
    BY <2>2, <2>3
<1> HIDE DEF layers
<1> QED
  BY <1>6, <1>7 DEF GhostRight

-----------------------------------------------------------------------------
(* The messages that are received on an axis *)

\* How many of the neighbours on an axis are the one behind a layer.
LEMMA PartnerNumber ==
  ASSUME NEW s \in Setups, ToldByParity(s), NEW r \in Processes(s), NEW l \in LayersOf(s, r), NEW a \in Axes,
         NEW at, at = { k \in DOMAIN RankNeighbor[s][r][a] : RankNeighbor[s][r][a][k] = Source(s, r, l) }
  PROVE  Cardinality(at) = IF l[1] # a THEN 0 ELSE IF Twin(s, r, l) THEN 2 ELSE 1
<1> DEFINE list == ProcessNeighbor[s][r][a]
           n    == Len(list)
           p    == Source(s, r, l)
<1>1. DOMAIN RankNeighbor[s][r][a] = 1 .. n
  BY PartnersListed
<1>2. ASSUME NEW k \in 1 .. n, NEW m, m = <<a, list[k]>>
      PROVE  /\ m \in LayersOf(s, r) /\ SideOf(s, r, m) = k /\ m[1] = a
             /\ RankNeighbor[s][r][a][k] = Source(s, r, m)
  BY <1>2, SideLayer
<1>3. \A m \in LayersOf(s, r) : Source(s, r, m) = p => m = l \/ (m = Opposite(l) /\ Twin(s, r, l))
  BY TwinFacts
<1>4. Opposite(l)[1] = l[1] /\ l = <<l[1], l[2]>> /\ Opposite(l) = <<l[1], -l[2]>> /\ Opposite(l) # l
  BY OtherSide
<1>5. CASE l[1] # a
  <2>1. ASSUME NEW k \in at PROVE FALSE
    <3>1. k \in 1 .. n /\ RankNeighbor[s][r][a][k] = p
      BY <1>1
    <3> DEFINE m == <<a, list[k]>>
    <3>2. m \in LayersOf(s, r) /\ m[1] = a /\ Source(s, r, m) = p
      BY <1>2, <3>1
    <3> HIDE DEF m, n
    <3> QED
      BY <1>3, <1>4, <1>5, <3>2
  <2>2. at = {}
    BY <2>1
  <2> QED
    BY <1>5, <2>2, FS_EmptySet
<1>6. CASE l[1] = a
  <2>1. /\ SideOf(s, r, l) \in 1 .. n /\ n \in 1 .. 2
        /\ RankNeighbor[s][r][a][SideOf(s, r, l)] = p
    BY <1>6, SidePlaces
  <2> DEFINE i == SideOf(s, r, l)
  <2>2. CASE Twin(s, r, l)
    <3> DEFINE o == Opposite(l)
               j == SideOf(s, r, o)
    <3>1. o \in LayersOf(s, r) /\ Source(s, r, o) = p /\ o[1] = a
      BY <1>4, <1>6, <2>2 DEF Twin
    <3>2. j \in 1 .. n /\ RankNeighbor[s][r][a][j] = p
      BY <3>1, SidePlaces
    <3>3. i # j
      <4>1. IsFirst(s, r, o) <=> ~IsFirst(s, r, l)
        BY <3>1, OtherIsFirst
      <4> QED
        BY <4>1 DEF SideOf
    <3> HIDE DEF i, j, n, o
    <3>4. i \in at /\ j \in at /\ at \subseteq 1 .. n
      BY <1>1, <2>1, <3>2 DEF i
    <3>5. at = 1 .. 2
      BY <2>1, <3>3, <3>4
    <3>6. Cardinality(1 .. 2) = 2
      <4>1. 1 \in Int /\ 2 \in Int /\ ~(1 > 2) /\ 2 - 1 + 1 = 2
        OBVIOUS
      <4>2. \A m, k \in Int : Cardinality(m .. k) = IF m > k THEN 0 ELSE k - m + 1
        BY FS_Interval
      <4> QED
        BY <4>1, <4>2
    <3> QED
      BY <1>6, <2>2, <3>5, <3>6
  <2>3. CASE ~Twin(s, r, l)
    <3> HIDE DEF i
    <3>1. i \in at
      BY <1>1, <2>1 DEF i
    <3>2. ASSUME NEW k \in at PROVE k = i
      <4>1. k \in 1 .. n /\ RankNeighbor[s][r][a][k] = p
        BY <1>1
      <4> DEFINE m == <<a, list[k]>>
      <4>2. m \in LayersOf(s, r) /\ SideOf(s, r, m) = k /\ Source(s, r, m) = p
        BY <1>2, <4>1
      <4> HIDE DEF m
      <4>3. m = l
        BY <1>3, <2>3, <4>2
      <4> QED
        BY <4>2, <4>3 DEF i
    <3> HIDE DEF n
    <3>3. at = {i}
      BY <3>1, <3>2
    <3> QED
      BY <1>6, <2>3, <3>3, FS_Singleton
  <2> QED
    BY <2>2, <2>3
<1> QED
  BY <1>5, <1>6

\* A neighbour has posted one receive on the axis, two when it is the neighbour on both sides.
LEMMA PostedIs ==
  ASSUME NEW s \in Setups, ToldByParity(s), TypeInv(s), NEW r \in Processes(s), axis[r] \in Axes, NEW l \in LayersOf(s, r)
  PROVE  /\ Posted(r, Source(s, r, l)) = IF l[1] # axis[r] THEN 0 ELSE IF Twin(s, r, l) THEN 2 ELSE 1
         /\ Started(s, r)
<1>1. setup = s /\ Time(s, r)
  BY DEF TypeInv
<1>2. Started(s, r)
  <2>1. axis[r] # 4
    BY DEF Axes
  <2> QED
    BY <1>1, <2>1 DEF Time
<1>3. StartedUp(r) /\ Partners(r, axis[r]) = RankNeighbor[s][r][axis[r]]
  BY <1>1, <1>2, Names
<1> DEFINE at == { k \in DOMAIN RankNeighbor[s][r][axis[r]] : RankNeighbor[s][r][axis[r]][k] = Source(s, r, l) }
<1>4. Posted(r, Source(s, r, l)) = Cardinality(at)
  BY <1>3 DEF Posted
<1> HIDE DEF at
<1>5. Cardinality(at) = IF l[1] # axis[r] THEN 0 ELSE IF Twin(s, r, l) THEN 2 ELSE 1
  BY PartnerNumber DEF at
<1> QED
  BY <1>2, <1>4, <1>5

\* The receive on a layer takes the first message of the neighbour, on the second
\* layer of a pair the second.
LEMMA MessagesAre ==
  ASSUME NEW s \in Setups, ToldByParity(s), TypeInv(s), NEW r \in Processes(s), NEW l \in LayersOf(s, r)
  PROVE  Messages(r, l[1])[l[2]] = channel[Source(s, r, l)][r][IF Twin(s, r, l) /\ ~IsFirst(s, r, l) THEN 2 ELSE 1]
<1> DEFINE a    == l[1]
           list == ProcessNeighbors(r, a)
           partners == Partners(r, a)
           i    == SideOf(s, r, l)
           Turns(k) == Cardinality({ j \in 1 .. k : partners[j] = partners[k] })
           Index(side) == CHOOSE k \in DOMAIN partners : list[k] = side
<1>1. setup = s
  BY DEF TypeInv
<1>2. l \in AllLayers /\ l[1] \in Axes /\ l = <<l[1], l[2]>>
  BY OtherSide
<1>a. list = ProcessNeighbor[s][r][a] /\ partners = RankNeighbor[s][r][a]
  BY <1>1, Names
<1>3. DOMAIN partners = 1 .. Len(list)
  BY <1>2, <1>a, PartnersListed
<1>4. /\ i \in 1 .. Len(list) /\ Len(list) \in 1 .. 2 /\ list[i] = l[2] /\ partners[i] = Source(s, r, l)
      /\ \A k \in 1 .. Len(list) : list[k] = l[2] => k = i
  BY <1>a, SidePlaces
<1>5. l[2] \in Sides(r, a)
  BY <1>1, <1>2, SidesAre
<1>6. Messages(r, a) = [side \in Sides(r, a) |-> channel[partners[Index(side)]][r][Turns(Index(side))]]
  BY DEF Messages
<1> HIDE DEF i, list, partners
<1>7. Index(l[2]) = i
  BY <1>3, <1>4
<1> HIDE DEF Index, Turns
<1>8. Messages(r, a)[l[2]] = channel[partners[i]][r][Turns(i)]
  BY <1>5, <1>6, <1>7
<1>9. Turns(i) = IF Twin(s, r, l) /\ ~IsFirst(s, r, l) THEN 2 ELSE 1
  <2>1. i = IF IsFirst(s, r, l) THEN 1 ELSE 2
    BY DEF SideOf, i
  <2> DEFINE at == { j \in 1 .. i : partners[j] = partners[i] }
  <2>2. CASE IsFirst(s, r, l)
    <3>1. i = 1
      BY <2>1, <2>2
    <3>2. at = {1}
      BY <3>1
    <3> QED
      BY <2>2, <3>2, FS_Singleton DEF Turns
  <2>3. CASE ~IsFirst(s, r, l)
    <3>1. i = 2 /\ Len(list) = 2
      BY <1>4, <2>1, <2>3
    <3>2. at = { k \in DOMAIN partners : partners[k] = Source(s, r, l) }
      BY <1>3, <1>4, <3>1
    <3> HIDE DEF at
    <3>3. Cardinality(at) = IF Twin(s, r, l) THEN 2 ELSE 1
      BY <1>2, <1>a, <3>2, PartnerNumber
    <3> QED
      BY <2>3, <3>3 DEF at, Turns
  <2> QED
    BY <2>2, <2>3
<1> QED
  BY <1>4, <1>8, <1>9

\* What a process has received on a layer of its axis.
LEMMA ReceivedIs ==
  ASSUME NEW s \in Setups, ToldByParity(s), TypeInv(s), ListsAre(s), ChannelsAre(s), NEW r \in Processes(s), axis[r] \in Axes,
         NEW l \in LayersOf(s, r), l[1] = axis[r], NEW e, e = Exchange(s, r),
         Len(channel[Source(s, r, l)][r]) >= IF Twin(s, r, l) THEN 2 ELSE 1
  PROVE  /\ Len(Messages(r, l[1])[l[2]]) = RecvCount(r, l)
         /\ Len(Received(r, l)) = RecvLength(s, r, l, e)
         /\ Contents(s) => RightReceived(s, r, l, e, Received(r, l))
<1> DEFINE p == Source(s, r, l)
           j == IF Twin(s, r, l) /\ ~IsFirst(s, r, l) THEN 2 ELSE 1
           i == GotOn(s, r, l)
           o == IF IsFirst(s, r, l) THEN i ELSE i + 1
           message == channel[p][r][j]
<1>1. Started(s, r)
  BY PostedIs
<1>2. e \in Nat /\ e > 0
  BY CountParts, ExchangeType DEF Axes
<1>3. i \in Nat /\ AllGot(s, r, l) = i + (IF Twin(s, r, l) THEN i ELSE 0) /\ i + 1 = (IF Refined(s) THEN 1 ELSE 0) + e
  <2>1. i \in Nat
    BY CountsType
  <2>2. /\ Opposite(l) \in LayersOf(s, r) => GotOn(s, r, Opposite(l)) = GotOn(s, r, l)
        /\ GotOn(s, r, l) + 1 = (IF Refined(s) THEN 1 ELSE 0) + Exchange(s, r)
    BY CountsOnAxis
  <2>3. Twin(s, r, l) => Opposite(l) \in LayersOf(s, r)
    BY DEF Twin
  <2> QED
    BY <2>1, <2>2, <2>3 DEF AllGot
<1>4. Len(channel[p][r]) \in Nat
  BY ChannelList
<1> HIDE DEF i
<1>5. j \in Nat /\ j > 0 /\ j <= Len(channel[p][r]) /\ AllGot(s, r, l) + j = i + (IF Twin(s, r, l) THEN o ELSE 0) + 1
  BY <1>3, <1>4
<1>6. RightMessage(s, r, l, i + 1, channel[p][r][j])
  <2> HIDE DEF j, o
  <2> QED
    BY <1>5, InChannel DEF i, o
<1> HIDE DEF j
<1>7. IsList(message) /\ Len(message) = RecvLength(s, r, l, e) /\ (Contents(s) => RightReceived(s, r, l, e, message))
  <2>1. ~(Refined(s) /\ i + 1 = 1) /\ e = IF Refined(s) THEN i + 1 - 1 ELSE i + 1
    BY <1>2, <1>3
  <2> DEFINE k == i + 1
             f == IF Refined(s) THEN k - 1 ELSE k
  <2>a. RightMessage(s, r, l, k, message) /\ ~(Refined(s) /\ k = 1)
    BY <1>6, <2>1
  <2> HIDE DEF k, message
  <2>2. /\ IsList(message) /\ Len(message) = RecvLength(s, r, l, f)
        /\ Carried(s) /\ Patched(s) => RightReceived(s, r, l, f, message)
    BY ONLY <2>a DEF RightMessage
  <2>3. f = e
    <3>a. k = i + 1 /\ i \in Nat /\ k = (IF Refined(s) THEN 1 ELSE 0) + e /\ e \in Nat
      BY <1>2, <1>3 DEF k
    <3>1. e = IF Refined(s) THEN k - 1 ELSE k
      BY ONLY <3>a
    <3> QED
      BY ONLY <3>1
  <2> HIDE DEF f
  <2> QED
    BY <2>2, <2>3 DEF Contents
<1>8. Messages(r, l[1])[l[2]] = message
  BY MessagesAre DEF j
<1>9. RecvCount(r, l) = RecvLength(s, r, l, e)
  BY <1>1, RecvCountIs
<1> HIDE DEF message
<1>10. Received(r, l) = message
  BY <1>7, <1>8, <1>9 DEF Received
<1> QED
  BY <1>7, <1>8, <1>9, <1>10

-----------------------------------------------------------------------------
(* The invariant is kept *)

\* A step that leaves the lists alone.
LEMMA SameLayers ==
  ASSUME NEW s, ListsAre(s), UNCHANGED <<sendIndex, recvIndex, sendNumber, recvNumber, turn, told>>
  PROVE  ListsAre(s)'
<1>1. ASSUME NEW r, NEW l PROVE (ToldOn(s, r, l)' <=> ToldOn(s, r, l)) /\ (HeardOn(s, r, l)' <=> HeardOn(s, r, l))
  BY DEF ToldOn, HeardOn
<1> QED
  BY <1>1 DEF ListsAre

\* A step that leaves the buffers and ghost nodes alone.
LEMMA SameHosts ==
  ASSUME NEW s, HostsAre(s), UNCHANGED <<step, afterFtoC, axis, ghost, sendBuffer, recvBuffer>>
  PROVE  HostsAre(s)'
<1>1. ASSUME NEW q \in Processes(s) PROVE HostIs(s, q)'
  <2>1. HostIs(s, q)
    BY DEF HostsAre
  <2> QED
    BY <2>1, SameHost
<1> QED
  BY <1>1 DEF HostsAre

\* A step that sends and receives nothing.
LEMMA SameChannels ==
  ASSUME NEW s \in Setups, TypeInv(s), ChannelsAre(s), channel' = channel, NEW r, Sends(s, r, {}), Gets(s, r, {})
  PROVE  ChannelsAre(s)'
<1>1. ASSUME NEW q \in Processes(s), NEW l \in LayersOf(s, q) PROVE ChannelIs(s, q, l)'
  <2>1. ChannelIs(s, q, l)
    BY DEF ChannelsAre
  <2>2. Source(s, q, l) \in Processes(s) /\ Opposite(l) \in LayersOf(s, Source(s, q, l))
    BY OtherSide
  <2>3. AllSent(s, Source(s, q, l), Opposite(l))' = AllSent(s, Source(s, q, l), Opposite(l))
    BY <2>2, SameSent
  <2>4. AllGot(s, q, l)' = AllGot(s, q, l)
    BY SameGot
  <2> QED
    BY <2>1, <2>3, <2>4 DEF ChannelIs
<1> QED
  BY <1>1 DEF ChannelsAre

\* What a process sends is what its neighbour expects next.
LEMMA SendChannels ==
  ASSUME NEW s \in Setups, ToldByParity(s), TypeInv(s), TypeInv(s)', ChannelsAre(s), HostsAre(s),
         NEW r \in Processes(s), Sending(s, r)
  PROVE  ChannelsAre(s)'
<1> DEFINE l == <<axis[r], ProcessNeighbor[s][r][axis[r]][sent[r] + 1]>>
           p == Source(s, r, l)
           m == Opposite(l)
           e == Exchange(s, r)
           v == sendBuffer[r][l]
           i == SentOn(s, r, l) + 1
<1>1. /\ l \in LayersOf(s, r) /\ l[1] = axis[r] /\ SideOf(s, r, l) = sent[r] + 1
      /\ RankNeighbor[s][r][axis[r]][sent[r] + 1] = Source(s, r, l)
      /\ Sends(s, r, {l}) /\ Gets(s, r, {})
      /\ Opposite(l) \in LayersOf(s, r) =>
           SentOn(s, r, Opposite(l)) = IF IsFirst(s, r, l) THEN SentOn(s, r, l) ELSE SentOn(s, r, l) + 1
  BY Zenon, SendCounts
<1>2. /\ axis[r] \in Axes
      /\ Updated(channel, channel', r, channel'[r])
      /\ Updated(channel[r], channel'[r], p, Append(channel[r][p], v))
  BY Zenon, <1>1 DEF Sending
<1>3. /\ p \in Processes(s) /\ m \in LayersOf(s, p) /\ Source(s, p, m) = r /\ Opposite(m) = l
  BY SMTT(30), <1>1, OtherSide
<1> HIDE DEF l, v
<1>4. e \in Nat /\ e > 0 /\ sent[r] \in 0 .. 2
  BY <1>1, <1>2, CountParts, ExchangeType DEF Axes
<1>5. i = (IF Refined(s) THEN 1 ELSE 0) + e
  <2>1. ~SentIn(s, r, l)
    BY <1>1, <1>2, <1>4 DEF SentIn, Axes
  <2> QED
    BY <1>1, <2>1, CountsOnAxis
<1>6. SendRight(s, r, e, axis[r], sendBuffer[r])
  <2>1. axis[r] # 4
    BY <1>2 DEF Axes
  <2> QED
    BY <2>1 DEF HostsAre, HostIs
<1>7. Len(v) = Count(s, r, l, e) /\ (Contents(s) => RightSent(s, r, l, e, v))
  BY <1>1, <1>6 DEF SendRight, v
<1>8. IsList(v)
  BY <1>1, <1>2 DEF TypeInv, Buffers, v
<1> HIDE DEF p, m, e
<1>9. Len(v) = RecvLength(s, p, m, e)
  <2>1. RecvLength(s, p, m, e) = Count(s, Source(s, p, m), Opposite(m), e)
    BY <1>3, <1>4, CountsAgree
  <2> QED
    BY <1>3, <1>7, <2>1
<1>10. Contents(s) => RightReceived(s, p, m, e, v)
  <2>1. SUFFICES ASSUME Contents(s) PROVE RightReceived(s, p, m, e, v)
    OBVIOUS
  <2>2. RightSent(s, Source(s, p, m), Opposite(m), e, v)
    BY <1>3, <1>7, <2>1
  <2> QED
    BY <1>3, <1>4, <2>2, RightPassed
<1>11. RightMessage(s, p, m, i, v)
  <2>1. ~(Refined(s) /\ i = 1) /\ e = IF Refined(s) THEN i - 1 ELSE i
    <3> HIDE DEF i
    <3> QED
      BY <1>4, <1>5
  <2> HIDE DEF i
  <2>2. e = (IF Refined(s) THEN i - 1 ELSE i) /\ ~(Refined(s) /\ i = 1)
    BY <2>1
  <2>3. /\ IsList(v) /\ Len(v) = RecvLength(s, p, m, e)
        /\ Carried(s) /\ Patched(s) => RightReceived(s, p, m, e, v)
    BY <1>8, <1>9, <1>10 DEF Contents
  <2> QED
    BY ONLY <2>2, <2>3 DEF RightMessage
<1>12. p = Source(s, r, l) /\ m = Opposite(l) /\ RightMessage(s, p, m, SentOn(s, r, l) + 1, v)
  BY <1>11 DEF p, m
<1>13. m \in LayersOf(s, r) => SentOn(s, r, m) = IF IsFirst(s, r, l) THEN SentOn(s, r, l) ELSE SentOn(s, r, l) + 1
  BY <1>1 DEF m
<1> QED
  BY <1>1, <1>2, <1>12, <1>13, AppendChannels

\* A process takes the first messages of its neighbours on an axis.
LEMMA ReceiveChannels ==
  ASSUME NEW s \in Setups, ToldByParity(s), TypeInv(s), TypeInv(s)', ChannelsAre(s),
         NEW r \in Processes(s), Receiving(s, r)
  PROVE  ChannelsAre(s)'
<1> DEFINE a      == axis[r]
           layers == { l \in LayersOf(s, r) : l[1] = a }
<1>1. Sends(s, r, {}) /\ Gets(s, r, layers)
  BY ReceiveCounts
<1>2. /\ a \in Axes
      /\ \A p \in Processes(s) : Posted(r, p) > 0 => Len(channel[p][r]) >= Posted(r, p)
      /\ \A p \in Processes(s) : Updated(channel[p], channel'[p], r, SubSeq(channel[p][r], Posted(r, p) + 1, Len(channel[p][r])))
  BY DEF Receiving
<1>3. \A p, q \in Processes(s) : q # r => channel'[p][q] = channel[p][q]
  <2>1. \A p \in Processes(s) : DOMAIN channel[p] = Processes(s)
    BY DEF TypeInv, Channels
  <2> QED
    BY <1>2, <2>1 DEF Updated
<1>4. ASSUME NEW l \in LayersOf(s, r), NEW p, p = Source(s, r, l)
      PROVE  \E k \in Nat : /\ Dropped(channel[p][r], channel'[p][r], k)
                            /\ AllGot(s, r, l)' = AllGot(s, r, l) + k
  <2> DEFINE k == Posted(r, p)
             c == channel[p][r]
  <2>1. k = IF l[1] # a THEN 0 ELSE IF Twin(s, r, l) THEN 2 ELSE 1
    BY <1>2, <1>4, PostedIs
  <2>2. p \in Processes(s) /\ IsList(c) /\ Len(c) \in Nat
    BY <1>4, ChannelList
  <2>3. k \in Nat /\ k <= Len(c)
    <3>1. k \in Nat /\ (k = 0 \/ k > 0)
      BY <2>1
    <3>2. k > 0 => Len(c) >= k
      BY <1>2, <2>2
    <3> HIDE DEF k, c
    <3> QED
      BY <2>2, <3>1, <3>2
  <2>4. channel'[p][r] = SubSeq(c, k + 1, Len(c))
    BY <1>2, <2>2 DEF Updated
  <2>5. Dropped(c, channel'[p][r], k)
    <3> HIDE DEF k, c
    <3>1. /\ Len(SubSeq(c, k + 1, Len(c))) = Len(c) - k
          /\ \A i \in 1 .. Len(c) - k : SubSeq(c, k + 1, Len(c))[i] = c[i + k]
      BY <2>2, <2>3, DropList
    <3> QED
      BY <2>4, <3>1 DEF Dropped
  <2>6. AllGot(s, r, l)' = AllGot(s, r, l) + k
    <3>1. GotOn(s, r, l)' = GotOn(s, r, l) + (IF l[1] = a THEN 1 ELSE 0) /\ GotOn(s, r, l) \in Nat
      BY <1>1, CountsType DEF Gets
    <3>2. CASE Twin(s, r, l)
      <4>1. Opposite(l) \in LayersOf(s, r) /\ Opposite(l)[1] = l[1]
        BY <3>2, OtherSide DEF Twin
      <4>2. GotOn(s, r, Opposite(l))' = GotOn(s, r, Opposite(l)) + (IF l[1] = a THEN 1 ELSE 0)
            /\ GotOn(s, r, Opposite(l)) \in Nat
        BY <1>1, <4>1, CountsType DEF Gets
      <4>3. AllGot(s, r, l) = GotOn(s, r, l) + GotOn(s, r, Opposite(l))
            /\ AllGot(s, r, l)' = GotOn(s, r, l)' + GotOn(s, r, Opposite(l))'
        BY <3>2 DEF AllGot
      <4> HIDE DEF k
      <4> QED
        BY <2>1, <3>1, <3>2, <4>2, <4>3
    <3>3. CASE ~Twin(s, r, l)
      <4>1. AllGot(s, r, l) = GotOn(s, r, l) + 0 /\ AllGot(s, r, l)' = GotOn(s, r, l)' + 0
        BY <3>3 DEF AllGot
      <4> HIDE DEF k
      <4> QED
        BY <2>1, <3>1, <3>3, <4>1
    <3> QED
      BY <3>2, <3>3
  <2> HIDE DEF k
  <2> QED
    BY <2>3, <2>5, <2>6
<1>5. \A l \in LayersOf(s, r) : \E k \in Nat :
         /\ Dropped(channel[Source(s, r, l)][r], channel'[Source(s, r, l)][r], k)
         /\ AllGot(s, r, l)' = AllGot(s, r, l) + k
  BY <1>4
<1> HIDE DEF layers
<1> QED
  BY <1>1, <1>3, <1>5, DropChannels

\* Receive leaves the processes with the right values.
LEMMA ReceiveHost ==
  ASSUME NEW s \in Setups, ToldByParity(s), TypeInv(s), TypeInv(s)', ListsAre(s), ChannelsAre(s), HostsAre(s),
         NEW r \in Processes(s), Receiving(s, r)
  PROVE  HostsAre(s)'
<1> DEFINE a == axis[r]
           b == Following(r, a)
           e == Exchange(s, r)
<1>1. /\ a \in Axes /\ a \in 0 .. 3 /\ a # 0 /\ a # 4
      /\ \A p \in Processes(s) : Posted(r, p) > 0 => Len(channel[p][r]) >= Posted(r, p)
      /\ Updated(recvBuffer, recvBuffer', r, recvBuffer'[r]) /\ DOMAIN recvBuffer'[r] = LayersOf(s, r)
      /\ \A l \in LayersOf(s, r) :
           recvBuffer'[r][l] = IF l[1] = a THEN Received(r, l)
                               ELSE IF l \in DOMAIN recvBuffer[r] THEN recvBuffer[r][l] ELSE << >>
      /\ Updated(ghost, ghost', r, Scattered(r, IF ~s.useStreams THEN { l \in LayersOf(s, r) : l[1] = a }
                                                ELSE IF b = 4 THEN LayersOf(s, r) ELSE {}))
      /\ UNCHANGED startVars /\ step' = step /\ afterFtoC' = afterFtoC
      /\ Preparing(s, r, b)
  BY DEF Receiving, Axes
<1>2. setup = s
  BY DEF TypeInv
<1>3. FollowingIs(s, r, a, b)
  BY <1>1, <1>2, FollowingAxis
<1>4. e \in Nat
  BY ExchangeType
<1>5. Exchange(s, r)' = e
  BY <1>1 DEF Exchange, Refined
<1>6. Started(s, r)
  <2>1. Time(s, r)
    BY DEF TypeInv
  <2> QED
    BY <1>1, <2>1 DEF Time
<1>7. HostIs(s, r)
  BY DEF HostsAre
<1> HIDE DEF b
<1>8. ASSUME Contents(s), NEW l \in LayersOf(s, r), l[1] = a \/ (s.useStreams /\ l[1] < a)
      PROVE  RightReceived(s, r, l, e, recvBuffer'[r][l])
  <2>1. CASE l[1] = a
    <3>1. Posted(r, Source(s, r, l)) = IF Twin(s, r, l) THEN 2 ELSE 1
      BY <1>1, <2>1, PostedIs
    <3>2. Source(s, r, l) \in Processes(s)
      BY OtherSide
    <3>3. Len(channel[Source(s, r, l)][r]) >= IF Twin(s, r, l) THEN 2 ELSE 1
      BY <1>1, <3>1, <3>2
    <3>4. RightReceived(s, r, l, e, Received(r, l))
      BY <1>1, <1>8, <2>1, <3>3, ReceivedIs
    <3> QED
      BY <1>1, <2>1, <3>4
  <2>2. CASE s.useStreams /\ l[1] < a
    <3>1. RecvRight(s, r, e, a, recvBuffer[r])
      BY <1>1, <1>7, <1>8, <2>2 DEF HostIs
    <3>2. l \in DOMAIN recvBuffer[r] /\ RightReceived(s, r, l, e, recvBuffer[r][l])
      BY <2>2, <3>1 DEF RecvRight
    <3>3. l[1] # a
      <4>1. l[1] \in 1 .. 3
        BY OtherSide DEF Axes
      <4> QED
        BY <1>1, <2>2, <4>1 DEF Axes
    <3> QED
      BY <1>1, <3>2, <3>3
  <2> QED
    BY <1>8, <2>1, <2>2
<1>9. Contents(s) => GhostRight(s, r, e, b, ghost'[r])
  <2>1. SUFFICES ASSUME Contents(s) PROVE GhostRight(s, r, e, b, ghost'[r])
    OBVIOUS
  <2>2. GhostRight(s, r, e, a, ghost[r])
    BY <1>7, <2>1 DEF HostIs
  <2>3. ghost'[r] = Scattered(r, IF ~s.useStreams THEN { l \in LayersOf(s, r) : l[1] = a }
                                 ELSE IF b = 4 THEN LayersOf(s, r) ELSE {})
    BY <1>1 DEF Updated
  <2> HIDE DEF e, a
  <2>4. \A l \in LayersOf(s, r) : l[1] = a \/ (s.useStreams /\ l[1] < a) => RightReceived(s, r, l, e, recvBuffer'[r][l])
    BY <1>8, <2>1
  <2>5. e = Exchange(s, r)
    BY DEF e
  <2> QED
    BY <1>1, <1>3, <1>6, <2>1, <2>2, <2>3, <2>4, <2>5, ScatterRight
<1>10. s.useStreams /\ Contents(s) => RecvRight(s, r, e, b, recvBuffer'[r])
  <2>1. SUFFICES ASSUME s.useStreams, Contents(s), NEW l \in LayersOf(s, r), l[1] < b
                 PROVE  l \in DOMAIN recvBuffer'[r] /\ RightReceived(s, r, l, e, recvBuffer'[r][l])
    BY DEF RecvRight
  <2>2. l[1] = a \/ l[1] < a
    <3>1. l[1] \in 1 .. 3
      BY OtherSide DEF Axes
    <3>2. (l[1] <= a \/ l[1] >= b) /\ b \in 1 .. 4
      BY <1>1, <1>3 DEF FollowingIs
    <3> QED
      BY <1>1, <2>1, <3>1, <3>2 DEF Axes
  <2> QED
    BY <1>1, <1>8, <2>1, <2>2
<1>11. SendRight(s, r, e, a, sendBuffer[r])
  BY <1>1, <1>7 DEF HostIs
<1>12. HostIs(s, r)'
  <2> DEFINE f == Exchange(s, r)'
  <2>1. f = e
    BY <1>5
  <2> HIDE DEF e, f
  <2>2. /\ axis[r] = 4 \/ (axis[r] = a /\ a # 0 /\ SendRight(s, r, f, a, sendBuffer[r]))
        /\ Contents(s) => GhostRight(s, r, f, b, ghost'[r])
        /\ s.useStreams /\ Contents(s) => RecvRight(s, r, f, b, recvBuffer'[r])
    BY <1>1, <1>9, <1>10, <1>11, <2>1
  <2>3. f = Exchange(s, r)'
    BY DEF f
  <2> HIDE DEF a
  <2> QED
    BY <1>1, <1>3, <1>6, <2>2, <2>3, PreparedHost
<1>13. ASSUME NEW q \in Processes(s), q # r PROVE HostIs(s, q)'
  <2>1. q \in DOMAIN axis /\ q \in DOMAIN sendBuffer /\ q \in DOMAIN ghost /\ q \in DOMAIN recvBuffer
    BY DEF TypeInv, Typed
  <2>2. axis'[q] = axis[q] /\ sendBuffer'[q] = sendBuffer[q] /\ ghost'[q] = ghost[q] /\ recvBuffer'[q] = recvBuffer[q]
    BY <1>1, <1>13, <2>1 DEF Preparing, Updated
  <2>3. HostIs(s, q)
    BY DEF HostsAre
  <2> QED
    BY <1>1, <2>2, <2>3, SameHost
<1> QED
  BY <1>12, <1>13 DEF HostsAre

\* The invariant of the whole system on a grid.
Inv(s) == TypeInv(s) /\ ListsAre(s) /\ ChannelsAre(s) /\ HostsAre(s)

\* The invariant holds at the start.
LEMMA InitInv ==
  ASSUME NEW s \in Setups, Init, setup = s
  PROVE  Inv(s)
<1>1. TypeInv(s)
  BY InitType
<1>2. ASSUME NEW r \in Processes(s)
      PROVE  /\ axis[r] = 4 /\ step[r] = 0 /\ turn[r] = 1 /\ ~told[r] /\ (afterFtoC[r] <=> Refined(s)) /\ sent[r] = 0
             /\ sendIndex[r] = SendIndices[s][r] /\ recvIndex[r] = ReceiveIndices[s][r]
             /\ \A p \in Processes(s) : channel[p][r] = << >>
  BY DEF Init, StartUp, Ranks
<1>a. ASSUME NEW r \in Processes(s) PROVE ghost[r] = [x \in GhostNodes(r) |-> Value(r, x)]
  BY DEF Init, Ranks
<1>3. ASSUME NEW r \in Processes(s), NEW l \in LayersOf(s, r)
      PROVE  /\ ~ToldOn(s, r, l) /\ ~HeardOn(s, r, l)
             /\ SentOn(s, r, l) = 0 /\ GotOn(s, r, l) = 0
  <2>1. PlaceOf(s, r, l) \in 1 .. Len(LayerSeq[s][r]) /\ Len(LayerSeq[s][r]) \in 0 .. 6
    BY Places
  <2>2. ~ToldOn(s, r, l) /\ ~HeardOn(s, r, l)
    BY <1>2, <2>1 DEF ToldOn, HeardOn
  <2>3. Exchange(s, r) = 0
    BY <1>2 DEF Exchange
  <2>4. l[1] \in 1 .. 3
    BY OtherSide DEF Axes
  <2>5. SentIn(s, r, l) /\ axis[r] > l[1]
    BY <1>2, <2>4 DEF SentIn
  <2> QED
    BY <2>2, <2>3, <2>5 DEF SentOn, GotOn
<1>4. ListsAre(s)
  BY <1>2, <1>3 DEF ListsAre
<1>5. ASSUME NEW r \in Processes(s), NEW l \in LayersOf(s, r) PROVE ChannelIs(s, r, l)
  <2>1. Source(s, r, l) \in Processes(s) /\ Opposite(l) \in LayersOf(s, Source(s, r, l))
    BY OtherSide
  <2>2. AllGot(s, r, l) = 0
    BY <1>3 DEF AllGot, Twin
  <2>3. AllSent(s, Source(s, r, l), Opposite(l)) = 0
    BY <1>3, <2>1 DEF AllSent, Twin
  <2>4. channel[Source(s, r, l)][r] = << >>
    BY <1>2, <2>1
  <2>5. Len(<< >>) = 0 - 0 /\ \A j \in 1 .. Len(<< >>) : FALSE
    OBVIOUS
  <2>6. Holds(s, r, l, << >>, 0, 0)
    BY <2>5 DEF Holds
  <2> QED
    BY <2>2, <2>3, <2>4, <2>6 DEF ChannelIs
<1>6. ASSUME NEW r \in Processes(s) PROVE HostIs(s, r)
  <2>1. ASSUME NEW x \in GhostNode[s][r] PROVE ghost[r][x] = In(s, r, x, 0)
    <3>1. ghost[r][x] = Value(r, x)
      BY <1>a DEF GhostNodes
    <3>2. (0 + 1) \div 2 = 0 /\ 0 % 2 = 0
      OBVIOUS
    <3>3. Value(r, x) = In(s, r, x, 0)
      BY <1>2, <3>2 DEF Value, In, Global
    <3> QED
      BY <3>1, <3>3
  <2>2. Exchange(s, r) = 0
    BY <1>2 DEF Exchange
  <2>3. GhostRight(s, r, 0, 4, ghost[r])
    BY <2>1 DEF GhostRight
  <2> QED
    BY <1>2, <2>2, <2>3 DEF HostIs
<1> QED
  BY <1>1, <1>4, <1>5, <1>6 DEF Inv, ChannelsAre, HostsAre

\* Every step keeps the invariant, where the positions are told by parity and guessed right.
LEMMA StepInv ==
  ASSUME NEW s \in Setups, ToldByParity(s), Guessed(s), Inv(s), [Next]_vars
  PROVE  Inv(s)'
<1>1. TypeInv(s) /\ ListsAre(s) /\ ChannelsAre(s) /\ HostsAre(s)
  BY DEF Inv
<1>2. TypeInv(s)'
  BY <1>1, StepType
<1>3. CASE UNCHANGED vars
  <2>1. UNCHANGED <<sendIndex, recvIndex, sendNumber, recvNumber, turn, told>> /\ channel' = channel
        /\ UNCHANGED <<step, afterFtoC, axis, sent, ghost, sendBuffer, recvBuffer>>
    BY <1>3 DEF vars, startVars, timeVars
  <2>2. ListsAre(s)' /\ HostsAre(s)'
    BY <1>1, <2>1, SameLayers, SameHosts
  <2>3. ChannelsAre(s)'
    <3>1. \A q : \A m : SentOn(s, q, m)' = SentOn(s, q, m) /\ GotOn(s, q, m)' = GotOn(s, q, m)
      BY <2>1, SameCounts
    <3> QED
      BY <1>1, <2>1, <3>1 DEF ChannelsAre, ChannelIs, AllSent, AllGot
  <2> QED
    BY <1>2, <2>2, <2>3 DEF Inv
<1>4. CASE Next
  <2>1. PICK r \in Processes(s) : Effect(s, r)
    BY <1>1, <1>4, StepEffect
  <2>2. CASE Telling(s, r)
    <3>1. ListsAre(s)' /\ ChannelsAre(s)'
      BY Zenon, <1>1, <1>2, <2>2, TellLists
    <3>2. UNCHANGED <<step, afterFtoC, axis, ghost, sendBuffer, recvBuffer>>
      BY Zenon, <2>2 DEF Telling, timeVars
    <3>3. HostsAre(s)'
      BY <1>1, <3>2, SameHosts
    <3> QED
      BY <1>2, <3>1, <3>3 DEF Inv
  <2>3. CASE Hearing(s, r)
    <3>1. ListsAre(s)' /\ ChannelsAre(s)'
      BY Zenon, <1>1, <1>2, <2>3, HearLists
    <3>2. UNCHANGED <<step, afterFtoC, axis, ghost, sendBuffer, recvBuffer>>
      BY Zenon, <2>3 DEF Hearing, timeVars
    <3>3. HostsAre(s)'
      BY <1>1, <3>2, SameHosts
    <3> QED
      BY <1>2, <3>1, <3>3 DEF Inv
  <2>4. CASE Beginning(s, r)
    <3>1. channel' = channel /\ UNCHANGED <<sendIndex, recvIndex, sendNumber, recvNumber, turn, told>>
      BY <2>4 DEF Beginning, startVars
    <3>2. ListsAre(s)'
      BY <1>1, <3>1, SameLayers
    <3>3. HostsAre(s)'
      BY <1>1, <1>2, <2>4, BeginHost
    <3>4. Sends(s, r, {}) /\ Gets(s, r, {})
      BY <1>1, <1>2, <2>4, BeginCounts
    <3>5. ChannelsAre(s)'
      BY <1>1, <3>1, <3>4, SameChannels
    <3> QED
      BY <1>2, <3>2, <3>3, <3>5 DEF Inv
  <2>5. CASE Sending(s, r)
    <3>1. /\ UNCHANGED <<sendIndex, recvIndex, sendNumber, recvNumber, turn, told>>
          /\ UNCHANGED <<step, afterFtoC, axis, ghost, sendBuffer, recvBuffer>>
      BY <2>5 DEF Sending, startVars
    <3>2. ListsAre(s)' /\ HostsAre(s)'
      BY <1>1, <3>1, SameLayers, SameHosts
    <3>3. ChannelsAre(s)'
      BY <1>1, <1>2, <2>5, SendChannels
    <3> QED
      BY Zenon, <1>2, <3>2, <3>3 DEF Inv
  <2>6. CASE Receiving(s, r)
    <3>1. UNCHANGED <<sendIndex, recvIndex, sendNumber, recvNumber, turn, told>>
      BY <2>6 DEF Receiving, startVars
    <3>2. ListsAre(s)'
      BY <1>1, <3>1, SameLayers
    <3>3. HostsAre(s)' /\ ChannelsAre(s)'
      BY <1>1, <1>2, <2>6, ReceiveHost, ReceiveChannels
    <3> QED
      BY <1>2, <3>2, <3>3 DEF Inv
  <2> QED
    BY <2>1, <2>2, <2>3, <2>4, <2>5, <2>6 DEF Effect
<1> QED
  BY <1>3, <1>4

-----------------------------------------------------------------------------
(* What follows from the invariant *)

\* The invariant of every behaviour.
LEMMA Invariance == Spec => [](setup \in Setups /\ TypeInv(setup) /\ (ToldByParity(setup) /\ Guessed(setup) => Inv(setup)))
<1> DEFINE Some == \E s \in Setups : TypeInv(s) /\ (ToldByParity(s) /\ Guessed(s) => Inv(s))
<1>1. Init => Some
  <2> SUFFICES ASSUME Init PROVE Some
    OBVIOUS
  <2>1. setup \in Setups
    BY DEF Init, StartUp
  <2>2. PICK s \in Setups : setup = s
    BY <2>1
  <2> QED
    BY <2>2, InitType, InitInv
<1>2. Some /\ [Next]_vars => Some'
  <2> SUFFICES ASSUME Some, [Next]_vars PROVE Some'
    OBVIOUS
  <2>1. PICK s \in Setups : TypeInv(s) /\ (ToldByParity(s) /\ Guessed(s) => Inv(s))
    OBVIOUS
  <2>2. TypeInv(s)'
    BY <2>1, StepType
  <2>3. ToldByParity(s) /\ Guessed(s) => Inv(s)'
    BY <2>1, StepInv
  <2> QED
    BY <2>2, <2>3
<1>3. Some => setup \in Setups /\ TypeInv(setup) /\ (ToldByParity(setup) /\ Guessed(setup) => Inv(setup))
  <2> SUFFICES ASSUME Some PROVE setup \in Setups /\ TypeInv(setup) /\ (ToldByParity(setup) /\ Guessed(setup) => Inv(setup))
    OBVIOUS
  <2>1. PICK s \in Setups : TypeInv(s) /\ (ToldByParity(s) /\ Guessed(s) => Inv(s))
    OBVIOUS
  <2>2. setup = s
    BY <2>1 DEF TypeInv
  <2> QED
    BY <2>1, <2>2
<1> QED
  BY <1>1, <1>2, <1>3, PTL DEF Spec

\* The invariant implies that the ghost nodes are fresh.
LEMMA InvGivesFresh ==
  ASSUME NEW s \in Setups, Inv(s), Contents(s)
  PROVE  GhostsFresh
<1>1. setup = s /\ TypeInv(s)
  BY DEF Inv, TypeInv
<1>2. ASSUME NEW r \in Processes(s), axis[r] = 4, NEW x \in GhostNode[s][r]
      PROVE  ghost[r][x] = Value(r, x)
  <2> DEFINE e == Exchange(s, r)
  <2>1. GhostRight(s, r, e, 4, ghost[r])
    BY <1>2 DEF Inv, HostsAre, HostIs
  <2>2. Settled(s, x, 4)
    BY SettledFrom DEF Axes
  <2> HIDE DEF e
  <2>3. ghost[r][x] = In(s, r, x, e)
    BY <2>1, <2>2 DEF GhostRight
  <2>4. /\ (IF Refined(s) THEN (e + 1) \div 2 ELSE e) = step[r]
        /\ (Refined(s) /\ e % 2 = 0) <=> afterFtoC[r]
    BY <1>1, ExchangeType DEF e
  <2>5. Value(r, x) = In(s, r, x, e)
    BY <1>1, <2>4 DEF Value, In, Global
  <2> QED
    BY <2>3, <2>5
<1> QED
  BY <1>1, <1>2, Names DEF GhostsFresh, Exchanged

\* On every grid that is suitable, whatever the order of messages and processes, a
\* process that has exchanged holds on every ghost node what the owner of the node
\* has computed (ExchangeData27, IndexRearrangementForStreams).
THEOREM Freshness == Spec => [](Suitable(setup) => GhostsFresh)
<1>1. ASSUME setup \in Setups, ToldByParity(setup) /\ Guessed(setup) => Inv(setup), Suitable(setup)
      PROVE  GhostsFresh
  <2>1. PICK s \in Setups : setup = s
    BY <1>1
  <2>2. Inv(s) /\ Contents(s)
    BY <1>1, <2>1 DEF Suitable, Contents
  <2> QED
    BY <2>2, InvGivesFresh
<1>2. setup \in Setups /\ TypeInv(setup) /\ (ToldByParity(setup) /\ Guessed(setup) => Inv(setup)) => (Suitable(setup) => GhostsFresh)
  BY <1>1
<1> QED
  BY <1>2, Invariance, PTL

\* As long as it has not told the positions of all its layers a process has not
\* begun an exchange, and has sent nothing else.
LEMMA NotTold ==
  ASSUME NEW s \in Setups, TypeInv(s), NEW r \in Processes(s), NEW l \in LayersOf(s, r), Refined(s)
  PROVE  /\ ~ToldOn(s, r, l) => /\ SentOn(s, r, l) = 0
                                /\ Opposite(l) \in LayersOf(s, r) => SentOn(s, r, Opposite(l)) \in {0, 1}
         /\ ToldOn(s, r, l) => SentOn(s, r, l) > 0
         /\ HeardOn(s, r, l) => GotOn(s, r, l) > 0 /\ ToldOn(s, r, l)
         /\ Opposite(l) \in LayersOf(s, r) /\ IsFirst(s, r, l) =>
              /\ ToldOn(s, r, Opposite(l)) => HeardOn(s, r, l) /\ ToldOn(s, r, l)
              /\ HeardOn(s, r, Opposite(l)) => HeardOn(s, r, l)
<1>1. /\ Exchange(s, r) \in Nat /\ axis[r] \in 1 .. 4 /\ turn[r] \in Nat
      /\ l[1] \in 1 .. 3 /\ PlaceOf(s, r, l) \in Nat
      /\ axis[r] # 4 => Exchange(s, r) > 0
  BY CountParts
<1>2. ASSUME ~ToldOn(s, r, l)
      PROVE  /\ Exchange(s, r) = 0 /\ axis[r] = 4
  <2>1. Time(s, r) /\ turn[r] \in Nat
    BY <1>1 DEF TypeInv
  <2>2. ~Started(s, r)
    BY <1>2, <2>1, AllTold
  <2>3. step[r] = 0 /\ axis[r] = 4 /\ afterFtoC[r]
    BY <2>1, <2>2 DEF Time
  <2>4. Exchange(s, r) = 2 * step[r] - 0
    BY <2>3 DEF Exchange
  <2>5. 2 * 0 - 0 = 0
    OBVIOUS
  <2> QED
    BY <2>3, <2>4, <2>5
<1>3. ASSUME ~ToldOn(s, r, l) PROVE SentOn(s, r, l) = 0
  <2>1. SentIn(s, r, l)
    BY <1>1, <1>2, <1>3 DEF SentIn
  <2> QED
    BY <1>2, <1>3, <2>1 DEF SentOn
<1>4. ASSUME ~ToldOn(s, r, l), Opposite(l) \in LayersOf(s, r) PROVE SentOn(s, r, Opposite(l)) \in {0, 1}
  <2>1. SentIn(s, r, Opposite(l))
    <3>1. Opposite(l)[1] \in 1 .. 3
      BY <1>4, CountParts
    <3> QED
      BY <1>2, <1>4, <3>1 DEF SentIn
  <2> QED
    BY <1>2, <1>4, <2>1 DEF SentOn
<1>5. ToldOn(s, r, l) => SentOn(s, r, l) > 0
  BY <1>1 DEF SentOn, SentIn
<1>6. HeardOn(s, r, l) => GotOn(s, r, l) > 0 /\ ToldOn(s, r, l)
  BY <1>1 DEF GotOn, HeardOn, ToldOn
<1>7. ASSUME Opposite(l) \in LayersOf(s, r), IsFirst(s, r, l)
      PROVE  /\ ToldOn(s, r, Opposite(l)) => HeardOn(s, r, l) /\ ToldOn(s, r, l)
             /\ HeardOn(s, r, Opposite(l)) => HeardOn(s, r, l)
  <2>1. PlaceOf(s, r, Opposite(l)) = PlaceOf(s, r, l) + 1
    BY <1>7, TwinPlaces
  <2> QED
    BY <1>1, <2>1 DEF ToldOn, HeardOn
<1> QED
  BY <1>3, <1>4, <1>5, <1>6, <1>7

\* What has been heard was told.
LEMMA HeardIsTold ==
  ASSUME NEW s \in Setups, ToldByParity(s), TypeInv(s), ChannelsAre(s), NEW r \in Processes(s), NEW l \in LayersOf(s, r),
         HeardOn(s, r, l), NEW p, p = Source(s, r, l), NEW m, m = Opposite(l)
  PROVE  ToldOn(s, p, m)
<1>1. p \in Processes(s) /\ m \in LayersOf(s, p) /\ Refined(s)
  BY OtherSide DEF HeardOn
<1>2. AllGot(s, r, l) <= AllSent(s, p, m)
  <2>1. Len(channel[p][r]) \in Nat
    BY ChannelList
  <2>2. Len(channel[p][r]) = AllSent(s, p, m) - AllGot(s, r, l)
    BY DEF ChannelsAre, ChannelIs, Holds
  <2>3. AllSent(s, p, m) \in Nat /\ AllGot(s, r, l) \in Nat
    BY <1>1, AllType
  <2> QED
    BY <2>1, <2>2, <2>3
<1>3. SUFFICES ASSUME ~ToldOn(s, p, m) PROVE FALSE
  OBVIOUS
<1>4. SentOn(s, p, m) = 0 /\ (Opposite(m) \in LayersOf(s, p) => SentOn(s, p, Opposite(m)) \in {0, 1})
  BY <1>1, <1>3, NotTold
<1>5. GotOn(s, r, l) \in Nat /\ GotOn(s, r, l) > 0
  BY <1>1, NotTold, CountsType
<1>6. Twin(s, p, m) <=> Twin(s, r, l)
  BY TwinFacts
<1>7. CASE ~Twin(s, r, l)
  BY <1>2, <1>4, <1>5, <1>6, <1>7 DEF AllGot, AllSent
<1>8. CASE Twin(s, r, l)
  <2> DEFINE k == Opposite(l)
             o == Opposite(m)
  <2>1. k \in LayersOf(s, r) /\ (IsFirst(s, r, k) <=> ~IsFirst(s, r, l)) /\ (IsFirst(s, p, m) <=> IsFirst(s, r, l)) /\ Opposite(k) = l
    BY <1>8, TwinFacts, OtherSide
  <2>2. o \in LayersOf(s, p)
    BY <1>6, <1>8 DEF Twin
  <2>3. GotOn(s, r, k) \in Nat
    BY <2>1, CountsType
  <2>4. AllGot(s, r, l) = GotOn(s, r, l) + GotOn(s, r, k) /\ AllSent(s, p, m) = SentOn(s, p, m) + SentOn(s, p, o)
    BY <1>6, <1>8 DEF AllGot, AllSent
  <2>5. CASE IsFirst(s, r, l)
    <3>1. ~ToldOn(s, p, o)
      BY <1>1, <1>3, <2>1, <2>2, <2>5, NotTold
    <3>2. SentOn(s, p, o) = 0
      BY <1>1, <2>2, <3>1, NotTold
    <3> HIDE DEF k, o
    <3> QED
      BY <1>2, <1>4, <1>5, <2>3, <2>4, <3>2
  <2>6. CASE ~IsFirst(s, r, l)
    <3>1. HeardOn(s, r, k)
      BY <1>1, <2>1, <2>6, NotTold
    <3>2. GotOn(s, r, k) > 0
      BY <1>1, <2>1, <3>1, NotTold
    <3>3. SentOn(s, p, o) \in {0, 1}
      BY <1>4, <2>2
    <3> HIDE DEF k, o
    <3> QED
      BY <1>2, <1>4, <1>5, <2>3, <2>4, <3>2, <3>3
  <2> QED
    BY <2>5, <2>6
<1> QED
  BY <1>7, <1>8

\* The invariant implies that neighbours agree on their lists.
LEMMA InvGivesAgree ==
  ASSUME NEW s \in Setups, ToldByParity(s), Inv(s)
  PROVE  NeighboursAgree
<1>1. setup = s /\ TypeInv(s) /\ ListsAre(s) /\ ChannelsAre(s)
  BY DEF Inv, TypeInv
<1>2. ASSUME NEW r \in Processes(s), NEW l \in DOMAIN recvNumber[r], NEW p, p = Source(s, r, l), NEW m, m = Opposite(l)
      PROVE  /\ m \in DOMAIN sendNumber[p]
             /\ recvNumber[r][l] = sendNumber[p][m]
             /\ [j \in DOMAIN recvIndex[r][l] |-> Global(r, recvIndex[r][l][j])]
                  = [j \in DOMAIN sendIndex[p][m] |-> Global(p, sendIndex[p][m][j])]
  <2>1. l \in LayersOf(s, r) /\ HeardOn(s, r, l) /\ Refined(s)
    BY <1>1, <1>2 DEF TypeInv, Lists, HeardOn
  <2>2. ToldOn(s, p, m)
    BY <1>1, <1>2, <2>1, HeardIsTold
  <2>3. p \in Processes(s) /\ m \in LayersOf(s, p)
    BY <1>2, <2>1, OtherSide
  <2>4. m \in DOMAIN sendNumber[p]
    BY <1>1, <2>2, <2>3 DEF TypeInv, Lists
  <2>5. /\ recvIndex[r][l] = RecvList(s, r, l) /\ recvNumber[r][l] = Len(RecvFront(s, r, l))
        /\ sendIndex[p][m] = SendList(s, p, m) /\ sendNumber[p][m] = Len(SendFront(s, p, m))
    BY <1>1, <2>1, <2>2, <2>3 DEF ListsAre
  <2>6. /\ Enumerates(SendList(s, p, m), SendNodes(s, p, m)) /\ Enumerates(RecvList(s, r, l), RecvNodes(s, r, l))
        /\ Len(SendList(s, p, m)) = Len(SendIndices[s][p][m]) /\ Len(RecvList(s, r, l)) = Len(SendIndices[s][p][m])
        /\ Len(RecvFront(s, r, l)) = Len(SendFront(s, p, m))
        /\ \A j \in 1 .. Len(SendIndices[s][p][m]) : SameNode(s, r, RecvList(s, r, l)[j], p, SendList(s, p, m)[j], l[1])
    BY <1>2, <2>1, ListsArranged
  <2>7. /\ DOMAIN RecvList(s, r, l) = 1 .. Len(SendIndices[s][p][m])
        /\ DOMAIN SendList(s, p, m) = 1 .. Len(SendIndices[s][p][m])
    BY <2>6, SeqIsList DEF Enumerates, Injects
  <2>8. \A j \in 1 .. Len(SendIndices[s][p][m]) : Global(r, RecvList(s, r, l)[j]) = Global(p, SendList(s, p, m)[j])
    BY <1>1, <2>6 DEF SameNode, Global
  <2> QED
    BY <2>4, <2>5, <2>6, <2>7, <2>8
<1> QED
  BY <1>1, <1>2, Names DEF NeighboursAgree

\* On every grid where the positions are told on the right axis and their end is found,
\* the lists of nodes of two neighbours agree node by node as soon as the receiver has
\* rearranged its list (IndexRearrangementForStreams).
THEOREM Agreement == Spec => [](ToldByParity(setup) /\ Guessed(setup) => NeighboursAgree)
<1>1. ASSUME setup \in Setups, ToldByParity(setup) /\ Guessed(setup) => Inv(setup), ToldByParity(setup), Guessed(setup)
      PROVE  NeighboursAgree
  <2>1. PICK s \in Setups : setup = s
    BY <1>1
  <2>2. Inv(s) /\ ToldByParity(s)
    BY <1>1, <2>1
  <2> QED
    BY <2>2, InvGivesAgree
<1>2. setup \in Setups /\ TypeInv(setup) /\ (ToldByParity(setup) /\ Guessed(setup) => Inv(setup))
        => (ToldByParity(setup) /\ Guessed(setup) => NeighboursAgree)
  BY <1>1
<1> QED
  BY <1>2, Invariance, PTL

-----------------------------------------------------------------------------
(* Nobody waits in a circle while the processes start up *)

\* What NoCircularWait asks of one process.
GoesOn(r) ==
  \/ ~StartedUp(r) /\ MayTell(r, Awaited(r, Neighbor(r, Turn(r))))
  \/ MayHear(r) \/ MayCollide(r) \/ MayInterpolate(r) \/ MaySend(r) \/ MayReceive(r)

\* A process is at a layer in its start-up.
AtLayer(s, r, l) == ~Started(s, r) /\ l = LayerSeq[s][r][turn[r]]

\* The messages of the layer of which it is the turn.
LEMMA TurnCounts ==
  ASSUME NEW s \in Setups, TypeInv(s), NEW r \in Processes(s), NEW l, AtLayer(s, r, l)
  PROVE  /\ l \in LayersOf(s, r) /\ PlaceOf(s, r, l) = turn[r] /\ turn[r] \in 1 .. Len(LayerSeq[s][r])
         /\ Refined(s) /\ turn[r] \in Nat
         /\ ToldOn(s, r, l) <=> told[r]
         /\ GotOn(s, r, l) = 0
         /\ ~told[r] => SentOn(s, r, l) = 0
         /\ Opposite(l) \in LayersOf(s, r) =>
              /\ GotOn(s, r, Opposite(l)) = IF IsFirst(s, r, l) THEN 0 ELSE 1
              /\ SentOn(s, r, Opposite(l)) = IF IsFirst(s, r, l) THEN 0 ELSE 1
<1>1. Typed(s) /\ Time(s, r) /\ Refined(s) /\ ~(turn[r] > Len(LayerSeq[s][r]))
  BY DEF TypeInv, AtLayer, Started
<1>2. turn[r] \in Nat
  BY <1>1 DEF Typed
<1>3. turn[r] <= Len(LayerSeq[s][r])
  BY <1>1, <1>2, Places
<1>4. l \in LayersOf(s, r) /\ PlaceOf(s, r, l) = turn[r] /\ turn[r] \in 1 .. Len(LayerSeq[s][r])
  BY <1>3, AtTurn DEF AtLayer
<1>5. Exchange(s, r) = 0 /\ axis[r] = 4
  BY <1>1 DEF Time, Exchange, AtLayer
<1>6. \A m \in LayersOf(s, r) : SentIn(s, r, m) /\ axis[r] > m[1]
  <2> TAKE m \in LayersOf(s, r)
  <2>1. m[1] \in 1 .. 3
    BY OtherSide DEF Axes
  <2> QED
    BY <1>5, <2>1 DEF SentIn
<1>7. \A m \in LayersOf(s, r) : /\ SentOn(s, r, m) = IF ToldOn(s, r, m) THEN 1 ELSE 0
                                /\ GotOn(s, r, m) = IF HeardOn(s, r, m) THEN 1 ELSE 0
  BY <1>5, <1>6 DEF SentOn, GotOn
<1>8. (ToldOn(s, r, l) <=> told[r]) /\ ~HeardOn(s, r, l)
  BY <1>1, <1>2, <1>4 DEF ToldOn, HeardOn
<1>9. ASSUME Opposite(l) \in LayersOf(s, r)
      PROVE  /\ ToldOn(s, r, Opposite(l)) <=> ~IsFirst(s, r, l)
             /\ HeardOn(s, r, Opposite(l)) <=> ~IsFirst(s, r, l)
  <2>1. CASE IsFirst(s, r, l)
    <3>1. PlaceOf(s, r, Opposite(l)) = turn[r] + 1
      BY <1>4, <1>9, <2>1, TwinPlaces
    <3> QED
      BY <1>2, <2>1, <3>1 DEF ToldOn, HeardOn
  <2>2. CASE ~IsFirst(s, r, l)
    <3>1. IsFirst(s, r, Opposite(l)) /\ Opposite(Opposite(l)) = l
      BY <1>4, <1>9, <2>2, OtherIsFirst
    <3>2. turn[r] = PlaceOf(s, r, Opposite(l)) + 1
      BY <1>4, <1>9, <3>1, TwinPlaces
    <3>3. PlaceOf(s, r, Opposite(l)) \in Nat
      BY <1>9, Places
    <3> QED
      BY <1>1, <1>2, <2>2, <3>2, <3>3 DEF ToldOn, HeardOn
  <2> QED
    BY <2>1, <2>2
<1> QED
  BY <1>1, <1>2, <1>4, <1>7, <1>8, <1>9

\* A process whose neighbour has told it the positions of its layer can hear them.
LEMMA CanHear ==
  ASSUME NEW s \in Setups, ToldByParity(s), Guessed(s), Inv(s), NEW r \in Processes(s), NEW l, AtLayer(s, r, l), told[r],
         NEW p, p = Source(s, r, l), NEW m, m = Opposite(l), ToldOn(s, p, m)
  PROVE  MayHear(r)
<1>1. TypeInv(s) /\ ListsAre(s) /\ ChannelsAre(s) /\ setup = s
  BY DEF Inv, TypeInv
<1>2. /\ l \in LayersOf(s, r) /\ Refined(s) /\ ToldOn(s, r, l) /\ GotOn(s, r, l) = 0
      /\ Opposite(l) \in LayersOf(s, r) => GotOn(s, r, Opposite(l)) = IF IsFirst(s, r, l) THEN 0 ELSE 1
  BY <1>1, TurnCounts
<1>3. p \in Processes(s) /\ m \in LayersOf(s, p) /\ IsList(channel[p][r]) /\ Len(channel[p][r]) \in Nat
  BY <1>1, <1>2, OtherSide, ChannelList
<1>4. AllGot(s, r, l) < AllSent(s, p, m) /\ AllGot(s, r, l) \in Nat /\ AllSent(s, p, m) \in Nat
  <2>1. AllGot(s, r, l) \in Nat /\ AllSent(s, p, m) \in Nat
    BY <1>1, <1>2, <1>3, AllType
  <2>2. SentOn(s, p, m) \in Nat /\ SentOn(s, p, m) > 0
    BY <1>1, <1>2, <1>3, NotTold, CountsType
  <2>3. Twin(s, p, m) <=> Twin(s, r, l)
    BY <1>2, TwinFacts
  <2>4. CASE ~Twin(s, r, l)
    <3>1. AllGot(s, r, l) = 0 + 0 /\ AllSent(s, p, m) = SentOn(s, p, m) + 0
      BY <1>2, <2>3, <2>4 DEF AllGot, AllSent
    <3> QED
      BY <2>1, <2>2, <3>1
  <2>5. CASE Twin(s, r, l)
    <3> DEFINE o == Opposite(m)
    <3>1. Opposite(l) \in LayersOf(s, r) /\ (IsFirst(s, p, m) <=> IsFirst(s, r, l))
      BY <1>2, <2>5, TwinFacts
    <3>2. o \in LayersOf(s, p) /\ Opposite(o) = m /\ (IsFirst(s, p, o) <=> ~IsFirst(s, p, m))
      BY <1>3, <2>3, <2>5, TwinFacts, OtherSide
    <3>3. /\ AllGot(s, r, l) = 0 + (IF IsFirst(s, r, l) THEN 0 ELSE 1)
          /\ AllSent(s, p, m) = SentOn(s, p, m) + SentOn(s, p, o)
      BY <1>2, <2>3, <2>5, <3>1 DEF AllGot, AllSent
    <3>4. SentOn(s, p, o) \in Nat
      BY <1>1, <3>2, <1>3, CountsType
    <3>5. ~IsFirst(s, r, l) => SentOn(s, p, o) > 0
      <4>1. SUFFICES ASSUME ~IsFirst(s, r, l) PROVE SentOn(s, p, o) > 0
        OBVIOUS
      <4>2. ToldOn(s, p, o)
        BY <1>1, <1>2, <1>3, <3>1, <3>2, <4>1, NotTold
      <4> QED
        BY <1>1, <1>2, <1>3, <3>2, <4>2, NotTold
    <3> HIDE DEF o
    <3> QED
      BY <2>1, <2>2, <3>3, <3>4, <3>5
  <2> QED
    BY <2>1, <2>4, <2>5
<1>5. Len(channel[p][r]) = AllSent(s, p, m) - AllGot(s, r, l)
  BY <1>1, <1>2 DEF ChannelsAre, ChannelIs, Holds
<1>6. 1 > 0 /\ 1 <= Len(channel[p][r]) /\ 1 \in Nat /\ Len(channel[p][r]) > 0
  <2> DEFINE n == Len(channel[p][r])
  <2>1. n \in Nat /\ n > 0
    BY <1>3, <1>4, <1>5
  <2> HIDE DEF n
  <2>2. 1 > 0 /\ 1 <= n /\ 1 \in Nat /\ n > 0
    BY ONLY <2>1
  <2> QED
    BY <2>2 DEF n
<1>7. channel[p][r] # << >>
  <2>1. ASSUME channel[p][r] = << >> PROVE FALSE
    <3>1. Len(channel[p][r]) = 0
      BY <2>1
    <3> QED
      BY <1>6, <3>1
  <2> QED
    BY <2>1
<1>8. Head(channel[p][r]) = channel[p][r][1]
  BY <1>3, <1>7, TailList
<1>9. channel[p][r][1] = Told(s, r, l)
  <2> DEFINE i == GotOn(s, r, l)  o == IF IsFirst(s, r, l) THEN i ELSE i + 1
  <2>1. AllGot(s, r, l) + 1 = i + (IF Twin(s, r, l) THEN o ELSE 0) + 1
    BY <1>2 DEF AllGot, Twin
  <2>2. RightMessage(s, r, l, i + 1, channel[p][r][1])
    <3>1. i = GotOn(s, r, l) /\ o = IF IsFirst(s, r, l) THEN i ELSE i + 1
      OBVIOUS
    <3> HIDE DEF i, o
    <3> QED
      BY <1>1, <1>2, <1>6, <2>1, <3>1, InChannel
  <2>3. i + 1 = 1
    BY <1>2
  <2> QED
    BY <1>2, <2>2, <2>3 DEF RightMessage
<1>10. Len(Told(s, r, l)) <= 2 * Len(SendFront(s, r, l))
  BY <1>2 DEF Guessed
<1>11. sendNumber[r][l] = Len(SendFront(s, r, l))
  BY <1>1, <1>2 DEF ListsAre
<1>12. ~StartedUp(r) /\ Turn(r) = l /\ Neighbor(r, l) = p
  BY <1>1, Names DEF AtLayer
<1> QED
  BY <1>7, <1>8, <1>9, <1>10, <1>11, <1>12 DEF MayHear

\* So can one whose neighbour has gone further.
LEMMA Ahead ==
  ASSUME NEW s \in Setups, ToldByParity(s), Guessed(s), Inv(s), NEW r \in Processes(s), NEW l, AtLayer(s, r, l),
         NEW p, p = Source(s, r, l), NEW m, m = Opposite(l), HeardOn(s, p, m)
  PROVE  GoesOn(r)
<1>1. TypeInv(s) /\ ChannelsAre(s)
  BY DEF Inv
<1>2. l \in LayersOf(s, r) /\ Refined(s) /\ (ToldOn(s, r, l) <=> told[r])
  BY <1>1, TurnCounts
<1>3. p \in Processes(s) /\ m \in LayersOf(s, p) /\ Opposite(m) = l /\ Source(s, p, m) = r
  BY <1>2, OtherSide
<1>4. ToldOn(s, r, l)
  BY <1>1, <1>3, HeardIsTold
<1>5. ToldOn(s, p, m)
  BY <1>1, <1>2, <1>3, NotTold
<1> QED
  BY <1>2, <1>4, <1>5, CanHear DEF GoesOn

\* Two neighbours at the same border: one that has not told can do so.
LEMMA CanTell ==
  ASSUME NEW s \in Setups, ToldByParity(s), Inv(s), NEW r \in Processes(s), NEW l, AtLayer(s, r, l), ~told[r],
         NEW p, p = Source(s, r, l), NEW m, m = Opposite(l), AtLayer(s, p, m)
  PROVE  GoesOn(r)
<1>1. TypeInv(s) /\ ChannelsAre(s) /\ setup = s
  BY DEF Inv, TypeInv
<1>2. /\ l \in LayersOf(s, r) /\ SentOn(s, r, l) = 0
      /\ Opposite(l) \in LayersOf(s, r) => SentOn(s, r, Opposite(l)) = IF IsFirst(s, r, l) THEN 0 ELSE 1
  BY <1>1, TurnCounts
<1>3. p \in Processes(s) /\ m \in LayersOf(s, p) /\ Opposite(m) = l /\ Source(s, p, m) = r
  BY <1>2, OtherSide
<1>4. /\ GotOn(s, p, m) = 0
      /\ Opposite(m) \in LayersOf(s, p) => GotOn(s, p, Opposite(m)) = IF IsFirst(s, p, m) THEN 0 ELSE 1
  BY <1>1, <1>3, TurnCounts
<1>5. AllSent(s, r, l) = AllGot(s, p, m) /\ AllGot(s, p, m) \in Nat
  <2>1. /\ Twin(s, p, m) <=> Twin(s, r, l)
        /\ Twin(s, r, l) => /\ Opposite(l) \in LayersOf(s, r) /\ Opposite(m) \in LayersOf(s, p)
                            /\ IsFirst(s, p, m) <=> IsFirst(s, r, l)
    BY <1>2, <1>3, TwinFacts
  <2> QED
    BY <1>2, <1>4, <2>1 DEF AllSent, AllGot
<1>6. Len(channel[r][p]) = 0
  <2>1. Len(channel[r][p]) = AllSent(s, r, l) - AllGot(s, p, m)
    BY <1>1, <1>3 DEF ChannelsAre, ChannelIs, Holds
  <2> QED
    BY <1>5, <2>1
<1>7. ~StartedUp(r) /\ Turn(r) = l /\ Neighbor(r, l) = p
  BY SMTT(30), <1>1, Names DEF AtLayer
<1>9. ~StartedUp(p) /\ Turn(p) = m /\ Neighbor(p, m) = r
  <2>1. ~Started(s, p) /\ m = LayerSeq[s][p][turn[p]]
    BY DEF AtLayer
  <2>2. Neighbor(p, m) = r
    BY <1>1, <1>3, Names
  <2> QED
    BY <1>1, <2>1, <2>2, Names
<1>8. Posted(p, r) = 1
  BY <1>9 DEF Posted
<1> QED
  BY <1>6, <1>7, <1>8 DEF GoesOn, MayTell, Awaited

\* One of them goes on.
LEMMA Facing ==
  ASSUME NEW s \in Setups, ToldByParity(s), Guessed(s), Inv(s), NEW r \in Processes(s), NEW l, AtLayer(s, r, l),
         NEW p, p = Source(s, r, l), NEW m, m = Opposite(l), AtLayer(s, p, m)
  PROVE  GoesOn(r) \/ GoesOn(p)
<1>1. TypeInv(s)
  BY DEF Inv
<1>2. l \in LayersOf(s, r)
  BY <1>1, TurnCounts
<1>3. p \in Processes(s) /\ m \in LayersOf(s, p) /\ Opposite(m) = l /\ Source(s, p, m) = r
  BY <1>2, OtherSide
<1>4. CASE ~told[r]
  BY <1>4, CanTell
<1>5. CASE ~told[p]
  BY <1>3, <1>5, CanTell
<1>6. CASE told[r] /\ told[p]
  <2>1. ToldOn(s, p, m)
    BY <1>1, <1>3, <1>6, TurnCounts
  <2> QED
    BY <1>6, <2>1, CanHear DEF GoesOn
<1> QED
  BY <1>4, <1>5, <1>6

\* Two processes at the two layers of an axis that do not face each other: the one
\* is a step lower on this axis, or the neighbour on both sides.
LEMMA NotFacing ==
  ASSUME NEW s \in Setups, Refined(s), ToldByParity(s), NoRingAtStart(s), NEW r \in Processes(s), NEW l \in LayersOf(s, r),
         NEW p, p = Source(s, r, l), NEW m, m = Opposite(l), Opposite(m) \in LayersOf(s, p), ~IsFirst(s, p, m)
  PROVE  Twin(s, r, l) \/ Index3D(s, p)[l[1]] < Index3D(s, r)[l[1]]
<1> DEFINE a == l[1]
<1>1. /\ p \in Processes(s) /\ m \in LayersOf(s, p) /\ Opposite(m) = l /\ Source(s, p, m) = r
      /\ a \in Axes /\ l[2] \in SideSet /\ m[1] = a /\ m[2] = -l[2] /\ Has(s, r, a, l[2]) /\ p # None
      /\ p = CommunicationProcess(s, r, a, l[2]) /\ r = CommunicationProcess(s, p, a, m[2])
  BY OtherSide
<1>2. l \in AllLayers /\ l[1] = m[1] /\ l[2] = -m[2] /\ Source(s, p, l) = CommunicationProcess(s, p, a, l[2]) /\ Has(s, p, a, l[2])
  BY <1>1, OtherSide
<1>3. Has(s, p, a, -1) /\ Has(s, p, a, 1)
  BY <1>1, <1>2, OtherSide DEF SideSet
<1>4. SUFFICES ASSUME ~Twin(s, r, l) PROVE Index3D(s, p)[a] < Index3D(s, r)[a]
  OBVIOUS
<1>5. ~Twin(s, p, m)
  BY <1>4, TwinFacts
<1>6. Source(s, p, l) # r
  BY <1>1, <1>5 DEF Twin
<1>7. CommunicationProcess(s, p, a, -1) # CommunicationProcess(s, p, a, 1)
  BY <1>1, <1>2, <1>6 DEF SideSet
<1>8. FillOrder(s, p, a) = <<-1, 1>>
  BY <1>7 DEF FillOrder
<1>9. Len(ProcessNeighbor[s][p][a]) = 2
  <2> DEFINE list == ProcessNeighbor[s][p][a]
  <2>1. Len(list) \in 0 .. 2 /\ \A t \in SideSet : Has(s, p, a, t) <=> \E k \in 1 .. Len(list) : list[k] = t
    BY SMTT(30), <1>1, SidesListed
  <2>2. (\E k \in 1 .. Len(list) : list[k] = -1) /\ (\E k \in 1 .. Len(list) : list[k] = 1)
    BY <1>3, <2>1 DEF SideSet
  <2>3. Len(list) # 0
    BY <2>2
  <2>4. Len(list) # 1
    <3>1. ASSUME Len(list) = 1 PROVE FALSE
      <4>1. list[1] = -1 /\ list[1] = 1
        BY <2>2, <3>1
      <4> QED
        BY <4>1
    <3> QED
      BY <3>1
  <2> QED
    BY <2>1, <2>3, <2>4
<1>10. ProcessNeighbor[s][p][a] = <<-1, 1>>
  BY <1>1, <1>8, <1>9, SidesListed
<1>11. m[2] = 1 /\ l[2] = -1
  <2>1. ProcessNeighbor[s][p][a][1] # m[2]
    BY <1>1 DEF IsFirst
  <2>2. m[2] # -1
    BY <1>10, <2>1
  <2> QED
    BY <1>1, <2>2 DEF SideSet
<1> DEFINE i == Index3D(s, r)[a]
           j == Index3D(s, p)[a]
           n == s.n[a]
<1>12. n \in Nat /\ n > 1 /\ i \in 0 .. n - 1 /\ j \in 0 .. n - 1
  <2>1. n \in Nat \ {0} /\ i \in 0 .. n - 1 /\ j \in 0 .. n - 1
    BY <1>1, SetupFacts, IndexInGrid
  <2>2. n > 1
    BY <1>1, NeighborIs
  <2> QED
    BY <2>1, <2>2
<1>13. /\ Index3D(s, p) = [Index3D(s, r) EXCEPT ![a] = (@ + (-1)) % n]
       /\ Index3D(s, r) = [Index3D(s, p) EXCEPT ![a] = (@ + 1) % n]
  <2>1. -1 \in SideSet /\ 1 \in SideSet
    BY DEF SideSet
  <2>2. p = CommunicationProcess(s, r, a, -1) /\ r = CommunicationProcess(s, p, a, 1) /\ r # None
    BY <1>1, <1>11, OtherSide
  <2>3. Index3D(s, p) = [Index3D(s, r) EXCEPT ![a] = (@ + (-1)) % s.n[a]]
    BY <1>1, <2>1, <2>2, NeighborIs
  <2>4. Index3D(s, r) = [Index3D(s, p) EXCEPT ![a] = (@ + 1) % s.n[a]]
    BY <1>1, <2>1, <2>2, NeighborIs
  <2> QED
    BY Zenon, <2>3, <2>4
<1>14. j = (i + (-1)) % n
  <2>1. Index3D(s, r) \in [Axes -> Nat]
    BY IndexInGrid DEF Within
  <2> QED
    BY <1>1, <1>13, <2>1
<1>15. ~s.periodic[a]
  <2>1. SUFFICES ASSUME s.periodic[a] PROVE FALSE
    OBVIOUS
  <2>2. n <= 2
    BY <1>1, <2>1 DEF NoRingAtStart
  <2>3. n = 2
    BY <1>12, <2>2
  <2> DEFINE q == CommunicationProcess(s, p, a, -1)
  <2>4. q # None /\ q # r
    BY <1>1, <1>3, <1>7, <1>11 DEF Has
  <2>5. q \in Processes(s) /\ Index3D(s, q) = [Index3D(s, p) EXCEPT ![a] = (@ + (-1)) % s.n[a]]
    <3>1. -1 \in SideSet
      BY DEF SideSet
    <3>2. q = CommunicationProcess(s, p, a, -1)
      OBVIOUS
    <3>3. p \in Processes(s) /\ a \in Axes
      BY <1>1
    <3> HIDE DEF q, a
    <3> QED
      BY <2>4, <3>1, <3>2, <3>3, NeighborIs
  <2>6. (j + (-1)) % 2 = (j + 1) % 2
    BY <1>12
  <2>7. Index3D(s, p) \in [Axes -> Nat]
    BY <1>1, IndexInGrid DEF Within
  <2>8. Index3D(s, q) = Index3D(s, r)
    <3>1. Index3D(s, q) = [Index3D(s, p) EXCEPT ![a] = (j + (-1)) % 2]
      BY <2>3, <2>5
    <3>2. Index3D(s, r) = [Index3D(s, p) EXCEPT ![a] = (j + 1) % 2]
      BY <1>13, <2>3
    <3> QED
      BY <2>6, <3>1, <3>2
  <2>9. Index1D(s, Index3D(s, q)) = q /\ Index1D(s, Index3D(s, r)) = r
    BY <2>5, IndexInGrid
  <2> QED
    BY <2>4, <2>8, <2>9
<1>16. i + (-1) \in 0 .. n - 1
  BY <1>1, <1>11, <1>15, NeighborExists DEF Has
<1>17. j = i + (-1)
  <2> HIDE DEF i, j, n
  <2>1. n \in Nat /\ n > 1 /\ i + (-1) \in 0 .. n - 1
    BY <1>12, <1>16
  <2>2. \A k \in 0 .. n - 1 : k % n = k
    BY <2>1
  <2>3. (i + (-1)) % n = i + (-1)
    BY <2>1, <2>2
  <2> QED
    BY <1>14, <2>3
<1> QED
  BY <1>12, <1>17

\* As long as a process starts up, the one that is least in the order of axes and of
\* places, or one that it faces, can go on.
LEMMA StartGoesOn ==
  ASSUME NEW s \in Setups, ToldByParity(s), Guessed(s), NoRingAtStart(s), Inv(s),
         \E r \in Processes(s) : ~Started(s, r)
  PROVE  \E r \in Processes(s) : GoesOn(r)
<1> DEFINE At(r)    == LayerSeq[s][r][turn[r]]
           Starting == { r \in Processes(s) : ~Started(s, r) }
<1>1. TypeInv(s)
  BY DEF Inv
<1>2. ASSUME NEW r \in Starting
      PROVE  /\ r \in Processes(s) /\ AtLayer(s, r, At(r)) /\ Refined(s)
             /\ At(r) \in LayersOf(s, r) /\ At(r)[1] \in Axes /\ Index3D(s, r)[At(r)[1]] \in Nat
  <2>1. AtLayer(s, r, At(r))
    BY DEF AtLayer
  <2>2. At(r) \in LayersOf(s, r) /\ Refined(s)
    BY <1>1, <2>1, TurnCounts
  <2>3. At(r)[1] \in Axes
    BY <2>2, OtherSide
  <2>4. Index3D(s, r)[At(r)[1]] \in Nat
    BY <2>3, IndexInGrid, SetupFacts
  <2> QED
    BY <2>1, <2>2, <2>3, <2>4
<1> HIDE DEF At
<1>3. PICK a \in { At(r)[1] : r \in Starting } : \A b \in { At(r)[1] : r \in Starting } : a <= b
  <2>1. { At(r)[1] : r \in Starting } \subseteq Nat /\ { At(r)[1] : r \in Starting } # {}
    BY <1>2 DEF Axes
  <2> QED
    BY <2>1, LeastElement
<1> DEFINE Places1 == { Index3D(s, r)[a] : r \in { q \in Starting : At(q)[1] = a } }
<1>4. PICK i \in Places1 : \A j \in Places1 : i <= j
  <2>1. Places1 \subseteq Nat /\ Places1 # {}
    BY <1>2, <1>3
  <2> QED
    BY <2>1, LeastElement
<1>5. PICK r \in Starting : At(r)[1] = a /\ Index3D(s, r)[a] = i
  BY <1>4
<1> DEFINE l == At(r)
           p == Source(s, r, l)
           m == Opposite(l)
<1>6. /\ r \in Processes(s) /\ AtLayer(s, r, l) /\ l \in LayersOf(s, r) /\ l[1] = a /\ a \in Axes /\ Refined(s)
  BY <1>2, <1>5
<1>7. /\ p \in Processes(s) /\ m \in LayersOf(s, p) /\ Opposite(m) = l /\ Source(s, p, m) = r /\ m[1] = a
  BY <1>6, OtherSide
<1>8. CASE HeardOn(s, p, m)
  BY <1>6, <1>8, Ahead
<1>9. CASE ~HeardOn(s, p, m)
  <2>1. ~Started(s, p)
    <3>1. turn[p] \in Nat
      BY <1>1, <1>7 DEF TypeInv, Typed
    <3> QED
      BY <1>6, <1>7, <1>9, <3>1, AllTold
  <2> DEFINE h == At(p)
  <2>2. p \in Starting /\ AtLayer(s, p, h) /\ h \in LayersOf(s, p) /\ h[1] \in Axes
    BY <1>2, <1>7, <2>1
  <2>3. a <= h[1]
    BY <1>3, <2>2
  <2>4. PlaceOf(s, p, h) = turn[p] /\ turn[p] \in 1 .. Len(LayerSeq[s][p]) /\ LayerSeq[s][p][turn[p]] = h
    BY <1>1, <1>7, <2>2, TurnCounts DEF AtLayer
  <2>5. PlaceOf(s, p, m) \in 1 .. Len(LayerSeq[s][p]) /\ LayerSeq[s][p][PlaceOf(s, p, m)] = m
    BY <1>7, Places
  <2>6. turn[p] <= PlaceOf(s, p, m)
    BY <1>6, <1>9, <2>4, <2>5 DEF HeardOn
  <2>7. CASE turn[p] = PlaceOf(s, p, m)
    <3>1. h = m
      BY <2>4, <2>5, <2>7
    <3>2. AtLayer(s, p, m)
      BY <2>2, <3>1
    <3> QED
      BY <1>6, <1>7, <3>2, Facing
  <2>8. CASE turn[p] < PlaceOf(s, p, m)
    <3>1. h[1] <= m[1] /\ (h[1] = m[1] => IsFirst(s, p, h) /\ m = Opposite(h) /\ ~IsFirst(s, p, m))
      BY <1>7, <2>4, <2>5, <2>8, LayersSorted
    <3>2. h[1] = a
      BY <1>6, <1>7, <2>2, <2>3, <3>1 DEF Axes
    <3>3. IsFirst(s, p, h) /\ m = Opposite(h) /\ ~IsFirst(s, p, m) /\ Opposite(m) = h
      BY <1>7, <2>2, <3>1, <3>2, OtherSide
    <3>4. Twin(s, r, l)
      <4>1. i <= Index3D(s, p)[a]
        <5>1. Index3D(s, p)[a] \in Places1
          BY <2>2, <3>2
        <5> QED
          BY <1>4, <5>1
      <4>2. Index3D(s, p)[a] \in Nat /\ i \in Nat
        BY <1>2, <1>5, <2>2, <3>2
      <4>3. ~(Index3D(s, p)[a] < Index3D(s, r)[a])
        BY <1>5, <4>1, <4>2
      <4>4. Opposite(m) \in LayersOf(s, p)
        BY <2>2, <3>3
      <4>5. Twin(s, r, l) \/ Index3D(s, p)[l[1]] < Index3D(s, r)[l[1]]
        <5> HIDE DEF l
        <5> QED
          BY <1>6, <3>3, <4>4, NotFacing
      <4> QED
        BY <1>6, <4>3, <4>5
    <3>5. m \in LayersOf(s, r) /\ IsFirst(s, r, m) /\ (IsFirst(s, p, m) <=> IsFirst(s, r, l)) /\ ~IsFirst(s, r, l)
      BY <1>6, <3>3, <3>4, TwinFacts
    <3>6. HeardOn(s, r, m)
      <4>1. PlaceOf(s, r, l) = PlaceOf(s, r, m) + 1
        BY <1>6, <1>7, <3>5, TwinPlaces
      <4>2. PlaceOf(s, r, l) = turn[r] /\ PlaceOf(s, r, m) \in Nat
        BY <1>1, <1>6, <3>5, TurnCounts, Places
      <4> QED
        BY <1>6, <4>1, <4>2 DEF HeardOn
    <3>7. Source(s, p, h) = r
      <4>1. p = Source(s, r, l) /\ m = Opposite(l)
        OBVIOUS
      <4> HIDE DEF h, p, m, l
      <4>2. Twin(s, p, m)
        BY <1>6, <3>4, <4>1, TwinFacts
      <4>3. Source(s, p, Opposite(m)) = r
        BY <1>7, <4>2 DEF Twin
      <4> QED
        BY <3>3, <4>3
    <3>8. Opposite(h) = m
      BY <3>3
    <3> HIDE DEF h, p, m
    <3> QED
      BY <1>7, <2>2, <3>6, <3>7, <3>8, Ahead
  <2> QED
    BY <2>4, <2>5, <2>6, <2>7, <2>8
<1> QED
  BY <1>8, <1>9

-----------------------------------------------------------------------------
(* Nobody waits in a circle in an exchange *)

\* How far a process has come after start-up.
Progress(s, r) == 4 * Exchange(s, r) + axis[r]

\* What a process has sent and received on a layer before its first exchange.
AtFirst(s) == IF Refined(s) THEN 1 ELSE 0

\* The messages of a process after its start-up, by exchange and axis.
LEMMA StartedCounts ==
  ASSUME NEW s \in Setups, TypeInv(s), NEW r \in Processes(s), Started(s, r), NEW l \in LayersOf(s, r)
  PROVE  /\ SentOn(s, r, l) = AtFirst(s) + Exchange(s, r) - (IF SentIn(s, r, l) THEN 0 ELSE 1)
         /\ GotOn(s, r, l) = AtFirst(s) + Exchange(s, r) - (IF axis[r] > l[1] THEN 0 ELSE 1)
         /\ AtFirst(s) \in Nat /\ Exchange(s, r) \in Nat /\ axis[r] \in 1 .. 4 /\ l[1] \in 1 .. 3
         /\ SentOn(s, r, l) \in Nat /\ GotOn(s, r, l) \in Nat
<1>1. turn[r] \in Nat
  BY CountParts
<1>2. /\ (IF ToldOn(s, r, l) THEN 1 ELSE 0) = AtFirst(s)
      /\ (IF HeardOn(s, r, l) THEN 1 ELSE 0) = AtFirst(s)
  BY <1>1, AllTold DEF AtFirst, ToldOn, HeardOn
<1>3. AtFirst(s) \in Nat
  BY DEF AtFirst
<1> QED
  BY <1>2, <1>3, CountParts, CountsType DEF SentOn, GotOn

\* A process that is no further than another on an axis has received no more on it, and
\* if it is less far, less.
LEMMA ProgressCounts ==
  ASSUME NEW s \in Setups, TypeInv(s), NEW r \in Processes(s), Started(s, r), axis[r] \in Axes,
         NEW p \in Processes(s), Started(s, p), NEW m \in LayersOf(s, p), m[1] = axis[r], Progress(s, r) <= Progress(s, p)
  PROVE  /\ Progress(s, r) # Progress(s, p) => /\ GotOn(s, p, m) >= AtFirst(s) + Exchange(s, r)
                                               /\ SentOn(s, p, m) >= AtFirst(s) + Exchange(s, r)
         /\ Progress(s, r) = Progress(s, p) => /\ axis[p] = axis[r] /\ Exchange(s, p) = Exchange(s, r)
                                               /\ GotOn(s, p, m) = AtFirst(s) + Exchange(s, r) - 1
<1>1. /\ SentOn(s, p, m) = AtFirst(s) + Exchange(s, p) - (IF SentIn(s, p, m) THEN 0 ELSE 1)
      /\ GotOn(s, p, m) = AtFirst(s) + Exchange(s, p) - (IF axis[p] > m[1] THEN 0 ELSE 1)
      /\ AtFirst(s) \in Nat /\ Exchange(s, p) \in Nat /\ axis[p] \in 1 .. 4
  BY StartedCounts
<1>2. Exchange(s, r) \in Nat /\ axis[r] \in 1 .. 3
  BY ExchangeType DEF Axes
<1> DEFINE e == Exchange(s, r)  f == Exchange(s, p)  a == axis[r]  b == axis[p]
<1>3. e \in Nat /\ f \in Nat /\ a \in 1 .. 3 /\ b \in 1 .. 4 /\ 4 * e + a <= 4 * f + b
  BY <1>1, <1>2 DEF Progress
<1> HIDE DEF e, f, a, b
<1>4. CASE f > e
  <2>1. 4 * e + a # 4 * f + b
    BY ONLY <1>3, <1>4
  <2> QED
    BY <1>1, <1>3, <1>4, <2>1 DEF Progress, e, f, a, b
<1>5. CASE f = e
  <2>1. a <= b
    BY ONLY <1>3, <1>5
  <2>2. b > a => SentIn(s, p, m)
    BY DEF SentIn, a, b
  <2>3. 4 * e + a = 4 * f + b <=> b = a
    BY ONLY <1>3, <1>5
  <2>4. b # a => b > a
    BY ONLY <1>3, <2>1
  <2>5. b = a => ~(b > a)
    BY ONLY <1>3
  <2> QED
    BY <1>1, <1>3, <1>5, <2>2, <2>3, <2>4, <2>5 DEF Progress, e, f, a, b
<1>6. ~(f < e)
  BY ONLY <1>3
<1> QED
  BY ONLY <1>3, <1>4, <1>5, <1>6

\* A process that is not further than any other and has not sent to all neighbours finds
\* that the next one has posted a receive.
LEMMA CanSend ==
  ASSUME NEW s \in Setups, ToldByParity(s), Inv(s), \A q \in Processes(s) : Started(s, q),
         NEW r \in Processes(s), axis[r] \in Axes, sent[r] < Len(ProcessNeighbor[s][r][axis[r]]),
         \A q \in Processes(s) : Progress(s, r) <= Progress(s, q)
  PROVE  MaySend(r)
<1>1. TypeInv(s) /\ ChannelsAre(s) /\ setup = s
  BY DEF Inv, TypeInv
<1> DEFINE a == axis[r]
           k == sent[r] + 1
           l == <<a, ProcessNeighbor[s][r][a][k]>>
           p == Source(s, r, l)
           m == Opposite(l)
<1>2. k \in 1 .. Len(ProcessNeighbor[s][r][a]) /\ sent[r] \in 0 .. 2
  <2>1. sent[r] \in 0 .. 2
    BY <1>1 DEF TypeInv, Typed
  <2>2. Len(ProcessNeighbor[s][r][a]) \in 0 .. 2
    BY SidesListed
  <2> QED
    BY SMTT(30), <2>1, <2>2
<1>3. l \in LayersOf(s, r) /\ SideOf(s, r, l) = k /\ l[1] = a /\ RankNeighbor[s][r][a][k] = p
  BY SMTT(30), <1>2, SideLayer
<1>4. p \in Processes(s) /\ m \in LayersOf(s, p) /\ Opposite(m) = l /\ Source(s, p, m) = r /\ m[1] = a
  BY <1>3, OtherSide
<1> DEFINE b == AtFirst(s) + Exchange(s, r) - 1
<1>5. SentOn(s, r, l) = b /\ b \in Nat /\ Exchange(s, r) \in Nat /\ AtFirst(s) \in Nat
  <2>1. ~SentIn(s, r, l)
    BY <1>2, <1>3 DEF SentIn, Axes
  <2> QED
    BY <1>1, <1>3, <2>1, StartedCounts
<1>6. \A h \in LayersOf(s, r) : SentOn(s, r, h) <= b + 1 /\ SentOn(s, r, h) \in Nat
  BY <1>1, <1>5, StartedCounts
<1>7. \A h \in LayersOf(s, p) : h[1] = a =>
        /\ Progress(s, r) # Progress(s, p) => GotOn(s, p, h) >= b + 1
        /\ Progress(s, r) = Progress(s, p) => axis[p] = a /\ GotOn(s, p, h) = b
        /\ GotOn(s, p, h) \in Nat
  <2> TAKE h \in LayersOf(s, p)
  <2>1. SUFFICES ASSUME h[1] = a
        PROVE  /\ Progress(s, r) # Progress(s, p) => GotOn(s, p, h) >= b + 1
               /\ Progress(s, r) = Progress(s, p) => axis[p] = a /\ GotOn(s, p, h) = b
               /\ GotOn(s, p, h) \in Nat
    OBVIOUS
  <2>2. GotOn(s, p, h) \in Nat
    BY <1>1, <1>4, CountsType
  <2>3. /\ Progress(s, r) # Progress(s, p) => GotOn(s, p, h) >= AtFirst(s) + Exchange(s, r)
        /\ Progress(s, r) = Progress(s, p) => axis[p] = axis[r] /\ GotOn(s, p, h) = AtFirst(s) + Exchange(s, r) - 1
    <3> HIDE DEF p, l, k, m
    <3> QED
      BY <1>1, <1>4, <2>1, ProgressCounts
  <2>4. b + 1 = AtFirst(s) + Exchange(s, r)
    BY <1>5
  <2> QED
    BY <2>2, <2>3, <2>4
<1>8. Len(channel[r][p]) = AllSent(s, r, l) - AllGot(s, p, m)
  BY <1>1, <1>4 DEF ChannelsAre, ChannelIs, Holds
<1>9. Len(channel[r][p]) \in Nat
  BY <1>1, <1>4, ChannelList
<1>10. Twin(s, p, m) <=> Twin(s, r, l)
  BY <1>3, TwinFacts
<1>11. /\ Partners(r, a)[sent[r] + 1] = p /\ axis[r] \in Axes
       /\ sent[r] < Len(Partners(r, a))
  BY SMTT(30), <1>1, <1>3, Names, PartnersListed
<1> HIDE DEF l, p, m, k, b, a
<1>12. Progress(s, r) = Progress(s, p) /\ Len(channel[r][p]) < IF Twin(s, p, m) THEN 2 ELSE 1
  <2>1. CASE ~Twin(s, r, l)
    <3>1. AllSent(s, r, l) = b + 0 /\ AllGot(s, p, m) = GotOn(s, p, m) + 0
      BY <1>5, <1>10, <2>1 DEF AllSent, AllGot
    <3> QED
      BY <1>4, <1>5, <1>7, <1>8, <1>9, <1>10, <2>1, <3>1
  <2>2. CASE Twin(s, r, l)
    <3> DEFINE o == Opposite(m)
               h == Opposite(l)
    <3>1. h \in LayersOf(s, r)
      BY <2>2 DEF Twin
    <3>2. o \in LayersOf(s, p) /\ o[1] = a
      BY <1>3, <1>4, <1>10, <2>2, OtherSide DEF Twin
    <3>3. AllSent(s, r, l) = b + SentOn(s, r, h) /\ AllGot(s, p, m) = GotOn(s, p, m) + GotOn(s, p, o)
      BY <1>5, <1>10, <2>2 DEF AllSent, AllGot
    <3> HIDE DEF o, h
    <3> QED
      BY <1>4, <1>5, <1>6, <1>7, <1>8, <1>9, <1>10, <2>2, <3>1, <3>2, <3>3
  <2> QED
    BY <2>1, <2>2
<1>13. Posted(p, r) = IF Twin(s, p, m) THEN 2 ELSE 1
  <2>1. axis[p] = a /\ m[1] = a /\ axis[p] \in Axes
    BY <1>4, <1>7, <1>12 DEF a
  <2>2. Posted(p, Source(s, p, m)) = IF m[1] # axis[p] THEN 0 ELSE IF Twin(s, p, m) THEN 2 ELSE 1
    BY <1>1, <1>4, <2>1, PostedIs
  <2> QED
    BY <1>4, <2>1, <2>2
<1>14. Awaited(r, p)
  BY <1>12, <1>13 DEF Awaited
<1> QED
  BY <1>11, <1>14 DEF MaySend, a

\* If those that are as far have sent to all neighbours, it has got all messages it
\* waits for.
LEMMA CanReceive ==
  ASSUME NEW s \in Setups, ToldByParity(s), Inv(s), \A q \in Processes(s) : Started(s, q),
         NEW r \in Processes(s), axis[r] \in Axes,
         \A q \in Processes(s) : Progress(s, r) <= Progress(s, q),
         \A q \in Processes(s) : Progress(s, q) = Progress(s, r) => sent[q] >= Len(ProcessNeighbor[s][q][axis[r]])
  PROVE  MayReceive(r)
<1>1. TypeInv(s) /\ ChannelsAre(s) /\ ListsAre(s) /\ setup = s
  BY DEF Inv, TypeInv
<1> DEFINE a == axis[r]
<1>2. ASSUME NEW l \in LayersOf(s, r), l[1] = a, NEW p, p = Source(s, r, l)
      PROVE  /\ Len(channel[p][r]) >= IF Twin(s, r, l) THEN 2 ELSE 1
             /\ Posted(r, p) = IF Twin(s, r, l) THEN 2 ELSE 1
  <2> DEFINE m == Opposite(l)
             b == AtFirst(s) + Exchange(s, r) - 1
  <2>1. p \in Processes(s) /\ m \in LayersOf(s, p) /\ Opposite(m) = l /\ Source(s, p, m) = r /\ m[1] = a
    BY <1>2, OtherSide
  <2>2. ASSUME NEW h \in LayersOf(s, p), h[1] = a
        PROVE  SentOn(s, p, h) >= b + 1 /\ SentOn(s, p, h) \in Nat
    <3>1. /\ AtFirst(s) \in Nat /\ Exchange(s, r) \in Nat /\ SentOn(s, p, h) \in Nat
          /\ SentOn(s, p, h) = AtFirst(s) + Exchange(s, p) - (IF SentIn(s, p, h) THEN 0 ELSE 1)
      BY <1>1, <1>2, <2>1, <2>2, StartedCounts
    <3>2. b + 1 = AtFirst(s) + Exchange(s, r)
      BY <3>1
    <3>3. CASE Progress(s, r) # Progress(s, p)
      <4>1. SentOn(s, p, h) >= AtFirst(s) + Exchange(s, r)
        <5> HIDE DEF m, b
        <5> QED
          BY <1>1, <2>1, <2>2, <3>3, ProgressCounts
      <4> QED
        BY <3>1, <3>2, <4>1
    <3>4. CASE Progress(s, r) = Progress(s, p)
      <4>1. axis[p] = a /\ Exchange(s, p) = Exchange(s, r)
        <5> HIDE DEF m, b
        <5> QED
          BY <1>1, <2>1, <2>2, <3>4, ProgressCounts
      <4>2. sent[p] >= Len(ProcessNeighbor[s][p][a])
        BY <2>1, <3>4
      <4>3. SideOf(s, p, h) \in 1 .. Len(ProcessNeighbor[s][p][a]) /\ Len(ProcessNeighbor[s][p][a]) \in 1 .. 2
        BY <2>1, <2>2, SidePlaces
      <4>4. sent[p] \in 0 .. 2
        BY <1>1, <2>1 DEF TypeInv, Typed
      <4>5. SideOf(s, p, h) <= sent[p]
        BY <4>2, <4>3, <4>4
      <4>6. SentIn(s, p, h)
        BY <2>2, <4>1, <4>5 DEF SentIn
      <4> QED
        BY <3>1, <3>2, <4>1, <4>6
    <3> QED
      BY <3>3, <3>4
  <2>3. ASSUME NEW h \in LayersOf(s, r), h[1] = a
        PROVE  GotOn(s, r, h) = b /\ b \in Nat
    <3>1. GotOn(s, r, h) + 1 = AtFirst(s) + Exchange(s, r)
      BY <1>1, <2>3, CountsOnAxis DEF AtFirst
    <3>2. GotOn(s, r, h) \in Nat /\ AtFirst(s) \in Nat /\ Exchange(s, r) \in Nat
      BY <1>1, <2>3, StartedCounts
    <3> QED
      BY <3>1, <3>2
  <2>4. Len(channel[p][r]) = AllSent(s, p, m) - AllGot(s, r, l)
    BY <1>1, <1>2 DEF ChannelsAre, ChannelIs, Holds
  <2>5. Twin(s, p, m) <=> Twin(s, r, l)
    BY <1>2, TwinFacts
  <2>6. Posted(r, p) = IF Twin(s, r, l) THEN 2 ELSE 1
    BY <1>1, <1>2, PostedIs
  <2> HIDE DEF b, a, m
  <2>7. CASE ~Twin(s, r, l)
    <3>1. AllSent(s, p, m) = SentOn(s, p, m) + 0 /\ AllGot(s, r, l) = b + 0
      BY <1>2, <2>3, <2>5, <2>7 DEF AllSent, AllGot
    <3> QED
      BY <1>2, <2>1, <2>2, <2>3, <2>4, <2>6, <2>7, <3>1
  <2>8. CASE Twin(s, r, l)
    <3> DEFINE o == Opposite(m)
               h == Opposite(l)
    <3>1. h \in LayersOf(s, r) /\ h[1] = a
      BY <1>2, <2>8, OtherSide DEF Twin
    <3>2. o \in LayersOf(s, p) /\ o[1] = a
      BY <2>1, <2>5, <2>8, OtherSide DEF Twin
    <3>3. AllSent(s, p, m) = SentOn(s, p, m) + SentOn(s, p, o) /\ AllGot(s, r, l) = GotOn(s, r, l) + GotOn(s, r, h)
      BY <2>5, <2>8 DEF AllSent, AllGot
    <3> HIDE DEF o, h
    <3> QED
      BY <1>2, <2>1, <2>2, <2>3, <2>4, <2>6, <2>8, <3>1, <3>2, <3>3
  <2> QED
    BY <2>7, <2>8
<1>3. sent[r] = Len(Partners(r, a))
  <2>1. sent[r] >= Len(ProcessNeighbor[s][r][a]) /\ Len(RankNeighbor[s][r][a]) = Len(ProcessNeighbor[s][r][a])
    BY PartnersListed
  <2>2. sent[r] <= Len(ProcessNeighbor[s][r][a]) /\ sent[r] \in 0 .. 2
    BY <1>1 DEF TypeInv, Typed, Time
  <2>3. Len(ProcessNeighbor[s][r][a]) \in 0 .. 2
    BY SidesListed
  <2> QED
    BY <1>1, <2>1, <2>2, <2>3, Names
<1>4. ASSUME NEW p \in ToSet(Partners(r, a)) PROVE Len(channel[p][r]) >= Posted(r, p)
  <2>1. Partners(r, a) = RankNeighbor[s][r][a]
    BY <1>1, Names
  <2>2. PICK k \in DOMAIN RankNeighbor[s][r][a] : RankNeighbor[s][r][a][k] = p
    BY <1>4, <2>1 DEF ToSet
  <2>3. k \in 1 .. Len(ProcessNeighbor[s][r][a])
    BY <2>2, PartnersListed
  <2> DEFINE l == <<a, ProcessNeighbor[s][r][a][k]>>
  <2>4. l \in LayersOf(s, r) /\ l[1] = a /\ p = Source(s, r, l)
    BY <2>2, <2>3, SideLayer
  <2> HIDE DEF l
  <2> QED
    BY <1>2, <2>4
<1>5. ASSUME NEW side \in Sides(r, a) PROVE Len(Messages(r, a)[side]) <= RecvCount(r, <<a, side>>)
  <2> DEFINE l == <<a, side>>
  <2>1. l \in LayersOf(s, r) /\ l[1] = a /\ l[2] = side
    BY <1>1, <1>5, SidesAre
  <2> HIDE DEF l
  <2>2. Len(Messages(r, l[1])[l[2]]) = RecvCount(r, l)
    BY <1>1, <1>2, <2>1, ReceivedIs
  <2>3. RecvCount(r, l) \in Nat
    <3>1. Len(Messages(r, l[1])[l[2]]) = RecvLength(s, r, l, Exchange(s, r))
      BY <1>1, <2>1, <2>2, RecvCountIs
    <3> QED
      BY <1>1, <2>1, <2>2, <3>1, CountsAgree, ExchangeType
  <2> QED
    BY <2>1, <2>2, <2>3 DEF l
<1> QED
  BY <1>3, <1>4, <1>5 DEF MayReceive

\* As long as a process exchanges, one of those that have come least far can go on.
LEMMA ExchangeGoesOn ==
  ASSUME NEW s \in Setups, ToldByParity(s), Inv(s), \A q \in Processes(s) : Started(s, q),
         \E q \in Processes(s) : axis[q] \in Axes
  PROVE  \E r \in Processes(s) : GoesOn(r)
<1>1. TypeInv(s) /\ setup = s
  BY DEF Inv, TypeInv
<1>2. \A q \in Processes(s) : Exchange(s, q) \in Nat /\ axis[q] \in 1 .. 4 /\ Progress(s, q) \in Nat
  <2> TAKE q \in Processes(s)
  <2>1. Exchange(s, q) \in Nat
    BY <1>1, ExchangeType
  <2>2. axis[q] \in 1 .. 4
    BY <1>1 DEF TypeInv, Typed
  <2> QED
    BY <2>1, <2>2 DEF Progress
<1>3. PICK n \in { Progress(s, q) : q \in Processes(s) } : \A k \in { Progress(s, q) : q \in Processes(s) } : n <= k
  <2>1. { Progress(s, q) : q \in Processes(s) } \subseteq Nat /\ { Progress(s, q) : q \in Processes(s) } # {}
    BY <1>2
  <2> QED
    BY <2>1, LeastElement
<1>4. PICK r \in Processes(s) : \A q \in Processes(s) : Progress(s, r) <= Progress(s, q)
  BY <1>3
<1>5. CASE axis[r] \in Axes
  <2>1. CASE \E q \in Processes(s) : Progress(s, q) = Progress(s, r) /\ sent[q] < Len(ProcessNeighbor[s][q][axis[r]])
    <3>1. PICK q \in Processes(s) : Progress(s, q) = Progress(s, r) /\ sent[q] < Len(ProcessNeighbor[s][q][axis[r]])
      BY <2>1
    <3>2. axis[q] = axis[r]
      <4> DEFINE e == Exchange(s, r)  f == Exchange(s, q)  a == axis[r]  b == axis[q]
      <4>1. e \in Nat /\ f \in Nat /\ a \in 1 .. 4 /\ b \in 1 .. 4 /\ 4 * f + b = 4 * e + a
        BY <1>2, <3>1 DEF Progress
      <4> HIDE DEF e, f, a, b
      <4>2. b = a
        BY ONLY <4>1
      <4> QED
        BY <4>2 DEF a, b
    <3>3. \A o \in Processes(s) : Progress(s, q) <= Progress(s, o)
      BY <1>4, <3>1
    <3>4. MaySend(q)
      BY <1>5, <3>1, <3>2, <3>3, CanSend
    <3> QED
      BY <3>4 DEF GoesOn
  <2>2. CASE ~\E q \in Processes(s) : Progress(s, q) = Progress(s, r) /\ sent[q] < Len(ProcessNeighbor[s][q][axis[r]])
    <3>1. ASSUME NEW q \in Processes(s), Progress(s, q) = Progress(s, r)
          PROVE  sent[q] >= Len(ProcessNeighbor[s][q][axis[r]])
      <4>1. sent[q] \in 0 .. 2 /\ Len(ProcessNeighbor[s][q][axis[r]]) \in 0 .. 2
        BY <1>1, <1>5, SidesListed DEF TypeInv, Typed
      <4> QED
        BY <2>2, <3>1, <4>1
    <3>2. MayReceive(r)
      BY <1>4, <1>5, <3>1, CanReceive
    <3> QED
      BY <3>2 DEF GoesOn
  <2> QED
    BY <2>1, <2>2
<1>6. CASE axis[r] \notin Axes
  <2>1. axis[r] = 4 /\ StartedUp(r) /\ step[r] \in 0 .. s.steps /\ afterFtoC[r] \in BOOLEAN /\ (afterFtoC[r] => Refined(s))
    <3>1. axis[r] = 4
      BY <1>2, <1>6 DEF Axes
    <3>2. StartedUp(r)
      BY <1>1, Names
    <3>3. step[r] \in 0 .. s.steps /\ afterFtoC[r] \in BOOLEAN /\ (afterFtoC[r] => Refined(s))
      BY <1>1 DEF TypeInv, Typed, Time
    <3> QED
      BY <3>1, <3>2, <3>3
  <2>2. CASE Refined(s) /\ ~afterFtoC[r]
    <3>1. MayInterpolate(r)
      BY <1>1, <2>1, <2>2 DEF MayInterpolate
    <3> QED
      BY <3>1 DEF GoesOn
  <2>3. CASE ~(Refined(s) /\ ~afterFtoC[r])
    <3>1. afterFtoC[r] <=> Refined(s)
      BY <2>1, <2>3
    <3>2. step[r] < s.steps
      <4>1. SUFFICES ASSUME ~(step[r] < s.steps) PROVE FALSE
        OBVIOUS
      <4>2. s.steps \in Nat
        BY SetupFacts
      <4>3. step[r] = s.steps
        BY <2>1, <4>1, <4>2
      <4>4. PICK q \in Processes(s) : axis[q] \in Axes
        OBVIOUS
      <4>5. step[q] \in 0 .. s.steps
        BY <1>1 DEF TypeInv, Typed
      <4>6. Exchange(s, q) <= Exchange(s, r)
        <5>1. CASE Refined(s)
          <6>1. Exchange(s, r) = 2 * s.steps - 0
            BY <3>1, <4>3, <5>1 DEF Exchange
          <6>2. Exchange(s, q) = 2 * step[q] - (IF afterFtoC[q] THEN 0 ELSE 1)
            BY <5>1 DEF Exchange
          <6> QED
            BY <4>2, <4>5, <6>1, <6>2
        <5>2. CASE ~Refined(s)
          <6>1. Exchange(s, r) = s.steps /\ Exchange(s, q) = step[q]
            BY <4>3, <5>2 DEF Exchange
          <6> QED
            BY <4>2, <4>5, <6>1
        <5> QED
          BY <5>1, <5>2
      <4>7. axis[q] \in 1 .. 3
        BY <4>4 DEF Axes
      <4>8. 4 * Exchange(s, r) + 4 <= 4 * Exchange(s, q) + axis[q]
        BY <1>4, <2>1 DEF Progress
      <4> QED
        BY <1>2, <4>6, <4>7, <4>8
    <3>3. afterFtoC[r] = Refined(setup)
      <4>1. Refined(s) \in BOOLEAN
        BY DEF Refined
      <4> QED
        BY <1>1, <2>1, <3>1, <4>1, Zenon
    <3>4. MayCollide(r)
      BY <1>1, <2>1, <3>2, <3>3 DEF MayCollide
    <3> QED
      BY <3>4 DEF GoesOn
  <2> QED
    BY <2>2, <2>3
<1> QED
  BY <1>5, <1>6

\* The invariant implies that some process can go on.
LEMMA InvGivesNoWait ==
  ASSUME NEW s \in Setups, ToldByParity(s), Guessed(s), NoRingAtStart(s), Inv(s)
  PROVE  NoCircularWait
<1>1. setup = s /\ TypeInv(s)
  BY DEF Inv, TypeInv
<1>2. SUFFICES ASSUME \E r \in Processes(s) : ~Started(s, r) \/ axis[r] \in Axes
      PROVE  \E r \in Processes(s) : GoesOn(r)
  BY <1>1, Names DEF NoCircularWait, GoesOn
<1>3. CASE \E r \in Processes(s) : ~Started(s, r)
  BY <1>3, StartGoesOn
<1>4. CASE \A r \in Processes(s) : Started(s, r)
  BY <1>2, <1>4, ExchangeGoesOn
<1> QED
  BY <1>3, <1>4

\* On every grid without a ring of three or more at start-up, whether MPI buffers or
\* not, blocking sends and waits never wait for each other in a circle
\* (MPICommunicator::receiveSend, startBlockingMpiSend and waitAll in ExchangeData27).
THEOREM NoWaiting == Spec => [](ToldByParity(setup) /\ Guessed(setup) /\ NoRingAtStart(setup) => NoCircularWait)
<1>1. ASSUME setup \in Setups, ToldByParity(setup) /\ Guessed(setup) => Inv(setup),
             ToldByParity(setup), Guessed(setup), NoRingAtStart(setup)
      PROVE  NoCircularWait
  <2>1. PICK s \in Setups : setup = s
    BY <1>1
  <2>2. Inv(s) /\ ToldByParity(s) /\ Guessed(s) /\ NoRingAtStart(s)
    BY <1>1, <2>1
  <2> QED
    BY <2>2, InvGivesNoWait
<1>2. setup \in Setups /\ TypeInv(setup) /\ (ToldByParity(setup) /\ Guessed(setup) => Inv(setup))
        => (ToldByParity(setup) /\ Guessed(setup) /\ NoRingAtStart(setup) => NoCircularWait)
  BY <1>1
<1> QED
  BY <1>2, Invariance, PTL

-----------------------------------------------------------------------------
(* Grids of one level *)

\* How far apart the numbers of neighbours on an axis are.
Stride(n, a) == IF a = 1 THEN 1 ELSE IF a = 2 THEN n[1] ELSE n[1] * n[2]

\* Where two sub-domains are each other's neighbours on both sides, their ranks
\* have different parity when the numbers on this axis are an odd number apart.
PairsDiffer(s) == \A a \in Axes : s.periodic[a] /\ s.n[a] = 2 => Stride(s.n, a) % 2 = 1

\* The same process on both sides of an axis: there are two, and they form a ring.
LEMMA PairOnAxis ==
  ASSUME NEW s \in Setups, NEW r \in Processes(s), NEW a \in Axes,
         NEW p, p = CommunicationProcess(s, r, a, 1), p # None, p = CommunicationProcess(s, r, a, -1)
  PROVE  /\ p \in Processes(s) /\ s.n[a] = 2 /\ s.periodic[a]
         /\ Index3D(s, p) = [Index3D(s, r) EXCEPT ![a] = (@ + 1) % s.n[a]]
<1> DEFINE i == Index3D(s, r)[a]  n == s.n[a]
<1>1. /\ p \in Processes(s) /\ n > 1
      /\ Index3D(s, p) = [Index3D(s, r) EXCEPT ![a] = (@ + 1) % n]
  BY NeighborIs DEF SideSet
<1>2. Index3D(s, p) = [Index3D(s, r) EXCEPT ![a] = (@ + (-1)) % n]
  BY NeighborIs DEF SideSet
<1>3. i \in 0 .. n - 1 /\ n \in Nat /\ Index3D(s, r) \in [Axes -> Nat]
  BY IndexInGrid, SetupFacts DEF Within
<1>4. (i + 1) % n = (i + (-1)) % n
  BY <1>1, <1>2, <1>3
<1>5. (i + 1 \in 0 .. n - 1 \/ s.periodic[a]) /\ (i + (-1) \in 0 .. n - 1 \/ s.periodic[a])
  BY NeighborExists DEF SideSet
<1> HIDE DEF i, n
<1>6. n = 2
  <2>1. CASE i = 0
    <3>1. (-1) % n = n - 1 /\ 1 % n = 1 /\ i + 1 = 1 /\ i + (-1) = -1
      BY <1>1, <1>3, <2>1
    <3> QED
      BY ONLY <1>3, <1>4, <3>1
  <2>2. CASE i = n - 1
    <3>1. i + 1 = n /\ n % n = 0 /\ i + (-1) \in 0 .. n - 1
      BY <1>1, <1>3, <2>2
    <3>2. (i + (-1)) % n = i + (-1)
      BY <1>1, <1>3, <3>1
    <3> QED
      BY ONLY <1>3, <1>4, <2>2, <3>1, <3>2
  <2>3. CASE i # 0 /\ i # n - 1
    <3>1. i + 1 \in 0 .. n - 1 /\ i + (-1) \in 0 .. n - 1
      BY <1>3, <2>3
    <3>2. (i + 1) % n = i + 1 /\ (i + (-1)) % n = i + (-1)
      BY <1>1, <1>3, <3>1
    <3> QED
      BY ONLY <1>3, <1>4, <3>2
  <2> QED
    BY <2>1, <2>2, <2>3
<1>7. s.periodic[a]
  BY ONLY <1>3, <1>5, <1>6
<1> QED
  BY <1>1, <1>6, <1>7 DEF n

\* A number and one that is an odd number larger have different parity.
LEMMA OddStep ==
  ASSUME NEW x \in Nat, NEW y \in Nat, NEW d \in Nat, d % 2 = 1, y = x + d \/ x = y + d
  PROVE  x % 2 # y % 2
OBVIOUS

\* A step of one on an axis is a step of the stride.
LEMMA StrideApart ==
  ASSUME NEW n \in Extent, NEW i \in [Axes -> Nat], NEW a \in Axes, NEW j \in [Axes -> Nat],
         \A b \in Axes : b # a => j[b] = i[b], j[a] = i[a] + 1
  PROVE  /\ Number(n, i) \in Nat /\ Number(n, j) \in Nat /\ Stride(n, a) \in Nat
         /\ Number(n, j) = Number(n, i) + Stride(n, a)
<1>1. /\ n[1] \in Nat /\ n[2] \in Nat
      /\ i[1] \in Nat /\ i[2] \in Nat /\ i[3] \in Nat /\ j[1] \in Nat /\ j[2] \in Nat /\ j[3] \in Nat
  BY DEF Extent, Axes
<1> DEFINE w == n[1] * n[2]
<1>2. w \in Nat
  BY <1>1
<1>3. \A x \in Nat : x * n[1] \in Nat /\ x * w \in Nat /\ (x + 1) * n[1] = x * n[1] + n[1] /\ (x + 1) * w = x * w + w
  BY <1>1, <1>2
<1>4. ASSUME NEW k \in [Axes -> Nat] PROVE Number(n, k) = k[1] + k[2] * n[1] + k[3] * w
  <2>1. k[3] \in Nat
    BY DEF Axes
  <2>2. k[3] * n[1] * n[2] = k[3] * (n[1] * n[2])
    BY <1>1, <2>1, Rearranged
  <2> QED
    BY <2>2 DEF Number
<1>5. Number(n, i) = i[1] + i[2] * n[1] + i[3] * w /\ Number(n, j) = j[1] + j[2] * n[1] + j[3] * w
  BY <1>4
<1>6. Stride(n, a) = IF a = 1 THEN 1 ELSE IF a = 2 THEN n[1] ELSE w
  BY DEF Stride
<1> HIDE DEF w
<1>7. Number(n, i) \in Nat /\ Number(n, j) \in Nat
  <2>1. /\ i[2] * n[1] \in Nat /\ i[3] * w \in Nat /\ j[2] * n[1] \in Nat /\ j[3] * w \in Nat
    BY <1>1, <1>3
  <2> QED
    BY ONLY <1>1, <1>5, <2>1
<1>8. CASE a = 1
  <2>1. j[2] = i[2] /\ j[3] = i[3] /\ j[1] = i[1] + 1
    BY <1>8 DEF Axes
  <2>2. i[2] * n[1] \in Nat /\ i[3] * w \in Nat
    BY <1>1, <1>3
  <2> QED
    BY <1>1, <1>5, <1>6, <1>7, <1>8, <2>1, <2>2
<1>9. CASE a = 2
  <2>1. j[1] = i[1] /\ j[3] = i[3] /\ j[2] = i[2] + 1
    BY <1>9 DEF Axes
  <2>2. i[2] * n[1] \in Nat /\ i[3] * w \in Nat /\ j[2] * n[1] = i[2] * n[1] + n[1]
    BY <1>1, <1>3, <2>1
  <2> QED
    BY <1>1, <1>5, <1>6, <1>7, <1>9, <2>1, <2>2
<1>10. CASE a = 3
  <2>1. j[1] = i[1] /\ j[2] = i[2] /\ j[3] = i[3] + 1
    BY <1>10 DEF Axes
  <2>2. i[2] * n[1] \in Nat /\ i[3] * w \in Nat /\ j[3] * w = i[3] * w + w
    BY <1>1, <1>3, <2>1
  <2> QED
    BY <1>1, <1>2, <1>5, <1>6, <1>7, <1>10, <2>1, <2>2
<1> QED
  BY <1>8, <1>9, <1>10 DEF Axes

\* Then the positions are told by parity.
LEMMA PairsTold ==
  ASSUME NEW s \in Setups, PairsDiffer(s)
  PROVE  ToldByParity(s)
<1> SUFFICES ASSUME NEW r \in Processes(s), NEW a \in Axes, NEW p, p = CommunicationProcess(s, r, a, 1),
                    p # None, p = CommunicationProcess(s, r, a, -1)
             PROVE  p % 2 # r % 2
  BY DEF ToldByParity
<1> DEFINE i == Index3D(s, r)  j == Index3D(s, p)
<1>1. /\ p \in Processes(s) /\ s.n[a] = 2 /\ s.periodic[a]
      /\ j = [i EXCEPT ![a] = (@ + 1) % s.n[a]]
  BY PairOnAxis
<1>2. /\ s.n \in Extent /\ i \in [Axes -> Nat] /\ i[a] \in 0 .. s.n[a] - 1 /\ Number(s.n, i) = r
      /\ j \in [Axes -> Nat] /\ Number(s.n, j) = p
  BY <1>1, IndexInGrid, SetupFacts DEF Within, Index1D
<1>3. Stride(s.n, a) % 2 = 1
  BY <1>1 DEF PairsDiffer
<1>4. (i[a] = 0 /\ j[a] = 1) \/ (i[a] = 1 /\ j[a] = 0)
  <2>1. j[a] = (i[a] + 1) % 2 /\ i[a] \in 0 .. 1
    BY <1>1, <1>2
  <2> QED
    BY ONLY <2>1
<1>5. \A b \in Axes : b # a => j[b] = i[b]
  BY <1>1, <1>2
<1> HIDE DEF i, j
<1>6. CASE i[a] = 0 /\ j[a] = 1
  <2>1. j[a] = i[a] + 1
    BY <1>6
  <2>2. /\ r \in Nat /\ p \in Nat /\ Stride(s.n, a) \in Nat /\ p = r + Stride(s.n, a)
    BY <1>2, <1>5, <2>1, StrideApart
  <2> QED
    BY <1>3, <2>2, OddStep
<1>7. CASE i[a] = 1 /\ j[a] = 0
  <2>1. i[a] = j[a] + 1 /\ \A b \in Axes : b # a => i[b] = j[b]
    BY <1>5, <1>7
  <2>2. /\ r \in Nat /\ p \in Nat /\ Stride(s.n, a) \in Nat /\ r = p + Stride(s.n, a)
    BY <1>2, <2>1, StrideApart
  <2> QED
    BY <1>3, <2>2, OddStep
<1> QED
  BY <1>4, <1>6, <1>7

\* On a grid of one level none of the conditions is about more than the parity of
\* ranks and the width of the sub-domains: with at least two nodes per sub-domain,
\* and pairs of neighbours an odd number apart, the exchange is right.
THEOREM OneLevel ==
  Spec => [](~Refined(setup) /\ PairsDiffer(setup) /\ (setup.useStreams => setup.width > 1)
               => GhostsFresh /\ NeighboursAgree /\ NoCircularWait)
<1> DEFINE Conditions == ~Refined(setup) /\ PairsDiffer(setup) /\ (setup.useStreams => setup.width > 1)
<1>1. ASSUME setup \in Setups, Conditions
      PROVE  Suitable(setup) /\ ToldByParity(setup) /\ Guessed(setup) /\ NoRingAtStart(setup)
  <2>1. ToldByParity(setup)
    BY <1>1, PairsTold
  <2>2. Guessed(setup) /\ Carried(setup) /\ NoRingAtStart(setup)
    BY <1>1 DEF Guessed, Carried, NoRingAtStart
  <2>3. Patched(setup)
    BY <1>1 DEF Patched
  <2> QED
    BY <2>1, <2>2, <2>3 DEF Suitable
<1>2. setup \in Setups /\ (Suitable(setup) => GhostsFresh)
        /\ (ToldByParity(setup) /\ Guessed(setup) => NeighboursAgree)
        /\ (ToldByParity(setup) /\ Guessed(setup) /\ NoRingAtStart(setup) => NoCircularWait)
        => (Conditions => GhostsFresh /\ NeighboursAgree /\ NoCircularWait)
  BY <1>1
<1> HIDE DEF Conditions
<1>3. Spec => []((Suitable(setup) => GhostsFresh)
        /\ (ToldByParity(setup) /\ Guessed(setup) => NeighboursAgree)
        /\ (ToldByParity(setup) /\ Guessed(setup) /\ NoRingAtStart(setup) => NoCircularWait))
  BY Freshness, Agreement, NoWaiting, PTL
<1>4. Spec => []((setup \in Setups) /\ (Suitable(setup) => GhostsFresh)
        /\ (ToldByParity(setup) /\ Guessed(setup) => NeighboursAgree)
        /\ (ToldByParity(setup) /\ Guessed(setup) /\ NoRingAtStart(setup) => NoCircularWait))
  BY <1>3, Invariance, PTL
<1>5. Spec => [](Conditions => GhostsFresh /\ NeighboursAgree /\ NoCircularWait)
  BY <1>2, <1>4, PTL
<1> QED
  BY <1>5 DEF Conditions
=============================================================================
