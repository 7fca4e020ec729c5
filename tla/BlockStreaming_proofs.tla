------------------------ MODULE BlockStreaming_proofs ------------------------
(***************************************************************************)
(* Proofs about the distributions of the CPU solver, for blocks of any     *)
(* size and any arrangement of blocks, walls and outlets: two              *)
(* distributions never share a slot, the swap is the streaming, ghost      *)
(* nodes agree with the nodes they stand for once they are sent, and the   *)
(* whole implements the lattice Boltzmann step of LatticeBoltzmann.tla.    *)
(***************************************************************************)
EXTENDS BlockStreaming, TLAPS

Triples == [Axes -> Int]

-----------------------------------------------------------------------------
(* Directions and slots *)

\* Turning a direction around twice changes nothing.
LEMMA OppositeTwice ==
  ASSUME NEW d \in Directions
  PROVE  /\ Opposite(d) \in Directions /\ Opposite(Opposite(d)) = d
         /\ (Opposite(d) = Rest) <=> (d = Rest)
         /\ d[1] \in {-1, 0, 1} /\ d[2] \in {-1, 0, 1} /\ d[3] \in {-1, 0, 1}
<1>1. \A k \in Axes : d[k] \in {-1, 0, 1}
  BY DEF Directions
<1>2. Opposite(d) \in Directions
  BY <1>1 DEF Directions, Opposite
<1>3. Opposite(Opposite(d)) = d
  BY <1>1 DEF Directions, Opposite
<1>4. (Opposite(d) = Rest) <=> (d = Rest)
  BY <1>1 DEF Directions, Opposite, Rest
<1> QED
  BY <1>1, <1>2, <1>3, <1>4 DEF Axes

\* The rest is one of the directions.
LEMMA RestIsDirection == Rest \in Directions /\ Opposite(Rest) = Rest
<1>1. Rest \in Directions
  BY DEF Rest, Directions
<1> QED
  BY <1>1, OppositeTwice

\* Of a direction and its opposite, one is read from the local arrays.
LEMMA OneIsAhead ==
  ASSUME NEW d \in Directions, d # Rest
  PROVE  Ahead(Opposite(d)) <=> ~Ahead(d)
<1>1. d[1] \in {-1, 0, 1} /\ d[2] \in {-1, 0, 1} /\ d[3] \in {-1, 0, 1}
  BY OppositeTwice
<1>2. ~(d[1] = 0 /\ d[2] = 0 /\ d[3] = 0)
  BY DEF Directions, Rest, Axes
<1>3. /\ Opposite(d)[1] = -d[1]
      /\ Opposite(d)[2] = -d[2]
      /\ Opposite(d)[3] = -d[3]
  BY DEF Opposite, Axes
<1>4. \A e \in Directions : Ahead(e) <=> \/ e[3] = 1
                                         \/ e[3] = 0 /\ e[2] = 1
                                         \/ e[3] = 0 /\ e[2] = 0 /\ e[1] = 1
  <2> SUFFICES ASSUME NEW e \in Directions
               PROVE  Ahead(e) <=> \/ e[3] = 1
                                   \/ e[3] = 0 /\ e[2] = 1
                                   \/ e[3] = 0 /\ e[2] = 0 /\ e[1] = 1
    OBVIOUS
  <2>1. Axes = {1, 2, 3}
    BY DEF Axes
  <2>2. Ahead(e) <=> \/ e[1] = 1 /\ e[2] = 0 /\ e[3] = 0
                     \/ e[2] = 1 /\ e[3] = 0
                     \/ e[3] = 1
    BY <2>1 DEF Ahead
  <2> QED
    BY <2>2
<1>5. Opposite(d) \in Directions
  BY OppositeTwice
<1>6. \/ d[3] = 1 \/ d[3] = -1
      \/ d[3] = 0 /\ (d[2] = 1 \/ d[2] = -1)
      \/ d[3] = 0 /\ d[2] = 0 /\ (d[1] = 1 \/ d[1] = -1)
  BY <1>1, <1>2
<1> HIDE DEF Ahead, Opposite
<1> QED
  BY <1>1, <1>3, <1>4, <1>5, <1>6

\* The two directions of a pair share an index, and no others do.
LEMMA PairOfOpposite ==
  ASSUME NEW d \in Directions, d # Rest
  PROVE  Pair(d) \in Pairs /\ Pair(Opposite(d)) = Pair(d)
BY OppositeTwice, OneIsAhead DEF Pair, Pairs

\* A slot tells the node and the direction it belongs to: no two
\* distributions share one.
LEMMA SlotIsOnes ==
  ASSUME NEW l \in Arrays, NEW x \in Triples, NEW d \in Directions
  PROVE  PostDirection(l, PostSlot(l, x, d)) = d /\ PostNode(l, PostSlot(l, x, d)) = x
<1>1. CASE d = Rest
  <2>1. Opposite(d) = Rest
    BY <1>1, OppositeTwice
  <2>2. PostSlot(l, x, d) = <<"zero", Rest, x>>
    BY <2>1 DEF PostSlot, PreSlot
  <2>3. PostDirection(l, PostSlot(l, x, d)) = Rest
    BY <2>2 DEF PostDirection
  <2>4. Minus(x, Offset(Rest)) = x
    BY DEF Minus, Offset, Rest, Triples
  <2> QED
    BY <1>1, <2>1, <2>2, <2>3, <2>4 DEF PostNode
<1>2. CASE d # Rest
  <2> DEFINE s == PostSlot(l, x, d)
  <2>1. Opposite(d) # Rest /\ Opposite(d) \in Directions
    BY <1>2, OppositeTwice
  <2>2. s = <<IF Ahead(Opposite(d)) THEN l ELSE Other(l), Pair(Opposite(d)), Plus(x, Offset(Opposite(d)))>>
    BY <2>1 DEF PostSlot, PreSlot
  <2>3. s[1] # "zero" /\ (s[1] = l <=> Ahead(Opposite(d)))
    BY <2>2 DEF Arrays, Other
  <2>4. s[2] = IF Ahead(Opposite(d)) THEN Opposite(d) ELSE d
    BY <2>2, OppositeTwice DEF Pair
  <2>5. PostDirection(l, s) = d
    BY <2>3, <2>4, OppositeTwice DEF PostDirection
  <2>6. Minus(Plus(x, Offset(Opposite(d))), Offset(Opposite(d))) = x
    BY DEF Minus, Plus, Offset, Triples
  <2>7. s[3] = Plus(x, Offset(Opposite(d)))
    BY <2>2
  <2> QED
    BY <2>5, <2>6, <2>7 DEF PostNode
<1> QED
  BY <1>1, <1>2

\* The swap is the streaming: where a node finds a distribution after it,
\* the node one step back left it before.
LEMMA SwapStreams ==
  ASSUME NEW l \in Arrays, NEW x \in Triples, NEW d \in Directions
  PROVE  PreSlot(Other(l), x, d) = PostSlot(l, Minus(x, d), d)
<1>1. CASE d = Rest
  <2>1. Minus(x, d) = x
    BY <1>1 DEF Minus, Rest, Triples
  <2> QED
    BY <1>1, <2>1, OppositeTwice DEF PostSlot, PreSlot
<1>2. CASE d # Rest
  <2>1. Opposite(d) # Rest /\ Pair(Opposite(d)) = Pair(d) /\ (Ahead(Opposite(d)) <=> ~Ahead(d))
    BY <1>2, OppositeTwice, OneIsAhead, PairOfOpposite
  <2>2. Other(Other(l)) = l
    BY DEF Arrays, Other
  <2>3. Plus(Minus(x, d), Offset(Opposite(d))) = Plus(x, Offset(d))
    <3>1. ASSUME NEW k \in Axes
          PROVE  x[k] - d[k] + Offset(Opposite(d))[k] = x[k] + Offset(d)[k]
      <4>1. d[k] \in {-1, 0, 1} /\ x[k] \in Int
        BY DEF Directions, Triples
      <4>2. Opposite(d)[k] = -d[k]
        BY DEF Opposite
      <4>3. Offset(d)[k] = IF d[k] = -1 THEN 1 ELSE 0
        BY DEF Offset
      <4>4. Offset(Opposite(d))[k] = IF -d[k] = -1 THEN 1 ELSE 0
        BY <4>2 DEF Offset
      <4>5. CASE d[k] = -1
        BY <4>1, <4>3, <4>4, <4>5
      <4>6. CASE d[k] = 0
        BY <4>1, <4>3, <4>4, <4>6
      <4>7. CASE d[k] = 1
        BY <4>1, <4>3, <4>4, <4>7
      <4> QED
        BY <4>1, <4>5, <4>6, <4>7
    <3>2. \A k \in Axes : Minus(x, d)[k] = x[k] - d[k]
      BY DEF Minus
    <3>3. \A k \in Axes : Minus(x, d)[k] + Offset(Opposite(d))[k] = x[k] + Offset(d)[k]
      BY <3>1, <3>2
    <3> QED
      BY <3>3 DEF Plus
  <2> QED
    BY <1>2, <2>1, <2>2, <2>3 DEF PostSlot, PreSlot
<1> QED
  BY <1>1, <1>2

-----------------------------------------------------------------------------
(* Nodes *)

\* A box holds the index triples between its bounds.
LEMMA BoxMembers ==
  ASSUME NEW low \in {0, 1}, NEW more \in {0, 1, 2}, NEW x
  PROVE  x \in Box(low, Size, more) <=>
           x \in Triples /\ \A k \in Axes : x[k] >= low /\ x[k] =< Size[k] + more
<1>1. Size[1] \in Nat \ {0} /\ Size[2] \in Nat \ {0} /\ Size[3] \in Nat \ {0}
  BY GridAssumption DEF Axes
<1>2. \A k \in Axes : Size[k] \in Nat /\ Size[k] =< Size[1] + Size[2] + Size[3]
  BY <1>1 DEF Axes
<1> DEFINE top == Size[1] + Size[2] + Size[3] + more
<1>3. top \in Int /\ \A k \in Axes : Size[k] + more =< top
  BY <1>1, <1>2
<1>4. ASSUME x \in Box(low, Size, more)
      PROVE  x \in Triples /\ \A k \in Axes : x[k] >= low /\ x[k] =< Size[k] + more
  <2>1. x \in [Axes -> low .. top] /\ \A k \in Axes : x[k] \in low .. Size[k] + more
    BY <1>4 DEF Box
  <2> HIDE DEF top
  <2>2. x \in Triples
    BY <1>3, <2>1 DEF Triples
  <2> QED
    BY <1>2, <2>1, <2>2
<1>5. ASSUME x \in Triples, \A k \in Axes : x[k] >= low /\ x[k] =< Size[k] + more
      PROVE  x \in Box(low, Size, more)
  <2> HIDE DEF top
  <2>1. ASSUME NEW k \in Axes
        PROVE  x[k] \in Int /\ x[k] \in low .. Size[k] + more /\ x[k] \in low .. top
    <3>1. x[k] \in Int /\ x[k] >= low /\ x[k] =< Size[k] + more
      BY <1>5 DEF Triples
    <3>2. Size[k] \in Int /\ top \in Int /\ Size[k] + more =< top
      BY <1>2, <1>3
    <3> QED
      BY <3>1, <3>2
  <2>2. x \in [Axes -> low .. top]
    BY <1>5, <2>1 DEF Triples
  <2> QED
    BY <2>1, <2>2 DEF Box, top
<1> QED
  BY <1>4, <1>5

\* The block without and with its ghost layer, and the elements allocated.
LEMMA Regions ==
  ASSUME NEW x
  PROVE  /\ x \in Interior(Size) <=>
              x \in Triples /\ \A k \in Axes : x[k] >= 1 /\ x[k] =< Size[k]
         /\ x \in BlockNodes(Size) <=>
              x \in Triples /\ \A k \in Axes : x[k] >= 0 /\ x[k] =< Size[k] + 1
         /\ x \in Elements(Size) <=>
              x \in Triples /\ \A k \in Axes : x[k] >= 0 /\ x[k] =< Size[k] + 2
<1>1. \A k \in Axes : Size[k] \in Nat
  BY GridAssumption
<1>2. x \in Interior(Size) <=>
        x \in Triples /\ \A k \in Axes : x[k] >= 1 /\ x[k] =< Size[k] + 0
  BY BoxMembers DEF Interior
<1>3. x \in BlockNodes(Size) <=>
        x \in Triples /\ \A k \in Axes : x[k] >= 0 /\ x[k] =< Size[k] + 1
  BY BoxMembers DEF BlockNodes
<1>4. x \in Elements(Size) <=>
        x \in Triples /\ \A k \in Axes : x[k] >= 0 /\ x[k] =< Size[k] + 2
  BY BoxMembers DEF Elements
<1> QED
  BY <1>1, <1>2, <1>3, <1>4

\* A slot of the memory of a block.
IsSlot(s) ==
  \E field \in Fields : \E i \in Indices(field), y \in Sizes[field] : s = <<field, i, y>>

\* Every distribution of a node, before and after the collision, has its
\* place in the memory of the block.
LEMMA SlotInMemory ==
  ASSUME NEW l \in Arrays, NEW x \in BlockNodes(Size), NEW d \in Directions
  PROVE  IsSlot(PreSlot(l, x, d)) /\ IsSlot(PostSlot(l, x, d))
<1>1. ASSUME NEW e \in Directions PROVE IsSlot(PreSlot(l, x, e))
  <2>1. CASE e = Rest
    <3>1. PreSlot(l, x, e) = <<"zero", Rest, x>>
      BY <2>1 DEF PreSlot
    <3>2. "zero" \in Fields /\ Rest \in Indices("zero") /\ x \in Sizes["zero"]
      BY DEF Fields, Indices, Sizes, Extent
    <3> QED
      BY <3>1, <3>2 DEF IsSlot
  <2>2. CASE e # Rest
    <3>1. Plus(x, Offset(e)) \in Elements(Size)
      <4>1. \A k \in Axes : Offset(e)[k] \in {0, 1} /\ Size[k] \in Nat
        BY GridAssumption DEF Offset
      <4>2. x \in Triples /\ \A k \in Axes : x[k] >= 0 /\ x[k] =< Size[k] + 1
        BY Regions
      <4>3. Plus(x, Offset(e)) \in Triples
        BY <4>1, <4>2 DEF Plus, Triples
      <4>4. \A k \in Axes : Plus(x, Offset(e))[k] = x[k] + Offset(e)[k]
        BY DEF Plus
      <4>5. \A k \in Axes : x[k] \in Int
        BY <4>2 DEF Triples
      <4>6. ASSUME NEW k \in Axes
            PROVE  Plus(x, Offset(e))[k] >= 0 /\ Plus(x, Offset(e))[k] =< Size[k] + 2
        <5>1. /\ Offset(e)[k] \in {0, 1} /\ Size[k] \in Nat /\ x[k] \in Int
              /\ x[k] >= 0 /\ x[k] =< Size[k] + 1
          BY <4>1, <4>2, <4>5
        <5>2. Plus(x, Offset(e))[k] = x[k] + Offset(e)[k]
          BY <4>4
        <5> QED
          BY <5>1, <5>2
      <4> QED
        BY <4>3, <4>6, Regions
    <3>2. Pair(e) \in Pairs
      BY <2>2, PairOfOpposite
    <3>3. \A a \in Arrays : a \in Fields /\ Indices(a) = Pairs /\ Sizes[a] = Elements(Size)
      BY DEF Arrays, Fields, Indices, Sizes, Extent
    <3>4. (IF Ahead(e) THEN l ELSE Other(l)) \in Arrays
      BY DEF Arrays, Other
    <3>5. PreSlot(l, x, e) = <<IF Ahead(e) THEN l ELSE Other(l), Pair(e), Plus(x, Offset(e))>>
      BY <2>2 DEF PreSlot
    <3> QED
      BY <3>1, <3>2, <3>3, <3>4, <3>5 DEF IsSlot
  <2> QED
    BY <2>1, <2>2
<1> QED
  BY <1>1, OppositeTwice DEF PostSlot

\* A node inside of a block has all its neighbours in the block or its ghost
\* layer.
LEMMA NeighborsInBlock ==
  ASSUME NEW x \in Interior(Size), NEW d \in Directions
  PROVE  /\ x \in BlockNodes(Size) /\ x \in Triples
         /\ Minus(x, d) \in BlockNodes(Size) /\ Plus(x, d) \in BlockNodes(Size)
         /\ Minus(x, d) \in Triples /\ Plus(Minus(x, d), d) = x
<1>1. \A k \in Axes : d[k] \in {-1, 0, 1} /\ Size[k] \in Nat
  BY GridAssumption DEF Directions
<1>2. x \in Triples /\ \A k \in Axes : x[k] >= 1 /\ x[k] =< Size[k]
  BY Regions
<1>3. \A k \in Axes : x[k] \in Int
  BY <1>2 DEF Triples
<1>4. x \in BlockNodes(Size)
  BY <1>1, <1>2, <1>3, Regions
<1>5. /\ Minus(x, d) \in Triples /\ \A k \in Axes : Minus(x, d)[k] = x[k] - d[k]
      /\ Plus(x, d) \in Triples /\ \A k \in Axes : Plus(x, d)[k] = x[k] + d[k]
  BY <1>1, <1>3 DEF Minus, Plus, Triples
<1>6. Minus(x, d) \in BlockNodes(Size)
  BY <1>1, <1>2, <1>3, <1>5, Regions
<1>7. Plus(x, d) \in BlockNodes(Size)
  BY <1>1, <1>2, <1>3, <1>5, Regions
<1>8. ASSUME NEW k \in Axes PROVE Minus(x, d)[k] + d[k] = x[k]
  <2>1. d[k] \in Int /\ x[k] \in Int /\ Minus(x, d)[k] = x[k] - d[k]
    BY <1>1, <1>3, <1>5
  <2> QED
    BY <2>1
<1>9. Plus(Minus(x, d), d) = x
  BY <1>2, <1>8 DEF Plus, Triples
<1> QED
  BY <1>2, <1>4, <1>5, <1>6, <1>7, <1>9

\* The side of a node is a direction, Rest inside of the block; a ghost node
\* stands for a node inside of the block on that side.
LEMMA Sides ==
  ASSUME NEW y \in BlockNodes(Size)
  PROVE  /\ Side(y) \in Directions /\ y \in Triples
         /\ Side(y) = Rest <=> y \in Interior(Size)
         /\ Shifted(y, Side(y)) \in Interior(Size)
         /\ y \in Interior(Size) => Shifted(y, Side(y)) = y
<1>1. \A k \in Axes : Size[k] \in Nat \ {0}
  BY GridAssumption
<1>2. y \in Triples /\ \A k \in Axes : y[k] >= 0 /\ y[k] =< Size[k] + 1
  BY Regions
<1>3. \A k \in Axes : y[k] \in Int
  BY <1>2 DEF Triples
<1>4. \A k \in Axes : Side(y)[k] = IF y[k] = 0 THEN -1 ELSE IF y[k] = Size[k] + 1 THEN 1 ELSE 0
  BY DEF Side
<1>5. Side(y) \in Directions
  BY DEF Side, Directions
<1>6. (\A k \in Axes : Side(y)[k] = 0) <=> y \in Interior(Size)
  <2>1. ASSUME NEW k \in Axes
        PROVE  (Side(y)[k] = 0) <=> (y[k] >= 1 /\ y[k] =< Size[k])
    <3>1. Size[k] \in Nat /\ y[k] \in Int /\ y[k] >= 0 /\ y[k] =< Size[k] + 1
      BY <1>1, <1>2, <1>3
    <3>2. Side(y)[k] = IF y[k] = 0 THEN -1 ELSE IF y[k] = Size[k] + 1 THEN 1 ELSE 0
      BY <1>4
    <3> QED
      BY <3>1, <3>2
  <2> QED
    BY <1>2, <2>1, Regions
<1>7. Side(y) = Rest <=> \A k \in Axes : Side(y)[k] = 0
  BY DEF Side, Rest
<1>8. \A k \in Axes : Shifted(y, Side(y))[k] = y[k] - Side(y)[k] * Size[k]
  BY DEF Shifted
<1>9. ASSUME NEW k \in Axes
      PROVE  /\ Shifted(y, Side(y))[k] \in Int
             /\ Shifted(y, Side(y))[k] >= 1 /\ Shifted(y, Side(y))[k] =< Size[k]
             /\ Side(y)[k] = 0 => Shifted(y, Side(y))[k] = y[k]
  <2>1. Size[k] \in Nat \ {0} /\ y[k] \in Int /\ y[k] >= 0 /\ y[k] =< Size[k] + 1
    BY <1>1, <1>2, <1>3
  <2>2. Side(y)[k] = IF y[k] = 0 THEN -1 ELSE IF y[k] = Size[k] + 1 THEN 1 ELSE 0
    BY <1>4
  <2>3. CASE y[k] = 0
    <3>1. Shifted(y, Side(y))[k] = 0 - (-1) * Size[k]
      BY <1>8, <2>2, <2>3
    <3> QED
      BY <2>1, <2>2, <2>3, <3>1
  <2>4. CASE y[k] = Size[k] + 1
    <3>1. Shifted(y, Side(y))[k] = Size[k] + 1 - 1 * Size[k]
      BY <1>8, <2>1, <2>2, <2>4
    <3>2. Size[k] + 1 - 1 * Size[k] = 1 /\ Side(y)[k] # 0 /\ Size[k] >= 1
      BY <2>1, <2>2, <2>4
    <3> QED
      BY <2>1, <3>1, <3>2
  <2>5. CASE y[k] # 0 /\ y[k] # Size[k] + 1
    <3>1. Shifted(y, Side(y))[k] = y[k] - 0 * Size[k]
      BY <1>8, <2>2, <2>5
    <3> QED
      BY <2>1, <2>5, <3>1
  <2> QED
    BY <2>3, <2>4, <2>5
<1>10. Shifted(y, Side(y)) \in Triples
  BY <1>9 DEF Shifted, Triples
<1>11. Shifted(y, Side(y)) \in Interior(Size)
  BY <1>9, <1>10, Regions
<1>12. ASSUME y \in Interior(Size) PROVE Shifted(y, Side(y)) = y
  <2>1. \A k \in Axes : Shifted(y, Side(y))[k] = y[k]
    BY <1>6, <1>9, <1>12
  <2> QED
    BY <1>2, <1>10, <2>1 DEF Triples
<1> QED
  BY <1>2, <1>5, <1>6, <1>7, <1>11, <1>12

-----------------------------------------------------------------------------
(* What the actions change *)

\* The distribution that node y of block b, a ghost node perhaps, sends along d.
Held(b, y, d) == Content(b, PostSlot(loc[b], y, d))

\* The memory of a block has the shape the constructor gave it.
Shaped(m) ==
  /\ DOMAIN m = Fields
  /\ \A field \in Fields : DOMAIN m[field] = Indices(field)
  /\ \A field \in Fields : \A i \in Indices(field) : DOMAIN m[field][i] = Sizes[field]

MemoryOK == DOMAIN mem = Blocks /\ \A b \in Blocks : Shaped(mem[b])

\* TypeOK says of the memory that it has its shape.
LEMMA TypeOfMemory == TypeOK => MemoryOK
BY DEF TypeOK, MemoryOK, Shaped

\* The distributions before a collision lie where they are sent from.
LEMMA PreCollisionHeld ==
  ASSUME NEW b \in Blocks, NEW x \in BlockNodes(Size), NEW d \in Directions
  PROVE  PreCollision(b, x)[d] = Held(b, x, Opposite(d)) /\ PostCollision(b, x)[d] = Held(b, x, d)
BY OppositeTwice DEF PreCollision, PostCollision, Held, PostSlot

\* A connector that has to send leads to a block, and back from there.
LEMMA ConnectorLeads ==
  ASSUME TypeOK, NEW b \in Blocks, NEW dir \in Directions, SendVectors(b, dir)
  PROVE  /\ phase = "exchange" /\ <<b, dir>> \in todo
         /\ Neighbor[b][dir] \in Blocks /\ dir # Rest
         /\ Neighbor[Neighbor[b][dir]][Opposite(dir)] = b
<1>1. phase = "exchange" /\ <<b, dir>> \in todo
  BY DEF SendVectors, Do
<1>2. <<b, dir>> \in Connectors
  BY <1>1 DEF TypeOK, Work
<1>3. dir # Rest /\ Neighbor[b][dir] # None
  BY <1>2 DEF Connectors
<1> QED
  BY <1>1, <1>3, GridAssumption

\* A collision changes the distributions of its own node.
LEMMA CalculateEffect ==
  ASSUME TypeOK, NEW b \in Blocks, NEW x \in Interior(Size), Calculate(b, x)
  PROVE  /\ MemoryOK'
         /\ \A c \in Blocks, y \in BlockNodes(Size), d \in Directions :
              Held(c, y, d)' = IF c = b /\ y = x THEN Collision(<<b, x>>, PreCollision(b, x), d)
                               ELSE Held(c, y, d)
<1> DEFINE New(s) == LET y == PostNode(loc[b], s)
                         d == PostDirection(loc[b], s)
                     IN IF y = x THEN Collision(<<b, x>>, PreCollision(b, x), d) ELSE Content(b, s)
<1>1. mem' = [mem EXCEPT ![b] = Filled(New)] /\ loc' = loc
  BY DEF Calculate, Do, Store
<1>2. MemoryOK /\ b \in Blocks
  BY TypeOfMemory
<1>3. \A c \in Blocks : mem'[c] = IF c = b THEN Filled(New) ELSE mem[c]
  BY <1>1, <1>2 DEF MemoryOK
<1>4. DOMAIN mem' = Blocks
  BY <1>1, <1>2 DEF MemoryOK
<1>5. Shaped(Filled(New))
  BY DEF Shaped, Filled
<1>6. ASSUME NEW s, IsSlot(s) PROVE Filled(New)[s[1]][s[2]][s[3]] = New(s)
  BY <1>6 DEF IsSlot, Filled
<1>7. ASSUME NEW c \in Blocks, NEW y \in BlockNodes(Size), NEW d \in Directions
      PROVE  Held(c, y, d)' = IF c = b /\ y = x THEN Collision(<<b, x>>, PreCollision(b, x), d)
                              ELSE Held(c, y, d)
  <2> DEFINE s == PostSlot(loc[c], y, d)
  <2>1. loc[c] \in Arrays /\ y \in Triples
    BY Sides DEF TypeOK
  <2>2. IsSlot(s) /\ PostDirection(loc[c], s) = d /\ PostNode(loc[c], s) = y
    BY <2>1, SlotInMemory, SlotIsOnes
  <2>3. Held(c, y, d)' = mem'[c][s[1]][s[2]][s[3]] /\ Held(c, y, d) = Content(c, s)
    BY <1>1 DEF Held, Content
  <2>4. CASE c = b
    BY <1>3, <1>6, <2>2, <2>3, <2>4
  <2>5. CASE c # b
    BY <1>3, <2>3, <2>5 DEF Content
  <2> QED
    BY <2>4, <2>5
<1> QED
  BY <1>2, <1>3, <1>4, <1>5, <1>7 DEF MemoryOK

\* An outlet changes the distributions that reach its node from outside.
LEMMA PreCollisionBCEffect ==
  ASSUME TypeOK, NEW b \in Blocks, NEW x \in Interior(Size), ApplyPreCollisionBC(b, x)
  PROVE  /\ MemoryOK'
         /\ \A c \in Blocks, y \in BlockNodes(Size), d \in Directions :
              Held(c, y, d)' = IF c = b /\ (<<<<b, x>>, d>> \in OutletLinks /\ y = Minus(x, d)) THEN Outflow(<<b, x>>, d, PreCollision(b, x), PreCollision(b, Plus(x, Normal[<<b, x>>])))
                               ELSE Held(c, y, d)
<1> DEFINE New(s) == LET y == PostNode(loc[b], s)
                         d == PostDirection(loc[b], s)
                     IN IF (<<<<b, x>>, d>> \in OutletLinks /\ y = Minus(x, d)) THEN Outflow(<<b, x>>, d, PreCollision(b, x), PreCollision(b, Plus(x, Normal[<<b, x>>]))) ELSE Content(b, s)
<1>1. mem' = [mem EXCEPT ![b] = Filled(New)] /\ loc' = loc
  BY DEF ApplyPreCollisionBC, OutletSlot, Do, Store
<1>2. MemoryOK /\ b \in Blocks
  BY TypeOfMemory
<1>3. \A c \in Blocks : mem'[c] = IF c = b THEN Filled(New) ELSE mem[c]
  BY <1>1, <1>2 DEF MemoryOK
<1>4. DOMAIN mem' = Blocks
  BY <1>1, <1>2 DEF MemoryOK
<1>5. Shaped(Filled(New))
  BY DEF Shaped, Filled
<1>6. ASSUME NEW s, IsSlot(s) PROVE Filled(New)[s[1]][s[2]][s[3]] = New(s)
  BY <1>6 DEF IsSlot, Filled
<1>7. ASSUME NEW c \in Blocks, NEW y \in BlockNodes(Size), NEW d \in Directions
      PROVE  Held(c, y, d)' = IF c = b /\ (<<<<b, x>>, d>> \in OutletLinks /\ y = Minus(x, d)) THEN Outflow(<<b, x>>, d, PreCollision(b, x), PreCollision(b, Plus(x, Normal[<<b, x>>])))
                              ELSE Held(c, y, d)
  <2> DEFINE s == PostSlot(loc[c], y, d)
  <2>1. loc[c] \in Arrays /\ y \in Triples
    BY Sides DEF TypeOK
  <2>2. IsSlot(s) /\ PostDirection(loc[c], s) = d /\ PostNode(loc[c], s) = y
    BY <2>1, SlotInMemory, SlotIsOnes
  <2>3. Held(c, y, d)' = mem'[c][s[1]][s[2]][s[3]] /\ Held(c, y, d) = Content(c, s)
    BY <1>1 DEF Held, Content
  <2>4. CASE c = b
    BY <1>3, <1>6, <2>2, <2>3, <2>4
  <2>5. CASE c # b
    BY <1>3, <2>3, <2>5 DEF Content
  <2> QED
    BY <2>4, <2>5
<1> QED
  BY <1>2, <1>3, <1>4, <1>5, <1>7 DEF MemoryOK

\* A wall changes the distributions that reach its node from outside.
LEMMA PostCollisionBCEffect ==
  ASSUME TypeOK, NEW b \in Blocks, NEW x \in Interior(Size), ApplyPostCollisionBC(b, x)
  PROVE  /\ MemoryOK'
         /\ \A c \in Blocks, y \in BlockNodes(Size), d \in Directions :
              Held(c, y, d)' = IF c = b /\ (<<<<b, x>>, d>> \in WallLinks /\ y = Minus(x, d)) THEN Returned(<<b, x>>, d, PostCollision(b, x))
                               ELSE Held(c, y, d)
<1> DEFINE New(s) == LET y == PostNode(loc[b], s)
                         d == PostDirection(loc[b], s)
                     IN IF (<<<<b, x>>, d>> \in WallLinks /\ y = Minus(x, d)) THEN Returned(<<b, x>>, d, PostCollision(b, x)) ELSE Content(b, s)
<1>1. mem' = [mem EXCEPT ![b] = Filled(New)] /\ loc' = loc
  BY DEF ApplyPostCollisionBC, Do, Store
<1>2. MemoryOK /\ b \in Blocks
  BY TypeOfMemory
<1>3. \A c \in Blocks : mem'[c] = IF c = b THEN Filled(New) ELSE mem[c]
  BY <1>1, <1>2 DEF MemoryOK
<1>4. DOMAIN mem' = Blocks
  BY <1>1, <1>2 DEF MemoryOK
<1>5. Shaped(Filled(New))
  BY DEF Shaped, Filled
<1>6. ASSUME NEW s, IsSlot(s) PROVE Filled(New)[s[1]][s[2]][s[3]] = New(s)
  BY <1>6 DEF IsSlot, Filled
<1>7. ASSUME NEW c \in Blocks, NEW y \in BlockNodes(Size), NEW d \in Directions
      PROVE  Held(c, y, d)' = IF c = b /\ (<<<<b, x>>, d>> \in WallLinks /\ y = Minus(x, d)) THEN Returned(<<b, x>>, d, PostCollision(b, x))
                              ELSE Held(c, y, d)
  <2> DEFINE s == PostSlot(loc[c], y, d)
  <2>1. loc[c] \in Arrays /\ y \in Triples
    BY Sides DEF TypeOK
  <2>2. IsSlot(s) /\ PostDirection(loc[c], s) = d /\ PostNode(loc[c], s) = y
    BY <2>1, SlotInMemory, SlotIsOnes
  <2>3. Held(c, y, d)' = mem'[c][s[1]][s[2]][s[3]] /\ Held(c, y, d) = Content(c, s)
    BY <1>1 DEF Held, Content
  <2>4. CASE c = b
    BY <1>3, <1>6, <2>2, <2>3, <2>4
  <2>5. CASE c # b
    BY <1>3, <2>3, <2>5 DEF Content
  <2> QED
    BY <2>4, <2>5
<1> QED
  BY <1>2, <1>3, <1>4, <1>5, <1>7 DEF MemoryOK

\* A connector changes the ghost nodes of its target on the side it comes from.
LEMMA SendVectorsEffect ==
  ASSUME TypeOK, NEW b \in Blocks, NEW dir \in Directions, SendVectors(b, dir)
  PROVE  /\ MemoryOK'
         /\ \A c \in Blocks, y \in BlockNodes(Size), d \in Directions :
              Held(c, y, d)' = IF c = Neighbor[b][dir] /\ Side(y) = Opposite(dir) THEN Held(b, Shifted(y, Opposite(dir)), d)
                               ELSE Held(c, y, d)
<1> DEFINE New(s) == LET y == PostNode(loc[Neighbor[b][dir]], s)
                         d == PostDirection(loc[Neighbor[b][dir]], s)
                     IN IF y \in BlockNodes(Size) /\ Side(y) = Opposite(dir) THEN Held(b, Shifted(y, Opposite(dir)), d) ELSE Content(Neighbor[b][dir], s)
<1>1. mem' = [mem EXCEPT ![Neighbor[b][dir]] = Filled(New)] /\ loc' = loc
  BY DEF SendVectors, Do, Store, UpdatePointers, Held
<1>2. MemoryOK /\ Neighbor[b][dir] \in Blocks
  BY TypeOfMemory, ConnectorLeads
<1>3. \A c \in Blocks : mem'[c] = IF c = Neighbor[b][dir] THEN Filled(New) ELSE mem[c]
  BY <1>1, <1>2 DEF MemoryOK
<1>4. DOMAIN mem' = Blocks
  BY <1>1, <1>2 DEF MemoryOK
<1>5. Shaped(Filled(New))
  BY DEF Shaped, Filled
<1>6. ASSUME NEW s, IsSlot(s) PROVE Filled(New)[s[1]][s[2]][s[3]] = New(s)
  BY <1>6 DEF IsSlot, Filled
<1>7. ASSUME NEW c \in Blocks, NEW y \in BlockNodes(Size), NEW d \in Directions
      PROVE  Held(c, y, d)' = IF c = Neighbor[b][dir] /\ Side(y) = Opposite(dir) THEN Held(b, Shifted(y, Opposite(dir)), d)
                              ELSE Held(c, y, d)
  <2> DEFINE s == PostSlot(loc[c], y, d)
  <2>1. loc[c] \in Arrays /\ y \in Triples
    BY Sides DEF TypeOK
  <2>2. IsSlot(s) /\ PostDirection(loc[c], s) = d /\ PostNode(loc[c], s) = y
    BY <2>1, SlotInMemory, SlotIsOnes
  <2>3. Held(c, y, d)' = mem'[c][s[1]][s[2]][s[3]] /\ Held(c, y, d) = Content(c, s)
    BY <1>1 DEF Held, Content
  <2>4. CASE c = Neighbor[b][dir]
    BY <1>3, <1>6, <2>2, <2>3, <2>4
  <2>5. CASE c # Neighbor[b][dir]
    BY <1>3, <2>3, <2>5 DEF Content
  <2> QED
    BY <2>4, <2>5
<1> QED
  BY <1>2, <1>3, <1>4, <1>5, <1>7 DEF MemoryOK

-----------------------------------------------------------------------------
(* The invariant *)

\* After a wall's turn, its nodes will receive what it returned.
WallsHaveReturned ==
  phase = "postCollisionBC" =>
    \A b \in Blocks, x \in Interior(Size), d \in Directions :
      <<<<b, x>>, d>> \in WallLinks /\ <<b, x>> \notin todo =>
        Held(b, Minus(x, d), d) = Returned(<<b, x>>, d, PostCollision(b, x))

\* The ghost nodes that are filled, distribution by distribution.
Delivered(b, y) ==
  LET owner == Neighbor[b][Side(y)]
  IN \/ phase = "exchange" /\ <<owner, Opposite(Side(y))>> \notin todo
     \/ phase = "postCollisionBC"

GhostsHold ==
  \A b \in Blocks, y \in BlockNodes(Size), d \in Directions :
    Side(y) # Rest /\ At(b, y) \in Fluid /\ Delivered(b, y) =>
      Held(b, y, d) = Held(Neighbor[b][Side(y)], Shifted(y, Side(y)), d)

IInv == TypeOK /\ GhostsHold /\ WallsHaveReturned

\* The fluid nodes of a block, and where a ghost node has its owner.
LEMMA FluidNodes ==
  /\ \A b, x : <<b, x>> \in Fluid => b \in Blocks /\ x \in Interior(Size)
  /\ \A b \in Blocks, x \in Interior(Size) : At(b, x) = <<b, x>>
  /\ \A b \in Blocks, y \in BlockNodes(Size) : At(b, y) \in Fluid =>
       /\ Neighbor[b][Side(y)] \in Blocks
       /\ Neighbor[Neighbor[b][Side(y)]][Opposite(Side(y))] = b
       /\ At(b, y) = <<Neighbor[b][Side(y)], Shifted(y, Side(y))>>
<1>1. \A b, x : <<b, x>> \in Fluid => b \in Blocks /\ x \in Interior(Size)
  BY DEF Fluid, Inside
<1>2. ASSUME NEW b \in Blocks, NEW x \in Interior(Size) PROVE At(b, x) = <<b, x>>
  <2>1. x \in BlockNodes(Size)
    BY NeighborsInBlock, RestIsDirection
  <2>2. Side(x) = Rest /\ Shifted(x, Side(x)) = x
    BY <2>1, Sides
  <2>3. Neighbor[b][Rest] = b /\ b # None
    BY GridAssumption
  <2> QED
    BY <2>2, <2>3 DEF At
<1>3. ASSUME NEW b \in Blocks, NEW y \in BlockNodes(Size), At(b, y) \in Fluid
      PROVE  /\ Neighbor[b][Side(y)] \in Blocks
             /\ Neighbor[Neighbor[b][Side(y)]][Opposite(Side(y))] = b
             /\ At(b, y) = <<Neighbor[b][Side(y)], Shifted(y, Side(y))>>
  <2>1. Side(y) \in Directions
    BY Sides
  <2>2. Neighbor[b][Side(y)] \in Blocks
    BY <1>1, <1>3 DEF At
  <2> QED
    BY <2>1, <2>2, GridAssumption DEF At
<1> QED
  BY <1>1, <1>2, <1>3

\* A wall or an outlet writes to nodes that do not stand for fluid.
LEMMA LinksLeaveTheFluid ==
  ASSUME NEW b \in Blocks, NEW x \in Interior(Size), NEW d \in Directions,
         <<<<b, x>>, d>> \in WallLinks \cup OutletLinks
  PROVE  <<b, x>> \in Fluid /\ At(b, Minus(x, d)) \notin Fluid /\ Minus(x, d) \in BlockNodes(Size)
<1>1. Origin(<<b, x>>, d) = At(b, Minus(x, d))
  BY DEF Origin
<1>2. <<b, x>> \in Fluid /\ Origin(<<b, x>>, d) \notin Fluid
  BY BoundaryAssumption
<1> QED
  BY <1>1, <1>2, NeighborsInBlock

\* Sending keeps the invariant: the ghost nodes of the target are filled,
\* the others and all nodes inside of a block stay as they are.
LEMMA SendVectorsKeeps ==
  ASSUME IInv, NEW b \in Blocks, NEW dir \in Directions, SendVectors(b, dir)
  PROVE  GhostsHold'
<1>1. TypeOK
  BY DEF IInv
<1>2. /\ phase = "exchange" /\ <<b, dir>> \in todo
      /\ Neighbor[b][dir] \in Blocks /\ dir # Rest
      /\ Neighbor[Neighbor[b][dir]][Opposite(dir)] = b
  BY <1>1, ConnectorLeads
<1>3. \A c \in Blocks, y \in BlockNodes(Size), d \in Directions :
        Held(c, y, d)' = IF c = Neighbor[b][dir] /\ Side(y) = Opposite(dir)
                         THEN Held(b, Shifted(y, Opposite(dir)), d) ELSE Held(c, y, d)
  BY <1>1, SendVectorsEffect
<1>4. phase' = "exchange" /\ todo' = todo \ {<<b, dir>>}
  BY <1>2 DEF SendVectors, Do
<1>5. Opposite(dir) # Rest /\ Opposite(Opposite(dir)) = dir
  BY <1>2, OppositeTwice
<1>6. SUFFICES ASSUME NEW c \in Blocks, NEW y \in BlockNodes(Size), NEW d \in Directions,
                      Side(y) # Rest, At(c, y) \in Fluid, Delivered(c, y)'
               PROVE  Held(c, y, d)' = Held(Neighbor[c][Side(y)], Shifted(y, Side(y)), d)'
  BY DEF GhostsHold
<1> DEFINE owner == Neighbor[c][Side(y)]
           node  == Shifted(y, Side(y))
<1>7. /\ owner \in Blocks /\ Neighbor[owner][Opposite(Side(y))] = c
      /\ node \in Interior(Size) /\ node \in BlockNodes(Size) /\ Side(node) = Rest
      /\ Side(y) \in Directions
  <2>1. node \in Interior(Size) /\ Side(y) \in Directions
    BY Sides
  <2>2. node \in BlockNodes(Size) /\ Side(node) = Rest
    BY <2>1, NeighborsInBlock, RestIsDirection, Sides
  <2> QED
    BY <1>6, <2>1, <2>2, FluidNodes
<1>8. Held(owner, node, d)' = Held(owner, node, d)
  BY <1>3, <1>5, <1>7
<1>9. <<owner, Opposite(Side(y))>> \notin todo'
  BY <1>4, <1>6 DEF Delivered
<1>10. CASE <<owner, Opposite(Side(y))>> = <<b, dir>>
  <2>1. owner = b /\ Opposite(Side(y)) = dir
    BY <1>10
  <2>2. Side(y) = Opposite(dir) /\ c = Neighbor[b][dir]
    BY <1>7, <2>1, OppositeTwice
  <2> QED
    BY <1>3, <1>8, <2>1, <2>2
<1>11. CASE <<owner, Opposite(Side(y))>> # <<b, dir>>
  <2>1. <<owner, Opposite(Side(y))>> \notin todo
    BY <1>4, <1>9, <1>11
  <2>2. ~(c = Neighbor[b][dir] /\ Side(y) = Opposite(dir))
    BY <1>2, <1>5, <1>11
  <2>3. Held(c, y, d)' = Held(c, y, d)
    BY <1>3, <2>2
  <2>4. Delivered(c, y)
    BY <1>2, <2>1 DEF Delivered
  <2>5. Held(c, y, d) = Held(owner, node, d)
    BY <1>6, <2>4 DEF IInv, GhostsHold
  <2> QED
    BY <1>8, <2>3, <2>5
<1> QED
  BY <1>10, <1>11

\* A wall keeps the invariant: it writes to nodes that are not fluid, and no
\* two links share a slot.
LEMMA PostCollisionBCKeeps ==
  ASSUME IInv, NEW b \in Blocks, NEW x \in Interior(Size), ApplyPostCollisionBC(b, x)
  PROVE  /\ GhostsHold' /\ WallsHaveReturned'
         /\ \A c \in Blocks, y \in BlockNodes(Size), d \in Directions :
              At(c, y) \in Fluid => Held(c, y, d)' = Held(c, y, d)
<1>1. TypeOK /\ GhostsHold /\ WallsHaveReturned
  BY DEF IInv
<1>2. \A c \in Blocks, y \in BlockNodes(Size), d \in Directions :
        Held(c, y, d)' = IF c = b /\ (<<<<b, x>>, d>> \in WallLinks /\ y = Minus(x, d))
                         THEN Returned(<<b, x>>, d, PostCollision(b, x)) ELSE Held(c, y, d)
  BY <1>1, PostCollisionBCEffect
<1>3. /\ phase = "postCollisionBC" /\ phase' = "postCollisionBC"
      /\ <<b, x>> \in todo /\ todo' = todo \ {<<b, x>>} /\ loc' = loc
  BY DEF ApplyPostCollisionBC, Do
<1>4. ASSUME NEW c \in Blocks, NEW y \in BlockNodes(Size), NEW d \in Directions, At(c, y) \in Fluid
      PROVE  Held(c, y, d)' = Held(c, y, d)
  BY <1>2, <1>4, LinksLeaveTheFluid
<1>5. ASSUME NEW c \in Blocks, NEW y \in BlockNodes(Size), NEW d \in Directions,
             Side(y) # Rest, At(c, y) \in Fluid
      PROVE  Held(c, y, d)' = Held(Neighbor[c][Side(y)], Shifted(y, Side(y)), d)'
  <2> DEFINE owner == Neighbor[c][Side(y)]
             node  == Shifted(y, Side(y))
  <2>1. node \in Interior(Size) /\ owner \in Blocks /\ At(c, y) = <<owner, node>>
    BY <1>5, Sides, FluidNodes
  <2>2. node \in BlockNodes(Size) /\ At(owner, node) = <<owner, node>>
    BY <2>1, NeighborsInBlock, RestIsDirection, FluidNodes
  <2>3. Held(owner, node, d)' = Held(owner, node, d) /\ Held(c, y, d)' = Held(c, y, d)
    BY <1>4, <1>5, <2>1, <2>2
  <2>4. Held(c, y, d) = Held(owner, node, d)
    BY <1>1, <1>3, <1>5 DEF GhostsHold, Delivered
  <2> QED
    BY <2>3, <2>4
<1>6. GhostsHold'
  BY <1>5 DEF GhostsHold
<1>7. ASSUME NEW c \in Blocks, NEW z \in Interior(Size), <<c, z>> \in Fluid
      PROVE  PostCollision(c, z)' = PostCollision(c, z)
  <2>1. z \in BlockNodes(Size) /\ At(c, z) \in Fluid
    BY <1>7, NeighborsInBlock, RestIsDirection, FluidNodes
  <2>2. \A d \in Directions : Held(c, z, d)' = Held(c, z, d)
    BY <1>4, <2>1
  <2> QED
    BY <2>2 DEF PostCollision, Held
<1>8. ASSUME NEW c \in Blocks, NEW z \in Interior(Size), NEW d \in Directions,
             <<<<c, z>>, d>> \in WallLinks, <<c, z>> \notin todo'
      PROVE  Held(c, Minus(z, d), d)' = Returned(<<c, z>>, d, PostCollision(c, z)')
  <2>1. <<c, z>> \in Fluid /\ Minus(z, d) \in BlockNodes(Size)
    BY <1>8, LinksLeaveTheFluid
  <2>2. PostCollision(c, z)' = PostCollision(c, z)
    BY <1>7, <2>1
  <2>3. CASE <<c, z>> = <<b, x>>
    BY <1>2, <1>8, <2>1, <2>2, <2>3
  <2>4. CASE <<c, z>> # <<b, x>>
    <3>1. <<c, z>> \notin todo
      BY <1>3, <1>8, <2>4
    <3>2. Held(c, Minus(z, d), d) = Returned(<<c, z>>, d, PostCollision(c, z))
      BY <1>1, <1>3, <1>8, <3>1 DEF WallsHaveReturned
    <3>3. ~(c = b /\ Minus(z, d) = Minus(x, d))
      <4>1. Plus(Minus(z, d), d) = z /\ Plus(Minus(x, d), d) = x
        BY NeighborsInBlock
      <4> QED
        BY <2>4, <4>1
    <3>4. Held(c, Minus(z, d), d)' = Held(c, Minus(z, d), d)
      BY <1>2, <2>1, <3>3
    <3> QED
      BY <2>2, <3>2, <3>4
  <2> QED
    BY <2>3, <2>4
<1>9. WallsHaveReturned'
  BY <1>8 DEF WallsHaveReturned
<1> QED
  BY <1>4, <1>6, <1>9

\* When the connectors begin nothing is delivered, when they are done all is.
LEMMA EndLoopKeeps ==
  ASSUME IInv, EndLoop
  PROVE  GhostsHold' /\ WallsHaveReturned'
<1>1. TypeOK /\ GhostsHold /\ WallsHaveReturned
  BY DEF IInv
<1>2. /\ phase # "postCollisionBC" /\ todo = {} /\ phase' = Following[phase] /\ todo' = Work(phase')
      /\ mem' = mem /\ loc' = loc
  BY DEF EndLoop
<1>3. \A b, y, d : Held(b, y, d)' = Held(b, y, d)
  BY <1>2 DEF Held, Content
<1>4. \/ phase = "preCollisionBC" /\ phase' = "calculate"
      \/ phase = "calculate" /\ phase' = "exchange" /\ todo' = Connectors
      \/ phase = "exchange" /\ phase' = "postCollisionBC" /\ todo' = WallNodes
  BY <1>1, <1>2 DEF TypeOK, Phases, Following, Work
<1>5. ASSUME NEW b \in Blocks, NEW y \in BlockNodes(Size), NEW d \in Directions,
             Side(y) # Rest, At(b, y) \in Fluid, Delivered(b, y)'
      PROVE  Held(b, y, d)' = Held(Neighbor[b][Side(y)], Shifted(y, Side(y)), d)'
  <2> DEFINE owner == Neighbor[b][Side(y)]
  <2>1. /\ owner \in Blocks /\ Neighbor[owner][Opposite(Side(y))] = b
        /\ Side(y) \in Directions
    BY <1>5, FluidNodes, Sides
  <2>2. <<owner, Opposite(Side(y))>> \in Connectors
    <3>1. Opposite(Side(y)) \in Directions \ {Rest}
      BY <1>5, <2>1, OppositeTwice
    <3>2. b # None
      BY GridAssumption
    <3> QED
      BY <2>1, <3>1, <3>2 DEF Connectors
  <2>3. phase = "exchange" /\ phase' = "postCollisionBC"
    BY <1>4, <1>5, <2>2 DEF Delivered
  <2>4. Delivered(b, y)
    BY <1>2, <2>3 DEF Delivered
  <2> QED
    BY <1>1, <1>3, <1>5, <2>4 DEF GhostsHold
<1>6. GhostsHold'
  BY <1>5 DEF GhostsHold
<1>7. WallsHaveReturned'
  <2>1. ASSUME NEW b \in Blocks, NEW x \in Interior(Size), NEW d \in Directions,
               <<<<b, x>>, d>> \in WallLinks, phase' = "postCollisionBC", <<b, x>> \notin todo'
        PROVE  FALSE
    <3>1. todo' = WallNodes
      BY <1>4, <2>1
    <3>2. <<b, x>> \in WallNodes
      BY <2>1 DEF WallNodes
    <3> QED
      BY <2>1, <3>1, <3>2
  <2> QED
    BY <2>1 DEF WallsHaveReturned
<1> QED
  BY <1>6, <1>7

\* An action of a loop takes its item and leaves the rest of the control.
LEMMA DoKeepsType ==
  ASSUME TypeOK, NEW p, NEW item, Do(p, item), MemoryOK'
  PROVE  TypeOK'
<1>1. MemoryOK'
  OBVIOUS
<1>2. todo' \subseteq Work(phase') /\ phase' = phase /\ loc' = loc /\ step' = step
  BY DEF TypeOK, Do
<1> QED
  BY <1>1, <1>2 DEF TypeOK, MemoryOK, Shaped

\* One step from the invariant ends in it.
LEMMA StepKeeps ==
  ASSUME IInv, Next
  PROVE  IInv'
<1>1. TypeOK
  BY DEF IInv
<1>2. ASSUME NEW b \in Blocks, NEW x \in Interior(Size), ApplyPreCollisionBC(b, x) PROVE IInv'
  <2>1. Do("preCollisionBC", <<b, x>>) /\ MemoryOK'
    BY <1>1, <1>2, PreCollisionBCEffect DEF ApplyPreCollisionBC
  <2>2. phase' = "preCollisionBC"
    BY <2>1 DEF Do
  <2> QED
    BY <1>1, <2>1, <2>2, DoKeepsType DEF IInv, GhostsHold, WallsHaveReturned, Delivered
<1>3. ASSUME NEW b \in Blocks, NEW x \in Interior(Size), Calculate(b, x) PROVE IInv'
  <2>1. Do("calculate", <<b, x>>) /\ MemoryOK'
    BY <1>1, <1>3, CalculateEffect DEF Calculate
  <2>2. phase' = "calculate"
    BY <2>1 DEF Do
  <2> QED
    BY <1>1, <2>1, <2>2, DoKeepsType DEF IInv, GhostsHold, WallsHaveReturned, Delivered
<1>4. ASSUME NEW b \in Blocks, NEW x \in Interior(Size), ApplyPostCollisionBC(b, x) PROVE IInv'
  <2>1. Do("postCollisionBC", <<b, x>>) /\ MemoryOK'
    BY <1>1, <1>4, PostCollisionBCEffect DEF ApplyPostCollisionBC
  <2> QED
    BY <1>1, <1>4, <2>1, DoKeepsType, PostCollisionBCKeeps DEF IInv
<1>5. ASSUME NEW b \in Blocks, NEW dir \in Directions, SendVectors(b, dir) PROVE IInv'
  <2>1. Do("exchange", <<b, dir>>) /\ MemoryOK'
    BY <1>1, <1>5, SendVectorsEffect DEF SendVectors
  <2>2. phase' = "exchange"
    BY <2>1 DEF Do
  <2>3. GhostsHold' /\ TypeOK'
    BY <1>1, <1>5, <2>1, DoKeepsType, SendVectorsKeeps
  <2> QED
    BY <2>2, <2>3 DEF IInv, WallsHaveReturned
<1>6. ASSUME EndLoop PROVE IInv'
  <2>1. /\ phase # "postCollisionBC" /\ todo' = Work(phase') /\ phase' = Following[phase]
        /\ mem' = mem /\ loc' = loc /\ step' = step
    BY <1>6 DEF EndLoop
  <2>2. phase' \in Phases
    BY <1>1, <2>1 DEF TypeOK, Phases, Following
  <2>3. TypeOK'
    BY <1>1, <2>1, <2>2 DEF TypeOK
  <2> QED
    BY <1>6, <2>3, EndLoopKeeps DEF IInv
<1>7. ASSUME SwapDistributions PROVE IInv'
  <2>1. /\ phase' = "preCollisionBC" /\ todo' = Work(phase') /\ mem' = mem
        /\ step < NumberOfTimeSteps /\ step' = step + 1
        /\ loc' = [b \in Blocks |-> Other(loc[b])]
    BY <1>7 DEF SwapDistributions
  <2>2. phase' \in Phases /\ loc' \in [Blocks -> Arrays]
    BY <2>1 DEF Phases, Other, Arrays
  <2>3. step' \in 1 .. NumberOfTimeSteps
    BY <1>1, <2>1, StepsAssumption DEF TypeOK
  <2>4. TypeOK'
    BY <1>1, <2>1, <2>2, <2>3 DEF TypeOK
  <2> QED
    BY <2>1, <2>4 DEF IInv, GhostsHold, WallsHaveReturned, Delivered
<1> QED
  BY <1>2, <1>3, <1>4, <1>5, <1>6, <1>7 DEF Next

\* The first state has the invariant.
LEMMA InitKeeps == Init => IInv
<1> SUFFICES ASSUME Init PROVE IInv
  OBVIOUS
<1>1. /\ mem = [b \in Blocks |-> InitialMemory(b)] /\ loc = [b \in Blocks |-> "first"]
      /\ phase = "preCollisionBC" /\ todo = Work(phase) /\ step = 1
  BY DEF Init
<1>2. \A b \in Blocks : Shaped(InitialMemory(b))
  BY DEF Shaped, InitialMemory, Filled
<1>3. MemoryOK
  BY <1>1, <1>2 DEF MemoryOK
<1>4. loc \in [Blocks -> Arrays] /\ phase \in Phases /\ step \in 1 .. NumberOfTimeSteps
  BY <1>1, StepsAssumption DEF Arrays, Phases
<1>5. TypeOK
  BY <1>1, <1>3, <1>4 DEF TypeOK, MemoryOK, Shaped
<1> QED
  BY <1>1, <1>5 DEF IInv, GhostsHold, WallsHaveReturned, Delivered

\* The invariant holds of every behaviour.
LEMMA Invariance == Spec => []IInv
<1>1. IInv /\ [Next]_vars => IInv'
  <2>1. ASSUME IInv, UNCHANGED vars PROVE IInv'
    <3>1. mem' = mem /\ loc' = loc /\ phase' = phase /\ todo' = todo /\ step' = step
      BY <2>1 DEF vars
    <3>2. \A b, y, d : Held(b, y, d)' = Held(b, y, d) /\ Delivered(b, y)' = Delivered(b, y)
      BY <3>1 DEF Held, Content, Delivered
    <3>3. \A b, x : PostCollision(b, x)' = PostCollision(b, x)
      BY <3>1 DEF PostCollision, Content
    <3>4. TypeOK'
      BY <2>1, <3>1 DEF IInv, TypeOK
    <3>5. GhostsHold'
      BY <2>1, <3>2 DEF IInv, GhostsHold
    <3>6. WallsHaveReturned'
      BY <2>1, <3>1, <3>2, <3>3 DEF IInv, WallsHaveReturned
    <3> QED
      BY <3>4, <3>5, <3>6 DEF IInv
  <2> QED
    BY <2>1, StepKeeps
<1> QED
  BY <1>1, InitKeeps, PTL DEF Spec

\* Every loop works on its own items, in arrays that keep their size.
THEOREM TypeCorrect == Spec => []TypeOK
<1>1. IInv => TypeOK
  BY DEF IInv
<1> QED
  BY <1>1, Invariance, PTL

\* Once a connector has sent, and until the swap, the ghost nodes it fills
\* hold what the fluid nodes they stand for hold (FullDirectConnector).
THEOREM GhostsFollow == Spec => []GhostsFollowTheirNodes
<1>1. IInv => GhostsFollowTheirNodes
  <2> SUFFICES ASSUME IInv, NEW b \in Blocks, NEW y \in BlockNodes(Size),
                      Side(y) # Rest, At(b, y) \in Fluid, Delivered(b, y)
               PROVE  PostCollision(b, y) = PostCollision(Neighbor[b][Side(y)], Shifted(y, Side(y)))
    BY DEF GhostsFollowTheirNodes, Delivered
  <2>1. \A d \in Directions : Held(b, y, d) = Held(Neighbor[b][Side(y)], Shifted(y, Side(y)), d)
    BY DEF IInv, GhostsHold
  <2> QED
    BY <2>1 DEF PostCollision, Held
<1> QED
  BY <1>1, Invariance, PTL

-----------------------------------------------------------------------------
(* The blocks implement the lattice Boltzmann step *)

\* A fluid node has its place in a block.
LEMMA FluidIn ==
  ASSUME NEW g \in Fluid
  PROVE  /\ g = <<g[1], g[2]>> /\ g[1] \in Blocks
         /\ g[2] \in Interior(Size) /\ g[2] \in BlockNodes(Size) /\ g[2] \in Triples
         /\ At(g[1], g[2]) = g
<1>1. g = <<g[1], g[2]>> /\ g[1] \in Blocks /\ g[2] \in Interior(Size)
  BY DEF Fluid, Inside
<1> QED
  BY <1>1, NeighborsInBlock, RestIsDirection, FluidNodes

\* What a node has received and what it sends, in the slots that are its own.
LEMMA DistributionsHeld ==
  ASSUME NEW b, NEW x
  PROVE  /\ PreCollision(b, x) = [d \in Directions |-> Held(b, x, Opposite(d))]
         /\ PostCollision(b, x) = [d \in Directions |-> Held(b, x, d)]
BY OppositeTwice DEF PreCollision, PostCollision, Held, PostSlot

\* A link that an outlet supplies leads from a fluid node to one that is not.
LEMMA OutletLink ==
  ASSUME NEW link \in OutletLinks
  PROVE  /\ link = <<<<link[1][1], link[1][2]>>, link[2]>> /\ link[1] \in Fluid /\ link[2] \in Directions
         /\ link[1] = <<link[1][1], link[1][2]>>
         /\ link[1][1] \in Blocks /\ link[1][2] \in Interior(Size)
         /\ At(link[1][1], Minus(link[1][2], link[2])) \notin Fluid
         /\ Minus(link[1][2], link[2]) \in BlockNodes(Size)
         /\ link \notin WallLinks
<1>1. link \in Fluid \X Directions /\ link \notin WallLinks
  BY BoundaryAssumption
<1>2. link = <<link[1], link[2]>> /\ link[1] \in Fluid /\ link[2] \in Directions
  BY <1>1
<1>3. link[1] = <<link[1][1], link[1][2]>> /\ link[1][1] \in Blocks /\ link[1][2] \in Interior(Size)
  BY <1>2, FluidIn
<1>4. link = <<<<link[1][1], link[1][2]>>, link[2]>>
  BY <1>2, <1>3
<1> QED
  BY <1>1, <1>2, <1>3, <1>4, LinksLeaveTheFluid

\* The distributions InitDistributions sets are those the nodes start with.
LEMMA InitMaps == Init => Lattice!Init
<1> SUFFICES ASSUME Init PROVE Lattice!Init
  OBVIOUS
<1>1. /\ mem = [b \in Blocks |-> InitialMemory(b)] /\ loc = [b \in Blocks |-> "first"]
      /\ phase = "preCollisionBC" /\ todo = OutletNodes
  BY DEF Init, Work
<1>2. CollidedNodes = {} /\ OpenedNodes = {}
  BY <1>1 DEF CollidedNodes, OpenedNodes
<1>3. ASSUME NEW b \in Blocks, NEW x \in BlockNodes(Size), NEW d \in Directions
      PROVE  PreCollision(b, x)[d] = Initial(b, x, d)
  <2> DEFINE s == PostSlot("first", x, Opposite(d))
             Value(t) == Initial(b, PostNode("first", t), Opposite(PostDirection("first", t)))
  <2>1. PreCollision(b, x)[d] = InitialMemory(b)[s[1]][s[2]][s[3]]
    BY <1>1, OppositeTwice DEF PreCollision, PostSlot, Content
  <2>2. IsSlot(s)
    BY SlotInMemory, OppositeTwice DEF Arrays
  <2>3. Filled(Value)[s[1]][s[2]][s[3]] = Value(s)
    <3>1. ASSUME NEW t, IsSlot(t) PROVE Filled(Value)[t[1]][t[2]][t[3]] = Value(t)
      BY <3>1 DEF IsSlot, Filled
    <3> QED
      BY <2>2, <3>1
  <2>4. InitialMemory(b) = Filled(Value)
    BY DEF InitialMemory
  <2>5. PostNode("first", s) = x /\ PostDirection("first", s) = Opposite(d)
    BY SlotIsOnes, OppositeTwice, Sides DEF Arrays
  <2>6. Value(s) = Initial(b, x, d)
    BY <2>5, OppositeTwice
  <2> QED
    BY <2>1, <2>3, <2>4, <2>6
<1>4. Distributions = [g \in Fluid |-> [d \in Directions |-> InitialAt(g, d)]]
  <2>1. ASSUME NEW g \in Fluid PROVE PreCollision(g[1], g[2]) = [d \in Directions |-> InitialAt(g, d)]
    BY <1>3, FluidIn DEF PreCollision, InitialAt
  <2> QED
    BY <1>2, <2>1 DEF Distributions
<1>5. Supplies = [link \in Lattice!Supplied({}) |-> link]
  <2>1. Lattice!Supplied({}) = {} /\ { l \in OutletLinks : l[1] \in OpenedNodes } = {}
    BY <1>2 DEF Lattice!Supplied
  <2> QED
    BY <2>1 DEF Supplies
<1> QED
  BY <1>2, <1>4, <1>5 DEF Lattice!Init

\* Where the lattice is, loop by loop.
LEMMA Stages ==
  /\ phase = "preCollisionBC" => CollidedNodes = {} /\ OpenedNodes = OutletNodes \ todo
  /\ phase = "calculate" => CollidedNodes = Fluid \ todo /\ OpenedNodes = OutletNodes
  /\ phase \in {"exchange", "postCollisionBC"} => CollidedNodes = Fluid /\ OpenedNodes = OutletNodes
  /\ phase' = "preCollisionBC" => CollidedNodes' = {} /\ OpenedNodes' = OutletNodes \ todo'
  /\ phase' = "calculate" => CollidedNodes' = Fluid \ todo' /\ OpenedNodes' = OutletNodes
  /\ phase' \in {"exchange", "postCollisionBC"} => CollidedNodes' = Fluid /\ OpenedNodes' = OutletNodes
BY DEF CollidedNodes, OpenedNodes

\* The lattice's view of what the blocks hold.
LEMMA SuppliesHeld ==
  Supplies = [link \in Lattice!Supplied(OpenedNodes) |->
                Held(link[1][1], Minus(link[1][2], link[2]), link[2])]
<1>1. \A link \in OutletLinks :
        PostCollision(link[1][1], Minus(link[1][2], link[2]))[link[2]]
          = Held(link[1][1], Minus(link[1][2], link[2]), link[2])
  BY OutletLink, DistributionsHeld
<1> QED
  BY <1>1 DEF Supplies, Lattice!Supplied

\* Where the distributions of a node stay, so does what the lattice sees.
LEMMA NodeStays ==
  ASSUME NEW b, NEW x, \A d \in Directions : Held(b, x, d)' = Held(b, x, d)
  PROVE  PreCollision(b, x)' = PreCollision(b, x) /\ PostCollision(b, x)' = PostCollision(b, x)
<1>1. /\ PreCollision(b, x)' = [d \in Directions |-> Held(b, x, Opposite(d))']
      /\ PostCollision(b, x)' = [d \in Directions |-> Held(b, x, d)']
  BY OppositeTwice DEF PreCollision, PostCollision, Held, PostSlot
<1> QED
  BY <1>1, DistributionsHeld, OppositeTwice

\* A step that leaves the slots of the fluid nodes alone, and finishes no
\* collision, leaves the distributions of the lattice alone.
LEMMA DistributionsStay ==
  ASSUME CollidedNodes' = CollidedNodes,
         \A g \in Fluid, d \in Directions : Held(g[1], g[2], d)' = Held(g[1], g[2], d)
  PROVE  Distributions' = Distributions
<1>1. ASSUME NEW g \in Fluid
      PROVE  /\ PreCollision(g[1], g[2])' = PreCollision(g[1], g[2])
             /\ PostCollision(g[1], g[2])' = PostCollision(g[1], g[2])
  BY NodeStays
<1> QED
  BY <1>1 DEF Distributions

\* The same for what the outlets have supplied.
LEMMA SuppliesStay ==
  ASSUME OpenedNodes' = OpenedNodes,
         \A link \in OutletLinks : Held(link[1][1], Minus(link[1][2], link[2]), link[2])'
                                     = Held(link[1][1], Minus(link[1][2], link[2]), link[2])
  PROVE  Supplies' = Supplies
<1>1. \A link \in OutletLinks :
        /\ PostCollision(link[1][1], Minus(link[1][2], link[2]))[link[2]]
             = Held(link[1][1], Minus(link[1][2], link[2]), link[2])
        /\ PostCollision(link[1][1], Minus(link[1][2], link[2]))'[link[2]]
             = Held(link[1][1], Minus(link[1][2], link[2]), link[2])'
  BY OutletLink DEF PostCollision, Held
<1> QED
  BY <1>1 DEF Supplies

\* An outlet at work is an outlet of the lattice that opens: it reads its node
\* and the one inside before they collide, and writes where no other writes.
LEMMA OpenMaps ==
  ASSUME TypeOK, NEW b \in Blocks, NEW x \in Interior(Size), ApplyPreCollisionBC(b, x)
  PROVE  Lattice!Open(<<b, x>>)
<1> DEFINE g == <<b, x>>
           inside == Plus(x, Normal[g])
<1>1. /\ phase = "preCollisionBC" /\ phase' = phase /\ g \in todo /\ todo' = todo \ {g}
  BY DEF ApplyPreCollisionBC, Do
<1>2. \A c \in Blocks, y \in BlockNodes(Size), d \in Directions :
        Held(c, y, d)' = IF c = b /\ (<<g, d>> \in OutletLinks /\ y = Minus(x, d))
                         THEN Outflow(g, d, PreCollision(b, x), PreCollision(b, inside))
                         ELSE Held(c, y, d)
  BY PreCollisionBCEffect
<1>3. todo \subseteq OutletNodes
  BY <1>1 DEF TypeOK, Work
<1>4. /\ CollidedNodes = {} /\ CollidedNodes' = {}
      /\ OpenedNodes = OutletNodes \ todo /\ OpenedNodes' = OpenedNodes \cup {g}
      /\ g \in OutletNodes /\ g \notin OpenedNodes
  BY <1>1, <1>3, Stages
<1>5. Lattice!OutletNodes = OutletNodes
  BY DEF Lattice!OutletNodes, OutletNodes
<1>6. g \in Fluid /\ <<b, inside>> \in Fluid /\ Inner(g) = <<b, inside>>
  <2>1. <<b, inside>> \in Fluid
    BY <1>4, BoundaryAssumption
  <2>2. Inner(g) = At(b, inside)
    BY DEF Inner
  <2>3. PICK link \in OutletLinks : g = link[1]
    BY <1>4 DEF OutletNodes
  <2> QED
    BY <2>1, <2>2, <2>3, FluidNodes, OutletLink
<1>7. Distributions[g] = PreCollision(b, x) /\ Distributions[Inner(g)] = PreCollision(b, inside)
  BY <1>4, <1>6 DEF Distributions
<1>8. Distributions' = Distributions
  <2>1. ASSUME NEW h \in Fluid, NEW d \in Directions
        PROVE  Held(h[1], h[2], d)' = Held(h[1], h[2], d)
    <3>1. h = <<h[1], h[2]>> /\ h[1] \in Blocks /\ h[2] \in BlockNodes(Size) /\ At(h[1], h[2]) \in Fluid
      BY FluidIn
    <3>2. ~(h[1] = b /\ <<g, d>> \in OutletLinks /\ h[2] = Minus(x, d))
      BY <3>1, LinksLeaveTheFluid
    <3> HIDE DEF g, inside
    <3> QED
      BY <1>2, <3>1, <3>2
  <2> QED
    BY <1>4, <2>1, DistributionsStay
<1>9. Supplies' = [link \in Lattice!Supplied(OpenedNodes') |->
                     IF link[1] = g THEN Outflow(g, link[2], Distributions[g], Distributions[Inner(g)])
                     ELSE Supplies[link]]
  <2> DEFINE Old(link) == Held(link[1][1], Minus(link[1][2], link[2]), link[2])
             New(link) == IF link[1] = g
                          THEN Outflow(g, link[2], Distributions[g], Distributions[Inner(g)])
                          ELSE Supplies[link]
  <2>1. Supplies' = [link \in Lattice!Supplied(OpenedNodes') |-> Old(link)']
    <3>1. \A link \in OutletLinks :
            PostCollision(link[1][1], Minus(link[1][2], link[2]))'[link[2]] = Old(link)'
      BY OutletLink DEF PostCollision, Held
    <3> QED
      BY <3>1 DEF Supplies, Lattice!Supplied
  <2>2. ASSUME NEW link \in Lattice!Supplied(OpenedNodes') PROVE Old(link)' = New(link)
    <3>1. link \in OutletLinks /\ link[1] \in OpenedNodes'
      BY DEF Lattice!Supplied
    <3>2. /\ link = <<<<link[1][1], link[1][2]>>, link[2]>> /\ link[1] = <<link[1][1], link[1][2]>>
          /\ link[1][1] \in Blocks /\ link[1][2] \in Interior(Size) /\ link[2] \in Directions
          /\ Minus(link[1][2], link[2]) \in BlockNodes(Size)
      BY <3>1, OutletLink
    <3>3. CASE link[1] = g
      <4>1. link[1][1] = b /\ link[1][2] = x /\ <<g, link[2]>> \in OutletLinks
        BY <3>1, <3>2, <3>3
      <4> QED
        BY <1>2, <1>7, <3>2, <3>3, <4>1
    <3>4. CASE link[1] # g
      <4>1. ~(link[1][1] = b /\ Minus(link[1][2], link[2]) = Minus(x, link[2]))
        <5>1. Plus(Minus(link[1][2], link[2]), link[2]) = link[1][2] /\ Plus(Minus(x, link[2]), link[2]) = x
          BY <3>2, NeighborsInBlock
        <5> QED
          BY <3>2, <3>4, <5>1
      <4>2. Old(link)' = Old(link)
        BY <1>2, <3>2, <4>1
      <4>3. link \in Lattice!Supplied(OpenedNodes)
        BY <1>4, <3>1, <3>4 DEF Lattice!Supplied
      <4>4. Supplies[link] = Old(link)
        BY <4>3, SuppliesHeld
      <4> QED
        BY <3>4, <4>2, <4>4
    <3> QED
      BY <3>3, <3>4
  <2> HIDE DEF Old, New
  <2>3. Supplies' = [link \in Lattice!Supplied(OpenedNodes') |-> New(link)]
    BY <2>1, <2>2
  <2> QED
    BY <2>3 DEF New
<1>10. g \in Lattice!OutletNodes \ (OpenedNodes \cup CollidedNodes) /\ Inner(g) \notin CollidedNodes
  BY <1>4, <1>5
<1> HIDE DEF g
<1>11. Lattice!Open(g)
  BY <1>4, <1>8, <1>9, <1>10 DEF Lattice!Open
<1> QED
  BY <1>11 DEF g

\* A collision in place is the collision of the lattice: the node's 27 slots
\* are read and written by no other node.
LEMMA CollideMaps ==
  ASSUME TypeOK, NEW b \in Blocks, NEW x \in Interior(Size), Calculate(b, x)
  PROVE  Lattice!Collide(<<b, x>>)
<1> DEFINE g == <<b, x>>
<1>1. phase = "calculate" /\ phase' = phase /\ g \in todo /\ todo' = todo \ {g} /\ todo \subseteq Fluid
  BY DEF Calculate, Do, TypeOK, Work
<1>2. \A c \in Blocks, y \in BlockNodes(Size), d \in Directions :
        Held(c, y, d)' = IF c = b /\ y = x THEN Collision(g, PreCollision(b, x), d) ELSE Held(c, y, d)
  BY CalculateEffect
<1>3. /\ g \in Fluid \ CollidedNodes /\ CollidedNodes' = CollidedNodes \cup {g}
      /\ OpenedNodes' = OpenedNodes
  BY <1>1, Stages
<1>4. Distributions' = [Distributions EXCEPT ![g] = [d \in Directions |-> Collision(g, Distributions[g], d)]]
  <2> DEFINE After(h) == IF h = g THEN [d \in Directions |-> Collision(g, Distributions[g], d)]
                         ELSE Distributions[h]
  <2>1. Distributions[g] = PreCollision(b, x)
    BY <1>3 DEF Distributions
  <2>2. PostCollision(b, x)' = [d \in Directions |-> Held(b, x, d)']
    BY DEF PostCollision, Held
  <2>3. \A d \in Directions : Held(b, x, d)' = Collision(g, Distributions[g], d)
    BY <1>2, <1>3, <2>1, FluidIn
  <2>4. PostCollision(b, x)' = After(g)
    BY <2>2, <2>3
  <2>5. ASSUME NEW h \in Fluid, h # g
        PROVE  /\ PreCollision(h[1], h[2])' = PreCollision(h[1], h[2])
               /\ PostCollision(h[1], h[2])' = PostCollision(h[1], h[2])
    <3>1. h = <<h[1], h[2]>> /\ h[1] \in Blocks /\ h[2] \in BlockNodes(Size)
      BY FluidIn
    <3>2. ~(h[1] = b /\ h[2] = x)
      BY <2>5, <3>1
    <3>3. \A d \in Directions : Held(h[1], h[2], d)' = Held(h[1], h[2], d)
      BY <1>2, <3>1, <3>2
    <3> QED
      BY <3>3, NodeStays
  <2>6. ASSUME NEW h \in Fluid
        PROVE  (IF h \in CollidedNodes' THEN PostCollision(h[1], h[2])' ELSE PreCollision(h[1], h[2])') = After(h)
    <3>1. CASE h = g
      BY <1>3, <2>4, <3>1
    <3>2. CASE h # g
      BY <1>3, <2>5, <3>2 DEF Distributions
    <3> QED
      BY <3>1, <3>2
  <2>7. Distributions' = [h \in Fluid |->
          IF h \in CollidedNodes' THEN PostCollision(h[1], h[2])' ELSE PreCollision(h[1], h[2])']
    BY DEF Distributions
  <2>8. Distributions' = [h \in Fluid |-> After(h)]
    BY <2>6, <2>7
  <2>9. DOMAIN Distributions = Fluid
    BY DEF Distributions
  <2> QED
    BY <1>3, <2>8, <2>9
<1>5. Supplies' = Supplies
  <2>1. ASSUME NEW link \in OutletLinks
        PROVE  Held(link[1][1], Minus(link[1][2], link[2]), link[2])'
                 = Held(link[1][1], Minus(link[1][2], link[2]), link[2])
    <3> DEFINE c == link[1][1]
               y == Minus(link[1][2], link[2])
    <3>1. c \in Blocks /\ y \in BlockNodes(Size) /\ link[2] \in Directions /\ At(c, y) \notin Fluid
      BY OutletLink
    <3>2. ~(c = b /\ y = x)
      BY <1>3, <3>1, FluidNodes
    <3> HIDE DEF c, y
    <3>3. Held(c, y, link[2])' = Held(c, y, link[2])
      BY <1>2, <3>1, <3>2
    <3> QED
      BY <3>3 DEF c, y
  <2> QED
    BY <1>3, <2>1, SuppliesStay
<1> HIDE DEF g
<1>6. Lattice!Collide(g)
  BY <1>3, <1>4, <1>5 DEF Lattice!Collide
<1> QED
  BY <1>6 DEF g

\* Sending is not seen by the lattice: it fills ghost nodes, which are neither
\* fluid nor the nodes an outlet has written to.
LEMMA SendStutters ==
  ASSUME TypeOK, NEW b \in Blocks, NEW dir \in Directions, SendVectors(b, dir)
  PROVE  UNCHANGED Lattice!vars
<1>1. /\ phase = "exchange" /\ Neighbor[b][dir] \in Blocks /\ dir # Rest
      /\ Neighbor[Neighbor[b][dir]][Opposite(dir)] = b
  BY ConnectorLeads
<1>2. \A c \in Blocks, y \in BlockNodes(Size), d \in Directions :
        Held(c, y, d)' = IF c = Neighbor[b][dir] /\ Side(y) = Opposite(dir)
                         THEN Held(b, Shifted(y, Opposite(dir)), d) ELSE Held(c, y, d)
  BY SendVectorsEffect
<1>3. phase' = "exchange"
  BY <1>1 DEF SendVectors, Do
<1>4. CollidedNodes' = CollidedNodes /\ OpenedNodes' = OpenedNodes
  BY <1>1, <1>3, Stages
<1>5. Opposite(dir) # Rest
  BY <1>1, OppositeTwice
<1>6. Distributions' = Distributions
  <2>1. ASSUME NEW h \in Fluid, NEW d \in Directions
        PROVE  Held(h[1], h[2], d)' = Held(h[1], h[2], d)
    <3>1. h[1] \in Blocks /\ h[2] \in BlockNodes(Size) /\ Side(h[2]) = Rest
      BY FluidIn, Sides
    <3> QED
      BY <1>2, <1>5, <3>1
  <2> QED
    BY <1>4, <2>1, DistributionsStay
<1>7. Supplies' = Supplies
  <2>1. ASSUME NEW link \in OutletLinks
        PROVE  Held(link[1][1], Minus(link[1][2], link[2]), link[2])'
                 = Held(link[1][1], Minus(link[1][2], link[2]), link[2])
    <3> DEFINE c == link[1][1]
               y == Minus(link[1][2], link[2])
    <3>1. c \in Blocks /\ y \in BlockNodes(Size) /\ link[2] \in Directions
      BY OutletLink
    <3>2. Side(y) = Rest \/ Neighbor[c][Side(y)] = None
      BY BoundaryAssumption
    <3>3. ~(c = Neighbor[b][dir] /\ Side(y) = Opposite(dir))
      BY <1>1, <1>5, <3>2, GridAssumption
    <3> HIDE DEF c, y
    <3>4. Held(c, y, link[2])' = Held(c, y, link[2])
      BY <1>2, <3>1, <3>3
    <3> QED
      BY <3>4 DEF c, y
  <2> QED
    BY <1>4, <2>1, SuppliesStay
<1> QED
  BY <1>4, <1>6, <1>7 DEF Lattice!vars

\* Nor is a wall at work, before the swap: it writes where no outlet does.
LEMMA WallStutters ==
  ASSUME IInv, NEW b \in Blocks, NEW x \in Interior(Size), ApplyPostCollisionBC(b, x)
  PROVE  UNCHANGED Lattice!vars
<1>1. TypeOK
  BY DEF IInv
<1>2. \A c \in Blocks, y \in BlockNodes(Size), d \in Directions :
        Held(c, y, d)' = IF c = b /\ (<<<<b, x>>, d>> \in WallLinks /\ y = Minus(x, d))
                         THEN Returned(<<b, x>>, d, PostCollision(b, x)) ELSE Held(c, y, d)
  BY <1>1, PostCollisionBCEffect
<1>3. phase = "postCollisionBC" /\ phase' = phase
  BY DEF ApplyPostCollisionBC, Do
<1>4. CollidedNodes' = CollidedNodes /\ OpenedNodes' = OpenedNodes
  BY <1>3, Stages
<1>5. Distributions' = Distributions
  <2>1. \A h \in Fluid, d \in Directions : Held(h[1], h[2], d)' = Held(h[1], h[2], d)
    BY PostCollisionBCKeeps, FluidIn
  <2> QED
    BY <1>4, <2>1, DistributionsStay
<1>6. Supplies' = Supplies
  <2>1. ASSUME NEW link \in OutletLinks
        PROVE  Held(link[1][1], Minus(link[1][2], link[2]), link[2])'
                 = Held(link[1][1], Minus(link[1][2], link[2]), link[2])
    <3> DEFINE c == link[1][1]
               z == link[1][2]
               e == link[2]
    <3>1. /\ link = <<<<c, z>>, e>> /\ link \notin WallLinks /\ c \in Blocks /\ z \in Interior(Size)
          /\ e \in Directions /\ Minus(z, e) \in BlockNodes(Size)
      BY OutletLink
    <3> HIDE DEF c, z, e
    <3>2. ~(c = b /\ <<<<b, x>>, e>> \in WallLinks /\ Minus(z, e) = Minus(x, e))
      <4>1. Plus(Minus(z, e), e) = z /\ Plus(Minus(x, e), e) = x
        BY <3>1, NeighborsInBlock
      <4> QED
        BY <3>1, <4>1
    <3>3. Held(c, Minus(z, e), e)' = Held(c, Minus(z, e), e)
      BY <1>2, <3>1, <3>2
    <3> QED
      BY <3>3 DEF c, z, e
  <2> QED
    BY <1>4, <2>1, SuppliesStay
<1> QED
  BY <1>4, <1>5, <1>6 DEF Lattice!vars

\* Between two loops nothing happens to the lattice.
LEMMA EndLoopStutters ==
  ASSUME TypeOK, EndLoop
  PROVE  UNCHANGED Lattice!vars
<1>1. /\ phase # "postCollisionBC" /\ todo = {} /\ phase' = Following[phase] /\ todo' = Work(phase')
      /\ mem' = mem /\ loc' = loc
  BY DEF EndLoop
<1>2. \/ phase = "preCollisionBC" /\ phase' = "calculate" /\ todo' = Fluid
      \/ phase = "calculate" /\ phase' = "exchange"
      \/ phase = "exchange" /\ phase' = "postCollisionBC"
  BY <1>1 DEF TypeOK, Phases, Following, Work
<1>3. CollidedNodes' = CollidedNodes /\ OpenedNodes' = OpenedNodes
  BY <1>1, <1>2, Stages
<1>4. \A b, y, d : Held(b, y, d)' = Held(b, y, d)
  BY <1>1 DEF Held, Content
<1>5. Distributions' = Distributions /\ Supplies' = Supplies
  BY <1>3, <1>4, DistributionsStay, SuppliesStay
<1> QED
  BY <1>3, <1>5 DEF Lattice!vars

\* The swap of the array pointers is the streaming of the lattice: what a node
\* finds afterwards is what its neighbour left, or what a wall or an outlet
\* supplied in its place.
LEMMA StreamMaps ==
  ASSUME IInv, SwapDistributions
  PROVE  Lattice!Stream
<1>1. TypeOK /\ GhostsHold /\ WallsHaveReturned
  BY DEF IInv
<1>2. /\ phase = "postCollisionBC" /\ todo = {} /\ mem' = mem
      /\ phase' = "preCollisionBC" /\ todo' = OutletNodes
      /\ loc' = [b \in Blocks |-> Other(loc[b])]
  BY DEF SwapDistributions, Work
<1>3. CollidedNodes = Fluid /\ OpenedNodes = OutletNodes /\ CollidedNodes' = {} /\ OpenedNodes' = {}
  BY <1>2, Stages
<1>4. \A g \in Fluid : Distributions[g] = PostCollision(g[1], g[2])
  BY <1>3 DEF Distributions
<1>5. ASSUME NEW g \in Fluid, NEW d \in Directions
      PROVE  PreCollision(g[1], g[2])'[d] = Held(g[1], Minus(g[2], d), d)
  <2>1. g[1] \in Blocks /\ g[2] \in Triples /\ loc[g[1]] \in Arrays /\ loc'[g[1]] = Other(loc[g[1]])
    BY <1>1, <1>2, FluidIn DEF TypeOK
  <2>2. PreSlot(Other(loc[g[1]]), g[2], d) = PostSlot(loc[g[1]], Minus(g[2], d), d)
    BY <2>1, SwapStreams
  <2> QED
    BY <1>2, <2>1, <2>2 DEF PreCollision, Held, Content
<1>6. ASSUME NEW g \in Fluid, NEW d \in Directions
      PROVE  Held(g[1], Minus(g[2], d), d) = Lattice!Incoming(g, d)
  <2> DEFINE b == g[1]
             x == g[2]
             y == Minus(x, d)
  <2>1. g = <<b, x>> /\ b \in Blocks /\ x \in Interior(Size)
    BY FluidIn
  <2>2. y \in BlockNodes(Size)
    BY <2>1, NeighborsInBlock
  <2>3. CASE <<g, d>> \in WallLinks
    <3>1. Held(b, y, d) = Returned(g, d, PostCollision(b, x))
      BY <1>1, <1>2, <2>1, <2>3 DEF WallsHaveReturned
    <3>2. Lattice!Incoming(g, d) = Returned(g, d, Distributions[g])
      BY <2>3 DEF Lattice!Incoming
    <3> QED
      BY <1>4, <3>1, <3>2
  <2>4. CASE <<g, d>> \in OutletLinks
    <3>1. <<g, d>> \notin WallLinks
      BY <2>4, BoundaryAssumption
    <3>2. Lattice!Incoming(g, d) = Supplies[<<g, d>>]
      BY <2>4, <3>1 DEF Lattice!Incoming
    <3>3. g \in OutletNodes
      BY <2>4 DEF OutletNodes
    <3>4. <<g, d>> \in Lattice!Supplied(OpenedNodes)
      BY <1>3, <2>4, <3>3 DEF Lattice!Supplied
    <3> QED
      BY <3>2, <3>4, SuppliesHeld
  <2>5. CASE <<g, d>> \notin WallLinks \cup OutletLinks
    <3>1. Lattice!Incoming(g, d) = Distributions[Origin(g, d)][d]
      BY <2>5 DEF Lattice!Incoming
    <3>2. Origin(g, d) = At(b, y)
      BY DEF Origin
    <3>3. At(b, y) \in Fluid
      <4>1. <<g, d>> \in Fluid \X Directions /\ <<g, d>>[1] = g /\ <<g, d>>[2] = d
        OBVIOUS
      <4> QED
        BY <2>5, <3>2, <4>1, BoundaryAssumption
    <3> DEFINE owner == Neighbor[b][Side(y)]
               node  == Shifted(y, Side(y))
    <3>4. At(b, y) = <<owner, node>>
      BY DEF At
    <3>5. Distributions[Origin(g, d)][d] = Held(owner, node, d)
      BY <1>4, <3>2, <3>3, <3>4, DistributionsHeld
    <3>6. Held(b, y, d) = Held(owner, node, d)
      <4>1. CASE Side(y) = Rest
        BY <2>1, <2>2, <3>4, <4>1, Sides, FluidNodes
      <4>2. CASE Side(y) # Rest
        BY <1>1, <1>2, <2>1, <2>2, <3>3, <4>2 DEF GhostsHold, Delivered
      <4> QED
        BY <4>1, <4>2
    <3> QED
      BY <3>1, <3>5, <3>6
  <2> QED
    BY <2>3, <2>4, <2>5
<1>7. Distributions' = [g \in Fluid |-> [d \in Directions |-> Lattice!Incoming(g, d)]]
  <2>1. Distributions' = [g \in Fluid |-> PreCollision(g[1], g[2])']
    BY <1>3 DEF Distributions
  <2>2. ASSUME NEW g \in Fluid
        PROVE  PreCollision(g[1], g[2])' = [d \in Directions |-> Lattice!Incoming(g, d)]
    <3>1. \A d \in Directions : PreCollision(g[1], g[2])'[d] = Lattice!Incoming(g, d)
      BY <1>5, <1>6
    <3>2. PreCollision(g[1], g[2])' = [d \in Directions |-> PreCollision(g[1], g[2])'[d]]
      BY DEF PreCollision
    <3> QED
      BY <3>1, <3>2
  <2> QED
    BY <2>1, <2>2
<1>8. Supplies' = [link \in Lattice!Supplied({}) |-> link]
  <2>1. Lattice!Supplied({}) = {} /\ { l \in OutletLinks : l[1] \in OpenedNodes' } = {}
    BY <1>3 DEF Lattice!Supplied
  <2> QED
    BY <2>1 DEF Supplies
<1>9. Lattice!OutletNodes = OutletNodes
  BY DEF Lattice!OutletNodes, OutletNodes
<1> QED
  BY <1>3, <1>7, <1>8, <1>9 DEF Lattice!Stream

\* Every behaviour of the blocks is one of the lattice (ImplementsLattice):
\* ghost layers, direct connectors, boundary conditions that write into
\* nodes outside of the fluid, collisions in place and the swap of two
\* pointers amount to collide and stream.
THEOREM BlocksImplementLattice == Spec => ImplementsLattice
<1>1. IInv /\ [Next]_vars => [Lattice!Next]_(Lattice!vars)
  <2> SUFFICES ASSUME IInv, [Next]_vars PROVE [Lattice!Next]_(Lattice!vars)
    OBVIOUS
  <2>1. TypeOK
    BY DEF IInv
  <2>2. ASSUME NEW b \in Blocks, NEW x \in Interior(Size), ApplyPreCollisionBC(b, x) PROVE Lattice!Next
    <3>1. Lattice!Open(<<b, x>>)
      BY <2>1, <2>2, OpenMaps
    <3>2. <<b, x>> \in OutletNodes
      BY <2>1, <2>2 DEF ApplyPreCollisionBC, Do, TypeOK, Work
    <3>3. <<b, x>> \in Fluid
      BY <3>2, OutletLink DEF OutletNodes
    <3> QED
      BY <3>1, <3>3 DEF Lattice!Next
  <2>3. ASSUME NEW b \in Blocks, NEW x \in Interior(Size), Calculate(b, x) PROVE Lattice!Next
    <3>1. Lattice!Collide(<<b, x>>)
      BY <2>1, <2>3, CollideMaps
    <3>2. <<b, x>> \in Fluid
      BY <2>1, <2>3 DEF Calculate, Do, TypeOK, Work
    <3> QED
      BY <3>1, <3>2 DEF Lattice!Next
  <2>4. ASSUME NEW b \in Blocks, NEW x \in Interior(Size), ApplyPostCollisionBC(b, x)
        PROVE  UNCHANGED Lattice!vars
    BY <2>4, WallStutters
  <2>5. ASSUME NEW b \in Blocks, NEW dir \in Directions, SendVectors(b, dir)
        PROVE  UNCHANGED Lattice!vars
    BY <2>1, <2>5, SendStutters
  <2>6. ASSUME EndLoop PROVE UNCHANGED Lattice!vars
    BY <2>1, <2>6, EndLoopStutters
  <2>7. ASSUME SwapDistributions PROVE Lattice!Next
    BY <2>7, StreamMaps DEF Lattice!Next
  <2>8. ASSUME UNCHANGED vars PROVE UNCHANGED Lattice!vars
    <3>1. mem' = mem /\ loc' = loc /\ phase' = phase /\ todo' = todo
      BY <2>8 DEF vars
    <3>2. CollidedNodes' = CollidedNodes /\ OpenedNodes' = OpenedNodes
      BY <3>1 DEF CollidedNodes, OpenedNodes
    <3>3. \A b, y, d : Held(b, y, d)' = Held(b, y, d)
      BY <3>1 DEF Held, Content
    <3>4. Distributions' = Distributions /\ Supplies' = Supplies
      BY <3>2, <3>3, DistributionsStay, SuppliesStay
    <3> QED
      BY <3>2, <3>4 DEF Lattice!vars
  <2> QED
    BY <2>2, <2>3, <2>4, <2>5, <2>6, <2>7, <2>8 DEF Next
<1> QED
  BY <1>1, InitMaps, Invariance, PTL DEF Spec, Lattice!Spec, ImplementsLattice
=============================================================================
