------------------------------ MODULE EsoSplit ------------------------------
(***************************************************************************)
(* The storage of the distributions of one block of the CPU solver         *)
(* (src/cpu/core/Data/EsoSplit.cpp).  A node has one distribution for each *)
(* of the 27 directions, but there is no second copy of the lattice for    *)
(* the result of a collision: a collision overwrites what it has read, and *)
(* streaming is no more than an exchange of two array pointers.            *)
(*                                                                         *)
(* Twice 13 arrays and a zero array are allocated; they are called "first" *)
(* and "second" here, and l says which of them localDistributions points   *)
(* to.  A direction is stored under the index it shares with its opposite  *)
(* (the e constants of D3Q27.h), named by the one of the two that lies in  *)
(* the local arrays before a collision.                                    *)
(***************************************************************************)
EXTENDS Integers

Axes       == 1 .. 3
Directions == [Axes -> {-1, 0, 1}]
Rest       == [k \in Axes |-> 0]

Opposite(d) == [k \in Axes |-> -d[k]]
Plus(x, y)  == [k \in Axes |-> x[k] + y[k]]
Minus(x, y) == [k \in Axes |-> x[k] - y[k]]

\* The directions read from the local arrays before a collision: the last
\* axis along which such a direction moves, it moves forward.
Ahead(d) == \E k \in Axes : d[k] = 1 /\ \A m \in Axes : m > k => d[m] = 0
Pair(d)  == IF Ahead(d) THEN d ELSE Opposite(d)
Pairs    == { d \in Directions : Ahead(d) }

\* The 1 added to a coordinate (x1p = x1 + 1) if d comes from further up.
Offset(d) == [k \in Axes |-> IF d[k] = -1 THEN 1 ELSE 0]

Arrays   == {"first", "second"}
Fields   == Arrays \cup {"zero"}
Other(l) == IF l = "first" THEN "second" ELSE "first"

\* Where a distribution of node x lies before its collision ...
PreSlot(l, x, d) ==
  IF d = Rest THEN <<"zero", Rest, x>>
  ELSE <<IF Ahead(d) THEN l ELSE Other(l), Pair(d), Plus(x, Offset(d))>>

\* ... and after it.
PostSlot(l, x, d) == PreSlot(l, x, Opposite(d))

\* The direction and the node a slot belongs to after the collisions.
PostDirection(l, s) ==
  IF s[1] = "zero" THEN Rest ELSE IF s[1] = l THEN Opposite(s[2]) ELSE s[2]
PostNode(l, s) == Minus(s[3], Offset(Opposite(PostDirection(l, s))))

\* The index triples from low to n[k] + more on each axis k.
Box(low, n, more) ==
  { x \in [Axes -> low .. n[1] + n[2] + n[3] + more] :
      \A k \in Axes : x[k] \in low .. n[k] + more }

\* A block of n[1] x n[2] x n[3] nodes without and with its ghost layer, and
\* what is allocated for it: the arrays have one element more on each axis.
Interior(n)   == Box(1, n, 0)
BlockNodes(n) == Box(0, n, 1)
Elements(n)   == Box(0, n, 2)

Indices(field)   == IF field = "zero" THEN {Rest} ELSE Pairs
Extent(field, n) == IF field = "zero" THEN BlockNodes(n) ELSE Elements(n)
=============================================================================
