----------------------------- MODULE MCGpuHalo -----------------------------
(* Instances of GpuHalo. *)
EXTENDS GpuHalo

Setup(n, periodic, width, useStreams, buffered, steps) ==
  [n |-> n, periodic |-> periodic, width |-> width, useStreams |-> useStreams,
   buffered |-> buffered, steps |-> steps, fineToCoarse |-> {}, coarseToFine |-> {}]

\* The same with an interface to a finer level.
Coarse(s, fineToCoarse, coarseToFine) ==
  [s EXCEPT !.fineToCoarse = fineToCoarse, !.coarseToFine = coarseToFine]

No  == <<FALSE, FALSE, FALSE>>
InX == <<TRUE, FALSE, FALSE>>

\* The cell of a grid that is one node thick on the Z axis.
Cell(x, y) == { <<i, j, 0>> : i \in {x, x + 1}, j \in {y, y + 1} }

\* In a square of 4x4 nodes: a finer grid at low x, whose interface crosses
\* the border between the sub-domains on the Y axis away from that on the X axis,
\* with cells that reach over both.
AtLowX ==
  [fine |-> { <<0, y, 0>> : y \in 0 .. 3 }, coarse |-> { Cell(x, y) : x \in {1, 2}, y \in 0 .. 2 }]

\* On a chain or a ring of sub-domains on the X axis: the nodes (x, y) of fine, and
\* the cells whose first nodes are the pairs of coarse.
OnX(fine, coarse) ==
  [fine |-> { <<p[1], p[2], 0>> : p \in fine }, coarse |-> { Cell(p[1], p[2]) : p \in coarse }]

WithInterface(s, i) == Coarse(s, i.fine, i.coarse)

\* A square with and without streams and buffering, two sub-domains that are
\* each other's neighbours on both sides, a periodic ring of three, and a
\* cube, whose corners pass three processes.
Uniform ==
  { Setup(<<2, 2, 1>>, No, 2, streams, buffered, 2) : streams, buffered \in BOOLEAN }
  \cup { Setup(<<2, 1, 1>>, InX, 2, streams, FALSE, 2) : streams \in BOOLEAN }
  \cup { Setup(<<1, 2, 1>>, <<FALSE, TRUE, FALSE>>, 2, TRUE, TRUE, 2) }
  \cup { Setup(<<1, 1, 3>>, <<FALSE, FALSE, TRUE>>, 2, TRUE, FALSE, 2) }
  \cup { Setup(<<2, 2, 2>>, No, 1, TRUE, FALSE, 1) }

\* The square, a chain of three with an interface at one of its borders, and a
\* ring of two with one at each border.
Interfaces ==
  { WithInterface(Setup(<<2, 2, 1>>, No, 2, streams, FALSE, 1), AtLowX) : streams \in BOOLEAN }
  \cup { WithInterface(Setup(<<3, 1, 1>>, No, 2, TRUE, TRUE, 2),
                       OnX({2} \X {0, 1}, {0, 1} \X {0})) }
  \cup { WithInterface(Setup(<<2, 1, 1>>, InX, 3, streams, FALSE, 2),
                       OnX({<<2, 1>>, <<0, 1>>, <<0, 2>>}, ({1, 2} \X {0, 1}) \cup {<<4, 1>>})) :
           streams \in BOOLEAN }

Grids == Uniform \cup Interfaces

\* They are among those of which GpuHalo_proofs proves the properties.
ASSUME SuitableGrids == \A s \in Setups \cap Grids : Suitable(s) /\ NoRingAtStart(s)

\* An interface that runs across the corner in which four sub-domains meet.
AcrossTheCorner ==
  { WithInterface(Setup(<<2, 2, 1>>, No, 2, streams, TRUE, 1),
                  [fine |-> { <<1, y, 0>> : y \in 0 .. 3 }, coarse |-> { Cell(2, y) : y \in 0 .. 2 }]) :
      streams \in BOOLEAN }

\* Grids on which a property fails that no run checks; the README says why.  The
\* neighbours of a column have ranks of the same parity: GhostsFresh.
PeriodicInY == { Setup(<<2, 2, 1>>, <<FALSE, TRUE, FALSE>>, 2, FALSE, TRUE, 1) }
\* Sub-domains of one node: an edge node stands in two layers of an axis, and with
\* streams only one of them is patched: GhostsFresh.
ThinInY == { Setup(<<2, 3, 1>>, No, 1, TRUE, FALSE, 1) }
\* In a ring of three each waits for its neighbour at start-up: NoCircularWait.
RefinedRing ==
  { WithInterface(Setup(<<3, 1, 1>>, InX, 3, FALSE, TRUE, 1), OnX({2} \X {1, 2}, {1, 2} \X {0, 1})) }
\* The list of one process ends with the position 0: NeighboursAgree.
LastIsFirst ==
  { WithInterface(Setup(<<2, 1, 1>>, No, 2, FALSE, TRUE, 1), OnX({<<2, 1>>}, {<<1, 0>>})) }
\* One process sends more than twice as many nodes as the other: NoCircularWait.
ManyToFew ==
  { WithInterface(Setup(<<2, 1, 1>>, No, 3, FALSE, TRUE, 1), OnX({2} \X {0, 1, 2}, {})) }
=============================================================================
