--------------------------- MODULE BlockStreaming ---------------------------
(***************************************************************************)
(* A time step of one level of the CPU solver on the distributions         *)
(* themselves.  Simulation.tla follows versions of whole levels through    *)
(* the time loop; this module follows every distribution through the       *)
(* memory of EsoSplit: the collision that overwrites what it reads         *)
(* (K17CompressibleNavierStokes::calculate), the direct connectors that    *)
(* fill the ghost layers (FullDirectConnector,                             *)
(* OneDistributionFullDirectConnector), the boundary conditions that write *)
(* into nodes that are not fluid (BCSet, NoSlipInterpolated and            *)
(* OutflowNonReflecting stand for the others of their kind) and the swap.  *)
(*                                                                         *)
(* A loop over blocks or connectors is shared by OpenMP threads: its items *)
(* are done in any order, and the next loop begins when all are done.      *)
(***************************************************************************)
EXTENDS EsoSplit

CONSTANTS
  Blocks, None,
  Neighbor,             \* Neighbor[b][s]: the block next to b in direction s, or None
  Size,                 \* nodes of a block on each axis, without ghost layer
  Solid,                \* {<<b, x>>}: nodes that are not fluid
  WallLinks,            \* {<<<<b, x>>, d>>}: no-slip flags of the fluid nodes
  OutletLinks,          \* {<<<<b, x>>, d>>}: density flags of the fluid nodes
  Normal,               \* Normal[g]: direction in which an outlet node looks into the fluid
  Initial(_, _, _),     \* distribution d of node x of block b after InitDistributions
  Collision(_, _, _),   \* distribution d of a node after its collision
  Returned(_, _, _),    \* what a wall makes of the distributions of a node
  Outflow(_, _, _, _),  \* what an outlet makes of those of a node and the node inside
  NumberOfTimeSteps

Sizes   == [field \in Fields |-> Extent(field, Size)]
Inside  == Blocks \X Interior(Size)
Fluid   == Inside \ Solid

ASSUME GridAssumption ==
  /\ Size \in [Axes -> Nat \ {0}]
  /\ None \notin Blocks
  /\ Neighbor \in [Blocks -> [Directions -> Blocks \cup {None}]]
  /\ \A b \in Blocks, s \in Directions :
       Neighbor[b][s] # None => Neighbor[Neighbor[b][s]][Opposite(s)] = b
  /\ \A b \in Blocks : Neighbor[b][Rest] = b

ASSUME StepsAssumption == NumberOfTimeSteps \in Nat \ {0}

-----------------------------------------------------------------------------
(* The fluid as a whole *)

\* On which side of its block a node lies: Rest inside, else in the ghost layer.
Side(x) == [k \in Axes |-> IF x[k] = 0 THEN -1 ELSE IF x[k] = Size[k] + 1 THEN 1 ELSE 0]

\* A node one block further in direction s, counted from there.
Shifted(x, s) == [k \in Axes |-> x[k] - s[k] * Size[k]]

\* The node of the grid at index x of block b, ghost layer included; beyond the
\* border of the grid it is a node of None.
At(b, x) == <<Neighbor[b][Side(x)], Shifted(x, Side(x))>>

Origin(g, d) == At(g[1], Minus(g[2], d))
Inner(g)     == At(g[1], Plus(g[2], Normal[g]))

WallNodes    == { link[1] : link \in WallLinks }
OutletNodes  == { link[1] : link \in OutletLinks }

\* What does not come from the fluid is supplied by a boundary condition.  An
\* outlet node looks at a node of its own block, and the node it writes to is
\* not one that a connector fills: it writes before the exchange.
ASSUME BoundaryAssumption ==
  /\ Solid \subseteq Inside
  /\ WallLinks \cup OutletLinks = { link \in Fluid \X Directions : Origin(link[1], link[2]) \notin Fluid }
  /\ WallLinks \cap OutletLinks = {}
  /\ Normal \in [OutletNodes -> Directions]
  /\ \A g \in OutletNodes : <<g[1], Plus(g[2], Normal[g])>> \in Fluid
  /\ \A link \in OutletLinks :
       LET y == Minus(link[1][2], link[2]) IN Side(y) = Rest \/ Neighbor[link[1][1]][Side(y)] = None

-----------------------------------------------------------------------------

VARIABLES
  mem,      \* mem[b]: the arrays of EsoSplit of block b
  loc,      \* loc[b]: which of them localDistributions points to
  phase,    \* the loop Simulation::run is in
  todo,     \* what this loop has still to do
  step

vars == <<mem, loc, phase, todo, step>>

Connectors == { c \in Blocks \X (Directions \ {Rest}) : Neighbor[c[1]][c[2]] # None }

Phases == {"preCollisionBC", "calculate", "exchange", "postCollisionBC"}
Work(p) ==
  CASE p = "preCollisionBC"  -> OutletNodes
    [] p = "calculate"       -> Fluid          \* isUnvalidForCollision skips the others
    [] p = "exchange"        -> Connectors
    [] p = "postCollisionBC" -> WallNodes
Following == [preCollisionBC |-> "calculate", calculate |-> "exchange", exchange |-> "postCollisionBC"]

\* The arrays of a block, filled slot by slot.
Filled(Value(_)) ==
  [field \in Fields |-> [i \in Indices(field) |-> [y \in Sizes[field] |-> Value(<<field, i, y>>)]]]
Content(b, s) == mem[b][s[1]][s[2]][s[3]]

\* InitDistributionsBlockVisitor sets the distributions of every node twice;
\* what remains is the second time, setPreCollisionDistribution.
InitialMemory(b) ==
  LET Value(s) == Initial(b, PostNode("first", s), Opposite(PostDirection("first", s)))
  IN Filled(Value)

Init ==
  /\ mem = [b \in Blocks |-> InitialMemory(b)]
  /\ loc = [b \in Blocks |-> "first"]
  /\ phase = "preCollisionBC" /\ todo = Work("preCollisionBC")
  /\ step = 1

PreCollision(b, x)  == [d \in Directions |-> Content(b, PreSlot(loc[b], x, d))]
PostCollision(b, x) == [d \in Directions |-> Content(b, PostSlot(loc[b], x, d))]

\* What a connector finds in localDistributions of a block: updatePointers
\* looks before every exchange.
\* Faulty variant: it looked once, in init.
PointersOfInit(b) == "first"
UpdatePointers(b) == loc[b]

\* The distribution Value(y, d) is written to node y along d where Writes(y, d).
Store(b, Writes(_, _), Value(_, _)) ==
  LET NewValue(s) == LET y == PostNode(loc[b], s)
                         d == PostDirection(loc[b], s)
                     IN IF Writes(y, d) THEN Value(y, d) ELSE Content(b, s)
  IN mem' = [mem EXCEPT ![b] = Filled(NewValue)]

Do(p, item) ==
  /\ phase = p /\ item \in todo
  /\ todo' = todo \ {item}
  /\ UNCHANGED <<loc, phase, step>>

\* Faulty variant: an outlet writes the node's own slot.
OwnSlot(x, y, d) == y = x
\* An outlet writes with setPreCollisionDistributionForDirection against the
\* direction, one node further out: this is the slot from which the swap
\* makes the node's incoming distribution of the next step.
OutletSlot(x, y, d) == y = Minus(x, d)

ApplyPreCollisionBC(b, x) ==
  LET g           == <<b, x>>
      h           == PreCollision(b, x)
      inside      == PreCollision(b, Plus(x, Normal[g]))
      Writes(y, d) == <<g, d>> \in OutletLinks /\ OutletSlot(x, y, d)
      Value(y, d)  == Outflow(g, d, h, inside)
  IN /\ Do("preCollisionBC", g)
     /\ Store(b, Writes, Value)

Calculate(b, x) ==
  LET h            == PreCollision(b, x)
      Writes(y, d) == y = x
      Value(y, d)  == Collision(<<b, x>>, h, d)
  IN /\ Do("calculate", <<b, x>>)
     /\ Store(b, Writes, Value)

\* The connector of b in direction dir: it fetches the array pointers of both
\* blocks and copies the layer of nodes at this side of b into the ghost
\* layer at the opposite side of the neighbour.
SendVectors(b, dir) ==
  LET to           == Neighbor[b][dir]
      Writes(y, d) == y \in BlockNodes(Size) /\ Side(y) = Opposite(dir)
      Value(y, d)  == Content(b, PostSlot(UpdatePointers(b), Shifted(y, Opposite(dir)), d))
  IN /\ Do("exchange", <<b, dir>>)
     /\ Store(to, Writes, Value)

ApplyPostCollisionBC(b, x) ==
  LET g            == <<b, x>>
      h            == PostCollision(b, x)
      Writes(y, d) == <<g, d>> \in WallLinks /\ y = Minus(x, d)
      Value(y, d)  == Returned(g, d, h)
  IN /\ Do("postCollisionBC", g)
     /\ Store(b, Writes, Value)

\* Faulty variant: the next loop begins on the items of the last one.
EndLoopWithOldItems ==
  /\ phase # "postCollisionBC" /\ todo = {}
  /\ phase' = Following[phase]
  /\ todo' = Work(phase)
  /\ UNCHANGED <<mem, loc, step>>

EndLoop ==
  /\ phase # "postCollisionBC" /\ todo = {}
  /\ phase' = Following[phase]
  /\ todo' = Work(phase')
  /\ UNCHANGED <<mem, loc, step>>

SwapDistributions ==
  /\ phase = "postCollisionBC" /\ todo = {}
  /\ step < NumberOfTimeSteps
  /\ loc' = [b \in Blocks |-> Other(loc[b])]
  /\ phase' = "preCollisionBC" /\ todo' = Work("preCollisionBC")
  /\ step' = step + 1
  /\ UNCHANGED mem

Next ==
  \/ \E b \in Blocks, x \in Interior(Size) :
       ApplyPreCollisionBC(b, x) \/ Calculate(b, x) \/ ApplyPostCollisionBC(b, x)
  \/ \E b \in Blocks, dir \in Directions : SendVectors(b, dir)
  \/ EndLoop
  \/ SwapDistributions

Spec == Init /\ [][Next]_vars

-----------------------------------------------------------------------------
(* Properties *)

\* Every loop works on its own items, in arrays that keep their size.
TypeOK ==
  /\ DOMAIN mem = Blocks
  /\ \A b \in Blocks : DOMAIN mem[b] = Fields
  /\ \A b \in Blocks, field \in Fields : DOMAIN mem[b][field] = Indices(field)
  /\ \A b \in Blocks, field \in Fields : \A i \in Indices(field) : DOMAIN mem[b][field][i] = Sizes[field]
  /\ loc \in [Blocks -> Arrays]
  /\ phase \in Phases
  /\ todo \subseteq Work(phase)
  /\ step \in 1 .. NumberOfTimeSteps

\* Once a connector has sent (FullDirectConnector::exchangeData) and until the
\* swap, the ghost nodes it fills hold the distributions of the fluid nodes
\* they stand for: neither another connector nor a boundary condition of
\* the one or the other block disturbs them.
GhostsFollowTheirNodes ==
  \A b \in Blocks, y \in BlockNodes(Size) :
    LET owner == Neighbor[b][Side(y)]
    IN /\ Side(y) # Rest
       /\ At(b, y) \in Fluid
       /\ \/ phase = "exchange" /\ <<owner, Opposite(Side(y))>> \notin todo
          \/ phase = "postCollisionBC"
       => PostCollision(b, y) = PostCollision(owner, Shifted(y, Side(y)))

\* The blocks, their ghost layers and the memory that is overwritten while it
\* is read implement the lattice Boltzmann step of LatticeBoltzmann.tla.
CollidedNodes == CASE phase = "preCollisionBC" -> {}
                   [] phase = "calculate"      -> Fluid \ todo
                   [] OTHER                    -> Fluid
OpenedNodes   == IF phase = "preCollisionBC" THEN OutletNodes \ todo ELSE OutletNodes
Distributions == [g \in Fluid |-> IF g \in CollidedNodes THEN PostCollision(g[1], g[2])
                                                        ELSE PreCollision(g[1], g[2])]
InitialAt(g, d) == Initial(g[1], g[2], d)
Supplies      == [link \in { l \in OutletLinks : l[1] \in OpenedNodes } |->
                    PostCollision(link[1][1], Minus(link[1][2], link[2]))[link[2]]]

Lattice == INSTANCE LatticeBoltzmann WITH
  Nodes <- Fluid, Initial <- InitialAt, f <- Distributions, collided <- CollidedNodes,
  opened <- OpenedNodes, outlet <- Supplies

\* The property: every behaviour of the blocks is one of the lattice.
ImplementsLattice == Lattice!Spec
=============================================================================
