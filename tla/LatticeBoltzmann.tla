-------------------------- MODULE LatticeBoltzmann --------------------------
(***************************************************************************)
(* What a time step of the solver promises, in the words of the lattice    *)
(* Boltzmann equation: every node collides with the distributions that     *)
(* came to it, and then every distribution moves on along its direction.   *)
(* Where a distribution would come from outside of the fluid, it is        *)
(* supplied by a boundary condition: a wall returns a value made from the  *)
(* node's distributions after the collision, an outlet one made before it  *)
(* from those of the node and of the next node inside.                     *)
(*                                                                         *)
(* There are no blocks here, no ghost layers and no memory.                *)
(***************************************************************************)
CONSTANTS
  Nodes, Directions,
  Initial(_, _),            \* the distribution a node starts with
  Origin(_, _),             \* the node from which direction d reaches a node
  WallLinks,                \* {<<node, direction>>}: supplied by a wall ...
  OutletLinks,              \* ... or by an outlet
  Inner(_),                 \* the node an outlet node looks at
  Collision(_, _, _), Returned(_, _, _), Outflow(_, _, _, _)

VARIABLES
  f,          \* the 27 distributions of every node
  collided,   \* nodes whose collision of this time step is done
  opened,     \* outlet nodes that have supplied their distributions
  outlet      \* the distributions they have supplied

vars == <<f, collided, opened, outlet>>

OutletNodes == { link[1] : link \in OutletLinks }
Supplied(S) == { link \in OutletLinks : link[1] \in S }

Init ==
  /\ f = [g \in Nodes |-> [d \in Directions |-> Initial(g, d)]]
  /\ collided = {} /\ opened = {}
  /\ outlet = [link \in Supplied({}) |-> link]

Open(g) ==
  /\ g \in OutletNodes \ (opened \cup collided)
  /\ Inner(g) \notin collided
  /\ opened' = opened \cup {g}
  /\ outlet' = [link \in Supplied(opened') |->
                   IF link[1] = g THEN Outflow(g, link[2], f[g], f[Inner(g)]) ELSE outlet[link]]
  /\ UNCHANGED <<f, collided>>

Collide(g) ==
  /\ g \in Nodes \ collided
  /\ f' = [f EXCEPT ![g] = [d \in Directions |-> Collision(g, f[g], d)]]
  /\ collided' = collided \cup {g}
  /\ UNCHANGED <<opened, outlet>>

Incoming(g, d) ==
  IF <<g, d>> \in WallLinks THEN Returned(g, d, f[g])
  ELSE IF <<g, d>> \in OutletLinks THEN outlet[<<g, d>>]
  ELSE f[Origin(g, d)][d]

Stream ==
  /\ collided = Nodes /\ opened = OutletNodes
  /\ f' = [g \in Nodes |-> [d \in Directions |-> Incoming(g, d)]]
  /\ collided' = {} /\ opened' = {}
  /\ outlet' = [link \in Supplied({}) |-> link]

Next == Stream \/ \E g \in Nodes : Open(g) \/ Collide(g)

Spec == Init /\ [][Next]_vars
=============================================================================
