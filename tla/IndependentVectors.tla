------------------------- MODULE IndependentVectors -------------------------
(***************************************************************************)
(* What class CbVector promises its users: every vector has contents of    *)
(* its own, and what is done to one vector leaves all others alone.        *)
(***************************************************************************)
EXTENDS Integers, Sequences

CONSTANTS
  Vectors,
  Sizes,      \* lengths a vector may have
  Values      \* of one element

VARIABLES
  live,       \* vectors that exist
  contents    \* contents[v]: sequence of elements of v

vars == <<live, contents>>

TypeOK ==
  /\ live \subseteq Vectors
  /\ contents \in [Vectors -> Seq(Values)]

Init ==
  /\ live = {}
  /\ contents = [v \in Vectors |-> <<>>]

Create(v) ==
  /\ v \notin live
  /\ live' = live \cup {v}
  /\ UNCHANGED contents

\* Elements are kept up to the new length; new elements get the given value.
Resized(s, n, value) == [i \in 1 .. n |-> IF i \in DOMAIN s THEN s[i] ELSE value]

Resize(v, n, value) ==
  /\ v \in live
  /\ contents' = [contents EXCEPT ![v] = Resized(@, n, value)]
  /\ UNCHANGED live

Write(v, i, value) ==
  /\ v \in live
  /\ contents' = [contents EXCEPT ![v][i] = value]
  /\ UNCHANGED live

Destroy(v) ==
  /\ v \in live
  /\ live' = live \ {v}
  /\ contents' = [contents EXCEPT ![v] = <<>>]

Next ==
  \E v \in Vectors :
    \/ Create(v) \/ Destroy(v)
    \/ \E n \in Sizes, value \in Values : Resize(v, n, value)
    \/ \E i \in DOMAIN contents[v], value \in Values : Write(v, i, value)

Spec == Init /\ [][Next]_vars

=============================================================================
