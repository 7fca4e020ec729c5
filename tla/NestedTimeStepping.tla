------------------------- MODULE NestedTimeStepping -------------------------
(***************************************************************************)
(* What every time loop of VirtualFluids promises on a refined grid.       *)
(*                                                                         *)
(* Level l + 1 has half the cell size and half the time step of level l.   *)
(* The levels are advanced separately, and two neighbouring levels are     *)
(* coupled by interpolation at their interface.  Coupling is meaningful    *)
(* only when both levels stand at the same physical time, and the coarse   *)
(* values a fine level received there carry it over two of its own steps   *)
(* and no further.  The order in which the levels take their steps is left *)
(* open: the CPU loop advances a coarse level before the second fine step, *)
(* the GPU loop after it.                                                  *)
(***************************************************************************)
EXTENDS Integers

CONSTANTS
  Loops,      \* the time loops: one per MPI rank
  Coarsest,   \* coarsest level of the grid
  Finest      \* finest level of the grid

VARIABLES
  steps,      \* steps[r][l]: time steps loop r has made on level l
  coupled     \* coupled[r][l]: time, in steps of level l, at which loop r
              \* exchanged interface values between l and l + 1 last

vars == <<steps, coupled>>

Level     == Coarsest .. Finest
Interface == Coarsest .. Finest - 1

TypeOK ==
  /\ steps \in [Loops -> [Level -> Nat]]
  /\ coupled \in [Loops -> [Interface -> Nat]]

Init ==
  /\ steps = [r \in Loops |-> [l \in Level |-> 0]]
  /\ coupled = [r \in Loops |-> [l \in Interface |-> 0]]

\* A level steps once after it was coupled to the finer one, and at most
\* twice after it was coupled to the coarser one.
Advance(r, l) ==
  /\ l \in Interface => steps[r][l] = coupled[r][l]
  /\ l - 1 \in Interface => steps[r][l] < 2 * (coupled[r][l - 1] + 1)
  /\ steps' = [steps EXCEPT ![r][l] = @ + 1]
  /\ UNCHANGED coupled

\* Interface values are exchanged when both levels have reached the next
\* common time.
Couple(r, l) ==
  /\ steps[r][l] = coupled[r][l] + 1
  /\ steps[r][l + 1] = 2 * (coupled[r][l] + 1)
  /\ coupled' = [coupled EXCEPT ![r][l] = @ + 1]
  /\ UNCHANGED steps

Next ==
  \/ \E r \in Loops, l \in Level : Advance(r, l)
  \/ \E r \in Loops, l \in Interface : Couple(r, l)

Spec == Init /\ [][Next]_vars

-----------------------------------------------------------------------------
\* No two neighbouring levels are ever more than one coarse step apart: each
\* is within one coarse step of the time of their last coupling.
WithinOneCoarseStep ==
  \A r \in Loops : \A l \in Interface :
    /\ steps[r][l] \in coupled[r][l] .. coupled[r][l] + 1
    /\ steps[r][l + 1] \in 2 * coupled[r][l] .. 2 * coupled[r][l] + 2

=============================================================================
