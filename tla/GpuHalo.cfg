SPECIFICATION Spec
CONSTANTS
  Setups <- Grids
CHECK_DEADLOCK FALSE
INVARIANTS TypeOK GhostsFresh NeighboursAgree NoCircularWait
