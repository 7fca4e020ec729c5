SPECIFICATION Spec
CONSTANTS
  Blocks <- MCBlocks
  None = None
  Neighbor <- MCNeighbor
  Size <- MCSize
  Solid <- MCSolid
  WallLinks <- MCWallLinks
  OutletLinks <- MCOutletLinks
  Normal <- MCNormal
  Initial <- MCInitial
  Collision <- MCCollision
  Returned <- MCReturned
  Outflow <- MCOutflow
  NumberOfTimeSteps = 3
INVARIANT TypeOK
INVARIANT GhostsFollowTheirNodes
PROPERTY ImplementsLattice
CHECK_DEADLOCK FALSE
