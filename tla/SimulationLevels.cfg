SPECIFICATION FairSpec
CONSTANTS
  Ranks = {0, 1}
  MinLevel = 0
  MaxLevel = 2
  Adjacent <- LevelsAdjacent
  Refined <- LevelsRefined
  Mixed <- LevelsMixed
  StartTimeStep = 1
  NumberOfTimeSteps = 3
  GhostUpdateSteps = {2}
  MayThrow = {}
  EagerChoices <- LevelsEager
  Shl <- MCShl
  None = None
INVARIANT TypeOK
INVARIANT FreshAtCollision
INVARIANT InterfaceFresh
INVARIANT GhostsActualAtInterpolation
INVARIANT ObserversSeeOneTime
PROPERTY NestedSteps
CHECK_DEADLOCK FALSE
