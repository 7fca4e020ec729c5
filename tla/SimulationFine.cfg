SPECIFICATION FairSpec
CONSTANTS
  Ranks = {0}
  MinLevel = 1
  MaxLevel = 2
  Adjacent <- FineAdjacent
  Refined <- FineRefined
  Mixed = {}
  StartTimeStep = 1
  NumberOfTimeSteps = 2
  GhostUpdateSteps = {}
  MayThrow = {}
  EagerChoices <- FineEager
  Shl <- MCShl
  None = None
INVARIANT ObserversSeeOneTime
CHECK_DEADLOCK FALSE
