SPECIFICATION FairSpec
CONSTANTS
  Ranks = {0, 1, 2}
  MinLevel = 0
  MaxLevel = 1
  Adjacent <- RingAdjacent
  Refined <- RingRefined
  Mixed <- RingMixed
  StartTimeStep = 1
  NumberOfTimeSteps = 2
  GhostUpdateSteps = {1}
  MayThrow = {1}
  EagerChoices <- RingEager
  Shl <- MCShl
  None = None
INVARIANT LockStep
INVARIANT NothingInFlight
PROPERTY AllRanksFinish
CHECK_DEADLOCK FALSE
