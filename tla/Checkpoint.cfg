SPECIFICATION Spec
CONSTANTS
  Size = 3
  Cells <- Units
  Begin <- Sums
  Schedules <- TwoSchedules
  Infinity = 1000
  MaxStep = 4
  MaxCrashes = 3
CHECK_DEADLOCK FALSE
INVARIANTS TypeOK StateOfTimeStep CpStepComplete CheckpointSurvives
PROPERTIES WrittenOnSchedule SimulationEnds
