SPECIFICATION Spec
CONSTANTS
  Fine = 2
  Setups <- Mixed
  MaxStep = 2
CHECK_DEADLOCK FALSE
INVARIANTS TypeOK OnlyBulkOvertaken HostBuffersIdle CommunicationHidden
PROPERTY NestedSteps
