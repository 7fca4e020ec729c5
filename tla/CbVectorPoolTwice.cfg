SPECIFICATION SpecAnyKeys
CONSTANTS
  Vectors = {v1, v2}
  Keys <- MCOneKeySet
  KeyOf <- MCOneKey
  Values = {0, 1}
  Zero = 0
  MaxSize = 1
  MaxCapacity = 2
  Addresses = {a1, a2}
  StartCapacities = {0}
  NULL = NULL
INVARIANT KeyIsKnown
CHECK_DEADLOCK FALSE
