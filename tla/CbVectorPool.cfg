SPECIFICATION Spec
CONSTANTS
  Vectors = {v1, v2, v3}
  Keys = {v1, v2, v3}
  KeyOf <- MCKeyOf
  Values = {0, 1}
  Zero = 0
  MaxSize = 2
  MaxCapacity = 6
  Addresses = {a1, a2}
  StartCapacities = {0, 3}
  NULL = NULL
INVARIANT TypeOK
INVARIANT ConsistencyCheck
PROPERTY VectorsAreIndependent
