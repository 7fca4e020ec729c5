SPECIFICATION Spec
CONSTANTS
  Setups <- AcrossTheCorner
CHECK_DEADLOCK FALSE
INVARIANT InterpolatedCellsExchanged
