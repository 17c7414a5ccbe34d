SPECIFICATION Spec
CONSTANT MaxNodes = 4
INVARIANT PositionRecovered
CHECK_DEADLOCK FALSE
