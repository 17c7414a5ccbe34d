SPECIFICATION Spec
CONSTANTS
  v1 = v1
  v2 = v2
  Key = {0, 1, 2, 4}
  Value = {v1, v2}
  MinCapacity = 2
  LoadFactor = 2
  Capacities = {0, 7}
  MaxSize = 5
SYMMETRY Values
INVARIANTS
  TypeOK
  WellFormed
  NeverEnds
PROPERTIES
  ImplementsMap
CHECK_DEADLOCK FALSE
