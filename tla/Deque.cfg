SPECIFICATION Spec
CONSTANTS
  n1 = n1
  n2 = n2
  n3 = n3
  v1 = v1
  v2 = v2
  Node = {n1, n2, n3}
  Value = {v1, v2}
  Null = Null
  CountBits = 3
SYMMETRY Symmetries
INVARIANTS
  TypeOK
  MemorySafe
  CountBacked
PROPERTIES
  ImplementsDeque
CHECK_DEADLOCK FALSE
