SPECIFICATION Spec
CONSTANTS
  x1 = x1
  x2 = x2
  Item = {x1, x2}
  Garbage = Garbage
  InitialCapacity = 1
  MaxSize = 4
SYMMETRY Stored
INVARIANTS
  TypeOK
PROPERTIES
  ImplementsList
  OverrunOnlyWhenFull
CHECK_DEADLOCK FALSE
