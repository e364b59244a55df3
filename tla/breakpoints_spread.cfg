CONSTANTS
  N = 8
  Flow <- Loops
  Faults = {4, 8}
  Lines = {10, 20, 30, 40}
  LineMaps <- Spread
  MAX_BREAKPOINTS = 3
  Nested = FALSE
  Moves = FALSE
SPECIFICATION Spec
CHECK_DEADLOCK FALSE
INVARIANTS
  TypeOK
  CodeIntact
  BreaksWhereSet
PROPERTIES
  HaltsOnce
