SPECIFICATION Spec
CONSTANTS
  IntBits   = 3
  Fragments <- Comparisons
  Heap      = {0}
  Levels    = {2}
  Arguments = {0}
CHECK_DEADLOCK FALSE
INVARIANTS FoldingIsExact
