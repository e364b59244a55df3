SPECIFICATION Spec
CONSTANTS
  IntBits   = 3
  Fragments <- Three
  Heap      = {0}
  Levels    = {3}
  Arguments = {0, 1}
CHECK_DEADLOCK FALSE
INVARIANTS SameMeaning StopsKept
