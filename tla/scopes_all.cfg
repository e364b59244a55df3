CONSTANTS
  Kinds = {"object", "block", "if", "else", "while", "do", "for", "switch", "try", "break", "continue", "return", "goto", "label"}
  Forms = {"nested", "bare", "trailing"}
  MaxStatements = 5
  MaxNesting = 5
  MaxObjects = 2
  MaxOds = 4
SPECIFICATION Spec
CHECK_DEADLOCK FALSE
INVARIANTS
  TypeOK
  LiveNotDestroyed
  LeavesNothingOpen
