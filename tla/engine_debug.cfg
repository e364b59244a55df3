CONSTANTS
  Temp = temp
  Dtor = dtor
  Main = main
  F = f
  G = g
  Fun = {temp, dtor, main, f, g}
  Start = start
  NoFun = nofun
  Num = num
  Str = str
  FaultType = fault
  NoType = notype
  Type = {num, str, fault}
  Calls <- DebugCalls
  Statements = {g}
  CallsBack <- None
  NArgs <- OneArg
  NatArgs <- Zero
  NLocal <- Locals
  Methods = {g}
  Objects <- DebugObjects
  Handles <- None
  Throws <- None
  Rethrows = {}
  Checks = {}
  Traps = {}
  Breaks = {f}
  Undefined = {}
  MaxFrames = 12
  MaxStack = 60
  MaxTrace = 4
  MaxActs = 6
SPECIFICATION Spec
CHECK_DEADLOCK FALSE
INVARIANTS
  ResumeExact
  StackRestored
  OdsMatchesScopes
  FlagsKept
