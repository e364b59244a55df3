CONSTANTS
  Temp = temp
  Dtor = dtor
  Main = main
  F = f
  G = g
  Fun = {temp, dtor, main, f, g}
  Start = start
  NoFun = nofun
  Num = num
  Str = str
  FaultType = fault
  NoType = notype
  Type = {num, str, fault}
  Calls <- ThrowCalls
  Statements = {main}
  CallsBack <- None
  NArgs <- OneArg
  NatArgs <- Zero
  NLocal <- Locals
  Methods = {}
  Objects <- ThrowObjects
  Handles <- ThrowHandles
  Throws <- ThrowThrows
  Rethrows = {f}
  Checks = {g}
  Traps = {}
  Breaks = {}
  Undefined = {}
  MaxFrames = 12
  MaxStack = 60
  MaxTrace = 4
  MaxActs = 7
SPECIFICATION Spec
CHECK_DEADLOCK FALSE
INVARIANTS
  TypeOK
  OdsMatchesScopes
  FramesNest
  CleanPrompt
PROPERTIES
  CatchLandsHome
  InnermostFirst
