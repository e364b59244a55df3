CONSTANTS
  Temp = temp
  Dtor = dtor
  Main = main
  F = f
  G = g
  Fun = {temp, dtor, main, f, g}
  Start = start
  NoFun = nofun
  Num = num
  Str = str
  FaultType = fault
  NoType = notype
  Type = {num, str, fault}
  Calls <- LimitCalls
  Statements = {main}
  CallsBack <- LimitBack
  NArgs <- OneArg
  NatArgs <- Zero
  NLocal <- Locals
  Methods = {}
  Objects <- LimitObjects
  Handles <- None
  Throws <- LimitThrows
  Rethrows = {}
  Checks = {}
  Traps = {}
  Breaks = {}
  Undefined = {g}
  MaxFrames = 5
  MaxStack = 17
  MaxTrace = 2
  MaxActs = 8
SPECIFICATION FairSpec
CHECK_DEADLOCK FALSE
INVARIANTS
  RaiseIsCaught
  UnwindTransparent
  CleanPrompt
PROPERTIES
  ConsoleReturns
