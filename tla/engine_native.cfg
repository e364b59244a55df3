CONSTANTS
  Temp = temp
  Dtor = dtor
  Main = main
  F = f
  G = g
  Fun = {temp, dtor, main, f, g}
  Start = start
  NoFun = nofun
  Num = num
  Str = str
  FaultType = fault
  NoType = notype
  Type = {num, str, fault}
  Calls <- NativeCalls
  Statements = {main}
  CallsBack <- NativeBack
  NArgs <- NativeNArgs
  NatArgs <- NativeNatArgs
  NLocal <- Locals
  Methods = {}
  Objects <- NativeObjects
  Handles <- NativeHandles
  Throws <- None
  Rethrows = {}
  Checks = {g}
  Traps = {g}
  Breaks = {}
  Undefined = {}
  MaxFrames = 12
  MaxStack = 60
  MaxTrace = 4
  MaxActs = 6
SPECIFICATION Spec
CHECK_DEADLOCK FALSE
INVARIANTS
  FlagsKept
PROPERTIES
  NativeCallTransparent
