SPECIFICATION FairSpec
CONSTANTS
  Kinds = {"silent", "open", "prints", "echo", "exit", "killed", "reads", "daemon"}
  Capacity = 4
  Values = {"A=1", "A=2"}
  MaxCalls = 3
CHECK_DEADLOCK FALSE
INVARIANTS OutputShown DumpIsLive
PROPERTIES SessionKept CallsReturn
