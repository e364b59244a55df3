SPECIFICATION FairSpec
CONSTANTS
  Kinds = {"plain", "exit", "killed", "reads", "daemon"}
  Capacity = 2
  Chunk = 4
  Fragments = {f, g}
  Sources = 1
  AppCommands = 1
  Privileged = FALSE
  MaxCalls = 4
  MaxEnv = 2
CHECK_DEADLOCK FALSE
PROPERTIES SessionKept SnapshotIsLive CallsReturn
