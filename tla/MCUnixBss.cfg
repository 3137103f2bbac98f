CONSTANTS
  Programs <- WithBss
  Foreign <- NoProgram
  Parameters <- TwoArguments
  Null <- Default
  StackTop = 512
  Mod32 = 1024
  Mod64 = 4096
  MaxBuilds = 1
  MaxFaults = 0
SPECIFICATION Spec
INVARIANTS ReadyToLoad
CHECK_DEADLOCK FALSE
