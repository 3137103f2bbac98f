CONSTANTS
  Sections <- TwoRows
  Half32 = 256
  MaxUnits = 4
  MaxRows = 6
  Addresses <- Probes
SPECIFICATION Spec
INVARIANTS FlagsDeclared
CHECK_DEADLOCK FALSE
