CONSTANTS
  Sections <- TwoSequences
  Half32 = 256
  MaxUnits = 4
  MaxRows = 6
  Addresses <- Probes
SPECIFICATION Spec
INVARIANTS RowsComplete
CHECK_DEADLOCK FALSE
