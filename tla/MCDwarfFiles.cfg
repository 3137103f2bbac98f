CONSTANTS
  Sections <- Version5
  Half32 = 256
  MaxUnits = 4
  MaxRows = 6
  Addresses <- Probes
SPECIFICATION Spec
INVARIANTS FileOfRow
CHECK_DEADLOCK FALSE
