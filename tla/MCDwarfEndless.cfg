CONSTANTS
  Sections <- Turning
  Half32 = 256
  MaxUnits = 4
  MaxRows = 6
  Addresses <- Probes
SPECIFICATION Spec
PROPERTIES EndlessRefused
CHECK_DEADLOCK FALSE
