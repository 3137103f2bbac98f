CONSTANTS
  Sections <- HeaderOnly
  Half32 = 256
  MaxUnits = 4
  MaxRows = 6
  Addresses <- Probes
SPECIFICATION Spec
INVARIANTS LookupsDefined
CHECK_DEADLOCK FALSE
