CONSTANTS
  Files <- Dynamic
  MaxFaults = 0
SPECIFICATION Spec
INVARIANTS DynsFinds
CHECK_DEADLOCK FALSE
