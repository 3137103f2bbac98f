CONSTANTS
  Files <- Sound
  MaxFaults = 1
SPECIFICATION Spec
INVARIANTS HeadersOrThrow
CHECK_DEADLOCK FALSE
