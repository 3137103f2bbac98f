CONSTANTS
  Files <- All
  MaxFaults = 2
  Jobs <- AllJobs
  IntTop = 8
  Mod32 = 16
  Memory = 24
  Word = 2
  SizeOf <- Structures
  NoteSizes <- Few
SPECIFICATION BothSpec
INVARIANTS AnswersStable RetrySafe WrongOnlyAfterThrow SecBufsBounded AbortsExplained
  TroubleHasCause ReadWhereDeclared
PROPERTIES PromiseKept WalkEnds WalkShrinks
CHECK_DEADLOCK FALSE
