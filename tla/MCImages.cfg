CONSTANTS
  f1 = f1  f2 = f2  f3 = f3  i1 = i1  i2 = i2  nullptr = nullptr
  Files = {f1, f2, f3}
  Images = {i1, i2}
  NoFile = nullptr
  Kinds <- ElfAndCoff
  MaxFailures = 2
  Programs <- Plain
  Foreign <- OtherOrder
  Parameters <- AllAsks
  Null <- Default
  StackTop = 512
  Mod32 = 1024
  Mod64 = 4096
  MaxBuilds = 2
  MaxFaults = 1
  PeFiles <- Some
  MaxPeFaults = 2
  CoffFiles <- AllObjects
  MaxOpens = 2
SPECIFICATION FourSpec
INVARIANTS TypeOK ImageWhole UnitsApart WritesFit StackTables FindsStack
  ImageHolds SegmentsReadable FilesOwned
  AnswersStable WrongHasCause CoffWrongHasCause CoffTableRight
PROPERTIES BuildShrinks
CHECK_DEADLOCK FALSE
