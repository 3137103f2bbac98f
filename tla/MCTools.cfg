CONSTANTS
  Invocations <- Calls
  Files <- Some
  HasCoffi = TRUE
  MaxStreams = 2
  MaxCalls = 3
  MaxFaults = 1
  Sections <- All
  Half32 = 256
  MaxUnits = 4
  MaxRows = 6
  Addresses <- Probes
SPECIFICATION ThreeSpec
INVARIANTS KindTruthful DeletesWhatItHolds LeaksExplained ShownOrTold SearchEnds LeftOpen
  TypeOK RowsDeclared LookupExact UnitsListed FindsBack ListingMisses
PROPERTIES RefusedWithCause ReadingShrinks
CHECK_DEADLOCK FALSE
