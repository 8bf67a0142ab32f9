SPECIFICATION MCSpec
CONSTANTS
  Targets <- MCTargets
  Depth = 2
  MaxPc = 5
  Writable = {3}
  MaxWrites = 1
  Limit = 12
  LcValues <- MCLcValues
  ReadWords <- MCReadWords
  Controls <- MCControls
  W = 4
  AddressBits = 3
  PdlSize = 3
  PdlWords <- MCPdlWords
  Addends <- MCAddends
INVARIANTS
  ExecutesStoredWord
  FetchOnTime
  HeldReachesMd
  NumbersDeliver
  BooleansDeliver
  BytesArrive
  IndexedStoresLand
  PdlHoldsEntries
PROPERTIES
  ImplementsMicroSeq
  SelectsHalfword
CHECK_DEADLOCK FALSE
