SPECIFICATION FairSpec
CONSTANTS
  heads = 2
  blocks_per_track = 2
  cyls = 1
  p1 = p1
  p2 = p2
  none = none
  RamPages <- MCRamPages
  NoPage = none
  ListPage = p1
  Clps <- MCClps
  MaxChain = 2
  Delay = 2
  DriverWaits = TRUE
  MaxStarts = 2
INVARIANTS
  BlocksConsecutive
  TransferDelivers
PROPERTY InterruptComes
CHECK_DEADLOCK FALSE
