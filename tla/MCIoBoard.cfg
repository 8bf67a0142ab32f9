SPECIFICATION BoardSpec
CONSTANTS
  KEY_QUEUE_LEN = 2
  MaxKeys = 4
  Columns = 2
  Lines = 1
  Width = 3
  Modulus = 8
  MaxUntracked = 3
  Half = 3
  Second = 2
  MaxSeconds = 3
  Readers = {1, 2}
INVARIANTS
  NoOvertaking
  AnnouncementsHold
  ClockReadsTime
  TypesWhatIsPrinted
  StaleCovered
PROPERTIES
  ImplementsKeyQueue
  WaitingKeyAdvances
  WindowCatchesUp
  CursorFollows
