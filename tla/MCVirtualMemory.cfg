SPECIFICATION MemorySpec
CONSTANTS
  r0 = r0
  r1 = r1
  absent = absent
  device = device
  v1 = v1
  v2 = v2
  L1Index <- MCL1Index
  L2Offset <- MCL2Offset
  Blocks <- MCBlocks
  Ram <- MCRam
  Absent <- MCAbsent
  Devices <- MCDevices
  Unused <- MCUnused
  FrameBuffer <- MCFrameBuffer
  Entries <- MCEntries
  Values <- MCValues
  NoPage = NoPage
  Garbage = Garbage
  AllOnes = AllOnes
  Zero = Zero
  DeviceWord = DeviceWord
  PAGES_TO_SAVE = 2
  MaxRuns = 3
SYMMETRY Symmetry
INVARIANTS
  MappedPageExists
  CompleteSaveRestores
PROPERTY ReadsLastWritten
CHECK_DEADLOCK FALSE
