SPECIFICATION ToolsSpec
CONSTANTS
  Templates <- MCTemplates
  FileLength <- MCFileLength
  McrNames <- MCMcrNames
  Exports <- MCExports
  NoFile = NoFile
  LastBlock = 5
  Payload = 5
  Blocks = 2
  EntrySize = 2
  MaxRecords = 3
  MaxFailures = 2
  BlockWords = 2
  BandBlocks = 3
  SwapStart = 2
  MaxReads = 3
  MaxBadReads = 1
INVARIANTS
  PackHoldsFiles
  ExtractReturnsFile
  FileExtracted
  EntriesInOrder
  WordsAsAsked
CHECK_DEADLOCK FALSE
