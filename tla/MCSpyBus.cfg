SPECIFICATION FairSpec
CONSTANTS
  Digits = 2
  Parts = 2
  MaxLoops = 1
  MaxFaults = 3
  Instructions <- MCInstructions
  Imem <- MCImem
  Values <- MCValues
INVARIANTS
  ExecutedAsAsked
  VerdictsSound
PROPERTIES
  AnswersAreOwn
  CallEnds
