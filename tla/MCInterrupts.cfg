SPECIFICATION FairSpec
CONSTANT Vectors <- MCVectors
INVARIANTS
  FlagMatchesRequests
  XbusAccounted
  OnlyTvWriteHidesDisk
PROPERTY MaskedTvIsRepaired
