SPECIFICATION FairSpec
CONSTANTS
  PacketSizes <- MCPacketSizes
  XmitWords = 3
  RetryPolls = 2
  RetrySeconds = 1
INVARIANTS
  ReceiverConsistent
PROPERTY ReconnectAttempted
