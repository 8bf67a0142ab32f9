SPECIFICATION Spec
CONSTANTS
  PacketSizes <- MCPacketSizes
  XmitWords = 3
  RetryPolls = 2
  RetrySeconds = 1
INVARIANT ReportedIsUsable
