\* 8 kbps is one byte per millisecond
CONSTANTS
  WindowMs = 4
  CanBuildUp = FALSE
  IntLimit = 1000000
  Ssrcs = {s1}
  MaxLeadingSize = 1
  Types = {"video"}
  Sizes = {1, 3}
  MaxPacket = 3
  PacingKbps = 8
  MinPacketLimit = 2
  MaxElapsedTime = 4
  MaxProcessingInterval = 3
  QueueTimeLimit = 8
  HoldBackWindow = 1
  MaxPackets = 3
  MaxStarts = 1
  MaxTime = 13
  LastPost = 3
  MaxLate = 1
SPECIFICATION FairSpec
INVARIANTS TypeOK OneWakeUp NeverOverspends
PROPERTY EveryPacketSent
CHECK_DEADLOCK FALSE
