SPECIFICATION Spec
CONSTANTS
  SeqModulus = 65536
  SeqSpace = 65536
  WrapPeriod = 16
  HistoryWindow = 100
  NtpModulus = 16
  NtpSecond = 4
  MsSecond = 6
  GroupLength = 0
  BurstDelta = 1
  MaxBurst = 2
  OffsetThreshold = 2
  StreamTimeout = 1
  WindowSize = 2
  OveruseTime = 1
  FirstSeq = 65535
  BaseScale = 2
  StartTime = 14
  RemoteStart = 31
  DefaultRtt = 200
  Delays = {0, 2}
  MaxPackets = 4
  MaxLost = 1
  MaxMessages = 2
  MaxTime = 3
INVARIANTS FeedbackDecoded AccumulatedDelayTrue RttTrue
CHECK_DEADLOCK FALSE
