SPECIFICATION Spec
CONSTANTS
  SeqModulus = 8
  WrapPeriod = 8
  HistoryWindow = 0
  FirstSeq = 7
  BaseScale = 2
  StartTime = 10
  RemoteStart = 7
  IceStates = {"connected", "disconnected"}
  MaxPackets = 2
  MaxIce = 2
  MaxFeedback = 2
  MaxReports = 1
  MaxTime = 1
INVARIANTS TypeOK ReportedOnce SendTimesTrue ReceiveTimesTrue RttFindsController HistoryInWindow
CHECK_DEADLOCK FALSE
