SPECIFICATION Spec
CONSTANTS
  Kinds = {"audio", "video"}
  ReportInterval = 4
  BeforeKeyFrame = 1
  MaxPackets = 3
  MaxIce = 3
  MaxLate = 2
  MaxTime = 10
INVARIANTS TypeOK ReportPending ReportsSpaced NoReportBeforeFrame
CHECK_DEADLOCK FALSE
