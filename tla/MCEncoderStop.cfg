CONSTANTS
  Kinds = {"opus", "x264"}
  MaxFrames = 3
  MaxStarts = 2
SPECIFICATION FairSpec
PROPERTY StopReturns
CHECK_DEADLOCK FALSE
