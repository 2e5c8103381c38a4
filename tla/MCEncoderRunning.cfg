CONSTANTS
  Kinds = {"opus", "x264"}
  MaxFrames = 3
  MaxStarts = 2
SPECIFICATION Spec
INVARIANT RunningHasThread
CHECK_DEADLOCK FALSE
