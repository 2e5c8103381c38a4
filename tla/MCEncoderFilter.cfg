CONSTANTS
  Kinds = {"opus", "x264"}
  MaxFrames = 3
  MaxStarts = 2
SPECIFICATION FairSpec
INVARIANTS TypeOK OneConsumer FramesInOrder
PROPERTIES NoOutputAfterStop QueueDrains
CHECK_DEADLOCK FALSE
