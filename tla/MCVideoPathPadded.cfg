SPECIFICATION Spec
CONSTANTS
  Capacity = 40
  MaxPayloadLen = 9
  SeqSpace = 8
  NtpModulus = 16
  NtpSecond = 4
  MsSecond = 4
  Frames <- MCFrames
  Offers <- MCOffers
  Options <- MCOptions
  Ssrc <- MCSsrc
  Padding <- MCPadding
  PaddedNacks = TRUE
  FirstSeq = 6
  CacheSize = 4
  MaxFrames = 2
  MaxAudio = 1
  MaxIce = 2
  MaxNacks = 1
INVARIANT PaddingRemoved
CHECK_DEADLOCK FALSE
