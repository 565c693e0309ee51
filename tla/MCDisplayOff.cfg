\* A frame of two blocks at addresses 8 and 16, and one block beside it.
CONSTANTS
  N = 2
  AddrSpan = 32
  Addr = {0, 8, 16}
  Data <- MCData
  Beat = {0, 1, 2}
  ZeroBeat = 0
  WriteCycleDelay = 2
  AFull = 3
  Lag = 1
  Writer = {1}
  FrameBlocks = 2
  PixelSpan = 3
  FrameStart = 8
  OffAnyTime = TRUE
SPECIFICATION DisplayLiveSpec
PROPERTIES
  ServedOnceOff
CHECK_DEADLOCK TRUE
