SPECIFICATION Spec
CONSTANTS
  LowFrames = 1
  FrameSize = 4
  BitmapVar = 22
  PastBit = TRUE
  Fanout = 8
  LastFrame = 63
  Machines <- Contiguous
  Excess = 2
  PoolFrames = {5, 50, 51, 52}
  HeapPage = 2048
  StartPages = 1
  MaxHeap = 3
  MaxDma = 2
  Garbage = 7
  NoTable = NoTable
INVARIANTS
  TypeOK
  AllMemoryMapped
  FramebufferMapped
  UsedFramesReachable
  FramesHaveOneUse
CHECK_DEADLOCK FALSE
