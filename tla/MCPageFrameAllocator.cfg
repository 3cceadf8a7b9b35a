SPECIFICATION Spec
CONSTANTS
  MemMaps <- MCMemMaps
  LowFrames = 1
  FrameSize = 1
  BitmapVar = 2
  PastBit = TRUE
  Ranges <- MCRanges
  NULL = NULL
  NoAnswer = NoAnswer
INVARIANTS
  TypeOK
  HintIsBelowFreeFrames
  OwnedFramesAreMarked
  FramesConserved
  CountersFollowBitmap
PROPERTY
  ImplementsFramePool
