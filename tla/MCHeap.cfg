SPECIFICATION StackSpec
CONSTANTS
  HdrSize = 2
  PageSize = 256
  StartPages = 16
  Sizes <- KernelSizes
  MaxBlocks = 6
  NULL = NULL
INVARIANTS
  TypeOK
  LiveBlocksDisjoint
  LiveBlocksInsideHeap
  HeadersUntouched
  ListWellFormed
  MallocTerminates
CHECK_DEADLOCK FALSE
