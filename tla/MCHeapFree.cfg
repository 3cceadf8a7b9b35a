SPECIFICATION Spec
CONSTANTS
  HdrSize = 2
  PageSize = 256
  StartPages = 16
  Sizes <- KernelSizes
  MaxBlocks = 8
  NULL = NULL
INVARIANTS
  LiveBlocksDisjoint
CHECK_DEADLOCK FALSE
