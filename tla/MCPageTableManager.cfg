SPECIFICATION Spec
CONSTANTS
  Fanout = 4
  LastFrame = 9
  TableFrames = {1, 2, 3, 4, 5, 6, 7}
  Pages <- MCPages
  Targets <- MCTargets
  Garbage <- MCGarbage
  NoTable = NoTable
INVARIANTS
  TypeOK
  TablesFormATree
PROPERTY
  ImplementsAddressSpace
