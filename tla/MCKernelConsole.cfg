SPECIFICATION Spec
CONSTANTS
  Width = 4
  Height = 7
  CharWidth = 1
  CharHeight = 2
  PointerWidth = 2
  PointerHeight = 3
  Opaque <- MCOpaque
  Early <- MCEarly
  LastMessage <- MCLastMessage
  Keys <- MCKeys
  Shifts = {42, 54}
  Places <- MCPlaces
  BehindTable = {0}
  MaxEarly = 3
  MaxEvents = 3
INVARIANTS
  TypeOK
  CursorOnScreen
  ShiftAsWhenPressed
  GlyphsDoNotOverlap
  PointerLeavesNoTrace
PROPERTY
  PrintEnds
CHECK_DEADLOCK FALSE
