SPECIFICATION Spec
CONSTANTS
  Divisor = 2000
  Milliseconds = {10, 20}
  MaxTicks = 20
INVARIANT NeverWakesEarly
CHECK_DEADLOCK FALSE
