SPECIFICATION Spec
CONSTANTS
  Callers = {c1, c2}
  Slots = 2
  Threshold = 1
INVARIANT
  HalfOpenHasProbe
CHECK_DEADLOCK FALSE
