SPECIFICATION Spec
CONSTANTS
  Callers = {c1, c2}
  Slots = 2
  Threshold = 1
PROPERTY
  OpenDoesNotAutoClose
CHECK_DEADLOCK FALSE
