SPECIFICATION Spec
CONSTANTS
  Callers = {c1, c2, c3}
  Slots = 2
  Threshold = 3
SYMMETRY CallerSymmetry
INVARIANTS
  TypeOK
  SingleFlight
  ClosedIsHealthy
  OpenAsksForOperator
PROPERTIES
  OneProbePerRestart
  SlotsAccountedFor
CHECK_DEADLOCK FALSE
