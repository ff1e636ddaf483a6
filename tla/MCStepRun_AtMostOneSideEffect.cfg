SPECIFICATION Spec
CONSTANTS
  Workers = {w1, w2}
  Keys = {k1}
  Contract <- MCContract
  SideEffecting <- MCSideEffecting
  MaxAttempts = 2
INVARIANT
  AtMostOneSideEffect
CHECK_DEADLOCK FALSE
