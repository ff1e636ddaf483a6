SPECIFICATION Spec
CONSTANTS
  kRead = kRead
  kStable = kStable
  kUnstable = kUnstable
  Workers = {w1, w2}
  Keys = {kRead, kStable, kUnstable}
  Contract <- MCContract
  SideEffecting <- MCSideEffecting
  MaxAttempts = 2
SYMMETRY WorkerSymmetry
INVARIANTS
  TypeOK
  UnstableAtMostOnce
  UncertainNotExecutable
  NoFalseSuccess
PROPERTIES
  UnstablePromiseSpec
CHECK_DEADLOCK FALSE
