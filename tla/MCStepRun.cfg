SPECIFICATION FairSpec
CONSTANTS
  Workers = {w1, w2, w3}
  Keys = {k1}
  Contract <- MCContract
  SideEffecting <- MCSideEffecting
  MaxAttempts = 3
INVARIANTS
  TypeOK
  SettledWasExecuted
PROPERTIES
  NoEffectAfterCompletion
  PromiseSpec
  EveryCallReturns
CHECK_DEADLOCK FALSE
