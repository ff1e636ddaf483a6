SPECIFICATION Spec
CONSTANTS
  Turns = {t1, t2}
  Plan <- MCTwoMails
  MaxAttempts = 2
INVARIANT
  EveryAttemptHasReceipt
CHECK_DEADLOCK FALSE
