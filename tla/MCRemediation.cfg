SPECIFICATION Spec
CONSTANTS
  Turns = {t1, t2}
  Plan <- MCTwoMails
  MaxAttempts = 2
CONSTRAINT ThreeExecutions
SYMMETRY TurnSymmetry
INVARIANTS
  TypeOK
  ReceiptsAgree
  SuccessWasSent
  PassedIsCommitted
PROPERTIES
  ReceiptPromiseSpec
  NoMailAfterReceipt
CHECK_DEADLOCK FALSE
