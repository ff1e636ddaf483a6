SPECIFICATION Spec
CONSTANTS
  Turns = {t1, t2}
  MaxVersion = 3
  MaxPlans = 2
INVARIANTS
  TypeOK
  ResumedHasSuccessor
  LiveHasItsHistory
  CancelledHasNoPlan
  ApprovedPlanIsItsEnvelopes
PROPERTIES
  AdvancesOnce
CHECK_DEADLOCK FALSE
