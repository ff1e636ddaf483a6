SPECIFICATION Spec
CONSTANTS
  Turns = {t1, t2}
  MaxVersion = 2
  MaxPlans = 2
PROPERTY
  CommittedPlanStands
CHECK_DEADLOCK FALSE
