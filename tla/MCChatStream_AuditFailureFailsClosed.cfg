SPECIFICATION FairStreamSpec
CONSTANTS
  Calls = {t1}
  Streams = {t1}
  Steps = {step}
  StepOf <- MCStepOf
  Nobody = Nobody
  PoolSize = 1
  MaxProgress = 1
PROPERTIES
  AuditFailureFailsClosed
CHECK_DEADLOCK FALSE
