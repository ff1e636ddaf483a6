SPECIFICATION FairStreamSpec
CONSTANTS
  Calls = {t1, r1}
  Streams = {t1, t2}
  Steps = {step}
  StepOf <- MCStepOf
  Nobody = Nobody
  PoolSize = 1
  MaxProgress = 1
INVARIANTS
  StreamTypeOK
  SelfWaitLosesCaller
  AnsweredIsStored
  EndsWithOneTerminal
PROPERTIES
  ClientPromiseSpec
  EveryStreamEnds
CHECK_DEADLOCK FALSE
