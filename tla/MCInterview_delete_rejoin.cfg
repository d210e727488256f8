SPECIFICATION Spec
CONSTANTS
  d1 = d1
  d2 = d2
  NoDev = NoDev
  Dev = {d1}
  MaxNwk = 2
  QLen = 2
  PoolCap = 2
  MaxAttempts = 2
  LogSize = 2
  MaxStimuli = 4
CHECK_DEADLOCK FALSE
PROPERTY JoinAfterDeleteGoesAhead
