SPECIFICATION Spec
CONSTANTS
  x1 = x1
  x2 = x2
  w1 = w1
  w2 = w2
  Nobody = Nobody
  Execution <- One
  Worker <- MCWorker
  Stoppable <- None
  MaxStalledCount = 1
  WorkerCrashes = 0
  MainCrashes = 1
  LockLosses = 2
PROPERTY SuccessNotOverwritten
CHECK_DEADLOCK FALSE
