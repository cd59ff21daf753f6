SPECIFICATION FairSpec
CONSTANTS
  x1 = x1
  x2 = x2
  w1 = w1
  w2 = w2
  Nobody = Nobody
  Execution <- One
  Worker <- MCWorker
  Stoppable <- One
  MaxStalledCount = 1
  WorkerCrashes = 2
  MainCrashes = 1
  LockLosses = 0
INVARIANT ResultIsFinal
PROPERTIES EveryRowSettles EveryEntryCloses
CHECK_DEADLOCK FALSE
