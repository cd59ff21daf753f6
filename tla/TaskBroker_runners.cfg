SPECIFICATION Spec
CONSTANTS
  r1 = r1
  r2 = r2
  q1 = q1
  q2 = q2
  None = None
  Runner <- MCRunner
  Request <- MCRequest
  MaxConcurrency = 1
  Ids = 1
  External = TRUE
INVARIANTS NoOrphanExecution PendingIsRequested OneAcceptance RunningIsWatched
CHECK_DEADLOCK FALSE
