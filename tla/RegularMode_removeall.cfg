CONSTANTS
  e1 = e1
  e2 = e2
  r1 = r1
  r2 = r2
  r3 = r3
  NoRun = NoRun
  Execution <- MCExecution
  Run <- MCTwoRuns
  Limited <- MCExecution
  Responding <- MCSecond
  Stoppable <- MCNone
  Timed <- MCNone
  Waiting <- MCNone
  Webhooks <- MCNone
  Polls = 0
  CanShutDown = TRUE
  Limit = 1
SPECIFICATION FairSpec
PROPERTIES QueuedResponsesCanceled
CHECK_DEADLOCK FALSE
