CONSTANTS
  e1 = e1
  e2 = e2
  r1 = r1
  r2 = r2
  r3 = r3
  NoRun = NoRun
  Execution <- MCExecution
  Run <- MCTwoRuns
  Limited <- MCExecution
  Responding <- MCNone
  Stoppable <- MCFirst
  Timed <- MCNone
  Waiting <- MCNone
  Webhooks <- MCNone
  Polls = 0
  CanShutDown = FALSE
  Limit = 1
SPECIFICATION Spec
INVARIANTS ExecutingWithinLimit
CHECK_DEADLOCK FALSE
