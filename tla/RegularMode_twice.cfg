CONSTANTS
  e1 = e1
  e2 = e2
  r1 = r1
  r2 = r2
  r3 = r3
  NoRun = NoRun
  Execution <- MCExecution
  Run <- MCThreeRuns
  Limited <- MCExecution
  Responding <- MCFirst
  Stoppable <- MCNone
  Timed <- MCNone
  Waiting <- MCFirst
  Webhooks <- MCFirst
  Polls = 0
  CanShutDown = FALSE
  Limit = 2
SPECIFICATION Spec
INVARIANTS ResumedOnce
CHECK_DEADLOCK FALSE
