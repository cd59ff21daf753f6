CONSTANTS
  e1 = e1
  e2 = e2
  r1 = r1
  r2 = r2
  r3 = r3
  NoRun = NoRun
  Execution <- MCExecution
  Run <- MCThreeRuns
  Limited <- MCExecution
  Responding <- MCFirst
  Stoppable <- MCNone
  Timed <- MCSecond
  Waiting <- MCFirst
  Webhooks <- MCNone
  Polls = 2
  CanShutDown = FALSE
  Limit = 1
SPECIFICATION Spec
PROPERTIES FinishedNotRestarted
CHECK_DEADLOCK FALSE
