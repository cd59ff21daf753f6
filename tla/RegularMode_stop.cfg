CONSTANTS
  e1 = e1
  e2 = e2
  r1 = r1
  r2 = r2
  r3 = r3
  NoRun = NoRun
  Execution <- MCExecution
  Run <- MCTwoRuns
  Limited <- MCExecution
  Responding <- MCFirst
  Stoppable <- MCExecution
  Timed <- MCSecond
  Waiting <- MCNone
  Webhooks <- MCNone
  Polls = 0
  CanShutDown = TRUE
  Limit = 1
SPECIFICATION FairSpec
INVARIANTS NoLeakedSlot OnlyStopFreesSlot StoppedInQueueNeverRuns QueuedSurvivesShutdown
PROPERTIES CancelledStaysCanceled ShutdownCompletes
CHECK_DEADLOCK FALSE
