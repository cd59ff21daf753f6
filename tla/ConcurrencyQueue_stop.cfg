CONSTANTS
  c1 = c1
  c2 = c2
  c3 = c3
  c4 = c4
  c5 = c5
  e1 = e1
  e2 = e2
  Caller <- MCCaller
  ExecutionId <- MCExecutionId
  Limit = 2
  Stoppable <- MCExecutionId
SPECIFICATION FairSpec
INVARIANTS SlotsAccounted WorkConserving LimitRespected
PROPERTIES NoOvertaking ThrottledIsServed ImplementsSemaphore
CHECK_DEADLOCK FALSE
