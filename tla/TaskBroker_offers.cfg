SPECIFICATION FairSpec
CONSTANTS
  r1 = r1
  r2 = r2
  q1 = q1
  q2 = q2
  None = None
  Runner <- OneRunner
  Request <- MCRequest
  MaxConcurrency = 1
  Ids = 2
  External = FALSE
INVARIANTS OffersFitCapacity SettingsFindTaskWaiting
PROPERTIES EveryRequestSettles BrokerTaskEnds
CHECK_DEADLOCK FALSE
