SPECIFICATION FairSpec
CONSTANTS
  h1 = h1
  h2 = h2
  None = None
  Instance <- MCInstance
  Ttl = 10
  Interval = 3
  Latency = 2
  StableIds = FALSE
  Starts = 2
INVARIANTS AtMostOneLeader LeaderHoldsKey
PROPERTIES LeadershipIsFilled
CHECK_DEADLOCK FALSE
