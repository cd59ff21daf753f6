SPECIFICATION PartialSpec
CONSTANTS
  Node = {1, 2, 3, 4, 5}
  Workflows <- OneDisabled
  Null = Null
  Hole = Hole
  Empty = Empty
  Trigger = Trigger
  Call = Call
  MaxTries = 2
  MaxCalls = 6
  MaxRestarts = 2
INVARIANT DestinationRunsAlike
CHECK_DEADLOCK FALSE
