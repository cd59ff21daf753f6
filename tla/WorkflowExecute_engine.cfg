SPECIFICATION FairSpec
CONSTANTS
  Node = {1, 2, 3, 4, 5}
  Workflows <- All
  Null = Null
  Hole = Hole
  Empty = Empty
  Trigger = Trigger
  Call = Call
  MaxTries = 2
  MaxCalls = 6
  MaxRestarts = 2
INVARIANTS TypeOK MergesRunLast NothingStranded AnswersAreThere
PROPERTIES ImplementsDataflow ExecutionEnds
CHECK_DEADLOCK FALSE
