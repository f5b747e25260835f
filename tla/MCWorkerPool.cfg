SPECIFICATION FairSpec
CONSTANTS
  NumTasks = 4
  NumWorkers = 2
  Nil = Nil
INVARIANT PoolTypeOK
INVARIANT FailureIsReported
INVARIANT ClosedMeansDone
PROPERTY ExecutesTaskSet
PROPERTY PassReturns
