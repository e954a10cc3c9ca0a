SPECIFICATION FairSpec
CONSTANTS
  Workers = {w1, w2}
  Posts = {p1}
  NoPost = NoPost
  Null = Null
  MaxRetries = 2
  MaxEdits = 2
  MaxJobs = 2
  MaxAnswers = 0
  FaultBudget <- EveryFault
INVARIANTS TypeOK JobConservation RetriesCounted LossNeedsFault
PROPERTIES EverySettled ImplementsLifecycle
CHECK_DEADLOCK FALSE
