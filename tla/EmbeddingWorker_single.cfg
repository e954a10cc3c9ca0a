SPECIFICATION Spec
CONSTANTS
  Workers = {w1}
  Posts = {p1, p2}
  NoPost = NoPost
  Null = Null
  MaxRetries = 2
  MaxEdits = 3
  MaxJobs = 3
  MaxAnswers = 1
  FaultBudget <- ServiceAndCacheFaults
INVARIANTS FreshWhenDrained CacheFollowsUnlessSkipped
PROPERTIES NoRegress
CHECK_DEADLOCK FALSE
