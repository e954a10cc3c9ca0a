SPECIFICATION Spec
CONSTANTS
  Workers = {w1, w2}
  Posts = {p1}
  NoPost = NoPost
  Null = Null
  MaxRetries = 3
  MaxEdits = 2
  MaxJobs = 2
  MaxAnswers = 0
  FaultBudget <- NoFaults
PROPERTIES NoRegress
CHECK_DEADLOCK FALSE
