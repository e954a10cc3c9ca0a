SPECIFICATION Spec
CONSTANTS
  Asks = {a1}
  Sessions = {s1}
  NoSession = NoSession
  Tones = {unknown}
  Unknown = unknown
  Apis = {"v1"}
  Targets = {"none"}
  MaxEdits = 1
  FaultBudget <- NoFaults
INVARIANTS CacheFollowsEmbeddings
CHECK_DEADLOCK FALSE
