SPECIFICATION Spec
CONSTANTS
  Asks = {a1, a2, a3}
  Sessions = {s1}
  NoSession = NoSession
  Tones = {unknown, t1}
  Unknown = unknown
  Apis = {"v1"}
  Targets = {"none"}
  MaxEdits = 1
  FaultBudget <- CrashOnly
SYMMETRY Symmetry
INVARIANTS ToneFaithful StaleNeedsOverlap
CHECK_DEADLOCK FALSE
