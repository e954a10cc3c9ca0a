SPECIFICATION FairSpec
CONSTANTS
  Asks = {a1, a2}
  Sessions = {s1}
  NoSession = NoSession
  Tones = {unknown, t1}
  Unknown = unknown
  Apis = {"v2"}
  Targets = {"none", "foreign"}
  MaxEdits = 0
  FaultBudget <- EveryFaultButCrash
INVARIANTS TypeOK OneOutcome SavedIsStored PostGuarded
PROPERTIES EveryAskEnds
CHECK_DEADLOCK FALSE
