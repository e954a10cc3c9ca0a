SPECIFICATION FairSpec
CONSTANTS
  Calls = {j1, j2, j3}
  Others = {r1}
  Clients = {c1, c2}
  NoClient = NoClient
  Empty = Empty
  MaxInFlight = 4
  MaxFaults = 1
INVARIANTS TypeOK
PROPERTIES ReplacesAtomically EveryCallReturns
CHECK_DEADLOCK FALSE
