SPECIFICATION FairSpec
CONSTANT MaxPieces = 5
INVARIANTS TypeOK OneSource
PROPERTIES KeepsChannel EveryCallEnds
CHECK_DEADLOCK FALSE
