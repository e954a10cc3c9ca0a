SPECIFICATION Spec
CONSTANTS
  Turns = {t1, t2, t3}
  Slots = {s1, s2, s3, s4}
  Milli = 2
  MessageLimit = 3
  SessionLimit = 2
  MaxMessageTime = 5
  MaxSessionTime = 5
SYMMETRY Symmetry
INVARIANTS TypeOK HistoryPaired ForwardSkipsNothing ForwardRepeatsSameMilli
           PagesDescend AllShownUnlessSameMilli
CHECK_DEADLOCK FALSE
