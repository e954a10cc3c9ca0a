SPECIFICATION Spec
CONSTANTS
  Size = 6
  Overlap = 3
  Longest = 8
  MaxTokens = 20
INVARIANTS TypeOK NothingSkipped EndsIncrease LongestBounds OverlapUnlessShort
CHECK_DEADLOCK FALSE
