SPECIFICATION Spec
CONSTANTS
  Zone = 0
  Posts <- MCPosts
  ChunkCount <- MCChunkCount
  Created <- MCCreated
  VecScores <- MCVecScores
  TextScores = {0, 19, 20}
  PageLimit = 2
  Offset = 0
  Asked <- MCAsked
  Searched <- MCSearched
  MaxReplaced = 1
  Probes <- MCProbes
INVARIANTS TypeOK RangeIsCalendar PlanSettled ChunkOnce BestFirst
CHECK_DEADLOCK FALSE
