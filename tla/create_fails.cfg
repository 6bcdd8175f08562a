SPECIFICATION BenchSpec
CONSTANTS
  MaxThreads = 3
  Processors <- MCProcessors
  RepCounts <- MCReps
  PerRep = 9
  CreateMayFail = TRUE
CHECK_DEADLOCK FALSE
INVARIANT FrameOutlivesThreads
