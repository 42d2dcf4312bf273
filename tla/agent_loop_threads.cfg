\* One prompt more than the reward worker has threads.
CONSTANTS
  v1 = v1
  v2 = v2
  NumPrompts = 4
  NumWorkers = 1
  Servers <- TwoServers
  MaxTurns = 1
  CacheSize = 4
  Threads = 3
  MicroBatch = 2
  MaxBatch = 0
  RmMayFail = FALSE
  MaxRounds = 1
SPECIFICATION FairSpec
PROPERTY Answers
CHECK_DEADLOCK FALSE
