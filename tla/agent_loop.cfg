\* Four prompts on two workers, two servers, a thread for every prompt, two
\* rounds; the cache holds one round's conversations.
CONSTANTS
  v1 = v1
  v2 = v2
  NumPrompts = 4
  NumWorkers = 2
  Servers <- TwoServers
  MaxTurns = 2
  CacheSize = 2
  Threads = 2
  MicroBatch = 2
  MaxBatch = 0
  RmMayFail = TRUE
  MaxRounds = 2
SPECIFICATION FairSpec
INVARIANTS
  Balanced
  GeneratesAwake
PROPERTIES
  Sticky
  Answers
CHECK_DEADLOCK FALSE
