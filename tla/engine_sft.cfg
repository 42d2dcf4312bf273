\* Two ranks, a save after each of three steps, two epochs of two batches, three
\* starts.
CONSTANTS
  Ranks <- TwoRanks
  MaxKeep = 2
  SaveHfModel = TRUE
  RemoveMayFail = TRUE
  SaveFreq = 1
  TotalSteps = 3
  TotalEpochs = 2
  EpochLen = 2
  MaxRuns = 3
  Absent = Absent
  Torn = Torn
SPECIFICATION EngineSpec
INVARIANT FirstRunKeepsShards
PROPERTY PublishedIsCurrent
CHECK_DEADLOCK FALSE
