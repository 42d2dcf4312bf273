\* Two rows, four batches an epoch, saves and validations every other step,
\* three starts of the job.
CONSTANTS
  NumRows = 2
  Options <- AllOptions
  ValFirst = TRUE
  TestFreq = 2
  SaveFreq = 2
  TotalSteps = 7
  TotalEpochs = 2
  EpochLen = 4
  CriticWarmup = 2
  DataMayFail = TRUE
  MaxRuns = 3
SPECIFICATION FairSpec
INVARIANTS
  TypeOK
  AtMostOneStepOff
  MeasuresRecentModel
  SkipsOnePerResume
  StoppedIsSaved
  RewardsFollowRows
PROPERTY Stops
CHECK_DEADLOCK FALSE
