\* Two ranks, six epochs of three steps, saves at every second step, two of them
\* at the end of an epoch; three starts of the job and two folders to keep: nine
\* saves for a bound of six folders. Removal does not fail here.
CONSTANTS
  Ranks <- TwoRanks
  MaxKeep = 2
  SaveHfModel = TRUE
  RemoveMayFail = FALSE
  SaveFreq = 2
  TotalSteps = 18
  TotalEpochs = 6
  EpochLen = 3
  MaxRuns = 3
  Absent = Absent
  Torn = Torn
SPECIFICATION FairSpec
INVARIANTS
  ShortOnlyFromEpochEnd
  QuotaPerStart
PROPERTIES
  ImplementsResumePoint
  Ends
CHECK_DEADLOCK FALSE
