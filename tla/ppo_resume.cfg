\* Two ranks, actor and critic, the HF dump behind its second barrier, a save
\* after every step, early saves before an expiring instance, three starts.
CONSTANTS
  Ranks <- TwoRanks
  UseCritic = TRUE
  MaxActorKeep = 2
  MaxCriticKeep = 2
  SaveHfModel = TRUE
  RemoveMayFail = TRUE
  SaveFreq = 1
  TotalSteps = 3
  TotalEpochs = 2
  EpochLen = 2
  CriticWarmup = 2
  EsiMayExpire = TRUE
  Modes <- OnlyAuto
  RestartFinished = FALSE
  MaxRuns = 3
  MaxStep = 6
  Absent = Absent
  Torn = Torn
SPECIFICATION FairSpec
INVARIANTS
  TypeOK
  TrackedIsWhole
  FinishedIsSaved
PROPERTIES
  ImplementsResumePoint
  FinishesOrTrackerLost
CHECK_DEADLOCK FALSE
