\* The dataflow of a step: ranks, groups, micro-batches, segments, profiles.
CONSTANTS
  Settings <- MCSettings
  Lengths <- MCLengths
  PromptTokens = 1
  RewardRetries = 3
  MaxBranches = 3
  MinGap = 2
SPECIFICATION Spec
INVARIANTS
  AlignedColumns
  EvenWork
  SegmentsPartition
  StepsProfiled
