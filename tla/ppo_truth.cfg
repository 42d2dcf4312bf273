\* One response to a prompt, balanced over two ranks, and the list of truths.
CONSTANTS
  Settings <- Single
  Lengths <- SingleLengths
  PromptTokens = 1
  RewardRetries = 1
  MaxBranches = 3
  MinGap = 2
SPECIFICATION Spec
INVARIANT JudgedByOwnTruth
