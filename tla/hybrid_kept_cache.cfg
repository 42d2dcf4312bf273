\* Servers whose cache is kept after generation: their weights are kept as well.
CONSTANTS
  Ranks <- TwoRanks
  Settings <- KeptCache
  MaxSteps = 2
SPECIFICATION Spec
INVARIANT OnPolicyBatch
