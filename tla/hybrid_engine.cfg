\* A group of two ranks, three training steps, every configuration that switches modes.
CONSTANTS
  Ranks <- TwoRanks
  Settings <- Switching
  MaxSteps = 3
SPECIFICATION Spec
INVARIANTS
  OnPolicyBatch
  RoomForCache
  StreamsContinue
