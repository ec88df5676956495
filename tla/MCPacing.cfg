SPECIFICATION Spec
CONSTANTS
  PromptEdges <- MCPromptEdges
  ConcurrencyLows <- MCConcurrencyLows
  BigChunkTokens = 3
  WindowWidth = 1
  WindowStride = 1
  WindowMin = 1
  CleanMin = 1
  ChunkMin = 1
  ObsMin = 2
  Ids = {1, 2}
  Kinds <- MCKinds
  Knob <- MCKnob
  Budget = 3
  Threshold = 0
  ChurnWindow = 3
  MaxLate = 1
  MaxNow = 2
INVARIANTS
  DrawsFaithful
  ServiceTimeKept
CHECK_DEADLOCK FALSE
