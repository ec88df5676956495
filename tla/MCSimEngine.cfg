CONSTANTS
  Ids = {i1, i2, i3}
  Kinds <- MCKinds
  IdPolicy = "fresh"
  Policy = "fcfs"
  MaxLoras = 0
  ChunkSize = 1
  Threshold = 0
  SeqCaps = {0, 2}
  Budgets = {1, 3}
  Failures = TRUE
  MaxPrompt = 2
  MaxDraw = 2
  MaxSends = 3
  MaxInputs = 1
  MaxAbort = 2
SPECIFICATION Spec
INVARIANT Conserved
INVARIANT BatchSound
PROPERTY WithinLimits
PROPERTY KeepsContract
SYMMETRY Symmetry
CHECK_DEADLOCK FALSE
