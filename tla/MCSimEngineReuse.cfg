CONSTANTS
  Ids = {i1, i2}
  Kinds <- MCReuseKinds
  IdPolicy = "any"
  Policy = "priority"
  MaxLoras = 1
  ChunkSize = 1
  Threshold = 0
  SeqCaps = {2}
  Budgets = {2}
  Failures = FALSE
  MaxPrompt = 2
  MaxDraw = 1
  MaxSends = 3
  MaxInputs = 2
  MaxAbort = 1
SPECIFICATION FairSpec
INVARIANT AnsweredOnce
INVARIANT AdmissionSound
PROPERTY EventuallyAnswered
CHECK_DEADLOCK FALSE
