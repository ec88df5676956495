\* A server nobody calls or signals waits for ever.
CONSTANTS
  N = 2
  MaxCalls = 3
  Fields = {"seqs", "tokens", "ttft"}
  Values = {0, 1, 2, 3}
  LatencyFields = {"ttft"}
  Patches <- MCPatches
  Invalid = {3}
  Default <- MCDefault
  Trace = TRUE
  Menu <- MCMenu
  MaxReceived = 1
  MaxFaults = 1
SPECIFICATION FairSpec
INVARIANTS
  PatchesApplied
  ReadsFaithful
PROPERTY
  ProcessEnds
CHECK_DEADLOCK FALSE
