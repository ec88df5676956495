SPECIFICATION Spec
CONSTANTS
  Captured <- MCCaptured
  Converted <- MCConverted
  Reports <- MCReports
  MaxRecords = 3
  Modes <- MCModes
  Slower = {0, 1}
  TimeoutBase = 2
  TimeoutFactor = 1
  Tolerance = 20
  HashBlock = 2
  Uris = {"a", "b"}
  Basename <- MCBasename
  Stored <- MCStored
  Inputs <- MCInputs
  Expect <- MCExpect
  Target <- MCTarget
  HashOf <- MCHashOf
  EngineCount = 2
INVARIANTS
  ReadBack
  Timeline
  ReplayFaithful
  ReplayOutcome
  InputsIntact
PROPERTY ReplayEnds
CHECK_DEADLOCK FALSE
