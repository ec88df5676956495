CONSTANTS
  r1 = r1
  r2 = r2
  Requests = {r1, r2}
  Fickle = {r1}
  Chunks = {0, 1}
  MaxAsked = 2
  MaxOutputs = 3
  MaxMessage = 2
  MaxSaid = 2
  MaxGarbled = 1
  StepStats = TRUE
  Inits <- MCInits
SPECIFICATION FairSpec
INVARIANTS
  Verbatim
  ObservedExactly
  EndsFinalized

  
