CONSTANTS
  a = a
  b = b
  x = x
  y = y
  Vocabulary = {a, b}
  Trace <- MCTrace
  Dataset <- MCDataset
  BlockSize = 2
  Ids = {x, y}
  IndexOf <- MCIndexOf
  Remote = {y}
  Prompts <- MCPrompts
  Limits = {2, 5}
  ChunkSize = 1
  Modes <- MCModes
  MaxAdmitted = 3
SPECIFICATION ServeSpec
INVARIANTS
  RecordsMatched
  
