CONSTANTS
  Requests = {r1, r2, r3, r4}
  NoRequest = NoRequest
  Prompts <- MCPrompts
  Capacity = 3
SPECIFICATION Spec
INVARIANT IInv
 
INVARIANT PromptWalk
PROPERTY Refinement
SYMMETRY Symmetry
CHECK_DEADLOCK FALSE
