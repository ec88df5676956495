CONSTANTS
  Requests <- MCRequests
  Prompt <- MCPrompt
  Pattern <- MCPattern
  Slots = {0, 1}
  Nothing = Nothing
  MaxFaults = 1
SPECIFICATION Spec
INVARIANT PullOutcome
 
CHECK_DEADLOCK FALSE
