CONSTANTS
  Requests = {r1, r2}
  NoRequest = none
  Blocks = {b1, b2, b3}
  Capacity = 2
  QueueSize = 2
  MaxCalls = 3
SPECIFICATION KvSpec
INVARIANT IndexWrongOnlyWhereLost
INVARIANT GapsCountWireLoss
PROPERTY PublisherExits
CHECK_DEADLOCK FALSE
