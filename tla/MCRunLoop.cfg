CONSTANTS
  r1 = r1
  r2 = r2
  c1 = c1
  c2 = c2
  nobody = nobody
  Requests = {r1, r2}
  Sockets = {c1, c2}
  Origin <- MCOrigin
  ClientIndex <- MCClientIndex
  Extras <- MCExtras
  MaxSent = 3
  MaxInternal = 1
  Fragile = {c1}
SPECIFICATION FairSpec
INVARIANTS
  NothingLost
  GracefulEnd
PROPERTY
  ExitsEventually
