CONSTANTS
  Upstream <- MCUpstream
  Annotated <- MCAnnotated
  FirstWindow <- MCWindow
  FirstRc <- MCRc
  Forked <- MCForked
  MaxStable = 2
SPECIFICATION Spec
INVARIANT WindowSound
PROPERTY MergesSound
 
PROPERTY RollsReleased
CHECK_DEADLOCK FALSE
