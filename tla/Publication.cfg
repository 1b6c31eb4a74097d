SPECIFICATION FairSpec
CONSTANTS
  Enables = {e1, e2}
  Disables = {d1}
  Streams = {s1, s2}
  First = s1
  Stopping = {s1}
  Repeats = TRUE
  None = None
INVARIANTS
  StreamFollowsState
  LastCallHolds
PROPERTIES
  CallSettles
CHECK_DEADLOCK FALSE
