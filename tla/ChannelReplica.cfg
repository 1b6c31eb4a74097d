SPECIFICATION FairSpec
CONSTANTS
  Joins = {j1, j2}
  Publishes = {p1}
  Subscribes = {s1}
  Offered = {o1}
  MaxWire = 3
  None = None
INVARIANTS
  ReplicasAgree
  TimeoutMeansGone
  RemovedPersonLeaves
PROPERTIES
  QueuedRequestSettles
CHECK_DEADLOCK FALSE
