SPECIFICATION Spec
CONSTANTS
  Forwards = {f1, f2}
  Pubs = {p1, p2}
  Subscribers = {u1}
  None = None
INVARIANTS
  ProducerFollowsForwarding
  SubscribersAreAsked
PROPERTIES
  CallsSettle
CHECK_DEADLOCK FALSE
