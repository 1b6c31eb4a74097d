SPECIFICATION FairSpec
CONSTANTS
  Requests = {r1}
  MaxRetry = 2
  MaxSockets = 4
INVARIANTS
  ReconnectingIsServed
  RequestIsOnItsWay
  ExecutedAtMostTwice
  EventsFlowWhenQuiet
  ClosedLeavesNobodyWaiting
PROPERTIES
  LostConnectionIsReplaced
CHECK_DEADLOCK FALSE
