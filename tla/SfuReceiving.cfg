SPECIFICATION ReceivingSpec
CONSTANTS
  Subs = {s1, s2}
  MaxRetries = 1
INVARIANTS
  TransportIsOnItsWay
  SubscriptionIsReceived
CHECK_DEADLOCK FALSE
