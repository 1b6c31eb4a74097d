SPECIFICATION FairSpec
CONSTANTS
  p1 = p1
  p2 = p2
  Publications <- MCPublications
  MaxCalls = 5
  MaxSendFailures = 1
INVARIANTS
  OneNegotiationAtATime
  OffersAreAccepted
  EndsAgreeWhenQuiet
PROPERTIES
  SubscriptionBringsStream
CHECK_DEADLOCK FALSE
