SPECIFICATION FairSpec
CONSTANTS
  Snapshot <- MCSnapshot
  MaxVersion <- MCLast
  MaxLosses = 2
  MayReject = TRUE
INVARIANTS
  GapHasTimer
  PromptRecoveryIsWatchedAgain
PROPERTIES
  ImplementsOrderedDelivery
  HeldBackIsEmitted
CHECK_DEADLOCK FALSE
