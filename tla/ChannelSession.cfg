SPECIFICATION Spec
CONSTANTS
  Calls = {c1, c2}
  Values = {v1}
  MaxOthers = 1
  Keepalives = {TRUE, FALSE}
  None = None
INVARIANTS
  PersonLivesWithMember
PROPERTIES
  ResolvedMeansDone
  CallSettles
CHECK_DEADLOCK FALSE
