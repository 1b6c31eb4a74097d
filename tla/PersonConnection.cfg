SPECIFICATION PersonsSpec
CONSTANTS
  Persons = {p1, p2}
  MaxEvents = 5
SYMMETRY Symmetry
INVARIANTS
  StreamIsOnItsWay
  NobodyWaitsForEachOther
  QuietPersonsAgree
CHECK_DEADLOCK FALSE
