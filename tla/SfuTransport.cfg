SPECIFICATION Spec
CONSTANTS
  Handlers = {h1, h2}
  Times = 3
  MaxNested = 2
INVARIANTS
  ReconnectingIsServed
  ConnectionIsShown
PROPERTIES
  ReconnectingEnds
CHECK_DEADLOCK FALSE
