SPECIFICATION RoomSpec
CONSTANTS
  Streams = {s1}
  MaxWire = 2
  None = None
INVARIANTS
  RoomShowsChannel
  LocalMemberIsShown
PROPERTIES
  CallsSettle
CHECK_DEADLOCK FALSE
