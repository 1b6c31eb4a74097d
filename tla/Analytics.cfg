SPECIFICATION AnalyticsSpec
CONSTANTS
  Events = {e1}
  Other = Other
  WebSockets = {w1, w2}
  MaxReconnects = 1
  MaxResend = 1
  MaxAttempts = 2
  None = None
INVARIANTS
  SocketIsServed
  UnsentIsQueued
CHECK_DEADLOCK FALSE
