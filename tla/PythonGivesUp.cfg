\* A connection that is lost again as soon as the reconnect loop has made it.
\* The system may stop: the application is not obliged to call anything.
SPECIFICATION PySafe
CONSTANTS
  SessionId = {s1}
  NoSession = NoSession
  MaxReconnectAttempts = 2
  Requests = 1
  MaxInFlight = 1
  MaxClosing = 1
CHECK_DEADLOCK FALSE
INVARIANTS
  LostConnectionIsRetried
