\* A write to a session that has ended, then a request.
\* The system may stop: the application is not obliged to call anything.
SPECIFICATION ClientSafe
CONSTANTS
  SessionId = {s1}
  NoSession = NoSession
  Shared = {}
  MaxReconnectAttempts = 1
  Reconnect = TRUE
  Calls <- Errors
  Sockets = 1
  Requests = 1
  MaxInFlight = 2
CHECK_DEADLOCK FALSE
INVARIANTS
  FailureIsOwn
