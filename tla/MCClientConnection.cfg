\* Connecting, retrying and giving up: a socket that failed and its successor.
\* The system may stop: the application is not obliged to call anything.
SPECIFICATION ClientSpec
CONSTANTS
  SessionId = {g, s1}
  NoSession = NoSession
  Shared = {g}
  MaxReconnectAttempts = 2
  Reconnect = TRUE
  Calls <- Connections
  Sockets = 2
  Requests = 1
  MaxInFlight = 2
CHECK_DEADLOCK FALSE
INVARIANTS
  OneLiveSocket
  NoRetryAfterDisconnect
PROPERTIES
  RequestsSettle
  LostConnectionsReturn
