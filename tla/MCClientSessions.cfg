\* One session of the client's own and one of somebody else, two requests.
\* The system may stop: the application is not obliged to call anything.
SPECIFICATION ClientSafe
CONSTANTS
  SessionId = {g, s1}
  NoSession = NoSession
  Shared = {g}
  MaxReconnectAttempts = 1
  Reconnect = TRUE
  Calls <- Sessions
  Sockets = 1
  Requests = 2
  MaxInFlight = 2
CHECK_DEADLOCK FALSE
INVARIANTS
  TokensStayWithTheirSession
  ActiveSessionIsJoined
  SuccessIsGranted
PROPERTIES
  ListedOffersAreAvailable
