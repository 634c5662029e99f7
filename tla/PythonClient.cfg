\* connect() against the reconnect loop, recovery, and requests by order.
\* The system may stop: the application is not obliged to call anything.
SPECIFICATION PySpec
CONSTANTS
  SessionId = {s1}
  NoSession = NoSession
  MaxReconnectAttempts = 2
  Requests = 2
  MaxInFlight = 2
  MaxClosing = 1
CHECK_DEADLOCK FALSE
INVARIANTS
  AnnouncedIsUsable
  UnannouncedHasAKeeper
  DisconnectIsFinal
  ActiveSessionRejoined
  AnswersGoToTheirRequests
PROPERTIES
  NoConnectionReplaced
  ConnectReturns
