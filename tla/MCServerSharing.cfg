\* Two users, one of them on two connections, private and shared sessions.
\* The system may stop: no client is obliged to connect or to ask for anything.
SPECIFICATION ServerSafe
CONSTANTS
  c1 = c1  c2 = c2  c3 = c3  u1 = u1  u2 = u2
  SessionId = {s1, s2}
  ClientId = {c1, c2, c3}
  NoClient = NoClient
  Unkillable = {}
  User = {u1, u2}
  NoUser = NoUser
  UserOf <- TwoUsers
  MaxClientsPerSession = 2
  MaxSessionsTotal = 2
  MaxSessionsPerClient = 1
  MaxPreAuthMessages = 0
  SpawnOptions <- PrivateOrShared
  RequestKinds = {"spawn", "join", "leave", "close"}
  SlowClients = {c1}
  IdleTimeoutOn = FALSE
  LateFrames = FALSE
SYMMETRY Symmetric
CHECK_DEADLOCK FALSE
INVARIANTS
  PrivateSessionsStayPrivate
  OwnersAreOpeners
  ClientsWithinSessionLimit

