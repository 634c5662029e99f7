\* A socket that closes while the runtime loads, with a spawn in its queue.
SPECIFICATION ServerSafe
CONSTANTS
  c1 = c1  c2 = c2  c3 = c3  u1 = u1  u2 = u2
  SessionId = {s1}
  ClientId = {c1}
  NoClient = NoClient
  Unkillable = {}
  User = {u1, u2}
  NoUser = NoUser
  UserOf <- OneUser
  MaxClientsPerSession = 2
  MaxSessionsTotal = 1
  MaxSessionsPerClient = 1
  MaxPreAuthMessages = 1
  SpawnOptions <- PrivateOnly
  RequestKinds = {"spawn"}
  SlowClients = {}
  IdleTimeoutOn = FALSE
  LateFrames = FALSE
CHECK_DEADLOCK FALSE
INVARIANTS
  ConnectedOrTimed
