\* Connections up to and past their gate, and what becomes of a session: two
\* connections of one user, two queued frames, frames that arrive while the
\* server closes the socket, a slow client, tmux, the idle sweep and shutdown.
\* Liveness, so without symmetry.
\* The system may stop: no client is obliged to connect or to ask for anything.
SPECIFICATION ServerSpec
CONSTANTS
  c1 = c1  c2 = c2  c3 = c3  u1 = u1  u2 = u2
  SessionId = {s1}
  ClientId = {c1, c2}
  NoClient = NoClient
  Unkillable = {s1}
  User = {u1, u2}
  NoUser = NoUser
  UserOf <- OneUser
  MaxClientsPerSession = 2
  MaxSessionsTotal = 1
  MaxSessionsPerClient = 1
  MaxPreAuthMessages = 2
  SpawnOptions <- PrivateOrTmux
  RequestKinds = {"spawn", "join", "leave", "close", "data"}
  SlowClients = {c1}
  IdleTimeoutOn = TRUE
  LateFrames = TRUE
CHECK_DEADLOCK FALSE
INVARIANTS
  OnlyAdmittedMembers
  GhostsClosedBeforeReady
  WaitersHaveALoader
PROPERTIES
  TimerTakesOnlyOrphans
  EndsOnce
  ClosingMembersLeave
  OrphansGetReaped
  ClosedServerEmpties
