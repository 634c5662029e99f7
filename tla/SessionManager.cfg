\* Three sessions of which two may exist and one has a process that cannot be
\* killed, three clients of which two fit in a session.  No symmetry: the refinement is a temporal property.
SPECIFICATION MgrSpec
CONSTANTS
  SessionId = {s1, s2, s3}
  ClientId = {c1, c2, c3}
  NoClient = NoClient
  MaxClientsPerSession = 2
  MaxSessionsTotal = 2
  Unkillable = {s3}
INVARIANTS
  IndexInStep
  ReapersExact
  LimitsKept
  ProcessesAccounted
PROPERTIES
  ImplementsLifecycle
