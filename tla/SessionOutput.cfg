\* A buffer of 3 characters; pieces of up to 4, so that one may be larger than
\* the buffer; output of 6, so that it is trimmed in the middle of a piece and
\* over several; two connections, one of them slow, the other one whose sends
\* may throw.
\* The process may write no more and nobody has to join: it may stop.
SPECIFICATION OutputSpec
CONSTANTS
  MaxSize = 3  MaxChunk = 4  MaxWritten = 6
  ClientId = {c1, c2}
  SlowClients = {c1}
  Failing = {c2}
CHECK_DEADLOCK FALSE
INVARIANTS
  BufferHoldsTail
  SeamlessOutput
PROPERTIES
  KeepsRecentOutput
