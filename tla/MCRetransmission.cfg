SPECIFICATION Spec
CONSTANTS
  Segments = {s1, s2}
  Acks = {a}
  Handlers = {h1, h2}
  MaxAttempts = 3
  None = none
  Id = i
  Path = p
  Ids <- MCIds
  Paths <- MCPaths
  IdOf <- MCIdOf
  PathOf <- MCPathOf
INVARIANTS
  TypeOK
  NoRetryAfterAck
  RetriesBounded
PROPERTIES
  SegmentsSettle
CHECK_DEADLOCK FALSE
