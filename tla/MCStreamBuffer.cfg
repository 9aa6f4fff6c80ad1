SPECIFICATION Spec
CONSTANTS
  Writers = {w1, w2}
  Cleaners = {c1}
  Packets <- MCPackets
  MaxLen = 2
  ReadSizes <- MCReadSizes
  TotalSize = 2
  Threshold = 2
SYMMETRY SymmetricWriters
CONSTRAINT TwoUnderWay
INVARIANTS
  TypeOK
  UsedWithinTotal
  ConsumedIsRead
  NoLostWakeup
  GapsExact
PROPERTIES
  ImplementsInOrderStream
CHECK_DEADLOCK FALSE
