SPECIFICATION Spec
CONSTANTS
  Lengths = {0, 1}
  Offsets = {}
  MTU = 3
  MaxRetries = 1
  MaxWrites = 2
INVARIANTS
  TypeOK
  FramesDisjoint
  PackedInOrder
  PendingUntilSettled
  AckedIsDeliveredOrCut
CHECK_DEADLOCK FALSE
