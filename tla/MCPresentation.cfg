SPECIFICATION Spec
CONSTANTS
  Threads = {t1, t2}
  Streams = {s1, s2}
  MaxStreams = 2
  InitialSize = 3
  WindowSizes = {2, 3}
  SlideSize = 1
  FullPercent = 80
  GlobalPercent = 80
  BufferSizes = {2}
  ReadSize = 1
  ReservationIds = {i1, i2}
SYMMETRY MCSymmetry
INVARIANTS
  TypeOK
  UsedWithinWindow
  UsedIsAllocated
PROPERTIES
  RaiseIsNotLost
  NoNewOrphan
  WindowIsKept
CHECK_DEADLOCK FALSE
