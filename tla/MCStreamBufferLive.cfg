SPECIFICATION LiveSpec
CONSTANTS
  Writers = {w1}
  Cleaners = {c1}
  Packets <- MCPackets
  MaxLen = 1
  ReadSizes <- MCReadSizes
  TotalSize = 2
  Threshold = 2
PROPERTIES
  EventuallyRead
  BackpressureWithdrawn
CHECK_DEADLOCK FALSE
