SPECIFICATION LiveSpec
CONSTANTS
  Lengths = {0, 1}
  Offsets = {0}
  MTU = 3
  MaxRetries = 2
  MaxWrites = 1
PROPERTIES
  BufferedIsFlushed
  PendingSettles
CHECK_DEADLOCK FALSE
