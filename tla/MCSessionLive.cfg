SPECIFICATION LiveSpec
CONSTANTS
  Calls = {c1, c2}
  Primary = primary
  None = none
  PathWindows = FALSE
  Ageing = {}
  MaxFaults = 0
  Address = a
  Addresses <- MCAddresses
  AddressOf <- MCAddressOf
PROPERTIES
  EveryCallReturns
  LossIsNoticed
CHECK_DEADLOCK FALSE
