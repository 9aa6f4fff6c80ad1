SPECIFICATION Spec
CONSTANTS
  Calls = {c1, c2}
  Primary = primary
  None = none
  PathWindows = FALSE
  Ageing = {primary}
  MaxFaults = 1
  Address = a
  Addresses <- MCAddresses
  AddressOf <- MCAddressOf
INVARIANTS
  TypeOK
  OnePrimary
  SecondaryIsNotPrimary
  PendingIsNotFailed
PROPERTIES
  ImplementsPathSetup
SYMMETRY MCSymmetry
CHECK_DEADLOCK FALSE
