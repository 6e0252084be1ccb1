\* A register of four atoms is written by blocks of one.
CONSTANTS
  AddressCount = 5
  MaxBlock = 1
  Tables <- WideTables
  NotNormal <- MCNotNormal
  Callback <- MCCallback
SPECIFICATION Spec
INVARIANT ConstraintsHold
