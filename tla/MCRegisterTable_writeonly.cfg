\* A block that starts inside of an area that is not readable.
CONSTANTS
  AddressCount = 4
  MaxBlock = 2
  Tables <- WriteOnlyTables
  NotNormal <- MCNotNormal
  Callback <- MCCallback
SPECIFICATION Spec
INVARIANT UnreadableReadsZero
