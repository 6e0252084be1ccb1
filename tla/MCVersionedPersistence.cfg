\* Two octets of payload: a write may be cut short before, between and after them.
CONSTANTS
  MaxLength = 2
  Cell = {0, 1}
  Blank = 0
  Specs <- MCSpecs
SPECIFICATION Spec
INVARIANTS TypeOK StateIsTrue FaultIsNoticed SaveIsUsable StoresSettle
