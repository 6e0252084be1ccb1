\* Tables with all kinds of registers and areas, and tables register_init() must
\* refuse.  Blocks of two atoms cover a register of two atoms, or connect the end
\* of one with the start of another.  The address space is one larger than the
\* areas.
CONSTANTS
  AddressCount = 6
  MaxBlock = 2
  Tables <- MCTables
  NotNormal <- MCNotNormal
  Callback <- MCCallback
SPECIFICATION Spec
INVARIANTS TypeOK ConstraintsHold InitIffWellFormed ForeachVisitsRange
PROPERTIES ReadOnlyKept ChangedIsTouched SanitiseKeepsGood
