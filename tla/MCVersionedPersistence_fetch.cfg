\* Fetches after a store that failed.
CONSTANTS
  MaxLength = 2
  Cell = {0, 1}
  Blank = 0
  Specs <- MCSpecs
SPECIFICATION Spec
INVARIANT FetchesAreVerified
