SPECIFICATION Spec
CONSTANTS
  Files <- SmallFiles
  Families <- OnlyBytes
  MaxIdentLength = 3
  MaxNumLength = 2
  ShrtMax = 30
  Leftovers <- NoLeftovers
INVARIANTS
  AssertionsHold
