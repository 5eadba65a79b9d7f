SPECIFICATION FairSpec
CONSTANTS
  Files <- SmallFiles
  Families <- LayoutAndSymbols
  MaxIdentLength = 3
  MaxNumLength = 2
  ShrtMax = 30
  Leftovers <- NoLeftovers
INVARIANTS
  TypeOK
  ErrorsAreLocated
  OpenOnlyAtItsEnd
PROPERTIES
  RefinesScanner
  Terminates
