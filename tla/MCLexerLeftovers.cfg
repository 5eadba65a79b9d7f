SPECIFICATION Spec
CONSTANTS
  Files <- SmallFiles
  Families <- OnlyWords
  MaxIdentLength = 3
  MaxNumLength = 2
  ShrtMax = 30
  Leftovers <- SomeLeftovers
INVARIANTS
  TokensAreTheText
