SPECIFICATION FairSpec
CONSTANTS
  Programs <- SmallPrograms
  Depth = 3
INVARIANTS
  TypeOK
  PrintsAProgram
  WordsStayApart
  BailsOnlyForOperators
PROPERTIES
  Terminates
