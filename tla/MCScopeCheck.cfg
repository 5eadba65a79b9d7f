SPECIFICATION FairSpec
CONSTANTS
  Names <- LowerNames
  Programs <- SmallPrograms
  MaxScopeSize = 2
  MaxDecls = 3
  UsedNames = {"x", "y"}
INVARIANTS
  TypeOK
  VerdictIsFirstError
  BailsOnlyWithoutSpace
  TableHoldsDeclarations
  TableIsAList
PROPERTIES
  RefinesScope
  Terminates
