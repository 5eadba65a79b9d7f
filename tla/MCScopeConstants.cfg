SPECIFICATION Spec
CONSTANTS
  Names <- LowerNames
  Programs <- SmallPrograms
  MaxScopeSize = 2
  MaxDecls = 1
  UsedNames = {"x"}
INVARIANTS
  ConstantsAreNotWritten
