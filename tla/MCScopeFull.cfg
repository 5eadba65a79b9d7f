SPECIFICATION Spec
CONSTANTS
  Names <- LowerNames
  Programs <- SmallPrograms
  MaxScopeSize = 2
  MaxDecls = 3
  UsedNames = {"x"}
PROPERTIES
  NeverAddsToFullScope
