SPECIFICATION MCSpec
CONSTANTS
  Lexemes <- AllLexemes
  MaxTokens = 13
  Families <- OnlyDeclarations
INVARIANTS
  DeclarationsHaveTheirOwnLocation
