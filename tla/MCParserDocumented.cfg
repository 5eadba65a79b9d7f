SPECIFICATION MCSpec
CONSTANTS
  Lexemes <- AllLexemes
  MaxTokens = 13
  Families <- OnlyAnyTokens
PROPERTIES
  RefinesDocumentedGrammar
