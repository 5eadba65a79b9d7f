SPECIFICATION FairSpec
CONSTANTS
  Lexemes <- FewLexemes
  MaxTokens = 7
  Names <- OneName
  MaxScopeSize = 2
  BufferSize = 4
PROPERTIES
  Terminates
