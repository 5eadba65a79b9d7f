SPECIFICATION MCSpec
CONSTANTS
  Lexemes <- AllLexemes
  Families <- AllFamilies
  MaxTokens = 30
  MaxFirst = 12
  Names <- TwoNames
  MaxScopeSize = 2
  BufferSize = 4
INVARIANTS
  TypeOK
  MessageComesLast
  VerdictFollowsText
  PrintsBeforeItChecks
  FailsOnlyOutside
  OutputIsAProgram
  OutputMeansTheSame
  OutputsAgree
