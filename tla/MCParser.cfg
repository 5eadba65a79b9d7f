SPECIFICATION MCSpec
CONSTANTS
  Lexemes <- AllLexemes
  MaxTokens = 13
  Families <- AllFamilies
INVARIANTS
  TypeOK
  RejectsOnlyNonSentences
  ExpectedTokensFit
  ExpressionsMeanWhatTextMeans
  TreeIsComplete
  TreeSaysWhatTextSays
  NodesFitTheirSlots
  SplicesAreLegal
PROPERTIES
  RefinesRelaxedGrammar
  ListsOnlyGrow
