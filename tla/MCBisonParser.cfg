\* Every input of up to seven tokens, ints of three bits, at most eight stack entries.
SPECIFICATION Spec
CONSTANTS
  YYINITDEPTH = 5
  YYMAXDEPTH = 8
  INT_MAX = 3
  Malloc = {TRUE, FALSE}
  Lexemes <- MCLexemes
  MaxTokens = 7
INVARIANTS TypeOK PushFits
PROPERTIES OnlyNestingExhausts Refines TokensTaken
CHECK_DEADLOCK FALSE
