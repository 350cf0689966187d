CONSTANTS
  Inputs <- Mixed
  Width = 48
  MaxTokens = 50
SPECIFICATION Spec
INVARIANTS TokensAreSpans ParsesByPrecedence SelectsAsWritten NothingDropped
PROPERTY LexEnds
CHECK_DEADLOCK FALSE
