SPECIFICATION Spec
CONSTANTS
  Files <- MCFiles
  MaxOverrun = 2
INVARIANTS
  TypeOK
  LexesTheText
  TokensAreInTheFile
PROPERTY Ends
CHECK_DEADLOCK FALSE
