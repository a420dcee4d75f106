SPECIFICATION Spec
CONSTANTS
  Missing = Missing
  NoPath = Missing
  Programs <- MCPrograms
  MaxDepth = 4
INVARIANTS
  TypeOK
  ImportsAreFollowed
  ExpansionIsSound
  TokensAreMeant
PROPERTY Terminates
CHECK_DEADLOCK FALSE
