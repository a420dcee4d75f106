SPECIFICATION Spec
CONSTANTS
    Programs <- MCPrograms
    MaxNesting = 8
INVARIANTS
    TypeOK
    ResolvesLexically
    ValidatedInOrder
    LiveCodeIsKept
PROPERTY Terminates
CHECK_DEADLOCK FALSE
