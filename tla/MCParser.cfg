SPECIFICATION ReadSpec
CONSTANTS
    Trees <- MCTrees
    Inputs <- MCInputs
INVARIANTS
    TypeOK
    TreeIsTheText
PROPERTY Terminates
CHECK_DEADLOCK FALSE
