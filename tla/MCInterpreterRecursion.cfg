SPECIFICATION Spec
CONSTANTS
  Values = {0, 1}
  Main = "main"
  Programs <- RecursivePrograms
  WellBehaved = {}
  MaxDepth = 3
  MaxFrame = 3
  MaxStack = 12
  Trees <- MCTrees
  StartFlags = {FALSE}
CHECK_DEADLOCK FALSE
INVARIANTS
  OwnVariables
