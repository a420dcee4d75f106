SPECIFICATION Spec
CONSTANTS
  Functions <- Compiled
  Exprs <- MCExprs
  Stmts <- MCStmts
  Escapes <- EscapesOf
  LevelExpr <- IsLevelExpr
  LevelStmt <- IsLevelStmt
  WellBehaved <- TameKeys
  GpMax = 4
  FpMax = 4
  MaxTests = 5
  MaxTrace = 12
INVARIANTS
  TypeOK
  JumpsHaveTargets
  StackIsAligned
  CompiledRight
CHECK_DEADLOCK FALSE
