SPECIFICATION Spec
CONSTANTS
  Functions <- Compiled
  Exprs <- MCExprs
  Stmts <- MCStmts
  Escapes <- EscapesOf
  LevelExpr <- IsLevelExpr
  LevelStmt <- IsLevelStmt
  WellBehaved <- IndexKeys
  GpMax = 4
  FpMax = 4
  MaxTests = 5
  MaxTrace = 12
INVARIANTS
  CompiledRight
CHECK_DEADLOCK FALSE
