SPECIFICATION Spec
CONSTANTS
  Invocations <- MCBrace
  ExprAt <- Expr
  ListAt <- ListFrom
  PrintExpr <- WholeExpr
  PrintList <- ListTokens
INVARIANT MeaningKept
