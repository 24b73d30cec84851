SPECIFICATION Spec
CONSTANTS
  Invocations <- MCInvocations
  ExprAt <- Expr
  ListAt <- ListFrom
  PrintExpr <- WholeExpr
  PrintList <- ListTokens
INVARIANTS
  SetIsExact
  RoundTrips
  TargetsAreStatements
  WarningsAreExact
  MeaningKept
  Idempotent
  ParseIsFaithful
  OutcomeIsHonest
