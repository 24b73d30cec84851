SPECIFICATION Spec
CONSTANTS
  FileSystems <- AllFiles
  Limits = {1, 3}
  NestedLimit = 2
  MaxDepth = 1
  MaxRequests = 2
INVARIANTS
  LimitHolds
  Repeatable
  OutputIsClean
  FailureExplained
PROPERTIES
  Answered
