SPECIFICATION Spec
CONSTANTS
  FileSystems <- Unknown
  Limits = {1}
  NestedLimit = 2
  MaxDepth = 1
  MaxRequests = 1
INVARIANTS
  NeverCrashes
