SPECIFICATION Spec
CONSTANTS
  Programs <- AllPrograms
  MaxPush <- MCMaxPush
  Limit <- MCLimit
INVARIANTS
  TypeOK
  PanicFree
  OutputIsLayout
  NeverAboveLeast
  FailureJustified
PROPERTIES
  ImplementsAssembly
  Terminates
