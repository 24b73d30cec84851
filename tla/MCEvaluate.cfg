SPECIFICATION Spec
CONSTANTS
  Programs <- MCPrograms
  Addresses = {1, 2}
  MaxRounds = 2
INVARIANTS
  GuardIsCallStack
  ValueIsSubstitution
  OutputIsCurrent
PROPERTY Terminates
