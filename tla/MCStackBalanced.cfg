SPECIFICATION RunSpec
CONSTANTS
  Programs <- BalancedGraphs
  MaxGrow = 2
  StackLimit = 8
INVARIANT BalancedIsQuiet
PROPERTY Terminates
