SPECIFICATION RunSpec
CONSTANTS
  Programs <- OscillatingPrograms
  MaxGrow = 4
  StackLimit = 8
PROPERTY Terminates
CHECK_DEADLOCK FALSE
