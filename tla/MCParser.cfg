SPECIFICATION Spec
CONSTANTS
  Inputs <- MCInputs
  Meaning <- Known
  Entries = {"Parse", "ParseOpcode"}
INVARIANTS
  LinesAreSeparate
  OneErrorPerLine
  BracketsMatch
PROPERTIES
  Terminates
