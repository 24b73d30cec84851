SPECIFICATION Spec
CONSTANTS
  Sources <- OwnSources
  Globals <- MCGlobals
INVARIANTS
  OwnLabels
  JumpsLand
  NoSilentDuplicates
  RecursionJustified
PROPERTIES
  Terminates
