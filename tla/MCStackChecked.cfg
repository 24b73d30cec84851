SPECIFICATION RunSpec
CONSTANTS
  Programs <- CheckedPrograms
  MaxGrow = 6
  StackLimit = 6
INVARIANTS
  NeverUnderflows
  LabelsHold
  ExitsDelivered
  ForwardHeightsAgree
  EffectIsExact
CHECK_DEADLOCK FALSE
