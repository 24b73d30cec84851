SPECIFICATION Spec
CONSTANTS
  Sources <- TwiceSources
  Globals <- MCGlobals
INVARIANT OwnLabels
