SPECIFICATION Spec
CONSTANTS
  Shapes <- MCShapes
  MaxConcurrency = 2
INVARIANT
  SettledAtExit
