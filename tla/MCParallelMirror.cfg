SPECIFICATION PSpec
CONSTANTS
  Shapes <- MCShapes
  MaxConcurrency = 2
  MaxReplans = 1
INVARIANT
  RowsMirrored
