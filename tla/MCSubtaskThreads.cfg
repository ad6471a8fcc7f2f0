SPECIFICATION TSpec
CONSTANTS
  Shapes <- MCShapes
  MaxConcurrency = 3
  Jobs <- MCJobs
  Paths = {"a", "b"}
  MaxBytes = 2
INVARIANTS
  ScriptNeverSkips
  ReadsWithinCap
  ReadAfterWrite
  LastWriteStays
