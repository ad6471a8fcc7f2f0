SPECIFICATION FairSpec
CONSTANTS
  Shapes <- MCShapes
  MaxConcurrency = 2
INVARIANTS
  STypeOK
  DependenciesRespected
  NothingLeftBehind
  AllRunUnlessFailed
  FailureIsReported
PROPERTIES
  NoWorkAfterFailure
  SchedulerTerminates
