SPECIFICATION PFairSpec
CONSTANTS
  Shapes <- MCShapes
  MaxConcurrency = 2
  MaxReplans = 1
INVARIANTS
  NoOverlapOfPlans
  ParallelHonest
  CountsAgree
  PlannerKnowsSiblings
  WorkBounded
PROPERTIES
  ParallelTerminates
