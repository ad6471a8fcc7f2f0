SPECIFICATION GFairSpec
CONSTANTS
  Tools = {"calculate", "finish"}
  Finish = "finish"
  Hints = {"calculate", "unregistered"}
  Plans <- MCPlans
  MaxSteps = 2
  MaxReplans = 1
  MaxCost = 0
  MaxPlanCost = 0
  MaxSelectCost = 0
INVARIANTS
  TerminalIsWhole
  AnswersExplained
  SettledByThread
PROPERTIES
  TerminalOnce
  AcceptedGoalSettles
  ServiceTraceGrows
