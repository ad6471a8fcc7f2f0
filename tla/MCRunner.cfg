SPECIFICATION FairSpec
CONSTANTS
  Tools = {"calculate", "finish"}
  Finish = "finish"
  Hints = {"calculate", "unregistered"}
  MaxPlanLen = 2
  Plans <- MCPlans
  MaxSteps = 3
  MaxReplans = 2
  MaxCost = 1
  MaxPlanCost = 1
  MaxSelectCost = 1
INVARIANTS
  BudgetsHold
  HonestAbort
  HonestSuccess
  TotalsMatchTrace
  TraceExplained
  EventsTellTheTruth
  PlannerKnowsTheTrace
  IInv
PROPERTIES
  TraceOnlyGrows
  Terminates
