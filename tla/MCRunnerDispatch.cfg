SPECIFICATION Spec
CONSTANTS
  Tools = {"calculate", "finish"}
  Finish = "finish"
  Hints = {"calculate", "unregistered"}
  MaxPlanLen = 2
  Plans <- MCPlans
  MaxSteps = 3
  MaxReplans = 1
  MaxCost = 1
  MaxPlanCost = 1
  MaxSelectCost = 1
INVARIANT
  DispatchIsTyped
