SPECIFICATION ESpec
CONSTANTS
  Tools = {"calculate", "query_db", "http_get", "read_file", "write_file",
           "summarize", "extract_json", "summarize_document", "finish"}
  Finish = "finish"
  Hints <- MCHints
  Plans <- MCPlans
  MaxSteps = 20
  MaxReplans = 5
  MaxCost = 5000
  MaxPlanCost = 8
  MaxSelectCost = 4
  MaxSlow = 1
INVARIANTS
  EndsAsRecorded
  SlowCallRecovered
  CostExplained
  SmokeSeesSlowCalls
  DriftGateSeesAborts
