-------------------------- MODULE EvalSuiteProofs ---------------------------
(***************************************************************************)
(* Proofs about EvalSuite.                                                 *)
(*                                                                         *)
(* For every value of its constants: a scripted run is a run of Runner, so *)
(* that the invariant of Runner holds for every goal of the suite, and the *)
(* cost of a row is what its counters say.                                 *)
(*                                                                         *)
(* For the instance that the harness runs (Harness: the tools, the budget) *)
(* and any number of slow calls: SuiteInv, and from it that goals end as   *)
(* recorded and that both gates answer what they are asked; RecoverInv,    *)
(* and from it that a goal recovers from its only slow call.  The proofs   *)
(* go from the scripts to the suite, from the steps of a goal to its row,  *)
(* and from the rows to the gates.                                         *)
(***************************************************************************)
EXTENDS EvalSuiteInvariant, RunnerProofs, FiniteSetTheorems
-----------------------------------------------------------------------------
(* A scripted run is a run of Runner. *)

\* The script and the tools' effects only choose among the steps of Runner.
LEMMA ScriptedIsStep == ScriptedStep => Step
  BY DEF ScriptedStep, LoopAlone, AnswerPlan, AnswerSelect, RefuseHint, ToolWorks,
         ToolRefuses, ToolIsSlow, Step, Planning, Selecting, Invoking

\* A new Runner starts as Runner does.
LEMMA NewRunIsInit == ASSUME NEW t, NewRun(t) PROVE Init'
  BY DEF NewRun, Init, NewGoal

\* Every step of the suite is a step of the goal's run, a new run or none.
LEMMA SuiteStep == [ENext]_evars => [Next]_vars \/ Init'
  <1> SUFFICES ASSUME [ENext]_evars PROVE [Next]_vars \/ Init'
    OBVIOUS
  <1>1. CASE StartSuite \/ NextGoal \/ Interrupt
    BY <1>1, NewRunIsInit DEF StartSuite, NextGoal, Interrupt
  <1>2. CASE RunGoal
    BY <1>2, ScriptedIsStep DEF RunGoal, Next
  <1>3. CASE UNCHANGED vars
    BY <1>3
  <1> QED
    BY <1>1, <1>2, <1>3
    DEF ENext, evars, rvars, Invoke, MakeFixture, PrintReport, OpenBaseline, WriteBaseline, Smoke,
        BenchRegress, Gate

\* The invariant of Runner, and with it its budgets and its honest endings,
\* holds all through eval run, smoke and bench-regress (run_suite of
\* eval_harness.py).
THEOREM SuiteKeepsInvariant == ESpec => []IInv
  <1>1. EInit => IInv
    BY InvInit DEF EInit, RInit
  <1>2. (Init => IInv)'
    BY InvInit, PTL
  <1>3. IInv /\ [ENext]_evars => IInv'
    BY <1>2, InvStep, SuiteStep
  <1> QED
    BY <1>1, <1>3, PTL DEF ESpec
-----------------------------------------------------------------------------
(* The cost of a goal: in the run, and then in the rows of the report. *)

\* The points at which the last plan there was has been replanned for, or at
\* which there was none.
BetweenPlans ==
  \/ pc \in {"create", "start", "top", "planning", "giveUp", "raised"}
  \/ pc = "aborted" /\ goal.reason = "max_replans_exceeded"

PlansAsked == IF BetweenPlans THEN replans ELSE replans + 1

\* What the run has cost by now, and that the goal row gets the totals.
CostInv ==
  /\ ~expired
  /\ cost = PlanCost * PlansAsked + SelectCost * steps
  /\ pc \in {"succeeded", "aborted"} =>
       goal.steps = steps /\ goal.replans = replans /\ goal.cost = cost

\* A new run has cost nothing.
LEMMA CostInit == Init => CostInv
  BY DEF Init, CostInv, PlansAsked, BetweenPlans, PlanCost, SelectCost

\* An abort that the script can come to: the wall clock does not run out.
LEMMA CostAbort ==
  ASSUME TypeOK, CostInv, NEW reason \in AbortReasons, Abort(reason, cost),
         BetweenPlans <=> reason = "max_replans_exceeded"
  PROVE  CostInv'
  BY DEF TypeOK, GoalRow, CostInv, Abort, PlansAsked, BetweenPlans

\* What the loop does on its own is paid for as it should be,
LEMMA CostLoop ==
  ASSUME IInv, CostInv, LoopAlone
  PROVE  CostInv'
<1>t. TypeOK
  BY DEF IInv
<1>1. CASE CreateGoal \/ MissingGoal \/ MarkRunning \/ CallPlanner
  BY <1>1 DEF CreateGoal, MissingGoal, MarkRunning, CallPlanner, totals, db,
              CostInv, PlansAsked, BetweenPlans
<1>2. CASE ReplansExceeded \/ GiveUp
  BY <1>t, <1>2, CostAbort DEF ReplansExceeded, GiveUp, BetweenPlans, AbortReasons
<1>3. CASE StepsExceeded \/ CostExceeded \/ PlanExhausted
  BY <1>t, <1>3, CostAbort
     DEF StepsExceeded, CostExceeded, PlanExhausted, BetweenPlans, AbortReasons
<1>4. CASE RecordNoTool \/ RecordReplan
  BY <1>t, <1>4 DEF TypeOK, RecordNoTool, RecordReplan, RecordEvent, CostInv, PlansAsked,
              BetweenPlans
<1>5. CASE RejectOutput \/ AcceptOutput
  BY <1>5 DEF RejectOutput, AcceptOutput, totals, CostInv, PlansAsked, BetweenPlans
<1>6. CASE Succeed
  BY <1>t, <1>6 DEF TypeOK, GoalRow, Succeed, totals, CostInv, PlansAsked, BetweenPlans
<1> QED
  BY <1>1, <1>2, <1>3, <1>4, <1>5, <1>6
  DEF LoopAlone, Step, Planning, Selecting, Invoking, WallClockExceeded, PlannerFails,
      EmptyPlan, PlanTooDear, AdoptPlan, SelectorFails, SelectTool, ToolTimesOut,
      ToolErrors, ToolFails, ToolReturns, CostInv

\* and so is what the script and the tools answer.
LEMMA CostStep ==
  ASSUME IInv, CostInv, ScriptedStep
  PROVE  CostInv'
<1>t. steps \in Nat /\ replans \in Nat /\ cost \in Nat
  BY DEF IInv, TypeOK
<1>1. CASE LoopAlone
  BY <1>1, CostLoop
<1>2. CASE AnswerPlan
  BY <1>t, <1>2 DEF AnswerPlan, AdoptPlan, CostInv, PlansAsked, BetweenPlans, PlanCost,
                    SelectCost
<1>3. CASE AnswerSelect
  BY <1>t, <1>3 DEF AnswerSelect, SelectTool, Admitted, CostInv, PlansAsked, BetweenPlans,
                    PlanCost, SelectCost
<1>4. CASE RefuseHint
  BY <1>t, <1>4 DEF RefuseHint, SelectorFails, SelectCosts, Admitted, CostInv, PlansAsked,
                    BetweenPlans
<1>5. CASE ToolWorks
  BY <1>5 DEF ToolWorks, ToolReturns, totals, CostInv, PlansAsked, BetweenPlans
<1>6. CASE ToolRefuses \/ ToolIsSlow
  BY <1>6 DEF ToolRefuses, ToolIsSlow, ToolErrors, ToolTimesOut, ToolFails, totals,
              CostInv, PlansAsked, BetweenPlans
<1> QED
  BY <1>1, <1>2, <1>3, <1>4, <1>5, <1>6 DEF ScriptedStep

\* Every step of a command keeps it.
LEMMA CostKept == IInv /\ CostInv /\ [ENext]_evars => CostInv'
<1> SUFFICES ASSUME IInv, CostInv, [ENext]_evars PROVE CostInv'
  OBVIOUS
<1>i. (Init => CostInv)'
  BY CostInit, PTL
<1>1. CASE RunGoal
  BY <1>1, CostStep DEF RunGoal
<1>2. CASE NextGoal \/ StartSuite \/ Interrupt
  <2>1. Init'
    BY <1>2, NewRunIsInit DEF NextGoal, StartSuite, Interrupt
  <2> QED
    BY <1>i, <2>1
<1>3. CASE UNCHANGED vars
  BY <1>3 DEF vars, CostInv, PlansAsked, BetweenPlans
<1> QED
  BY <1>1, <1>2, <1>3
  DEF ENext, evars, rvars, Invoke, MakeFixture, PrintReport, OpenBaseline, WriteBaseline, Smoke,
      BenchRegress, Gate

\* It holds all through every command.
LEMMA SuiteCost == ESpec => []CostInv
<1>1. EInit => CostInv
  BY CostInit DEF EInit, RInit
<1> QED
  BY <1>1, CostKept, SuiteKeepsInvariant, PTL DEF ESpec

\* The report is a sequence.
IsReport == \E S : report \in Seq(S)

\* A row that joins the report is explained.
LEMMA RowAdded ==
  ASSUME IInv, CostInv, IsReport, CostExplained, NextGoal
  PROVE  IsReport' /\ CostExplained'
<1>1. PICK S : report \in Seq(S)
  BY DEF IsReport
<1> DEFINE T == S \cup {ResultRow}
<1>2. report \in Seq(T) /\ ResultRow \in T
  BY <1>1
<1> HIDE DEF T
<1>3. /\ report' \in Seq(T) /\ Len(report') = Len(report) + 1
      /\ \A i \in 1 .. Len(report) : report'[i] = report[i]
      /\ report'[Len(report) + 1] = ResultRow
      /\ DOMAIN report = 1 .. Len(report) /\ DOMAIN report' = 1 .. Len(report')
      /\ Len(report) \in Nat
  BY <1>2 DEF NextGoal
<1>4. /\ ResultRow.cost = PlanCost * (IF ResultRow.reason = "max_replans_exceeded"
                                        THEN ResultRow.replans ELSE ResultRow.replans + 1)
                            + SelectCost * ResultRow.steps
      /\ ResultRow.steps <= MaxSteps /\ ResultRow.replans <= MaxReplans + 1
  <2>1. /\ goal.steps = steps /\ goal.replans = replans /\ goal.cost = cost
        /\ pc = "succeeded" => goal.reason = "none"
        /\ steps <= MaxSteps /\ replans <= MaxReplans + 1
        /\ pc \in {"succeeded", "aborted"}
    BY DEF NextGoal, CostInv, IInv, Control, Counters
  <2> QED
    BY <2>1 DEF ResultRow, CostInv, PlansAsked, BetweenPlans
<1>5. IsReport'
  BY <1>3 DEF IsReport
<1>6. ASSUME NEW i \in DOMAIN report'
      PROVE  LET row   == report'[i]
                 plans == IF row.reason = "max_replans_exceeded" THEN row.replans
                                                                 ELSE row.replans + 1
             IN  /\ row.cost = PlanCost * plans + SelectCost * row.steps
                 /\ row.steps <= MaxSteps /\ row.replans <= MaxReplans + 1
  <2>1. CASE i = Len(report) + 1
    BY <1>3, <1>4, <2>1
  <2>2. CASE i # Len(report) + 1
    <3>1. i \in DOMAIN report /\ report'[i] = report[i]
      BY <1>3, <2>2
    <3> QED
      BY <3>1 DEF CostExplained
  <2> QED
    BY <2>1, <2>2
<1> QED
  BY <1>5, <1>6 DEF CostExplained

\* For every budget and every suite run, whatever was slow: the cost in a row
\* of the report follows from the replans and the steps in it (what _run_loop
\* adds up and run_suite passes on), and both are within their budgets.
THEOREM SuiteCostExplained == ESpec => []CostExplained
<1>1. EInit => IsReport /\ CostExplained
  <2> SUFFICES ASSUME EInit PROVE IsReport /\ CostExplained
    OBVIOUS
  <2>1. report = <<>>
    BY DEF EInit
  <2> QED
    BY <2>1 DEF IsReport, CostExplained
<1>2. IInv /\ CostInv /\ IsReport /\ CostExplained /\ [ENext]_evars => (IsReport /\ CostExplained)'
  <2> SUFFICES ASSUME IInv, CostInv, IsReport, CostExplained, [ENext]_evars
               PROVE  IsReport' /\ CostExplained'
    OBVIOUS
  <2>1. CASE NextGoal
    BY <2>1, RowAdded
  <2>2. CASE report' = report
    BY <2>2 DEF IsReport, CostExplained
  <2>3. CASE report' = <<>>
    <3>1. <<>> \in Seq({}) /\ DOMAIN <<>> = {}
      OBVIOUS
    <3>2. CostExplained'
      BY <2>3, <3>1 DEF CostExplained
    <3> QED
      BY <2>3, <3>1, <3>2 DEF IsReport
  <2> QED
    BY <2>1, <2>2, <2>3
    DEF ENext, evars, Invoke, MakeFixture, StartSuite, RunGoal, PrintReport, OpenBaseline,
        WriteBaseline, Smoke, BenchRegress, Gate, Interrupt
<1> QED
  BY <1>1, <1>2, SuiteCost, SuiteKeepsInvariant, PTL DEF ESpec
-----------------------------------------------------------------------------
(* The scripts. *)

\* Each read of the first plan is of a fixture, or of what an earlier call writes.
ReadsWork(key) ==
  \A n \in DOMAIN FirstPlan(key) : FirstPlan(key)[n] = "read_file" =>
    ArgAt(key, n) \in Elements(Fixtures) \cup WrittenBy(key, n - 1)

\* The first plan is of registered tools, and its last call is the finish.
PlanFits(key) ==
  LET tools == FirstPlan(key)
  IN  /\ Len(PlanScript[key]) \in 1 .. 2
      /\ tools \in Seq(Tools) /\ Len(tools) \in 2 .. 10
      /\ \A n \in 1 .. Len(tools) : tools[n] = "finish" <=> n = Len(tools)

\* No tool of it has arguments for more than two calls.
ArgsFit(key) ==
  \A n \in DOMAIN FirstPlan(key) : Len(ToolArgs(key, FirstPlan(key)[n])) \in 1 .. 2

\* A script whose first plan goes through.
ScriptFits(key) == PlanFits(key) /\ ReadsWork(key) /\ ArgsFit(key) /\ key # "extract_strict"

\* A read of the path of an earlier write.
LEMMA OwnWrite ==
  ASSUME NEW key, NEW n \in Nat, NEW m \in 1 .. n - 1, FirstPlan(key)[m] = "write_file",
         ArgAt(key, m) = ArgAt(key, n)
  PROVE  ArgAt(key, n) \in WrittenBy(key, n - 1)
  BY DEF WrittenBy

\* The scripts that neither read nor write a file.
LEMMA FilelessScriptsFit ==
  ASSUME Harness,
         NEW key \in {"calc_avg_eng", "calc_simple", "list_employees", "count_orders",
                      "fetch_status", "extract_struct", "math_two_step", "department_count",
                      "find_john_salary", "summarize_short"}
  PROVE  ScriptFits(key)
<1> DEFINE tools == FirstPlan(key)
<1>1. Len(PlanScript[key]) \in 1 .. 2
  BY DEF PlanScript, Ask
<1>2. \/ \E tool \in {"query_db", "calculate", "http_get", "extract_json", "summarize"} :
           tools = <<tool, "finish">>
      \/ tools = <<"calculate", "calculate", "finish">>
  BY DEF FirstPlan, PlanScript, Ask
<1> HIDE DEF tools
<1>3. {"query_db", "calculate", "http_get", "extract_json", "summarize", "finish"} \subseteq Tools
  BY DEF Harness, Registered
<1>4. /\ tools \in Seq(Tools) /\ Len(tools) \in 2 .. 3
      /\ \A n \in 1 .. Len(tools) : /\ tools[n] = "finish" <=> n = Len(tools)
                                    /\ tools[n] \notin {"read_file", "write_file"}
  <2>1. CASE tools = <<"calculate", "calculate", "finish">>
    BY <1>3, <2>1
  <2>2. ASSUME NEW tool \in {"query_db", "calculate", "http_get", "extract_json", "summarize"},
               tools = <<tool, "finish">>
        PROVE  /\ tools \in Seq(Tools) /\ Len(tools) \in 2 .. 3
               /\ \A n \in 1 .. Len(tools) : /\ tools[n] = "finish" <=> n = Len(tools)
                                             /\ tools[n] \notin {"read_file", "write_file"}
    <3>1. tools \in Seq(Tools) /\ Len(tools) = 2
      BY <1>3, <2>2
    <3>2. tools[1] = tool /\ tools[2] = "finish"
      BY <2>2
    <3>3. \A n \in 1 .. 2 : n = 1 \/ n = 2
      OBVIOUS
    <3> QED
      BY <3>1, <3>2, <3>3
  <2> QED
    BY <1>2, <2>1, <2>2
<1>5. PlanFits(key)
  BY <1>1, <1>4 DEF PlanFits, tools
<1>6. ReadsWork(key)
  BY <1>4 DEF ReadsWork, tools
<1>7. ArgsFit(key)
  <2>1. ASSUME NEW tool, tool \notin {"read_file", "write_file"} PROVE Len(ToolArgs(key, tool)) = 1
    BY <2>1 DEF ToolArgs
  <2> QED
    BY <1>4, <2>1 DEF ArgsFit, tools
<1> QED
  BY <1>5, <1>6, <1>7 DEF ScriptFits

\* read_notes reads a fixture.
LEMMA ReadNotesFits == Harness => ScriptFits("read_notes")
<1> DEFINE p == <<"read_file", "finish">>
<1>1. FirstPlan("read_notes") = p /\ Len(PlanScript["read_notes"]) \in 1 .. 2
  BY DEF PlanScript, Ask, FirstPlan
<1>2. ReadPaths["read_notes"] = <<"notes">>
  BY DEF ReadPaths, WritePaths
<1>p. Len(p) = 2 /\ DOMAIN p = 1 .. 2
  OBVIOUS
<1>3. Harness => PlanFits("read_notes")
  <2> SUFFICES ASSUME Harness PROVE PlanFits("read_notes")
    OBVIOUS
  <2>1. p \in Seq(Tools)
    BY DEF Harness, Registered
  <2>2. \A n \in 1 .. 2 : p[n] = "finish" <=> n = 2
    OBVIOUS
  <2> HIDE DEF p
  <2> QED
    <3>1. Len(FirstPlan("read_notes")) \in 2 .. 10
      BY <1>1, <1>p
    <3>2. Len(PlanScript["read_notes"]) \in 1 .. 2
      BY <1>1
    <3> QED
      BY <1>1, <1>p, <2>1, <2>2, <3>1, <3>2 DEF PlanFits
<1>4. ArgsFit("read_notes")
  BY <1>1, <1>2 DEF ArgsFit, ToolArgs
<1>5. ReadsWork("read_notes")
  <2>1. ArgAt("read_notes", 1) \in Elements(Fixtures)
    BY <1>1, <1>2 DEF ArgAt, ToolArgs, Elements, Fixtures
  <2> QED
    BY <1>1, <2>1 DEF ReadsWork
<1> QED
  BY <1>3, <1>4, <1>5 DEF ScriptFits

\* write_then_read reads back what it wrote.
LEMMA WriteThenReadFits == Harness => ScriptFits("write_then_read")
<1> DEFINE p == <<"write_file", "read_file", "finish">>
<1>1. FirstPlan("write_then_read") = p /\ Len(PlanScript["write_then_read"]) \in 1 .. 2
  BY DEF PlanScript, Ask, FirstPlan
<1>2. /\ ReadPaths["write_then_read"] = <<"report">>
      /\ WritePaths["write_then_read"] = <<"report">>
  BY DEF ReadPaths, WritePaths
<1>p. Len(p) = 3 /\ DOMAIN p = 1 .. 3
  OBVIOUS
<1>3. Harness => PlanFits("write_then_read")
  <2> SUFFICES ASSUME Harness PROVE PlanFits("write_then_read")
    OBVIOUS
  <2>1. p \in Seq(Tools)
    BY DEF Harness, Registered
  <2>2. \A n \in 1 .. 3 : p[n] = "finish" <=> n = 3
    OBVIOUS
  <2> HIDE DEF p
  <2> QED
    <3>1. Len(FirstPlan("write_then_read")) \in 2 .. 10
      BY <1>1, <1>p
    <3>2. Len(PlanScript["write_then_read"]) \in 1 .. 2
      BY <1>1
    <3> QED
      BY <1>1, <1>p, <2>1, <2>2, <3>1, <3>2 DEF PlanFits
<1>4. ArgsFit("write_then_read")
  BY <1>1, <1>2 DEF ArgsFit, ToolArgs
<1>5. ReadsWork("write_then_read")
  <2>2. ArgAt("write_then_read", 2) \in WrittenBy("write_then_read", 2 - 1)
    <3>1. ArgAt("write_then_read", 2) = "report"
      BY <1>1, <1>2 DEF ArgAt, ToolArgs
    <3>2. ArgAt("write_then_read", 1) = "report"
      BY <1>1, <1>2 DEF ArgAt, ToolArgs
    <3> QED
      BY <1>1, <3>1, <3>2, OwnWrite
  <2> QED
    BY <1>1, <2>2 DEF ReadsWork
<1> QED
  BY <1>3, <1>4, <1>5 DEF ScriptFits

\* summarize_doc reads a fixture.
LEMMA SummarizeDocFits == Harness => ScriptFits("summarize_doc")
<1> DEFINE p == <<"read_file", "summarize", "finish">>
<1>1. FirstPlan("summarize_doc") = p /\ Len(PlanScript["summarize_doc"]) \in 1 .. 2
  BY DEF PlanScript, Ask, FirstPlan
<1>2. ReadPaths["summarize_doc"] = <<"long_doc">>
  BY DEF ReadPaths, WritePaths
<1>p. Len(p) = 3 /\ DOMAIN p = 1 .. 3
  OBVIOUS
<1>3. Harness => PlanFits("summarize_doc")
  <2> SUFFICES ASSUME Harness PROVE PlanFits("summarize_doc")
    OBVIOUS
  <2>1. p \in Seq(Tools)
    BY DEF Harness, Registered
  <2>2. \A n \in 1 .. 3 : p[n] = "finish" <=> n = 3
    OBVIOUS
  <2> HIDE DEF p
  <2> QED
    <3>1. Len(FirstPlan("summarize_doc")) \in 2 .. 10
      BY <1>1, <1>p
    <3>2. Len(PlanScript["summarize_doc"]) \in 1 .. 2
      BY <1>1
    <3> QED
      BY <1>1, <1>p, <2>1, <2>2, <3>1, <3>2 DEF PlanFits
<1>4. ArgsFit("summarize_doc")
  BY <1>1, <1>2 DEF ArgsFit, ToolArgs
<1>5. ReadsWork("summarize_doc")
  <2>1. ArgAt("summarize_doc", 1) \in Elements(Fixtures)
    BY <1>1, <1>2 DEF ArgAt, ToolArgs, Elements, Fixtures
  <2> QED
    BY <1>1, <2>1 DEF ReadsWork
<1> QED
  BY <1>3, <1>4, <1>5 DEF ScriptFits

\* compose_report reads back each of the two files it writes.
LEMMA ComposeReportFits == Harness => ScriptFits("compose_report")
<1> DEFINE p == <<"write_file", "read_file", "summarize", "calculate", "query_db", "calculate",
                  "http_get", "write_file", "read_file", "finish">>
<1>1. FirstPlan("compose_report") = p /\ Len(PlanScript["compose_report"]) \in 1 .. 2
  BY DEF PlanScript, Ask, FirstPlan
<1>2. /\ ReadPaths["compose_report"] = <<"seed", "report_final">>
      /\ WritePaths["compose_report"] = <<"seed", "report_final">>
  BY DEF ReadPaths, WritePaths
<1>p. Len(p) = 10 /\ DOMAIN p = 1 .. 10
  OBVIOUS
<1>3. Harness => PlanFits("compose_report")
  <2> SUFFICES ASSUME Harness PROVE PlanFits("compose_report")
    OBVIOUS
  <2>1. p \in Seq(Tools)
    BY DEF Harness, Registered
  <2>2. \A n \in 1 .. 10 : p[n] = "finish" <=> n = 10
    OBVIOUS
  <2> HIDE DEF p
  <2> QED
    <3>1. Len(FirstPlan("compose_report")) \in 2 .. 10
      BY <1>1, <1>p
    <3>2. Len(PlanScript["compose_report"]) \in 1 .. 2
      BY <1>1
    <3> QED
      BY <1>1, <1>p, <2>1, <2>2, <3>1, <3>2 DEF PlanFits
<1>4. ArgsFit("compose_report")
  BY <1>1, <1>2 DEF ArgsFit, ToolArgs
<1>5. ReadsWork("compose_report")
  <2>2. ArgAt("compose_report", 2) \in WrittenBy("compose_report", 2 - 1)
    <3>1. ArgAt("compose_report", 2) = "seed"
      BY <1>1, <1>2 DEF ArgAt, ToolArgs
    <3>2. ArgAt("compose_report", 1) = "seed"
      BY <1>1, <1>2 DEF ArgAt, ToolArgs
    <3> QED
      BY <1>1, <3>1, <3>2, OwnWrite
  <2>9. ArgAt("compose_report", 9) \in WrittenBy("compose_report", 9 - 1)
    <3>1. ArgAt("compose_report", 9) = "report_final"
      BY <1>1, <1>2 DEF ArgAt, ToolArgs
    <3>2. ArgAt("compose_report", 8) = "report_final"
      BY <1>1, <1>2 DEF ArgAt, ToolArgs
    <3> QED
      BY <1>1, <3>1, <3>2, OwnWrite
  <2> QED
    BY <1>1, <2>2, <2>9 DEF ReadsWork
<1> QED
  BY <1>3, <1>4, <1>5 DEF ScriptFits

\* data_pipeline reads back what it wrote.
LEMMA DataPipelineFits == Harness => ScriptFits("data_pipeline")
<1> DEFINE p == <<"query_db", "calculate", "query_db", "calculate", "write_file", "read_file",
                  "summarize", "extract_json", "calculate", "finish">>
<1>1. FirstPlan("data_pipeline") = p /\ Len(PlanScript["data_pipeline"]) \in 1 .. 2
  BY DEF PlanScript, Ask, FirstPlan
<1>2. /\ ReadPaths["data_pipeline"] = <<"metrics">>
      /\ WritePaths["data_pipeline"] = <<"metrics">>
  BY DEF ReadPaths, WritePaths
<1>p. Len(p) = 10 /\ DOMAIN p = 1 .. 10
  OBVIOUS
<1>3. Harness => PlanFits("data_pipeline")
  <2> SUFFICES ASSUME Harness PROVE PlanFits("data_pipeline")
    OBVIOUS
  <2>1. p \in Seq(Tools)
    BY DEF Harness, Registered
  <2>2. \A n \in 1 .. 10 : p[n] = "finish" <=> n = 10
    OBVIOUS
  <2> HIDE DEF p
  <2> QED
    <3>1. Len(FirstPlan("data_pipeline")) \in 2 .. 10
      BY <1>1, <1>p
    <3>2. Len(PlanScript["data_pipeline"]) \in 1 .. 2
      BY <1>1
    <3> QED
      BY <1>1, <1>p, <2>1, <2>2, <3>1, <3>2 DEF PlanFits
<1>4. ArgsFit("data_pipeline")
  BY <1>1, <1>2 DEF ArgsFit, ToolArgs
<1>5. ReadsWork("data_pipeline")
  <2>6. ArgAt("data_pipeline", 6) \in WrittenBy("data_pipeline", 6 - 1)
    <3>1. ArgAt("data_pipeline", 6) = "metrics"
      BY <1>1, <1>2 DEF ArgAt, ToolArgs
    <3>2. ArgAt("data_pipeline", 5) = "metrics"
      BY <1>1, <1>2 DEF ArgAt, ToolArgs
    <3> QED
      BY <1>1, <3>1, <3>2, OwnWrite
  <2> QED
    BY <1>1, <2>6 DEF ReadsWork
<1> QED
  BY <1>3, <1>4, <1>5 DEF ScriptFits

\* research_aggregate reads back each of the two files it writes.
LEMMA ResearchAggregateFits == Harness => ScriptFits("research_aggregate")
<1> DEFINE p == <<"http_get", "write_file", "read_file", "summarize", "query_db", "calculate",
                  "write_file", "read_file", "extract_json", "finish">>
<1>1. FirstPlan("research_aggregate") = p /\ Len(PlanScript["research_aggregate"]) \in 1 .. 2
  BY DEF PlanScript, Ask, FirstPlan
<1>2. /\ ReadPaths["research_aggregate"] = <<"corpus", "brief">>
      /\ WritePaths["research_aggregate"] = <<"corpus", "brief">>
  BY DEF ReadPaths, WritePaths
<1>p. Len(p) = 10 /\ DOMAIN p = 1 .. 10
  OBVIOUS
<1>3. Harness => PlanFits("research_aggregate")
  <2> SUFFICES ASSUME Harness PROVE PlanFits("research_aggregate")
    OBVIOUS
  <2>1. p \in Seq(Tools)
    BY DEF Harness, Registered
  <2>2. \A n \in 1 .. 10 : p[n] = "finish" <=> n = 10
    OBVIOUS
  <2> HIDE DEF p
  <2> QED
    <3>1. Len(FirstPlan("research_aggregate")) \in 2 .. 10
      BY <1>1, <1>p
    <3>2. Len(PlanScript["research_aggregate"]) \in 1 .. 2
      BY <1>1
    <3> QED
      BY <1>1, <1>p, <2>1, <2>2, <3>1, <3>2 DEF PlanFits
<1>4. ArgsFit("research_aggregate")
  BY <1>1, <1>2 DEF ArgsFit, ToolArgs
<1>5. ReadsWork("research_aggregate")
  <2>3. ArgAt("research_aggregate", 3) \in WrittenBy("research_aggregate", 3 - 1)
    <3>1. ArgAt("research_aggregate", 3) = "corpus"
      BY <1>1, <1>2 DEF ArgAt, ToolArgs
    <3>2. ArgAt("research_aggregate", 2) = "corpus"
      BY <1>1, <1>2 DEF ArgAt, ToolArgs
    <3> QED
      BY <1>1, <3>1, <3>2, OwnWrite
  <2>8. ArgAt("research_aggregate", 8) \in WrittenBy("research_aggregate", 8 - 1)
    <3>1. ArgAt("research_aggregate", 8) = "brief"
      BY <1>1, <1>2 DEF ArgAt, ToolArgs
    <3>2. ArgAt("research_aggregate", 7) = "brief"
      BY <1>1, <1>2 DEF ArgAt, ToolArgs
    <3> QED
      BY <1>1, <3>1, <3>2, OwnWrite
  <2> QED
    BY <1>1, <2>3, <2>8 DEF ReadsWork
<1> QED
  BY <1>3, <1>4, <1>5 DEF ScriptFits

\* kitchen_sink reads a fixture, and then back what it wrote.
LEMMA KitchenSinkFits == Harness => ScriptFits("kitchen_sink")
<1> DEFINE p == <<"read_file", "summarize", "write_file", "read_file", "calculate", "calculate",
                  "query_db", "http_get", "extract_json", "finish">>
<1>1. FirstPlan("kitchen_sink") = p /\ Len(PlanScript["kitchen_sink"]) \in 1 .. 2
  BY DEF PlanScript, Ask, FirstPlan
<1>2. /\ ReadPaths["kitchen_sink"] = <<"long_doc", "kitchen">>
      /\ WritePaths["kitchen_sink"] = <<"kitchen">>
  BY DEF ReadPaths, WritePaths
<1>p. Len(p) = 10 /\ DOMAIN p = 1 .. 10
  OBVIOUS
<1>3. Harness => PlanFits("kitchen_sink")
  <2> SUFFICES ASSUME Harness PROVE PlanFits("kitchen_sink")
    OBVIOUS
  <2>1. p \in Seq(Tools)
    BY DEF Harness, Registered
  <2>2. \A n \in 1 .. 10 : p[n] = "finish" <=> n = 10
    OBVIOUS
  <2> HIDE DEF p
  <2> QED
    <3>1. Len(FirstPlan("kitchen_sink")) \in 2 .. 10
      BY <1>1, <1>p
    <3>2. Len(PlanScript["kitchen_sink"]) \in 1 .. 2
      BY <1>1
    <3> QED
      BY <1>1, <1>p, <2>1, <2>2, <3>1, <3>2 DEF PlanFits
<1>4. ArgsFit("kitchen_sink")
  BY <1>1, <1>2 DEF ArgsFit, ToolArgs
<1>5. ReadsWork("kitchen_sink")
  <2>1. ArgAt("kitchen_sink", 1) \in Elements(Fixtures)
    BY <1>1, <1>2 DEF ArgAt, ToolArgs, Elements, Fixtures
  <2>4. ArgAt("kitchen_sink", 4) \in WrittenBy("kitchen_sink", 4 - 1)
    <3>1. ArgAt("kitchen_sink", 4) = "kitchen"
      BY <1>1, <1>2 DEF ArgAt, ToolArgs
    <3>2. ArgAt("kitchen_sink", 3) = "kitchen"
      BY <1>1, <1>2 DEF ArgAt, ToolArgs
    <3> QED
      BY <1>1, <3>1, <3>2, OwnWrite
  <2> QED
    BY <1>1, <2>1, <2>4 DEF ReadsWork
<1> QED
  BY <1>3, <1>4, <1>5 DEF ScriptFits

\* audit_trail reads back each of the two files it writes.
LEMMA AuditTrailFits == Harness => ScriptFits("audit_trail")
<1> DEFINE p == <<"query_db", "write_file", "read_file", "query_db", "calculate", "query_db",
                  "calculate", "write_file", "read_file", "finish">>
<1>1. FirstPlan("audit_trail") = p /\ Len(PlanScript["audit_trail"]) \in 1 .. 2
  BY DEF PlanScript, Ask, FirstPlan
<1>2. /\ ReadPaths["audit_trail"] = <<"snapshot", "audit_summary">>
      /\ WritePaths["audit_trail"] = <<"snapshot", "audit_summary">>
  BY DEF ReadPaths, WritePaths
<1>p. Len(p) = 10 /\ DOMAIN p = 1 .. 10
  OBVIOUS
<1>3. Harness => PlanFits("audit_trail")
  <2> SUFFICES ASSUME Harness PROVE PlanFits("audit_trail")
    OBVIOUS
  <2>1. p \in Seq(Tools)
    BY DEF Harness, Registered
  <2>2. \A n \in 1 .. 10 : p[n] = "finish" <=> n = 10
    OBVIOUS
  <2> HIDE DEF p
  <2> QED
    <3>1. Len(FirstPlan("audit_trail")) \in 2 .. 10
      BY <1>1, <1>p
    <3>2. Len(PlanScript["audit_trail"]) \in 1 .. 2
      BY <1>1
    <3> QED
      BY <1>1, <1>p, <2>1, <2>2, <3>1, <3>2 DEF PlanFits
<1>4. ArgsFit("audit_trail")
  BY <1>1, <1>2 DEF ArgsFit, ToolArgs
<1>5. ReadsWork("audit_trail")
  <2>3. ArgAt("audit_trail", 3) \in WrittenBy("audit_trail", 3 - 1)
    <3>1. ArgAt("audit_trail", 3) = "snapshot"
      BY <1>1, <1>2 DEF ArgAt, ToolArgs
    <3>2. ArgAt("audit_trail", 2) = "snapshot"
      BY <1>1, <1>2 DEF ArgAt, ToolArgs
    <3> QED
      BY <1>1, <3>1, <3>2, OwnWrite
  <2>9. ArgAt("audit_trail", 9) \in WrittenBy("audit_trail", 9 - 1)
    <3>1. ArgAt("audit_trail", 9) = "audit_summary"
      BY <1>1, <1>2 DEF ArgAt, ToolArgs
    <3>2. ArgAt("audit_trail", 8) = "audit_summary"
      BY <1>1, <1>2 DEF ArgAt, ToolArgs
    <3> QED
      BY <1>1, <3>1, <3>2, OwnWrite
  <2> QED
    BY <1>1, <2>3, <2>9 DEF ReadsWork
<1> QED
  BY <1>3, <1>4, <1>5 DEF ScriptFits
-----------------------------------------------------------------------------
(* The suite, and the scripts of its goals. *)

\* The script of each goal.
SuiteKeys ==
  <<"calc_avg_eng", "calc_simple", "list_employees", "count_orders", "read_notes",
    "write_then_read", "fetch_status", "summarize_doc", "extract_struct", "math_two_step",
    "department_count", "find_john_salary", "send_email", "summarize_short", "extract_strict",
    "compose_report", "data_pipeline", "research_aggregate", "kitchen_sink", "audit_trail">>

\* There are twenty goals.
LEMMA SuiteLength == Len(Suite) = 20 /\ DOMAIN Suite = 1 .. 20
  BY DEF Suite

\* What each of them says, and what is expected of it.
LEMMA SuiteGoals ==
  /\ \A i \in 1 .. 20 \ {12, 13, 15, 16, 17, 20} : Suite[i] = Plain(SuiteKeys[i])
  /\ \A i \in {16, 17, 20} : Suite[i] = AlsoReport(SuiteKeys[i])
  /\ Suite[12] = Goal({SuiteKeys[12]}, <<"query_db", "finish">>)
  /\ Suite[13].text = {SuiteKeys[13]} /\ Suite[15].text = {SuiteKeys[15]}
<1>1. \A i \in 1 .. 20 \ {12, 13, 15, 16, 17, 20} : Suite[i] = Plain(SuiteKeys[i])
  BY DEF Suite, SuiteKeys
<1>2. \A i \in {16, 17, 20} : Suite[i] = AlsoReport(SuiteKeys[i])
  BY DEF Suite, SuiteKeys
<1>3. Suite[12] = Goal({SuiteKeys[12]}, <<"query_db", "finish">>)
  BY DEF Suite, SuiteKeys
<1>4. Suite[13].text = {SuiteKeys[13]}
  BY DEF Suite, Goal, SuiteKeys
<1>5. Suite[15].text = {SuiteKeys[15]}
  BY DEF Suite, Goal, SuiteKeys
<1> QED
  BY <1>1, <1>2, <1>3, <1>4, <1>5

\* No pattern is in the list twice.
LEMMA PatternsDiffer == \A i, j \in 1 .. 20 : Patterns[i] = Patterns[j] => i = j
  BY DEF Patterns

\* The texts that three goals share with write_then_read do not mislead.
LEMMA FirstMatch ==
  ASSUME NEW n \in 1 .. 20, NEW t, Patterns[n] \in t, t \subseteq {Patterns[n], Patterns[19]},
         n <= 19 \/ t = {Patterns[n]}
  PROVE  Classify(t) = Patterns[n]
<1>0. DOMAIN Patterns = 1 .. 20
  BY DEF Patterns
<1>1. \A j \in DOMAIN Patterns : Patterns[j] \in t => n <= j
  BY <1>0, PatternsDiffer
<1>2. \A i \in DOMAIN Patterns :
        Patterns[i] \in t /\ (\A j \in DOMAIN Patterns : Patterns[j] \in t => i <= j) => i = n
  BY <1>0, <1>1
<1> QED
  BY <1>0, <1>1, <1>2 DEF Classify

\* The place of each goal's pattern.
PatternOf == <<7, 6, 16, 17, 18, 19, 20, 14, 15, 8, 9, 10, 11, 12, 13, 1, 2, 3, 4, 5>>

\* It is that of its script.
LEMMA KeysArePatterns ==
  \A i \in 1 .. 20 : PatternOf[i] \in 1 .. 20 /\ SuiteKeys[i] = Patterns[PatternOf[i]]
  BY DEF PatternOf, SuiteKeys, Patterns

\* _classify finds the script that a goal is meant for.
LEMMA SuiteClassified ==
  ASSUME NEW i \in 1 .. 20
  PROVE  Classify(Suite[i].text) = SuiteKeys[i]
<1>1. CASE i \in 1 .. 20 \ {16, 17, 20}
  <2>1. Suite[i].text = {SuiteKeys[i]}
    <3>1. CASE i \notin {12, 13, 15}
      <4>1. Suite[i] = Plain(SuiteKeys[i])
        BY <1>1, <3>1, SuiteGoals
      <4> QED
        BY <4>1 DEF Plain, Goal
    <3>2. CASE i = 12
      BY <3>2, SuiteGoals DEF Goal
    <3>3. CASE i \in {13, 15}
      BY <3>3, SuiteGoals
    <3> QED
      BY <3>1, <3>2, <3>3
  <2>2. PICK n \in 1 .. 20 : SuiteKeys[i] = Patterns[n]
    BY KeysArePatterns
  <2> QED
    BY <2>1, <2>2, FirstMatch
<1>2. CASE i \in {16, 17, 20}
  <2>1. Suite[i].text = {SuiteKeys[i], "write_then_read"}
    BY <1>2, SuiteGoals DEF AlsoReport, Goal
  <2>2. PatternOf[i] <= 19 /\ Patterns[19] = "write_then_read"
    BY <1>2 DEF PatternOf, Patterns
  <2> QED
    BY <2>1, <2>2, FirstMatch, KeysArePatterns
<1> QED
  BY <1>1, <1>2

\* It does for every goal but the one that is to abort and the one that is to replan.
LEMMA ScriptsFit ==
  ASSUME Harness, NEW i \in 1 .. 20 \ {13, 15}
  PROVE  ScriptFits(SuiteKeys[i])
<1>1. CASE i \in {1, 2, 3, 4, 7, 9, 10, 11, 12, 14}
  BY <1>1, FilelessScriptsFit DEF SuiteKeys
<1>2. CASE i \in {5, 6, 8}
  BY <1>2, ReadNotesFits, WriteThenReadFits, SummarizeDocFits DEF SuiteKeys
<1>3. CASE i \in 16 .. 20
  BY <1>3, ComposeReportFits, DataPipelineFits, ResearchAggregateFits, KitchenSinkFits,
         AuditTrailFits
  DEF SuiteKeys
<1> QED
  BY <1>1, <1>2, <1>3

\* What the record says of such a goal is what the plan says.
LEMMA PlainRecord ==
  ASSUME NEW i \in 1 .. 20 \ {13, 15}
  PROVE  LET tools == FirstPlan(SuiteKeys[i])
         IN  Recorded[i] = RecordedRow(Len(tools), 8 + 4 * Len(tools), tools)
<1> DEFINE k == SuiteKeys[i]
<1>1. CASE i = 12
  <2>1. FirstPlan(SuiteKeys[12]) = <<"query_db", "finish">>
    BY DEF FirstPlan, PlanScript, Ask, SuiteKeys
  <2>2. Recorded[12] = RecordedRow(2, 16, Suite[12].tools)
    BY SuiteLength DEF Recorded
  <2>3. Suite[12].tools = <<"query_db", "finish">>
    BY SuiteGoals DEF Goal
  <2>4. Len(FirstPlan(SuiteKeys[12])) = 2
    BY <2>1
  <2> QED
    BY <1>1, <2>1, <2>2, <2>3, <2>4
<1>2. CASE i # 12
  <2>1. Len(PlanScript[k]) = 1
    BY <1>2 DEF PlanScript, Ask, SuiteKeys
  <2>2. Suite[i].tools = FirstPlan(k)
    <3>1. CASE i \in {16, 17, 20}
      <4>1. Suite[i] = AlsoReport(k)
        BY <3>1, SuiteGoals
      <4> QED
        BY <4>1, <2>1 DEF AlsoReport, Goal, LastPlan, FirstPlan
    <3>2. CASE i \notin {16, 17, 20}
      <4>1. Suite[i] = Plain(k)
        BY <1>2, <3>2, SuiteGoals
      <4> QED
        BY <4>1, <2>1 DEF Plain, Goal, LastPlan, FirstPlan
    <3> QED
      BY <3>1, <3>2
  <2>3. CASE i \in {6, 8, 10}
    <3>1. Len(FirstPlan(k)) = 3
      BY <2>3 DEF PlanScript, Ask, SuiteKeys, FirstPlan
    <3> QED
      BY <2>2, <2>3, <3>1, SuiteLength DEF Recorded
  <2>4. CASE i > 15
    <3>0. k \in {"compose_report", "data_pipeline", "research_aggregate", "kitchen_sink",
                 "audit_trail"}
      BY <2>4 DEF SuiteKeys
    <3>1. Len(FirstPlan(k)) = 10
      <4> HIDE DEF k
      <4> QED
        BY <3>0 DEF PlanScript, FirstPlan
    <3> QED
      BY <2>2, <2>4, <3>1, SuiteLength DEF Recorded
  <2>5. CASE i \in {1, 2, 3, 4, 5, 7, 9, 11, 14}
    <3>1. Len(FirstPlan(k)) = 2
      BY <2>5 DEF PlanScript, Ask, SuiteKeys, FirstPlan
    <3> QED
      BY <2>2, <2>5, <3>1, SuiteLength DEF Recorded
  <2> QED
    BY <1>2, <2>3, <2>4, <2>5
<1> QED
  BY <1>1, <1>2
-----------------------------------------------------------------------------
(* The steps of a goal whose calls all work. *)

\* What the steps of a call leave in its row.
LEMMA CallOpens ==
  ASSUME TypeOK, AnswerSelect
  PROVE  /\ Len(calls') = Len(calls) + 1
         /\ calls'[Len(calls) + 1].tool = plan[pos] /\ calls'[Len(calls) + 1].status = "ok"
         /\ \A i \in 1 .. Len(calls) : calls'[i] = calls[i]
<1> DEFINE c == NewCall(Row, plan[pos])
<1>1. calls \in Seq(CallRow) /\ c \in CallRow
  BY DEF TypeOK, NewCall, CallRow, CallStatus, Verdicts, AnswerSelect, Admitted, Row
<1>2. calls' = Append(calls, c) /\ c.tool = plan[pos] /\ c.status = "ok"
  BY DEF AnswerSelect, NewCall
<1> HIDE DEF c
<1> QED
  BY <1>1, <1>2, AppendRow

\* A call whose tool works is judged valid.
LEMMA CallJudged ==
  ASSUME IInv, ToolWorks
  PROVE  /\ pc' = "valid" /\ Len(calls') = Len(calls)
         /\ \A i \in 1 .. Len(calls) : calls'[i].tool = calls[i].tool
                                       /\ calls'[i].status = calls[i].status
<1>1. TypeOK /\ Len(calls) > 0 /\ LastCall.status \in CallStatus /\ Len(calls) \in Nat
  BY CallTyped DEF ToolWorks, IInv, HeldCall, AtCall, LastCall, TypeOK
<1>2. PICK v \in Verdicts : /\ calls' = [calls EXCEPT ![Len(calls)].verdict = v]
                            /\ pc' = IF v = "valid" THEN "valid" ELSE "invalid"
  BY DEF ToolWorks, ToolReturns
<1>3. /\ Len(calls') = Len(calls)
      /\ calls'[Len(calls)] = [sub |-> LastCall.sub, tool |-> LastCall.tool,
                               status |-> LastCall.status, verdict |-> v]
      /\ \A i \in 1 .. Len(calls) : i # Len(calls) => calls'[i] = calls[i]
  BY <1>1, <1>2, SetCall
<1>4. v = "valid"
  BY <1>1, <1>3 DEF ToolWorks
<1> QED
  BY <1>1, <1>2, <1>3, <1>4 DEF LastCall

\* A call whose tool refuses is an error.
LEMMA CallRefused ==
  ASSUME IInv, ToolRefuses
  PROVE  /\ pc' = "record" /\ Len(calls') = Len(calls)
         /\ calls'[Len(calls)].status = "error"
         /\ \A i \in 1 .. Len(calls) : i # Len(calls) => calls'[i] = calls[i]
<1>1. TypeOK /\ Len(calls) > 0 /\ LastCall.verdict \in Verdicts /\ "error" \in CallStatus
  BY CallTyped DEF ToolRefuses, IInv, HeldCall, AtCall, LastCall, TypeOK, CallStatus
<1>2. calls' = [calls EXCEPT ![Len(calls)].status = "error"] /\ pc' = "record"
  BY DEF ToolRefuses, ToolErrors, ToolFails
<1>3. /\ Len(calls') = Len(calls)
      /\ calls'[Len(calls)] = [sub |-> LastCall.sub, tool |-> LastCall.tool,
                               status |-> "error", verdict |-> LastCall.verdict]
      /\ \A i \in 1 .. Len(calls) : i # Len(calls) => calls'[i] = calls[i]
  BY <1>1, <1>2, SetCall
<1> QED
  BY <1>2, <1>3

\* The selector gives a call the arguments that its place in the plan asks for.
LEMMA ClampedArg ==
  ASSUME NEW key, ScriptFits(key), NEW n \in 1 .. Len(FirstPlan(key)), NEW k \in Nat,
         k = 0 <=> \A i \in 1 .. n - 1 : FirstPlan(key)[i] # FirstPlan(key)[n]
  PROVE  Clamped(ToolArgs(key, FirstPlan(key)[n]), k) = ArgAt(key, n)
<1> DEFINE args == ToolArgs(key, FirstPlan(key)[n])
<1>1. Len(args) \in 1 .. 2
  BY DEF ScriptFits, ArgsFit, PlanFits
<1> HIDE DEF args
<1>2. Clamped(args, k) = IF k = 0 THEN args[1] ELSE args[Len(args)]
  BY <1>1 DEF Clamped
<1> QED
  BY <1>2 DEF ArgAt, args

\* In the first plan every call works.
LEMMA PlainWorks ==
  ASSUME IInv, NEW key, ScriptFits(key), PlainRun(key), pc = "invoking",
         Elements(Fixtures) \subseteq files
  PROVE  Works /\ WrittenBy(key, Len(calls)) \subseteq Written
<1> DEFINE n == Len(calls)  tools == FirstPlan(key)
<1>1. n \in 1 .. Len(tools) /\ LastCall.tool = tools[n] /\ arg = ArgAt(key, n)
  BY DEF PlainRun, IInv, HeldCall, AtCall, LastCall, BeforePlan, TypeOK, ScriptFits, PlanFits
<1>2. WrittenBy(key, n - 1) \subseteq files
  BY DEF PlainRun, BeforePlan
<1>3. Works
  <2>1. CASE LastCall.tool = "read_file"
    <3>0. n \in DOMAIN tools
      BY <1>1 DEF ScriptFits, PlanFits
    <3>1. ArgAt(key, n) \in Elements(Fixtures) \cup WrittenBy(key, n - 1)
      BY <1>1, <2>1, <3>0 DEF ScriptFits, ReadsWork
    <3> QED
      BY <1>1, <1>2, <2>1, <3>1 DEF Works
  <2>2. CASE LastCall.tool = "extract_json"
    <3>1. ToolArgs(key, tools[n]) = <<"hint">>
      BY <1>1, <2>2 DEF ScriptFits, ToolArgs
    <3>2. ArgAt(key, n) = "hint"
      BY <3>1 DEF ArgAt
    <3> QED
      BY <1>1, <2>2, <3>2 DEF Works
  <2> QED
    BY <2>1, <2>2 DEF Works
<1>4. WrittenBy(key, n) \subseteq Written
  <2> SUFFICES ASSUME NEW m \in 1 .. n, tools[m] = "write_file"
               PROVE  ArgAt(key, m) \in Written
    BY DEF WrittenBy
  <2>1. CASE m = n
    BY <1>1, <2>1 DEF Written
  <2>2. CASE m # n
    <3>1. m \in 1 .. n - 1
      BY <1>1, <2>2
    <3>2. ArgAt(key, m) \in WrittenBy(key, n - 1)
      BY <3>1 DEF WrittenBy
    <3> QED
      BY <1>2, <3>2 DEF Written
  <2> QED
    BY <2>1, <2>2
<1> QED
  BY <1>3, <1>4

\* What LoopAlone can do on such a goal.
LEMMA PlainLoop ==
  ASSUME Harness, IInv, CostInv, NEW key, ScriptFits(key), PlainRun(key), LoopAlone,
         pc = "start" => goal.status = "pending"
  PROVE  PlainRun(key)'
<1> DEFINE n == Len(calls)  tools == FirstPlan(key)
<1>t. n \in Nat /\ steps = n /\ Len(tools) \in 2 .. 10
      /\ calls \in Seq(CallRow) /\ tools \in Seq(Tools)
  BY DEF IInv, TypeOK, Counters, ScriptFits, PlanFits
<1>u. UNCHANGED <<planIdx, toolIdx, arg, files>>
  BY DEF LoopAlone, script
<1>1. CASE CreateGoal \/ MissingGoal \/ MarkRunning \/ CallPlanner
  BY <1>1, <1>u DEF CreateGoal, MissingGoal, MarkRunning, CallPlanner, db, totals, PlainRun,
                   BeforePlan, NewGoal
<1>2. CASE AcceptOutput
  <2>1. LastCall.tool = tools[n] /\ n \in 1 .. Len(tools) /\ plan = tools /\ pos = n
    BY <1>2, <1>t DEF AcceptOutput, PlainRun, BeforePlan, IInv, HeldCall, AtCall, LastCall
  <2>2. LastCall.tool = "finish" <=> n = Len(tools)
    BY <2>1 DEF ScriptFits, PlanFits
  <2>3. IF n = Len(tools) THEN pc' = "finished" /\ pos' = pos ELSE pc' = "subtask" /\ pos' = pos + 1
    BY <1>2, <2>2 DEF AcceptOutput, Harness, Registered
  <2>4. pc = "valid" /\ UNCHANGED <<calls, plan, replans>>
    BY <1>2 DEF AcceptOutput, totals
  <2>5. /\ planIdx = 1 /\ replans = 0 /\ WrittenBy(key, n) \subseteq files
        /\ \A i \in 1 .. n : calls[i].tool = tools[i] /\ calls[i].status = "ok"
        /\ \A t \in Tools : toolIdx[t] = 0 <=> \A i \in 1 .. n : tools[i] # t
    BY <2>4 DEF PlainRun, BeforePlan
  <2> QED
    BY <1>u, <1>t, <2>1, <2>3, <2>4, <2>5 DEF PlainRun, BeforePlan
<1>3. CASE Succeed
  BY <1>3, <1>u DEF Succeed, PlainRun, BeforePlan, totals, inPlan
<1>4. ~ (WallClockExceeded \/ ReplansExceeded \/ RecordNoTool \/ GiveUp \/ RejectOutput
         \/ RecordReplan)
  <2>1. ~expired /\ replans = 0 /\ MaxReplans = 5
    BY DEF CostInv, PlainRun, Harness, Registered
  <2>2. pc \notin {"noTool", "giveUp", "invalid", "record"}
    BY DEF PlainRun, BeforePlan
  <2> QED
    BY <2>1, <2>2 DEF WallClockExceeded, ReplansExceeded, RecordNoTool, GiveUp, RejectOutput,
                      RecordReplan
<1>5. ~ (StepsExceeded \/ CostExceeded \/ PlanExhausted)
  <2> SUFFICES ASSUME pc = "subtask"
               PROVE  ~ (steps >= MaxSteps \/ cost > MaxCost \/ pos > Len(plan))
    BY DEF StepsExceeded, CostExceeded, PlanExhausted
  <2>1. plan = tools /\ pos = n + 1 /\ n < Len(tools) /\ replans = 0
    BY DEF PlainRun, BeforePlan
  <2>2. cost = 8 + 4 * n
    BY <1>t, <2>1 DEF CostInv, PlansAsked, BetweenPlans, PlanCost, SelectCost
  <2> QED
    BY <1>t, <2>1, <2>2 DEF Harness, Registered
<1> QED
  BY <1>1, <1>2, <1>3, <1>4, <1>5
  DEF LoopAlone, Step, Planning, Selecting, Invoking, PlannerFails,
      EmptyPlan, PlanTooDear, AdoptPlan, SelectorFails, SelectTool, ToolTimesOut,
      ToolErrors, ToolFails, ToolReturns

\* A call is opened with the arguments of its place in the plan.
LEMMA PlainSelect ==
  ASSUME IInv, NEW key, ScriptFits(key), PlainRun(key), Key = key, AnswerSelect,
         toolIdx \in [Tools -> Nat]
  PROVE  PlainRun(key)'
<1> DEFINE n == Len(calls)  tools == FirstPlan(key)
<1>t. n \in Nat /\ tools \in Seq(Tools) /\ Len(tools) \in 2 .. 10
  BY DEF IInv, TypeOK, ScriptFits, PlanFits
<1>1. /\ pc = "subtask" /\ pos = n + 1 /\ n < Len(tools) /\ plan = tools /\ planIdx = 1
      /\ replans = 0
      /\ \A i \in 1 .. n : calls[i].tool = tools[i] /\ calls[i].status = "ok"
      /\ \A t \in Tools : toolIdx[t] = 0 <=> \A i \in 1 .. n : tools[i] # t
      /\ WrittenBy(key, n) \subseteq files
  BY DEF AnswerSelect, Admitted, PlainRun, BeforePlan
<1>2. /\ Len(calls') = n + 1
      /\ calls'[n + 1].tool = tools[n + 1] /\ calls'[n + 1].status = "ok"
      /\ \A i \in 1 .. n : calls'[i] = calls[i]
  BY <1>1, CallOpens DEF IInv
<1>3. /\ pc' = "invoking" /\ pos' = pos /\ plan' = plan /\ planIdx' = planIdx /\ replans' = replans
      /\ files' = files
      /\ toolIdx' = [toolIdx EXCEPT ![tools[n + 1]] = @ + 1]
      /\ tools[n + 1] \in Tools
  BY <1>1 DEF AnswerSelect, SelectTool, inPlan
<1>4. arg' = ArgAt(key, n + 1)
  <2>1. <<key, planIdx>> \notin HintedPlans
    BY DEF HintedPlans, ScriptFits
  <2>2. arg' = Clamped(ToolArgs(key, tools[n + 1]), toolIdx[tools[n + 1]])
    BY <1>1, <2>1 DEF AnswerSelect
  <2>3. n + 1 \in 1 .. Len(tools) /\ toolIdx[tools[n + 1]] \in Nat
    BY <1>t, <1>1, <1>3
  <2>4. toolIdx[tools[n + 1]] = 0 <=> \A i \in 1 .. (n + 1) - 1 : tools[i] # tools[n + 1]
    BY <1>t, <1>1, <1>3
  <2> QED
    BY <2>2, <2>3, <2>4, ClampedArg
<1>5. ASSUME NEW t \in Tools
      PROVE  toolIdx'[t] = 0 <=> \A i \in 1 .. n + 1 : tools[i] # t
  <2>1. CASE t = tools[n + 1]
    <3>1. toolIdx[t] \in Nat /\ toolIdx'[t] = toolIdx[t] + 1
      BY <1>3, <2>1
    <3> QED
      BY <1>t, <2>1, <3>1
  <2>2. CASE t # tools[n + 1]
    <3>1. toolIdx'[t] = toolIdx[t]
      BY <1>3, <2>2
    <3> QED
      BY <1>t, <1>1, <2>2, <3>1
  <2> QED
    BY <2>1, <2>2
<1>6. ASSUME NEW i \in 1 .. n + 1
      PROVE  calls'[i].tool = tools[i] /\ calls'[i].status = "ok"
  <2>1. CASE i = n + 1
    BY <1>2, <2>1
  <2>2. CASE i # n + 1
    <3>1. i \in 1 .. n
      BY <1>t, <2>2
    <3> QED
      BY <1>1, <1>2, <3>1
  <2> QED
    BY <2>1, <2>2
<1>7. WrittenBy(key, (n + 1) - 1) \subseteq files'
  <2>1. (n + 1) - 1 = n
    BY <1>t
  <2> QED
    BY <1>1, <1>3, <2>1
<1> QED
  BY <1>t, <1>1, <1>2, <1>3, <1>4, <1>5, <1>6, <1>7 DEF PlainRun, BeforePlan

\* The plan is there and no call is made yet.
LEMMA PlanGiven ==
  ASSUME NEW key, Len(FirstPlan(key)) \in 2 .. 10,
         plan' = FirstPlan(key), planIdx' = 1, pc' = "subtask", replans' = 0, pos' = 1,
         Len(calls') = 0, \A i \in 1 .. Len(calls') : FALSE,
         \A t \in Tools :
           toolIdx'[t] = 0 <=> \A i \in 1 .. Len(calls') : FirstPlan(key)[i] # t,
         WrittenBy(key, Len(calls')) \subseteq files'
  PROVE  PlainRun(key)'
<1>1. pc' \notin BeforePlan /\ pc' \notin {"invoking", "valid", "finished", "succeeded"}
  BY DEF BeforePlan
<1>2. \A i \in 1 .. Len(calls') : calls'[i].tool = FirstPlan(key)[i] /\ calls'[i].status = "ok"
  OBVIOUS
<1>3. Len(calls') <= Len(FirstPlan(key)) /\ pos' = Len(calls') + 1 /\ Len(calls') < Len(FirstPlan(key))
  <2>1. \A m \in 2 .. 10 : \A l : l = 0 => l <= m /\ 1 = l + 1 /\ l < m
    OBVIOUS
  <2> QED
    BY <2>1
<1> QED
  BY <1>1, <1>2, <1>3 DEF PlainRun

\* A goal whose calls all work stays so, until one is slow.
LEMMA PlainStep ==
  ASSUME Harness, IInv, CostInv, NEW key, ScriptFits(key), PlainRun(key), Key = key, ScriptedStep,
         pc = "start" => goal.status = "pending", toolIdx \in [Tools -> Nat],
         Elements(Fixtures) \subseteq files, slow \in Nat
  PROVE  /\ slow' = slow => PlainRun(key)'
         /\ slow' # slow => replans' = 0 /\ pc' = "record"
<1> DEFINE n == Len(calls)  tools == FirstPlan(key)
<1>t. n \in Nat /\ tools \in Seq(Tools) /\ Len(tools) \in 2 .. 10
  BY DEF IInv, TypeOK, ScriptFits, PlanFits
<1>1. CASE LoopAlone
  BY <1>1, PlainLoop DEF LoopAlone
<1>2. CASE AnswerPlan
  <2>1. pc = "planning" /\ pc' = "subtask" /\ calls = <<>> /\ planIdx = 0 /\ replans = 0
        /\ toolIdx = [tool \in Tools |-> 0]
    BY <1>2 DEF AnswerPlan, AdoptPlan, PlainRun, BeforePlan
  <2>2. plan' = tools /\ planIdx' = 1
    BY <1>2, <2>1 DEF AnswerPlan, Clamped, ScriptFits, PlanFits, FirstPlan
  <2>3. WrittenBy(key, 0) = {}
    BY DEF WrittenBy
  <2>4. UNCHANGED <<calls, replans, toolIdx, files, slow>> /\ pos' = 1
    BY <1>2 DEF AnswerPlan, AdoptPlan
  <2> QED
    <3>1. Len(calls') = 0 /\ \A t \in Tools : toolIdx'[t] = 0
      BY <2>1, <2>4
    <3>2. WrittenBy(key, Len(calls')) \subseteq files'
      BY <2>3, <3>1
    <3>3. pc' = "subtask" /\ replans' = 0 /\ pos' = 1
      BY <2>1, <2>4
    <3>4. \A i \in 1 .. Len(calls') : FALSE
      BY <3>1
    <3>5. \A t \in Tools : toolIdx'[t] = 0 <=> \A i \in 1 .. Len(calls') : tools[i] # t
      BY <3>1, <3>4
    <3>6. PlainRun(key)'
      BY <1>t, <2>2, <3>1, <3>2, <3>3, <3>4, <3>5, PlanGiven
    <3> QED
      BY <2>1, <2>4, <3>6
<1>3. CASE AnswerSelect
  BY <1>3, PlainSelect DEF AnswerSelect, SelectTool
<1>4. CASE RefuseHint
  <2>1. plan = tools /\ pos \in 1 .. Len(tools)
    BY <1>4, <1>t DEF RefuseHint, Admitted, PlainRun, BeforePlan
  <2> QED
    BY <1>4, <1>t, <2>1 DEF RefuseHint
<1>5. CASE ToolWorks
  <2>1. WrittenBy(key, n) \subseteq files'
    BY <1>5, PlainWorks DEF ToolWorks
  <2>2. UNCHANGED <<plan, pos, planIdx, toolIdx, replans, slow>>
    BY <1>5 DEF ToolWorks, ToolReturns, inPlan, totals, script
  <2>3. pc = "invoking"
    BY <1>5 DEF ToolWorks
  <2>4. /\ planIdx = 1 /\ replans = 0 /\ plan = tools /\ pos = n /\ n <= Len(tools)
        /\ \A i \in 1 .. n : calls[i].tool = tools[i] /\ calls[i].status = "ok"
        /\ \A t \in Tools : toolIdx[t] = 0 <=> \A i \in 1 .. n : tools[i] # t
    BY <2>3 DEF PlainRun, BeforePlan
  <2>5. /\ pc' = "valid" /\ Len(calls') = n
        /\ \A i \in 1 .. n : calls'[i].tool = calls[i].tool /\ calls'[i].status = calls[i].status
    BY <1>5, CallJudged
  <2>6. PlainRun(key)'
    BY <1>t, <2>1, <2>2, <2>4, <2>5 DEF PlainRun, BeforePlan
  <2> QED
    BY <2>2, <2>5, <2>6
<1>6. CASE ToolRefuses
  BY <1>6, PlainWorks DEF ToolRefuses
<1>7. CASE ToolIsSlow
  BY <1>7 DEF ToolIsSlow, ToolTimesOut, ToolFails, totals, PlainRun
<1> QED
  BY <1>1, <1>2, <1>3, <1>4, <1>5, <1>6, <1>7 DEF ScriptedStep
-----------------------------------------------------------------------------
(* The steps of the two other goals. *)

\* Between a tool's failure and the head of the loop there is one replan, and
\* no other step takes one back.
LEMMA ReplansGrow ==
  ASSUME IInv, ScriptedStep
  PROVE  replans' >= replans /\ (pc = "record" => replans' = replans + 1)
<1>t. replans \in Nat
  BY DEF IInv, TypeOK
<1>1. CASE LoopAlone
  <2>1. CASE RecordNoTool \/ RecordReplan
    BY <1>t, <2>1 DEF RecordNoTool, RecordReplan, RecordEvent
  <2>2. CASE CreateGoal \/ MissingGoal \/ MarkRunning \/ CallPlanner
    BY <1>t, <2>2 DEF CreateGoal, MissingGoal, MarkRunning, CallPlanner, totals
  <2>3. CASE WallClockExceeded \/ ReplansExceeded \/ StepsExceeded \/ CostExceeded \/ PlanExhausted
             \/ GiveUp
    BY <1>t, <2>3 DEF WallClockExceeded, ReplansExceeded, StepsExceeded, CostExceeded,
                      PlanExhausted, GiveUp, Abort
  <2>4. CASE RejectOutput \/ AcceptOutput \/ Succeed
    BY <1>t, <2>4 DEF RejectOutput, AcceptOutput, Succeed, totals
  <2> QED
    BY <1>1, <2>1, <2>2, <2>3, <2>4
    DEF LoopAlone, Step, Planning, Selecting, Invoking, PlannerFails, EmptyPlan, PlanTooDear,
        AdoptPlan, SelectorFails, SelectTool, ToolTimesOut, ToolErrors, ToolFails, ToolReturns
<1> QED
  BY <1>t, <1>1 DEF ScriptedStep, AnswerPlan, AdoptPlan, AnswerSelect, SelectTool, Admitted,
     RefuseHint, SelectorFails, ToolWorks, ToolReturns, ToolRefuses, ToolIsSlow, ToolErrors,
     ToolTimesOut, ToolFails, totals

\* send_email gets no call, whatever happens: the goal only replans.
LEMMA UnregisteredStep ==
  ASSUME Harness, IInv, CostInv, UnregisteredRun, Key = "send_email", ScriptedStep,
         pc = "start" => goal.status = "pending", planIdx \in Nat
  PROVE  UnregisteredRun' /\ slow' = slow
<1>t. /\ steps = 0 /\ "send_email" \notin Tools /\ MaxSteps = 20 /\ MaxReplans = 5 /\ MaxCost = 5000
      /\ replans \in 0 .. 6 /\ ~expired /\ cost \in 0 .. 56
  <2>1. steps = 0 /\ "send_email" \notin Tools /\ MaxSteps = 20 /\ MaxReplans = 5 /\ MaxCost = 5000
        /\ replans \in 0 .. 6
    <3>1. calls = <<>> /\ steps = Len(calls) /\ replans \in Nat /\ replans <= MaxReplans + 1
      BY DEF IInv, TypeOK, Counters, UnregisteredRun
    <3>2. MaxSteps = 20 /\ MaxReplans = 5 /\ MaxCost = 5000
      BY DEF Harness, Registered
    <3>3. "send_email" \notin Tools
      BY DEF Harness, Registered
    <3> QED
      BY <3>1, <3>2, <3>3
  <2>2. PlansAsked \in 0 .. 7
    BY <2>1 DEF PlansAsked
  <2> QED
    BY <2>1, <2>2 DEF CostInv, PlanCost, SelectCost
<1>1. CASE LoopAlone
  <2>0. slow' = slow
    BY <1>1 DEF LoopAlone
  <2>1. CASE CreateGoal \/ MissingGoal \/ MarkRunning \/ CallPlanner
    BY <2>0, <2>1 DEF CreateGoal, MissingGoal, MarkRunning, CallPlanner, db, UnregisteredRun,
                      BeforePlan, NewGoal
  <2>2. CASE ReplansExceeded \/ GiveUp
    <3>1. goal'.reason = "max_replans_exceeded" /\ pc' = "aborted" /\ calls' = calls
      BY <2>2 DEF ReplansExceeded, GiveUp, Abort, IInv, TypeOK, GoalRow
    <3> QED
      BY <2>0, <3>1 DEF UnregisteredRun
  <2>3. CASE RecordNoTool
    BY <2>0, <2>3 DEF RecordNoTool, UnregisteredRun, BeforePlan
  <2>4. ~ (WallClockExceeded \/ StepsExceeded \/ CostExceeded \/ PlanExhausted)
    <3>1. pc = "subtask" => plan = <<"send_email">> /\ pos = 1
      BY DEF UnregisteredRun
    <3>2. ~ (WallClockExceeded \/ StepsExceeded \/ CostExceeded)
      BY <1>t DEF WallClockExceeded, StepsExceeded, CostExceeded
    <3> QED
      BY <3>1, <3>2 DEF PlanExhausted
  <2>5. ~ (RejectOutput \/ AcceptOutput \/ RecordReplan \/ Succeed)
    BY DEF RejectOutput, AcceptOutput, RecordReplan, Succeed, UnregisteredRun, BeforePlan
  <2> QED
    BY <1>1, <2>1, <2>2, <2>3, <2>4, <2>5
    DEF LoopAlone, Step, Planning, Selecting, Invoking, PlannerFails, EmptyPlan, PlanTooDear,
        AdoptPlan, SelectorFails, SelectTool, ToolTimesOut, ToolErrors, ToolFails, ToolReturns
<1>2. CASE AnswerPlan
  <2>1. PlanScript["send_email"] = << <<"send_email">> >>
    BY DEF PlanScript
  <2>2. plan' = <<"send_email">>
    BY <1>2, <2>1 DEF AnswerPlan, Clamped
  <2> QED
    BY <1>2, <2>2 DEF AnswerPlan, AdoptPlan, UnregisteredRun
<1>3. CASE RefuseHint
  BY <1>3 DEF RefuseHint, SelectorFails, Admitted, UnregisteredRun, inPlan
<1>4. ~AnswerSelect
  <2>1. AnswerSelect => plan = <<"send_email">> /\ pos = 1
    BY DEF AnswerSelect, Admitted, UnregisteredRun
  <2> QED
    BY <1>t, <2>1 DEF AnswerSelect
<1> QED
  BY <1>1, <1>2, <1>3, <1>4 DEF ScriptedStep, ToolWorks, ToolRefuses, ToolIsSlow, UnregisteredRun,
                                BeforePlan

\* The two plans of extract_strict are the same,
LEMMA StrictPlans ==
  LET plans == PlanScript["extract_strict"]
  IN  /\ Len(plans) = 2
      /\ plans[1] = <<"extract_json", "finish">> /\ plans[2] = <<"extract_json", "finish">>
<1> DEFINE plans == PlanScript["extract_strict"]
<1>1. Len(plans) = 2
  BY DEF PlanScript, Ask
<1>2. plans[1] = <<"extract_json", "finish">>
  BY DEF PlanScript, Ask
<1>3. plans[2] = <<"extract_json", "finish">>
  BY DEF PlanScript, Ask
<1> QED
  BY <1>1, <1>2, <1>3

\* its tool gets another argument the second time,
LEMMA StrictArgs == ToolArgs("extract_strict", "extract_json") = <<"noHint", "hint">>
  BY DEF ToolArgs

\* and the second plan carries the hint.
LEMMA StrictHints ==
  <<"extract_strict", 1>> \notin HintedPlans /\ <<"extract_strict", 2>> \in HintedPlans
<1>4. <<"extract_strict", 1>> \notin HintedPlans
  BY DEF HintedPlans
<1>5. <<"extract_strict", 2>> \in HintedPlans
  BY DEF HintedPlans
<1> QED
  BY <1>4, <1>5

\* The two parts of StrictRun: before the replan, and after it.
Unhinted ==
  LET n == Len(calls)
  IN  /\ replans = 0
      /\ pc \in BeforePlan => calls = <<>> /\ planIdx = 0 /\ toolIdx["extract_json"] = 0
      /\ pc \notin BeforePlan =>
           /\ pc \in {"subtask", "invoking", "record"}
           /\ plan = <<"extract_json", "finish">> /\ planIdx = 1 /\ pos = 1
           /\ pc = "subtask" => calls = <<>> /\ toolIdx["extract_json"] = 0
           /\ pc = "invoking" => n = 1 /\ calls[1].tool = "extract_json" /\ arg = "noHint"
           /\ pc = "record" => n = 1 /\ calls[1].status = "error"

Hinted ==
  LET n == Len(calls)
  IN  /\ replans = 1 /\ n \in 1 .. 3 /\ calls[1].status = "error"
      /\ pc \in {"top", "planning"} => n = 1 /\ planIdx = 1
      /\ pc \notin {"top", "planning"} =>
           /\ pc \in {"subtask", "invoking", "valid", "finished", "succeeded"}
           /\ plan = <<"extract_json", "finish">> /\ planIdx = 2
           /\ \A i \in 2 .. n : calls[i].tool = plan[i - 1] /\ calls[i].status = "ok"
           /\ pc = "subtask" => pos = n /\ n < 3
           /\ pc \in {"invoking", "valid", "finished"} => pos = n - 1 /\ n > 1
           /\ pc \in {"finished", "succeeded"} => n = 3
           /\ pc = "invoking" /\ n = 2 => arg = "hint"

\* Together they are StrictRun.
LEMMA StrictHalves == StrictRun <=> Unhinted \/ Hinted
  BY DEF StrictRun, Unhinted, Hinted

\* Without the hint the call is refused, and that is replanned.
LEMMA UnhintedStep ==
  ASSUME Harness, IInv, CostInv, Unhinted, Key = "extract_strict", ScriptedStep,
         pc = "start" => goal.status = "pending", toolIdx \in [Tools -> Nat]
  PROVE  (Unhinted \/ Hinted)' /\ slow' = slow
<1>t. /\ steps = Len(calls) /\ steps \in Nat /\ MaxSteps = 20 /\ MaxReplans = 5 /\ MaxCost = 5000
      /\ ~expired /\ replans = 0 /\ "extract_json" \in Tools
  BY DEF IInv, TypeOK, Counters, Harness, Registered, CostInv, Unhinted
<1>1. CASE LoopAlone
  <2>0. UNCHANGED <<slow, planIdx, toolIdx, arg>>
    BY <1>1 DEF LoopAlone, script
  <2>1. CASE CreateGoal \/ MissingGoal \/ MarkRunning \/ CallPlanner
    <3>1. pc \in BeforePlan /\ pc' \in BeforePlan /\ UNCHANGED <<calls, replans>>
      BY <2>1 DEF CreateGoal, MissingGoal, MarkRunning, CallPlanner, db, totals, BeforePlan, NewGoal
    <3> QED
      BY <2>0, <3>1 DEF Unhinted
  <2>2. CASE RecordReplan
    <3>1. pc = "record" /\ pc' = "top" /\ UNCHANGED calls /\ replans' = 1
      BY <1>t, <2>2 DEF RecordReplan, RecordEvent
    <3>2. Len(calls) = 1 /\ calls[1].status = "error" /\ planIdx = 1
      BY <3>1 DEF Unhinted, BeforePlan
    <3> QED
      BY <2>0, <3>1, <3>2 DEF Hinted
  <2>3. ~ (WallClockExceeded \/ ReplansExceeded \/ RecordNoTool \/ GiveUp \/ RejectOutput
           \/ AcceptOutput \/ Succeed)
    <3>1. pc \notin {"noTool", "giveUp", "invalid", "valid", "finished"}
      BY DEF Unhinted, BeforePlan
    <3> QED
      BY <1>t, <3>1 DEF WallClockExceeded, ReplansExceeded, RecordNoTool, GiveUp, RejectOutput,
                        AcceptOutput, Succeed
  <2>4. ~ (StepsExceeded \/ CostExceeded \/ PlanExhausted)
    <3> SUFFICES ASSUME pc = "subtask"
                 PROVE  ~ (steps >= MaxSteps \/ cost > MaxCost \/ pos > Len(plan))
      BY DEF StepsExceeded, CostExceeded, PlanExhausted
    <3>1. plan = <<"extract_json", "finish">> /\ pos = 1 /\ steps = 0
      BY <1>t DEF Unhinted, BeforePlan
    <3>2. cost = 8
      BY <1>t, <3>1 DEF CostInv, PlansAsked, BetweenPlans, PlanCost, SelectCost
    <3> QED
      BY <1>t, <3>1, <3>2
  <2> QED
    BY <1>1, <2>1, <2>2, <2>3, <2>4
    DEF LoopAlone, Step, Planning, Selecting, Invoking, PlannerFails, EmptyPlan, PlanTooDear,
        AdoptPlan, SelectorFails, SelectTool, ToolTimesOut, ToolErrors, ToolFails, ToolReturns
<1>2. CASE AnswerPlan
  <2>1. pc = "planning" /\ planIdx = 0 /\ calls = <<>> /\ toolIdx["extract_json"] = 0
    BY <1>2 DEF AnswerPlan, AdoptPlan, Unhinted, BeforePlan
  <2>2. plan' = <<"extract_json", "finish">> /\ planIdx' = 1
    <3>1. plan' = Clamped(PlanScript["extract_strict"], 0)
      BY <1>2, <2>1 DEF AnswerPlan
    <3>2. Clamped(PlanScript["extract_strict"], 0) = PlanScript["extract_strict"][1]
      BY StrictPlans DEF Clamped
    <3>3. planIdx' = 1
      BY <1>2, <2>1, StrictPlans DEF AnswerPlan
    <3> QED
      BY <3>1, <3>2, <3>3, StrictPlans
  <2>3. pc' = "subtask" /\ pos' = 1 /\ UNCHANGED <<calls, replans, toolIdx, slow>>
    BY <1>2 DEF AnswerPlan, AdoptPlan
  <2> QED
    BY <1>t, <2>1, <2>2, <2>3 DEF Unhinted, BeforePlan
<1>3. CASE AnswerSelect
  <2>1. /\ pc = "subtask" /\ plan = <<"extract_json", "finish">> /\ pos = 1 /\ planIdx = 1
        /\ calls = <<>>
        /\ toolIdx["extract_json"] = 0
    BY <1>3 DEF AnswerSelect, Admitted, Unhinted, BeforePlan
  <2>2. plan[pos] = "extract_json"
    BY <2>1
  <2>3. arg' = "noHint"
    <3>1. arg' = Clamped(ToolArgs("extract_strict", "extract_json"), 0)
      BY <1>3, <2>1, <2>2, StrictHints DEF AnswerSelect
    <3>2. Len(ToolArgs("extract_strict", "extract_json")) = 2
          /\ ToolArgs("extract_strict", "extract_json")[1] = "noHint"
      BY StrictArgs
    <3> QED
      BY <3>1, <3>2 DEF Clamped
  <2>4. pc' = "invoking" /\ UNCHANGED <<plan, pos, planIdx, replans, slow>>
    BY <1>3 DEF AnswerSelect, SelectTool, inPlan
  <2>5. Len(calls') = 1 /\ calls'[1].tool = "extract_json"
    BY <1>3, <2>1, <2>2, CallOpens DEF IInv
  <2> QED
    BY <1>t, <2>1, <2>3, <2>4, <2>5 DEF Unhinted, BeforePlan
<1>4. CASE pc = "invoking"
  <2>1. Len(calls) = 1 /\ calls[1].tool = "extract_json" /\ arg = "noHint" /\ planIdx = 1 /\ pos = 1
        /\ plan = <<"extract_json", "finish">>
    BY <1>4 DEF Unhinted, BeforePlan
  <2>2. ~Works
    BY <2>1 DEF Works, LastCall
  <2>3. ToolRefuses
    BY <1>4, <2>2 DEF ScriptedStep, LoopAlone, AnswerPlan, AdoptPlan, AnswerSelect, RefuseHint,
                      Admitted, ToolWorks, ToolIsSlow
  <2>4. UNCHANGED <<plan, pos, planIdx, replans, slow>>
    BY <2>3 DEF ToolRefuses, ToolErrors, ToolFails, inPlan, totals, script
  <2> QED
    BY <1>t, <2>1, <2>3, <2>4, CallRefused DEF Unhinted, BeforePlan
<1>5. ~RefuseHint
  <2>1. RefuseHint => plan = <<"extract_json", "finish">> /\ pos = 1
    BY DEF RefuseHint, Admitted, Unhinted, BeforePlan
  <2> QED
    BY <1>t, <2>1 DEF RefuseHint
<1> QED
  BY <1>1, <1>2, <1>3, <1>4, <1>5 DEF ScriptedStep, ToolWorks, ToolRefuses, ToolIsSlow

\* With it the plan is followed to its end, until a call is slow.
LEMMA HintedStep ==
  ASSUME Harness, IInv, CostInv, Hinted, Key = "extract_strict", ScriptedStep, slow \in Nat
  PROVE  /\ slow' = slow => Hinted'
         /\ slow' # slow => replans' = 1 /\ pc' = "record"
<1> DEFINE n == Len(calls)  tools == <<"extract_json", "finish">>
<1>t. /\ steps = n /\ n \in 1 .. 3 /\ MaxSteps = 20 /\ MaxReplans = 5 /\ MaxCost = 5000
      /\ ~expired /\ replans = 1 /\ calls[1].status = "error" /\ Finish = "finish"
      /\ "extract_json" \in Tools /\ "finish" \in Tools
  BY DEF IInv, TypeOK, Counters, Harness, Registered, CostInv, Hinted
<1>h. pc \notin {"top", "planning"} =>
        /\ pc \in {"subtask", "invoking", "valid", "finished", "succeeded"}
        /\ plan = tools /\ planIdx = 2
        /\ \A i \in 2 .. n : calls[i].tool = tools[i - 1] /\ calls[i].status = "ok"
        /\ pc = "subtask" => pos = n /\ n < 3
        /\ pc \in {"invoking", "valid", "finished"} => pos = n - 1 /\ n > 1
        /\ pc \in {"finished", "succeeded"} => n = 3
        /\ pc = "invoking" /\ n = 2 => arg = "hint"
  BY DEF Hinted
<1>1. CASE LoopAlone
  <2>0. UNCHANGED <<slow, planIdx, toolIdx, arg>>
    BY <1>1 DEF LoopAlone, script
  <2>1. CASE CallPlanner
    BY <2>0, <2>1 DEF CallPlanner, db, totals, Hinted
  <2>2. CASE AcceptOutput
    <3>1. pc = "valid" /\ UNCHANGED <<calls, plan, replans>>
      BY <2>2 DEF AcceptOutput, totals
    <3>2. n \in 2 .. 3 /\ LastCall.tool = tools[n - 1] /\ pos = n - 1
      BY <1>t, <1>h, <3>1 DEF LastCall
    <3>3. IF n = 3 THEN pc' = "finished" /\ pos' = pos ELSE pc' = "subtask" /\ pos' = pos + 1
      <4>0. tools[1] = "extract_json" /\ tools[2] = "finish"
        OBVIOUS
      <4> HIDE DEF tools
      <4>1. LastCall.tool = Finish <=> n = 3
        <5>1. CASE n = 2
          BY <1>t, <3>2, <4>0, <5>1
        <5>2. CASE n = 3
          BY <1>t, <3>2, <4>0, <5>2
        <5> QED
          BY <3>2, <5>1, <5>2
      <4> QED
        BY <2>2, <4>1 DEF AcceptOutput
    <3>4. pos' = (IF n = 3 THEN n - 1 ELSE n)
      BY <3>2, <3>3
    <3> QED
      BY <1>t, <1>h, <2>0, <3>1, <3>2, <3>3, <3>4 DEF Hinted
  <2>3. CASE Succeed
    BY <2>0, <2>3 DEF Succeed, totals, inPlan, Hinted
  <2>4. ~ (CreateGoal \/ MissingGoal \/ MarkRunning \/ WallClockExceeded \/ ReplansExceeded
           \/ RecordNoTool \/ GiveUp \/ RejectOutput \/ RecordReplan)
    BY <1>t DEF CreateGoal, MissingGoal, MarkRunning, WallClockExceeded, ReplansExceeded,
                  RecordNoTool, GiveUp, RejectOutput, RecordReplan, Hinted
  <2>5. ~ (StepsExceeded \/ CostExceeded \/ PlanExhausted)
    <3> SUFFICES ASSUME pc = "subtask"
                 PROVE  ~ (steps >= MaxSteps \/ cost > MaxCost \/ pos > Len(plan))
      BY DEF StepsExceeded, CostExceeded, PlanExhausted
    <3>1. cost = 16 + 4 * n
      BY <1>t DEF CostInv, PlansAsked, BetweenPlans, PlanCost, SelectCost
    <3>2. Len(plan) = 2 /\ pos = n /\ n < 3
      BY <1>h
    <3> QED
      BY <1>t, <3>1, <3>2
  <2> QED
    BY <1>1, <2>1, <2>2, <2>3, <2>4, <2>5
    DEF LoopAlone, Step, Planning, Selecting, Invoking, PlannerFails, EmptyPlan, PlanTooDear,
        AdoptPlan, SelectorFails, SelectTool, ToolTimesOut, ToolErrors, ToolFails, ToolReturns
<1>2. CASE AnswerPlan
  <2>1. pc = "planning" /\ planIdx = 1 /\ n = 1
    BY <1>2 DEF AnswerPlan, AdoptPlan, Hinted
  <2>2. plan' = tools /\ planIdx' = 2
    <3>1. plan' = Clamped(PlanScript["extract_strict"], 1)
      BY <1>2, <2>1 DEF AnswerPlan
    <3>2. Clamped(PlanScript["extract_strict"], 1) = PlanScript["extract_strict"][2]
      BY StrictPlans DEF Clamped
    <3>3. planIdx' = 2
      BY <1>2, <2>1, StrictPlans DEF AnswerPlan
    <3> QED
      BY <3>1, <3>2, <3>3, StrictPlans
  <2>3. pc' = "subtask" /\ pos' = 1 /\ UNCHANGED <<calls, replans, slow>>
    BY <1>2 DEF AnswerPlan, AdoptPlan
  <2>4. Len(calls') = 1 /\ calls'[1].status = "error" /\ replans' = 1
    BY <1>t, <2>1, <2>3
  <2>5. \A i \in 2 .. Len(calls') : FALSE
    BY <2>4
  <2>6. Hinted'
    BY <2>2, <2>3, <2>4, <2>5 DEF Hinted
  <2> QED
    BY <2>3, <2>6
<1>3. CASE AnswerSelect
  <2>1. pc = "subtask" /\ plan = tools /\ pos = n /\ n < 3 /\ planIdx = 2
    BY <1>3, <1>h DEF AnswerSelect, Admitted
  <2>2. n = 1 => arg' = "hint"
    <3> SUFFICES ASSUME n = 1 PROVE arg' = "hint"
      OBVIOUS
    <3>1. plan[pos] = "extract_json"
      BY <2>1
    <3> QED
      BY <1>3, <2>1, <3>1, StrictHints DEF AnswerSelect
  <2>3. pc' = "invoking" /\ UNCHANGED <<plan, pos, planIdx, replans, slow>>
    BY <1>3 DEF AnswerSelect, SelectTool, inPlan
  <2>4. /\ Len(calls') = n + 1 /\ calls'[n + 1].tool = tools[n] /\ calls'[n + 1].status = "ok"
        /\ \A i \in 1 .. n : calls'[i] = calls[i]
    BY <1>3, <2>1, CallOpens DEF IInv
  <2>5. \A i \in 2 .. n + 1 : calls'[i].tool = tools[i - 1] /\ calls'[i].status = "ok"
    BY <1>t, <1>h, <2>1, <2>4
  <2> QED
    BY <1>t, <2>1, <2>2, <2>3, <2>4, <2>5 DEF Hinted
<1>4. CASE pc = "invoking"
  <2>1. n \in 2 .. 3 /\ LastCall.tool = tools[n - 1] /\ (n = 2 => arg = "hint")
    BY <1>t, <1>h, <1>4 DEF LastCall
  <2>2. Works
    <3>1. CASE n = 2
      BY <2>1, <3>1 DEF Works
    <3>2. CASE n = 3
      BY <2>1, <3>2 DEF Works
    <3> QED
      BY <2>1, <3>1, <3>2
  <2>3. CASE ToolWorks
    <3>1. UNCHANGED <<plan, pos, planIdx, replans, slow>>
      BY <2>3 DEF ToolWorks, ToolReturns, inPlan, totals, script
    <3>2. /\ pc' = "valid" /\ Len(calls') = n
          /\ \A i \in 1 .. n : calls'[i].tool = calls[i].tool /\ calls'[i].status = calls[i].status
      BY <2>3, CallJudged
    <3> QED
      BY <1>t, <1>h, <1>4, <3>1, <3>2 DEF Hinted
  <2>4. CASE ToolIsSlow
    BY <1>t, <2>4 DEF ToolIsSlow, ToolTimesOut, ToolFails, totals
  <2> QED
    BY <1>4, <2>2, <2>3, <2>4 DEF ScriptedStep, LoopAlone, AnswerPlan, AdoptPlan, AnswerSelect,
                      RefuseHint, Admitted, ToolRefuses
<1>5. ~RefuseHint
  <2>1. RefuseHint => plan = tools /\ pos \in 1 .. 2
    BY <1>t, <1>h DEF RefuseHint, Admitted
  <2> QED
    BY <1>t, <2>1 DEF RefuseHint
<1> QED
  BY <1>1, <1>2, <1>3, <1>4, <1>5 DEF ScriptedStep, ToolWorks, ToolRefuses, ToolIsSlow
-----------------------------------------------------------------------------
(* The row of a goal that has ended. *)

\* When the calls after the first m are those with status ok, they are the
\* tools of the row, in order.
LEMMA ToolsOfRow ==
  ASSUME calls \in Seq(CallRow), NEW m \in 0 .. Len(calls), OkCalls = m + 1 .. Len(calls)
  PROVE  ResultRow.tools = [n \in 1 .. Len(calls) - m |-> calls[m + n].tool]
<1>1. Cardinality(OkCalls) = Len(calls) - m
  <2>1. m + 1 \in Int /\ Len(calls) \in Int
    OBVIOUS
  <2>2. Cardinality(m + 1 .. Len(calls))
          = IF m + 1 > Len(calls) THEN 0 ELSE Len(calls) - (m + 1) + 1
    BY <2>1, FS_Interval
  <2> QED
    BY <2>2
<1>2. ASSUME NEW n \in 1 .. Len(calls) - m
      PROVE  OkCall(n) = calls[m + n]
  <2>1. ASSUME NEW i \in OkCalls
        PROVE  Cardinality({j \in OkCalls : j <= i}) = i - m
    <3> DEFINE S == {j \in OkCalls : j <= i}
    <3>1. i \in Int /\ m + 1 \in Int /\ m + 1 <= i /\ S = m + 1 .. i
      OBVIOUS
    <3> HIDE DEF S
    <3>2. Cardinality(S) = IF m + 1 > i THEN 0 ELSE i - (m + 1) + 1
      BY <3>1, FS_Interval
    <3>3. Cardinality(S) = i - m
      BY <3>1, <3>2
    <3> QED
      BY <3>3 DEF S
  <2>2. m + n \in OkCalls /\ \A i \in OkCalls : i - m = n <=> i = m + n
    OBVIOUS
  <2>3. (CHOOSE i \in OkCalls : Cardinality({j \in OkCalls : j <= i}) = n) = m + n
    BY <2>1, <2>2
  <2> QED
    BY <2>3 DEF OkCall
<1> QED
  BY <1>1, <1>2 DEF ResultRow

\* What the totals of an ended goal are.
LEMMA EndedRow ==
  ASSUME IInv, CostInv, pc \in {"succeeded", "aborted"}
  PROVE  /\ ResultRow.status = pc
         /\ pc = "succeeded" => ResultRow.reason = "none"
         /\ ResultRow.reason = goal.reason
         /\ ResultRow.steps = Len(calls) /\ ResultRow.replans = replans
         /\ ResultRow.cost = 8 * PlansAsked + 4 * Len(calls)
  BY DEF ResultRow, IInv, Control, Counters, CostInv, PlanCost, SelectCost

\* The row of a goal whose first plan went through.
LEMMA PlainRow ==
  ASSUME IInv, CostInv, NEW key, ScriptFits(key), PlainRun(key), pc \in {"succeeded", "aborted"}
  PROVE  LET tools == FirstPlan(key)
         IN  ResultRow = RecordedRow(Len(tools), 8 + 4 * Len(tools), tools)
<1> DEFINE tools == FirstPlan(key)  n == Len(calls)
<1>1. /\ pc = "succeeded" /\ replans = 0 /\ n = Len(tools)
      /\ \A i \in 1 .. n : calls[i].tool = tools[i] /\ calls[i].status = "ok"
  BY DEF PlainRun, BeforePlan
<1>2. calls \in Seq(CallRow) /\ tools \in Seq(Tools) /\ n \in Nat
  BY DEF IInv, TypeOK, ScriptFits, PlanFits
<1>3. OkCalls = 0 + 1 .. n
  BY <1>1, <1>2 DEF OkCalls
<1>4. ResultRow.tools = [i \in 1 .. n - 0 |-> calls[0 + i].tool]
  BY <1>2, <1>3, ToolsOfRow
<1>5. ResultRow.tools = tools
  <2>1. tools = [i \in 1 .. n |-> tools[i]]
    BY <1>1, <1>2
  <2>2. 1 .. n - 0 = 1 .. n /\ \A i \in 1 .. n : calls[0 + i].tool = tools[i]
    BY <1>1, <1>2
  <2> QED
    BY <1>4, <2>1, <2>2
<1>6. PlansAsked = 1
  BY <1>1 DEF PlansAsked, BetweenPlans
<1>7. /\ ResultRow.status = "succeeded" /\ ResultRow.reason = "none" /\ ResultRow.steps = n
      /\ ResultRow.replans = 0 /\ ResultRow.cost = 8 + 4 * n
  BY <1>1, <1>2, <1>6, EndedRow
<1> QED
  BY <1>1, <1>5, <1>7 DEF ResultRow, RecordedRow

\* The row of the goal that aborts is the recorded one.
LEMMA UnregisteredRow ==
  ASSUME Harness, IInv, CostInv, UnregisteredRun, pc \in {"succeeded", "aborted"}
  PROVE  ResultRow = Recorded[13]
<1>1. pc = "aborted" /\ calls = <<>> /\ goal.reason = "max_replans_exceeded"
  BY DEF UnregisteredRun, BeforePlan
<1>2. replans = 6
  <2>1. goal.status = "aborted" /\ replans = Len(events) /\ MaxReplans = 5
    BY <1>1 DEF IInv, Control, Counters, Harness, Registered
  <2> QED
    BY <1>1, <2>1 DEF IInv, HonestAbort
<1>3. calls \in Seq(CallRow) /\ Len(calls) = 0
  BY <1>1 DEF IInv, TypeOK
<1>4. OkCalls = 0 + 1 .. Len(calls)
  BY <1>1, <1>3 DEF OkCalls
<1>5. ResultRow.tools = <<>>
  <2>1. ResultRow.tools = [n \in 1 .. Len(calls) - 0 |-> calls[0 + n].tool]
    BY <1>3, <1>4, ToolsOfRow
  <2> QED
    BY <1>3, <2>1
<1>6. PlansAsked = 6
  BY <1>1, <1>2 DEF PlansAsked, BetweenPlans
<1>7. /\ ResultRow.status = "aborted" /\ ResultRow.reason = "max_replans_exceeded"
      /\ ResultRow.steps = 0 /\ ResultRow.replans = 6 /\ ResultRow.cost = 48
  BY <1>1, <1>2, <1>3, <1>6, EndedRow
<1>8. Recorded[13] = [status |-> "aborted", reason |-> "max_replans_exceeded", steps |-> 0,
                      replans |-> 6, cost |-> 48, tools |-> <<>>]
  <2>1. Recorded[13] = [RecordedRow(0, 48, <<>>) EXCEPT
                          !.status = "aborted", !.reason = "max_replans_exceeded", !.replans = 6]
    BY SuiteLength DEF Recorded
  <2> QED
    BY <2>1 DEF RecordedRow
<1> QED
  BY <1>5, <1>7, <1>8 DEF ResultRow

\* So is that of the goal that replans.
LEMMA StrictRow ==
  ASSUME IInv, CostInv, StrictRun, pc \in {"succeeded", "aborted"}
  PROVE  ResultRow = Recorded[15]
<1>1. /\ pc = "succeeded" /\ replans = 1 /\ Len(calls) = 3 /\ calls[1].status = "error"
      /\ plan = <<"extract_json", "finish">>
      /\ \A i \in 2 .. 3 : calls[i].tool = plan[i - 1] /\ calls[i].status = "ok"
  BY DEF StrictRun, BeforePlan
<1>2. calls \in Seq(CallRow)
  BY DEF IInv, TypeOK
<1>3. OkCalls = 1 + 1 .. Len(calls)
  BY <1>1, <1>2 DEF OkCalls
<1>4. ResultRow.tools = [n \in 1 .. Len(calls) - 1 |-> calls[1 + n].tool]
  BY <1>1, <1>2, <1>3, ToolsOfRow
<1>5. ResultRow.tools = <<"extract_json", "finish">>
  <2>1. calls[2].tool = "extract_json" /\ calls[3].tool = "finish"
    BY <1>1
  <2> QED
    BY <1>1, <1>4, <2>1
<1>6. PlansAsked = 2
  BY <1>1 DEF PlansAsked, BetweenPlans
<1>7. /\ ResultRow.status = "succeeded" /\ ResultRow.reason = "none" /\ ResultRow.steps = 3
      /\ ResultRow.replans = 1 /\ ResultRow.cost = 28
  BY <1>1, <1>6, EndedRow
<1>8. Recorded[15] = [status |-> "succeeded", reason |-> "none", steps |-> 3,
                      replans |-> 1, cost |-> 28, tools |-> <<"extract_json", "finish">>]
  BY SuiteLength DEF Recorded, RecordedRow
<1> QED
  BY <1>5, <1>7, <1>8 DEF ResultRow

\* The n-th call with status ok is one.
LEMMA OkCallIsOne ==
  ASSUME calls \in Seq(CallRow), NEW n \in 1 .. Cardinality(OkCalls)
  PROVE  OkCall(n) \in CallRow
<1> DEFINE T == 1 .. Cardinality(OkCalls)
           UpTo(i) == {j \in OkCalls : j <= i}
           rank == [i \in OkCalls |-> Cardinality(UpTo(i))]
<1>1. OkCalls \subseteq 1 .. Len(calls) /\ IsFiniteSet(OkCalls) /\ Cardinality(OkCalls) \in Nat
  <2>1. OkCalls \in SUBSET (1 .. Len(calls)) /\ Len(calls) \in Int
    BY DEF OkCalls
  <2>2. IsFiniteSet(1 .. Len(calls))
    BY <2>1, FS_Interval
  <2>3. IsFiniteSet(OkCalls)
    BY <2>1, <2>2, FS_Subset
  <2> QED
    BY <2>1, <2>3, FS_CardinalityType
<1>2. ASSUME NEW i \in OkCalls
      PROVE  /\ IsFiniteSet(UpTo(i)) /\ Cardinality(UpTo(i)) \in 1 .. Cardinality(OkCalls)
  <2>1. UpTo(i) \in SUBSET OkCalls /\ i \in UpTo(i)
    BY <1>1
  <2> HIDE DEF UpTo
  <2>2. IsFiniteSet(UpTo(i)) /\ Cardinality(UpTo(i)) <= Cardinality(OkCalls)
    BY <1>1, <2>1, FS_Subset
  <2>3. Cardinality(UpTo(i)) \in Nat /\ Cardinality(UpTo(i)) # 0
    BY <2>1, <2>2, FS_CardinalityType, FS_EmptySet
  <2> QED
    BY <1>1, <2>2, <2>3
<1>3. ASSUME NEW i \in OkCalls, NEW j \in OkCalls, i < j
      PROVE  Cardinality(UpTo(i)) # Cardinality(UpTo(j))
  <2>0. \A k \in OkCalls : k \in Int
    BY <1>1
  <2>1. UpTo(i) \in SUBSET UpTo(j) /\ j \in UpTo(j) /\ j \notin UpTo(i)
    <3>1. \A k \in OkCalls : k <= i => k <= j
      BY <2>0, <1>3
    <3>2. ~(j <= i) /\ j <= j
      BY <2>0, <1>3
    <3> QED
      BY <3>1, <3>2
  <2>2. IsFiniteSet(UpTo(j))
    BY <1>2
  <2> HIDE DEF UpTo
  <2> QED
    BY <2>1, <2>2, FS_Subset
<1>4. rank \in Injection(OkCalls, T)
  <2>1. rank \in [OkCalls -> T]
    BY <1>2
  <2>2. ASSUME NEW i \in OkCalls, NEW j \in OkCalls, rank[i] = rank[j]
        PROVE  i = j
    <3>1. Cardinality(UpTo(i)) = Cardinality(UpTo(j)) /\ i \in Int /\ j \in Int
      BY <1>1, <2>2
    <3> HIDE DEF UpTo, rank
    <3> QED
      BY <1>3, <3>1
  <2> HIDE DEF rank, T
  <2> QED
    BY <2>1, <2>2 DEF Injection, IsInjective
<1>5. rank \in Surjection(OkCalls, T)
  <2>1. IsFiniteSet(T) /\ Cardinality(T) = Cardinality(OkCalls)
    <3>1. 1 \in Int /\ Cardinality(OkCalls) \in Int
      BY <1>1
    <3>2. /\ IsFiniteSet(T)
          /\ Cardinality(T) = IF 1 > Cardinality(OkCalls) THEN 0 ELSE Cardinality(OkCalls) - 1 + 1
      BY <3>1, FS_Interval
    <3> QED
      BY <1>1, <3>2
  <2> HIDE DEF rank, T
  <2> QED
    BY <1>4, <2>1, FS_Injection
<1>6. \E i \in OkCalls : Cardinality({j \in OkCalls : j <= i}) = n
  <2>1. PICK i \in OkCalls : rank[i] = n
    BY <1>5 DEF Surjection
  <2> QED
    BY <2>1
<1>7. PICK i \in OkCalls : OkCall(n) = calls[i]
  BY <1>6 DEF OkCall
<1> QED
  BY <1>1, <1>7

\* What a row can be at most.
LEMMA EndedFits ==
  ASSUME Harness, IInv, CostInv, pc \in {"succeeded", "aborted"}
  PROVE  RowFits(ResultRow)
<1>1. calls \in Seq(CallRow) /\ replans \in Nat /\ Len(calls) \in Nat
  BY DEF IInv, TypeOK
<1>2. Len(calls) <= 20 /\ replans <= 6 /\ steps = Len(calls)
  BY <1>1 DEF IInv, Control, Counters, Harness, Registered
<1>3. /\ ResultRow.status = pc /\ ResultRow.steps = Len(calls)
      /\ ResultRow.cost = 8 * PlansAsked + 4 * Len(calls)
  BY EndedRow
<1>4. PlansAsked \in 0 .. 7
  BY <1>1, <1>2 DEF PlansAsked
<1>5. Elements(ResultRow.tools) \subseteq Tools
  <2>1. \A n \in 1 .. Cardinality(OkCalls) : OkCall(n).tool \in Tools
    BY <1>1, OkCallIsOne DEF CallRow
  <2>2. ResultRow.tools = [n \in 1 .. Cardinality(OkCalls) |-> OkCall(n).tool]
    BY DEF ResultRow
  <2> QED
    BY <2>1, <2>2 DEF Elements
<1>6. ResultRow.steps \in 0 .. 20 /\ ResultRow.cost \in 0 .. 136
  <2>1. \A m, p : m \in Nat /\ m <= 20 /\ p \in 0 .. 7
          => m \in 0 .. 20 /\ 8 * p + 4 * m \in 0 .. 136
    OBVIOUS
  <2>2. Len(calls) \in 0 .. 20 /\ 8 * PlansAsked + 4 * Len(calls) \in 0 .. 136
    BY <1>1, <1>2, <1>4, <2>1
  <2> QED
    BY <1>3, <2>2
<1> QED
  <2>1. ResultRow.replans \in 0 .. 6
    BY <1>1, <1>2, EndedRow
  <2> QED
    BY <1>3, <1>5, <1>6, <2>1 DEF RowFits
-----------------------------------------------------------------------------
(* The goal in hand stays on its course. *)

\* What no step of a scripted run changes, and what every step adds to.
LEMMA ScriptedFrame ==
  ASSUME IInv, ScriptedStep, planIdx \in Nat, toolIdx \in [Tools -> Nat], slow \in Nat
  PROVE  /\ text' = text /\ files \subseteq files'
         /\ planIdx' \in Nat /\ toolIdx' \in [Tools -> Nat] /\ slow' \in Nat
<1>1. CASE LoopAlone \/ RefuseHint \/ ToolRefuses
  BY <1>1 DEF LoopAlone, RefuseHint, ToolRefuses, script
<1>2. CASE AnswerPlan
  <2>1. Len(PlanScript[Key]) \in Nat \/ planIdx' = planIdx + 1
    BY <1>2 DEF AnswerPlan
  <2> QED
    BY <1>2, <2>1 DEF AnswerPlan
<1>3. CASE AnswerSelect
  BY <1>3 DEF AnswerSelect
<1>4. CASE ToolWorks \/ ToolIsSlow
  BY <1>4 DEF ToolWorks, ToolIsSlow, script, Written
<1> QED
  BY <1>1, <1>2, <1>3, <1>4 DEF ScriptedStep

\* run creates the row before it looks for it.
LEMMA StartsPending ==
  ASSUME ScriptedStep, pc = "start" => goal.status = "pending"
  PROVE  pc' = "start" => goal'.status = "pending"
<1>1. CASE LoopAlone
  <2>1. CASE CreateGoal \/ MissingGoal \/ MarkRunning \/ CallPlanner
    BY <2>1 DEF CreateGoal, MissingGoal, MarkRunning, CallPlanner, NewGoal
  <2>2. CASE WallClockExceeded \/ ReplansExceeded \/ StepsExceeded \/ CostExceeded \/ PlanExhausted
             \/ GiveUp
    BY <2>2 DEF WallClockExceeded, ReplansExceeded, StepsExceeded, CostExceeded,
                PlanExhausted, GiveUp, Abort
  <2>3. CASE RejectOutput \/ AcceptOutput \/ Succeed \/ RecordNoTool \/ RecordReplan
    BY <2>3 DEF RejectOutput, AcceptOutput, Succeed, RecordNoTool, RecordReplan
  <2> QED
    BY <1>1, <2>1, <2>2, <2>3
    DEF LoopAlone, Step, Planning, Selecting, Invoking, PlannerFails, EmptyPlan, PlanTooDear,
        AdoptPlan, SelectorFails, SelectTool, ToolTimesOut, ToolErrors, ToolFails, ToolReturns
<1> QED
  BY <1>1 DEF ScriptedStep, AnswerPlan, AdoptPlan, AnswerSelect, SelectTool, RefuseHint,
              SelectorFails, ToolWorks, ToolReturns, ToolRefuses, ToolIsSlow, ToolErrors,
              ToolTimesOut, ToolFails

\* A new run is on course for whichever goal it is.
LEMMA FreshRun ==
  ASSUME Harness, NEW t, NewRun(t), NEW key
  PROVE  /\ PlainRun(key)' /\ UnregisteredRun' /\ StrictRun' /\ pc' = "create" /\ text' = t
         /\ planIdx' \in Nat /\ toolIdx' \in [Tools -> Nat]
<1>1. /\ pc' = "create" /\ calls' = <<>> /\ replans' = 0 /\ planIdx' = 0 /\ text' = t
      /\ toolIdx' = [tool \in Tools |-> 0]
  BY DEF NewRun
<1>2. "extract_json" \in Tools
  BY DEF Harness, Registered
<1>3. PlainRun(key)'
  BY <1>1 DEF PlainRun, BeforePlan
<1>4. Unhinted'
  BY <1>1, <1>2 DEF Unhinted, BeforePlan
<1>5. UnregisteredRun'
  BY <1>1 DEF UnregisteredRun, BeforePlan
<1>6. StrictRun'
  BY <1>4 DEF StrictRun, Unhinted
<1> QED
  BY <1>1, <1>3, <1>5, <1>6

\* The replans that are recorded.
LEMMA RecordedReplans ==
  /\ \A i \in 1 .. 20 \ {13, 15} : Recorded[i].replans = 0
  /\ Recorded[15].replans = 1 /\ Recorded[13].replans = 6
<1>1. Recorded[15].replans = 1
  BY SuiteLength DEF Recorded, RecordedRow
<1>2. \A i \in 1 .. 20 \ {13, 15} : Recorded[i].replans = 0
  <2> SUFFICES ASSUME NEW i \in 1 .. 20 \ {13, 15} PROVE Recorded[i].replans = 0
    OBVIOUS
  <2>1. \A total, spent, tools : RecordedRow(total, spent, tools).replans = 0
    BY DEF RecordedRow
  <2> QED
    BY <2>1, PlainRecord
<1>3. Recorded[13].replans = 6
  <2>1. Recorded[13] = [RecordedRow(0, 48, <<>>) EXCEPT
                          !.status = "aborted", !.reason = "max_replans_exceeded", !.replans = 6]
    BY SuiteLength DEF Recorded
  <2> QED
    BY <2>1 DEF RecordedRow
<1> QED
  BY <1>1, <1>2, <1>3

\* PlainRun of a script that has a name.
LEMMA KeyIs == ASSUME NEW CONSTANT key PROVE Key = key => (PlainRun(Key) <=> PlainRun(key))
  OBVIOUS

\* A step of the goal in hand keeps it on course.
LEMMA OnCourse ==
  ASSUME Harness, IInv, CostInv, GoalOnCourse, Bookkeeping, RunGoal
  PROVE  GoalOnCourse'
<1>0. /\ at \in 1 .. 20 /\ at' = at /\ ScriptedStep /\ DOMAIN Suite = 1 .. 20
      /\ slowGoals' = IF slow' = slow THEN slowGoals ELSE slowGoals \cup {at}
      /\ planIdx \in Nat /\ toolIdx \in [Tools -> Nat] /\ slow \in Nat
  BY SuiteLength DEF RunGoal, Bookkeeping
<1>1. /\ text = Suite[at].text /\ Elements(Fixtures) \subseteq files
      /\ pc = "start" => goal.status = "pending"
  BY <1>0 DEF GoalOnCourse
<1>2. Key = SuiteKeys[at] /\ Key' = Key
  BY <1>0, <1>1, SuiteClassified, ScriptedFrame DEF Key
<1>3. /\ text' = Suite[at'].text /\ Elements(Fixtures) \subseteq files'
      /\ pc' = "start" => goal'.status = "pending"
  BY <1>0, <1>1, ScriptedFrame, StartsPending
<1>r. replans \in Nat /\ replans' \in Nat /\ (Recorded[at].replans \in Nat \/ at = 13)
  <2>1. replans \in Nat /\ (IInv => replans \in Nat)
    BY DEF IInv, TypeOK
  <2>2. replans' \in Nat
    BY <1>0, <2>1, ReplansGrow, InvStep, ScriptedIsStep DEF IInv, TypeOK, Next
  <2> QED
    BY <1>0, <2>1, <2>2, RecordedReplans
<1>4. CASE at \in slowGoals
  <2>1. at # 13 /\ SlowRun
    BY <1>0, <1>4 DEF GoalOnCourse
  <2>2. SlowRun'
    BY <1>0, <1>r, <2>1, ReplansGrow DEF SlowRun
  <2>3. at' \in slowGoals' /\ at' # 13
    BY <1>0, <1>4, <2>1
  <2> QED
    BY <1>3, <2>2, <2>3 DEF GoalOnCourse
<1>5. CASE at \notin slowGoals /\ at \notin {13, 15}
  <2>1. ScriptFits(Key) /\ PlainRun(Key) /\ Recorded[at].replans = 0
    BY <1>0, <1>2, <1>5, ScriptsFit, RecordedReplans DEF GoalOnCourse
  <2>2. /\ slow' = slow => PlainRun(SuiteKeys[at])'
        /\ slow' # slow => replans' = 0 /\ pc' = "record"
    BY <1>0, <1>1, <1>2, <2>1, PlainStep
  <2>3. CASE slow' = slow
    <3>1. at' \notin slowGoals' /\ at' \notin {13, 15} /\ PlainRun(SuiteKeys[at])'
      BY <1>0, <1>5, <2>2, <2>3
    <3>2. Key' = SuiteKeys[at]
      BY <1>2
    <3>3. PICK key : key = SuiteKeys[at]
      OBVIOUS
    <3>4. PlainRun(key)' /\ Key' = key
      BY <3>1, <3>2, <3>3, PlainStep, <1>0, <1>1, <1>2, <2>1, <2>3
    <3>5. (Key = key => (PlainRun(Key) <=> PlainRun(key)))'
      BY KeyIs, PTL
    <3>6. PlainRun(Key)'
      BY <3>4, <3>5
    <3> QED
      BY <1>3, <3>1, <3>6 DEF GoalOnCourse
  <2>4. CASE slow' # slow
    <3>1. at' \in slowGoals' /\ at' \notin {13, 15} /\ SlowRun'
      BY <1>0, <1>5, <2>1, <2>2, <2>4 DEF SlowRun
    <3> QED
      BY <1>3, <3>1 DEF GoalOnCourse
  <2> QED
    BY <2>3, <2>4
<1>6. CASE at = 13
  <2>1. at \notin slowGoals /\ UnregisteredRun /\ Key = "send_email"
    BY <1>0, <1>2, <1>6 DEF GoalOnCourse, SuiteKeys
  <2>2. UnregisteredRun' /\ slow' = slow
    BY <1>0, <1>1, <2>1, UnregisteredStep
  <2>3. at' = 13 /\ at' \notin slowGoals'
    BY <1>0, <1>6, <2>1, <2>2
  <2> QED
    BY <1>3, <2>2, <2>3 DEF GoalOnCourse
<1>7. CASE at = 15 /\ at \notin slowGoals
  <2>1. StrictRun /\ Key = "extract_strict"
    BY <1>0, <1>2, <1>7 DEF GoalOnCourse, SuiteKeys
  <2>2. \/ StrictRun' /\ slow' = slow
        \/ slow' # slow /\ replans' = 1 /\ pc' = "record"
    <3>1. CASE Unhinted
      <4>1. (Unhinted \/ Hinted)' /\ slow' = slow
        BY <1>0, <1>1, <2>1, <3>1, UnhintedStep
      <4>2. StrictRun'
        BY <4>1 DEF StrictRun, Unhinted, Hinted
      <4> QED
        BY <4>1, <4>2
    <3>2. CASE Hinted
      <4>1. slow' = slow => Hinted'
        BY <1>0, <2>1, <3>2, HintedStep
      <4>2. slow' # slow => replans' = 1 /\ pc' = "record"
        BY <1>0, <2>1, <3>2, HintedStep
      <4>3. Hinted' => StrictRun'
        BY DEF StrictRun, Hinted
      <4> QED
        BY <4>1, <4>2, <4>3
    <3> QED
      BY <2>1, <3>1, <3>2, StrictHalves
  <2>3. CASE slow' = slow
    BY <1>0, <1>3, <1>7, <2>2, <2>3 DEF GoalOnCourse
  <2>4. CASE slow' # slow
    BY <1>0, <1>3, <1>7, <2>2, <2>4, RecordedReplans DEF GoalOnCourse, SlowRun
  <2> QED
    BY <2>3, <2>4
<1> QED
  BY <1>4, <1>5, <1>6, <1>7
-----------------------------------------------------------------------------
(* The recorded rows. *)

\* The column of the steps.
RecordedSteps == <<2, 2, 2, 2, 2, 3, 2, 3, 2, 3, 2, 2, 0, 2, 3, 10, 10, 10, 10, 10>>

\* What the recorded rows say.
LEMMA RecordedIs ==
  ASSUME NEW i \in 1 .. 20
  PROVE  /\ Recorded[i].status = IF i = 13 THEN "aborted" ELSE "succeeded"
         /\ Recorded[i].steps = RecordedSteps[i]
         /\ Recorded[i].cost = IF i = 13 THEN 48
                               ELSE 8 + 4 * RecordedSteps[i] + IF i = 15 THEN 8 ELSE 0
         /\ Recorded[i].tools = IF i = 15 THEN <<"extract_json", "finish">> ELSE Suite[i].tools
<1>1. CASE i = 13
  <2>1. Suite[13].tools = <<>>
    BY DEF Suite, Goal
  <2>2. Recorded[13] = [status |-> "aborted", reason |-> "max_replans_exceeded", steps |-> 0,
                        replans |-> 6, cost |-> 48, tools |-> <<>>]
    <3>1. Recorded[13] = [RecordedRow(0, 48, <<>>) EXCEPT
                          !.status = "aborted", !.reason = "max_replans_exceeded", !.replans = 6]
      BY SuiteLength DEF Recorded
    <3> QED
      BY <3>1 DEF RecordedRow
  <2> QED
    BY <1>1, <2>1, <2>2 DEF RecordedSteps
<1>2. CASE i = 15
  <2>1. Recorded[15] = [status |-> "succeeded", reason |-> "none", steps |-> 3,
                      replans |-> 1, cost |-> 28, tools |-> <<"extract_json", "finish">>]
    BY SuiteLength DEF Recorded, RecordedRow
  <2> QED
    BY <1>2, <2>1 DEF RecordedSteps
<1>3. CASE i \notin {13, 15}
  <2>1. \A total, spent, tools :
          LET row == RecordedRow(total, spent, tools)
          IN  row.status = "succeeded" /\ row.steps = total /\ row.cost = spent /\ row.tools = tools
    BY DEF RecordedRow
  <2>2. CASE i \in {6, 8, 10}
    <3>1. Recorded[i] = RecordedRow(3, 20, Suite[i].tools)
      BY <2>2, SuiteLength DEF Recorded
    <3>2. RecordedSteps[i] = 3
      BY <2>2 DEF RecordedSteps
    <3> QED
      BY <1>3, <2>1, <3>1, <3>2
  <2>3. CASE i > 15
    <3>1. Recorded[i] = RecordedRow(10, 48, Suite[i].tools)
      BY <2>3, SuiteLength DEF Recorded
    <3>2. RecordedSteps[i] = 10
      BY <2>3 DEF RecordedSteps
    <3> QED
      BY <1>3, <2>1, <3>1, <3>2
  <2>4. CASE i \in {1, 2, 3, 4, 5, 7, 9, 11, 12, 14}
    <3>1. Recorded[i] = RecordedRow(2, 16, Suite[i].tools)
      BY <2>4, SuiteLength DEF Recorded
    <3>2. RecordedSteps[i] = 2
      BY <2>4 DEF RecordedSteps
    <3> QED
      BY <1>3, <2>1, <3>1, <3>2
  <2> QED
    BY <1>3, <2>2, <2>3, <2>4
<1> QED
  BY <1>1, <1>2, <1>3

\* The recorded rows fit, and the recorded tools are those that are expected.
LEMMA RecordedFits ==
  ASSUME Harness, NEW i \in 1 .. 20
  PROVE  /\ RowFits(Recorded[i])
         /\ Elements(Suite[i].tools) = Elements(Recorded[i].tools)
<1>1. Recorded[i].status \in {"succeeded", "aborted"}
  BY RecordedIs
<1>2. Recorded[i].steps \in 0 .. 10 /\ Recorded[i].cost \in 0 .. 48
  <2>1. RecordedSteps[i] \in 0 .. 10
    BY DEF RecordedSteps
  <2>2. i = 15 => RecordedSteps[i] = 3
    BY DEF RecordedSteps
  <2> QED
    BY <2>1, <2>2, RecordedIs
<1>3. Elements(Suite[i].tools) = Elements(Recorded[i].tools)
  <2>1. CASE i = 15
    <3>1. Suite[15].tools = <<"extract_json", "extract_json", "finish">>
      BY DEF Suite, Goal
    <3>2. Recorded[15].tools = <<"extract_json", "finish">>
      BY RecordedIs
    <3>3. Elements(<<"extract_json", "extract_json", "finish">>) = {"extract_json", "finish"}
      BY DEF Elements
    <3>4. Elements(<<"extract_json", "finish">>) = {"extract_json", "finish"}
      BY DEF Elements
    <3> QED
      BY <2>1, <3>1, <3>2, <3>3, <3>4
  <2>2. CASE i # 15
    BY <2>2, RecordedIs
  <2> QED
    BY <2>1, <2>2
<1>4. Elements(Recorded[i].tools) \subseteq Tools
  <2>1. CASE i = 13
    <3>1. Recorded[13].tools = <<>>
      BY RecordedIs DEF Suite, Goal
    <3> QED
      BY <2>1, <3>1 DEF Elements
  <2>2. CASE i = 15
    <3>1. Recorded[15].tools = <<"extract_json", "finish">>
      BY RecordedIs
    <3>2. Elements(<<"extract_json", "finish">>) \subseteq Tools
      BY DEF Elements, Harness, Registered
    <3> QED
      BY <2>2, <3>1, <3>2
  <2>3. CASE i \notin {13, 15}
    <3>1. ScriptFits(SuiteKeys[i])
      BY <2>3, ScriptsFit
    <3>2. FirstPlan(SuiteKeys[i]) \in Seq(Tools)
      BY <3>1 DEF ScriptFits, PlanFits
    <3>3. \A total, spent, tools : RecordedRow(total, spent, tools).tools = tools
      BY DEF RecordedRow
    <3>4. Recorded[i].tools = FirstPlan(SuiteKeys[i])
      BY <2>3, <3>3, PlainRecord
    <3> QED
      BY <3>2, <3>4 DEF Elements
  <2> QED
    BY <2>1, <2>2, <2>3
<1>5. Recorded[i].replans \in 0 .. 6
  BY RecordedReplans
<1> QED
  BY <1>1, <1>2, <1>3, <1>4, <1>5 DEF RowFits
-----------------------------------------------------------------------------
(* The rows are faithful. *)

\* The baseline is a sequence.
IsBaseline == \E S : baseline \in Seq(S)

\* A file with rows is not a torn one.
LEMMA NotTorn == \A rows : DOMAIN rows = 1 .. 20 => rows # Torn
<1>1. DOMAIN Torn = {}
  BY DEF Torn
<1>2. 1 \in 1 .. 20
  OBVIOUS
<1> QED
  BY <1>1, <1>2

\* The committed baseline has a row for each goal.
LEMMA RecordedRows ==
  (\E S : Recorded \in Seq(S)) /\ DOMAIN Recorded = DOMAIN Suite /\ Recorded # Torn
<1>1. Recorded = [i \in 1 .. 20 |-> Recorded[i]]
  BY SuiteLength DEF Recorded
<1> DEFINE S == {Recorded[i] : i \in 1 .. 20}
<1>2. \A i \in 1 .. 20 : Recorded[i] \in S
  OBVIOUS
<1> HIDE DEF S
<1>3. Recorded \in Seq(S)
  BY <1>1, <1>2
<1>4. DOMAIN Recorded = 1 .. 20
  BY <1>1
<1> QED
  BY <1>3, <1>4, SuiteLength, NotTorn

\* A row that joins the report is faithful.
LEMMA EndedFaithful ==
  ASSUME Harness, IInv, CostInv, GoalOnCourse, Bookkeeping, at \in DOMAIN Suite,
         pc \in {"succeeded", "aborted"}
  PROVE  IF at \in slowGoals THEN ResultRow.replans > Recorded[at].replans
                             ELSE ResultRow = Recorded[at]
<1>0. at \in 1 .. 20 /\ Key = SuiteKeys[at]
  BY SuiteLength, SuiteClassified DEF GoalOnCourse, Key
<1>1. CASE at \in slowGoals
  <2>1. SlowRun /\ replans \in Nat /\ at # 13
    BY <1>1 DEF GoalOnCourse, IInv, TypeOK
  <2> QED
    BY <1>1, <2>1, EndedRow DEF SlowRun
<1>2. CASE at \notin slowGoals /\ at \notin {13, 15}
  <2>1. ScriptFits(Key) /\ PlainRun(Key)
    BY <1>0, <1>2, ScriptsFit DEF GoalOnCourse
  <2>2. ResultRow = RecordedRow(Len(FirstPlan(Key)), 8 + 4 * Len(FirstPlan(Key)), FirstPlan(Key))
    BY <2>1, PlainRow
  <2> QED
    BY <1>0, <1>2, <2>2, PlainRecord
<1>3. CASE at = 13
  BY <1>0, <1>3, UnregisteredRow DEF GoalOnCourse
<1>4. CASE at = 15 /\ at \notin slowGoals
  BY <1>0, <1>4, StrictRow DEF GoalOnCourse
<1> QED
  BY <1>1, <1>2, <1>3, <1>4

\* The row of the goal that has ended joins the rows of those before it.
LEMMA RowAppended ==
  ASSUME IsReport, at \in 1 .. 20, DOMAIN report = 1 .. at - 1, NextGoal
  PROVE  /\ DOMAIN report' = 1 .. at
         /\ \A i \in 1 .. at - 1 : report'[i] = report[i]
         /\ report'[at] = ResultRow
<1>1. PICK S : report \in Seq(S)
  BY DEF IsReport
<1> DEFINE T == S \cup {ResultRow}
<1>2. report \in Seq(T) /\ ResultRow \in T
  BY <1>1
<1> HIDE DEF T
<1>3. Len(report) = at - 1
  BY <1>2
<1>4. /\ DOMAIN report' = 1 .. Len(report) + 1 /\ report'[Len(report) + 1] = ResultRow
      /\ \A i \in 1 .. Len(report) : report'[i] = report[i]
  BY <1>2 DEF NextGoal
<1>5. Len(report) + 1 = at
  BY <1>3
<1> QED
  BY <1>3, <1>4, <1>5

\* The next goal starts on course, and the last one's row is faithful.
LEMMA NextGoalKeeps ==
  ASSUME Harness, IInv, CostInv, GoalOnCourse, Bookkeeping, IsReport, NextGoal
  PROVE  GoalOnCourse' /\ Bookkeeping'
<1>0. /\ at \in 1 .. 20 /\ at' = at + 1 /\ Len(Suite) = 20 /\ DOMAIN Suite = 1 .. 20
      /\ UNCHANGED <<files, slow, baseline, exit, slowGoals, slowBase>>
  BY SuiteLength DEF NextGoal
<1>1. PICK t : NewRun(t) /\ t = IF at < Len(Suite) THEN Suite[at + 1].text ELSE {}
  BY DEF NextGoal
<1>2. /\ \A key : PlainRun(key)'
      /\ UnregisteredRun' /\ StrictRun' /\ pc' = "create" /\ text' = t
      /\ planIdx' \in Nat /\ toolIdx' \in [Tools -> Nat]
  BY <1>1, FreshRun
<1>3. slowGoals \subseteq 1 .. at /\ Elements(Fixtures) \subseteq files
  BY <1>0 DEF GoalOnCourse, Bookkeeping
<1>4. at' \in DOMAIN Suite => text' = Suite[at'].text
  BY <1>0, <1>1, <1>2
<1>5. PlainRun(Key)'
  <2>1. PICK key : key = Key'
    OBVIOUS
  <2>2. (Key = key => (PlainRun(Key) <=> PlainRun(key)))'
    BY KeyIs, PTL
  <2> QED
    BY <1>2, <2>1, <2>2
<1>6. GoalOnCourse'
  BY <1>0, <1>2, <1>3, <1>4, <1>5 DEF GoalOnCourse
<1>7. /\ DOMAIN report' = 1 .. at
      /\ \A i \in 1 .. at - 1 : report'[i] = report[i]
      /\ report'[at] = ResultRow
  BY <1>0, RowAppended DEF Bookkeeping
<1>8. Faithful(report', slowGoals)
  <2> SUFFICES ASSUME NEW i \in 1 .. at
               PROVE  IF i \in slowGoals THEN report'[i].replans > Recorded[i].replans
                                         ELSE report'[i] = Recorded[i]
    BY <1>7 DEF Faithful
  <2>1. CASE i = at
    BY <1>0, <1>7, <2>1, EndedFaithful DEF NextGoal
  <2>2. CASE i # at
    <3>1. i \in DOMAIN report /\ report'[i] = report[i]
      BY <1>0, <1>7, <2>2 DEF Bookkeeping
    <3> QED
      BY <3>1 DEF Bookkeeping, Faithful
  <2> QED
    BY <2>1, <2>2
<1>9. Bookkeeping'
  BY <1>0, <1>2, <1>3, <1>7, <1>8 DEF Bookkeeping, Faithful
<1> QED
  BY <1>6, <1>9

\* So does the first goal.
LEMMA StartKeeps ==
  ASSUME Harness, GoalOnCourse, Bookkeeping, StartSuite
  PROVE  GoalOnCourse' /\ Bookkeeping'
<1>0. /\ at = 0 /\ at' = 1 /\ exit = "running" /\ Len(Suite) = 20 /\ DOMAIN Suite = 1 .. 20
      /\ UNCHANGED <<files, slow, report, baseline, exit, slowGoals, slowBase>>
  BY SuiteLength DEF StartSuite
<1>1. slowGoals = {} /\ Elements(Fixtures) \subseteq files
  BY <1>0 DEF Bookkeeping, StartSuite, Missing, Elements
<1>2. PICK t : NewRun(t) /\ t = Suite[1].text
  BY DEF StartSuite
<1>3. /\ \A key : PlainRun(key)'
      /\ pc' = "create" /\ text' = t /\ planIdx' \in Nat /\ toolIdx' \in [Tools -> Nat]
  BY <1>2, FreshRun
<1>4. PlainRun(Key)'
  <2>1. PICK key : key = Key'
    OBVIOUS
  <2>2. (Key = key => (PlainRun(Key) <=> PlainRun(key)))'
    BY KeyIs, PTL
  <2> QED
    BY <1>3, <2>1, <2>2
<1>5. GoalOnCourse'
  BY <1>0, <1>1, <1>2, <1>3, <1>4 DEF GoalOnCourse
<1>6. DOMAIN report' = {}
  BY <1>0 DEF Bookkeeping
<1>7. Bookkeeping'
  BY <1>0, <1>1, <1>3, <1>6 DEF Bookkeeping, Faithful
<1> QED
  BY <1>5, <1>7

\* No other step touches the goal in hand, and the gates compare what is there.
LEMMA AtRestKeeps ==
  ASSUME GoalOnCourse, Bookkeeping, UNCHANGED <<rvars, at, slowGoals>>,
         PrintReport \/ OpenBaseline \/ WriteBaseline \/ Smoke \/ BenchRegress
  PROVE  GoalOnCourse' /\ Bookkeeping'
<1>0. at = 21 /\ at' = 21 /\ Len(Suite) = 20 /\ DOMAIN Suite = 1 .. 20
  BY SuiteLength
  DEF Bookkeeping, PrintReport, OpenBaseline, WriteBaseline, Smoke, BenchRegress, Gate, Reported
<1>1. GoalOnCourse'
  BY <1>0 DEF GoalOnCourse, rvars, vars
<1>2. DOMAIN report = DOMAIN Suite /\ report' = report /\ report # Torn
  <2>1. DOMAIN report = 1 .. 20
    BY <1>0 DEF Bookkeeping
  <2>2. report # Torn
    BY <2>1, NotTorn
  <2> QED
    BY <1>0, <2>1, <2>2 DEF PrintReport, OpenBaseline, WriteBaseline, Smoke, BenchRegress, Gate
<1>3. UNCHANGED <<planIdx, toolIdx, slow>>
  BY DEF rvars, script
<1>4. CASE PrintReport
  BY <1>0, <1>1, <1>2, <1>3, <1>4 DEF Bookkeeping, Faithful, PrintReport
<1>5. CASE OpenBaseline
  BY <1>0, <1>1, <1>2, <1>3, <1>5 DEF Bookkeeping, Faithful, OpenBaseline
<1>6. CASE WriteBaseline
  BY <1>0, <1>1, <1>2, <1>3, <1>6 DEF Bookkeeping, Faithful, WriteBaseline
<1>7. CASE Smoke \/ BenchRegress
  BY <1>0, <1>1, <1>2, <1>3, <1>7 DEF Bookkeeping, Faithful, Smoke, BenchRegress, Gate, SameReport
<1> QED
  BY <1>1, <1>4, <1>5, <1>6, <1>7

\* What the proofs need to know of the two lists of rows.
SeqInv == IsReport /\ IsBaseline

\* Every step of a command keeps that.
LEMMA ListsKept ==
  ASSUME SeqInv, [ENext]_evars
  PROVE  SeqInv'
<1>1. CASE NextGoal
  <2>1. PICK S : report \in Seq(S)
    BY DEF SeqInv, IsReport
  <2> DEFINE T == S \cup {ResultRow}
  <2>2. report \in Seq(T) /\ ResultRow \in T
    BY <2>1
  <2> HIDE DEF T
  <2>3. report' \in Seq(T) /\ baseline' = baseline
    BY <1>1, <2>2 DEF NextGoal
  <2> QED
    BY <2>3 DEF SeqInv, IsReport, IsBaseline
<1>2. (report' \in {report, <<>>} /\ baseline' \in {report, baseline, Torn}) \/ NextGoal
  BY DEF ENext, evars, Invoke, MakeFixture, StartSuite, RunGoal, PrintReport, OpenBaseline,
         WriteBaseline, Smoke, BenchRegress, Gate, Interrupt
<1>3. <<>> \in Seq({}) /\ Torn \in Seq({})
  BY DEF Torn
<1> QED
  BY <1>1, <1>2, <1>3 DEF SeqInv, IsReport, IsBaseline

\* The recorded rows keep the bounds,
LEMMA RowsFitInit == Harness /\ EInit => RowsFit
<1> SUFFICES ASSUME Harness, EInit PROVE RowsFit
  OBVIOUS
<1>1. report = <<>> /\ baseline = Recorded /\ DOMAIN Recorded = 1 .. 20
  BY RecordedRows, SuiteLength DEF EInit
<1> QED
  BY <1>1, RecordedFits DEF RowsFit

\* and so does every row that joins them.
LEMMA RowsFitKept ==
  ASSUME Harness, IInv, CostInv, SeqInv, RowsFit, [ENext]_evars
  PROVE  RowsFit'
<1>1. CASE NextGoal
  <2>1. PICK S : report \in Seq(S)
    BY DEF SeqInv, IsReport
  <2> DEFINE T == S \cup {ResultRow}
  <2>2. report \in Seq(T) /\ ResultRow \in T
    BY <2>1
  <2> HIDE DEF T
  <2>3. /\ DOMAIN report = 1 .. Len(report) /\ DOMAIN report' = 1 .. Len(report) + 1
        /\ \A i \in 1 .. Len(report) : report'[i] = report[i]
        /\ report'[Len(report) + 1] = ResultRow
        /\ Len(report) \in Nat /\ baseline' = baseline
    BY <1>1, <2>2 DEF NextGoal
  <2>4. RowFits(ResultRow)
    BY <1>1, EndedFits DEF NextGoal
  <2>5. \A i \in DOMAIN report' : RowFits(report'[i])
    BY <2>3, <2>4 DEF RowsFit
  <2> QED
    BY <2>3, <2>5 DEF RowsFit
<1>2. (report' \in {report, <<>>} /\ baseline' \in {report, baseline, Torn}) \/ NextGoal
  BY DEF ENext, evars, Invoke, MakeFixture, StartSuite, RunGoal, PrintReport, OpenBaseline,
         WriteBaseline, Smoke, BenchRegress, Gate, Interrupt
<1>3. DOMAIN <<>> = {}
  OBVIOUS
<1>4. CASE ~NextGoal
  <2>1. \A i \in DOMAIN report' : RowFits(report'[i])
    BY <1>2, <1>3, <1>4 DEF RowsFit
  <2>2. \A i \in DOMAIN baseline' : RowFits(baseline'[i])
    BY <1>2, <1>3, <1>4 DEF RowsFit, Torn
  <2> QED
    BY <2>1, <2>2 DEF RowsFit
<1> QED
  BY <1>1, <1>4

\* Before the first command.
LEMMA SuiteInit ==
  ASSUME Harness, EInit
  PROVE  SuiteInv /\ SeqInv
<1>0. /\ at = 0 /\ slowGoals = {} /\ slowBase = {} /\ exit = "interrupted" /\ report = <<>>
      /\ baseline = Recorded /\ pc = "create" /\ slow = 0 /\ planIdx = 0
      /\ toolIdx = [tool \in Tools |-> 0]
  BY DEF EInit, RInit
<1>1. GoalOnCourse
  BY <1>0, SuiteLength DEF GoalOnCourse
<1>2. DOMAIN report = {} /\ report \in Seq({})
  BY <1>0
<1>3. Faithful(report, {}) /\ Faithful(baseline, {})
  BY <1>0, <1>2 DEF Faithful
<1>4. Bookkeeping
  BY <1>0, <1>2, <1>3, SuiteLength, RecordedRows DEF Bookkeeping
<1>5. RowsFit
  BY RowsFitInit
<1> QED
  BY <1>0, <1>1, <1>2, <1>4, <1>5, RecordedRows DEF SuiteInv, SeqInv, IsReport, IsBaseline

\* A command that starts or stops leaves no goal in hand.
LEMMA BackToRest ==
  ASSUME Bookkeeping, GoalOnCourse, Invoke \/ Interrupt, Harness
  PROVE  GoalOnCourse' /\ Bookkeeping'
<1>0. /\ at' = 0 /\ slowGoals' = {} /\ exit' \in {"running", "interrupted"} /\ report' = <<>>
      /\ UNCHANGED <<slow, baseline, slowBase>>
  BY DEF Invoke, Interrupt
<1>1. /\ pc' = "start" => goal'.status = "pending"
      /\ planIdx' \in Nat /\ toolIdx' \in [Tools -> Nat]
  <2>1. CASE Invoke
    BY <2>1 DEF Invoke, vars, script, GoalOnCourse, Bookkeeping
  <2>2. CASE Interrupt
    BY <2>2, FreshRun DEF Interrupt
  <2> QED
    BY <2>1, <2>2
<1>2. DOMAIN report' = {}
  BY <1>0
<1>3. GoalOnCourse'
  BY <1>0, <1>1, SuiteLength DEF GoalOnCourse
<1>4. Bookkeeping'
  BY <1>0, <1>1, <1>2, SuiteLength DEF Bookkeeping, Faithful
<1> QED
  BY <1>3, <1>4

\* Every step of a command keeps the invariant.
LEMMA SuiteKeeps ==
  ASSUME Harness, IInv, CostInv, SuiteInv, SeqInv, [ENext]_evars
  PROVE  SuiteInv' /\ SeqInv'
<1> USE DEF SuiteInv
<1>1. GoalOnCourse' /\ Bookkeeping'
  <2>1. CASE Invoke \/ Interrupt
    BY <2>1, BackToRest
  <2>2. CASE StartSuite
    BY <2>2, StartKeeps
  <2>3. CASE NextGoal
    BY <2>3, NextGoalKeeps DEF SeqInv
  <2>4. CASE RunGoal
    <3>1. GoalOnCourse'
      BY <2>4, OnCourse
    <3>2. /\ UNCHANGED <<at, report, baseline, exit, slowBase>> /\ at \in DOMAIN Suite
          /\ slowGoals' = IF slow' = slow THEN slowGoals ELSE slowGoals \cup {at}
          /\ planIdx' \in Nat /\ toolIdx' \in [Tools -> Nat] /\ slow' \in Nat
      BY <2>4, ScriptedFrame DEF RunGoal, Bookkeeping
    <3>3. Faithful(report', slowGoals')
      BY <3>2, SuiteLength DEF Faithful, Bookkeeping
    <3>4. slowGoals' \subseteq DOMAIN Suite \cap 1 .. at'
      <4>1. at \in 1 .. 20 /\ at' = at /\ slowGoals \subseteq DOMAIN Suite \cap 1 .. at
        BY <3>2, SuiteLength DEF Bookkeeping
      <4>2. at \in DOMAIN Suite \cap 1 .. at
        BY <3>2, <4>1
      <4> QED
        BY <3>2, <4>1, <4>2
    <3> QED
      BY <3>1, <3>2, <3>3, <3>4 DEF Bookkeeping, Faithful
  <2>5. CASE MakeFixture
    BY <2>5, SuiteLength DEF MakeFixture, GoalOnCourse, Bookkeeping, Faithful, vars, script
  <2>6. CASE PrintReport \/ OpenBaseline \/ WriteBaseline \/ Smoke \/ BenchRegress
    BY <2>6, AtRestKeeps DEF PrintReport, OpenBaseline, WriteBaseline, Smoke, BenchRegress, Gate
  <2>7. CASE UNCHANGED evars
    BY <2>7 DEF evars, rvars, vars, script, GoalOnCourse, Bookkeeping, Faithful, SlowRun,
       PlainRun, UnregisteredRun, StrictRun, Key, BeforePlan
  <2> QED
    BY <2>1, <2>2, <2>3, <2>4, <2>5, <2>6, <2>7 DEF ENext
<1>2. SeqInv'
  BY ListsKept
<1>3. RowsFit'
  BY RowsFitKept
<1> QED
  BY <1>1, <1>2, <1>3
-----------------------------------------------------------------------------
(* What follows for the report and for eval smoke. *)

\* On the instance of the harness, however many calls are slow, the goal in hand
\* is on its course and the rows of the report and of the baseline file are
\* faithful (run_suite of eval_harness.py and the commands of cli.py).
THEOREM SuiteStaysOnCourse == Harness => (ESpec => []SuiteInv)
<1> SUFFICES ASSUME Harness PROVE ESpec => []SuiteInv
  OBVIOUS
<1>1. EInit => SuiteInv /\ SeqInv
  BY SuiteInit
<1>2. IInv /\ CostInv /\ SuiteInv /\ SeqInv /\ [ENext]_evars => (SuiteInv /\ SeqInv)'
  BY SuiteKeeps
<1> QED
  BY <1>1, <1>2, SuiteCost, SuiteKeepsInvariant, PTL DEF ESpec

\* The report and the baseline are sequences all through.
LEMMA SuiteLists == ESpec => []SeqInv
<1>1. EInit => SeqInv
  <2> SUFFICES ASSUME EInit PROVE SeqInv
    OBVIOUS
  <2>1. report = <<>> /\ <<>> \in Seq({}) /\ baseline = Recorded
    BY DEF EInit
  <2> QED
    BY <2>1, RecordedRows DEF SeqInv, IsReport, IsBaseline
<1>2. SeqInv /\ [ENext]_evars => SeqInv'
  BY ListsKept
<1> QED
  BY <1>1, <1>2, PTL DEF ESpec

\* Every goal none of whose calls was slow ends with its recorded row, whatever
\* files are in the workspace and whatever happened to the goals before it (the
\* fixtures and the fresh provider and runner of each goal in run_suite).
THEOREM SuiteEndsAsRecorded == Harness => (ESpec => []EndsAsRecorded)
<1>1. SuiteInv => EndsAsRecorded
  BY DEF SuiteInv, Bookkeeping, Faithful, EndsAsRecorded
<1> QED
  BY <1>1, SuiteStaysOnCourse, PTL

\* A slow call shows in its row's replans, and nothing else does.
LEMMA SeesSlowCalls == SuiteInv /\ SeqInv => SmokeSeesSlowCalls
<1> SUFFICES ASSUME SuiteInv, SeqInv PROVE SmokeSeesSlowCalls
  OBVIOUS
<1>1. ASSUME exit \in {"match", "mismatch"}
      PROVE  /\ DOMAIN report = 1 .. 20 /\ DOMAIN baseline = 1 .. 20
             /\ Faithful(report, slowGoals) /\ Faithful(baseline, slowBase)
             /\ slowGoals \subseteq 1 .. 20 /\ slowBase \subseteq 1 .. 20
  <2>1. at = 21 /\ baseline # Torn
    BY <1>1, SuiteLength DEF SuiteInv, Bookkeeping
  <2>2. slowGoals \subseteq 1 .. 20 /\ slowBase \subseteq 1 .. 20
    BY SuiteLength DEF SuiteInv, Bookkeeping
  <2>3. DOMAIN report = 1 .. 20 /\ Faithful(report, slowGoals)
    BY <2>1 DEF SuiteInv, Bookkeeping
  <2>4. DOMAIN baseline = 1 .. 20 /\ Faithful(baseline, slowBase)
    BY <2>1, SuiteLength DEF SuiteInv, Bookkeeping
  <2> QED
    BY <2>2, <2>3, <2>4
<1>2. ASSUME exit = "match" PROVE slowGoals = slowBase
  <2>1. report = baseline
    BY <1>2 DEF SuiteInv, Bookkeeping
  <2>2. \A i \in 1 .. 20 : i \in slowGoals <=> i \in slowBase
    <3> SUFFICES ASSUME NEW i \in 1 .. 20 PROVE i \in slowGoals <=> i \in slowBase
      OBVIOUS
    <3>1. Recorded[i].replans \in Nat
      BY RecordedReplans
    <3> QED
      BY <1>1, <1>2, <2>1, <3>1 DEF Faithful
  <2> QED
    BY <1>1, <1>2, <2>2
<1>3. ASSUME exit = "mismatch" PROVE slowGoals \cup slowBase # {}
  <2> SUFFICES ASSUME slowGoals = {}, slowBase = {} PROVE FALSE
    OBVIOUS
  <2>1. report # baseline
    BY <1>3 DEF SuiteInv, Bookkeeping
  <2>2. report = [i \in 1 .. 20 |-> report[i]] /\ baseline = [i \in 1 .. 20 |-> baseline[i]]
    BY <1>1, <1>3 DEF SeqInv, IsReport, IsBaseline
  <2>3. \A i \in 1 .. 20 : report[i] = baseline[i]
    BY <1>1, <1>3 DEF Faithful
  <2> QED
    BY <2>1, <2>2, <2>3
<1> QED
  BY <1>2, <1>3 DEF SmokeSeesSlowCalls

\* eval smoke passes only when the goals with a slow call are those of the run
\* that recorded the baseline, and fails only when there was a slow call
\* (assert_matches_baseline of eval_harness.py).
THEOREM SmokeGateIsRight == Harness => (ESpec => []SmokeSeesSlowCalls)
  BY SeesSlowCalls, SuiteStaysOnCourse, SuiteLists, PTL
-----------------------------------------------------------------------------
(* A goal that had one slow call: its script. *)

\* The last plan of a script is its first, but for find_john_salary.
LEMMA LastPlanIs ==
  ASSUME NEW i \in 1 .. 20 \ {12, 13}
  PROVE  LastPlan(SuiteKeys[i]) = FirstPlan(SuiteKeys[i])
<1> DEFINE k == SuiteKeys[i]
<1>1. CASE i = 15
  <2>1. k = "extract_strict"
    BY <1>1 DEF SuiteKeys
  <2> QED
    BY <2>1, StrictPlans DEF LastPlan, FirstPlan
<1>2. CASE i # 15
  <2>1. Len(PlanScript[k]) = 1
    BY <1>2 DEF PlanScript, Ask, SuiteKeys
  <2> QED
    BY <2>1 DEF LastPlan, FirstPlan
<1> QED
  BY <1>1, <1>2

\* What the proof needs of the plan that a replanned goal follows.
LaterFits(key) ==
  LET last == LastPlan(key)
  IN  /\ Len(PlanScript[key]) \in 1 .. 2
      /\ last \in Seq(Tools) /\ Len(last) \in 2 .. 10
      /\ \A n \in 1 .. Len(last) : last[n] = "finish" <=> n = Len(last)
      /\ key \notin DOMAIN ReadPaths => \A n \in 1 .. Len(last) : last[n] # "read_file"

\* The scripts without files have no read.
LEMMA NoReads ==
  ASSUME NEW key \in {"calc_avg_eng", "calc_simple", "list_employees", "count_orders",
                      "fetch_status", "extract_struct", "math_two_step", "department_count",
                      "summarize_short", "extract_strict"}
  PROVE  \A n \in 1 .. Len(FirstPlan(key)) : FirstPlan(key)[n] # "read_file"
<1> DEFINE tools == FirstPlan(key)
<1>1. \/ \E tool \in {"query_db", "calculate", "http_get", "extract_json", "summarize"} :
           tools = <<tool, "finish">>
      \/ tools = <<"calculate", "calculate", "finish">>
  BY DEF FirstPlan, PlanScript, Ask
<1> HIDE DEF tools
<1>2. \A n \in 1 .. Len(tools) : tools[n] # "read_file"
  <2>1. CASE tools = <<"calculate", "calculate", "finish">>
    BY <2>1
  <2>2. ASSUME NEW tool \in {"query_db", "calculate", "http_get", "extract_json", "summarize"},
               tools = <<tool, "finish">>
        PROVE  \A n \in 1 .. Len(tools) : tools[n] # "read_file"
    BY <2>2
  <2> QED
    BY <1>1, <2>1, <2>2
<1> QED
  BY <1>2 DEF tools

LEMMA LaterPlansFit ==
  ASSUME Harness, NEW i \in 1 .. 20 \ {13}
  PROVE  LaterFits(SuiteKeys[i])
<1> DEFINE k == SuiteKeys[i]
<1>1. CASE i = 12
  <2>1. k = "find_john_salary" /\ LastPlan(k) = <<"read_file", "finish">> /\ Len(PlanScript[k]) = 2
    <3>1. k = "find_john_salary"
      BY <1>1 DEF SuiteKeys
    <3>2. Len(PlanScript["find_john_salary"]) = 2
      BY DEF PlanScript, Ask
    <3>3. PlanScript["find_john_salary"][2] = <<"read_file", "finish">>
      BY DEF PlanScript, Ask
    <3> QED
      BY <3>1, <3>2, <3>3 DEF LastPlan
  <2>2. k \in DOMAIN ReadPaths
    BY <2>1 DEF ReadPaths
  <2>3. {"read_file", "finish"} \subseteq Tools
    BY DEF Harness, Registered
  <2> DEFINE p == <<"read_file", "finish">>
  <2>4. p \in Seq(Tools) /\ Len(p) = 2 /\ Len(p) \in 2 .. 10 /\ \A n \in 1 .. 2 : p[n] = "finish" <=> n = 2
    BY <2>3
  <2>5. LastPlan(k) = p
    BY <2>1
  <2> HIDE DEF p, k
  <2>6. LaterFits(k)
    <3>1. Len(PlanScript[k]) \in 1 .. 2
      BY <2>1
    <3>2. \A n \in 1 .. Len(p) : p[n] = "finish" <=> n = Len(p)
      BY <2>4
    <3> QED
      BY <2>2, <2>4, <2>5, <3>1, <3>2, Zenon DEF LaterFits
  <2> QED
    BY <2>6 DEF k
<1>2. CASE i = 15
  <2>1. k = "extract_strict" /\ LastPlan(k) = FirstPlan(k) /\ Len(PlanScript[k]) = 2
    BY <1>2, LastPlanIs, StrictPlans DEF SuiteKeys
  <2> DEFINE p == <<"extract_json", "finish">>
  <2>2. LastPlan(k) = p
    BY <2>1, StrictPlans DEF FirstPlan
  <2>3. {"extract_json", "finish"} \subseteq Tools
    BY DEF Harness, Registered
  <2>4. p \in Seq(Tools) /\ Len(p) = 2
        /\ \A n \in 1 .. 2 : (p[n] = "finish" <=> n = 2) /\ p[n] # "read_file"
    BY <2>3
  <2> HIDE DEF p, k
  <2>5. LaterFits(k)
    <3>1. Len(PlanScript[k]) \in 1 .. 2
      BY <2>1
    <3> QED
      BY <2>2, <2>4, <3>1 DEF LaterFits
  <2> QED
    BY <2>5 DEF k
<1>3. CASE i \notin {12, 15}
  <2>1. ScriptFits(k) /\ LastPlan(k) = FirstPlan(k)
    BY <1>3, ScriptsFit, LastPlanIs
  <2>2. k \notin DOMAIN ReadPaths => \A n \in 1 .. Len(FirstPlan(k)) : FirstPlan(k)[n] # "read_file"
    <3>1. CASE i \in {1, 2, 3, 4, 7, 9, 10, 11, 14}
      <4>1. k \in {"calc_avg_eng", "calc_simple", "list_employees", "count_orders",
                   "fetch_status", "extract_struct", "math_two_step", "department_count",
                   "summarize_short", "extract_strict"}
        BY <3>1 DEF SuiteKeys
      <4> QED
        BY <4>1, NoReads
    <3>2. CASE i \in {5, 6, 8} \cup 16 .. 20
      <4>1. k \in {"read_notes", "write_then_read", "summarize_doc", "compose_report",
                   "data_pipeline", "research_aggregate", "kitchen_sink", "audit_trail"}
        BY <3>2 DEF SuiteKeys
      <4> HIDE DEF k
      <4> QED
        BY <4>1 DEF ReadPaths
    <3> QED
      BY <1>3, <3>1, <3>2
  <2> QED
    BY <2>1, <2>2 DEF LaterFits, ScriptFits, PlanFits
<1> QED
  BY <1>1, <1>2, <1>3

\* The arguments of the n-th call of a tool.
LEMMA ClampedIs ==
  ASSUME NEW list, Len(list) \in 1 .. 2, NEW k \in Nat
  PROVE  Clamped(list, k) = IF k = 0 THEN list[1] ELSE list[Len(list)]
  BY DEF Clamped

\* A script that writes its files reads each right after.
LEMMA PairedScripts ==
  ASSUME NEW key \in PairedKeys
  PROVE  LET tools == FirstPlan(key)
         IN  /\ ReadPaths[key] = WritePaths[key] /\ Len(WritePaths[key]) \in 1 .. 2
             /\ \A n \in 1 .. Len(tools) :
                  tools[n] = "read_file" => n > 1 /\ tools[n - 1] = "write_file"
             /\ \E j \in 1 .. Len(tools) :
                  /\ tools[j] = "write_file"
                  /\ \A n \in 1 .. Len(tools) : tools[n] = "write_file" => j <= n
<1> DEFINE tools == FirstPlan(key)
<1>1. ReadPaths[key] = WritePaths[key] /\ Len(WritePaths[key]) \in 1 .. 2
  BY DEF PairedKeys, ReadPaths, WritePaths
<1>2. CASE key = "compose_report"
  <2>1. tools = <<"write_file", "read_file", "summarize", "calculate", "query_db",
                  "calculate", "http_get", "write_file", "read_file", "finish">>
    BY <1>2 DEF FirstPlan, PlanScript
  <2>2. /\ Len(tools) = 10 /\ tools[1] = "write_file"
        /\ \A n \in 1 .. 10 : tools[n] = "read_file" => n > 1 /\ tools[n - 1] = "write_file"
    BY <2>1
  <2> HIDE DEF tools
  <2> QED
    BY <1>1, <2>2 DEF tools
<1>3. CASE key = "data_pipeline"
  <2>1. tools = <<"query_db", "calculate", "query_db", "calculate", "write_file",
                  "read_file", "summarize", "extract_json", "calculate", "finish">>
    BY <1>3 DEF FirstPlan, PlanScript
  <2>2. /\ Len(tools) = 10 /\ tools[5] = "write_file"
        /\ \A n \in 1 .. 10 : tools[n] = "read_file" => n > 1 /\ tools[n - 1] = "write_file"
        /\ \A n \in 1 .. 10 : tools[n] = "write_file" => 5 <= n
    BY <2>1
  <2> HIDE DEF tools
  <2> QED
    BY <1>1, <2>2 DEF tools
<1>4. CASE key = "research_aggregate"
  <2>1. tools = <<"http_get", "write_file", "read_file", "summarize", "query_db",
                  "calculate", "write_file", "read_file", "extract_json", "finish">>
    BY <1>4 DEF FirstPlan, PlanScript
  <2>2. /\ Len(tools) = 10 /\ tools[2] = "write_file"
        /\ \A n \in 1 .. 10 : tools[n] = "read_file" => n > 1 /\ tools[n - 1] = "write_file"
        /\ \A n \in 1 .. 10 : tools[n] = "write_file" => 2 <= n
    BY <2>1
  <2> HIDE DEF tools
  <2> QED
    BY <1>1, <2>2 DEF tools
<1>5. CASE key = "audit_trail"
  <2>1. tools = <<"query_db", "write_file", "read_file", "query_db", "calculate",
                  "query_db", "calculate", "write_file", "read_file", "finish">>
    BY <1>5 DEF FirstPlan, PlanScript
  <2>2. /\ Len(tools) = 10 /\ tools[2] = "write_file"
        /\ \A n \in 1 .. 10 : tools[n] = "read_file" => n > 1 /\ tools[n - 1] = "write_file"
        /\ \A n \in 1 .. 10 : tools[n] = "write_file" => 2 <= n
    BY <2>1
  <2> HIDE DEF tools
  <2> QED
    BY <1>1, <2>2 DEF tools
<1> QED
  BY <1>2, <1>3, <1>4, <1>5 DEF PairedKeys

\* Such a script has one plan.
LEMMA PairedPlans ==
  ASSUME NEW key \in PairedKeys
  PROVE  LastPlan(key) = FirstPlan(key)
<1>1. Len(PlanScript[key]) = 1
  BY DEF PairedKeys, PlanScript
<1> QED
  BY <1>1 DEF LastPlan, FirstPlan

\* Whose files are what.
LEMMA ReadersOf ==
  ASSUME NEW key
  PROVE  \/ key \notin DOMAIN ReadPaths
         \/ Elements(ReadPaths[key]) \subseteq Elements(Fixtures)
         \/ key \in PairedKeys
         \/ key = "kitchen_sink"
  BY DEF ReadPaths, PairedKeys, Elements, Fixtures

LEMMA ReadPathsFit ==
  ASSUME NEW key \in DOMAIN ReadPaths
  PROVE  Len(ReadPaths[key]) \in 1 .. 2 /\ DOMAIN ReadPaths[key] = 1 .. Len(ReadPaths[key])
  BY DEF ReadPaths
-----------------------------------------------------------------------------
(* A goal that had one slow call: its steps. *)

\* A slow call leaves behind what a call that works does.
LEMMA SlowCall ==
  ASSUME IInv, ToolIsSlow
  PROVE  /\ pc' = "record" /\ Len(calls') = Len(calls) /\ files' = Written
         /\ UNCHANGED <<plan, pos, planIdx, toolIdx, replans, text>>
         /\ slow \in Nat => slow' # slow
<1>1. TypeOK /\ Len(calls) > 0 /\ LastCall.verdict \in Verdicts /\ "timeout" \in CallStatus
  BY CallTyped DEF ToolIsSlow, IInv, HeldCall, AtCall, LastCall, TypeOK, CallStatus
<1>2. calls' = [calls EXCEPT ![Len(calls)].status = "timeout"] /\ pc' = "record"
  BY DEF ToolIsSlow, ToolTimesOut, ToolFails
<1>3. Len(calls') = Len(calls)
  BY <1>1, <1>2, SetCall
<1> QED
  BY <1>2, <1>3 DEF ToolIsSlow, ToolTimesOut, ToolFails, totals, script, inPlan

\* The first path of a script's writes is there once it has written.
LEMMA PairsWritten ==
  ASSUME NEW key \in PairedKeys, NEW n \in 1 .. Len(FirstPlan(key)), toolIdx \in [Tools -> Nat],
         {"read_file", "write_file"} \subseteq Tools,
         \A t \in Tools : toolIdx[t] = 0 <=> \A i \in 1 .. n : FirstPlan(key)[i] # t
  PROVE  /\ toolIdx["read_file"] > 0 => toolIdx["write_file"] > 0
         /\ toolIdx["write_file"] > 0 => WritePaths[key][1] \in WrittenBy(key, n)
<1> DEFINE tools == FirstPlan(key)
<1>1. toolIdx["read_file"] \in Nat /\ toolIdx["write_file"] \in Nat
  OBVIOUS
<1>2. ASSUME toolIdx["read_file"] > 0 PROVE toolIdx["write_file"] > 0
  <2>1. PICK i \in 1 .. n : tools[i] = "read_file"
    BY <1>1, <1>2
  <2>2. i \in 1 .. Len(tools) /\ i > 1 /\ tools[i - 1] = "write_file"
    BY <2>1, PairedScripts
  <2>3. i - 1 \in 1 .. n
    BY <2>2
  <2> QED
    BY <1>1, <2>2, <2>3
<1>3. ASSUME toolIdx["write_file"] > 0 PROVE WritePaths[key][1] \in WrittenBy(key, n)
  <2>1. PICK i \in 1 .. n : tools[i] = "write_file"
    BY <1>1, <1>3
  <2>2. PICK j \in 1 .. Len(tools) :
          tools[j] = "write_file" /\ \A m \in 1 .. Len(tools) : tools[m] = "write_file" => j <= m
    BY PairedScripts
  <2>3. j \in 1 .. n
    BY <2>1, <2>2
  <2>4. \A m \in 1 .. j - 1 : tools[m] # tools[j]
    BY <2>2
  <2>5. ArgAt(key, j) = WritePaths[key][1]
    BY <2>2, <2>4 DEF ArgAt, ToolArgs
  <2> QED
    BY <2>2, <2>3, <2>5 DEF WrittenBy
<1> QED
  BY <1>2, <1>3

\* Where a goal stands whose first slow call this is.
LEMMA SlowStart ==
  ASSUME Harness, IInv, NEW key, ScriptFits(key), PlainRun(key), Key = key, ToolIsSlow,
         at' = at, Recorded[at].replans = 0, toolIdx \in [Tools -> Nat],
         Elements(Fixtures) \subseteq files
  PROVE  Recovers(key)' \/ ReadsAhead'
<1> DEFINE n == Len(calls)  tools == FirstPlan(key)
<1>t. n \in Nat /\ Len(tools) \in 2 .. 10 /\ Len(PlanScript[key]) \in 1 .. 2
  BY DEF IInv, TypeOK, ScriptFits, PlanFits
<1>1. pc = "invoking" /\ files' = Written
  BY DEF ToolIsSlow
<1>2. /\ planIdx = 1 /\ replans = 0 /\ n <= Len(tools) /\ n > 0
      /\ \A t \in Tools : toolIdx[t] = 0 <=> \A i \in 1 .. n : tools[i] # t
  BY <1>1 DEF PlainRun, BeforePlan, IInv, HeldCall, AtCall
<1>3. /\ WrittenBy(key, n) \subseteq files' /\ Elements(Fixtures) \subseteq files'
  BY <1>1, PlainWorks DEF Written
<1>4. /\ pc' = "record" /\ Len(calls') = n /\ planIdx' = 1 /\ replans' = 0 /\ toolIdx' = toolIdx
      /\ Key' = key
  BY <1>2, SlowCall DEF Key
<1>5. {"read_file", "write_file"} \subseteq Tools
  BY DEF Harness, Registered
<1>6. ReadsFind(key)' => Recovers(key)'
  <2>1. n <= 10 /\ 1 >= Len(PlanScript[key]) - 1 /\ 0 = (0 + 1) - 1
    <3>1. n <= 10
      <4>1. \A m \in Nat, l \in 2 .. 10 : m <= l => m <= 10
        OBVIOUS
      <4> QED
        BY <1>t, <1>2, <4>1
    <3>2. 1 >= Len(PlanScript[key]) - 1
      <4>1. \A l \in 1 .. 2 : 1 >= l - 1
        OBVIOUS
      <4> QED
        BY <1>t, <4>1
    <3> QED
      BY <3>1, <3>2
  <2> QED
    BY <1>4, <2>1 DEF Recovers
<1>7. CASE key \notin DOMAIN ReadPaths
  BY <1>6, <1>7 DEF ReadsFind
<1>8. CASE Elements(ReadPaths[key]) \subseteq Elements(Fixtures)
  BY <1>3, <1>6, <1>8 DEF ReadsFind
<1>9. CASE key \in PairedKeys
  <2>1. /\ toolIdx["read_file"] > 0 => toolIdx["write_file"] > 0
        /\ toolIdx["write_file"] > 0 => WritePaths[key][1] \in files'
    <3>1. n \in 1 .. Len(FirstPlan(key))
      BY <1>t, <1>2
    <3>2. /\ toolIdx["read_file"] > 0 => toolIdx["write_file"] > 0
          /\ toolIdx["write_file"] > 0 => WritePaths[key][1] \in WrittenBy(key, n)
      BY <1>2, <1>5, <1>9, <3>1, PairsWritten
    <3> QED
      BY <1>3, <3>2
  <2>2. Soon' = files' /\ pc' \notin {"subtask", "invoking", "valid"}
    BY <1>4 DEF Soon
  <2>3. PairedReads(key)'
    BY <1>4, <2>1, <2>2 DEF PairedReads
  <2> QED
    BY <1>6, <1>9, <2>3 DEF ReadsFind
<1>10. CASE key = "kitchen_sink"
  <2>1. ReadPaths[key] = <<"long_doc", "kitchen">>
    BY <1>10 DEF ReadPaths
  <2>2. CASE "kitchen" \in files'
    <3>1. Elements(ReadPaths[key]) \subseteq files'
      BY <1>3, <2>1, <2>2 DEF Elements, Fixtures
    <3> QED
      BY <1>6, <3>1 DEF ReadsFind
  <2>3. CASE "kitchen" \notin files'
    <3>1. tools[1] = "read_file"
      BY <1>10 DEF FirstPlan, PlanScript
    <3>2. toolIdx["read_file"] > 0
      BY <1>t, <1>2, <1>5, <3>1
    <3> QED
      BY <1>4, <1>10, <2>3, <3>2 DEF ReadsAhead
  <2> QED
    BY <2>2, <2>3
<1> QED
  BY <1>7, <1>8, <1>9, <1>10, ReadersOf

\* The same for extract_strict, which has replanned once already.
LEMMA StrictSlowStart ==
  ASSUME Harness, IInv, Hinted, Key = "extract_strict", ToolIsSlow,
         at' = at, Recorded[at].replans = 1
  PROVE  Recovers("extract_strict")'
<1>1. /\ pc' = "record" /\ Len(calls') = Len(calls) /\ planIdx' = 2 /\ replans' = 1
      /\ Len(calls) <= 3
  BY SlowCall DEF Hinted, ToolIsSlow
<1>2. ReadsFind("extract_strict")'
  BY DEF ReadsFind, ReadPaths
<1>3. 2 >= Len(PlanScript["extract_strict"]) - 1
  BY StrictPlans
<1>4. Len(calls') <= 10
  BY <1>1
<1> QED
  BY <1>1, <1>2, <1>3, <1>4 DEF Recovers

\* The reads of the later plan go on finding their files.
LEMMA ReadsGoOn ==
  ASSUME Harness, IInv, NEW key, LaterFits(key), Recovers(key), Key = key, ScriptedStep,
         slow' = slow, slow \in Nat, toolIdx \in [Tools -> Nat]
  PROVE  ReadsFind(key)'
<1>t. {"read_file", "write_file"} \subseteq Tools /\ files \subseteq files'
  BY DEF Harness, Registered, ScriptedStep, LoopAlone, AnswerPlan, AnswerSelect, RefuseHint, ToolWorks,
         ToolRefuses, ToolIsSlow, Written
<1>1. ReadsFind(key)
  BY DEF Recovers
<1>2. CASE key \notin DOMAIN ReadPaths \/ Elements(ReadPaths[key]) \subseteq files
  BY <1>t, <1>2 DEF ReadsFind
<1>3. CASE key \in PairedKeys /\ PairedReads(key)
  <2> DEFINE paths == WritePaths[key]
  <2>1. /\ toolIdx["read_file"] > 0 => toolIdx["write_file"] > 0
        /\ toolIdx["write_file"] > 0 => paths[1] \in Soon
    BY <1>3 DEF PairedReads
  <2>2. toolIdx["read_file"] \in Nat /\ toolIdx["write_file"] \in Nat
    BY <1>t
  <2>3. CASE LoopAlone
    <3>1. Soon = files /\ files' = files /\ toolIdx' = toolIdx /\ pc' # "invoking"
      BY <2>3 DEF LoopAlone, script, Soon, Step, Planning, Selecting, Invoking, CreateGoal,
         MissingGoal, MarkRunning, WallClockExceeded, ReplansExceeded, CallPlanner, PlannerFails,
         EmptyPlan, PlanTooDear, AdoptPlan, StepsExceeded, CostExceeded, SelectorFails, SelectTool,
         RecordNoTool, GiveUp, ToolTimesOut, ToolErrors, ToolFails, ToolReturns, RejectOutput,
         AcceptOutput, RecordReplan, PlanExhausted, Succeed, Abort
    <3>2. \/ pc' \notin {"subtask", "invoking", "valid"}
          \/ pc = "valid" /\ pc' = "subtask" /\ pos' = pos + 1 /\ plan' = plan
      BY <2>3 DEF LoopAlone, Step, Planning, Selecting, Invoking, CreateGoal,
         MissingGoal, MarkRunning, WallClockExceeded, ReplansExceeded, CallPlanner, PlannerFails,
         EmptyPlan, PlanTooDear, AdoptPlan, StepsExceeded, CostExceeded, SelectorFails, SelectTool,
         RecordNoTool, GiveUp, ToolTimesOut, ToolErrors, ToolFails, ToolReturns, RejectOutput,
         AcceptOutput, RecordReplan, PlanExhausted, Succeed, Abort
    <3>3. Soon' = Soon
      BY <3>1 DEF Soon
    <3>4. CASE pc' \notin {"subtask", "invoking", "valid"}
      BY <1>3, <2>1, <3>1, <3>3, <3>4 DEF PairedReads, ReadsFind
    <3>5. CASE pc = "valid" /\ pc' = "subtask" /\ pos' = pos + 1 /\ plan' = plan
      <4>1. pos \in Nat
        BY DEF IInv, TypeOK
      <4>2. pos' - 1 = pos
        BY <3>5, <4>1
      <4> QED
        BY <1>3, <3>1, <3>3, <3>5, <4>2 DEF PairedReads, ReadsFind
    <3> QED
      BY <3>2, <3>4, <3>5
  <2>4. CASE AnswerPlan
    <3>1. pc = "planning" /\ pc' = "subtask" /\ pos' = 1 /\ UNCHANGED <<toolIdx, files>>
      BY <2>4 DEF AnswerPlan, AdoptPlan
    <3>2. Soon' = Soon
      BY <3>1 DEF Soon
    <3> QED
      BY <1>3, <2>1, <3>1, <3>2 DEF PairedReads, ReadsFind
  <2>5. CASE AnswerSelect
    <3> DEFINE tool == plan[pos]
    <3>1. /\ pc = "subtask" /\ pc' = "invoking" /\ UNCHANGED <<plan, pos, files, planIdx>>
          /\ toolIdx' = [toolIdx EXCEPT ![tool] = @ + 1] /\ tool \in Tools
      BY <2>5 DEF AnswerSelect, SelectTool, Admitted, inPlan
    <3>2. LastCall'.tool = tool
      BY <2>5, CallOpens DEF IInv, LastCall
    <3>3. plan = FirstPlan(key) /\ pos \in 1 .. Len(FirstPlan(key))
      <4>1. plan = LastPlan(key) /\ pos \in 1 .. Len(LastPlan(key))
        BY <3>1 DEF Recovers
      <4>2. LastPlan(key) = FirstPlan(key)
        BY <1>3, PairedPlans
      <4> QED
        BY <4>1, <4>2
    <3>4. tool = "write_file" =>
            arg' = (IF toolIdx["write_file"] = 0 THEN paths[1] ELSE paths[Len(paths)])
      <4>1. Len(paths) \in 1 .. 2
        BY <1>3, PairedScripts
      <4>2. tool = "write_file" => arg' = Clamped(paths, toolIdx["write_file"])
        BY <2>5 DEF AnswerSelect, ToolArgs
      <4> QED
        BY <2>2, <4>1, <4>2, ClampedIs
    <3>5. Soon = files /\ Soon' = IF tool = "write_file" THEN files \cup {arg'} ELSE files
      BY <3>1, <3>2 DEF Soon, Written
    <3>6. /\ toolIdx'["read_file"] = toolIdx["read_file"] + (IF tool = "read_file" THEN 1 ELSE 0)
          /\ toolIdx'["write_file"] = toolIdx["write_file"] + (IF tool = "write_file" THEN 1 ELSE 0)
      BY <1>t, <2>2, <3>1
    <3>7. toolIdx'["read_file"] > 0 => toolIdx'["write_file"] > 0
      <4>1. CASE tool = "read_file"
        <5>1. pos - 1 > 0 /\ plan[pos - 1] = "write_file"
          BY <1>3, <3>3, <4>1, PairedScripts
        <5>2. toolIdx["write_file"] > 0
          BY <1>3, <3>1, <5>1 DEF PairedReads
        <5> QED
          BY <2>2, <3>6, <5>2
      <4>2. CASE tool # "read_file"
        BY <2>1, <2>2, <3>6, <4>2
      <4> QED
        BY <4>1, <4>2
    <3>8. toolIdx'["write_file"] > 0 => paths[1] \in Soon'
      BY <2>1, <2>2, <3>4, <3>5, <3>6
    <3>9. tool = "write_file" =>
            /\ toolIdx'["write_file"] > 0
            /\ toolIdx'["read_file"] > 0 => paths[Len(paths)] \in Soon'
      BY <2>1, <2>2, <3>4, <3>5, <3>6
    <3> HIDE DEF paths, tool
    <3>10. plan'[pos'] = tool
      BY <3>1 DEF tool
    <3>11. PairedReads(key)'
      BY <3>1, <3>7, <3>8, <3>9, <3>10 DEF PairedReads, paths
    <3> QED
      BY <1>3, <3>11 DEF ReadsFind
  <2>6. CASE ToolWorks
    <3>1. /\ pc = "invoking" /\ pc' = "valid" /\ UNCHANGED <<plan, pos, toolIdx>>
          /\ files' = Written
      BY <2>6, CallJudged DEF ToolWorks, ToolReturns, inPlan, script
    <3>2. Soon' = Soon
      BY <3>1 DEF Soon
    <3> QED
      BY <1>3, <3>1, <3>2 DEF PairedReads, ReadsFind
  <2>7. CASE ToolRefuses
    BY <2>7 DEF ToolRefuses, Recovers
  <2>8. CASE RefuseHint
    <3>1. plan = LastPlan(key) /\ pos \in 1 .. Len(LastPlan(key))
      BY <2>8 DEF RefuseHint, Admitted, Recovers
    <3> QED
      BY <2>8, <3>1 DEF RefuseHint, LaterFits
  <2>9. CASE ToolIsSlow
    BY <2>9 DEF ToolIsSlow
  <2> QED
    BY <2>3, <2>4, <2>5, <2>6, <2>7, <2>8, <2>9 DEF ScriptedStep
<1> QED
  BY <1>1, <1>2, <1>3 DEF ReadsFind

\* What the loop does on its own on a goal that recovers.
LEMMA RecoverLoop ==
  ASSUME Harness, IInv, CostInv, NEW key, LaterFits(key), Recovers(key), LoopAlone, at' = at,
         Recorded[at].replans \in {0, 1}, ReadsFind(key)'
  PROVE  Recovers(key)'
<1> DEFINE n == Len(calls)  last == LastPlan(key)  once == Recorded[at].replans + 1
<1>t. n \in Nat /\ steps = n /\ Len(last) \in 2 .. 10 /\ once \in 1 .. 2
  BY DEF IInv, TypeOK, Counters, LaterFits
<1>u. planIdx' = planIdx /\ Recorded[at'].replans + 1 = once
  BY DEF LoopAlone, script
<1>1. CASE RecordReplan
  <2>1. pc = "record" /\ pc' = "top" /\ replans' = replans + 1 /\ calls' = calls
    BY <1>1 DEF RecordReplan, RecordEvent
  <2>2. replans = once - 1 /\ n <= 10 /\ planIdx >= Len(PlanScript[key]) - 1
    BY <2>1 DEF Recovers
  <2>3. replans' = once
    BY <1>t, <2>1, <2>2
  <2> QED
    BY <1>u, <2>1, <2>2, <2>3 DEF Recovers
<1>2. CASE CallPlanner
  <2>1. pc = "top" /\ pc' = "planning" /\ replans' = replans /\ calls' = calls
    BY <1>2 DEF CallPlanner, totals, db
  <2>2. replans = once /\ n <= 10 /\ planIdx >= Len(PlanScript[key]) - 1
    BY <2>1 DEF Recovers
  <2> QED
    BY <1>u, <2>1, <2>2 DEF Recovers
<1>3. CASE AcceptOutput
  <2>1. pc = "valid" /\ UNCHANGED <<calls, plan, replans>>
    BY <1>3 DEF AcceptOutput, totals
  <2>2. /\ replans = once /\ plan = last /\ (key = "extract_strict" => planIdx = 2)
        /\ pos \in 1 .. Len(last) /\ n <= 10 + pos /\ LastCall.tool = last[pos]
    BY <2>1 DEF Recovers
  <2>3. LastCall.tool = "finish" <=> pos = Len(last)
    BY <2>2 DEF LaterFits
  <2>4. IF pos = Len(last) THEN pc' = "finished" /\ pos' = pos ELSE pc' = "subtask" /\ pos' = pos + 1
    BY <1>3, <2>3 DEF AcceptOutput, Harness, Registered
  <2>5. CASE pos = Len(last)
    BY <1>u, <2>1, <2>2, <2>4, <2>5 DEF Recovers
  <2>6. CASE pos # Len(last)
    <3>1. pos' \in 1 .. Len(last) /\ n <= 9 + pos'
      BY <1>t, <2>2, <2>4, <2>6
    <3> QED
      BY <1>u, <2>1, <2>2, <2>4, <2>6, <3>1 DEF Recovers
  <2> QED
    BY <2>5, <2>6
<1>4. CASE Succeed
  BY <1>4, <1>u DEF Succeed, totals, inPlan, Recovers
<1>5. ~ (WallClockExceeded \/ ReplansExceeded \/ RecordNoTool \/ GiveUp \/ RejectOutput
         \/ CreateGoal \/ MissingGoal \/ MarkRunning)
  <2>1. ~expired /\ MaxReplans = 5
    BY DEF CostInv, Harness, Registered
  <2>2. pc \in {"record", "top", "planning", "subtask", "invoking", "valid", "finished",
                "succeeded"}
    BY DEF Recovers
  <2>3. pc = "top" => replans = once
    BY DEF Recovers
  <2> HIDE DEF once
  <2>4. pc = "top" => ~(replans > MaxReplans)
    BY <1>t, <2>1, <2>3
  <2> QED
    BY <2>1, <2>2, <2>4 DEF WallClockExceeded, ReplansExceeded, RecordNoTool, GiveUp, RejectOutput,
                            CreateGoal, MissingGoal, MarkRunning
<1>6. ~ (StepsExceeded \/ CostExceeded \/ PlanExhausted)
  <2> SUFFICES ASSUME pc = "subtask"
               PROVE  ~ (steps >= MaxSteps \/ cost > MaxCost \/ pos > Len(plan))
    BY DEF StepsExceeded, CostExceeded, PlanExhausted
  <2>1. plan = last /\ pos \in 1 .. Len(last) /\ n <= 9 + pos /\ replans = once
    BY DEF Recovers
  <2>2. cost = 8 * (replans + 1) + 4 * steps
    BY DEF CostInv, PlansAsked, BetweenPlans, PlanCost, SelectCost
  <2>3. MaxSteps = 20 /\ MaxCost = 5000
    BY DEF Harness, Registered
  <2> HIDE DEF once, last, n
  <2>4. pos \in Nat /\ pos <= Len(plan) /\ pos <= 10
    <3>1. \A m \in 2 .. 10 : \A j \in 1 .. m : j \in Nat /\ j <= m /\ j <= 10
      OBVIOUS
    <3> QED
      BY <1>t, <2>1, <3>1
  <2>5. steps \in Nat /\ steps <= 19
    BY <1>t, <2>1, <2>4
  <2>6. cost <= 100
    BY <1>t, <2>1, <2>2, <2>5
  <2>7. cost \in Nat
    BY DEF IInv, TypeOK
  <2> QED
    BY <2>3, <2>4, <2>5, <2>6, <2>7
<1> QED
  BY <1>1, <1>2, <1>3, <1>4, <1>5, <1>6
  DEF LoopAlone, Step, Planning, Selecting, Invoking, PlannerFails,
      EmptyPlan, PlanTooDear, AdoptPlan, SelectorFails, SelectTool, ToolTimesOut,
      ToolErrors, ToolFails, ToolReturns

\* The plan it gets is the last of its script.
LEMMA RecoverPlan ==
  ASSUME IInv, NEW key, LaterFits(key), Recovers(key), Key = key, AnswerPlan, at' = at,
         planIdx \in Nat, ReadsFind(key)'
  PROVE  Recovers(key)'
<1> DEFINE last == LastPlan(key)  l == Len(PlanScript[key])
<1>1. /\ pc = "planning" /\ pc' = "subtask" /\ pos' = 1 /\ UNCHANGED <<calls, replans>>
      /\ plan' = Clamped(PlanScript[key], planIdx)
      /\ planIdx' = IF planIdx < l THEN planIdx + 1 ELSE l
  BY DEF AnswerPlan, AdoptPlan
<1>2. replans = Recorded[at].replans + 1 /\ Len(calls) <= 10 /\ planIdx >= l - 1 /\ l \in 1 .. 2
  BY <1>1 DEF Recovers, LaterFits
<1>3. plan' = last
  <2>1. (IF planIdx < l THEN planIdx + 1 ELSE l) = l
    BY <1>2
  <2> QED
    BY <1>1, <2>1 DEF Clamped, LastPlan
<1>4. key = "extract_strict" => planIdx' = 2
  <2>1. key = "extract_strict" => l = 2
    BY StrictPlans
  <2> HIDE DEF l
  <2> QED
    BY <1>1, <1>2, <2>1
<1>5. pos' \in 1 .. Len(last) /\ Len(calls') <= 9 + pos'
  <2>1. Len(last) \in 2 .. 10 /\ Len(calls) \in Nat
    BY DEF LaterFits, IInv, TypeOK
  <2>2. Len(calls') = Len(calls)
    BY <1>1
  <2>3. \A m \in 2 .. 10 : 1 \in 1 .. m
    OBVIOUS
  <2>4. Len(calls') <= 9 + 1
    BY <1>2, <2>1, <2>2
  <2> HIDE DEF last, l
  <2> QED
    BY <1>1, <2>1, <2>3, <2>4
<1> QED
  BY <1>1, <1>2, <1>3, <1>4, <1>5 DEF Recovers

\* The call it makes will work.
LEMMA RecoverSelect ==
  ASSUME Harness, IInv, NEW key, LaterFits(key), Recovers(key), Key = key, AnswerSelect, at' = at,
         toolIdx \in [Tools -> Nat], ReadsFind(key)'
  PROVE  Recovers(key)'
<1> DEFINE tool == plan[pos]  last == LastPlan(key)
<1>1. /\ pc = "subtask" /\ pc' = "invoking" /\ UNCHANGED <<plan, pos, files, planIdx, replans>>
      /\ tool \in Tools
  BY DEF AnswerSelect, SelectTool, Admitted, inPlan
<1>2. /\ replans = Recorded[at].replans + 1 /\ plan = last
      /\ (key = "extract_strict" => planIdx = 2)
      /\ pos \in 1 .. Len(last) /\ Len(calls) <= 9 + pos /\ ReadsFind(key)
  BY <1>1 DEF Recovers
<1>3. LastCall'.tool = tool /\ Len(calls') = Len(calls) + 1
  BY CallOpens DEF IInv, LastCall
<1>4. arg' = IF <<key, planIdx>> \in HintedPlans /\ tool = "extract_json"
               THEN "hint" ELSE Clamped(ToolArgs(key, tool), toolIdx[tool])
  BY DEF AnswerSelect
<1>5. toolIdx[tool] \in Nat
  BY <1>1
<1>6. tool = "extract_json" => arg' = "hint"
  <2>1. CASE key = "extract_strict"
    BY <1>2, <1>4, <2>1 DEF HintedPlans
  <2>2. CASE key # "extract_strict" /\ tool = "extract_json"
    <3>1. ToolArgs(key, tool) = <<"hint">> /\ <<key, planIdx>> \notin HintedPlans
      BY <2>2 DEF ToolArgs, HintedPlans
    <3>2. Clamped(<<"hint">>, toolIdx[tool]) = "hint"
      BY <1>5 DEF Clamped
    <3> QED
      BY <1>4, <3>1, <3>2
  <2> QED
    BY <2>1, <2>2
<1>7. tool = "read_file" => arg' \in files
  <2> SUFFICES ASSUME tool = "read_file"
               PROVE  arg' \in files
    OBVIOUS
  <2>1. key \in DOMAIN ReadPaths
    BY <1>2 DEF LaterFits
  <2>2. arg' = IF toolIdx["read_file"] = 0 THEN ReadPaths[key][1]
                                           ELSE ReadPaths[key][Len(ReadPaths[key])]
    <3>1. arg' = Clamped(ReadPaths[key], toolIdx["read_file"])
      BY <1>4 DEF ToolArgs
    <3> QED
      BY <1>5, <2>1, <3>1, ClampedIs, ReadPathsFit
  <2>3. CASE Elements(ReadPaths[key]) \subseteq files
    <3>1. 1 \in DOMAIN ReadPaths[key] /\ Len(ReadPaths[key]) \in DOMAIN ReadPaths[key]
      BY <2>1, ReadPathsFit
    <3> QED
      BY <2>2, <2>3, <3>1 DEF Elements
  <2>4. CASE key \in PairedKeys /\ PairedReads(key)
    <3>1. ReadPaths[key] = WritePaths[key] /\ last = FirstPlan(key)
      BY <2>4, PairedScripts, PairedPlans
    <3>2. pos - 1 > 0 /\ plan[pos - 1] = "write_file"
      BY <1>2, <2>4, <3>1, PairedScripts
    <3>3. toolIdx["write_file"] > 0 /\ Soon = files
      BY <1>1, <2>4, <3>2 DEF PairedReads, Soon
    <3>4. /\ WritePaths[key][1] \in files
          /\ toolIdx["read_file"] > 0 => WritePaths[key][Len(WritePaths[key])] \in files
      BY <1>1, <2>4, <3>2, <3>3 DEF PairedReads
    <3> QED
      BY <1>5, <2>2, <3>1, <3>4
  <2> QED
    BY <1>2, <2>1, <2>3, <2>4 DEF ReadsFind
<1>8. Works'
  BY <1>1, <1>3, <1>6, <1>7 DEF Works
<1>9. Len(calls') <= 10 + pos /\ pos' \in 1 .. Len(last)
  <2>1. Len(calls) \in Nat
    BY DEF IInv, TypeOK
  <2> QED
    BY <1>1, <1>2, <1>3, <2>1 DEF LaterFits
<1>10. plan' = last /\ LastCall'.tool = last[pos']
  BY <1>1, <1>2, <1>3
<1> HIDE DEF tool, last
<1> QED
  BY <1>1, <1>2, <1>8, <1>9, <1>10 DEF Recovers, last

\* A goal that recovers goes on recovering, while no other call is slow.
LEMMA RecoverStep ==
  ASSUME Harness, IInv, CostInv, NEW key, LaterFits(key), Recovers(key), Key = key, ScriptedStep,
         slow' = slow, slow \in Nat, toolIdx \in [Tools -> Nat], planIdx \in Nat, at' = at,
         Recorded[at].replans \in {0, 1}
  PROVE  Recovers(key)'
<1>1. ReadsFind(key)'
  BY ReadsGoOn
<1>2. CASE LoopAlone
  BY <1>1, <1>2, RecoverLoop
<1>3. CASE AnswerPlan
  BY <1>1, <1>3, RecoverPlan
<1>4. CASE AnswerSelect
  BY <1>1, <1>4, RecoverSelect
<1>5. CASE ToolWorks
  <2>1. /\ pc = "invoking" /\ pc' = "valid" /\ UNCHANGED <<plan, pos, planIdx, replans>>
        /\ Len(calls') = Len(calls) /\ LastCall'.tool = LastCall.tool
    <3>1. pc = "invoking" /\ UNCHANGED <<plan, pos, planIdx, replans>>
      BY <1>5 DEF ToolWorks, ToolReturns, inPlan, totals, script
    <3>2. Len(calls) \in 1 .. Len(calls)
      BY <3>1 DEF IInv, TypeOK, HeldCall, AtCall
    <3> QED
      BY <1>5, <3>1, <3>2, CallJudged DEF LastCall
  <2> QED
    BY <1>1, <2>1 DEF Recovers
<1>6. CASE ToolRefuses
  BY <1>6 DEF ToolRefuses, Recovers
<1>7. CASE RefuseHint
  <2>1. plan = LastPlan(key) /\ pos \in 1 .. Len(LastPlan(key))
    BY <1>7 DEF RefuseHint, Admitted, Recovers
  <2> QED
    BY <1>7, <2>1 DEF RefuseHint, LaterFits
<1>8. CASE ToolIsSlow
  BY <1>8 DEF ToolIsSlow
<1> QED
  BY <1>2, <1>3, <1>4, <1>5, <1>6, <1>7, <1>8 DEF ScriptedStep
-----------------------------------------------------------------------------
(* A goal that had one slow call: the invariant. *)

\* Only a slow call is counted as one.
LEMMA SlowIsCounted == ScriptedStep /\ slow' # slow => ToolIsSlow
  BY DEF ScriptedStep, LoopAlone, AnswerPlan, AnswerSelect, RefuseHint, ToolWorks, ToolRefuses

\* The tools' effects are all that changes the workspace.
LEMMA FilesWritten ==
  ASSUME ScriptedStep
  PROVE  files' = files \/ (pc = "invoking" /\ files' = Written)
  BY DEF ScriptedStep, LoopAlone, AnswerPlan, AnswerSelect, RefuseHint, ToolWorks, ToolRefuses,
         ToolIsSlow

\* The script of kitchen_sink.
LEMMA KitchenScript ==
  LET plans == PlanScript["kitchen_sink"]
  IN  /\ Len(plans) = 1 /\ LastPlan("kitchen_sink")[1] = "read_file"
      /\ ReadPaths["kitchen_sink"] = <<"long_doc", "kitchen">>
<1>1. Len(PlanScript["kitchen_sink"]) = 1
  BY DEF PlanScript
<1>2. PlanScript["kitchen_sink"][1][1] = "read_file"
  BY DEF PlanScript
<1>3. ReadPaths["kitchen_sink"] = <<"long_doc", "kitchen">>
  BY DEF ReadPaths
<1> QED
  BY <1>1, <1>2, <1>3 DEF LastPlan

\* A goal that reads ahead does nothing else until it is lost.
LEMMA ReadsAheadStep ==
  ASSUME Harness, IInv, CostInv, ReadsAhead, ScriptedStep, toolIdx \in [Tools -> Nat],
         planIdx \in Nat
  PROVE  ReadsAhead'
<1>t. "read_file" \in Tools /\ toolIdx["read_file"] \in Nat /\ text' = text
  BY DEF Harness, Registered, ScriptedStep, LoopAlone, AnswerPlan, AnswerSelect, RefuseHint, ToolWorks,
         ToolRefuses, ToolIsSlow
<1>k. Key = "kitchen_sink" /\ Key' = "kitchen_sink" /\ "kitchen" \notin files
      /\ toolIdx["read_file"] > 0
  BY <1>t DEF ReadsAhead, Key
<1>1. CASE LoopAlone
  <2>1. UNCHANGED <<toolIdx, files>>
    BY <1>1 DEF LoopAlone, script
  <2>2. pc' \in {"record", "top", "planning", "aborted"}
    <3>1. pc \in {"record", "top", "subtask", "aborted"}
      BY <1>1 DEF LoopAlone, ReadsAhead
    <3> QED
      BY <1>1, <3>1 DEF LoopAlone, Step, Planning, Selecting, Invoking, CreateGoal,
         MissingGoal, MarkRunning, WallClockExceeded, ReplansExceeded, CallPlanner, PlannerFails,
         EmptyPlan, PlanTooDear, AdoptPlan, StepsExceeded, CostExceeded, SelectorFails, SelectTool,
         RecordNoTool, GiveUp, ToolTimesOut, ToolErrors, ToolFails, ToolReturns, RejectOutput,
         AcceptOutput, RecordReplan, PlanExhausted, Succeed, Abort
  <2> QED
    BY <1>k, <2>1, <2>2 DEF ReadsAhead
<1>2. CASE AnswerPlan
  <2>1. /\ pc' = "subtask" /\ pos' = 1 /\ UNCHANGED <<toolIdx, files>>
        /\ plan' = Clamped(PlanScript["kitchen_sink"], planIdx)
    BY <1>2, <1>k DEF AnswerPlan, AdoptPlan
  <2>2. plan' = LastPlan("kitchen_sink")
    <3>1. (IF planIdx < 1 THEN planIdx + 1 ELSE 1) = 1
      BY DEF ReadsAhead
    <3> QED
      BY <2>1, <3>1, KitchenScript DEF Clamped, LastPlan
  <2> QED
    BY <1>k, <2>1, <2>2 DEF ReadsAhead
<1>3. CASE AnswerSelect
  <2>1. /\ pc = "subtask" /\ pc' = "invoking" /\ UNCHANGED <<plan, pos, files>>
        /\ toolIdx' = [toolIdx EXCEPT ![plan[pos]] = @ + 1]
    BY <1>3 DEF AnswerSelect, SelectTool, Admitted, inPlan
  <2>2. plan = LastPlan("kitchen_sink") /\ pos = 1 /\ plan[pos] = "read_file"
    BY <2>1, KitchenScript DEF ReadsAhead
  <2>3. LastCall'.tool = "read_file"
    BY <1>3, <2>2, CallOpens DEF IInv, LastCall
  <2>4. arg' = "kitchen"
    <3> DEFINE paths == ReadPaths["kitchen_sink"]
    <3>1. arg' = Clamped(paths, toolIdx["read_file"])
      BY <1>3, <1>k, <2>2 DEF AnswerSelect, ToolArgs
    <3>2. Len(paths) \in 1 .. 2 /\ paths[Len(paths)] = "kitchen"
      BY KitchenScript
    <3> HIDE DEF paths
    <3>3. Clamped(paths, toolIdx["read_file"]) = paths[Len(paths)]
      BY <1>t, <1>k, <3>2, ClampedIs
    <3> QED
      BY <3>1, <3>2, <3>3
  <2>5. toolIdx'["read_file"] > 0
    BY <1>t, <1>k, <2>1, <2>2
  <2> QED
    BY <1>k, <2>1, <2>2, <2>3, <2>4, <2>5 DEF ReadsAhead
<1>4. CASE RefuseHint
  BY <1>4, <1>t, KitchenScript DEF RefuseHint, Admitted, ReadsAhead
<1>5. CASE ToolWorks \/ ToolIsSlow
  BY <1>5, <1>k DEF ToolWorks, ToolIsSlow, Works, ReadsAhead
<1>6. CASE ToolRefuses
  BY <1>6, <1>k DEF ToolRefuses, ToolErrors, ToolFails, script, ReadsAhead
<1> QED
  BY <1>1, <1>2, <1>3, <1>4, <1>5, <1>6 DEF ScriptedStep

\* The last goal of the suite writes files of its own.
LEMMA WritesOwnStep ==
  ASSUME Harness, IInv, ScriptedStep, toolIdx \in [Tools -> Nat],
         at' = 20 => Key = "audit_trail"
  PROVE  WritesOwn'
<1> SUFFICES ASSUME at' = 20, pc' = "invoking", LastCall'.tool = "write_file"
             PROVE  arg' # "kitchen"
  BY DEF WritesOwn
<1>1. AnswerSelect
  <2>1. CASE LoopAlone
    BY <2>1 DEF LoopAlone, Step, Planning, Selecting, Invoking, CreateGoal,
       MissingGoal, MarkRunning, WallClockExceeded, ReplansExceeded, CallPlanner, PlannerFails,
       EmptyPlan, PlanTooDear, AdoptPlan, StepsExceeded, CostExceeded, SelectorFails, SelectTool,
       RecordNoTool, GiveUp, ToolTimesOut, ToolErrors, ToolFails, ToolReturns, RejectOutput,
       AcceptOutput, RecordReplan, PlanExhausted, Succeed, Abort
  <2> QED
    BY <2>1 DEF ScriptedStep, AnswerPlan, AdoptPlan, RefuseHint, SelectorFails, ToolWorks,
                ToolReturns, ToolRefuses, ToolErrors, ToolIsSlow, ToolTimesOut, ToolFails
<1>2. plan[pos] = "write_file" /\ plan[pos] \in Tools
  BY <1>1, CallOpens DEF IInv, LastCall, AnswerSelect
<1> DEFINE paths == WritePaths["audit_trail"]
<1>3. arg' = Clamped(paths, toolIdx["write_file"])
  BY <1>1, <1>2 DEF AnswerSelect, ToolArgs
<1>4. Len(paths) \in 1 .. 2 /\ paths[1] = "snapshot" /\ paths[Len(paths)] = "audit_summary"
  BY DEF WritePaths
<1>5. toolIdx["write_file"] \in Nat
  BY <1>2
<1> HIDE DEF paths
<1> QED
  BY <1>3, <1>4, <1>5, ClampedIs

\* What is said of the script in hand can be said of it by its name.
LEMMA RecoverKey ==
  ASSUME NEW CONSTANT key
  PROVE  Key = key => (Recovers(Key) <=> Recovers(key))
  OBVIOUS

\* A goal that has had one slow call recovers, or reads ahead.
LEMMA RecoverRun ==
  ASSUME Harness, IInv, CostInv, SuiteInv, RecoverInv, RunGoal, at \in (slowGoals \ slowTwice)'
  PROVE  Recovers(Key)' \/ ReadsAhead'
<1>0. /\ at \in 1 .. 20 /\ at' = at /\ ScriptedStep
      /\ slowGoals' = IF slow' = slow THEN slowGoals ELSE slowGoals \cup {at}
      /\ slowTwice' = IF slow' = slow THEN slowTwice ELSE slowTwice \cup (slowGoals \cap {at})
      /\ planIdx \in Nat /\ toolIdx \in [Tools -> Nat] /\ slow \in Nat
  BY SuiteLength DEF RunGoal, SuiteInv, Bookkeeping
<1>1. /\ text = Suite[at].text /\ Elements(Fixtures) \subseteq files
      /\ pc = "start" => goal.status = "pending"
  BY <1>0, SuiteLength DEF SuiteInv, GoalOnCourse
<1>2. Key = SuiteKeys[at] /\ Key' = Key
  BY <1>0, <1>1, SuiteClassified, ScriptedFrame DEF Key
<1>3. at # 13
  <2> SUFFICES ASSUME at = 13 PROVE FALSE
    OBVIOUS
  <2>1. at \notin slowGoals /\ UnregisteredRun /\ Key = "send_email"
    BY <1>0, <1>2, SuiteLength DEF SuiteInv, GoalOnCourse, SuiteKeys
  <2>2. slow' = slow
    BY <1>0, <1>1, <2>1, UnregisteredStep
  <2> QED
    BY <1>0, <2>1, <2>2
<1>4. PICK key : key = SuiteKeys[at]
  OBVIOUS
<1>5. LaterFits(key) /\ Key = key /\ Key' = key
  BY <1>0, <1>2, <1>3, <1>4, LaterPlansFit
<1>6. Recovers(key)' \/ ReadsAhead'
  <2>1. CASE at \in slowGoals
    <3>1. slow' = slow /\ at \in slowGoals \ slowTwice
      BY <1>0, <2>1
    <3>2. Recovers(key) \/ ReadsAhead
      BY <1>5, <3>1 DEF RecoverInv
    <3>3. Recorded[at].replans \in {0, 1}
      BY <1>0, <1>3, RecordedReplans
    <3> QED
      BY <1>0, <1>5, <3>1, <3>2, <3>3, RecoverStep, ReadsAheadStep
  <2>2. CASE at \notin slowGoals
    <3>1. ToolIsSlow
      BY <1>0, <2>2, SlowIsCounted
    <3>2. CASE at # 15
      <4>1. PlainRun(key) /\ ScriptFits(key) /\ Recorded[at].replans = 0
        BY <1>0, <1>3, <1>4, <1>5, <2>2, <3>2, ScriptsFit, RecordedReplans, SuiteLength
        DEF SuiteInv, GoalOnCourse
      <4> QED
        BY <1>0, <1>1, <1>5, <3>1, <4>1, SlowStart
    <3>3. CASE at = 15
      <4>1. StrictRun /\ key = "extract_strict" /\ Recorded[at].replans = 1
        BY <1>0, <1>4, <2>2, <3>3, RecordedReplans, SuiteLength
        DEF SuiteInv, GoalOnCourse, SuiteKeys
      <4>2. Hinted
        BY <1>0, <1>1, <1>5, <2>2, <4>1, StrictHalves, UnhintedStep
      <4> QED
        BY <1>0, <1>5, <3>1, <4>1, <4>2, StrictSlowStart
    <3> QED
      BY <3>2, <3>3
  <2> QED
    BY <2>1, <2>2
<1>7. (Key = key => (Recovers(Key) <=> Recovers(key)))'
  BY RecoverKey, PTL
<1> QED
  BY <1>5, <1>6, <1>7

\* The rows that are there: what is not in the workspace is not written any more.
OneSlowRow(i) ==
  \/ report[i].status = "succeeded" /\ report[i].replans = Recorded[i].replans + 1
  \/ i = 19 /\ "kitchen" \notin files

\* Every step of the goal in hand.
LEMMA RecoverRunKeeps ==
  ASSUME Harness, IInv, CostInv, SuiteInv, RecoverInv, RunGoal
  PROVE  RecoverInv'
<1>0. /\ at \in 1 .. 20 /\ ScriptedStep /\ at' = at /\ report' = report
      /\ DOMAIN report = 1 .. at - 1 /\ toolIdx \in [Tools -> Nat]
      /\ slowGoals' = IF slow' = slow THEN slowGoals ELSE slowGoals \cup {at}
      /\ slowTwice' = IF slow' = slow THEN slowTwice ELSE slowTwice \cup (slowGoals \cap {at})
  BY SuiteLength DEF RunGoal, SuiteInv, Bookkeeping
<1>1. WritesOwn'
  <2>1. at = 20 => Key = "audit_trail"
    <3>1. Key = SuiteKeys[at]
      BY <1>0, SuiteClassified, SuiteLength DEF SuiteInv, GoalOnCourse, Key
    <3> QED
      BY <3>1 DEF SuiteKeys
  <2> QED
    BY <1>0, <2>1, WritesOwnStep
<1>2. at' \in slowGoals' \ slowTwice' => Recovers(Key)' \/ ReadsAhead'
  BY <1>0, RecoverRun
<1>3. ASSUME NEW i \in (slowGoals' \ slowTwice') \cap DOMAIN report'
      PROVE  OneSlowRow(i)'
  <2>1. i \in (slowGoals \ slowTwice) \cap DOMAIN report /\ i \in 1 .. at - 1
    BY <1>0, <1>3
  <2>2. OneSlowRow(i)
    BY <2>1 DEF RecoverInv, OneSlowRow
  <2>3. CASE i = 19 /\ "kitchen" \notin files
    <3>1. at = 20
      BY <1>0, <2>1, <2>3
    <3>2. "kitchen" \notin files'
      BY <1>0, <2>3, <3>1, FilesWritten DEF RecoverInv, WritesOwn, Written
    <3> QED
      BY <2>3, <3>2 DEF OneSlowRow
  <2>4. CASE ~ (i = 19 /\ "kitchen" \notin files)
    BY <1>0, <2>2, <2>4 DEF OneSlowRow
  <2> QED
    BY <2>3, <2>4
<1> QED
  BY <1>1, <1>2, <1>3 DEF RecoverInv, OneSlowRow

\* The row of a goal that has ended.
LEMMA RecoverNextGoal ==
  ASSUME Harness, IInv, CostInv, SuiteInv, IsReport, RecoverInv, NextGoal
  PROVE  RecoverInv'
<1>0. /\ at \in 1 .. 20 /\ at' = at + 1 /\ pc \in {"succeeded", "aborted"} /\ pc' = "create"
      /\ UNCHANGED <<files, slowGoals, slowTwice>>
      /\ DOMAIN report = 1 .. at - 1 /\ slowGoals \subseteq 1 .. at
  BY SuiteLength DEF NextGoal, NewRun, SuiteInv, Bookkeeping
<1>1. /\ DOMAIN report' = 1 .. at /\ report'[at] = ResultRow
      /\ \A i \in 1 .. at - 1 : report'[i] = report[i]
  BY <1>0, RowAppended DEF NextGoal
<1>2. WritesOwn'
  BY <1>0 DEF WritesOwn
<1>3. at' \notin slowGoals'
  BY <1>0
<1>4. ASSUME NEW i \in (slowGoals' \ slowTwice') \cap DOMAIN report'
      PROVE  OneSlowRow(i)'
  <2>1. CASE i # at
    <3>1. i \in 1 .. at - 1
      <4>1. i \in 1 .. at
        BY <1>1, <1>4
      <4> QED
        BY <1>0, <2>1, <4>1
    <3>2. i \in slowGoals \ slowTwice
      BY <1>0, <1>4
    <3>3. OneSlowRow(i)
      BY <1>0, <3>1, <3>2 DEF RecoverInv, OneSlowRow
    <3>4. report'[i] = report[i]
      BY <1>1, <3>1
    <3> QED
      BY <1>0, <3>3, <3>4 DEF OneSlowRow
  <2>2. CASE i = at
    <3>1. Recovers(Key) \/ ReadsAhead
      BY <1>0, <1>4, <2>2 DEF RecoverInv
    <3>2. CASE Recovers(Key)
      <4>1. pc = "succeeded" /\ replans = Recorded[at].replans + 1
        BY <1>0, <3>2 DEF Recovers
      <4>2. ResultRow.status = "succeeded" /\ ResultRow.replans = replans
        BY <4>1, EndedRow
      <4> QED
        BY <1>1, <2>2, <4>1, <4>2 DEF OneSlowRow
    <3>3. CASE ReadsAhead
      <4>1. Key = SuiteKeys[at] /\ Key = "kitchen_sink" /\ "kitchen" \notin files
        BY <1>0, <3>3, SuiteClassified, SuiteLength DEF SuiteInv, GoalOnCourse, Key, ReadsAhead
      <4>2. at = 19
        <5>1. \A j \in 1 .. 20 : SuiteKeys[j] = "kitchen_sink" => j = 19
          BY SMTT(20) DEF SuiteKeys
        <5> QED
          BY <1>0, <4>1, <5>1
      <4> QED
        BY <1>0, <2>2, <4>1, <4>2 DEF OneSlowRow
    <3> QED
      BY <3>1, <3>2, <3>3
  <2> QED
    BY <2>1, <2>2
<1> QED
  BY <1>2, <1>3, <1>4 DEF RecoverInv, OneSlowRow

\* Every step of a command.
LEMMA RecoverKeeps ==
  ASSUME Harness, IInv, CostInv, SuiteInv, SeqInv, RecoverInv, [ENext]_evars
  PROVE  RecoverInv'
<1>1. CASE RunGoal
  BY <1>1, RecoverRunKeeps
<1>2. CASE NextGoal
  BY <1>2, RecoverNextGoal DEF SeqInv
<1>3. CASE Invoke \/ Interrupt
  BY <1>3 DEF Invoke, Interrupt, RecoverInv, WritesOwn
<1>4. CASE StartSuite \/ MakeFixture
  <2>1. /\ at = 0 /\ at' \in {0, 1} /\ UNCHANGED <<report, slowGoals, slowTwice>>
        /\ slowGoals = {}
    BY <1>4 DEF StartSuite, MakeFixture, SuiteInv, Bookkeeping
  <2> QED
    BY <2>1 DEF RecoverInv, WritesOwn
<1>5. CASE PrintReport \/ OpenBaseline \/ WriteBaseline \/ Smoke \/ BenchRegress
  <2>1. /\ at = 21 /\ at' = 21 /\ UNCHANGED <<files, report, slowGoals, slowTwice>>
        /\ slowGoals \subseteq 1 .. 20
    BY <1>5, SuiteLength
    DEF PrintReport, OpenBaseline, WriteBaseline, Smoke, BenchRegress, Gate, Reported, rvars,
        SuiteInv, Bookkeeping
  <2> QED
    BY <2>1 DEF RecoverInv, WritesOwn
<1>6. CASE UNCHANGED evars
  BY <1>6 DEF evars, rvars, vars, script, RecoverInv, WritesOwn, Recovers, ReadsAhead, ReadsFind,
     PairedReads, Soon, Written, Works, LastCall, Key
<1> QED
  BY <1>1, <1>2, <1>3, <1>4, <1>5, <1>6 DEF ENext

\* However many calls of a run are slow, a goal that has one slow call succeeds
\* with one replan more than is recorded (RunBudget and the replan of runner.py,
\* the clamped plan_idx and tool_idx of FakeProvider), unless its script reads
\* ahead of its own write.
THEOREM SlowCallsRecovered == Harness => (ESpec => []SlowCallRecovered)
<1> SUFFICES ASSUME Harness PROVE ESpec => []SlowCallRecovered
  OBVIOUS
<1>1. EInit => RecoverInv
  BY DEF EInit, RecoverInv, WritesOwn
<1>2. IInv /\ CostInv /\ SuiteInv /\ SeqInv /\ RecoverInv /\ [ENext]_evars => RecoverInv'
  BY RecoverKeeps
<1>3. SuiteInv /\ RecoverInv => SlowCallRecovered
  <2> SUFFICES ASSUME SuiteInv, RecoverInv,
                      NEW i \in (slowGoals \ slowTwice) \cap DOMAIN report
               PROVE  \/ /\ report[i].status = "succeeded"
                         /\ report[i].replans = Recorded[i].replans + 1
                      \/ LET key == Classify(Suite[i].text)
                         IN  key \in DOMAIN ReadPaths /\ ~ Elements(ReadPaths[key]) \subseteq files
    BY DEF SlowCallRecovered
  <2>1. OneSlowRow(i)
    BY DEF RecoverInv, OneSlowRow
  <2>2. CASE i = 19 /\ "kitchen" \notin files
    <3>1. Classify(Suite[i].text) = "kitchen_sink"
      BY <2>2, SuiteClassified DEF SuiteKeys
    <3>2. "kitchen_sink" \in DOMAIN ReadPaths /\ "kitchen" \in Elements(ReadPaths["kitchen_sink"])
      <4>1. "kitchen_sink" \in DOMAIN ReadPaths
        BY DEF ReadPaths
      <4>2. "kitchen" \in Elements(<<"long_doc", "kitchen">>)
        BY DEF Elements
      <4> QED
        BY <4>1, <4>2, KitchenScript
    <3> QED
      BY <2>2, <3>1, <3>2
  <2> QED
    BY <2>1, <2>2 DEF OneSlowRow
<1> QED
  BY <1>1, <1>2, <1>3, SuiteCost, SuiteKeepsInvariant, SuiteStaysOnCourse, SuiteLists, PTL
  DEF ESpec
-----------------------------------------------------------------------------
(* The sums that the drift is measured on. *)

\* A column, added up.
AddUp(f) ==
  f[1] + f[2] + f[3] + f[4] + f[5] + f[6] + f[7] + f[8] + f[9] + f[10]
  + f[11] + f[12] + f[13] + f[14] + f[15] + f[16] + f[17] + f[18] + f[19] + f[20]

\* Total adds a column up: its recursion has a solution on 20 goals, and one only.
LEMMA TotalIs ==
  ASSUME NEW f, \A i \in 1 .. 20 : f[i] \in Nat
  PROVE  Total(f) = AddUp(f)
<1> DEFINE Rec(h) == [i \in 0 .. 20 |-> IF i = 0 THEN 0 ELSE h[i - 1] + f[i]]
           s1 == f[1]         s2 == s1 + f[2]    s3 == s2 + f[3]    s4 == s3 + f[4]
           s5 == s4 + f[5]    s6 == s5 + f[6]    s7 == s6 + f[7]    s8 == s7 + f[8]
           s9 == s8 + f[9]    s10 == s9 + f[10]  s11 == s10 + f[11] s12 == s11 + f[12]
           s13 == s12 + f[13] s14 == s13 + f[14] s15 == s14 + f[15] s16 == s15 + f[16]
           s17 == s16 + f[17] s18 == s17 + f[18] s19 == s18 + f[19] s20 == s19 + f[20]
           part == <<s1, s2, s3, s4, s5, s6, s7, s8, s9, s10,
                     s11, s12, s13, s14, s15, s16, s17, s18, s19, s20>>
           g == [i \in 0 .. 20 |-> IF i = 0 THEN 0 ELSE part[i]]
<1>1. g = Rec(g)
  <2>1. \A i \in 1 .. 20 : part[i] = (IF i = 1 THEN 0 ELSE part[i - 1]) + f[i]
    OBVIOUS
  <2> HIDE DEF part
  <2> QED
    BY <2>1
<1> HIDE DEF g
<1> DEFINE s == CHOOSE h : h = Rec(h)
<1>2. s = Rec(s)
  BY <1>1
<1>3. Total(f) = s[20]
  BY SuiteLength DEF Total
<1> HIDE DEF s
<1>4. s[0] = 0 /\ \A i \in 1 .. 20 : s[i] = s[i - 1] + f[i]
  BY <1>2
<1> QED
  BY <1>3, <1>4 DEF AddUp

\* The registry is finite.
LEMMA ToolsFinite == Harness => IsFiniteSet(Tools)
<1> SUFFICES ASSUME Harness PROVE IsFiniteSet(Tools)
  OBVIOUS
<1> DEFINE A == {"calculate"}  B == A \cup {"query_db"}  C == B \cup {"http_get"}
           D == C \cup {"read_file"}  E == D \cup {"write_file"}  F == E \cup {"summarize"}
           G == F \cup {"extract_json"}  H == G \cup {"summarize_document"}
           I == H \cup {"finish"}
<1>1. Tools = I
  BY DEF Harness, Registered
<1>2. IsFiniteSet(A)
  BY FS_Singleton
<1> HIDE DEF A
<1>3. IsFiniteSet(B)
  BY <1>2, FS_AddElement
<1> HIDE DEF B
<1>4. IsFiniteSet(C)
  BY <1>3, FS_AddElement
<1> HIDE DEF C
<1>5. IsFiniteSet(D)
  BY <1>4, FS_AddElement
<1> HIDE DEF D
<1>6. IsFiniteSet(E)
  BY <1>5, FS_AddElement
<1> HIDE DEF E
<1>7. IsFiniteSet(F)
  BY <1>6, FS_AddElement
<1> HIDE DEF F
<1>8. IsFiniteSet(G)
  BY <1>7, FS_AddElement
<1> HIDE DEF G
<1>9. IsFiniteSet(H)
  BY <1>8, FS_AddElement
<1> HIDE DEF H
<1>10. IsFiniteSet(I)
  BY <1>9, FS_AddElement
<1> QED
  BY <1>1, <1>10

\* The unit.
LEMMA WholeNat == Whole \in Nat /\ Whole > 0
  BY DEF Whole

\* A part of a whole is at most the whole.
LEMMA ShareBound ==
  ASSUME NEW x \in Nat, NEW y \in Nat, y > 0, x <= y
  PROVE  (Whole * x) \div y \in 0 .. Whole /\ (Whole * y) \div y = Whole
  BY DEF Whole

\* _jaccard is between 0 and 1, and 1 for equal sets.
LEMMA JaccardBound ==
  ASSUME Harness, NEW a \in SUBSET Tools, NEW b \in SUBSET Tools
  PROVE  Jaccard(a, b) \in 0 .. Whole /\ Jaccard(a, a) = Whole
<1>1. \A c \in SUBSET Tools :
        IsFiniteSet(c) /\ Cardinality(c) \in Nat /\ (c # {} => Cardinality(c) > 0)
  <2> SUFFICES ASSUME NEW c \in SUBSET Tools
               PROVE  IsFiniteSet(c) /\ Cardinality(c) \in Nat /\ (c # {} => Cardinality(c) > 0)
    OBVIOUS
  <2>1. IsFiniteSet(c)
    BY ToolsFinite, FS_Subset
  <2>2. Cardinality(c) \in Nat
    BY <2>1, FS_CardinalityType
  <2>3. Cardinality(c) = 0 <=> c = {}
    BY <2>1, FS_EmptySet
  <2> QED
    BY <2>1, <2>2, <2>3
<1>2. Jaccard(a, b) \in 0 .. Whole
  <2> DEFINE x == Cardinality(a \cap b)  y == Cardinality(a \cup b)
  <2>1. CASE a \cup b = {}
    BY <2>1, WholeNat DEF Jaccard
  <2>2. CASE a \cup b # {}
    <3>1. y \in Nat /\ y > 0 /\ IsFiniteSet(a \cup b)
      BY <1>1, <2>2
    <3>2. x \in Nat
      BY <1>1
    <3>3. x <= y
      <4>1. a \cap b \in SUBSET (a \cup b)
        OBVIOUS
      <4> QED
        BY <3>1, <4>1, FS_Subset
    <3>4. Jaccard(a, b) = (Whole * x) \div y
      BY <2>2 DEF Jaccard
    <3> HIDE DEF x, y
    <3> QED
      BY <3>1, <3>2, <3>3, <3>4, ShareBound
  <2> QED
    BY <2>1, <2>2
<1>3. Jaccard(a, a) = Whole
  <2>1. CASE a = {}
    BY <2>1, WholeNat DEF Jaccard
  <2>2. CASE a # {}
    <3> DEFINE y == Cardinality(a)
    <3>1. y \in Nat /\ y > 0
      BY <1>1, <2>2
    <3>2. a \cap a = a /\ a \cup a = a
      OBVIOUS
    <3>3. Jaccard(a, a) = (Whole * y) \div y
      BY <2>2, <3>2 DEF Jaccard
    <3> HIDE DEF y
    <3> QED
      BY <3>1, <3>3, ShareBound
  <2> QED
    BY <2>1, <2>2
<1> QED
  BY <1>2, <1>3

\* Two columns that differ in one goal's row.
LEMMA OneRowDiffers ==
  ASSUME NEW f, NEW h, \A j \in 1 .. 20 : f[j] \in Nat /\ h[j] \in Nat,
         NEW i \in 1 .. 20, \A j \in 1 .. 20 : j # i => f[j] = h[j]
  PROVE  Total(f) + h[i] = Total(h) + f[i] /\ Total(f) \in Nat /\ Total(h) \in Nat
<1> DEFINE Part(c, n) == c[n] + c[n + 1] + c[n + 2] + c[n + 3] + c[n + 4]
<1>1. ASSUME NEW n \in {1, 6, 11, 16}
      PROVE  /\ Part(f, n) \in Nat /\ Part(h, n) \in Nat
             /\ i \in n .. n + 4 => Part(f, n) + h[i] = Part(h, n) + f[i]
             /\ i \notin n .. n + 4 => Part(f, n) = Part(h, n)
  <2>1. \A k \in n .. n + 4 : f[k] \in Nat /\ h[k] \in Nat /\ (i # k => f[k] = h[k])
    OBVIOUS
  <2> QED
    BY <2>1
<1>2. /\ Total(f) = Part(f, 1) + Part(f, 6) + Part(f, 11) + Part(f, 16)
      /\ Total(h) = Part(h, 1) + Part(h, 6) + Part(h, 11) + Part(h, 16)
  <2>1. ASSUME NEW c, \A j \in 1 .. 20 : c[j] \in Nat
        PROVE  AddUp(c) = Part(c, 1) + Part(c, 6) + Part(c, 11) + Part(c, 16)
    BY <2>1 DEF AddUp
  <2>2. Total(f) = AddUp(f) /\ Total(h) = AddUp(h)
    BY TotalIs
  <2> HIDE DEF Part
  <2> QED
    BY <2>1, <2>2
<1> HIDE DEF Part
<1>3. f[i] \in Nat /\ h[i] \in Nat
  OBVIOUS
<1>4. /\ Part(f, 1) \in Nat /\ Part(f, 6) \in Nat /\ Part(f, 11) \in Nat /\ Part(f, 16) \in Nat
      /\ Part(h, 1) \in Nat /\ Part(h, 6) \in Nat /\ Part(h, 11) \in Nat /\ Part(h, 16) \in Nat
  BY <1>1
<1>5. Total(f) \in Nat /\ Total(h) \in Nat
  BY <1>2, <1>4
<1>6. Total(f) + h[i] = Total(h) + f[i]
  <2>1. CASE i \in 1 .. 5
    BY <1>1, <1>2, <1>3, <1>4, <2>1
  <2>2. CASE i \in 6 .. 10
    BY <1>1, <1>2, <1>3, <1>4, <2>2
  <2>3. CASE i \in 11 .. 15
    BY <1>1, <1>2, <1>3, <1>4, <2>3
  <2>4. CASE i \in 16 .. 20
    BY <1>1, <1>2, <1>3, <1>4, <2>4
  <2> QED
    BY <2>1, <2>2, <2>3, <2>4
<1> QED
  BY <1>5, <1>6

\* The recorded sums.
LEMMA RecordedTotals ==
  /\ Total([i \in 1 .. 20 |-> One(Recorded[i].status = "succeeded")]) = 19
  /\ Total([i \in 1 .. 20 |-> One(Recorded[i].status = "aborted")]) = 1
  /\ Total([i \in 1 .. 20 |-> Recorded[i].steps]) = 82
  /\ Total([i \in 1 .. 20 |-> Recorded[i].cost]) = 536
  /\ Total([i \in 1 .. 20 |-> 1]) = 20
  /\ Total([i \in 1 .. 20 |-> Whole]) = 20 * Whole
<1>1. Total([i \in 1 .. 20 |-> One(Recorded[i].status = "succeeded")]) = 19
  <2> DEFINE f == [i \in 1 .. 20 |-> One(Recorded[i].status = "succeeded")]
  <2>1. \A i \in 1 .. 20 : f[i] = IF i = 13 THEN 0 ELSE 1
    BY RecordedIs DEF One
  <2> HIDE DEF f
  <2>2. Total(f) = 19
    BY <2>1, TotalIs DEF AddUp
  <2> QED
    BY <2>2 DEF f
<1>2. Total([i \in 1 .. 20 |-> One(Recorded[i].status = "aborted")]) = 1
  <2> DEFINE f == [i \in 1 .. 20 |-> One(Recorded[i].status = "aborted")]
  <2>1. \A i \in 1 .. 20 : f[i] = IF i = 13 THEN 1 ELSE 0
    BY RecordedIs DEF One
  <2> HIDE DEF f
  <2>2. Total(f) = AddUp(f)
    BY <2>1, TotalIs
  <2>3. Total(f) = 1
    BY <2>1, <2>2 DEF AddUp
  <2> QED
    BY <2>3 DEF f
<1>3. Total([i \in 1 .. 20 |-> Recorded[i].steps]) = 82
  <2> DEFINE f == [i \in 1 .. 20 |-> Recorded[i].steps]
  <2>1. \A i \in 1 .. 20 : f[i] = RecordedSteps[i] /\ f[i] \in Nat
    BY RecordedIs DEF RecordedSteps
  <2> HIDE DEF f
  <2>2. Total(f) = AddUp(f)
    BY <2>1, TotalIs
  <2>3. Total(f) = 82
    BY <2>1, <2>2 DEF AddUp, RecordedSteps
  <2> QED
    BY <2>3 DEF f
<1>4. Total([i \in 1 .. 20 |-> Recorded[i].cost]) = 536
  <2> DEFINE f == [i \in 1 .. 20 |-> Recorded[i].cost]
  <2>1. \A i \in 1 .. 20 :
          f[i] = (IF i = 13 THEN 48 ELSE 8 + 4 * RecordedSteps[i] + IF i = 15 THEN 8 ELSE 0)
    BY RecordedIs
  <2>2. \A i \in 1 .. 20 : RecordedSteps[i] \in Nat
    BY DEF RecordedSteps
  <2> HIDE DEF f
  <2>3. \A i \in 1 .. 20 : f[i] \in Nat
    BY <2>1, <2>2
  <2>4. Total(f) = AddUp(f)
    BY <2>3, TotalIs
  <2>5. Total(f) = 536
    BY <2>1, <2>4 DEF AddUp, RecordedSteps
  <2> QED
    BY <2>5 DEF f
<1>5. Total([i \in 1 .. 20 |-> 1]) = 20
  <2> DEFINE f == [i \in 1 .. 20 |-> 1]
  <2>1. \A i \in 1 .. 20 : f[i] = 1
    OBVIOUS
  <2> HIDE DEF f
  <2>2. Total(f) = 20
    BY <2>1, TotalIs DEF AddUp
  <2> QED
    BY <2>2 DEF f
<1>6. Total([i \in 1 .. 20 |-> Whole]) = 20 * Whole
  <2> DEFINE f == [i \in 1 .. 20 |-> Whole]
  <2>1. Whole \in Nat /\ \A i \in 1 .. 20 : f[i] = Whole
    BY WholeNat
  <2> HIDE DEF f
  <2>2. Total(f) = AddUp(f)
    BY <2>1, TotalIs
  <2>3. Total(f) = 20 * Whole
    BY <2>1, <2>2 DEF AddUp
  <2> QED
    BY <2>3 DEF f
<1> QED
  BY <1>1, <1>2, <1>3, <1>4, <1>5, <1>6
-----------------------------------------------------------------------------
(* What follows for bench-regress. *)

\* The rows of a run in which at most the calls of goal i were slow.
OneGoalOff(rows, i) ==
  /\ RowFits(rows[i])
  /\ \A j \in 1 .. 20 : j # i => rows[j] = Recorded[j]

\* What a row adds to the aborts.
Lost(row) == IF row.status = "aborted" THEN 1 ELSE 0

\* The recorded metrics, but for what the row of goal i changes.
RecordedBut(m, row, i) ==
  /\ m.success = 19 - Lost(row)
  /\ m.abort = 1 + Lost(row)
  /\ m.steps = 82 - Recorded[i].steps + row.steps
  /\ m.cost = 536 - Recorded[i].cost + row.cost
  /\ m.rubric \in 19 .. 20
  /\ m.jaccard \in 19 * Whole .. 20 * Whole

\* While only the calls of one goal were slow, the metrics are these.
LEMMA MetricsOf ==
  ASSUME Harness, NEW rows, NEW i \in 1 .. 20, i # 13, OneGoalOff(rows, i)
  PROVE  RecordedBut(BenchMetrics(rows), rows[i], i)
<1>0. /\ \A j \in 1 .. 20 : RowFits(rows[j]) /\ RowFits(Recorded[j])
      /\ \A j \in 1 .. 20 : j # i => rows[j] = Recorded[j]
      /\ DOMAIN Suite = 1 .. 20
  BY RecordedFits, SuiteLength DEF OneGoalOff
<1>a. \A row : /\ One(row.status = "succeeded") \in Nat /\ One(row.status = "aborted") \in Nat
               /\ RowFits(row) => /\ One(row.status = "succeeded") = 1 - Lost(row)
                                  /\ One(row.status = "aborted") = Lost(row)
                                  /\ row.steps \in Nat /\ row.cost \in Nat
  BY DEF One, Lost, RowFits
<1> DEFINE success(r) == [j \in 1 .. 20 |-> One(r[j].status = "succeeded")]
           abort(r)   == [j \in 1 .. 20 |-> One(r[j].status = "aborted")]
           taken(r)   == [j \in 1 .. 20 |-> r[j].steps]
           spent(r)   == [j \in 1 .. 20 |-> r[j].cost]
           rubric     == [j \in 1 .. 20 |-> One(RubricPass(j, rows[j]))]
           jaccard    == [j \in 1 .. 20 |->
                            Jaccard(Elements(rows[j].tools), Elements(Suite[j].tools))]
<1>1. Total(success(rows)) = 19 - Lost(rows[i])
  <2> DEFINE f == success(rows)  h == success(Recorded)
  <2>1. \A j \in 1 .. 20 : f[j] \in Nat /\ h[j] \in Nat /\ (j # i => f[j] = h[j])
    <3>1. \A j \in 1 .. 20 : f[j] \in Nat
      BY <1>a
    <3>2. \A j \in 1 .. 20 : h[j] \in Nat
      BY <1>a
    <3>3. \A j \in 1 .. 20 : j # i => f[j] = h[j]
      BY <1>0
    <3> QED
      BY <3>1, <3>2, <3>3
  <2>2. Total(h) = 19 /\ h[i] = 1 /\ f[i] = 1 - Lost(rows[i])
    <3>1. Total(h) = 19
      BY RecordedTotals
    <3>2. h[i] = 1
      BY RecordedIs DEF One
    <3>3. f[i] = 1 - Lost(rows[i])
      BY <1>0, <1>a
    <3> QED
      BY <3>1, <3>2, <3>3
  <2> HIDE DEF f, h
  <2>3. Total(f) + h[i] = Total(h) + f[i] /\ Total(f) \in Nat
    BY <2>1, OneRowDiffers
  <2>4. Total(f) = 18 + f[i]
    BY <2>1, <2>2, <2>3
  <2> QED
    BY <2>2, <2>4 DEF f, Lost
<1>2. Total(abort(rows)) = 1 + Lost(rows[i])
  <2> DEFINE f == abort(rows)  h == abort(Recorded)
  <2>1. \A j \in 1 .. 20 : f[j] \in Nat /\ h[j] \in Nat /\ (j # i => f[j] = h[j])
    <3>1. \A j \in 1 .. 20 : f[j] \in Nat
      BY <1>a
    <3>2. \A j \in 1 .. 20 : h[j] \in Nat
      BY <1>a
    <3>3. \A j \in 1 .. 20 : j # i => f[j] = h[j]
      BY <1>0
    <3> QED
      BY <3>1, <3>2, <3>3
  <2>2. Total(h) = 1 /\ h[i] = 0 /\ f[i] = Lost(rows[i])
    <3>1. Total(h) = 1
      BY RecordedTotals
    <3>2. h[i] = 0
      BY RecordedIs DEF One
    <3>3. f[i] = Lost(rows[i])
      BY <1>0, <1>a
    <3> QED
      BY <3>1, <3>2, <3>3
  <2> HIDE DEF f, h
  <2>3. Total(f) + h[i] = Total(h) + f[i] /\ Total(f) \in Nat
    BY <2>1, OneRowDiffers
  <2>4. Total(f) = 1 + f[i]
    BY <2>1, <2>2, <2>3
  <2> QED
    BY <2>2, <2>4 DEF f
<1>3. Total(taken(rows)) = 82 - Recorded[i].steps + rows[i].steps
  <2> DEFINE f == taken(rows)  h == taken(Recorded)
  <2>1. \A j \in 1 .. 20 : f[j] \in Nat /\ h[j] \in Nat /\ (j # i => f[j] = h[j])
    <3>1. \A j \in 1 .. 20 : f[j] \in Nat
      BY <1>0, <1>a
    <3>2. \A j \in 1 .. 20 : h[j] \in Nat
      BY <1>0, <1>a
    <3>3. \A j \in 1 .. 20 : j # i => f[j] = h[j]
      BY <1>0
    <3> QED
      BY <3>1, <3>2, <3>3
  <2>2. Total(h) = 82 /\ h[i] = Recorded[i].steps /\ f[i] = rows[i].steps
    BY RecordedTotals
  <2> HIDE DEF f, h
  <2>3. Total(f) + h[i] = Total(h) + f[i] /\ Total(f) \in Nat
    BY <2>1, OneRowDiffers
  <2>4. Total(f) = 82 - h[i] + f[i]
    BY <2>1, <2>2, <2>3
  <2> QED
    BY <2>2, <2>4 DEF f
<1>4. Total(spent(rows)) = 536 - Recorded[i].cost + rows[i].cost
  <2> DEFINE f == spent(rows)  h == spent(Recorded)
  <2>1. \A j \in 1 .. 20 : f[j] \in Nat /\ h[j] \in Nat /\ (j # i => f[j] = h[j])
    <3>1. \A j \in 1 .. 20 : f[j] \in Nat
      BY <1>0, <1>a
    <3>2. \A j \in 1 .. 20 : h[j] \in Nat
      BY <1>0, <1>a
    <3>3. \A j \in 1 .. 20 : j # i => f[j] = h[j]
      BY <1>0
    <3> QED
      BY <3>1, <3>2, <3>3
  <2>2. Total(h) = 536 /\ h[i] = Recorded[i].cost /\ f[i] = rows[i].cost
    BY RecordedTotals
  <2> HIDE DEF f, h
  <2>3. Total(f) + h[i] = Total(h) + f[i] /\ Total(f) \in Nat
    BY <2>1, OneRowDiffers
  <2>4. Total(f) = 536 - h[i] + f[i]
    BY <2>1, <2>2, <2>3
  <2> QED
    BY <2>2, <2>4 DEF f
<1>5. Total(rubric) \in 19 .. 20
  <2> DEFINE f == rubric  h == [j \in 1 .. 20 |-> 1]
  <2>1. \A j \in 1 .. 20 : j # i => f[j] = 1
    <3>1. \A j \in 1 .. 20 : j # i => RubricPass(j, rows[j])
      BY <1>0, RecordedIs DEF RubricPass
    <3> QED
      BY <3>1 DEF One
  <2>2. f[i] \in 0 .. 1
    BY DEF One
  <2>3. Total(h) = 20 /\ h[i] = 1
    BY RecordedTotals
  <2>4. \A j \in 1 .. 20 : f[j] \in Nat /\ h[j] \in Nat /\ (j # i => f[j] = h[j])
    BY <2>1, <2>2
  <2> HIDE DEF f, h
  <2>5. Total(f) + h[i] = Total(h) + f[i] /\ Total(f) \in Nat
    BY <2>4, OneRowDiffers
  <2>6. Total(f) \in 19 .. 20
    BY <2>2, <2>3, <2>5
  <2> QED
    BY <2>6 DEF f
<1>6. Total(jaccard) \in 19 * Whole .. 20 * Whole
  <2> DEFINE f == jaccard  h == [j \in 1 .. 20 |-> Whole]
  <2>1. \A j \in 1 .. 20 : j # i => f[j] = Whole
    <3> SUFFICES ASSUME NEW j \in 1 .. 20, j # i PROVE f[j] = Whole
      OBVIOUS
    <3>1. /\ rows[j] = Recorded[j] /\ Elements(Recorded[j].tools) \in SUBSET Tools
          /\ Elements(Suite[j].tools) = Elements(Recorded[j].tools)
      BY <1>0, RecordedFits DEF RowFits
    <3>2. Jaccard(Elements(Recorded[j].tools), Elements(Recorded[j].tools)) = Whole
      BY <3>1, JaccardBound
    <3> QED
      BY <3>1, <3>2
  <2>2. f[i] \in 0 .. Whole
    <3>1. Elements(rows[i].tools) \in SUBSET Tools /\ Elements(Suite[i].tools) \in SUBSET Tools
      BY <1>0, RecordedFits DEF RowFits
    <3>2. ASSUME NEW a \in SUBSET Tools, NEW b \in SUBSET Tools
          PROVE  Jaccard(a, b) \in 0 .. Whole
      BY JaccardBound
    <3>3. Jaccard(Elements(rows[i].tools), Elements(Suite[i].tools)) \in 0 .. Whole
      BY <3>1, <3>2
    <3>4. f[i] = Jaccard(Elements(rows[i].tools), Elements(Suite[i].tools))
      OBVIOUS
    <3> HIDE DEF f
    <3> QED
      BY <3>3, <3>4
  <2>3. Total(h) = 20 * Whole /\ h[i] = Whole
    BY RecordedTotals
  <2>4. \A j \in 1 .. 20 : f[j] \in Nat /\ h[j] \in Nat /\ (j # i => f[j] = h[j])
    <3>1. \A j \in 1 .. 20 : h[j] = Whole
      OBVIOUS
    <3> HIDE DEF f, h
    <3>2. \A j \in 1 .. 20 : j # i => f[j] = h[j]
      BY <2>1, <3>1
    <3> QED
      BY <2>1, <2>2, <3>1, <3>2, WholeNat
  <2> HIDE DEF f, h
  <2>5. Total(f) + h[i] = Total(h) + f[i] /\ Total(f) \in Nat
    BY <2>4, OneRowDiffers
  <2>6. Total(f) \in 19 * Whole .. 20 * Whole
    BY <2>2, <2>3, <2>5, WholeNat
  <2> QED
    BY <2>6 DEF f
<1>7. LET m == BenchMetrics(rows)
      IN  /\ m.success = Total(success(rows)) /\ m.abort = Total(abort(rows))
          /\ m.steps = Total(taken(rows)) /\ m.cost = Total(spent(rows))
          /\ m.rubric = Total(rubric) /\ m.jaccard = Total(jaccard)
  BY <1>0 DEF BenchMetrics
<1> HIDE DEF success, abort, taken, spent, rubric, jaccard
<1> QED
  BY <1>1, <1>2, <1>3, <1>4, <1>5, <1>6, <1>7 DEF RecordedBut

\* What the gate compares is one goal's row with another of the same goal.
LEMMA DriftOfOneGoal ==
  ASSUME Harness, NEW rows, NEW old, NEW i \in 1 .. 20, i # 13,
         OneGoalOff(rows, i), OneGoalOff(old, i)
  PROVE  WithinDrift(rows, old) <=> BenchMetrics(rows).abort = BenchMetrics(old).abort
<1> DEFINE new == BenchMetrics(rows)  was == BenchMetrics(old)
<1>1. RecordedBut(new, rows[i], i)
  BY MetricsOf
<1>2. RecordedBut(was, old[i], i)
  BY MetricsOf
<1>3. DOMAIN new = {"success", "abort", "steps", "cost", "rubric", "jaccard"}
  BY DEF BenchMetrics
<1>4. WithinDrift(rows, old) <=> \A m \in DOMAIN new : 10 * Distance(new[m], was[m]) <= 3 * was[m]
  BY DEF WithinDrift
<1> HIDE DEF new, was
<1>5. /\ rows[i].steps \in 0 .. 20 /\ rows[i].cost \in 0 .. 136
      /\ old[i].steps \in 0 .. 20 /\ old[i].cost \in 0 .. 136
  BY DEF OneGoalOff, RowFits
<1>6. Recorded[i].steps \in 0 .. 10 /\ Recorded[i].cost \in 0 .. 48
  <2>1. RecordedSteps[i] \in 0 .. 10 /\ (i = 15 => RecordedSteps[i] = 3)
    BY DEF RecordedSteps
  <2> QED
    BY <2>1, RecordedIs
<1>7. /\ new.success \in 18 .. 19 /\ was.success \in 18 .. 19
      /\ new.abort \in 1 .. 2 /\ was.abort \in 1 .. 2
  BY <1>1, <1>2 DEF RecordedBut, Lost
<1>8. 10 * Distance(new.success, was.success) <= 3 * was.success
  BY <1>7 DEF Distance
<1>9. 10 * Distance(new.abort, was.abort) <= 3 * was.abort <=> new.abort = was.abort
  BY <1>7 DEF Distance
<1>10. 10 * Distance(new.steps, was.steps) <= 3 * was.steps
  <2>1. \A r, c, d : r \in 0 .. 10 /\ c \in 0 .. 20 /\ d \in 0 .. 20
          => 10 * Distance(82 - r + c, 82 - r + d) <= 3 * (82 - r + d)
    BY DEF Distance
  <2> QED
    BY <1>1, <1>2, <1>5, <1>6, <2>1 DEF RecordedBut
<1>11. 10 * Distance(new.cost, was.cost) <= 3 * was.cost
  <2>1. \A r, c, d : r \in 0 .. 48 /\ c \in 0 .. 136 /\ d \in 0 .. 136
          => 10 * Distance(536 - r + c, 536 - r + d) <= 3 * (536 - r + d)
    BY DEF Distance
  <2> QED
    BY <1>1, <1>2, <1>5, <1>6, <2>1 DEF RecordedBut
<1>12. 10 * Distance(new.rubric, was.rubric) <= 3 * was.rubric
  BY <1>1, <1>2 DEF RecordedBut, Distance
<1>13. 10 * Distance(new.jaccard, was.jaccard) <= 3 * was.jaccard
  <2>1. \A m, n \in 19 * Whole .. 20 * Whole : 10 * Distance(m, n) <= 3 * n
    BY WholeNat DEF Distance
  <2> QED
    BY <1>1, <1>2, <2>1 DEF RecordedBut
<1>14. WithinDrift(rows, old) <=> new.abort = was.abort
  BY <1>3, <1>4, <1>8, <1>9, <1>10, <1>11, <1>12, <1>13
<1> QED
  BY <1>14 DEF new, was

\* The gate's answer, from the invariant.
LEMMA DriftSeesAborts ==
  ASSUME Harness, SuiteInv
  PROVE  DriftGateSeesAborts
<1> SUFFICES ASSUME exit \in {"within", "drifted"}, \A i, j \in slowGoals \cup slowBase : i = j
             PROVE  exit = "within" <=> BenchMetrics(report).abort = BenchMetrics(baseline).abort
  BY DEF DriftGateSeesAborts
<1>1. /\ DOMAIN report = 1 .. 20 /\ DOMAIN baseline = 1 .. 20
      /\ Faithful(report, slowGoals) /\ Faithful(baseline, slowBase)
  <2>1. at = 21 /\ baseline # Torn
    BY SuiteLength DEF SuiteInv, Bookkeeping
  <2>2. DOMAIN report = 1 .. 20 /\ Faithful(report, slowGoals)
    BY <2>1 DEF SuiteInv, Bookkeeping
  <2>3. DOMAIN baseline = 1 .. 20 /\ Faithful(baseline, slowBase)
    BY <2>1, SuiteLength DEF SuiteInv, Bookkeeping
  <2> QED
    BY <2>2, <2>3
<1>2. exit = "within" <=> WithinDrift(report, baseline)
  BY DEF SuiteInv, Bookkeeping
<1>3. PICK i \in 1 .. 20 : i # 13 /\ slowGoals \cup slowBase \subseteq {i}
  <2>1. slowGoals \subseteq 1 .. 20 /\ slowBase \subseteq 1 .. 20
    BY SuiteLength DEF SuiteInv, Bookkeeping
  <2>2. report[13].replans \in 0 .. 6 /\ baseline[13].replans \in 0 .. 6
    <3>1. 13 \in DOMAIN report /\ 13 \in DOMAIN baseline
      BY <1>1
    <3> QED
      BY <3>1 DEF SuiteInv, RowsFit, RowFits
  <2>3. 13 \notin slowGoals /\ 13 \notin slowBase
    BY <1>1, <2>2, RecordedReplans DEF Faithful
  <2>4. slowGoals \cup slowBase \subseteq 1 .. 20 \ {13}
    BY <2>1, <2>3
  <2> QED
    BY <2>4
<1>4. OneGoalOff(report, i)
  BY <1>1, <1>3 DEF OneGoalOff, SuiteInv, RowsFit, Faithful
<1>5. OneGoalOff(baseline, i)
  BY <1>1, <1>3 DEF OneGoalOff, SuiteInv, RowsFit, Faithful
<1> QED
  BY <1>2, <1>3, <1>4, <1>5, DriftOfOneGoal

\* While the slow calls of both runs are calls of one goal, bench-regress passes
\* exactly when as many goals aborted as did in the baseline: what a goal that
\* recovers takes is within 30 percent of every metric, and one lost goal is not
\* (assert_within_drift of eval_harness.py).
THEOREM DriftGateIsRight == Harness => (ESpec => []DriftGateSeesAborts)
<1> SUFFICES ASSUME Harness PROVE ESpec => []DriftGateSeesAborts
  OBVIOUS
<1>1. SuiteInv => DriftGateSeesAborts
  BY DriftSeesAborts
<1> QED
  BY <1>1, SuiteStaysOnCourse, PTL
=============================================================================
