----------------------------- MODULE EvalSuite ------------------------------
(***************************************************************************)
(* The eval harness, src/src/agentic_runner/eval_harness.py, and the       *)
(* commands eval run, eval smoke and eval bench-regress of cli.py: one     *)
(* scripted goal after the other on one workspace, the report, and the     *)
(* report against the baseline file.                                       *)
(*                                                                         *)
(* The three commands run the same suite and differ in what they do with   *)
(* the report, so the command is chosen when the report is there.  Any     *)
(* command may be interrupted at any point; the next one finds the files   *)
(* of the workspace and the baseline file, and nothing else.               *)
(*                                                                         *)
(* A row of the report is what decides its other columns: final_result,    *)
(* jaccard, rubric_pass and matches_expected follow from it.  Sums stand   *)
(* for averages over the same number of goals.                             *)
(***************************************************************************)
EXTENDS ScriptedRun

VARIABLES
  at,        \* the goal of the suite that is run, 0 while the fixtures are made
  report,    \* results: a row for each goal that has ended
  baseline,  \* the baseline file: rows, or "torn"
  exit,      \* how the last command ended
  slowGoals, \* history: the goals of this run that had a slow call
  slowTwice, \* history: those of them that had more than one
  slowBase   \* history: the slow goals of the run that recorded the baseline

evars == <<rvars, at, report, baseline, exit, slowGoals, slowTwice, slowBase>>
-----------------------------------------------------------------------------
\* The tools that importing the registry registers.
Registered ==
  {"calculate", "query_db", "http_get", "read_file", "write_file", "summarize",
   "extract_json", "summarize_document", "finish"}

\* What run_suite runs every goal with: the tools that are registered, the tool
\* that ends a goal, and the budget.
Harness ==
  /\ Tools = Registered
  /\ Finish = "finish"
  /\ MaxSteps = 20 /\ MaxReplans = 5 /\ MaxCost = 5000
-----------------------------------------------------------------------------
(* The suite, eval/suites/runner_v1.yaml, and its recorded baseline. *)

\* A goal: the patterns its text matches, and what is expected of it.
Goal(matches, tools) ==
  [text |-> matches, tools |-> tools, status |-> "succeeded", replans |-> 0]

LastPlan(key) == PlanScript[key][Len(PlanScript[key])]
Plain(key)    == Goal({key}, LastPlan(key))
AlsoReport(key) == Goal({key, "write_then_read"}, LastPlan(key))

Suite ==
  <<Plain("calc_avg_eng"), Plain("calc_simple"), Plain("list_employees"),
    Plain("count_orders"), Plain("read_notes"), Plain("write_then_read"),
    Plain("fetch_status"), Plain("summarize_doc"), Plain("extract_struct"),
    Plain("math_two_step"), Plain("department_count"),
    Goal({"find_john_salary"}, <<"query_db", "finish">>),
    [Goal({"send_email"}, <<>>) EXCEPT !.status = "aborted"],
    Plain("summarize_short"),
    [Goal({"extract_strict"}, <<"extract_json", "extract_json", "finish">>) EXCEPT !.replans = 1],
    AlsoReport("compose_report"), AlsoReport("data_pipeline"),
    Plain("research_aggregate"), Plain("kitchen_sink"), AlsoReport("audit_trail")>>

\* _ensure_workspace_fixtures, in its order.
Fixtures == <<"notes", "report", "long_doc", "salaries">>

\* The calls with status ok, and of them the n-th.
OkCalls   == {i \in DOMAIN calls : calls[i].status = "ok"}
OkCall(n) == calls[CHOOSE i \in OkCalls : Cardinality({j \in OkCalls : j <= i}) = n]

\* The columns of a row that the others follow from; tools are those of the
\* calls with status ok, in order (_tool_sequence).
ResultRow ==
  [status |-> goal.status, reason |-> goal.reason, steps |-> goal.steps,
   replans |-> goal.replans, cost |-> goal.cost,
   tools |-> [n \in 1 .. Cardinality(OkCalls) |-> OkCall(n).tool]]

\* The rows of eval/baselines/runner_v1_fake.json, the committed baseline.
RecordedRow(total, spent, tools) ==
  [status |-> "succeeded", reason |-> "none", steps |-> total, replans |-> 0,
   cost |-> spent, tools |-> tools]

Recorded ==
  [i \in DOMAIN Suite |->
     CASE i = 13 -> [RecordedRow(0, 48, <<>>) EXCEPT
                       !.status = "aborted", !.reason = "max_replans_exceeded", !.replans = 6]
       [] i = 15 -> [RecordedRow(3, 28, <<"extract_json", "finish">>) EXCEPT !.replans = 1]
       [] i \in {6, 8, 10} -> RecordedRow(3, 20, Suite[i].tools)
       [] i > 15 -> RecordedRow(10, 48, Suite[i].tools)
       [] OTHER  -> RecordedRow(2, 16, Suite[i].tools)]
-----------------------------------------------------------------------------
(* The other columns, and the gates. *)

Elements(list) == {list[i] : i \in DOMAIN list}

\* _jaccard, in units of 1/2520, which the sizes of the sets divide.
Whole == 2520

Jaccard(a, b) ==
  IF a \cup b = {} THEN Whole
                   ELSE (Whole * Cardinality(a \cap b)) \div Cardinality(a \cup b)

\* _rubric_pass: the scripted finish texts hold what it looks for, and one goal
\* of the suite may abort.
RubricPass(i, row) == row.status = "aborted" => i = 13

\* The sum of a column, goal by goal.
Total(column) ==
  LET sum[i \in 0 .. Len(Suite)] == IF i = 0 THEN 0 ELSE sum[i - 1] + column[i]
  IN  sum[Len(Suite)]

One(b) == IF b THEN 1 ELSE 0

\* _BENCH_METRICS of the goals' rows, as sums.
BenchMetrics(rows) ==
  LET n == DOMAIN Suite
  IN  [success |-> Total([i \in n |-> One(rows[i].status = "succeeded")]),
       abort   |-> Total([i \in n |-> One(rows[i].status = "aborted")]),
       steps   |-> Total([i \in n |-> rows[i].steps]),
       cost    |-> Total([i \in n |-> rows[i].cost]),
       rubric  |-> Total([i \in n |-> One(RubricPass(i, rows[i]))]),
       jaccard |-> Total([i \in n |-> Jaccard(Elements(rows[i].tools),
                                              Elements(Suite[i].tools))])]

Distance(a, b) == IF a < b THEN b - a ELSE a - b

\* Mutant of WithinDrift: abort_rate is not among the metrics watched.
WithinDriftButAborts(rows, old) ==
  LET new == BenchMetrics(rows)  was == BenchMetrics(old)
  IN  \A m \in DOMAIN new \ {"abort"} : 10 * Distance(new[m], was[m]) <= 3 * was[m]

\* assert_within_drift with max_drift 0.30: each metric relative to the
\* baseline's.
WithinDrift(rows, old) ==
  LET new == BenchMetrics(rows)  was == BenchMetrics(old)
  IN  \A m \in DOMAIN new : 10 * Distance(new[m], was[m]) <= 3 * was[m]

\* Mutant of SameReport: the outcomes are compared and not what they took.
SameOutcomes(rows, old) == \A i \in DOMAIN rows : rows[i].status = old[i].status

\* assert_matches_baseline: _diff finds no difference.
SameReport(rows, old) == rows = old
-----------------------------------------------------------------------------
Torn == <<>>   \* a baseline file that is opened for writing and not yet written

EInit ==
  /\ RInit
  /\ files = {} /\ slow = 0
  /\ at = 0 /\ report = <<>>
  /\ baseline = Recorded
  /\ exit = "interrupted" /\ slowGoals = {} /\ slowTwice = {} /\ slowBase = {}

\* A command starts, on the workspace of the last one or on a new one, as CI's.
Invoke ==
  /\ exit \notin {"running", "writing"}
  /\ exit' = "running" /\ at' = 0 /\ report' = <<>> /\ slowGoals' = {} /\ slowTwice' = {}
  /\ files' \in {files, {}}
  /\ UNCHANGED <<vars, text, script, slow, baseline, slowBase>>

Missing == {i \in DOMAIN Fixtures : Fixtures[i] \notin files}

\* One file of _ensure_workspace_fixtures; what is there is left alone.
MakeFixture ==
  /\ exit = "running" /\ at = 0 /\ Missing # {}
  /\ files' = files \cup {Fixtures[CHOOSE i \in Missing : \A j \in Missing : i <= j]}
  /\ UNCHANGED <<vars, text, script, slow, at, report, baseline, exit,
                 slowGoals, slowTwice, slowBase>>

StartSuite ==
  /\ exit = "running" /\ at = 0 /\ Missing = {}
  /\ at' = 1
  /\ NewRun(Suite[1].text)
  /\ UNCHANGED <<files, slow, report, baseline, exit, slowGoals, slowTwice, slowBase>>

\* Runner.run on the goal.
RunGoal ==
  /\ at \in DOMAIN Suite
  /\ ScriptedStep
  /\ slowGoals' = IF slow' = slow THEN slowGoals ELSE slowGoals \cup {at}
  /\ slowTwice' = IF slow' = slow THEN slowTwice ELSE slowTwice \cup (slowGoals \cap {at})
  /\ UNCHANGED <<at, report, baseline, exit, slowBase>>

\* run_suite takes the result and makes a new provider and runner.
NextGoal ==
  /\ at \in DOMAIN Suite /\ pc \in {"succeeded", "aborted"}
  /\ report' = Append(report, ResultRow)
  /\ at' = at + 1
  /\ NewRun(IF at < Len(Suite) THEN Suite[at + 1].text ELSE {})
  /\ UNCHANGED <<files, slow, baseline, exit, slowGoals, slowTwice, slowBase>>

Reported == exit = "running" /\ at > Len(Suite)

\* eval run without --output.
PrintReport ==
  /\ Reported
  /\ exit' = "printed"
  /\ UNCHANGED <<rvars, at, report, baseline, slowGoals, slowTwice, slowBase>>

\* eval run --output: the file is truncated, then written.
OpenBaseline ==
  /\ Reported
  /\ baseline' = Torn
  /\ exit' = "writing"
  /\ UNCHANGED <<rvars, at, report, slowGoals, slowTwice, slowBase>>

WriteBaseline ==
  /\ exit = "writing"
  /\ baseline' = report
  /\ slowBase' = slowGoals
  /\ exit' = "recorded"
  /\ UNCHANGED <<rvars, at, report, slowGoals, slowTwice>>

\* eval smoke and eval bench-regress: json.load raises on a torn file.
Gate(good, pass, fail) ==
  /\ Reported
  /\ exit' = IF baseline = Torn THEN "raised" ELSE IF good THEN pass ELSE fail
  /\ UNCHANGED <<rvars, at, report, baseline, slowGoals, slowTwice, slowBase>>

Smoke        == Gate(SameReport(report, baseline), "match", "mismatch")
BenchRegress == Gate(WithinDrift(report, baseline), "within", "drifted")

\* The process of the command stops.
Interrupt ==
  /\ exit \in {"running", "writing"}
  /\ exit' = "interrupted" /\ at' = 0 /\ report' = <<>> /\ slowGoals' = {} /\ slowTwice' = {}
  /\ NewRun({})
  /\ UNCHANGED <<files, slow, baseline, slowBase>>

ENext == Invoke \/ MakeFixture \/ StartSuite \/ RunGoal \/ NextGoal \/ PrintReport
         \/ OpenBaseline \/ WriteBaseline \/ Smoke \/ BenchRegress \/ Interrupt

ESpec == EInit /\ [][ENext]_evars
-----------------------------------------------------------------------------
(* Properties. *)

\* The suite is hermetic: a goal none of whose tool calls was slow ends with
\* its recorded row, whatever files earlier and interrupted commands left in
\* the workspace and whatever happened to the goals before it.
EndsAsRecorded ==
  \A i \in DOMAIN report : i \notin slowGoals => report[i] = Recorded[i]

\* A goal's only slow call costs it one replan and nothing else: it succeeds
\* within its budgets, though its script goes on from where the slow call left
\* it.  The one exception is a script that now reads ahead, a file of which
\* its own write was still to come.
SlowCallRecovered ==
  \A i \in (slowGoals \ slowTwice) \cap DOMAIN report :
    LET key == Classify(Suite[i].text)
        row == report[i]
    IN  \/ row.status = "succeeded" /\ row.replans = Recorded[i].replans + 1
        \/ key \in DOMAIN ReadPaths /\ ~ Elements(ReadPaths[key]) \subseteq files

\* What a goal has cost is what its counters say: each plan after the first
\* was called for by one replan, and each step by one selector call; neither a
\* refused hint nor a failed tool is paid for twice, or not at all.
CostExplained ==
  \A i \in DOMAIN report :
    LET row   == report[i]
        plans == IF row.reason = "max_replans_exceeded" THEN row.replans ELSE row.replans + 1
    IN  /\ row.cost = PlanCost * plans + SelectCost * row.steps
        /\ row.steps <= MaxSteps /\ row.replans <= MaxReplans + 1

\* eval smoke says what happened: it fails when a goal had a slow call in this
\* run and none in the run that recorded the baseline, or the other way about,
\* and it passes when neither run had one.
SmokeSeesSlowCalls ==
  /\ exit = "match" => slowGoals = slowBase
  /\ exit = "mismatch" => slowGoals \cup slowBase # {}

\* bench-regress lets through what a slow call costs a goal that recovers, and
\* no goal that is lost: while the slow calls of this run and of the one that
\* recorded the baseline are calls of one goal, it passes exactly when as many
\* goals aborted as did in the baseline, so that a baseline recorded with a
\* lost goal fails a run that has none.
DriftGateSeesAborts ==
  exit \in {"within", "drifted"} /\ (\A i, j \in slowGoals \cup slowBase : i = j) =>
    (exit = "within" <=> BenchMetrics(report).abort = BenchMetrics(baseline).abort)
=============================================================================
