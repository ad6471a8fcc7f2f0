---------------------------- MODULE ScriptedRun -----------------------------
(***************************************************************************)
(* Runner with the provider and the tools the eval harness gives it: the   *)
(* script of src/src/agentic_runner/providers/fake.py in the place of the  *)
(* model's free answers, and the tools' effects on the workspace in the    *)
(* place of free outcomes.  Every step is a step of Runner.                *)
(*                                                                         *)
(* Abstracted: a goal text is the set of patterns it matches; arguments    *)
(* are the path of a file tool, whether extract_json gets a hint, and      *)
(* "plain" for the rest; a file is there or not.  (What is in it decides   *)
(* nothing here: summarize takes str(last_out) if the content is empty.)   *)
(* A cost unit is 0.0001 USD.  The wall clock does not run out.            *)
(***************************************************************************)
EXTENDS Runner

CONSTANT MaxSlow   \* how many tool calls may be slow

VARIABLES
  text,      \* the goal: the keys of the patterns its text matches
  planIdx,   \* FakeProvider._state[key]["plan_idx"]
  toolIdx,   \* FakeProvider._state[key]["tool_idx"]
  arg,       \* the argument of the tool call in hand
  files,     \* the files in the workspace directory
  slow       \* history: the slow calls there have been

script == <<planIdx, toolIdx, arg>>
rvars  == <<vars, text, script, files, slow>>

ASSUME SlowAssumption == MaxSlow \in Nat
-----------------------------------------------------------------------------
(* The script: _PLAN_SCRIPT, _TOOL_ARGS and _GOAL_PATTERNS. *)

\* A script whose plans are one tool each and then the finish.
Ask(tool) == << <<tool, "finish">> >>

PlanScript ==
  [calc_avg_eng     |-> Ask("query_db"),
   calc_simple      |-> Ask("calculate"),
   list_employees   |-> Ask("query_db"),
   count_orders     |-> Ask("query_db"),
   read_notes       |-> Ask("read_file"),
   write_then_read  |-> << <<"write_file", "read_file", "finish">> >>,
   fetch_status     |-> Ask("http_get"),
   summarize_doc    |-> << <<"read_file", "summarize", "finish">> >>,
   extract_struct   |-> Ask("extract_json"),
   math_two_step    |-> << <<"calculate", "calculate", "finish">> >>,
   department_count |-> Ask("query_db"),
   find_john_salary |-> Ask("query_db") \o Ask("read_file"),
   send_email       |-> << <<"send_email">> >>,
   summarize_short  |-> Ask("summarize"),
   extract_strict   |-> Ask("extract_json") \o Ask("extract_json"),
   compose_report   |-> << <<"write_file", "read_file", "summarize", "calculate", "query_db",
                             "calculate", "http_get", "write_file", "read_file", "finish">> >>,
   data_pipeline    |-> << <<"query_db", "calculate", "query_db", "calculate", "write_file",
                             "read_file", "summarize", "extract_json", "calculate", "finish">> >>,
   research_aggregate |-> << <<"http_get", "write_file", "read_file", "summarize", "query_db",
                               "calculate", "write_file", "read_file", "extract_json", "finish">> >>,
   kitchen_sink     |-> << <<"read_file", "summarize", "write_file", "read_file", "calculate",
                             "calculate", "query_db", "http_get", "extract_json", "finish">> >>,
   audit_trail      |-> << <<"query_db", "write_file", "read_file", "query_db", "calculate",
                             "query_db", "calculate", "write_file", "read_file", "finish">> >>]

\* The scripted plans whose args_override gives extract_json its hint.
HintedPlans == {<<"extract_strict", 2>>}

ReadPaths ==
  [read_notes |-> <<"notes">>, write_then_read |-> <<"report">>,
   summarize_doc |-> <<"long_doc">>, find_john_salary |-> <<"salaries">>,
   compose_report |-> <<"seed", "report_final">>, data_pipeline |-> <<"metrics">>,
   research_aggregate |-> <<"corpus", "brief">>, kitchen_sink |-> <<"long_doc", "kitchen">>,
   audit_trail |-> <<"snapshot", "audit_summary">>]

WritePaths ==
  [write_then_read |-> <<"report">>, compose_report |-> <<"seed", "report_final">>,
   data_pipeline |-> <<"metrics">>, research_aggregate |-> <<"corpus", "brief">>,
   kitchen_sink |-> <<"kitchen">>, audit_trail |-> <<"snapshot", "audit_summary">>]

\* _TOOL_ARGS, for a tool that a plan of the script names.
ToolArgs(key, tool) ==
  CASE tool = "read_file"  -> ReadPaths[key]
    [] tool = "write_file" -> WritePaths[key]
    [] tool = "extract_json" ->
         IF key = "extract_strict" THEN <<"noHint", "hint">> ELSE <<"hint">>
    [] OTHER -> <<"plain">>

\* The keys in the order of _GOAL_PATTERNS, most specific first.
Patterns ==
  <<"compose_report", "data_pipeline", "research_aggregate", "kitchen_sink", "audit_trail",
    "calc_simple", "calc_avg_eng", "math_two_step", "department_count", "find_john_salary",
    "send_email", "summarize_short", "extract_strict", "summarize_doc", "extract_struct",
    "list_employees", "count_orders", "read_notes", "write_then_read", "fetch_status">>

\* Mutant of Classify: the last pattern that matches.
ClassifyLast(t) ==
  Patterns[CHOOSE i \in DOMAIN Patterns :
             /\ Patterns[i] \in t
             /\ \A j \in DOMAIN Patterns : Patterns[j] \in t => j <= i]

\* _classify_goal: the first pattern that matches.
Classify(t) ==
  Patterns[CHOOSE i \in DOMAIN Patterns :
             /\ Patterns[i] \in t
             /\ \A j \in DOMAIN Patterns : Patterns[j] \in t => i <= j]

Key == Classify(text)

\* list[min(n, len(list) - 1)], n counted from 0.
Clamped(list, n) == list[IF n < Len(list) THEN n + 1 ELSE Len(list)]

PlanCost   == 8
SelectCost == 4
-----------------------------------------------------------------------------
\* No provider and no runner yet.
RInit ==
  /\ Init /\ pc = "create"
  /\ text = {} /\ planIdx = 0 /\ toolIdx = [tool \in Tools |-> 0] /\ arg = "none"

\* A new FakeProvider and a new Runner for goal t: Init again.
NewRun(t) ==
  /\ pc' = "create" /\ goal' = NewGoal("absent")
  /\ subtasks' = <<>> /\ calls' = <<>> /\ events' = <<>>
  /\ plan' = <<>> /\ base' = 0 /\ pos' = 1
  /\ steps' = 0 /\ replans' = 0 /\ cost' = 0
  /\ lastFailure' = "none" /\ prior' = <<>>
  /\ expired' = FALSE /\ late' = 0
  /\ text' = t /\ planIdx' = 0 /\ toolIdx' = [tool \in Tools |-> 0] /\ arg' = "none"

\* What the loop does without asking the provider or a tool.
LoopAlone ==
  /\ Step
  /\ pc \notin {"planning", "invoking"} /\ ~Admitted
  /\ UNCHANGED <<text, script, files, slow>>

\* Mutant of AnswerPlan: plan_idx is not clamped, and past the end of the
\* script the plan is empty.
AnswerPlanUnclamped ==
  /\ planIdx' = planIdx + 1
  /\ IF planIdx < Len(PlanScript[Key])
       THEN plan' = PlanScript[Key][planIdx + 1] /\ AdoptPlan /\ cost' = cost + PlanCost
       ELSE EmptyPlan /\ cost' = cost
  /\ UNCHANGED <<text, toolIdx, arg, files, slow>>

\* FakeProvider._plan: the next plan of the script, the last one again and again.
AnswerPlan ==
  /\ plan' = Clamped(PlanScript[Key], planIdx)
  /\ AdoptPlan
  /\ cost' = cost + PlanCost
  /\ planIdx' = IF planIdx < Len(PlanScript[Key]) THEN planIdx + 1 ELSE Len(PlanScript[Key])
  /\ UNCHANGED <<text, toolIdx, arg, files, slow>>

\* Mutant of AnswerSelect: what the selector call costs is not counted.
AnswerSelectUncounted ==
  /\ Admitted /\ plan[pos] \in Tools
  /\ LET tool == plan[pos]
     IN  /\ SelectTool /\ calls' = Append(calls, NewCall(Row, tool))
         /\ toolIdx' = [toolIdx EXCEPT ![tool] = @ + 1]
         /\ arg' = IF <<Key, planIdx>> \in HintedPlans /\ tool = "extract_json"
                     THEN "hint"
                     ELSE Clamped(ToolArgs(Key, tool), toolIdx[tool])
  /\ cost' = cost
  /\ UNCHANGED <<text, planIdx, files, slow>>

\* FakeProvider._select, with the plan's args_override: the hinted tool with
\* its next arguments, the last ones again and again.
AnswerSelect ==
  /\ Admitted /\ plan[pos] \in Tools
  /\ LET tool == plan[pos]
     IN  /\ SelectTool /\ calls' = Append(calls, NewCall(Row, tool))
         /\ toolIdx' = [toolIdx EXCEPT ![tool] = @ + 1]
         /\ arg' = IF <<Key, planIdx>> \in HintedPlans /\ tool = "extract_json"
                     THEN "hint"
                     ELSE Clamped(ToolArgs(Key, tool), toolIdx[tool])
  /\ cost' = cost + SelectCost
  /\ UNCHANGED <<text, planIdx, files, slow>>

\* The selector does not ask the provider for a tool that is not registered.
RefuseHint ==
  /\ Admitted /\ plan[pos] \notin Tools
  /\ SelectorFails
  /\ UNCHANGED <<text, script, files, slow>>
-----------------------------------------------------------------------------
(* The tools: which calls have an output, and what they leave behind. *)

\* read_file wants a file; extract_json gets a payload that does not fit the
\* schema (FakeProvider._extract) when it is given no hint.
Works ==
  CASE LastCall.tool = "read_file"    -> arg \in files
    [] LastCall.tool = "extract_json" -> arg = "hint"
    [] OTHER                          -> TRUE

Written == IF LastCall.tool = "write_file" THEN files \cup {arg} ELSE files

ToolWorks ==
  /\ pc = "invoking" /\ Works
  /\ ToolReturns /\ calls'[Len(calls)].verdict = "valid"
  /\ files' = Written
  /\ UNCHANGED <<text, script, slow>>

ToolRefuses ==
  /\ pc = "invoking" /\ ~Works
  /\ ToolErrors
  /\ UNCHANGED <<text, script, files, slow>>

\* The machine stalls while a tool runs: the guard looks at the time when the
\* tool is back, so the call has had its effect and is a timeout all the same.
ToolIsSlow ==
  /\ pc = "invoking" /\ Works
  /\ slow < MaxSlow
  /\ ToolTimesOut
  /\ slow' = slow + 1
  /\ files' = Written
  /\ UNCHANGED <<text, script>>

ScriptedStep == LoopAlone \/ AnswerPlan \/ AnswerSelect \/ RefuseHint
                \/ ToolWorks \/ ToolRefuses \/ ToolIsSlow
=============================================================================
