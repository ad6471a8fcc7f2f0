------------------------------- MODULE Runner -------------------------------
(***************************************************************************)
(* The sequential control loop of agentic-runner, src/src/agentic_runner/  *)
(* runner.py: Runner.run, _init_goal, _run_loop, _succeed, _abort and      *)
(* _record_replan, with what the loop sees of the planner, the selector,   *)
(* invoke_with_guard and the validator.                                    *)
(*                                                                         *)
(* The variables goal, subtasks, calls and events are the COMMITTED rows   *)
(* of the database; the others are the loop's local variables, lost when   *)
(* the process dies.  One action stands for the code between two commits,  *)
(* so that Crash can fall between any two of them; a change made to an ORM *)
(* object and not yet committed shows only in the action that commits it.  *)
(*                                                                         *)
(* Abstracted: texts, arguments, outputs and latencies.  A plan is the     *)
(* sequence of the tool hints of its subtasks; a cost is a whole number of *)
(* units; prior_outputs holds the subtask rows whose output it stores.     *)
(***************************************************************************)
EXTENDS Naturals, Sequences, FiniteSets

CONSTANTS
  Tools,          \* the names in REGISTRY
  Finish,         \* the tool whose valid output ends the goal
  Hints,          \* the tool hints a planner may write, registered or not
  Plans,          \* the non-empty plans a planner may return
  MaxSteps,       \* RunBudget.max_steps
  MaxReplans,     \* RunBudget.max_replans
  MaxCost,        \* RunBudget.max_cost_usd, in units
  MaxPlanCost,    \* the dearest planner call
  MaxSelectCost   \* the dearest selector call

ASSUME ToolsAssumption == Finish \in Tools
ASSUME PlansAssumption == Plans \subseteq Seq(Hints) \ {<<>>}
ASSUME BudgetAssumption ==
  /\ MaxSteps \in Nat
  /\ MaxReplans \in Nat
  /\ MaxCost \in Nat
  /\ MaxPlanCost \in Nat
  /\ MaxSelectCost \in Nat

VARIABLES
  pc,           \* where the thread is
  goal,         \* the row of goals
  subtasks,     \* the rows of subtasks, by idx: their status
  calls,        \* the rows of tool_calls, with the verdict of their validation
  events,       \* the rows of replan_events
  plan,         \* the plan in hand
  base,         \* base_idx: the rows that precede those of the plan
  pos,          \* the position of the loop in the plan
  steps,        \* steps_taken
  replans,      \* replan_count
  cost,         \* cost_usd
  lastFailure,  \* last_failure
  prior,        \* state["prior_outputs"]
  expired,      \* elapsed > max_wall_clock_s
  late          \* history: the calls begun after the wall clock ran out

db     == <<goal, subtasks, calls, events>>
totals == <<steps, replans, cost>>
inPlan == <<plan, base, pos>>
vars   == <<pc, goal, subtasks, calls, events, plan, base, pos, steps, replans,
            cost, lastFailure, prior, expired, late>>
-----------------------------------------------------------------------------
GoalStatus    == {"absent", "pending", "running", "succeeded", "aborted"}
SubtaskStatus == {"pending", "running", "done", "failed"}
CallStatus    == {"ok", "error", "timeout"}

InvalidKinds == {"output_schema_mismatch", "confidence_too_low"}
FailureKind  == InvalidKinds \cup
                {"no_tool_for_subtask", "timeout", "tool_returned_error"}

\* "none" while the call has no row in validation_results.
Verdicts == {"none", "valid"} \cup InvalidKinds

AbortReasons ==
  {"wall_clock_exceeded", "max_replans_exceeded", "planner_error",
   "planner_returned_empty_plan", "max_cost_exceeded", "max_steps_exceeded",
   "plan_exhausted_without_finish"}

GoalRow  == [status : GoalStatus, reason : AbortReasons \cup {"none"},
             steps : Nat, replans : Nat, cost : Nat, final : Nat]
CallRow  == [sub : Nat, tool : Tools, status : CallStatus, verdict : Verdicts]
EventRow == [idx : Nat, call : Nat, kind : FailureKind]

Ended   == {"succeeded", "aborted", "raised", "crashed"}
Running == {"top", "planning", "subtask", "noTool", "giveUp", "invoking",
            "invalid", "valid", "finished", "record"}
PCs     == {"create", "start"} \cup Running \cup Ended

\* The row a new goal gets: the column defaults of models.Goal.
NewGoal(s) == [status |-> s, reason |-> "none", steps |-> 0, replans |-> 0,
               cost |-> 0, final |-> 0]

\* A call that is committed, and of which nothing more is: status has the
\* column default "ok" and there is no output and no validation yet.
NewCall(r, t) == [sub |-> r, tool |-> t, status |-> "ok", verdict |-> "none"]

Row      == base + pos                 \* the subtask row the loop is at
LastCall == calls[Len(calls)]

\* Runner.run is called without a goal_id, or with the id of a row that the
\* API has just committed, or with an id that has no row.
Init ==
  /\ \/ pc = "create" /\ goal = NewGoal("absent")
     \/ pc = "start" /\ goal = NewGoal("pending")
     \/ pc = "start" /\ goal = NewGoal("absent")
  /\ subtasks = <<>> /\ calls = <<>> /\ events = <<>>
  /\ plan = <<>> /\ base = 0 /\ pos = 1
  /\ steps = 0 /\ replans = 0 /\ cost = 0
  /\ lastFailure = "none" /\ prior = <<>>
  /\ expired = FALSE /\ late = 0
-----------------------------------------------------------------------------
(* _init_goal: two commits, PENDING and then RUNNING. *)

CreateGoal ==
  /\ pc = "create"
  /\ goal' = NewGoal("pending")
  /\ pc' = "start"
  /\ UNCHANGED <<subtasks, calls, events, inPlan, totals, lastFailure, prior,
                 expired, late>>

MissingGoal ==
  /\ pc = "start" /\ goal.status = "absent"
  /\ pc' = "raised"
  /\ UNCHANGED <<db, inPlan, totals, lastFailure, prior, expired, late>>

MarkRunning ==
  /\ pc = "start" /\ goal.status = "pending"
  /\ goal' = [goal EXCEPT !.status = "running"]
  /\ pc' = "top"
  /\ UNCHANGED <<subtasks, calls, events, inPlan, totals, lastFailure, prior,
                 expired, late>>
-----------------------------------------------------------------------------
(* _abort and _succeed: one commit of the goal row with the totals. *)

Abort(reason, total) ==
  /\ goal' = [goal EXCEPT !.status = "aborted", !.reason = reason,
                          !.steps = steps, !.replans = replans, !.cost = total]
  /\ cost' = total
  /\ pc' = "aborted"
  /\ UNCHANGED <<subtasks, calls, events, inPlan, steps, replans, lastFailure,
                 prior, expired, late>>

Succeed ==
  /\ pc = "finished"
  /\ goal' = [goal EXCEPT !.status = "succeeded", !.final = Len(calls),
                          !.steps = steps, !.replans = replans, !.cost = cost]
  /\ pc' = "succeeded"
  /\ UNCHANGED <<subtasks, calls, events, inPlan, totals, lastFailure, prior,
                 expired, late>>
-----------------------------------------------------------------------------
(* The head of the loop: two budgets, then the planner. *)

WallClockExceeded ==
  /\ pc = "top" /\ expired
  /\ Abort("wall_clock_exceeded", cost)

ReplansExceeded ==
  /\ pc = "top" /\ ~expired /\ replans > MaxReplans
  /\ Abort("max_replans_exceeded", cost)

\* Mutant of CallPlanner: the wall clock is not looked at.
CallPlannerLate ==
  /\ pc = "top" /\ replans <= MaxReplans
  /\ pc' = "planning"
  /\ UNCHANGED <<db, inPlan, totals, lastFailure, prior, expired, late>>

\* Mutant of CallPlanner: the replan budget is not looked at.
CallPlannerAgain ==
  /\ pc = "top" /\ ~expired
  /\ pc' = "planning"
  /\ UNCHANGED <<db, inPlan, totals, lastFailure, prior, expired, late>>

CallPlanner ==
  /\ pc = "top" /\ ~expired /\ replans <= MaxReplans
  /\ pc' = "planning"
  /\ UNCHANGED <<db, inPlan, totals, lastFailure, prior, expired, late>>

\* PlannerError: the response is no JSON or no plan.  Its cost is not counted.
PlannerFails ==
  /\ pc = "planning"
  /\ Abort("planner_error", cost)

\* An empty plan aborts before the cost is looked at.
EmptyPlan ==
  /\ pc = "planning"
  /\ \E c \in 0 .. MaxPlanCost : Abort("planner_returned_empty_plan", cost + c)

PlanTooDear ==
  /\ pc = "planning"
  /\ \E c \in 0 .. MaxPlanCost :
       cost + c > MaxCost /\ Abort("max_cost_exceeded", cost + c)

\* The subtasks of the new plan are committed after those of earlier plans.
AdoptPlan ==
  /\ pc = "planning"
  /\ \E p \in Plans, c \in 0 .. MaxPlanCost :
       /\ cost + c <= MaxCost
       /\ plan' = p
       /\ cost' = cost + c
       /\ subtasks' = subtasks \o [i \in 1 .. Len(p) |-> "pending"]
  /\ base' = Len(subtasks)
  /\ pos' = 1
  /\ pc' = "subtask"
  /\ UNCHANGED <<goal, calls, events, steps, replans, lastFailure, prior,
                 expired, late>>
-----------------------------------------------------------------------------
(* One subtask: two budgets, then the selector. *)

StepsExceeded ==
  /\ pc = "subtask" /\ pos <= Len(plan) /\ steps >= MaxSteps
  /\ Abort("max_steps_exceeded", cost)

\* Mutant of CostExceeded: a budget spent to the last unit counts as exceeded.
CostReached ==
  /\ pc = "subtask" /\ pos <= Len(plan) /\ steps < MaxSteps /\ cost >= MaxCost
  /\ Abort("max_cost_exceeded", cost)

CostExceeded ==
  /\ pc = "subtask" /\ pos <= Len(plan) /\ steps < MaxSteps /\ cost > MaxCost
  /\ Abort("max_cost_exceeded", cost)

\* Mutant of Admitted: one step too many.
AdmittedOneMore ==
  pc = "subtask" /\ pos <= Len(plan) /\ steps <= MaxSteps /\ cost <= MaxCost

Admitted ==
  pc = "subtask" /\ pos <= Len(plan) /\ steps < MaxSteps /\ cost <= MaxCost

\* What a selector call may cost: nothing if the hint is not registered, for
\* then the provider is not asked.
SelectCosts == IF plan[pos] \in Tools THEN 0 .. MaxSelectCost ELSE {0}

\* The hint is not registered, or the provider chose no tool or an unknown one.
SelectorFails ==
  /\ Admitted
  /\ \E c \in SelectCosts : cost' = cost + c
  /\ subtasks' = [subtasks EXCEPT ![Row] = "failed"]
  /\ lastFailure' = "no_tool_for_subtask"
  /\ pc' = "noTool"
  /\ UNCHANGED <<goal, calls, events, inPlan, steps, replans, prior, expired, late>>

\* Any registered tool may be chosen, whatever the hint.  The row of the call
\* is committed before the tool runs.
SelectTool ==
  /\ Admitted /\ plan[pos] \in Tools
  /\ \E t \in Tools, c \in SelectCosts :
       /\ calls' = Append(calls, NewCall(Row, t))
       /\ cost' = cost + c
  /\ steps' = steps + 1
  /\ late' = IF expired THEN late + 1 ELSE late
  /\ pc' = "invoking"
  /\ UNCHANGED <<goal, subtasks, events, inPlan, replans, lastFailure, prior, expired>>

\* _record_replan; c is the call that triggered it, 0 for none.
RecordEvent(c) ==
  /\ replans' = replans + 1
  /\ events' = Append(events, [idx |-> replans', call |-> c, kind |-> lastFailure])

\* Mutant of RecordNoTool: the failure that spends the budget gets no event.
RecordNoToolUnlessSpent ==
  /\ pc = "noTool"
  /\ IF replans < MaxReplans
       THEN RecordEvent(0) /\ pc' = "top"
       ELSE replans' = replans + 1 /\ pc' = "giveUp" /\ UNCHANGED events
  /\ UNCHANGED <<goal, subtasks, calls, inPlan, steps, cost, lastFailure, prior,
                 expired, late>>

\* After a selector failure the replan budget is looked at at once.
RecordNoTool ==
  /\ pc = "noTool"
  /\ RecordEvent(0)
  /\ pc' = IF replans' > MaxReplans THEN "giveUp" ELSE "top"
  /\ UNCHANGED <<goal, subtasks, calls, inPlan, steps, cost, lastFailure, prior,
                 expired, late>>

GiveUp ==
  /\ pc = "giveUp"
  /\ Abort("max_replans_exceeded", cost)

\* Mutant of RecordReplan: the same subtask is tried again.
RetryCall ==
  /\ pc = "record"
  /\ RecordEvent(Len(calls))
  /\ pc' = "subtask"
  /\ UNCHANGED <<goal, subtasks, calls, inPlan, steps, cost, lastFailure, prior,
                 expired, late>>

\* After any other failure the head of the loop does that.
RecordReplan ==
  /\ pc = "record"
  /\ RecordEvent(Len(calls))
  /\ pc' = "top"
  /\ UNCHANGED <<goal, subtasks, calls, inPlan, steps, cost, lastFailure, prior,
                 expired, late>>
-----------------------------------------------------------------------------
(* invoke_with_guard and the validator. *)

\* Mutant of ToolFails: the subtask is left pending.
ToolFailsAlone(status, kind) ==
  /\ pc = "invoking"
  /\ calls' = [calls EXCEPT ![Len(calls)].status = status]
  /\ lastFailure' = kind
  /\ pc' = "record"
  /\ UNCHANGED <<goal, subtasks, events, inPlan, totals, prior, expired, late>>

\* ToolTimeoutError, raised by the tool or by the guard once the tool is back,
\* or ToolInvocationError: the call and the subtask are settled in one commit.
ToolFails(status, kind) ==
  /\ pc = "invoking"
  /\ calls' = [calls EXCEPT ![Len(calls)].status = status]
  /\ subtasks' = [subtasks EXCEPT ![Row] = "failed"]
  /\ lastFailure' = kind
  /\ pc' = "record"
  /\ UNCHANGED <<goal, events, inPlan, totals, prior, expired, late>>

ToolTimesOut == ToolFails("timeout", "timeout")
ToolErrors   == ToolFails("error", "tool_returned_error")

\* Mutant of ToolReturns: a low confidence is recorded but not acted on.
ToolReturnsLax ==
  /\ pc = "invoking"
  /\ \E v \in Verdicts \ {"none"} :
       /\ calls' = [calls EXCEPT ![Len(calls)].verdict = v]
       /\ pc' = IF v = "output_schema_mismatch" THEN "invalid" ELSE "valid"
  /\ subtasks' = [subtasks EXCEPT ![Row] = "running"]
  /\ UNCHANGED <<goal, events, inPlan, totals, lastFailure, prior, expired, late>>

\* The output is there and is judged; the commit of the validation row also
\* commits the status RUNNING the subtask got before the call.
ToolReturns ==
  /\ pc = "invoking"
  /\ \E v \in Verdicts \ {"none"} :
       /\ calls' = [calls EXCEPT ![Len(calls)].verdict = v]
       /\ pc' = IF v = "valid" THEN "valid" ELSE "invalid"
  /\ subtasks' = [subtasks EXCEPT ![Row] = "running"]
  /\ UNCHANGED <<goal, events, inPlan, totals, lastFailure, prior, expired, late>>

\* Mutant of RejectOutput: the failure passed on is the one before.
RejectOutputStale ==
  /\ pc = "invalid"
  /\ subtasks' = [subtasks EXCEPT ![Row] = "failed"]
  /\ pc' = "record"
  /\ UNCHANGED <<goal, calls, events, inPlan, totals, lastFailure, prior, expired, late>>

RejectOutput ==
  /\ pc = "invalid"
  /\ subtasks' = [subtasks EXCEPT ![Row] = "failed"]
  /\ lastFailure' = LastCall.verdict
  /\ pc' = "record"
  /\ UNCHANGED <<goal, calls, events, inPlan, totals, prior, expired, late>>

\* Mutant of AcceptOutput: the output is not kept for the planner.
AcceptOutputForgets ==
  /\ pc = "valid"
  /\ subtasks' = [subtasks EXCEPT ![Row] = "done"]
  /\ IF LastCall.tool = Finish
       THEN pc' = "finished" /\ UNCHANGED pos
       ELSE pc' = "subtask" /\ pos' = pos + 1
  /\ UNCHANGED <<goal, calls, events, plan, base, totals, lastFailure, prior, expired, late>>

AcceptOutput ==
  /\ pc = "valid"
  /\ subtasks' = [subtasks EXCEPT ![Row] = "done"]
  /\ prior' = Append(prior, Row)
  /\ IF LastCall.tool = Finish
       THEN pc' = "finished" /\ UNCHANGED pos
       ELSE pc' = "subtask" /\ pos' = pos + 1
  /\ UNCHANGED <<goal, calls, events, plan, base, totals, lastFailure, expired, late>>

\* Mutant of PlanExhausted: off by one.
PlanExhaustedLate ==
  /\ pc = "subtask" /\ pos > Len(plan) + 1
  /\ Abort("plan_exhausted_without_finish", cost)

PlanExhausted ==
  /\ pc = "subtask" /\ pos > Len(plan)
  /\ Abort("plan_exhausted_without_finish", cost)
-----------------------------------------------------------------------------
(* What the loop does not handle. *)

\* An exception leaves run: session.close drops what is not committed.
Raise ==
  /\ pc' = "raised"
  /\ UNCHANGED <<db, inPlan, totals, lastFailure, prior, expired, late>>

\* provider.chat raises, in the planner or in the selector.
ProviderRaises ==
  /\ pc = "planning" \/ (Admitted /\ plan[pos] \in Tools)
  /\ Raise

\* The arguments do not fit input_model: model_validate stands before the try
\* of invoke_with_guard, so its ValidationError is no ToolInvocationError.
ArgumentsRejected ==
  /\ pc = "invoking"
  /\ Raise

\* The process (the API's daemon thread) stops between two commits.
Crash ==
  /\ pc \notin Ended
  /\ pc' = "crashed"
  /\ UNCHANGED <<db, inPlan, totals, lastFailure, prior, expired, late>>

\* The wall clock runs out.
Tick ==
  /\ pc \notin Ended /\ ~expired
  /\ expired' = TRUE
  /\ UNCHANGED <<pc, db, inPlan, totals, lastFailure, prior, late>>

\* run has returned or raised, or there is no process: nothing happens.
Stopped == pc \in Ended /\ UNCHANGED vars
-----------------------------------------------------------------------------
Planning == WallClockExceeded \/ ReplansExceeded \/ CallPlanner \/ PlannerFails
            \/ EmptyPlan \/ PlanTooDear \/ AdoptPlan
Selecting == StepsExceeded \/ CostExceeded \/ SelectorFails \/ SelectTool
             \/ RecordNoTool \/ GiveUp
Invoking == ToolTimesOut \/ ToolErrors \/ ToolReturns \/ RejectOutput
            \/ AcceptOutput \/ RecordReplan \/ PlanExhausted \/ Succeed

\* The steps the code itself takes when nothing escapes it.
Step == CreateGoal \/ MissingGoal \/ MarkRunning \/ Planning \/ Selecting \/ Invoking

Next == Step \/ ProviderRaises \/ ArgumentsRejected \/ Crash \/ Tick \/ Stopped

Spec == Init /\ [][Next]_vars

\* The thread runs, and the provider and the tool return or raise.
FairSpec == Spec /\ WF_vars(Step)
-----------------------------------------------------------------------------
(* Properties. *)

\* Every variable has its type; the rows have the columns of models.py.
TypeOK ==
  /\ pc \in PCs
  /\ goal \in GoalRow
  /\ subtasks \in Seq(SubtaskStatus)
  /\ calls \in Seq(CallRow)
  /\ events \in Seq(EventRow)
  /\ plan \in Plans \cup {<<>>}
  /\ base \in Nat /\ pos \in Nat
  /\ steps \in Nat /\ replans \in Nat /\ cost \in Nat
  /\ lastFailure \in FailureKind \cup {"none"}
  /\ prior \in Seq(Nat)
  /\ expired \in BOOLEAN
  /\ late \in Nat

\* RunBudget holds whatever the tools, the provider and the clock do: never
\* more than max_steps committed calls; one failure beyond max_replans and no
\* more; the counted cost passes max_cost_usd by one selector call and one
\* planner call at most, for it is looked at before each subtask and after
\* each plan; the wall clock is read at the head of the loop only, so the work
\* begun after it ran out is at most what one plan holds.
BudgetsHold ==
  /\ Len(calls) <= MaxSteps
  /\ Len(events) <= MaxReplans + 1
  /\ cost <= MaxCost + MaxSelectCost + MaxPlanCost
  /\ late <= Len(plan)

FinishedBy(i) ==
  /\ calls[i].tool = Finish /\ calls[i].verdict = "valid"
  /\ subtasks[calls[i].sub] = "done"

\* An abort names the budget that is spent, or the planner's failure, and the
\* row bears it out; a plan is exhausted only when all its subtasks are done
\* and none of the valid outputs was a finish ("honest termination").
HonestAbort ==
  goal.status = "aborted" =>
    /\ goal.reason # "none" /\ goal.final = 0
    /\ goal.reason = "wall_clock_exceeded" => expired
    /\ goal.reason = "max_replans_exceeded" => Len(events) = MaxReplans + 1
    /\ goal.reason = "max_steps_exceeded" => Len(calls) = MaxSteps
    /\ goal.reason = "max_cost_exceeded" => goal.cost > MaxCost
    /\ goal.reason = "plan_exhausted_without_finish" =>
         \A r \in base + 1 .. Len(subtasks) : subtasks[r] = "done"
    /\ ~ \E i \in DOMAIN calls : FinishedBy(i)

\* A goal succeeds only on the valid output of a finish, the last call there
\* is, after every earlier subtask of the same plan was done.
HonestSuccess ==
  goal.status = "succeeded" =>
    /\ goal.reason = "none"
    /\ goal.final = Len(calls) /\ goal.final > 0
    /\ FinishedBy(goal.final)
    /\ \A i \in DOMAIN calls : FinishedBy(i) => i = goal.final
    /\ \A r \in base + 1 .. calls[goal.final].sub : subtasks[r] = "done"

\* What a reader adds up from the trace is what the goal row says: once a goal
\* has ended, its totals are the rows, and each failed subtask has its event.
TotalsMatchTrace ==
  goal.status \in {"succeeded", "aborted"} =>
    /\ goal.steps = Len(calls)
    /\ goal.replans = Len(events)
    /\ goal.replans = Cardinality({r \in DOMAIN subtasks : subtasks[r] = "failed"})
    /\ goal.cost = cost

OpenCall(i) == calls[i].status = "ok" /\ calls[i].verdict = "none"
CallFailed(i) == calls[i].status # "ok" \/ calls[i].verdict \in InvalidKinds

\* The committed rows explain each other at every instant, and so also after a
\* crash: no subtask is tried twice (a failure is met by a new plan, never by a
\* retry), calls are made in the order of the subtasks, a done subtask has a
\* valid call, and a call without a verdict is the last one, its goal running.
TraceExplained ==
  /\ \A i, j \in DOMAIN calls : i < j => calls[i].sub < calls[j].sub
  /\ \A r \in DOMAIN subtasks : subtasks[r] = "done" =>
       \E i \in DOMAIN calls : calls[i].sub = r /\ calls[i].verdict = "valid"
  /\ \A i \in DOMAIN calls :
       /\ CallFailed(i) => \/ subtasks[calls[i].sub] = "failed"
                           \/ i = Len(calls) /\ goal.status = "running"
       /\ OpenCall(i) => i = Len(calls) /\ goal.status = "running"
  /\ goal.status \notin {"absent", "pending", "running"} =>
       \A r \in DOMAIN subtasks : subtasks[r] # "running"

KindOf(i) ==
  CASE calls[i].status = "timeout" -> "timeout"
    [] calls[i].status = "error"   -> "tool_returned_error"
    [] OTHER                       -> calls[i].verdict

\* A replan event tells the truth: it names the kind of failure of the call
\* that triggered it, or of no call when the selector failed; events are
\* numbered from 1 without a gap and no call triggers two.
EventsTellTheTruth ==
  /\ \A k \in DOMAIN events :
       /\ events[k].idx = k
       /\ IF events[k].call = 0
            THEN events[k].kind = "no_tool_for_subtask"
            ELSE /\ CallFailed(events[k].call)
                 /\ events[k].kind = KindOf(events[k].call)
  /\ \A j, k \in DOMAIN events :
       j < k /\ events[k].call # 0 => events[j].call < events[k].call

\* The planner is asked with what the trace says: the kind of the last replan
\* event as the failure, and the outputs of exactly the done subtasks, in
\* their order, as the prior outputs.
PlannerKnowsTheTrace ==
  pc \in {"top", "planning"} =>
    /\ lastFailure = IF events = <<>> THEN "none" ELSE events[Len(events)].kind
    /\ {prior[i] : i \in DOMAIN prior} = {r \in DOMAIN subtasks : subtasks[r] = "done"}
    /\ \A i, j \in DOMAIN prior : i < j => prior[i] < prior[j]

\* What the project's texts say and the loop does not keep.
\* "Before each tool invocation - steps + cost" (ARCHITECTURE.md, Budgets): a
\* tool runs only while the counted cost is within max_cost_usd.
ToolRunsWithinCost == pc = "invoking" => cost <= MaxCost

\* "Tool dispatch is always Pydantic-valid or fails with a structured
\* FailureReason" (tests/unit/test_properties.py): when run has raised, every
\* call it made has got its outcome.
DispatchIsTyped == pc = "raised" => \A i \in DOMAIN calls : ~OpenCall(i)

\* The loop ends: max_replans bounds the plans and each plan is finite, so a
\* thread that keeps running, with tools and a provider that answer, gets to
\* an end whatever they answer.
Terminates == <>(pc \in Ended)
=============================================================================
