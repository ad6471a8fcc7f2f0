--------------------------- MODULE ParallelRunner ---------------------------
(***************************************************************************)
(* Runner.run_parallel, src/src/agentic_runner/runner.py: the plan-replan  *)
(* loop around the DAG scheduler.  It extends Scheduler: while rpc is      *)
(* "executing" the coroutine awaits the scheduler's run_parallel, which    *)
(* takes its own steps; after an exception the loop is gone and the        *)
(* threads it left run on.                                                 *)
(*                                                                         *)
(* goal, rows and events are the committed rows; one action stands for the *)
(* code between two commits, as in Runner.  _init_goal is modelled there:  *)
(* here the goal is RUNNING at first.  No tool call has a row in this mode *)
(* and no step reads the cost, the step or the wall-clock budget.  A       *)
(* failure and an output are named by the subtask row they come from.      *)
(***************************************************************************)
EXTENDS Scheduler

CONSTANT MaxReplans   \* RunBudget.max_replans

ASSUME ReplansAssumption == MaxReplans \in Nat

VARIABLES
  rpc,        \* where the loop of Runner.run_parallel is
  goal,       \* the row of goals
  rows,       \* the rows of subtasks, by idx: their status
  events,     \* the rows of replan_events: the row whose failure each one names
  base,       \* base_idx: the rows that precede those of the plan
  steps,      \* steps_taken
  replans,    \* replan_count
  reported,   \* last_failure: the row it comes from, 0 for None
  prior       \* state["prior_outputs"]: the rows the outputs come from

locals == <<base, steps, replans, reported, prior>>
rvars  == <<rpc, goal, rows, events, locals>>
pvars  == <<svars, rvars>>

RunEnded == {"succeeded", "aborted", "raised", "crashed"}

\* The outcomes by index, as ParallelResult.completed lists them.
Sorted(S) ==
  CHOOSE s \in [1 .. Cardinality(S) -> S] : \A j, k \in DOMAIN s : j < k => s[j] < s[k]

Valid     == {i \in completed : outcome[i] \in Ok}
-----------------------------------------------------------------------------
\* No plan yet: the scheduler has nothing to do.
PInit ==
  /\ plan = <<>> /\ spc = "returned" /\ outcome = <<>> /\ lastFailed = 0
  /\ scheduled = {} /\ waiting = {} /\ running = {} /\ completed = {}
  /\ rpc = "top"
  /\ goal = [status |-> "running", reason |-> "none", steps |-> 0, replans |-> 0, final |-> 0]
  /\ rows = <<>> /\ events = <<>>
  /\ base = 0 /\ steps = 0 /\ replans = 0 /\ reported = 0 /\ prior = <<>>

Abort(reason) ==
  /\ goal' = [goal EXCEPT !.status = "aborted", !.reason = reason,
                          !.steps = steps, !.replans = replans]
  /\ rpc' = "aborted"
  /\ UNCHANGED <<svars, rows, events, locals>>

\* The one budget there is.  The abort at the head of the loop cannot happen,
\* for RecordReplan gives up first: were the guard ever false, the loop would
\* be stuck here and TLC report a deadlock.
CallPlanner ==
  /\ rpc = "top" /\ replans <= MaxReplans
  /\ rpc' = "planning"
  /\ UNCHANGED <<svars, goal, rows, events, locals>>

PlannerFails == rpc = "planning" /\ Abort("planner_error")
EmptyPlan    == rpc = "planning" /\ Abort("planner_returned_empty_plan")

\* The rows of the plan are committed, as yet without their dependencies.
AdoptPlan ==
  /\ rpc = "planning"
  /\ \E p \in Shapes \ {<<>>} :
       /\ plan' = p
       /\ outcome' = [i \in 1 .. Len(p) |-> "none"]
       /\ rows' = rows \o [i \in 1 .. Len(p) |-> "pending"]
  /\ base' = Len(rows)
  /\ spc' = "schedule" /\ lastFailed' = 0
  /\ scheduled' = {} /\ waiting' = {} /\ running' = {} /\ completed' = {}
  /\ rpc' = "linking"
  /\ UNCHANGED <<goal, events, steps, replans, reported, prior>>

\* idx_to_id has every index the dependencies name, and they are committed.
LinkRows ==
  /\ rpc = "linking"
  /\ \A i \in Indices : plan[i].dependencies \subseteq Indices
  /\ rpc' = "executing"
  /\ UNCHANGED <<svars, goal, rows, events, locals>>

Raise == rpc' = "raised" /\ UNCHANGED <<svars, goal, rows, events, locals>>

\* idx_to_id[d] is a KeyError for an index out of range.
LinkRaises ==
  /\ rpc = "linking"
  /\ \E i \in Indices : ~(plan[i].dependencies \subseteq Indices)
  /\ Raise

\* provider.chat raises in the planner.
PlannerRaises == rpc = "planning" /\ Raise

\* The scheduler takes a step.
Execute ==
  /\ rpc = "executing"
  /\ Coroutine \/ TaskStep
  /\ UNCHANGED rvars

\* The exception of a task leaves the scheduler and then this loop.
ExecuteRaises == rpc = "executing" /\ spc = "raised" /\ Raise

\* What the scheduler left behind goes on, or is cancelled.
Orphaned ==
  /\ rpc = "raised"
  /\ TaskStep \/ CancelWaiting
  /\ UNCHANGED rvars
-----------------------------------------------------------------------------
\* The outcomes are zipped, in their order, with the rows from the first one on.
MirroredRows ==
  LET done == Sorted(completed)
  IN  [r \in DOMAIN rows |->
         IF r - base \in DOMAIN done
           THEN IF outcome[done[r - base]] \in Ok THEN "done" ELSE "failed"
           ELSE rows[r]]

\* Mutant of Kept: the outputs before the failure point.
KeptBeforeFailure == {i \in Valid : lastFailed = 0 \/ i < lastFailed}

\* The subtasks whose outputs are kept for the planner.
Kept == Valid

\* Mutant of StepsOf: failed subtasks count.
StepsOfAll == Cardinality(completed)

StepsOf == Cardinality(Valid)

Mirror ==
  /\ rpc = "executing" /\ spc \in {"returned", "aborted"}
  /\ rows' = MirroredRows
  /\ steps' = steps + StepsOf
  /\ prior' = prior \o [k \in 1 .. Cardinality(Kept) |-> base + Sorted(Kept)[k]]
  /\ rpc' = IF spc = "aborted" THEN "record" ELSE IF Final = 0 THEN "exhausted" ELSE "finished"
  /\ UNCHANGED <<svars, goal, events, base, replans, reported>>

Succeed ==
  /\ rpc = "finished"
  /\ goal' = [goal EXCEPT !.status = "succeeded", !.final = base + Final,
                          !.steps = steps, !.replans = replans]
  /\ rpc' = "succeeded"
  /\ UNCHANGED <<svars, rows, events, locals>>

PlanExhausted == rpc = "exhausted" /\ Abort("plan_exhausted_without_finish")

\* Mutant of RecordReplan: it gives up one replan early.
RecordReplanEarly ==
  /\ rpc = "record"
  /\ reported' = base + lastFailed
  /\ replans' = replans + 1
  /\ events' = Append(events, reported')
  /\ rpc' = IF replans' >= MaxReplans THEN "giveUp" ELSE "top"
  /\ UNCHANGED <<svars, goal, rows, base, steps, prior>>

\* Mutant of RecordReplan: a failure of the first subtask, whose index is 0 in
\* the code and so false, is not counted.
RecordReplanUncounted ==
  /\ rpc = "record"
  /\ reported' = base + lastFailed
  /\ replans' = IF lastFailed = 1 THEN replans ELSE replans + 1
  /\ events' = Append(events, reported')
  /\ rpc' = IF replans' > MaxReplans THEN "giveUp" ELSE "top"
  /\ UNCHANGED <<svars, goal, rows, base, steps, prior>>

RecordReplan ==
  /\ rpc = "record"
  /\ reported' = base + lastFailed
  /\ replans' = replans + 1
  /\ events' = Append(events, reported')
  /\ rpc' = IF replans' > MaxReplans THEN "giveUp" ELSE "top"
  /\ UNCHANGED <<svars, goal, rows, base, steps, prior>>

GiveUp == rpc = "giveUp" /\ Abort("max_replans_exceeded")

\* The process stops between two commits, and its threads with it.
Crash ==
  /\ rpc \notin RunEnded
  /\ rpc' = "crashed"
  /\ waiting' = {} /\ running' = {}
  /\ UNCHANGED <<plan, spc, scheduled, outcome, completed, lastFailed, goal, rows, events, locals>>

AtRest == rpc \in RunEnded /\ UNCHANGED pvars

Loop == CallPlanner \/ PlannerFails \/ EmptyPlan \/ AdoptPlan
        \/ LinkRows \/ LinkRaises \/ ExecuteRaises \/ Mirror \/ Succeed
        \/ PlanExhausted \/ RecordReplan \/ GiveUp

PNext == Loop \/ PlannerRaises \/ Execute \/ Orphaned \/ Crash \/ AtRest

PSpec == PInit /\ [][PNext]_pvars

\* The event loop runs; the provider and the tools' threads return.
PFairSpec == PSpec /\ WF_pvars(Loop) /\ WF_pvars(Execute)
-----------------------------------------------------------------------------
(* Properties. *)

\* Neither the planner nor a reader of an ended goal is told anything while
\* a subtask of an earlier plan still runs or waits.
NoOverlapOfPlans ==
  rpc \in {"top", "planning", "record", "giveUp", "succeeded", "aborted"} =>
    running = {} /\ waiting = {}

\* The goal row is honest: it succeeds on the output of a subtask of the last
\* plan, with the whole plan done; an exhausted plan is done as well and has
\* no such output; the replans are spent when it says so.
ParallelHonest ==
  /\ goal.status = "succeeded" \/ goal.reason = "plan_exhausted_without_finish" =>
       \A r \in base + 1 .. Len(rows) : rows[r] = "done"
  /\ goal.status = "succeeded" =>
       /\ goal.final > base
       /\ outcome[goal.final - base] \in {"finish", "final"}
  /\ goal.reason = "plan_exhausted_without_finish" =>
       \A i \in Indices : outcome[i] # "finish"
  /\ goal.reason = "max_replans_exceeded" => Len(events) = MaxReplans + 1
  /\ Len(events) <= MaxReplans + 1

\* Although a status may stand in the wrong row, the counts agree: the steps of
\* an ended goal are its done rows and the outputs kept, and each replan has
\* its event and at least one failed row.
CountsAgree ==
  goal.status # "running" =>
    /\ goal.steps = Cardinality({r \in DOMAIN rows : rows[r] = "done"})
    /\ goal.steps = Len(prior)
    /\ goal.replans = Len(events)
    /\ goal.replans <= Cardinality({r \in DOMAIN rows : rows[r] = "failed"})

\* "state["prior_outputs"] now contains the outputs from every completed sibling
\* subtask, not just those before the failure point" (ARCHITECTURE.md): the
\* planner gets them in the order of the subtasks, each once, and with them the
\* failure that the last replan event names.
PlannerKnowsSiblings ==
  rpc \in {"top", "planning"} =>
    /\ \A i \in Indices : i \in Valid <=> \E k \in DOMAIN prior : prior[k] = base + i
    /\ \A j, k \in DOMAIN prior : j < k => prior[j] < prior[k]
    /\ reported = IF events = <<>> THEN 0 ELSE events[Len(events)]
    /\ reported # 0 => outcome[reported - base] = "failed"

\* The step budget is not looked at in this mode; the work of a goal is bounded
\* all the same, by the replans: if no plan has more than n subtasks, all the
\* plans of the goal together have at most (max_replans + 1) * n, and no more
\* steps are counted than there are subtasks.
WorkBounded ==
  \A n \in {Len(p) : p \in Shapes} :
    (\A p \in Shapes : Len(p) <= n) =>
      /\ Len(rows) <= (MaxReplans + 1) * n
      /\ steps <= Len(rows)

\* Runner.run_parallel ends, whatever plans and outcomes come.
ParallelTerminates == <>(rpc \in RunEnded)

\* What the project's texts say and the loop does not keep.
\* "Mirror outcomes onto the persisted subtasks" (runner.py): the row of a
\* subtask has the status of its own outcome, and is pending without one.
RowsMirrored ==
  rpc \in {"record", "finished", "exhausted"} =>
    \A i \in Indices :
      rows[base + i] = IF i \notin completed THEN "pending"
                       ELSE IF outcome[i] \in Ok THEN "done" ELSE "failed"

\* "forward reference (5 is out of range) gets dropped"
\* (tests/unit/test_parallel_runner.py): a plan whose dependencies are not all
\* indices of the plan is run without those.
InvalidIndicesDropped ==
  rpc = "raised" => \A i \in Indices : plan[i].dependencies \subseteq Indices
=============================================================================
