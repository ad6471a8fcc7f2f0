# A verification of agentic-runner

TLA+ modules, TLC configurations and TLAPS proofs for
[agentic-runner](../src/README.md): a loop that plans a goal, selects and calls
a tool for each subtask, validates the output, and meets a failure with a new
plan. Paths below are relative to `src/src/agentic_runner/` unless they say
otherwise.

## The system

| Component | State | Operations | Talks to |
| --- | --- | --- | --- |
| Sequential runner (`runner.py`, `Runner.run`) | per run: steps, replans, cost, last failure, prior outputs; rows in the database | `_init_goal`, `_run_loop`, `_succeed`, `_abort`, `_record_replan` | planner, selector, guard, validator by call; readers by committed rows |
| Parallel runner (`runner.py`, `run_parallel`) | the same but cost-blind; maps outcomes to rows | one loop | planner, scheduler (await) |
| DAG scheduler (`parallel_runner.py`) | scheduled, in flight, completed, last failure; a semaphore | `run_parallel`, `_run_one_subtask`, `_build_dependency_map`, `_ready` | asyncio tasks, threads |
| Planner (`planner.py`) | none | `plan`: prompt, one provider call, parse | provider |
| Selector (`selector.py`) | none | `choose_tool`: hint lookup, one provider call | provider, registry |
| Tool guard, validator (`tools/_base.py`, `validator.py`) | the registry | `invoke_with_guard`, `validate` | tools |
| Database (`models.py`) | goals, subtasks, tool_calls, validation_results, replan_events | commits | runner, service |
| HTTP service (`api.py`) | none beyond the database | create (a daemon thread per goal), list with a cursor, get, trace (many queries) | runner, database |
| File tools (`tools/read_file.py`, `tools/write_file.py`) | the files of the workspace directory, shared by all calls of all goals | `invoke` | file system |
| Composed tools (`tools/composed.py`) | none | a fixed sequence of inner calls, without the guard | registry |
| Scripted provider (`providers/fake.py`) | per goal: the position in its plans, and in the arguments of each tool | `chat`: plan, select, summarize, extract | planner, selector, tools |
| Evaluation (`eval_harness.py`, `cli.py` `eval`) | the baseline file | suite run, exact and drift comparison | runner, scripted provider, workspace |
| Other tools, CLI `run` and `seed`, live provider stubs, tracing, settings, migrations | none of interest | | |

What makes the system correct, by component:

- *Sequential runner*: the budgets hold; the loop ends; a terminal status says
  why and the rows bear it out; a failure is met by a new plan, never by a
  retry; the planner knows what the trace says.
- *Database rows*: at every instant, so also after the process died, the rows
  explain each other and only grow.
- *Scheduler*: a subtask starts only after what it depends on is done and
  valid; nothing starts after a failure was seen; a result is handed out when
  nothing is in flight; no shape of dependencies starves a subtask.
- *Parallel runner*: plans do not overlap; the outcomes reach the right rows
  and the planner.
- *Service*: a goal whose thread lives reaches a terminal status, which changes
  at most once, to FAILED; an answer that says a goal has ended holds its whole
  trace, though it was read in pieces; a listing shows no goal twice and misses
  none, whatever is created meanwhile.
- *Scripted provider and tools*: racing threads repeat steps of a script and skip
  none; what one subtask writes is what a dependent one reads; no output exceeds
  the cap.
- *Evaluation*: a goal ends as recorded, whatever ran before it; a slow call costs
  one replan; a gate trips exactly when something happened.

What is hard in it: the process may stop between any two commits; the wall
clock is read at one place only; the cost is checked before a call that adds to
it; exceptions that no handler expects; tasks, threads and the coroutine of the
scheduler interleave; several tasks finish at once, some failed; a task raises
while others run; a request reads the trace in many queries while it is written;
goals are created while they are listed; the threads of a plan share a script
and a directory without a lock; a call that is reported as a timeout has had its
effect; an interrupted command leaves its files to the next. `PROJECT.json` lists
each hazard at its line with the properties that watch it.

## Modules

| Module | What it is |
| --- | --- |
| `Runner` | the sequential loop and its committed rows |
| `GoalTrace` | abstract: what the rows promise a reader, of the loop alone (`Spec`) and in the service (`ServiceSpec`) |
| `RunnerTrace` | `Runner` implements `GoalTrace` (the mapping) |
| `RunnerInvariant` | the inductive invariant of `Runner` |
| `RunnerProofs`, `RunnerTraceProofs` | theorems about `Runner` |
| `Scheduler` | the DAG scheduler |
| `SchedulerProofs` | theorems about `Scheduler` |
| `ParallelRunner` | `Runner.run_parallel`, extends `Scheduler` |
| `ParallelRunnerProofs` | theorems about `ParallelRunner`, over those of `Scheduler` |
| `GoalService` | a goal in the API: its thread, the trace request; extends `RunnerTrace`, and implements `ServiceSpec` |
| `GoalServiceProofs` | theorems about `GoalService`, over those of `Runner` and `RunnerTrace` |
| `GoalPaging` | the listing of goals, page by page |
| `GoalPagingProofs` | theorems about `GoalPaging` |
| `ScriptedRun` | a goal with the scripted provider and the tools' effects; extends `Runner` |
| `EvalSuite` | the suite, its report and the gates, command after command; extends `ScriptedRun` |
| `EvalSuiteInvariant` | the inductive invariants of `EvalSuite` on the harness's instance; extends `EvalSuite` and `RunnerInvariant` |
| `EvalSuiteProofs` | theorems about `EvalSuite`, over those of `Runner` |
| `SubtaskThreads` | the threads of a parallel plan, step by step, over one script and one workspace; extends `Scheduler` |
| `SubtaskThreadsProofs` | theorems about `SubtaskThreads` |
| `MCRunner`, `MCScheduler`, `MCParallelRunner`, `MCGoalService`, `MCEvalSuite`, `MCSubtaskThreads` | the instances TLC checks |

### Runner

`goal`, `subtasks`, `calls` and `events` are the *committed* rows (the row of a
call carries the verdict of its validation row); the other variables are the
loop's locals. One action is the code between two commits, so `Crash` can fall
between any two, and so can a reader's look. A change made to an ORM object and
not yet committed shows in the action that commits it: the status RUNNING that
a subtask gets before the tool call (`runner.py:433`) is committed with the
validation row (482), or never if the tool fails.

`pc` follows the code: `create`/`start` (`_init_goal`), `top` (head of the
loop), `planning`, `subtask` (head of the inner loop), `noTool` and `giveUp`
(the selector found none), `invoking`, `invalid`/`valid` (validation row
committed), `finished`, `record` (a failure is committed, its replan event is
not), and four ends: `succeeded`, `aborted`, `raised` (an exception left `run`)
and `crashed`. What the loop sees of the other components is nondeterministic:
the planner returns any plan of `Plans`, an empty one, `PlannerError` or an
exception; the selector any registered tool, whatever the hint, or a failure,
which is free if the hint is not registered; the guard a timeout, an error, an
output with any verdict, or the exception of arguments that do not fit.

Abstracted: texts, arguments, outputs, latencies. Costs are whole units, each
call within `MaxPlanCost` or `MaxSelectCost`. An output is known by its subtask
row. `late` is a history variable: calls begun after the wall clock ran out.
An error of the database itself is not an action of its own: what it leaves
committed is what `Crash` at the same place leaves.

### GoalTrace

Eleven actions over the rows alone: a reader may see a goal created, started,
given rows, a call opened on a row that none has reached, settled, judged, its
subtask closed, events appended, one terminal status. There is no budget, plan
or counter in it. `RunnerTrace` maps the rows to themselves; a step that commits
nothing is a stutter, and so are `Crash`, `Raise` and `Tick`. `ServiceSpec` adds
`Condemn`, the service's handler of exceptions: the status becomes failed, once,
from any other, and no row changes. `GoalService` implements it with the same
mapping (`ServiceTraceGrows`).

### Scheduler

The coroutine runs from await to await without interruption, so `Schedule`,
`Collect`, `CollectFailure`, `CollectRaise` and `Drain` are one action each. A
task goes from `waiting` (for the semaphore) to `running` (its thread) to an
outcome. `asyncio.wait` hands over every task done when the coroutine runs
again; `Done` may hold one or many, and of several failures any may become
`last_failure`. The semaphore may admit any waiter, which includes asyncio's
order. After a raise the threads go on and the tasks that wait may be cancelled.
Indices are from 1, in the code from 0.

### ParallelRunner

Extends `Scheduler`: while `rpc` is `executing` the scheduler's actions run, and
after an exception the orphaned tasks do. `AdoptPlan` resets the scheduler and
commits the rows; `LinkRows`/`LinkRaises` is the second commit, which fails for
an index out of range; `Mirror` is everything between the scheduler's return and
the next commit or decision. A failure or an output is named by its row. The
cost and the dependencies column are left out: no step reads them.

### GoalService

Extends `Runner` with what `api.py` puts around it. `thread` goes from `none`
over `starting` (row committed, no thread yet), `building` (`build_provider`) and
`running` to `returned`, or over `rescue` (an exception left `run`; the handler
has not committed yet), or is `dead`. While it is `running` the actions of `Runner`
run; `ExceptionEscapes` may come at any of its program points, for the database
may fail anywhere, and also after the goal's end was committed, since `_succeed`
and `_abort` then build the trace. `MarkFailed` writes FAILED over any status.
`Restart` is the stop of the process and its new start at once.

A request for the trace (`request`, `row`, `seen`) takes one action per query, in
the order SQLAlchemy issues them: the goal, its subtasks, per subtask its calls
and per call its validation, the replan events. Each query sees what is committed
by then (READ COMMITTED, and SQLite's reads outside a transaction). The session
loads nothing twice, so the status in the answer is that of the first query.
Goals share no state but the tables, so one goal is modelled.

### GoalPaging

`started_at` is taken when the row is built (`BuildRow`) and seen when it is
committed (`CommitRow`). A page is any set of rows the query may return, rows of
one time stamp in any order, and the cursor any row that may be the page's last.
`there` is a history variable: what the first page's query matched, less the goals
that have left the filter since. The wall clock is assumed not to go back.

### ScriptedRun and EvalSuite

`ScriptedRun` puts the eval harness's provider and tools in the place of
`Runner`'s free answers: every action is one of `Runner`'s with the plan, the
hint, the cost and the outcome chosen by the script (`AnswerPlan`,
`AnswerSelect`, `RefuseHint`) and by the tool (`ToolWorks`, `ToolRefuses`,
`ToolIsSlow`); `LoopAlone` is the rest of the loop. A goal's text is the set of
patterns of `_GOAL_PATTERNS` that it matches, so that their order decides as it
does in the code: three texts of the suite match two patterns. Arguments are the
path of a file tool and the presence of the hint of extract_json; files are
there or not, for summarize is handed the whole last output if its content is
empty, and no plan of the script looks at a text otherwise. The finish texts of
the script hold what `_rubric_pass` looks for, so `RubricPass` depends on the
status alone. A tool that is slow has had its effect: `ToolIsSlow` writes the
file and reports the timeout. One that would fail is not also slow, since the
error leaves the guard first.

`EvalSuite` is `run_suite` under the three eval commands. A command starts on the
workspace of the last one or on an empty one, makes the fixtures one by one,
runs the goals one after the other, each with a new provider and runner, and
ends in a printed report, in a baseline (the file is truncated by one action and
written by another), or in one of the gates. `Interrupt` may stop it anywhere.
`Recorded` is the committed baseline file; the columns of a row that follow from
the others (final text, jaccard, rubric, expectation) are not kept in it. Rates
and averages are sums over the twenty goals (`Total`), costs are units of 0.0001
USD and jaccards units of 1/2520 (`Whole`), which every size of a union of tool
sets divides. `Harness` says what `run_suite` runs every goal with: the nine tools
that importing `tools` registers (`Registered`), `finish`, and the budget. `slowGoals`, `slowTwice` and `slowBase`
are history variables: the goals of this run that had a slow call, those of them that
had more than one, and the goals with a slow call in the run that recorded the baseline.

### SubtaskThreads

Extends `Scheduler` with what a task's thread does between `Start` and `Finish`,
one action per read or write of what threads share: the position of the script
read (`ReadPosition`) and written back (`WritePosition`), the truncation and the
writing of a file (`OpenFile`, `WriteBytes`), the check, the size and the text of
a file (`IsFile`, `Stat`, `ReadText`). summarize_document is a read whose text
goes on to summarize, which refuses an empty one; its inner steps run without
the guard, so there is one look at the time for all. A byte of a file is the
number of the subtask that wrote it. `Before(i)`, in the properties, is the set of
subtasks that `i` depends on, directly or through others: the members of every set
that is closed under dependencies and has those of `i`. The scheduler's failures by exception do
not occur, for the arguments fit the input models.

## Runs

| Run | Config | Shows |
| --- | --- | --- |
| `runner_safety` | `MCRunner.cfg` | budgets, honest ends, totals, explained rows, true events, informed planner; `IInv`; `TraceOnlyGrows` (refinement) and `Terminates` |
| `scheduler` | `MCScheduler.cfg` | order, draining, no starvation, termination |
| `parallel_runner` | `MCParallelRunner.cfg` | no overlap, honest goal, counts, informed planner, bounded work, termination |
| `goal_service` | `MCGoalService.cfg` | whole and explained answers, goals settle once and only once, `ServiceTraceGrows` (refinement) |
| `goal_paging` | `MCGoalPaging.cfg` | no repetition, no omission but for ties |
| `eval_suite` | `MCEvalSuite.cfg` | goals end as recorded, a slow call costs one replan, costs are explained, both gates trip exactly when they should |
| `subtask_threads` | `MCSubtaskThreads.cfg` | no step of a script is skipped, the cap holds, reads after writes are whole, the last write stays |
| `runner_cost_at_dispatch` | `MCRunnerCost.cfg` | violated: `ToolRunsWithinCost` |
| `runner_bad_arguments` | `MCRunnerDispatch.cfg` | violated: `DispatchIsTyped` |
| `scheduler_raise` | `MCSchedulerSettled.cfg` | violated: `SettledAtExit` |
| `parallel_mirror` | `MCParallelMirror.cfg` | violated: `RowsMirrored` |
| `parallel_indices` | `MCParallelIndices.cfg` | violated: `InvalidIndicesDropped` |

The violated properties say what the project's texts say; `PROJECT.json` quotes
them. In the trace of `scheduler_raise` a sibling may still be waiting although a
slot is free: its task is created and the event loop has not run it yet. The finding
does not turn on it, since `task.result()` (`parallel_runner.py:219`) raises whatever
its siblings are at. Deadlock is checked in every run: the ends stutter by an action of their
own.

Each passing run's property has a mutant, an operator named as such in the
module, that changes an action as a plausible bug would; with it the property
fails under the same configuration.

### Bounds

- `MaxPlanLen = 2` in `MCRunner` is the one bound the code does not have. A plan
  of two has a subtask before and after a failure, a finish that is not last and
  one that is.
- `MaxSteps = 3`, `MaxReplans = 2`, `MaxCost = 1` with calls of cost 0 or 1: each
  budget can be the one that ends the run, in the first plan or after a replan,
  and the cost can pass its budget in the planner and in the selector. Three
  plans are possible, so that a second replan sees the leavings of the first.
- Two tools, of which one is finish, and one hint that is not registered.
- `MCScheduler`: every plan of up to two subtasks and every plan of three whose
  second and third may name themselves and all before, and chosen plans of four
  (a diamond, four roots, two chains), with two slots: more are ready than
  there are slots, and forward and self references occur.
- `MCParallelRunner`: six plans and one replan; among them one whose middle
  subtask is blocked by a failure of the first while the third runs, and one
  with an index out of range.

- `MCGoalService`: two plans, one of two subtasks and one no tool is found for,
  one replan, two steps and no costs: up to three subtask rows over two plans, so
  that the rows of the second are committed between the queries of a request.
  One request at a time, any number one after the other.
- `MCGoalPaging`: four goals, three instants and limits of one and two: pages can
  be cut inside a group of equal time stamps and outside one, and goals can be
  committed late. Two statuses, with and without a filter.

- `MCEvalSuite`: the whole suite, script, registry and budget of the harness
  (`max_steps` 20, `max_replans` 5, `max_cost_usd` 0.50 as 5000 units), and
  `MaxSlow = 1`: at most one slow tool call in a behaviour, at any call of any
  goal, before or after a baseline is recorded. That is enough to see each property
  fail under its mutant; the theorems are for any number of slow calls. A goal that has
  two may abort, and `SlowCallRecovered` is about the goals that have one. The
  drift gate has its default of 30 %. `HarnessAssumption` has TLC evaluate that the
  instance is the harness's. The wall clock does not run out, as in any
  run of the harness.
- `MCSubtaskThreads`: eight chosen plans of two to four subtasks over two files,
  with a cap of two bytes and texts of one to three: two writers of one path in
  any order and in a chain, readers that race with a writer and with one
  another, a write over the cap, a hint that is not registered; each file absent
  or over the cap at the start. Three slots, so that a task may wait for one.
  In these plans threads do read the same position and set it back, do mix their
  bytes and do read an empty file.

No symmetry is used: tools and subtasks differ.

### Fairness

`FairSpec` of `Runner` is weak fairness of the loop's own steps: the thread runs,
and the provider and the tool return or raise. The code has no preemptive time
limit (`max_runtime_ms` is looked at afterwards), so a tool that never returns
hangs the goal; `Terminates` is about those that do. `Crash`, `Tick` and the
exceptions are not fair. In `Scheduler`, the coroutine and the set of tasks are
each weakly fair: the event loop serves what is ready and threads return; no
single task is promised anything. `ParallelRunner` assumes the same of its loop
and of the scheduler as a whole. `GoalService` asks weak fairness of the goal's
thread, not of clients, failures or restarts; `AcceptedGoalSettles` excepts a thread
that died. `GoalPaging`, `EvalSuite` and `SubtaskThreads` need none: their properties are of
safety.

## Proofs

TLAPS checks all of the following for every value of the constants, from the
named assumptions of the modules only (`ToolsAssumption`, `PlansAssumption`,
`BudgetAssumption`, `ShapesAssumption`, `ConcurrencyAssumption`,
`ReplansAssumption`, `NoneAssumption`,
`LimitAssumption`, `ClockAssumption`, `SlowAssumption`, `JobsAssumption`,
`BytesAssumption`): finish is a registered tool, plans are
non-empty sequences of hints, budgets are naturals, plans of the scheduler are
sequences of subtasks with sets of indices, the absent cursor is no goal, limits
are positive, a tool's script is not empty. Four theorems on the outcome of the
suite and the one on its invariant have the hypothesis `Harness` besides (below).

*Runner.* The properties are not inductive: that a goal succeeds on its last
call, say, needs that at `finished` the last call is a valid finish of the
current row. `IInv` says at each program point what the loop knows of its rows:
`Control` (status and pc), `Counters` (locals count rows and keep the budgets),
`Position` (rows of the plan are done before the position, pending after it, and
at it what pc says), `CallRows` (each call is sound, calls go up the rows, done
rows have a valid call), `HeldCall` (the last call, where the loop holds one)
and `EventRows`. `RunnerProofs` has one lemma per conjunct, over lemmas that
state what each group of actions does to the rows, and concludes
`InductiveInvariant`, then `TypeCorrect`, `BudgetSafety`,
`AbortsAreHonest`, `SuccessesAreHonest`, `TraceIsExplained` and
`EventsAreTrue`. `RunnerTraceProofs` uses it to show that each step maps to a
step of `GoalTrace` or a stutter: `RunnerImplementsTrace`. There `RowSteps` also
says what a step does to the sets of failed and done rows: one row more in one of
them, or nothing. `TotalsInv` (a failed row per event, but for the one whose event
is about to be recorded) gives `TotalsAreHonest`, and `KnowledgeInv` (the outputs
kept are those of the done rows, and a new one stands above all of them) gives
`PlannerIsInformed`.

*Scheduler.* The conjunction of four of its invariants, `SInv`, is inductive: what
is taken is valid until the coroutine sees a failure, so what `Ready` compares
with (the keys of `completed`) is as good as the valid ones, which is why a
dependent of a failed subtask never starts. From it come
`SchedulerTypeCorrect`, `DependencySafety`, `NothingLeftSafety`, `FailureSafety`
and the action property `NoWorkSafety`. `NoStarvation` adds that the scheduler returns only when nothing is ready: of the
subtasks that did not run the one with the least index depends on earlier ones
only, so it would be. That a set of indices has a least member comes from
`WellFoundedInduction`.

*ParallelRunner.* `PInv`: before the first plan the scheduler has nothing to do,
afterwards `SInv` holds of the plan in hand, through replans, exceptions and
stops, and the loop goes on only when the scheduler has returned
(`PlansInvariant`). With `NothingLeftBehind` it follows that plans do not overlap
(`PlansDoNotOverlap`). `LoopInv` is inductive on top of it: `ShapeInv` (the rows of
the plan in hand are the last ones, pending while it runs, and the outputs kept go
up the rows), `CountsInv` (steps, done rows and outputs are as many, and there is
a failed row per replan, the one about to be recorded included), `BudgetInv`
(replans and events), `OutcomeInv` (what the loop holds when the scheduler has
returned) and `GoalInv`. The step that matters is `Mirror`, which zips the outcomes
with the rows from the first one on: `SortedFacts` (a finite set of indices is
listed once each and in order; the list exists because the rank of a member is
one) gives that as many rows become done, and as many failed, as there are
outcomes of the kind, though not the rows of their own subtasks, which is what
`RowsMirrored` is refuted for. When the plan has ended without a failure
`NobodyStarves` makes the two lists one. Hence `ParallelHonesty`, `CountsSafety` and
`SiblingsSafety`. `WorkInv` counts the rows of all plans by the replans:
`WorkSafety`.

*GoalService.* `Lifecycle` ties the status of the goal to the thread's place: a
terminal status means the loop is over, FAILED that the thread is. With it
`TerminalSafety` proves the action property `TerminalOnce`. `Settling` says that
`IInv` and `TotalsInv` hold until the thread leaves `run` (a failure of the
database may come at points where `Runner` itself raises nothing, so they hold
no longer), and that how the loop ended can be read off the goal's row; the
handler changes the status only, hence `ThreadSettles`. `ServiceImplementsTrace`
joins the two with `RunnerImplementsTrace`: a step of the thread inside `run` is a
step of `GoalTrace` or a stutter, the handler's is `Condemn`.

The reader's side is `ReaderInv`. Its parts say that the rows explain each other
wherever the run was cut (`RowsTell`), that the queries come in order
(`RequestInv`), that what was shown so far is a past of what is there: calls in
order, each with its subtask, a done subtask with its valid call once its calls
were read, events last and so never behind (`ExplainedInv`), and that from the
moment the first query saw a terminal status each part that has been read is all
there is (`WholeInv`). `TracesExplain` and `TracesAreWhole` follow.

*GoalPaging.* `PagesInv` says that what was shown is committed, so its time stamp
stays, and is not older than the cursor's goal; hence `ListingDescends`. `OwedInv`
says of each goal a listing owes that it is shown, ties with the last goal of a
page, or is still older than the cursor's; hence `ListingMissesNothing`.

*EvalSuite.* A scripted step is a step of `Runner` (`ScriptedIsStep`), and a new
goal begins in its initial state (`NewRunIsInit`), so `IInv` holds through every
command: `SuiteKeepsInvariant`. `CostInv` adds to it what the loop has paid by
each program point, one planner call more than replans except where a plan is
asked for; with it `SuiteCostExplained` has the cost of each row of a report
follow from its replans and steps, for any budget and any number of slow calls.

What the suite's goals come to depends on its twenty texts and their scripts, and
on the registry and the budget that `run_suite` gives to every goal. So the theorems
on it say `Harness => (ESpec => []...)`: the tools and the three budgets are the
harness's, and the number of slow calls, the plans, the hints and the price bounds
stay any. `MCEvalSuite` assumes `Harness`, so that TLC evaluates it on the instance.

`SuiteInv`, in `EvalSuiteInvariant`, is inductive beside `IInv` and `CostInv`
(`SuiteKeeps`, `SuiteStaysOnCourse`). Its parts:

- `GoalOnCourse`, how far the goal in hand has come. A goal none of whose calls
  was slow follows its first plan to the finish (`PlainRun`), except the one that
  asks for a tool that is not registered (`UnregisteredRun`: no call, until the
  replans run out) and the one that is refused without its hint (`StrictRun`: one
  failed call, one replan, the plan again). A goal that had a slow call has had a
  replan more than the record, or is about to (`SlowRun`).
- `Bookkeeping`: the rows of the report and of the baseline file are `Faithful`
  (the recorded row, or more replans than it), and the exit of a command agrees
  with the comparison it made.
- `RowsFit`: bounds of a row, from `CostInv` and the budget.

The proof goes from the data to the gates. `ScriptsFit`: each script's first
plan is of registered tools with finish last, no tool has arguments for more than two
calls, and each file it reads is a fixture or was written before (`FilelessScriptsFit`,
and a lemma for each script with files). `SuiteClassified`: the first
pattern that matches a goal's text is its script, also for the three texts that
match two. `PlainStep`, `UnregisteredStep` and `StrictHalves` with the steps of
each half keep a goal on its course; files only grow, which is why what earlier
commands left does not matter. `EndedFaithful` has the row of a goal that ended on
its course be the recorded one, and `SuiteEndsAsRecorded` and `SmokeGateIsRight`
follow. For the drift gate, `TotalIs` unrolls the sum over the twenty goals,
`OneRowDiffers` has the sums of two reports that agree but in one row differ by that
row only, and `DriftOfOneGoal` compares each metric with `RowFits` and
`JaccardBound`: one goal that recovered moves no metric by 30 %, one that aborted
moves the abort rate, of one or two goals in twenty, by half of it at least. Hence `DriftGateIsRight`.

`RecoverInv` is inductive beside `SuiteInv`, and `SlowCallsRecovered` follows from it.
Of a goal that has had one slow call it says that it `Recovers`: the replan is about to be
recorded or was, and the last plan of the script is followed from its first subtask,
with steps left for all of it, though the slow call and those before it have moved
the positions of its tools' arguments. What that can spoil is a read, and
`ReadsFind` names the three reasons why none is: the script reads no file, or every file it
reads is there, or it is one of the four scripts (`PairedKeys`) in which each read
follows a write. There the read gets the path that was just written, the first or the
last, because the first read is not made before the first write and every write
after a read is of the last path (`PairedReads`; the slow call itself has had its
effect, which `Soon` accounts for). The fifth script with files of its own,
kitchen_sink, may `ReadsAhead`: the read that was repeated asks for a file whose write
comes later in the plan, is refused at every replan, and the goal aborts. This is
the exception in `SlowCallRecovered`; that it still shows when the report is complete
needs that the last goal writes other files (`WritesOwn`). The lemmas go in this
order: `LaterPlansFit` about the last plans, `SlowStart` and `StrictSlowStart` about the slow
call, `RecoverStep` and `ReadsAheadStep` about what comes after it, `RecoverKeeps`.

The run `eval_suite` lists neither `SuiteInv` nor `RecoverInv`; TLC finds both
invariant under the same configuration when they are added to the `INVARIANTS` of
`MCEvalSuite.cfg`, with the same 464,105 states.

*SubtaskThreads.* A thread's first step is the scheduler's `Start`, its last
`Finish`, and the others leave the scheduler alone: `ThreadsImplementScheduler`,
so that the scheduler's theorems hold of the threads. `ScriptInv` adds that
everything before the position a thread has read was handed out, by itself or by
a thread it races with; this stays true when a position goes back, so
`ScriptSafety` follows. `CapInv` adds that a file a thread is about to read is
within the cap: it was when `Stat` looked, truncation only shortens it, and a
thread that writes has passed the cap itself (`CapSafety`). `FilesInv` is about the
last writers, among the subtasks that have their arguments: `PlaceInv` says where a
thread can be, with which tool and which result, so that whatever a started subtask
is ordered after has ended (`BeforeDone`); `DiskInv` that a file whose last writer
is through holds that writer's bytes, for nobody else is then at it (`FileKept`);
`ReadInv` that a reader ordered after that writer takes its size and its text, for
the writers ordered after the reader have no thread yet (`ReadsWhole`). Hence `ReadersSafety` and `WritersSafety`.

*Model-checked only.* `Terminates`, `SchedulerTerminates`, `ParallelTerminates`
and `AcceptedGoalSettles`: liveness under fairness is out of the prover's reach. Every
safety and action property of the passing runs is the subject of a theorem.

## Divergences without a run

Met while modelling; each follows from the text alone or lies outside the models.

- `../README.md:18` speaks of four budgets; `run_parallel` (`runner.py:129`) looks
  at `max_replans` only. `WorkBounded` states the bound that is left.
- `run_parallel` hands the scripted arguments to the tools as they are: the
  substitution of `__USE_PRIOR_OUTPUT__` is made by the sequential loop alone.
- `tools/composed.py:162` calls summarize_document one atomic action; beside a
  writer that no dependency orders, it may return the text of one moment and the
  byte count of another. `ReadAfterWrite` states what holds.
- The drift gate is the looser of the two, but one more aborted goal of twenty
  trips it at any drift below 100 %: the metric is relative to a rate of 0.05.
- `../ARCHITECTURE.md:51` says of `PLAN_INVALID` "One more replan, then abort."
  Both loops abort at once when the planner raises or returns no subtask
  (`runner.py:143`, `155` and `314`, `325`), and `reason_for_invalid_plan`
  (`planner.py:88`) is called from nowhere. `PlannerFails` and `EmptyPlan` follow
  the code; no property asserts either reading.
- `../ARCHITECTURE.md:52` says of `NO_TOOL_FOR_SUBTASK` that the run aborts "if the
  next plan is also unsatisfiable". The loop replans up to `max_replans`, as line 60
  of the same text says and as `Suite`'s `send_email` does.

## Plan, and what is not modelled

1. Done: `Runner`, `GoalTrace`, `Scheduler`, `ParallelRunner`, `GoalService`,
   `GoalPaging`, `ScriptedRun`, `EvalSuite`, `SubtaskThreads`.
2. Done: a theorem for every safety and action property of the passing runs, and the
   refinements of `GoalTrace` by the loop and by the service.

Left out for good: prompts and the parsing of model responses, and the texts of
the script; `query_db`, `calculate` and `http_get`, functions of their arguments
or I/O, which enter as calls that have an output; the live provider stubs, which
raise; tracing and settings, on which no property depends; the migrations, a
schema; `run` and `seed` of the CLI, options around `Runner.run` and inserts.
