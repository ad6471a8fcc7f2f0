----------------------------- MODULE Scheduler ------------------------------
(***************************************************************************)
(* The DAG scheduler, src/src/agentic_runner/parallel_runner.py:           *)
(* _build_dependency_map, _ready, _run_one_subtask and run_parallel.       *)
(*                                                                         *)
(* The coroutine run_parallel, one asyncio task per scheduled subtask and  *)
(* the threads the tasks wait for interleave.  The coroutine runs from one *)
(* await to the next without interruption, so each stretch is one action.  *)
(* A task waits for the semaphore, then for its thread.  asyncio.wait and  *)
(* asyncio.Semaphore are libraries: the semaphore may admit any waiter,    *)
(* and wait returns with every task that is done when the coroutine runs   *)
(* again, as a set whose order means nothing.                              *)
(*                                                                         *)
(* Subtasks are numbered from 1, from 0 in the code.  The select, invoke   *)
(* and validate of a subtask is one outcome.                               *)
(***************************************************************************)
EXTENDS Naturals, Sequences, FiniteSets

CONSTANTS
  Shapes,          \* the plans: sequences of subtasks, as to their dependencies
  MaxConcurrency   \* run_parallel's max_concurrency

ASSUME ShapesAssumption ==
  Shapes \subseteq Seq([parallel : BOOLEAN, dependencies : SUBSET Nat])
ASSUME ConcurrencyAssumption == MaxConcurrency \in Nat \ {0}

VARIABLES
  plan,         \* plan.subtasks
  spc,          \* where the coroutine is
  scheduled,    \* the subtasks that have a task
  waiting,      \* those whose task waits for the semaphore
  running,      \* those whose thread runs
  outcome,      \* what came of each, "none" before its task is done
  completed,    \* the keys of completed: the outcomes the coroutine has taken
  lastFailed    \* the subtask whose failure is last_failure, 0 for None

svars == <<plan, spc, scheduled, waiting, running, outcome, completed, lastFailed>>

Indices == 1 .. Len(plan)

\* "finish": the finish tool's output; "final": another output with a string
\* under "final"; "plain": any other valid output; "failed": no tool, an error,
\* a timeout or an invalid output; "raised": an exception that leaves the task.
Ok       == {"finish", "final", "plain"}
Outcomes == Ok \cup {"failed", "raised"}

\* Mutant of Dependencies: a subtask that names itself keeps the name.
DependenciesOnSelf(i) ==
  LET explicit == IF plan[i].dependencies = {} /\ ~plan[i].parallel
                    THEN 1 .. i - 1
                    ELSE plan[i].dependencies
  IN  explicit \cap (1 .. i)

\* Mutant of Dependencies: the implicit one is on the previous subtask alone.
DependenciesOnPrevious(i) ==
  LET explicit == IF plan[i].dependencies = {} /\ ~plan[i].parallel
                    THEN {i - 1}
                    ELSE plan[i].dependencies
  IN  explicit \cap (1 .. i - 1)

\* _build_dependency_map, for subtask i: its own dependencies, or all earlier
\* subtasks if it has none and is not parallel; later ones are dropped.
Dependencies(i) ==
  LET explicit == IF plan[i].dependencies = {} /\ ~plan[i].parallel
                    THEN 1 .. i - 1
                    ELSE plan[i].dependencies
  IN  explicit \cap (1 .. i - 1)

\* Mutant of Ready: a dependency that has been scheduled is enough.
ReadyEarly == {i \in Indices : /\ i \notin completed /\ i \notin scheduled
                               /\ Dependencies(i) \subseteq scheduled}

Ready == {i \in Indices : /\ i \notin completed /\ i \notin scheduled
                          /\ Dependencies(i) \subseteq completed}

InFlight == scheduled \ completed
Done     == {i \in InFlight : outcome[i] # "none"}
Failed   == {i \in Done : outcome[i] = "failed"}
-----------------------------------------------------------------------------
\* run_parallel is called with plan p.
Fresh(p) ==
  /\ plan = p
  /\ spc = "schedule"
  /\ scheduled = {} /\ waiting = {} /\ running = {} /\ completed = {}
  /\ outcome = [i \in 1 .. Len(p) |-> "none"]
  /\ lastFailed = 0

Init == \E p \in Shapes : Fresh(p)

\* One task for every ready subtask; with none in flight the loop is over.
Schedule ==
  /\ spc = "schedule"
  /\ scheduled' = scheduled \cup Ready
  /\ waiting' = waiting \cup Ready
  /\ spc' = IF InFlight \cup Ready = {} THEN "returned" ELSE "waiting"
  /\ UNCHANGED <<plan, running, outcome, completed, lastFailed>>

\* The coroutine is suspended, or gone: the event loop serves the tasks.
Suspended == spc \in {"waiting", "draining", "raised"}

\* Mutant of Start: the task goes on waiting.
StartKeepsPlace(i) ==
  /\ Suspended
  /\ i \in waiting /\ Cardinality(running) < MaxConcurrency
  /\ running' = running \cup {i}
  /\ UNCHANGED <<plan, spc, scheduled, waiting, outcome, completed, lastFailed>>

\* A task gets the semaphore and hands its subtask to a thread.
Start(i) ==
  /\ Suspended
  /\ i \in waiting /\ Cardinality(running) < MaxConcurrency
  /\ waiting' = waiting \ {i}
  /\ running' = running \cup {i}
  /\ UNCHANGED <<plan, spc, scheduled, outcome, completed, lastFailed>>

\* The thread returns or raises; the task releases the semaphore and is done.
Finish(i) ==
  /\ Suspended
  /\ i \in running
  /\ running' = running \ {i}
  /\ \E o \in Outcomes : outcome' = [outcome EXCEPT ![i] = o]
  /\ UNCHANGED <<plan, spc, scheduled, waiting, completed, lastFailed>>

\* asyncio.wait(FIRST_COMPLETED) returns and no task has failed.
Collect ==
  /\ spc = "waiting" /\ Done # {}
  /\ \A i \in Done : outcome[i] \in Ok
  /\ completed' = completed \cup Done
  /\ spc' = "schedule"
  /\ UNCHANGED <<plan, scheduled, waiting, running, outcome, lastFailed>>

\* Mutant of CollectFailure: what is in flight is not waited for, and the loop
\* goes on.
CollectFailureGoesOn ==
  /\ spc = "waiting" /\ Failed # {}
  /\ \A i \in Done : outcome[i] # "raised"
  /\ lastFailed' \in Failed
  /\ completed' = completed \cup Done
  /\ spc' = "schedule"
  /\ UNCHANGED <<plan, scheduled, waiting, running, outcome>>

\* Mutant of CollectFailure: the failure is taken from the last task of those
\* that are done.
CollectFailureOfLast ==
  /\ spc = "waiting" /\ Failed # {}
  /\ \A i \in Done : outcome[i] # "raised"
  /\ lastFailed' \in {i \in Done : \A j \in Done : j <= i}
  /\ completed' = completed \cup Done
  /\ spc' = IF InFlight \ Done = {} THEN "aborted" ELSE "draining"
  /\ UNCHANGED <<plan, scheduled, waiting, running, outcome>>

\* It returns with a failure; of several the one that comes first in the set.
CollectFailure ==
  /\ spc = "waiting" /\ Failed # {}
  /\ \A i \in Done : outcome[i] # "raised"
  /\ lastFailed' \in Failed
  /\ completed' = completed \cup Done
  /\ spc' = IF InFlight \ Done = {} THEN "aborted" ELSE "draining"
  /\ UNCHANGED <<plan, scheduled, waiting, running, outcome>>

\* task.result() raises: the exception leaves run_parallel, whatever is still
\* in flight.
CollectRaise ==
  /\ spc = "waiting" /\ \E i \in Done : outcome[i] = "raised"
  /\ spc' = "raised"
  /\ UNCHANGED <<plan, scheduled, waiting, running, outcome, completed, lastFailed>>

\* Mutant of Drain: it waits for the first task only.
DrainFirst ==
  /\ spc = "draining" /\ Done # {}
  /\ IF \E i \in Done : outcome[i] = "raised"
       THEN spc' = "raised" /\ UNCHANGED completed
       ELSE spc' = "aborted" /\ completed' = completed \cup Done
  /\ UNCHANGED <<plan, scheduled, waiting, running, outcome, lastFailed>>

\* Mutant of Drain: it waits for the subtasks that never got a task as well.
DrainAll ==
  /\ spc = "draining" /\ \A i \in Indices : outcome[i] # "none"
  /\ IF \E i \in Done : outcome[i] = "raised"
       THEN spc' = "raised" /\ UNCHANGED completed
       ELSE spc' = "aborted" /\ completed' = completed \cup Done
  /\ UNCHANGED <<plan, scheduled, waiting, running, outcome, lastFailed>>

\* asyncio.wait(ALL_COMPLETED) returns; here too task.result() may raise.
Drain ==
  /\ spc = "draining" /\ Done = InFlight
  /\ IF \E i \in Done : outcome[i] = "raised"
       THEN spc' = "raised" /\ UNCHANGED completed
       ELSE spc' = "aborted" /\ completed' = completed \cup Done
  /\ UNCHANGED <<plan, scheduled, waiting, running, outcome, lastFailed>>

\* After a raise the loop may close (asyncio.run): tasks that still wait are
\* cancelled, threads are not.
CancelWaiting ==
  /\ spc = "raised" /\ waiting # {}
  /\ waiting' = {}
  /\ UNCHANGED <<plan, spc, scheduled, running, outcome, completed, lastFailed>>

Ended   == {"returned", "aborted", "raised"}
Stopped == spc \in Ended /\ UNCHANGED svars

TaskStep  == \E i \in Indices : Start(i) \/ Finish(i)
Coroutine == Schedule \/ Collect \/ CollectFailure \/ CollectRaise \/ Drain

Next == Coroutine \/ TaskStep \/ CancelWaiting \/ Stopped

Spec == Init /\ [][Next]_svars

\* The event loop runs, and so do the threads: tools and provider return.
FairSpec == Spec /\ WF_svars(Coroutine) /\ WF_svars(TaskStep)
-----------------------------------------------------------------------------
\* What run_parallel returns: the highest subtask that is a finish, or that is
\* the last of all completed and ships a final string; 0 for none.
Finishers ==
  {i \in completed : \/ outcome[i] = "finish"
                     \/ outcome[i] = "final" /\ \A j \in completed : j <= i}

Final == IF Finishers = {} THEN 0
                           ELSE CHOOSE i \in Finishers : \A j \in Finishers : j <= i
-----------------------------------------------------------------------------
(* Properties. *)

\* Types, and the places of a task: it waits, runs, or is done and has an
\* outcome, never two of these; what the coroutine has taken is done.
STypeOK ==
  /\ plan \in Shapes
  /\ spc \in {"schedule", "waiting", "draining"} \cup Ended
  /\ scheduled \subseteq Indices
  /\ waiting \subseteq scheduled /\ running \subseteq scheduled /\ completed \subseteq scheduled
  /\ waiting \cap running = {}
  /\ outcome \in [Indices -> Outcomes \cup {"none"}]
  /\ \A i \in Indices : outcome[i] # "none" => i \in scheduled \ (waiting \cup running)
  /\ \A i \in completed : outcome[i] \notin {"none", "raised"}
  /\ lastFailed \in completed \cup {0}

\* A subtask that opts in to nothing keeps the sequential order.
Sequential(i) == plan[i].dependencies = {} /\ ~plan[i].parallel

\* A subtask is handed to a task only when the outcome of every earlier subtask
\* it names was valid, and if it opts in to nothing that of every earlier one.
\* The code compares with the keys of completed, failed ones included; it holds
\* because nothing is scheduled after a failure.
DependenciesRespected ==
  \A i \in scheduled, j \in Indices :
    j < i /\ (j \in plan[i].dependencies \/ Sequential(i)) =>
      j \in completed /\ outcome[j] \in Ok

\* A result is handed out only when nothing is in flight: no thread runs, no
\* task waits, and every task's outcome is in it.
NothingLeftBehind ==
  spc \in {"returned", "aborted"} =>
    waiting = {} /\ running = {} /\ completed = scheduled

\* Without a failure every subtask of the plan has run, each with a valid
\* output: no shape of dependencies starves a subtask or makes a cycle.
AllRunUnlessFailed ==
  spc = "returned" => completed = Indices /\ \A i \in Indices : outcome[i] \in Ok

\* With a failure the result names a subtask that failed, and no subtask was
\* started that depends on it; until the coroutine sees one all it has taken is
\* valid.
FailureIsReported ==
  IF spc \in {"draining", "aborted"}
    THEN /\ lastFailed \in completed /\ outcome[lastFailed] = "failed"
         /\ \A i \in scheduled : lastFailed \notin Dependencies(i)
    ELSE spc # "raised" => lastFailed = 0 /\ \A i \in completed : outcome[i] \in Ok

\* The conjunction is inductive.
SInv == STypeOK /\ DependenciesRespected /\ NothingLeftBehind /\ FailureIsReported

\* Once a failure has been seen no new subtask gets a task.
NoWorkAfterFailure == [][lastFailed # 0 => scheduled' = scheduled]_svars

\* run_parallel ends whatever the shape of the plan and the outcomes.
SchedulerTerminates == <>(spc \in Ended)

\* "The scheduler waits for in-flight tasks to settle (return_exceptions=True)"
\* (parallel_runner.py, module docstring): also when it leaves by an exception.
SettledAtExit == spc \in Ended => waiting = {} /\ running = {}
=============================================================================
