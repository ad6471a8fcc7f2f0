---------------------------- MODULE GoalService -----------------------------
(***************************************************************************)
(* One goal in the HTTP service, src/src/agentic_runner/api.py: POST       *)
(* /v1/goals commits its row and starts a daemon thread, the thread builds *)
(* the provider and runs the loop of Runner, and GET /v1/goals/{id}/trace  *)
(* reads the rows meanwhile.  Goals share nothing but the database, so one *)
(* stands for all of them; the listing is in GoalPaging.                   *)
(*                                                                         *)
(* A request for the trace is not one look at the database: the session    *)
(* loads the goal, then its subtasks, for each of them its calls and for   *)
(* each call its validation, and the replan events last, each by a query   *)
(* of its own that sees what is committed by then.  What it has loaded it  *)
(* does not load again, the status of the goal included.                   *)
(***************************************************************************)
EXTENDS RunnerTrace

VARIABLES
  known,    \* settings.provider names a provider
  thread,   \* where the thread of the goal is: "none", "starting", "building",
            \* "running", "rescue", "returned" or "dead"
  request,  \* where the request for the trace is: "none", "goal", "calls",
            \* "verdict" or "answered"
  row,      \* the row of subtasks whose calls the request loads next
  seen      \* what the request has loaded

service == <<known, thread>>
reader  == <<request, row, seen>>
gvars   == <<vars, service, reader>>

Terminal == {"succeeded", "aborted", "failed"}
Unread   == [status |-> "absent", subtasks |-> <<>>, calls |-> <<>>, events |-> <<>>]

GInit ==
  /\ Init /\ pc = "start" /\ goal = NewGoal("absent")
  /\ known \in BOOLEAN /\ thread = "none"
  /\ request = "none" /\ row = 1 /\ seen = Unread
-----------------------------------------------------------------------------
(* create_goal and its thread. *)

\* The row is committed before there is a thread.
PostGoal ==
  /\ thread = "none"
  /\ goal' = NewGoal("pending")
  /\ thread' = "starting"
  /\ UNCHANGED <<pc, subtasks, calls, events, inPlan, totals, lastFailure, prior,
                 expired, late, known, reader>>

StartThread ==
  /\ thread = "starting" /\ thread' = "building"
  /\ UNCHANGED <<vars, known, reader>>

\* build_provider stands before the try of _run: an unknown name ends the
\* thread and leaves the goal PENDING.
BuildProvider ==
  /\ thread = "building"
  /\ thread' = IF known THEN "running" ELSE "dead"
  /\ UNCHANGED <<vars, known, reader>>

\* Runner.run takes a step.
Run ==
  /\ thread = "running"
  /\ Step \/ ProviderRaises \/ ArgumentsRejected \/ Tick
  /\ UNCHANGED <<service, reader>>

\* run has committed the end of the goal, has built its trace and returns.
RunReturns ==
  /\ thread = "running" /\ pc \in {"succeeded", "aborted"}
  /\ thread' = "returned"
  /\ UNCHANGED <<vars, known, reader>>

\* Mutant of ExceptionEscapes: the thread swallows the exception.
ExceptionIgnored ==
  /\ thread = "running"
  /\ pc' = IF pc \in Ended THEN pc ELSE "raised"
  /\ thread' = "returned"
  /\ UNCHANGED <<db, inPlan, totals, lastFailure, prior, expired, late, known, reader>>

\* An exception leaves run: one that Runner raises, or one of the database,
\* which may come anywhere, after the commit of the end too (the trace is still
\* to be built).  What is not committed is lost.
ExceptionEscapes ==
  /\ thread = "running"
  /\ pc' = IF pc \in Ended THEN pc ELSE "raised"
  /\ thread' = "rescue"
  /\ UNCHANGED <<db, inPlan, totals, lastFailure, prior, expired, late, known, reader>>

\* Mutant of MarkFailed: the row of a new goal is written over the old one.
MarkFailedAnew ==
  /\ thread = "rescue"
  /\ goal' = NewGoal("failed")
  /\ thread' = "returned"
  /\ UNCHANGED <<pc, subtasks, calls, events, inPlan, totals, lastFailure, prior,
                 expired, late, known, reader>>

\* Mutant of MarkFailed: the handler closes the subtask that runs as well.
MarkFailedAndSubtask ==
  /\ thread = "rescue"
  /\ goal' = [goal EXCEPT !.status = "failed"]
  /\ subtasks' = [r \in DOMAIN subtasks |->
                    IF subtasks[r] = "running" THEN "failed" ELSE subtasks[r]]
  /\ thread' = "returned"
  /\ UNCHANGED <<pc, calls, events, inPlan, totals, lastFailure, prior, expired, late,
                 known, reader>>

\* The handler of _run: FAILED, whatever the status was, and nothing else.
MarkFailed ==
  /\ thread = "rescue"
  /\ goal' = [goal EXCEPT !.status = "failed"]
  /\ thread' = "returned"
  /\ UNCHANGED <<pc, subtasks, calls, events, inPlan, totals, lastFailure, prior,
                 expired, late, known, reader>>

\* The database fails the handler as well.
RescueFails ==
  /\ thread = "rescue" /\ thread' = "dead"
  /\ UNCHANGED <<vars, known, reader>>

\* The process stops, and with it the daemon thread and the request.  It is
\* started again and serves requests; nothing takes the goal up.
Restart ==
  /\ thread \in {"starting", "building", "running", "rescue"}
  /\ pc' = IF pc \in Ended THEN pc ELSE "crashed"
  /\ thread' = "dead"
  /\ request' = "none" /\ row' = 1 /\ seen' = Unread
  /\ UNCHANGED <<db, inPlan, totals, lastFailure, prior, expired, late, known>>
-----------------------------------------------------------------------------
(* get_trace and _trace_for_goal. *)

\* A new request; the last answer is forgotten.
ReadGoal ==
  /\ request \in {"none", "answered"} /\ goal.status # "absent"
  /\ request' = "goal" /\ row' = 1
  /\ seen' = [Unread EXCEPT !.status = goal.status]
  /\ UNCHANGED <<vars, service>>

ReadSubtasks ==
  /\ request = "goal" /\ request' = "calls"
  /\ seen' = [seen EXCEPT !.subtasks = subtasks]
  /\ UNCHANGED <<vars, service, row>>

CallsOf(r) == {i \in DOMAIN calls : calls[i].sub = r}

\* The calls of one subtask, at most one of them, as yet without its verdict.
ReadCalls ==
  /\ request = "calls" /\ row <= Len(seen.subtasks)
  /\ IF CallsOf(row) = {}
       THEN row' = row + 1 /\ UNCHANGED <<request, seen>>
       ELSE /\ \E i \in CallsOf(row) :
                 seen' = [seen EXCEPT !.calls = Append(@, [calls[i] EXCEPT !.verdict = "none"])]
            /\ request' = "verdict" /\ UNCHANGED row
  /\ UNCHANGED <<vars, service>>

ReadVerdict ==
  /\ request = "verdict" /\ request' = "calls"
  /\ \E i \in CallsOf(row) :
       seen' = [seen EXCEPT !.calls[Len(seen.calls)].verdict = calls[i].verdict]
  /\ row' = row + 1
  /\ UNCHANGED <<vars, service>>

\* Mutant of ReadEvents: the session has expired the goal and its subtasks,
\* and their statuses are loaded again.
ReadEventsRefreshed ==
  /\ request = "calls" /\ row > Len(seen.subtasks)
  /\ request' = "answered"
  /\ seen' = [seen EXCEPT !.events = events, !.status = goal.status,
                          !.subtasks = [r \in DOMAIN seen.subtasks |-> subtasks[r]]]
  /\ UNCHANGED <<vars, service, row>>

ReadEvents ==
  /\ request = "calls" /\ row > Len(seen.subtasks)
  /\ request' = "answered"
  /\ seen' = [seen EXCEPT !.events = events]
  /\ UNCHANGED <<vars, service, row>>
-----------------------------------------------------------------------------
\* What the thread does when the database and the process hold.
ThreadStep ==
  \/ StartThread \/ BuildProvider \/ RunReturns \/ MarkFailed
  \/ thread = "running" /\ Step /\ UNCHANGED <<service, reader>>
  \/ pc = "raised" /\ ExceptionEscapes

GNext ==
  \/ PostGoal \/ StartThread \/ BuildProvider \/ Run \/ RunReturns
  \/ ExceptionEscapes \/ MarkFailed \/ RescueFails \/ Restart
  \/ ReadGoal \/ ReadSubtasks \/ ReadCalls \/ ReadVerdict \/ ReadEvents

GSpec == GInit /\ [][GNext]_gvars

\* The operating system runs the thread.  Nothing is asked of clients.
GFairSpec == GSpec /\ WF_gvars(ThreadStep)
-----------------------------------------------------------------------------
(* Properties. *)

\* "The full state is persisted before the abort returns, so the trace is
\* queryable" (ARCHITECTURE.md, Budgets): an answer that says the goal has ended
\* holds every row there is and ever will be, though the loop wrote on between
\* its queries.
TerminalIsWhole ==
  request = "answered" /\ seen.status \in Terminal =>
    seen.subtasks = subtasks /\ seen.calls = calls /\ seen.events = events

ShownValid(r) ==
  \E i \in DOMAIN seen.calls : seen.calls[i].sub = r /\ seen.calls[i].verdict = "valid"

\* An answer in the middle of a run is torn, yet it explains itself: a subtask
\* shown as done has its valid call shown, no call is shown without its subtask,
\* the calls are in their order, and each failed subtask but the last shown has
\* its event.
AnswersExplained ==
  request = "answered" =>
    /\ \A r \in DOMAIN seen.subtasks : seen.subtasks[r] = "done" => ShownValid(r)
    /\ \A i \in DOMAIN seen.calls : seen.calls[i].sub \in DOMAIN seen.subtasks
    /\ \A i, j \in DOMAIN seen.calls : i < j => seen.calls[i].sub < seen.calls[j].sub
    /\ Cardinality({r \in DOMAIN seen.subtasks : seen.subtasks[r] = "failed"})
         <= Len(seen.events) + 1

\* A thread that has come to its end without dying has left a terminal status,
\* and a goal that succeeded or aborted and was then marked FAILED still shows
\* which: the result of a valid finish, or the reason of the abort.
SettledByThread ==
  /\ thread = "returned" => goal.status \in Terminal
  /\ goal.status = "failed" =>
       /\ pc = "succeeded" <=> goal.final > 0
       /\ pc = "aborted" <=> goal.reason # "none"
       /\ goal.final > 0 => FinishedBy(goal.final) /\ goal.steps = Len(calls)

\* The only way out of a terminal status is from succeeded or aborted to failed,
\* by the goal's own thread, and failed is the end: no later step of any thread
\* or process changes a row of the goal.
TerminalOnce ==
  [][goal.status \in Terminal =>
       /\ UNCHANGED <<subtasks, calls, events>>
       /\ goal' # goal => /\ goal.status # "failed" /\ thread = "rescue"
                          /\ goal' = [goal EXCEPT !.status = "failed"]]_gvars

\* The trace of a goal grows as GoalTrace says, from the commit of the request on,
\* wherever an exception or a stop of the process cuts its run, and the handler
\* adds to it one change of the status and no row.
ServiceTraceGrows == Trace!ServiceSpec

\* An accepted goal comes to a terminal status unless its thread dies (a stop
\* of the process, an unknown provider, a database that fails the handler too).
AcceptedGoalSettles == thread = "starting" ~> (goal.status \in Terminal \/ thread = "dead")
=============================================================================
