------------------------- MODULE GoalServiceProofs --------------------------
(***************************************************************************)
(* The life of a goal in the service (GoalService), for every value of the *)
(* constants: TerminalOnce, from an invariant that ties the status of the  *)
(* goal to the place of its thread; SettledByThread and the refinement of  *)
(* GoalTrace, for which the invariants of Runner hold as long as the       *)
(* thread runs its loop; and what an answer of get_trace holds, from an    *)
(* invariant of the request that reads beside the thread.                  *)
(***************************************************************************)
EXTENDS GoalService, RunnerTraceProofs, SequenceTheorems

\* The loop of Runner is over once the goal has a terminal status, and the
\* thread is over once that is FAILED.
Lifecycle ==
  /\ "status" \in DOMAIN goal
  /\ goal.status \in Terminal => pc \in Ended
  /\ goal.status = "failed" => thread = "returned"
  /\ thread \in {"none", "starting", "building"} => goal.status \notin Terminal
  /\ thread = "rescue" => pc \in Ended

USE DEF Terminal, Ended, service, reader

\* Once the loop is over it takes no step.
LEMMA NoStepAfterEnd ==
  ASSUME pc \in Ended
  PROVE  ~(Step \/ ProviderRaises \/ ArgumentsRejected \/ Tick)
  BY DEF Step, CreateGoal, MissingGoal, MarkRunning, Planning, Selecting, Invoking,
         WallClockExceeded, ReplansExceeded, CallPlanner, PlannerFails, EmptyPlan,
         PlanTooDear, AdoptPlan, StepsExceeded, CostExceeded, SelectorFails, Admitted,
         SelectTool, RecordNoTool, GiveUp, ToolTimesOut, ToolErrors, ToolFails,
         ToolReturns, RejectOutput, AcceptOutput, RecordReplan, PlanExhausted, Succeed,
         ProviderRaises, ArgumentsRejected, Tick

\* A step of the loop gives the goal a terminal status only as its last one.
LEMMA StepEndsWithStatus ==
  ASSUME Lifecycle, pc \notin Ended,
         Step \/ ProviderRaises \/ ArgumentsRejected \/ Tick
  PROVE  /\ "status" \in DOMAIN goal'
         /\ goal'.status \in Terminal => pc' \in Ended
         /\ goal'.status # "failed"
<1>1. goal.status \notin Terminal
  BY DEF Lifecycle
<1>2. CASE goal' = goal
  BY <1>1, <1>2 DEF Lifecycle
<1>3. CASE CreateGoal \/ MarkRunning
  BY <1>3 DEF CreateGoal, MarkRunning, NewGoal, Lifecycle
<1>4. ASSUME NEW reason, NEW total, Abort(reason, total)
      PROVE  goal'.status = "aborted" /\ "status" \in DOMAIN goal' /\ pc' = "aborted"
  BY <1>4 DEF Abort, Lifecycle
<1>5. CASE Succeed
  BY <1>5 DEF Succeed, Lifecycle
<1>6. \/ goal' = goal \/ CreateGoal \/ MarkRunning \/ Succeed
      \/ \E reason, total : Abort(reason, total)
  BY DEF Step, MissingGoal, Planning, Selecting, Invoking,
         WallClockExceeded, ReplansExceeded, CallPlanner, PlannerFails, EmptyPlan,
         PlanTooDear, AdoptPlan, StepsExceeded, CostExceeded, SelectorFails,
         SelectTool, RecordNoTool, GiveUp, ToolTimesOut, ToolErrors, ToolFails,
         ToolReturns, RejectOutput, AcceptOutput, RecordReplan, PlanExhausted,
         ProviderRaises, ArgumentsRejected, Tick, Raise, db
<1> QED
  BY <1>2, <1>3, <1>4, <1>5, <1>6

\* Lifecycle is inductive.
LEMMA LifecycleStep ==
  ASSUME Lifecycle, [GNext]_gvars
  PROVE  Lifecycle'
<1>1. CASE PostGoal
  BY <1>1 DEF PostGoal, NewGoal, Lifecycle
<1>2. CASE StartThread \/ BuildProvider
  BY <1>2 DEF StartThread, BuildProvider, vars, Lifecycle
<1>3. CASE Run
  <2>1. thread = "running" /\ thread' = "running"
    BY <1>3 DEF Run
  <2>2. pc \notin Ended
    BY <1>3, NoStepAfterEnd DEF Run
  <2> QED
    BY <1>3, <2>1, <2>2, StepEndsWithStatus DEF Run, Lifecycle
<1>4. CASE RunReturns
  BY <1>4 DEF RunReturns, vars, Lifecycle
<1>5. CASE ExceptionEscapes
  BY <1>5 DEF ExceptionEscapes, db, Lifecycle
<1>6. CASE MarkFailed
  BY <1>6 DEF MarkFailed, Lifecycle
<1>7. CASE RescueFails
  BY <1>7 DEF RescueFails, vars, Lifecycle
<1>8. CASE Restart
  BY <1>8 DEF Restart, db, Lifecycle
<1>9. CASE ReadGoal \/ ReadSubtasks \/ ReadCalls \/ ReadVerdict \/ ReadEvents
  BY <1>9 DEF ReadGoal, ReadSubtasks, ReadCalls, ReadVerdict, ReadEvents, vars, Lifecycle
<1>10. CASE UNCHANGED gvars
  BY <1>10 DEF gvars, vars, Lifecycle
<1> QED
  BY <1>1, <1>2, <1>3, <1>4, <1>5, <1>6, <1>7, <1>8, <1>9, <1>10 DEF GNext

\* The rows and the status of a goal that has ended stay as they are, but that
\* its own thread may mark it FAILED (the handler of create_goal's _run).
LEMMA TerminalStep ==
  ASSUME Lifecycle, [GNext]_gvars, goal.status \in Terminal
  PROVE  /\ UNCHANGED <<subtasks, calls, events>>
         /\ goal' # goal => /\ goal.status # "failed" /\ thread = "rescue"
                            /\ goal' = [goal EXCEPT !.status = "failed"]
<1>1. pc \in Ended /\ thread \notin {"none", "starting", "building"}
  BY DEF Lifecycle
<1>2. ~Run /\ ~PostGoal
  BY <1>1, NoStepAfterEnd DEF Run, PostGoal
<1>3. CASE MarkFailed
  BY <1>3 DEF MarkFailed, Lifecycle
<1>4. CASE ExceptionEscapes \/ Restart
  BY <1>4 DEF ExceptionEscapes, Restart, db
<1>5. CASE StartThread \/ BuildProvider \/ RunReturns \/ RescueFails
  BY <1>5 DEF StartThread, BuildProvider, RunReturns, RescueFails, vars
<1>6. CASE ReadGoal \/ ReadSubtasks \/ ReadCalls \/ ReadVerdict \/ ReadEvents
  BY <1>6 DEF ReadGoal, ReadSubtasks, ReadCalls, ReadVerdict, ReadEvents, vars
<1>7. CASE UNCHANGED gvars
  BY <1>7 DEF gvars, vars
<1> QED
  BY <1>2, <1>3, <1>4, <1>5, <1>6, <1>7 DEF GNext

\* A terminal status is changed once at most, to FAILED, and the trace of an
\* ended goal never.
THEOREM TerminalSafety == GSpec => TerminalOnce
<1>1. GInit => Lifecycle
  BY DEF GInit, NewGoal, Lifecycle
<1>2. Lifecycle /\ [GNext]_gvars => Lifecycle'
  BY LifecycleStep
<1>3. GSpec => []Lifecycle
  BY <1>1, <1>2, PTL DEF GSpec
<1>4. Lifecycle /\ [GNext]_gvars =>
        [goal.status \in Terminal =>
           /\ UNCHANGED <<subtasks, calls, events>>
           /\ goal' # goal => /\ goal.status # "failed" /\ thread = "rescue"
                              /\ goal' = [goal EXCEPT !.status = "failed"]]_gvars
  BY TerminalStep
<1> QED
  BY <1>3, <1>4, PTL DEF GSpec, TerminalOnce
-----------------------------------------------------------------------------
(* What the rows of a settled goal tell, FAILED or not. *)

\* While the thread has not left run, the rows are those of a run of Runner.
LoopKept ==
  thread \in {"none", "starting", "building", "running"} => IInv /\ TotalsInv

\* How the loop ended can be read off the row of the goal.
EndKept ==
  /\ pc = "succeeded" <=> goal.final > 0
  /\ pc = "aborted" <=> goal.reason # "none"
  /\ goal.final > 0 => FinishedBy(goal.final) /\ goal.steps = Len(calls)

Settling ==
  /\ "status" \in DOMAIN goal /\ LoopKept /\ EndKept
  /\ thread = "none" => pc = "start"
  /\ thread = "none" <=> goal.status = "absent"
  /\ thread = "rescue" => pc \in Ended
  /\ thread = "returned" => goal.status \in Terminal

\* The ends of Runner that HonestAbort and HonestSuccess speak of.
LEMMA LoopEnds ==
  ASSUME IInv, TotalsInv
  PROVE  EndKept
<1>1. goal \in GoalRow /\ goal.final \in Nat /\ Len(calls) \in Nat /\ pc \in PCs
  BY DEF IInv, TypeOK, GoalRow
<1>2. pc = "aborted" <=> goal.status = "aborted"
  BY <1>1 DEF IInv, Control, PCs
<1>3. pc = "succeeded" <=> goal.status = "succeeded"
  BY <1>1 DEF IInv, Control, PCs
<1>4. goal.status = "aborted" <=> goal.reason # "none"
  BY DEF IInv, Control
<1>5. goal.final > 0 <=> goal.status = "succeeded"
  BY <1>1 DEF IInv, Control, HonestSuccess
<1>6. goal.status = "succeeded" => FinishedBy(goal.final)
  BY DEF IInv, HonestSuccess
<1>7. goal.status = "succeeded" => goal.steps = Len(calls)
  BY <1>3 DEF IInv, TotalsInv, Counters
<1> QED
  BY <1>2, <1>3, <1>4, <1>5, <1>6, <1>7 DEF EndKept

\* The same after a step.
LEMMA LoopEndsNext == (IInv /\ TotalsInv => EndKept)'
<1>1. IInv /\ TotalsInv => EndKept
  BY LoopEnds
<1> QED
  BY <1>1, PTL

\* A goal that has just been posted is one Runner may be called with.
LEMMA PostedIsInit ==
  ASSUME IInv, TotalsInv, pc = "start", goal.status \in {"absent", "pending"}, PostGoal
  PROVE  (IInv /\ TotalsInv)'
<1>1. /\ goal' = NewGoal("pending")
      /\ UNCHANGED <<pc, subtasks, calls, events, plan, base, pos, steps, replans, cost,
                     lastFailure, prior, expired, late>>
  BY DEF PostGoal, inPlan, totals
<1>2. goal' \in GoalRow /\ goal'.status = "pending" /\ goal'.reason = "none" /\ goal'.final = 0
  BY <1>1 DEF NewGoal, GoalRow, GoalStatus
<1>3. subtasks = <<>> /\ calls = <<>> /\ events = <<>>
  BY DEF IInv, Control
<1>4. (TypeOK /\ Control)'
  BY <1>1, <1>2, <1>3 DEF IInv, TypeOK, Control, Running
<1>5. (Counters /\ Position)'
  BY <1>1 DEF IInv, Counters, Position, Row
<1>6. (CallRows /\ HeldCall)'
  BY <1>1 DEF IInv, CallRows, CallsSound, CallSound, CallsInOrder, DoneOnCall, HeldCall, Row,
     LastCall, OpenCall, CallFailed, KindOf
<1>7. EventRows'
  BY <1>1 DEF IInv, EventRows, EventsTellTheTruth, CallFailed, KindOf
<1>8. (HonestAbort /\ HonestSuccess)'
  BY <1>2 DEF HonestAbort, HonestSuccess
<1>9. TotalsInv'
  BY <1>1 DEF TotalsInv, FailedRows
<1> QED
  BY <1>4, <1>5, <1>6, <1>7, <1>8, <1>9 DEF IInv

\* The thread moves on or a client reads: the loop and its rows stay.
LEMMA RowsKept ==
  ASSUME UNCHANGED vars
  PROVE  /\ IInv /\ TotalsInv => (IInv /\ TotalsInv)'
         /\ EndKept => EndKept'
<1>1. IInv => IInv'
  BY InvStep
<1>2. IInv /\ TotalsInv => TotalsInv'
  BY TotalsStep
<1>3. EndKept => EndKept'
  BY DEF EndKept, FinishedBy, vars
<1> QED
  BY <1>1, <1>2, <1>3

LEMMA SettlingInit == GInit => Settling
<1> SUFFICES ASSUME GInit PROVE Settling
  OBVIOUS
<1>1. IInv /\ TotalsInv
  BY InvInit, TotalsInit DEF GInit
<1>2. EndKept
  BY <1>1, LoopEnds
<1> QED
  BY <1>1, <1>2 DEF GInit, NewGoal, Settling, LoopKept

LEMMA SettlingStep ==
  ASSUME Settling, [GNext]_gvars
  PROVE  Settling'
<1>1. CASE PostGoal
  <2>1. IInv /\ TotalsInv /\ pc = "start" /\ goal.status \in {"absent", "pending"}
    BY <1>1 DEF PostGoal, Settling, LoopKept
  <2>2. (IInv /\ TotalsInv)'
    BY <1>1, <2>1, PostedIsInit
  <2>3. goal' = NewGoal("pending") /\ thread' = "starting" /\ pc' = pc
    BY <1>1 DEF PostGoal
  <2>4. EndKept'
    BY <2>1, <2>3 DEF EndKept, NewGoal
  <2> QED
    BY <2>1, <2>2, <2>3, <2>4 DEF NewGoal, Settling, LoopKept
<1>2. CASE Run
  <2>1. thread = "running" /\ thread' = "running" /\ IInv /\ TotalsInv
    BY <1>2 DEF Run, Settling, LoopKept
  <2>2. [Next]_vars
    BY <1>2 DEF Run, Next
  <2>3. IInv' /\ TotalsInv'
    BY <2>1, <2>2, InvStep, TotalsStep
  <2>4. EndKept' /\ "status" \in DOMAIN goal'
    <3>1. goal' \in GoalRow
      BY <2>3 DEF IInv, TypeOK
    <3> QED
      BY <2>3, LoopEndsNext, <3>1 DEF GoalRow
  <2>5. goal.status # "absent" => goal'.status # "absent"
    BY <2>1, <2>2, TraceStep
    DEF Trace!Next, Trace!trace, Trace!Create, Trace!Start, Trace!Plan, Trace!Fail, Trace!Judge,
        Trace!Close, Trace!Explain, Trace!Abort, Trace!Succeed, Trace!Call, Trace!Skip
  <2> QED
    BY <2>1, <2>3, <2>4, <2>5 DEF Settling, LoopKept
<1>3. CASE ExceptionEscapes
  <2>1. /\ IInv /\ EndKept /\ thread = "running" /\ thread' = "rescue"
        /\ pc' = IF pc \in Ended THEN pc ELSE "raised"
        /\ UNCHANGED <<goal, subtasks, calls, events>>
    BY <1>3 DEF ExceptionEscapes, Settling, LoopKept, db
  <2>2. EndKept'
    BY <2>1 DEF EndKept, FinishedBy
  <2> QED
    BY <2>1, <2>2 DEF Settling, LoopKept
<1>4. CASE MarkFailed
  <2>1. /\ goal' = [goal EXCEPT !.status = "failed"] /\ thread' = "returned"
        /\ UNCHANGED <<pc, subtasks, calls, events>>
    BY <1>4 DEF MarkFailed
  <2>2. /\ goal'.status = "failed" /\ goal'.final = goal.final /\ goal'.reason = goal.reason
        /\ goal'.steps = goal.steps /\ "status" \in DOMAIN goal'
    BY <2>1 DEF Settling
  <2>3. EndKept'
    BY <2>1, <2>2 DEF EndKept, FinishedBy, Settling
  <2> QED
    BY <2>1, <2>2, <2>3 DEF Settling, LoopKept
<1>5. CASE Restart
  <2>1. /\ thread # "none" /\ thread' = "dead" /\ pc' = IF pc \in Ended THEN pc ELSE "crashed"
        /\ UNCHANGED <<goal, subtasks, calls, events>>
    BY <1>5 DEF Restart, db
  <2>2. EndKept'
    BY <2>1 DEF EndKept, FinishedBy, Settling
  <2> QED
    BY <2>1, <2>2 DEF Settling, LoopKept
<1>6. CASE UNCHANGED vars
  <2>1. /\ IInv /\ TotalsInv => (IInv /\ TotalsInv)'
        /\ EndKept' /\ UNCHANGED <<pc, goal>>
    BY <1>6, RowsKept DEF Settling, vars
  <2>2. CASE thread' = thread
    BY <2>1, <2>2 DEF Settling, LoopKept
  <2>3. CASE StartThread \/ BuildProvider
    BY <2>1, <2>3 DEF StartThread, BuildProvider, Settling, LoopKept
  <2>4. CASE RunReturns
    <3>1. goal.status \in Terminal
      BY <2>4 DEF RunReturns, Settling, LoopKept, IInv, Control
    <3> QED
      BY <2>1, <2>4, <3>1 DEF RunReturns, Settling, LoopKept
  <2>5. CASE RescueFails
    BY <2>1, <2>5 DEF RescueFails, Settling, LoopKept
  <2>6. thread' = thread \/ StartThread \/ BuildProvider \/ RunReturns \/ RescueFails
        \/ PostGoal \/ ExceptionEscapes \/ MarkFailed \/ Restart
    BY DEF GNext, Run, ReadGoal, ReadSubtasks, ReadCalls, ReadVerdict, ReadEvents, gvars
  <2> QED
    BY <1>1, <1>3, <1>4, <1>5, <2>2, <2>3, <2>4, <2>5, <2>6
<1> QED
  BY <1>1, <1>2, <1>3, <1>4, <1>5, <1>6
     DEF GNext, StartThread, BuildProvider, RunReturns, RescueFails, ReadGoal, ReadSubtasks, ReadCalls,
         ReadVerdict, ReadEvents, gvars

\* A thread that has returned has settled its goal, and a goal marked FAILED
\* still shows how its run ended, for every budget, plan and tool.
THEOREM ThreadSettles == GSpec => []SettledByThread
<1>1. Settling => SettledByThread
  BY DEF Settling, EndKept, SettledByThread
<1> QED
  BY <1>1, SettlingInit, SettlingStep, PTL DEF GSpec
-----------------------------------------------------------------------------
(* The rows, whoever writes them. *)

\* A commit of the service is one of the loop, the request's or the handler's.
LEMMA ServiceStep ==
  ASSUME Settling, Lifecycle, [GNext]_gvars
  PROVE  [Trace!Next \/ Trace!Condemn]_Trace!trace
<1>1. CASE Run
  <2>1. IInv /\ [Next]_vars
    BY <1>1 DEF Run, Next, Settling, LoopKept
  <2> QED
    BY <2>1, TraceStep
<1>2. CASE PostGoal
  <2>1. /\ goal.status = "absent" /\ goal'.status = "pending"
        /\ UNCHANGED <<subtasks, calls, events>>
    <3>1. thread = "none" /\ pc = "start" /\ goal.status \in {"absent", "pending"}
      BY <1>2 DEF PostGoal, Settling
    <3> QED
      BY <1>2, <3>1 DEF PostGoal, Settling, NewGoal
  <2> QED
    BY <2>1 DEF Trace!Next, Trace!Create
<1>3. CASE MarkFailed
  <2>1. /\ goal.status # "failed" /\ goal.status # "absent" /\ goal'.status = "failed"
        /\ UNCHANGED <<subtasks, calls, events>>
    BY <1>3 DEF MarkFailed, Settling, Lifecycle
  <2> QED
    BY <2>1 DEF Trace!Condemn
<1>4. CASE UNCHANGED <<goal, subtasks, calls, events>>
  BY <1>4 DEF Trace!trace
<1> QED
  BY <1>1, <1>2, <1>3, <1>4
     DEF GNext, StartThread, BuildProvider, RunReturns, ExceptionEscapes, RescueFails, Restart,
         ReadGoal, ReadSubtasks, ReadCalls, ReadVerdict, ReadEvents, gvars, vars, db

\* A goal in the service (create_goal and its _run) implements GoalTrace with the
\* handler's step, though exceptions and restarts may cut its loop anywhere.
THEOREM ServiceImplementsTrace == GSpec => ServiceTraceGrows
<1>1. GInit => Settling /\ Lifecycle
  BY SettlingInit DEF GInit, NewGoal, Lifecycle
<1>2. GInit => Trace!Init
  BY DEF GInit, Init, NewGoal, Trace!Init
<1>3. (Settling /\ Lifecycle) /\ [GNext]_gvars => (Settling /\ Lifecycle)'
  BY SettlingStep, LifecycleStep
<1>4. Settling /\ Lifecycle /\ [GNext]_gvars => [Trace!Next \/ Trace!Condemn]_Trace!trace
  BY ServiceStep
<1> QED
  BY <1>1, <1>2, <1>3, <1>4, PTL DEF GSpec, ServiceTraceGrows, Trace!ServiceSpec
-----------------------------------------------------------------------------
(* What a request for the trace has loaded, while the loop writes on. *)

\* What holds of the rows, whoever reads them and whatever became of the thread.
RowsTell ==
  /\ goal.status \in GoalStatus \cup {"failed"}
  /\ subtasks \in Seq(SubtaskStatus) /\ calls \in Seq(CallRow) /\ events \in Seq(EventRow)
  /\ CallsInOrder /\ DoneOnCall
  /\ \A i \in DOMAIN calls : calls[i].sub \in DOMAIN subtasks
  /\ IsFiniteSet(FailedRows) /\ Cardinality(FailedRows) <= Len(events) + 1

\* What a step may not take away: a call and its valid verdict, an event.
RowsGrow ==
  /\ Len(events) <= Len(events')
  /\ \A i \in DOMAIN calls :
       /\ i \in DOMAIN calls' /\ calls'[i].sub = calls[i].sub
       /\ calls[i].verdict = "valid" => calls'[i].verdict = "valid"

\* Where the subtasks are loaded.
Loading == {"calls", "verdict", "answered"}

SeenRow == [status : GoalStatus \cup {"failed"}, subtasks : Seq(SubtaskStatus),
            calls : Seq(CallRow), events : Seq(EventRow)]

RequestInv ==
  /\ request \in {"none", "goal"} \cup Loading /\ row \in Nat \ {0} /\ seen \in SeenRow
  /\ request = "goal" => row = 1 /\ seen.calls = <<>>
  /\ request = "verdict" =>
       /\ seen.calls # <<>> /\ seen.calls[Len(seen.calls)].sub = row
       /\ CallsOf(row) # {} /\ row \in DOMAIN seen.subtasks
  /\ request = "answered" => row > Len(seen.subtasks)

\* The calls that are loaded are those of subtasks the request is past, in order.
ShownInOrder ==
  /\ \A i \in DOMAIN seen.calls :
       /\ seen.calls[i].sub \in DOMAIN seen.subtasks
       /\ \/ seen.calls[i].sub < row
          \/ request = "verdict" /\ i = Len(seen.calls) /\ seen.calls[i].sub = row
  /\ \A i, j \in DOMAIN seen.calls : i < j => seen.calls[i].sub < seen.calls[j].sub

\* A subtask that is loaded as done has its valid call in the database, and in
\* what is loaded once the request is past it.
ShownDone ==
  \A r \in DOMAIN seen.subtasks : seen.subtasks[r] = "done" =>
    /\ \E i \in DOMAIN calls : calls[i].sub = r /\ calls[i].verdict = "valid"
    /\ r < row => ShownValid(r)

SeenFailed == {r \in DOMAIN seen.subtasks : seen.subtasks[r] = "failed"}

ShownFailed ==
  Cardinality(SeenFailed) <= (IF request = "answered" THEN Len(seen.events) ELSE Len(events)) + 1

ExplainedInv == request \in Loading => ShownInOrder /\ ShownDone /\ ShownFailed

\* Of a goal that had ended when the request began, what is loaded is its trace
\* as far as the request has come.
WholeSoFar ==
  /\ seen.subtasks = subtasks
  /\ Len(seen.calls) <= Len(calls)
  /\ \A i \in DOMAIN seen.calls :
       IF request = "verdict" /\ i = Len(seen.calls)
         THEN seen.calls[i] = [calls[i] EXCEPT !.verdict = "none"]
         ELSE seen.calls[i] = calls[i]
  /\ \A i \in DOMAIN calls : calls[i].sub < row => i <= Len(seen.calls)

WholeInv ==
  request # "none" /\ seen.status \in Terminal =>
    /\ goal.status \in Terminal
    /\ request \in Loading => WholeSoFar
    /\ request = "answered" => seen.events = events

ReaderInv == RowsTell /\ RequestInv /\ ExplainedInv /\ WholeInv

LEMMA RowsTellInit == GInit => RowsTell
<1> SUFFICES ASSUME GInit PROVE RowsTell
  OBVIOUS
<1>1. TypeOK /\ CallsInOrder /\ DoneOnCall
  BY InvInit DEF GInit, IInv, CallRows
<1>2. subtasks = <<>> /\ calls = <<>> /\ events = <<>> /\ goal.status = "absent"
  BY DEF GInit, Init, NewGoal
<1>3. FailedRows = {}
  BY <1>2 DEF FailedRows
<1> QED
  BY <1>1, <1>2, <1>3, FS_EmptySet DEF RowsTell, TypeOK, GoalStatus

\* An exception of the loop leaves the rows as they were committed.
LEMMA RaisedQuiet ==
  ASSUME Step \/ ProviderRaises \/ ArgumentsRejected \/ Tick, pc' \in {"raised", "crashed"}
  PROVE  UNCHANGED <<subtasks, calls, events>>
  BY DEF Step, CreateGoal, MissingGoal, MarkRunning, Planning, Selecting, Invoking,
         WallClockExceeded, ReplansExceeded, CallPlanner, PlannerFails, EmptyPlan,
         PlanTooDear, AdoptPlan, StepsExceeded, CostExceeded, SelectorFails, Admitted,
         SelectTool, RecordNoTool, GiveUp, ToolTimesOut, ToolErrors, ToolFails,
         ToolReturns, RejectOutput, AcceptOutput, RecordReplan, PlanExhausted, Succeed,
         ProviderRaises, ArgumentsRejected, Tick, Raise, Abort, db

\* The rows of a run that has not been stopped tell what RowsTell says.
LEMMA LoopTells ==
  ASSUME IInv, TotalsInv, pc \notin {"raised", "crashed"}
  PROVE  RowsTell
<1>1. /\ TypeOK /\ CallsInOrder /\ DoneOnCall
      /\ \A i \in 1 .. Len(calls) : calls[i].sub \in 1 .. Len(subtasks)
  BY DEF IInv, CallRows, CallsSound, CallSound
<1>2. goal.status \in GoalStatus /\ replans = Len(events) /\ replans \in Nat
  BY <1>1 DEF TypeOK, GoalRow, IInv, Counters
<1>3. IsFiniteSet(FailedRows) /\ Cardinality(FailedRows) <= Len(events) + 1
  BY <1>2 DEF TotalsInv
<1> QED
  BY <1>1, <1>2, <1>3 DEF RowsTell, TypeOK

LEMMA LoopTellsNext == (IInv /\ TotalsInv /\ pc \notin {"raised", "crashed"} => RowsTell)'
<1>1. IInv /\ TotalsInv /\ pc \notin {"raised", "crashed"} => RowsTell
  BY LoopTells
<1> QED
  BY <1>1, PTL

\* Rows that stay tell the same.
LEMMA RowsStayTelling ==
  ASSUME RowsTell, UNCHANGED <<subtasks, calls, events>>,
         goal'.status \in GoalStatus \cup {"failed"}
  PROVE  RowsTell' /\ RowsGrow
<1>1. FailedRows' = FailedRows /\ CallsInOrder' /\ DoneOnCall'
  BY DEF RowsTell, FailedRows, CallsInOrder, DoneOnCall
<1>2. Len(events) \in Nat
  BY DEF RowsTell
<1> QED
  BY <1>1, <1>2 DEF RowsTell, RowsGrow

\* A step of the loop settles a call that is open, or adds to the rows.
LEMMA TraceGrows ==
  ASSUME IInv, [Next]_vars
  PROVE  RowsGrow
<1>t. calls \in Seq(CallRow) /\ events \in Seq(EventRow) /\ Len(events) \in Nat
      /\ DOMAIN calls = 1 .. Len(calls) /\ Len(calls) \in Nat
  BY DEF IInv, TypeOK
<1>1. [Trace!Next]_Trace!trace
  BY TraceStep
<1>2. CASE UNCHANGED <<calls, events>>
  BY <1>t, <1>2 DEF RowsGrow
<1>3. CASE Trace!Explain
  <2>1. PICK e : events' = Append(events, e)
    BY <1>3 DEF Trace!Explain
  <2>2. Len(events') = Len(events) + 1
    BY <1>t, <2>1
  <2>3. calls' = calls
    BY <1>3 DEF Trace!Explain
  <2> QED
    BY <1>t, <2>2, <2>3 DEF RowsGrow
<1>4. ASSUME NEW r, Trace!Call(r) PROVE RowsGrow
  <2>1. PICK t \in Tools :
          calls' = Append(calls, [sub |-> r, tool |-> t, status |-> "ok", verdict |-> "none"])
    BY <1>4 DEF Trace!Call
  <2>2. \A i \in 1 .. Len(calls) : i \in DOMAIN calls' /\ calls'[i] = calls[i]
    BY <1>t, <2>1
  <2> QED
    BY <1>t, <1>4, <2>2 DEF Trace!Call, RowsGrow
<1>5. CASE Trace!Fail \/ Trace!Judge
  <2> DEFINE n == Len(calls)
  <2>1. n \in DOMAIN calls /\ calls[n].verdict = "none" /\ events' = events
    BY <1>t, <1>5 DEF Trace!Fail, Trace!Judge, Trace!Open
  <2>2. \/ \E s : calls' = [calls EXCEPT ![n].status = s]
        \/ \E v : calls' = [calls EXCEPT ![n].verdict = v]
    BY <1>5 DEF Trace!Fail, Trace!Judge
  <2>3. DOMAIN calls' = DOMAIN calls /\ \A i \in DOMAIN calls : i # n => calls'[i] = calls[i]
    BY <2>2
  <2>4. calls'[n].sub = calls[n].sub
    <3>1. calls[n] \in CallRow
      BY <1>t, <2>1
    <3>2. ASSUME NEW s, calls' = [calls EXCEPT ![n].status = s]
          PROVE  calls'[n].sub = calls[n].sub
      BY <2>1, <3>1, <3>2 DEF CallRow
    <3>3. ASSUME NEW v, calls' = [calls EXCEPT ![n].verdict = v]
          PROVE  calls'[n].sub = calls[n].sub
      BY <2>1, <3>1, <3>3 DEF CallRow
    <3> QED
      BY <2>2, <3>2, <3>3
  <2> QED
    BY <1>t, <2>1, <2>3, <2>4 DEF RowsGrow
<1> QED
  BY <1>1, <1>2, <1>3, <1>4, <1>5
     DEF Trace!Next, Trace!trace, Trace!Create, Trace!Start, Trace!Plan, Trace!Close,
         Trace!Skip, Trace!Abort, Trace!Succeed

LEMMA RowsStep ==
  ASSUME Settling, Lifecycle, RowsTell, [GNext]_gvars
  PROVE  RowsTell' /\ RowsGrow
<1>1. CASE Run
  <2>1. IInv /\ TotalsInv /\ [Next]_vars
    BY <1>1 DEF Run, Next, Settling, LoopKept
  <2>2. IInv' /\ TotalsInv'
    BY <2>1, InvStep, TotalsStep
  <2>3. RowsGrow
    BY <2>1, TraceGrows
  <2>4. CASE pc' \notin {"raised", "crashed"}
    BY <2>2, <2>3, <2>4, LoopTellsNext
  <2>5. CASE pc' \in {"raised", "crashed"}
    <3>1. UNCHANGED <<subtasks, calls, events>>
      BY <1>1, <2>5, RaisedQuiet DEF Run
    <3>2. goal'.status \in GoalStatus
      BY <2>2 DEF IInv, TypeOK, GoalRow
    <3> QED
      BY <3>1, <3>2, RowsStayTelling
  <2> QED
    BY <2>4, <2>5
<1>2. CASE PostGoal
  BY <1>2, RowsStayTelling DEF PostGoal, NewGoal, GoalStatus
<1>3. CASE MarkFailed
  <2>1. goal'.status = "failed" /\ UNCHANGED <<subtasks, calls, events>>
    BY <1>3 DEF MarkFailed, Settling
  <2> QED
    BY <2>1, RowsStayTelling
<1>4. CASE UNCHANGED <<goal, subtasks, calls, events>>
  BY <1>4, RowsStayTelling DEF RowsTell
<1> QED
  BY <1>1, <1>2, <1>3, <1>4
     DEF GNext, StartThread, BuildProvider, RunReturns, ExceptionEscapes, RescueFails, Restart,
         ReadGoal, ReadSubtasks, ReadCalls, ReadVerdict, ReadEvents, gvars, vars, db

\* A call is loaded behind those that were, as yet without its verdict.
LEMMA CallLoaded ==
  ASSUME RowsTell, RequestInv, ReadCalls, CallsOf(row) # {}
  PROVE  /\ request = "calls" /\ request' = "verdict" /\ row' = row /\ UNCHANGED vars
         /\ row \in DOMAIN seen.subtasks /\ seen' \in SeenRow
         /\ seen'.status = seen.status /\ seen'.subtasks = seen.subtasks
         /\ seen'.events = seen.events
         /\ Len(seen'.calls) = Len(seen.calls) + 1
         /\ \A k \in 1 .. Len(seen.calls) : seen'.calls[k] = seen.calls[k]
         /\ \E i \in DOMAIN calls :
              /\ calls[i].sub = row
              /\ seen'.calls[Len(seen'.calls)] = [calls[i] EXCEPT !.verdict = "none"]
              /\ seen'.calls[Len(seen'.calls)].sub = row
<1>1. /\ request = "calls" /\ request' = "verdict" /\ row' = row /\ UNCHANGED vars
      /\ row <= Len(seen.subtasks)
  BY DEF ReadCalls
<1>2. PICK i \in CallsOf(row) :
        seen' = [seen EXCEPT !.calls = Append(@, [calls[i] EXCEPT !.verdict = "none"])]
  BY DEF ReadCalls
<1> DEFINE c == [calls[i] EXCEPT !.verdict = "none"]
           list == Append(seen.calls, c)
<1>3. i \in DOMAIN calls /\ calls[i].sub = row /\ calls[i] \in CallRow
  BY <1>2 DEF CallsOf, RowsTell
<1>4. c \in CallRow /\ c.sub = row
  BY <1>3 DEF CallRow, Verdicts
<1>5. /\ seen \in SeenRow /\ seen.calls \in Seq(CallRow) /\ seen.subtasks \in Seq(SubtaskStatus)
      /\ row \in Nat \ {0}
  BY DEF RequestInv, SeenRow
<1> HIDE DEF c
<1>6. /\ list \in Seq(CallRow) /\ Len(list) = Len(seen.calls) + 1 /\ list[Len(list)] = c
      /\ \A k \in 1 .. Len(seen.calls) : list[k] = seen.calls[k]
  BY <1>4, <1>5, AppendRow
<1> HIDE DEF list
<1>7. seen' = [seen EXCEPT !.calls = list]
  BY <1>2 DEF list, c
<1>8. /\ seen' \in SeenRow /\ seen'.calls = list /\ seen'.status = seen.status
      /\ seen'.subtasks = seen.subtasks /\ seen'.events = seen.events
  BY <1>5, <1>6, <1>7 DEF SeenRow
<1>9. row \in DOMAIN seen.subtasks
  BY <1>1, <1>5
<1> QED
  BY <1>1, <1>3, <1>4, <1>6, <1>8, <1>9 DEF c

\* The last call that was loaded gets its verdict.
LEMMA VerdictLoaded ==
  ASSUME RowsTell, RequestInv, ReadVerdict
  PROVE  /\ request = "verdict" /\ request' = "calls" /\ row' = row + 1 /\ UNCHANGED vars
         /\ seen' \in SeenRow
         /\ seen'.status = seen.status /\ seen'.subtasks = seen.subtasks
         /\ seen'.events = seen.events
         /\ Len(seen'.calls) = Len(seen.calls) /\ Len(seen.calls) \in 1 .. Len(seen.calls)
         /\ \A k \in 1 .. Len(seen.calls) :
              seen'.calls[k].sub = seen.calls[k].sub
                /\ (k # Len(seen.calls) => seen'.calls[k] = seen.calls[k])
         /\ seen.calls[Len(seen.calls)].sub = row
         /\ \E i \in DOMAIN calls :
              /\ calls[i].sub = row
              /\ seen'.calls[Len(seen.calls)] =
                   [seen.calls[Len(seen.calls)] EXCEPT !.verdict = calls[i].verdict]
<1> DEFINE n == Len(seen.calls)
<1>1. /\ request = "verdict" /\ request' = "calls" /\ row' = row + 1 /\ UNCHANGED vars
  BY DEF ReadVerdict
<1>2. PICK i \in CallsOf(row) :
        seen' = [seen EXCEPT !.calls[Len(seen.calls)].verdict = calls[i].verdict]
  BY DEF ReadVerdict
<1>3. i \in DOMAIN calls /\ calls[i].sub = row /\ calls[i] \in CallRow
  BY <1>2 DEF CallsOf, RowsTell
<1>4. /\ seen \in SeenRow /\ seen.calls \in Seq(CallRow) /\ seen.calls # <<>>
      /\ seen.calls[n].sub = row
  BY <1>1 DEF RequestInv, SeenRow
<1>5. n \in 1 .. n /\ seen.calls[n] \in CallRow
  BY <1>4
<1> DEFINE c == [seen.calls[n] EXCEPT !.verdict = calls[i].verdict]
           list == [seen.calls EXCEPT ![n] = c]
<1>6. c \in CallRow /\ c.sub = seen.calls[n].sub
  BY <1>3, <1>5 DEF CallRow
<1> HIDE DEF c
<1>7. /\ list \in Seq(CallRow) /\ Len(list) = n /\ list[n] = c
      /\ \A k \in 1 .. n : k # n => list[k] = seen.calls[k]
  BY <1>4, <1>5, <1>6, ReplaceRow
<1>8. seen' = [seen EXCEPT !.calls = list]
  BY <1>2, <1>4 DEF c, SeenRow
<1> HIDE DEF list
<1>9. /\ seen' \in SeenRow /\ seen'.calls = list /\ seen'.status = seen.status
      /\ seen'.subtasks = seen.subtasks /\ seen'.events = seen.events
  BY <1>4, <1>7, <1>8 DEF SeenRow
<1> QED
  BY <1>1, <1>3, <1>4, <1>5, <1>6, <1>7, <1>9 DEF c

\* The other steps of a request, and all of them but Restart when no request is
\* served.
LEMMA NoReadStep ==
  ASSUME [GNext]_gvars,
         ~ (ReadGoal \/ ReadSubtasks \/ ReadCalls \/ ReadVerdict \/ ReadEvents)
  PROVE  UNCHANGED <<request, row, seen>> \/ Restart
  BY DEF GNext, PostGoal, StartThread, BuildProvider, Run, RunReturns, ExceptionEscapes,
         MarkFailed, RescueFails, gvars

LEMMA RequestStep ==
  ASSUME RowsTell, RequestInv, RowsGrow, [GNext]_gvars
  PROVE  RequestInv'
<1>1. CASE ReadGoal
  <2>1. seen' = [Unread EXCEPT !.status = goal.status] /\ request' = "goal" /\ row' = 1
    BY <1>1 DEF ReadGoal
  <2>2. seen' = [status |-> goal.status, subtasks |-> <<>>, calls |-> <<>>, events |-> <<>>]
    BY <2>1 DEF Unread
  <2>3. seen' \in SeenRow /\ seen'.calls = <<>>
    BY <2>2 DEF SeenRow, RowsTell
  <2> QED
    BY <2>1, <2>3 DEF RequestInv, Loading
<1>2. CASE ReadSubtasks
  <2>1. /\ seen' = [seen EXCEPT !.subtasks = subtasks] /\ request' = "calls" /\ row' = row
        /\ seen \in SeenRow /\ subtasks \in Seq(SubtaskStatus)
    BY <1>2 DEF ReadSubtasks, RowsTell, RequestInv
  <2>2. seen' \in SeenRow
    BY <2>1 DEF SeenRow
  <2> QED
    BY <2>1, <2>2 DEF RequestInv, Loading
<1>3. CASE ReadCalls /\ CallsOf(row) # {}
  <2>1. /\ request' = "verdict" /\ row' = row /\ UNCHANGED vars /\ seen' \in SeenRow
        /\ row \in DOMAIN seen.subtasks /\ seen'.subtasks = seen.subtasks
        /\ Len(seen'.calls) = Len(seen.calls) + 1 /\ seen'.calls[Len(seen'.calls)].sub = row
    BY <1>3, CallLoaded
  <2>2. seen'.calls # <<>>
    BY <2>1 DEF RequestInv, SeenRow
  <2>3. CallsOf(row)' # {}
    BY <1>3, <2>1 DEF CallsOf, vars, db
  <2> QED
    BY <2>1, <2>2, <2>3 DEF RequestInv, Loading
<1>4. CASE ReadCalls /\ CallsOf(row) = {}
  BY <1>4 DEF ReadCalls, RequestInv, Loading
<1>5. CASE ReadVerdict
  BY <1>5, VerdictLoaded DEF RequestInv, Loading
<1>6. CASE ReadEvents
  <2>1. /\ seen' = [seen EXCEPT !.events = events] /\ request' = "answered" /\ row' = row
        /\ row > Len(seen.subtasks) /\ seen \in SeenRow /\ events \in Seq(EventRow)
    BY <1>6 DEF ReadEvents, RowsTell, RequestInv
  <2>2. seen' \in SeenRow /\ seen'.subtasks = seen.subtasks
    BY <2>1 DEF SeenRow
  <2> QED
    BY <2>1, <2>2 DEF RequestInv, Loading
<1>7. CASE Restart
  BY <1>7 DEF Restart, Unread, SeenRow, GoalStatus, RequestInv, Loading
<1>8. CASE UNCHANGED <<request, row, seen>>
  <2>1. \A r : CallsOf(r) # {} => CallsOf(r)' # {}
    BY DEF RowsGrow, CallsOf
  <2> QED
    BY <1>8, <2>1 DEF RequestInv, Loading
<1> QED
  BY <1>1, <1>2, <1>3, <1>4, <1>5, <1>6, <1>7, <1>8, NoReadStep

\* A subtask has one call at most.
LEMMA OneCall ==
  ASSUME RowsTell, NEW i \in DOMAIN calls, NEW k \in DOMAIN calls, calls[k].sub = calls[i].sub
  PROVE  k = i
<1>1. /\ i \in 1 .. Len(calls) /\ k \in 1 .. Len(calls) /\ Len(calls) \in Nat
      /\ DOMAIN subtasks = 1 .. Len(subtasks) /\ Len(subtasks) \in Nat
  BY DEF RowsTell
<1>2. calls[i].sub \in Nat /\ calls[k].sub \in Nat
  BY <1>1 DEF RowsTell
<1>3. ~ (k < i) /\ ~ (i < k)
  BY <1>1, <1>2 DEF RowsTell, CallsInOrder
<1> QED
  BY <1>1, <1>3

LEMMA ShownOrderStep ==
  ASSUME RowsTell, RequestInv, ExplainedInv, [GNext]_gvars, request' \in Loading
  PROVE  ShownInOrder'
<1>t. /\ row \in Nat /\ seen.calls \in Seq(CallRow) /\ seen.subtasks \in Seq(SubtaskStatus)
      /\ DOMAIN seen.calls = 1 .. Len(seen.calls) /\ Len(seen.calls) \in Nat
      /\ DOMAIN seen.subtasks \subseteq Nat
  BY DEF RequestInv, SeenRow
<1>1. CASE ReadSubtasks
  <2>1. seen'.calls = seen.calls /\ seen.calls = <<>>
    BY <1>1 DEF ReadSubtasks, RequestInv, SeenRow
  <2> QED
    BY <2>1 DEF ShownInOrder
<1>2. CASE ReadCalls /\ CallsOf(row) # {}
  <2> DEFINE n == Len(seen.calls)
  <2>1. /\ request = "calls" /\ request' = "verdict" /\ row' = row
        /\ row \in DOMAIN seen.subtasks /\ seen'.subtasks = seen.subtasks /\ seen' \in SeenRow
        /\ Len(seen'.calls) = n + 1 /\ seen'.calls[n + 1].sub = row
        /\ \A k \in 1 .. n : seen'.calls[k] = seen.calls[k]
    BY <1>2, CallLoaded
  <2>2. DOMAIN seen'.calls = 1 .. n + 1
    BY <2>1 DEF SeenRow
  <2>3. /\ \A i \in 1 .. n : /\ seen.calls[i].sub \in DOMAIN seen.subtasks
                             /\ seen.calls[i].sub < row
        /\ \A i, j \in 1 .. n : i < j => seen.calls[i].sub < seen.calls[j].sub
    BY <1>t, <2>1 DEF ExplainedInv, ShownInOrder, Loading
  <2>4. ASSUME NEW i \in 1 .. n + 1
        PROVE  /\ seen'.calls[i].sub \in DOMAIN seen'.subtasks
               /\ \/ seen'.calls[i].sub < row
                  \/ i = n + 1 /\ seen'.calls[i].sub = row
    <3>1. CASE i = n + 1
      BY <2>1, <3>1
    <3>2. CASE i \in 1 .. n
      BY <2>1, <2>3, <3>2
    <3> QED
      BY <1>t, <3>1, <3>2
  <2>5. ASSUME NEW i \in 1 .. n + 1, NEW j \in 1 .. n + 1, i < j
        PROVE  seen'.calls[i].sub < seen'.calls[j].sub
    <3>1. i \in 1 .. n /\ seen'.calls[i] = seen.calls[i]
      BY <1>t, <2>1, <2>5
    <3>2. CASE j = n + 1
      BY <2>1, <2>3, <3>1, <3>2
    <3>3. CASE j \in 1 .. n
      BY <2>1, <2>3, <2>5, <3>1, <3>3
    <3> QED
      BY <1>t, <3>2, <3>3, SMTT(20)
  <2> QED
    BY <2>1, <2>2, <2>4, <2>5 DEF ShownInOrder
<1>3. CASE ReadCalls /\ CallsOf(row) = {}
  <2>1. request = "calls" /\ request' = request /\ row' = row + 1 /\ seen' = seen
    BY <1>3 DEF ReadCalls
  <2>2. ShownInOrder
    BY <2>1 DEF ExplainedInv, Loading
  <2>3. \A i \in DOMAIN seen.calls : /\ seen.calls[i].sub \in DOMAIN seen.subtasks
                                     /\ seen.calls[i].sub < row + 1
    BY <1>t, <2>1, <2>2 DEF ShownInOrder
  <2> QED
    BY <2>1, <2>2, <2>3 DEF ShownInOrder
<1>4. CASE ReadVerdict
  <2> DEFINE n == Len(seen.calls)
  <2>1. /\ request = "verdict" /\ request' = "calls" /\ row' = row + 1
        /\ seen' \in SeenRow /\ seen'.subtasks = seen.subtasks /\ Len(seen'.calls) = n
        /\ \A k \in 1 .. n : seen'.calls[k].sub = seen.calls[k].sub
    BY <1>4, VerdictLoaded
  <2>2. DOMAIN seen'.calls = 1 .. n
    BY <2>1 DEF SeenRow
  <2>3. ShownInOrder
    BY <2>1 DEF ExplainedInv, Loading
  <2>4. \A i \in 1 .. n : /\ seen.calls[i].sub \in DOMAIN seen.subtasks
                          /\ seen.calls[i].sub < row + 1
    BY <1>t, <2>3, SMTT(20) DEF ShownInOrder
  <2>5. \A i, j \in 1 .. n : i < j => seen.calls[i].sub < seen.calls[j].sub
    BY <1>t, <2>3 DEF ShownInOrder
  <2>6. /\ \A i \in 1 .. n : /\ seen'.calls[i].sub \in DOMAIN seen'.subtasks
                             /\ seen'.calls[i].sub < row'
        /\ \A i, j \in 1 .. n : i < j => seen'.calls[i].sub < seen'.calls[j].sub
    BY <2>1, <2>4, <2>5
  <2> QED
    BY <2>2, <2>6 DEF ShownInOrder
<1>5. CASE ReadEvents
  <2>1. /\ request = "calls" /\ request' = "answered" /\ row' = row
        /\ seen'.calls = seen.calls /\ seen'.subtasks = seen.subtasks
    BY <1>5 DEF ReadEvents, RequestInv, SeenRow
  <2>2. ShownInOrder
    BY <2>1 DEF ExplainedInv, Loading
  <2> QED
    BY <2>1, <2>2 DEF ShownInOrder
<1>6. CASE UNCHANGED <<request, row, seen>>
  BY <1>6 DEF ExplainedInv, ShownInOrder
<1>7. ~ReadGoal /\ ~Restart
  BY DEF ReadGoal, Restart, Loading
<1> QED
  BY <1>1, <1>2, <1>3, <1>4, <1>5, <1>6, <1>7, NoReadStep

LEMMA SeenFailedFinite ==
  ASSUME RequestInv
  PROVE  Cardinality(SeenFailed) \in Nat
<1>1. seen.subtasks \in Seq(SubtaskStatus)
  BY DEF RequestInv, SeenRow
<1>2. SeenFailed \subseteq 1 .. Len(seen.subtasks) /\ Len(seen.subtasks) \in Nat
  BY <1>1 DEF SeenFailed
<1>3. IsFiniteSet(1 .. Len(seen.subtasks))
  BY <1>2, FS_Interval
<1> QED
  BY <1>2, <1>3, FS_Subset, FS_CardinalityType

LEMMA ShownFailedStep ==
  ASSUME RowsTell, RowsTell', RequestInv, RowsGrow, ExplainedInv, [GNext]_gvars, request' \in Loading
  PROVE  ShownFailed'
<1>t. seen \in SeenRow /\ events \in Seq(EventRow) /\ Len(events) \in Nat
  BY DEF RequestInv, RowsTell
<1>1. CASE ReadSubtasks
  <2>1. /\ request' = "calls" /\ seen'.subtasks = subtasks /\ events' = events
        /\ subtasks \in Seq(SubtaskStatus)
    BY <1>t, <1>1 DEF ReadSubtasks, RowsTell, SeenRow, vars, db
  <2>2. SeenFailed' = FailedRows
    BY <2>1 DEF SeenFailed, FailedRows
  <2>3. Cardinality(FailedRows) <= Len(events) + 1
    BY DEF RowsTell
  <2> QED
    BY <2>1, <2>2, <2>3 DEF ShownFailed
<1>2. CASE ReadEvents
  <2>1. /\ request = "calls" /\ request' = "answered" /\ seen'.subtasks = seen.subtasks
        /\ seen'.events = events
    BY <1>t, <1>2 DEF ReadEvents, SeenRow
  <2>2. SeenFailed' = SeenFailed
    BY <2>1 DEF SeenFailed
  <2>3. ShownFailed
    BY <2>1 DEF ExplainedInv, Loading
  <2> QED
    BY <2>1, <2>2, <2>3 DEF ShownFailed
<1>3. ASSUME request \in Loading, request' \in Loading, seen'.subtasks = seen.subtasks,
             seen'.events = seen.events, request' = "answered" <=> request = "answered"
      PROVE  ShownFailed'
  <2>1. SeenFailed' = SeenFailed /\ ShownFailed
    BY <1>3 DEF SeenFailed, ExplainedInv
  <2>2. /\ Len(events) <= Len(events') /\ Len(events') \in Nat
        /\ Cardinality(SeenFailed) \in Nat
    BY <1>t, SeenFailedFinite DEF RowsGrow, RowsTell
  <2>3. ShownFailed' <=> Cardinality(SeenFailed) <=
               (IF request' = "answered" THEN Len(seen.events) ELSE Len(events')) + 1
    BY <1>3, <2>1 DEF ShownFailed
  <2>4. CASE request = "answered"
    BY <1>3, <2>1, <2>3, <2>4 DEF ShownFailed
  <2>5. CASE request # "answered"
    BY <1>3, <2>1, <2>2, <2>3, <2>5 DEF ShownFailed
  <2> QED
    BY <2>4, <2>5
<1>4. CASE ReadCalls /\ CallsOf(row) # {}
  BY <1>3, <1>4, CallLoaded DEF Loading
<1>5. CASE ReadCalls /\ CallsOf(row) = {}
  BY <1>3, <1>5 DEF ReadCalls, Loading
<1>6. CASE ReadVerdict
  BY <1>3, <1>6, VerdictLoaded DEF Loading
<1>7. CASE UNCHANGED <<request, row, seen>>
  BY <1>3, <1>7
<1>8. ~ReadGoal /\ ~Restart
  BY DEF ReadGoal, Restart, Loading
<1> QED
  BY <1>1, <1>2, <1>4, <1>5, <1>6, <1>7, <1>8, NoReadStep

\* A subtask the request is past shows its valid call, or had it loaded with the
\* verdict it has now.
LEMMA ShownDoneStep ==
  ASSUME RowsTell, RequestInv, RowsGrow, ExplainedInv, [GNext]_gvars, request' \in Loading
  PROVE  ShownDone'
<1>t. /\ row \in Nat \ {0} /\ seen \in SeenRow /\ seen.calls \in Seq(CallRow)
      /\ DOMAIN seen.calls = 1 .. Len(seen.calls) /\ Len(seen.calls) \in Nat
      /\ DOMAIN seen.subtasks = 1 .. Len(seen.subtasks) /\ Len(seen.subtasks) \in Nat
  BY DEF RequestInv, SeenRow
<1> DEFINE Valid(r) == \E i \in DOMAIN calls : calls[i].sub = r /\ calls[i].verdict = "valid"
           ValidNext(r) == \E i \in DOMAIN calls' : calls'[i].sub = r /\ calls'[i].verdict = "valid"
<1>g. \A r : Valid(r) => ValidNext(r)
  BY DEF RowsGrow
<1>1. CASE ReadSubtasks
  <2>1. /\ request = "goal" /\ seen'.subtasks = subtasks /\ calls' = calls /\ row' = 1
        /\ subtasks \in Seq(SubtaskStatus)
    BY <1>t, <1>1 DEF ReadSubtasks, RequestInv, SeenRow, RowsTell, vars, db
  <2>2. \A r \in DOMAIN subtasks : subtasks[r] = "done" => Valid(r) /\ ~ (r < 1)
    BY <2>1 DEF RowsTell, DoneOnCall
  <2> QED
    BY <2>1, <2>2 DEF ShownDone
<1>2. ASSUME ShownDone, seen'.subtasks = seen.subtasks,
             \A r \in DOMAIN seen.subtasks :
               seen.subtasks[r] = "done" /\ r < row' => ShownValid(r)'
      PROVE  ShownDone'
  BY <1>2, <1>g DEF ShownDone
<1>3. CASE ReadCalls /\ CallsOf(row) # {}
  <2>1. /\ request = "calls" /\ row' = row /\ seen'.subtasks = seen.subtasks /\ seen' \in SeenRow
        /\ Len(seen'.calls) = Len(seen.calls) + 1
        /\ \A k \in 1 .. Len(seen.calls) : seen'.calls[k] = seen.calls[k]
    BY <1>3, CallLoaded
  <2>2. ShownDone
    BY <2>1 DEF ExplainedInv, Loading
  <2>3. DOMAIN seen.calls \subseteq DOMAIN seen'.calls
    BY <1>t, <2>1 DEF SeenRow
  <2>4. \A r : ShownValid(r) => ShownValid(r)'
    BY <1>t, <2>1, <2>3 DEF ShownValid
  <2> QED
    BY <1>2, <2>1, <2>2, <2>4 DEF ShownDone
<1>4. CASE ReadCalls /\ CallsOf(row) = {}
  <2>1. request = "calls" /\ row' = row + 1 /\ seen' = seen
    BY <1>4 DEF ReadCalls
  <2>2. ShownDone
    BY <2>1 DEF ExplainedInv, Loading
  <2>3. \A r \in DOMAIN seen.subtasks : seen.subtasks[r] = "done" => r # row
    BY <1>4, <2>2 DEF ShownDone, CallsOf
  <2>4. ASSUME NEW r \in DOMAIN seen.subtasks, seen.subtasks[r] = "done", r < row'
        PROVE  ShownValid(r)'
    <3>1. r < row
      BY <1>t, <2>1, <2>3, <2>4
    <3>2. ShownValid(r)
      BY <2>2, <2>4, <3>1 DEF ShownDone
    <3> QED
      BY <2>1, <3>2 DEF ShownValid
  <2> QED
    BY <1>2, <2>1, <2>2, <2>4
<1>5. CASE ReadVerdict
  <2> DEFINE n == Len(seen.calls)
  <2>1. /\ request = "verdict" /\ row' = row + 1 /\ seen'.subtasks = seen.subtasks
        /\ seen' \in SeenRow /\ Len(seen'.calls) = n /\ n \in 1 .. n /\ seen.calls[n].sub = row
        /\ \A k \in 1 .. n : /\ seen'.calls[k].sub = seen.calls[k].sub
                             /\ k # n => seen'.calls[k] = seen.calls[k]
    BY <1>5, VerdictLoaded
  <2>2. PICK i \in DOMAIN calls :
          calls[i].sub = row /\ seen'.calls[n] = [seen.calls[n] EXCEPT !.verdict = calls[i].verdict]
    BY <1>5, VerdictLoaded
  <2>3. ShownDone /\ ShownInOrder
    BY <2>1 DEF ExplainedInv, Loading
  <2>4. DOMAIN seen'.calls = 1 .. n
    BY <2>1 DEF SeenRow
  <2>5. \A k \in DOMAIN calls : calls[k].sub = row => k = i
    BY <2>2, OneCall
  <2>6. ASSUME NEW r \in DOMAIN seen.subtasks, seen.subtasks[r] = "done", r < row'
        PROVE  ShownValid(r)'
    <3>1. CASE r = row
      <4>1. PICK k \in DOMAIN calls : calls[k].sub = row /\ calls[k].verdict = "valid"
        BY <2>3, <2>6, <3>1 DEF ShownDone
      <4>2. k = i
        BY <2>5, <4>1
      <4>3. seen.calls[n] \in CallRow
        BY <1>t, <2>1
      <4>4. seen'.calls[n].verdict = "valid" /\ seen'.calls[n].sub = row
        BY <2>1, <2>2, <4>1, <4>2, <4>3 DEF CallRow
      <4> QED
        BY <2>1, <2>4, <3>1, <4>4 DEF ShownValid
    <3>2. CASE r < row
      <4>1. PICK k \in 1 .. n : seen.calls[k].sub = r /\ seen.calls[k].verdict = "valid"
        BY <1>t, <2>3, <2>6, <3>2 DEF ShownDone, ShownValid
      <4>2. k # n
        BY <1>t, <2>1, <3>2, <4>1
      <4> QED
        BY <2>1, <2>4, <4>1, <4>2 DEF ShownValid
    <3> QED
      BY <1>t, <2>1, <2>6, <3>1, <3>2
  <2> QED
    BY <1>2, <2>1, <2>3, <2>6
<1>6. CASE ReadEvents
  <2>1. /\ request = "calls" /\ row' = row /\ seen'.calls = seen.calls
        /\ seen'.subtasks = seen.subtasks
    BY <1>t, <1>6 DEF ReadEvents, SeenRow
  <2>2. ShownDone
    BY <2>1 DEF ExplainedInv, Loading
  <2> QED
    BY <1>2, <2>1, <2>2 DEF ShownDone, ShownValid
<1>7. CASE UNCHANGED <<request, row, seen>>
  <2>1. ShownDone
    BY <1>7 DEF ExplainedInv
  <2> QED
    BY <1>2, <1>7, <2>1 DEF ShownDone, ShownValid
<1>8. ~ReadGoal /\ ~Restart
  BY DEF ReadGoal, Restart, Loading
<1> QED
  BY <1>1, <1>3, <1>4, <1>5, <1>6, <1>7, <1>8, NoReadStep

LEMMA ExplainedStep ==
  ASSUME RowsTell, RowsTell', RequestInv, RowsGrow, ExplainedInv, [GNext]_gvars
  PROVE  ExplainedInv'
  BY ShownOrderStep, ShownDoneStep, ShownFailedStep DEF ExplainedInv

\* A request that has seen a terminal status finds the rows of an ended goal.
LEMMA EndedWhileRead ==
  ASSUME Lifecycle, RequestInv, WholeInv, [GNext]_gvars,
         request' # "none", seen'.status \in Terminal
  PROVE  /\ goal.status \in Terminal /\ goal'.status \in Terminal
         /\ UNCHANGED <<subtasks, calls, events>>
<1>1. goal.status \in Terminal
  <2>1. CASE ReadGoal
    <3>1. seen'.status = goal.status
      BY <2>1 DEF ReadGoal, Unread
    <3> QED
      BY <3>1
  <2>2. CASE ReadSubtasks \/ ReadCalls \/ ReadVerdict \/ ReadEvents
    <3>1. seen \in SeenRow
      BY DEF RequestInv
    <3>2. request # "none"
      BY <2>2 DEF ReadSubtasks, ReadCalls, ReadVerdict, ReadEvents
    <3>3. seen'.status = seen.status
      BY <2>2, <3>1 DEF ReadSubtasks, ReadCalls, ReadVerdict, ReadEvents, SeenRow
    <3> QED
      BY <3>2, <3>3 DEF WholeInv
  <2>3. CASE UNCHANGED <<request, row, seen>>
    BY <2>3 DEF WholeInv
  <2>4. ~ Restart
    BY DEF Restart
  <2> QED
    BY <2>1, <2>2, <2>3, <2>4, NoReadStep
<1>2. /\ UNCHANGED <<subtasks, calls, events>>
      /\ goal' # goal => goal' = [goal EXCEPT !.status = "failed"]
  BY <1>1, TerminalStep
<1>3. goal'.status \in Terminal
  BY <1>1, <1>2 DEF Lifecycle
<1> QED
  BY <1>1, <1>2, <1>3

\* The call that is loaded is the next one of the trace.
LEMMA NextCallLoaded ==
  ASSUME RowsTell, RequestInv, ExplainedInv, WholeSoFar, request = "calls",
         NEW i \in DOMAIN calls, calls[i].sub = row
  PROVE  i = Len(seen.calls) + 1
<1> DEFINE n == Len(seen.calls)
<1>1. /\ row \in Nat /\ seen.calls \in Seq(CallRow) /\ DOMAIN seen.calls = 1 .. n /\ n \in Nat
      /\ DOMAIN calls = 1 .. Len(calls) /\ Len(calls) \in Nat
      /\ DOMAIN subtasks = 1 .. Len(subtasks) /\ Len(subtasks) \in Nat
  BY DEF RequestInv, SeenRow, RowsTell
<1>2. i > n
  <2>1. ASSUME i \in 1 .. n PROVE FALSE
    <3>1. seen.calls[i] = calls[i]
      BY <1>1, <2>1 DEF WholeSoFar
    <3>2. seen.calls[i].sub < row
      BY <1>1, <2>1 DEF ExplainedInv, ShownInOrder, Loading
    <3> QED
      BY <1>1, <3>1, <3>2
  <2> QED
    BY <1>1, <2>1
<1>3. ~ (n + 1 < i)
  <2>1. ASSUME n + 1 < i PROVE FALSE
    <3>1. n + 1 \in 1 .. Len(calls) /\ i \in 1 .. Len(calls)
      BY <1>1, <2>1
    <3>2. calls[n + 1].sub < row
      BY <2>1, <3>1 DEF RowsTell, CallsInOrder
    <3>3. n + 1 <= n
      BY <1>1, <3>1, <3>2 DEF WholeSoFar
    <3> QED
      BY <1>1, <3>3
  <2> QED
    BY <2>1
<1> QED
  BY <1>1, <1>2, <1>3

LEMMA WholeSoFarStep ==
  ASSUME RowsTell, RequestInv, ExplainedInv, [GNext]_gvars, request' \in Loading,
         UNCHANGED <<subtasks, calls, events>>, request \in Loading => WholeSoFar
  PROVE  WholeSoFar'
<1> DEFINE n == Len(seen.calls)
<1>t. /\ row \in Nat \ {0} /\ seen \in SeenRow /\ seen.calls \in Seq(CallRow)
      /\ DOMAIN seen.calls = 1 .. n /\ n \in Nat
      /\ DOMAIN calls = 1 .. Len(calls) /\ Len(calls) \in Nat /\ calls \in Seq(CallRow)
      /\ DOMAIN subtasks = 1 .. Len(subtasks) /\ Len(subtasks) \in Nat
      /\ \A i \in DOMAIN calls : calls[i].sub \in Nat \ {0}
  BY DEF RequestInv, SeenRow, RowsTell
<1>1. CASE ReadSubtasks
  <2>1. /\ request = "goal" /\ seen'.subtasks = subtasks /\ seen'.calls = <<>> /\ row' = 1
    BY <1>t, <1>1 DEF ReadSubtasks, RequestInv, SeenRow
  <2> QED
    BY <1>t, <2>1 DEF WholeSoFar
<1>2. CASE ReadCalls /\ CallsOf(row) # {}
  <2>1. /\ request = "calls" /\ request' = "verdict" /\ row' = row
        /\ seen'.subtasks = seen.subtasks /\ seen' \in SeenRow /\ Len(seen'.calls) = n + 1
        /\ \A k \in 1 .. n : seen'.calls[k] = seen.calls[k]
    BY <1>2, CallLoaded
  <2>2. WholeSoFar
    BY <2>1 DEF Loading
  <2>3. PICK i \in DOMAIN calls :
          calls[i].sub = row /\ seen'.calls[n + 1] = [calls[i] EXCEPT !.verdict = "none"]
    BY <1>2, <2>1, CallLoaded
  <2>4. i = n + 1
    BY <2>1, <2>2, <2>3, NextCallLoaded
  <2>5. DOMAIN seen'.calls = 1 .. n + 1
    BY <2>1 DEF SeenRow
  <2>6. \A k \in 1 .. n : seen'.calls[k] = calls[k]
    BY <1>t, <2>1, <2>2 DEF WholeSoFar
  <2>7. \A k \in 1 .. n + 1 :
          IF k = n + 1 THEN seen'.calls[k] = [calls[k] EXCEPT !.verdict = "none"]
                       ELSE seen'.calls[k] = calls[k]
    BY <1>t, <2>3, <2>4, <2>6, SMTT(20)
  <2>8. \A k \in DOMAIN calls : calls[k].sub < row => k <= n + 1
    BY <1>t, <2>2 DEF WholeSoFar
  <2>9. n + 1 <= Len(calls) /\ seen.subtasks = subtasks
    BY <1>t, <2>2, <2>3, <2>4 DEF WholeSoFar
  <2> QED
    BY <2>1, <2>5, <2>7, <2>8, <2>9 DEF WholeSoFar
<1>3. CASE ReadCalls /\ CallsOf(row) = {}
  <2>1. request = "calls" /\ request' = "calls" /\ row' = row + 1 /\ seen' = seen
    BY <1>3 DEF ReadCalls
  <2>2. WholeSoFar
    BY <2>1 DEF Loading
  <2>3. \A k \in DOMAIN calls : calls[k].sub < row + 1 => k <= n
    BY <1>t, <1>3, <2>2 DEF WholeSoFar, CallsOf
  <2> QED
    BY <2>1, <2>2, <2>3 DEF WholeSoFar
<1>4. CASE ReadVerdict
  <2>1. /\ request = "verdict" /\ request' = "calls" /\ row' = row + 1
        /\ seen'.subtasks = seen.subtasks /\ seen' \in SeenRow /\ Len(seen'.calls) = n
        /\ n \in 1 .. n /\ seen.calls[n].sub = row
        /\ \A k \in 1 .. n : k # n => seen'.calls[k] = seen.calls[k]
    BY <1>4, VerdictLoaded
  <2>2. WholeSoFar
    BY <2>1 DEF Loading
  <2>3. PICK i \in DOMAIN calls :
          calls[i].sub = row /\ seen'.calls[n] = [seen.calls[n] EXCEPT !.verdict = calls[i].verdict]
    BY <1>4, VerdictLoaded
  <2>4. n \in DOMAIN calls /\ seen.calls[n] = [calls[n] EXCEPT !.verdict = "none"]
    BY <1>t, <2>1, <2>2, SMTT(20) DEF WholeSoFar
  <2>5. calls[n] \in CallRow
    BY <1>t, <2>4
  <2>6. calls[n].sub = row
    BY <2>1, <2>4, <2>5 DEF CallRow
  <2>7. i = n
    BY <2>3, <2>4, <2>6, OneCall
  <2>8. seen'.calls[n] = calls[n]
    BY <2>3, <2>4, <2>5, <2>7 DEF CallRow
  <2>9. \A k \in 1 .. n : seen'.calls[k] = calls[k]
    BY <1>t, <2>1, <2>2, <2>8 DEF WholeSoFar
  <2>10. \A k \in DOMAIN calls : calls[k].sub < row + 1 => k <= n
    <3>1. ASSUME NEW k \in DOMAIN calls, calls[k].sub < row + 1 PROVE k <= n
      <4>1. CASE calls[k].sub = row
        <5>1. k = n
          BY <2>4, <2>6, <4>1, OneCall
        <5> QED
          BY <1>t, <5>1
      <4>2. CASE calls[k].sub < row
        BY <2>2, <4>2 DEF WholeSoFar
      <4> QED
        BY <1>t, <3>1, <4>1, <4>2
    <3> QED
      BY <3>1
  <2>11. DOMAIN seen'.calls = 1 .. n
    BY <2>1 DEF SeenRow
  <2> QED
    BY <2>1, <2>2, <2>9, <2>10, <2>11 DEF WholeSoFar
<1>5. CASE ReadEvents
  <2>1. /\ request = "calls" /\ request' = "answered" /\ row' = row
        /\ seen'.calls = seen.calls /\ seen'.subtasks = seen.subtasks
    BY <1>t, <1>5 DEF ReadEvents, SeenRow
  <2>2. WholeSoFar
    BY <2>1 DEF Loading
  <2> QED
    BY <2>1, <2>2 DEF WholeSoFar
<1>6. CASE UNCHANGED <<request, row, seen>>
  BY <1>6 DEF WholeSoFar
<1>7. ~ReadGoal /\ ~Restart
  BY DEF ReadGoal, Restart, Loading
<1> QED
  BY <1>1, <1>2, <1>3, <1>4, <1>5, <1>6, <1>7, NoReadStep

LEMMA WholeStep ==
  ASSUME Lifecycle, RowsTell, RequestInv, ExplainedInv, WholeInv, [GNext]_gvars
  PROVE  WholeInv'
<1> SUFFICES ASSUME request' # "none", seen'.status \in Terminal
             PROVE  /\ goal'.status \in Terminal
                    /\ request' \in Loading => WholeSoFar'
                    /\ request' = "answered" => seen'.events = events'
  BY DEF WholeInv
<1>1. goal.status \in Terminal /\ goal'.status \in Terminal /\ UNCHANGED <<subtasks, calls, events>>
  BY EndedWhileRead
<1>2. ASSUME request' \in Loading
      PROVE  request \in Loading \cup {"goal"} /\ seen'.status = seen.status
  <2>1. seen \in SeenRow /\ request \in {"none", "goal"} \cup Loading
    BY DEF RequestInv
  <2>2. CASE ReadSubtasks \/ ReadCalls \/ ReadVerdict \/ ReadEvents
    BY <2>1, <2>2 DEF ReadSubtasks, ReadCalls, ReadVerdict, ReadEvents, SeenRow, Loading
  <2>3. CASE UNCHANGED <<request, row, seen>>
    BY <1>2, <2>3
  <2>4. ~ ReadGoal /\ ~ Restart
    BY <1>2 DEF ReadGoal, Restart, Loading
  <2> QED
    BY <2>2, <2>3, <2>4, NoReadStep
<1>3. ASSUME request' \in Loading PROVE WholeSoFar'
  <2>1. request \in Loading => WholeSoFar
    BY <1>2, <1>3 DEF WholeInv, Loading
  <2> QED
    BY <1>1, <1>3, <2>1, WholeSoFarStep
<1>4. ASSUME request' = "answered" PROVE seen'.events = events'
  <2>1. CASE ReadEvents
    BY <1>1, <2>1 DEF ReadEvents, RequestInv, SeenRow
  <2>2. CASE UNCHANGED <<request, row, seen>>
    BY <1>1, <1>4, <2>2 DEF WholeInv
  <2>3. ReadEvents \/ UNCHANGED <<request, row, seen>>
    BY <1>4, NoReadStep DEF ReadGoal, ReadSubtasks, ReadCalls, ReadVerdict, Restart
  <2> QED
    BY <2>1, <2>2, <2>3
<1> QED
  BY <1>1, <1>3, <1>4

\* ReaderInv is the invariant of the request, Lifecycle and Settling those of
\* the thread it reads beside.
LEMMA ReaderInit == GInit => Lifecycle /\ ReaderInv
<1> SUFFICES ASSUME GInit PROVE Lifecycle /\ ReaderInv
  OBVIOUS
<1>1. request = "none" /\ row = 1 /\ seen = Unread
  BY DEF GInit
<1>2. RequestInv
  BY <1>1 DEF RequestInv, Unread, SeenRow, GoalStatus
<1>3. ExplainedInv /\ WholeInv
  BY <1>1 DEF ExplainedInv, WholeInv, Loading
<1>4. Lifecycle
  BY DEF GInit, NewGoal, Lifecycle
<1> QED
  BY <1>2, <1>3, <1>4, RowsTellInit DEF ReaderInv

LEMMA ReaderStep ==
  ASSUME Settling, Lifecycle, ReaderInv, [GNext]_gvars
  PROVE  Lifecycle' /\ ReaderInv'
<1>1. Lifecycle'
  BY LifecycleStep
<1>2. RowsTell' /\ RowsGrow
  BY RowsStep DEF ReaderInv
<1>3. RequestInv'
  BY <1>2, RequestStep DEF ReaderInv
<1>4. ExplainedInv'
  BY <1>2, ExplainedStep DEF ReaderInv
<1>5. WholeInv'
  BY WholeStep DEF ReaderInv
<1> QED
  BY <1>1, <1>2, <1>3, <1>4, <1>5 DEF ReaderInv

THEOREM ReaderInvariant == GSpec => []ReaderInv
<1>1. GInit => Settling /\ Lifecycle /\ ReaderInv
  BY SettlingInit, ReaderInit
<1>2. (Settling /\ Lifecycle /\ ReaderInv) /\ [GNext]_gvars
        => (Settling /\ Lifecycle /\ ReaderInv)'
  BY SettlingStep, ReaderStep
<1> QED
  BY <1>1, <1>2, PTL DEF GSpec

\* Once an answer says the goal has ended, it holds all the rows there are.
LEMMA AnswerWhole == ReaderInv => TerminalIsWhole
<1> SUFFICES ASSUME ReaderInv, request = "answered", seen.status \in Terminal
             PROVE  seen.subtasks = subtasks /\ seen.calls = calls /\ seen.events = events
  BY DEF TerminalIsWhole
<1> DEFINE n == Len(seen.calls)
<1>1. WholeSoFar /\ seen.events = events
  BY DEF ReaderInv, WholeInv, Loading
<1>2. /\ row \in Nat /\ row > Len(seen.subtasks) /\ seen.calls \in Seq(CallRow)
      /\ calls \in Seq(CallRow) /\ Len(calls) \in Nat /\ n \in Nat
      /\ subtasks \in Seq(SubtaskStatus) /\ Len(subtasks) \in Nat
  BY DEF ReaderInv, RequestInv, RowsTell, SeenRow
<1>3. seen.subtasks = subtasks /\ n <= Len(calls)
  BY <1>1 DEF WholeSoFar
<1>4. \A i \in 1 .. Len(calls) : calls[i].sub \in 1 .. Len(subtasks)
  BY <1>2 DEF ReaderInv, RowsTell
<1>5. \A i \in 1 .. Len(calls) : i <= n
  BY <1>1, <1>2, <1>3, <1>4 DEF WholeSoFar
<1>6. n = Len(calls)
  BY <1>2, <1>3, <1>5
<1>7. \A i \in 1 .. n : seen.calls[i] = calls[i]
  BY <1>1, <1>2 DEF WholeSoFar
<1> QED
  BY <1>1, <1>2, <1>3, <1>6, <1>7, SeqEqual

\* A trace that says the goal has ended is its whole trace (get_trace), whatever
\* the loop wrote between the queries, for every budget, plan and tool.
THEOREM TracesAreWhole == GSpec => []TerminalIsWhole
  BY ReaderInvariant, AnswerWhole, PTL

\* A trace read in the middle of a run shows for every subtask that is done its
\* valid call, no call without its subtask, and an event for every failure but one.
THEOREM TracesExplain == GSpec => []AnswersExplained
<1>1. ReaderInv => AnswersExplained
  <2> SUFFICES ASSUME ReaderInv, request = "answered" PROVE
         /\ \A r \in DOMAIN seen.subtasks : seen.subtasks[r] = "done" => ShownValid(r)
         /\ \A i \in DOMAIN seen.calls : seen.calls[i].sub \in DOMAIN seen.subtasks
         /\ \A i, j \in DOMAIN seen.calls : i < j => seen.calls[i].sub < seen.calls[j].sub
         /\ Cardinality(SeenFailed) <= Len(seen.events) + 1
    BY DEF AnswersExplained, SeenFailed
  <2>1. ShownInOrder /\ ShownDone /\ ShownFailed
    BY DEF ReaderInv, ExplainedInv, Loading
  <2>2. \A r \in DOMAIN seen.subtasks : r < row
    BY DEF ReaderInv, RequestInv, SeenRow
  <2> QED
    BY <2>1, <2>2 DEF ShownInOrder, ShownDone, ShownFailed
<1> QED
  BY <1>1, ReaderInvariant, PTL
=============================================================================
