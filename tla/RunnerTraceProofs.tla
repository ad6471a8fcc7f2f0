------------------------- MODULE RunnerTraceProofs --------------------------
(***************************************************************************)
(* Proofs about the trace a run leaves, from the inductive invariant of    *)
(* RunnerProofs: Runner implements GoalTrace, the totals of an ended goal  *)
(* are what its rows add up to, and the planner is asked with what the     *)
(* rows say.                                                               *)
(***************************************************************************)
EXTENDS RunnerProofs, FiniteSetTheorems

\* Away from a running tool every call there is has been settled.
LEMMA SettledCalls ==
  ASSUME TypeOK, CallRows, pc \notin {"invoking", "raised", "crashed"}
  PROVE  Trace!Settled
  <1>1. DOMAIN calls = 1 .. Len(calls)
    BY DEF TypeOK
  <1> QED
    BY <1>1 DEF CallRows, CallsSound, CallSound, OpenCall, Trace!Settled, Trace!Open

\* The loop's row, before its call, is one no call has reached.
LEMMA RowUntouched ==
  ASSUME TypeOK, Position, CallRows, Admitted
  PROVE  Row \in DOMAIN subtasks /\ Trace!Untouched(Row)
  <1>1. DOMAIN calls = 1 .. Len(calls) /\ DOMAIN subtasks = 1 .. Len(subtasks)
    BY DEF TypeOK
  <1>2. Row \in 1 .. Len(subtasks)
    BY RowExists DEF Admitted
  <1>3. subtasks[Row] = "pending"
    BY <1>2 DEF Position, Admitted
  <1>4. \A i \in DOMAIN calls : calls[i].sub < Row
    BY <1>1 DEF CallRows, CallsSound, CallSound, Admitted
  <1> QED
    BY <1>1, <1>2, <1>3, <1>4 DEF Trace!Untouched

\* Every step of the loop is a step of the trace, or changes no row.
LEMMA TraceStep ==
  ASSUME IInv, [Next]_vars
  PROVE  [Trace!Next]_Trace!trace
  <1> USE DEF IInv
  <1>t. /\ DOMAIN calls = 1 .. Len(calls) /\ DOMAIN subtasks = 1 .. Len(subtasks)
        /\ Len(calls) \in Nat /\ Len(subtasks) \in Nat /\ Len(events) \in Nat
        /\ goal \in GoalRow /\ calls \in Seq(CallRow) /\ subtasks \in Seq(SubtaskStatus)
    BY DEF TypeOK
  <1>n. ASSUME NEW i \in 1 .. Len(calls) PROVE calls # <<>>
    BY <1>t
  <1>1. CASE CreateGoal
    <2>1. goal.status = "absent" /\ goal'.status = "pending" /\ UNCHANGED <<subtasks, calls, events>>
      BY <1>1 DEF CreateGoal, Control, NewGoal
    <2> QED
      BY <2>1 DEF Trace!Next, Trace!Create
  <1>2. CASE MarkRunning
    <2>1. goal.status = "pending" /\ goal'.status = "running" /\ UNCHANGED <<subtasks, calls, events>>
      BY <1>2, <1>t DEF MarkRunning, GoalRow
    <2> QED
      BY <2>1 DEF Trace!Next, Trace!Start
  <1>3. CASE Aborts
    <2>1. PICK reason, c : Abort(reason, c) /\ pc \in Running
      BY <1>3, AbortSteps
    <2>2. goal.status = "running" /\ goal'.status = "aborted" /\ UNCHANGED <<subtasks, calls, events>>
      BY <2>1, <1>t DEF Abort, GoalRow, Control
    <2>3. pc \notin {"invoking", "invalid", "valid", "raised", "crashed"}
      BY <1>3 DEF Aborts, WallClockExceeded, ReplansExceeded, PlannerFails, EmptyPlan, PlanTooDear,
         StepsExceeded, CostExceeded, GiveUp, PlanExhausted
    <2>4. Trace!Settled
      BY <2>3, SettledCalls
    <2>5. \A r \in DOMAIN subtasks : subtasks[r] # "running"
      BY <2>3, <1>t DEF Position
    <2> QED
      BY <2>2, <2>4, <2>5 DEF Trace!Next, Trace!Abort
  <1>4. CASE Succeed
    <2>1. pc = "finished" /\ goal'.status = "succeeded" /\ UNCHANGED <<subtasks, calls, events>>
      BY <1>4, <1>t DEF Succeed, GoalRow
    <2>2. goal.status = "running"
      BY <2>1 DEF Control, Running
    <2>3. Trace!Settled
      BY <2>1, SettledCalls
    <2>4. \A r \in DOMAIN subtasks : subtasks[r] # "running"
      BY <2>1, <1>t DEF Position
    <2>5. /\ Len(calls) \in 1 .. Len(calls)
          /\ calls[Len(calls)].tool = Finish /\ calls[Len(calls)].verdict = "valid"
      BY <2>1, <1>t DEF HeldCall, AtCall, LastCall
    <2>6. calls # <<>>
      BY <2>5, <1>n
    <2> QED
      BY <2>1, <2>2, <2>3, <2>4, <2>5, <2>6 DEF Trace!Next, Trace!Succeed
  <1>5. CASE AdoptPlan
    <2>1. pc = "planning" /\ UNCHANGED <<goal, calls, events>>
      BY <1>5 DEF AdoptPlan
    <2>2. goal.status = "running"
      BY <2>1 DEF Control, Running
    <2>3. Trace!Settled
      BY <2>1, SettledCalls
    <2>4. /\ subtasks' \in Seq(SubtaskStatus) /\ Len(subtasks') > Len(subtasks)
          /\ \A r \in 1 .. Len(subtasks) : subtasks'[r] = subtasks[r]
          /\ \A r \in Len(subtasks) + 1 .. Len(subtasks') : subtasks'[r] = "pending"
      BY <1>5, <1>t, PlanAdopted
    <2>5. subtasks' = [r \in 1 .. Len(subtasks') |->
                         IF r <= Len(subtasks) THEN subtasks[r] ELSE "pending"]
      <3>1. Len(subtasks') \in Nat /\ subtasks' = [r \in 1 .. Len(subtasks') |-> subtasks'[r]]
        BY <2>4
      <3>2. \A r \in 1 .. Len(subtasks') :
              subtasks'[r] = IF r <= Len(subtasks) THEN subtasks[r] ELSE "pending"
        BY <2>4, <3>1, <1>t
      <3> QED
        BY <3>1, <3>2
    <2> QED
      BY <2>1, <2>2, <2>3, <2>4, <2>5 DEF Trace!Next, Trace!Plan
  <1>6. CASE SelectTool
    <2>1. Admitted /\ pc = "subtask" /\ UNCHANGED <<goal, subtasks, events>>
      BY <1>6 DEF SelectTool, Admitted
    <2>2. goal.status = "running"
      BY <2>1 DEF Control, Running
    <2>3. Trace!Settled
      BY <2>1, SettledCalls
    <2>4. Row \in DOMAIN subtasks /\ Trace!Untouched(Row)
      BY <2>1, RowUntouched
    <2>5. \E t \in Tools : calls' = Append(calls, [sub |-> Row, tool |-> t, status |-> "ok",
                                                    verdict |-> "none"])
      BY <1>6 DEF SelectTool, NewCall
    <2> QED
      BY <2>1, <2>2, <2>3, <2>4, <2>5 DEF Trace!Next, Trace!Call
  <1>7. CASE SelectorFails
    <2>1. Admitted /\ pc = "subtask" /\ UNCHANGED <<goal, calls, events>>
      BY <1>7 DEF SelectorFails, Admitted
    <2>2. goal.status = "running"
      BY <2>1 DEF Control, Running
    <2>3. Trace!Settled
      BY <2>1, SettledCalls
    <2>4. Row \in DOMAIN subtasks /\ Trace!Untouched(Row)
      BY <2>1, RowUntouched
    <2> QED
      BY <1>7, <2>1, <2>2, <2>3, <2>4 DEF SelectorFails, Trace!Next, Trace!Skip
  <1>8. CASE RecordNoTool \/ RecordReplan
    <2> DEFINE c == IF pc = "record" THEN Len(calls) ELSE 0
    <2>1. pc \in {"noTool", "record"} /\ UNCHANGED <<goal, subtasks, calls>>
      BY <1>8 DEF RecordNoTool, RecordReplan
    <2>2. goal.status = "running"
      BY <2>1 DEF Control, Running
    <2>3. Trace!Settled
      BY <2>1, SettledCalls
    <2>4. events' = Append(events, [idx |-> Len(events) + 1, call |-> c, kind |-> lastFailure])
      BY <1>8 DEF RecordNoTool, RecordReplan, RecordEvent, Counters
    <2>5. lastFailure \in FailureKind
      BY <1>8, EventRecorded
    <2>6. c # 0 => /\ CallFailed(c) /\ subtasks[calls[c].sub] = "failed"
      <3>1. CASE pc = "record"
        <4>1. CallFailed(Len(calls)) /\ calls[Len(calls)].sub = Row /\ pos <= Len(plan)
          BY <3>1 DEF HeldCall, AtCall, LastCall, Position
        <4>2. subtasks[Row] = "failed"
          BY <3>1, <4>1, RowExists DEF Position
        <4> QED
          BY <4>1, <4>2, <3>1
      <3> QED
        BY <3>1
    <2>7. c # 0 => Trace!Failed(calls[c])
      BY <2>6 DEF CallFailed, Trace!Failed
    <2> QED
      BY <2>1, <2>2, <2>3, <2>4, <2>5, <2>6, <2>7 DEF Trace!Next, Trace!Explain
  <1>9. CASE ToolTimesOut \/ ToolErrors \/ ToolReturns
    <2>1. pc = "invoking" /\ UNCHANGED <<goal, events>>
      BY <1>9 DEF ToolTimesOut, ToolErrors, ToolFails, ToolReturns
    <2>2. goal.status = "running"
      BY <2>1 DEF Control, Running
    <2>3. Len(calls) \in 1 .. Len(calls) /\ calls[Len(calls)].sub = Row /\ OpenCall(Len(calls))
      BY <2>1, <1>t DEF HeldCall, AtCall, LastCall
    <2>4. calls # <<>> /\ Trace!Open(calls[Len(calls)])
      BY <2>3, <1>n DEF OpenCall, Trace!Open
    <2>5. CASE ToolTimesOut \/ ToolErrors
      BY <2>1, <2>2, <2>3, <2>4, <2>5 DEF ToolTimesOut, ToolErrors, ToolFails, Trace!Next, Trace!Fail
    <2>6. CASE ToolReturns
      <3>1. \E v \in {"valid"} \cup InvalidKinds : calls' = [calls EXCEPT ![Len(calls)].verdict = v]
        BY <2>6 DEF ToolReturns, Verdicts
      <3> QED
        BY <2>1, <2>2, <2>3, <2>4, <2>6, <3>1 DEF ToolReturns, Trace!Next, Trace!Judge
    <2> QED
      BY <1>9, <2>5, <2>6
  <1>10. CASE RejectOutput \/ AcceptOutput
    <2>1. pc \in {"invalid", "valid"} /\ UNCHANGED <<goal, calls, events>>
      BY <1>10 DEF RejectOutput, AcceptOutput
    <2>2. goal.status = "running"
      BY <2>1 DEF Control, Running
    <2>3. Trace!Settled
      BY <2>1, SettledCalls
    <2>4. /\ Len(calls) \in 1 .. Len(calls) /\ calls[Len(calls)].sub = Row /\ pos <= Len(plan)
          /\ pc = "valid" <=> calls[Len(calls)].verdict = "valid"
      BY <2>1, <1>t DEF HeldCall, AtCall, LastCall, Position, InvalidKinds
    <2>5. subtasks[Row] = "running"
      BY <2>1, <2>4, RowExists DEF Position
    <2>6. subtasks' = [subtasks EXCEPT ![Row] =
                         IF calls[Len(calls)].verdict = "valid" THEN "done" ELSE "failed"]
      BY <1>10, <2>4 DEF RejectOutput, AcceptOutput
    <2>7. calls # <<>>
      BY <2>4, <1>n
    <2> QED
      BY <2>1, <2>2, <2>3, <2>4, <2>5, <2>6, <2>7 DEF Trace!Next, Trace!Close
  <1>11. CASE MissingGoal \/ CallPlanner \/ ProviderRaises \/ ArgumentsRejected \/ Crash \/ Tick
              \/ Stopped \/ UNCHANGED vars
    <2>1. UNCHANGED <<goal, subtasks, calls, events>>
      BY <1>11 DEF MissingGoal, CallPlanner, ProviderRaises, ArgumentsRejected, Crash, Raise, Tick,
         Stopped, vars, db
    <2> QED
      BY <2>1 DEF Trace!trace
  <1> QED
    BY <1>1, <1>2, <1>3, <1>4, <1>5, <1>6, <1>7, <1>8, <1>9, <1>10, <1>11
       DEF Next, Step, Planning, Selecting, Invoking, Aborts

\* Runner implements GoalTrace: the trace of a goal only grows, calls are
\* settled once and in order, and nothing changes after the goal has ended.
THEOREM RunnerImplementsTrace == Spec => TraceOnlyGrows
  <1>1. Init => Trace!Init
    BY DEF Init, NewGoal, Trace!Init
  <1>2. IInv /\ [Next]_vars => [Trace!Next]_Trace!trace
    BY TraceStep
  <1> QED
    BY <1>1, <1>2, InductiveInvariant, PTL DEF Spec, TraceOnlyGrows, Trace!Spec
-----------------------------------------------------------------------------
(* What the rows add up to. *)

FailedRows == {r \in 1 .. Len(subtasks) : subtasks[r] = "failed"}
DoneRows   == {r \in 1 .. Len(subtasks) : subtasks[r] = "done"}

\* A subtask fails between the call or the selection and its event.
FailStep ==
  /\ SelectorFails \/ ToolTimesOut \/ ToolErrors \/ RejectOutput
  /\ Row \in Nat /\ Row \notin FailedRows
  /\ FailedRows' = FailedRows \cup {Row} /\ DoneRows' = DoneRows

\* A subtask is done after all that were done before it.
DoneStep ==
  /\ AcceptOutput
  /\ Row \in Nat /\ \A r \in DoneRows : r < Row
  /\ FailedRows' = FailedRows /\ DoneRows' = DoneRows \cup {Row}

\* The other steps leave both sets alone.
QuietStep ==
  /\ [Next]_vars
  /\ ~ (SelectorFails \/ ToolTimesOut \/ ToolErrors \/ RejectOutput \/ AcceptOutput)
  /\ FailedRows' = FailedRows /\ DoneRows' = DoneRows

\* A row at the loop's position that gets a status, and was neither done nor
\* failed, is new in the set of that status and in no other.
LEMMA RowSettled ==
  ASSUME TypeOK, Position, pos <= Len(plan), subtasks[Row] \in {"pending", "running"},
         NEW s \in SubtaskStatus, subtasks' = [subtasks EXCEPT ![Row] = s]
  PROVE  /\ Row \in Nat /\ Row \notin FailedRows /\ \A r \in DoneRows : r < Row
         /\ FailedRows' = IF s = "failed" THEN FailedRows \cup {Row} ELSE FailedRows
         /\ DoneRows' = IF s = "done" THEN DoneRows \cup {Row} ELSE DoneRows
  <1>1. Row \in 1 .. Len(subtasks) /\ Len(subtasks) \in Nat
    BY RowExists DEF TypeOK
  <1>2. /\ Len(subtasks') = Len(subtasks) /\ subtasks'[Row] = s
        /\ \A r \in 1 .. Len(subtasks) : r # Row => subtasks'[r] = subtasks[r]
    BY SetSubtask
  <1>3. \A r \in 1 .. Len(subtasks) : r > Row => subtasks[r] = "pending"
    BY DEF Position
  <1>4. \A r \in DoneRows : r < Row
    BY <1>1, <1>3 DEF DoneRows
  <1>5. FailedRows' = IF s = "failed" THEN FailedRows \cup {Row} ELSE FailedRows
    BY <1>1, <1>2 DEF FailedRows
  <1>6. DoneRows' = IF s = "done" THEN DoneRows \cup {Row} ELSE DoneRows
    BY <1>1, <1>2 DEF DoneRows
  <1> QED
    BY <1>1, <1>4, <1>5, <1>6 DEF FailedRows

LEMMA RowSteps ==
  ASSUME IInv, [Next]_vars
  PROVE  FailStep \/ DoneStep \/ QuietStep
  <1> USE DEF IInv
  <1>1. CASE SelectorFails \/ ToolTimesOut \/ ToolErrors \/ RejectOutput
    <2>1. /\ pc \in {"subtask", "invoking", "invalid"} /\ pos <= Len(plan)
          /\ subtasks' = [subtasks EXCEPT ![Row] = "failed"]
      BY <1>1 DEF SelectorFails, Admitted, ToolTimesOut, ToolErrors, ToolFails, RejectOutput,
         Position, AtCall
    <2>2. subtasks[Row] \in {"pending", "running"} /\ "failed" \in SubtaskStatus
      BY <2>1, RowExists DEF Position, SubtaskStatus
    <2> QED
      BY <1>1, <2>1, <2>2, RowSettled DEF FailStep
  <1>2. CASE AcceptOutput
    <2>1. /\ pc = "valid" /\ pos <= Len(plan)
          /\ subtasks' = [subtasks EXCEPT ![Row] = "done"]
      BY <1>2 DEF AcceptOutput, Position, AtCall
    <2>2. subtasks[Row] \in {"pending", "running"} /\ "done" \in SubtaskStatus
      BY <2>1, RowExists DEF Position, SubtaskStatus
    <2> QED
      BY <1>2, <2>1, <2>2, RowSettled DEF DoneStep
  <1>3. CASE ~ (SelectorFails \/ ToolTimesOut \/ ToolErrors \/ RejectOutput \/ AcceptOutput)
    <2>1. CASE AdoptPlan
      <3>1. /\ subtasks' \in Seq(SubtaskStatus) /\ Len(subtasks') > Len(subtasks)
            /\ \A r \in 1 .. Len(subtasks) : subtasks'[r] = subtasks[r]
            /\ \A r \in Len(subtasks) + 1 .. Len(subtasks') : subtasks'[r] = "pending"
            /\ Len(subtasks) \in Nat
        BY <2>1, PlanAdopted DEF TypeOK
      <3>2. Len(subtasks') \in Nat
        BY <3>1
      <3>3. \A r \in 1 .. Len(subtasks') :
              \/ r \in 1 .. Len(subtasks) /\ subtasks'[r] = subtasks[r]
              \/ r \notin 1 .. Len(subtasks) /\ subtasks'[r] = "pending"
        BY <3>1, <3>2
      <3>4. 1 .. Len(subtasks) \subseteq 1 .. Len(subtasks')
        BY <3>1, <3>2
      <3>5. FailedRows' = FailedRows
        BY <3>3, <3>4 DEF FailedRows
      <3>6. DoneRows' = DoneRows
        BY <3>3, <3>4 DEF DoneRows
      <3> QED
        BY <1>3, <3>5, <3>6 DEF QuietStep
    <2>2. CASE ToolReturns
      <3>1. /\ pc = "invoking" /\ pos <= Len(plan)
            /\ subtasks' = [subtasks EXCEPT ![Row] = "running"]
        BY <2>2 DEF ToolReturns, Position, AtCall
      <3>2. subtasks[Row] \in {"pending", "running"} /\ "running" \in SubtaskStatus
        BY <3>1, RowExists DEF Position, SubtaskStatus
      <3> QED
        BY <1>3, <3>1, <3>2, RowSettled DEF QuietStep
    <2>3. CASE UNCHANGED subtasks
      BY <1>3, <2>3 DEF QuietStep, FailedRows, DoneRows
    <2>4. AdoptPlan \/ ToolReturns \/ UNCHANGED subtasks
      <3>1. CASE Aborts
        BY <3>1, AbortSteps DEF Abort
      <3> QED
        BY <1>3, <3>1 DEF Next, Step, Planning, Selecting, Invoking, Aborts, CreateGoal, MissingGoal,
           MarkRunning, CallPlanner, SelectTool, RecordNoTool, RecordReplan, Succeed, ProviderRaises,
           ArgumentsRejected, Raise, Crash, Tick, Stopped, vars, db
    <2> QED
      BY <2>1, <2>2, <2>3, <2>4
  <1> QED
    BY <1>1, <1>2, <1>3
-----------------------------------------------------------------------------
(* The totals of the goal. *)

\* Each failed row has its event, but for the one whose event is about to be
\* recorded; an ended goal holds the counters of the loop.
TotalsInv ==
  /\ IsFiniteSet(FailedRows)
  /\ pc \notin {"raised", "crashed"} =>
       Cardinality(FailedRows) = IF pc \in {"noTool", "record"} THEN replans + 1 ELSE replans
  /\ pc \in {"succeeded", "aborted"} =>
       goal.steps = steps /\ goal.replans = replans /\ goal.cost = cost

LEMMA TotalsInit == Init => TotalsInv
  <1> SUFFICES ASSUME Init PROVE TotalsInv
    OBVIOUS
  <1>1. FailedRows = {} /\ replans = 0 /\ pc \in {"create", "start"}
    BY DEF Init, FailedRows
  <1> QED
    BY <1>1, FS_EmptySet DEF TotalsInv

LEMMA TotalsStep == IInv /\ TotalsInv /\ [Next]_vars => TotalsInv'
  <1> SUFFICES ASSUME IInv, TotalsInv, [Next]_vars PROVE TotalsInv'
    OBVIOUS
  <1>t. replans \in Nat /\ goal \in GoalRow /\ cost \in Nat /\ IsFiniteSet(FailedRows)
    BY DEF IInv, TypeOK, TotalsInv
  <1>1. CASE FailStep
    <2>1. /\ pc \in {"subtask", "invoking", "invalid"} /\ pc' \in {"noTool", "record"}
          /\ replans' = replans
      BY <1>1 DEF FailStep, SelectorFails, Admitted, ToolTimesOut, ToolErrors, ToolFails,
         RejectOutput, totals
    <2>2. /\ IsFiniteSet(FailedRows')
          /\ Cardinality(FailedRows') = Cardinality(FailedRows) + 1
      BY <1>1, <1>t, FS_AddElement DEF FailStep
    <2>3. Cardinality(FailedRows) = replans
      BY <2>1 DEF TotalsInv
    <2> QED
      BY <2>1, <2>2, <2>3 DEF TotalsInv
  <1>2. CASE DoneStep
    <2>1. pc = "valid" /\ pc' \in {"finished", "subtask"} /\ replans' = replans
      BY <1>2 DEF DoneStep, AcceptOutput, totals
    <2>2. FailedRows' = FailedRows
      BY <1>2 DEF DoneStep
    <2> QED
      BY <1>t, <2>1, <2>2 DEF TotalsInv
  <1>3. CASE QuietStep
    <2>1. FailedRows' = FailedRows
      BY <1>3 DEF QuietStep
    <2>2. CASE RecordNoTool \/ RecordReplan
      <3>1. /\ pc \in {"noTool", "record"} /\ pc' \in {"giveUp", "top"}
            /\ replans' = replans + 1
        BY <2>2 DEF RecordNoTool, RecordReplan, RecordEvent
      <3> QED
        BY <1>t, <2>1, <3>1 DEF TotalsInv
    <2>3. CASE Aborts
      <3>1. PICK reason \in AbortReasons, c \in 0 .. MaxPlanCost :
              Abort(reason, cost + c) /\ pc \in Running
        BY <2>3, AbortSteps DEF IInv
      <3>2. /\ goal'.steps = steps /\ goal'.replans = replans /\ goal'.cost = cost'
            /\ steps' = steps /\ replans' = replans /\ pc' = "aborted"
        BY <1>t, <3>1 DEF Abort, GoalRow
      <3>3. pc \notin {"noTool", "record", "raised", "crashed"}
        BY <2>3 DEF Aborts, WallClockExceeded, ReplansExceeded, PlannerFails, EmptyPlan, PlanTooDear,
           StepsExceeded, CostExceeded, GiveUp, PlanExhausted
      <3> QED
        BY <1>t, <2>1, <3>2, <3>3 DEF TotalsInv
    <2>4. CASE Succeed
      <3>1. /\ goal'.steps = steps /\ goal'.replans = replans /\ goal'.cost = cost
            /\ UNCHANGED <<steps, replans, cost>> /\ pc = "finished" /\ pc' = "succeeded"
        BY <1>t, <2>4 DEF Succeed, GoalRow, totals
      <3> QED
        BY <1>t, <2>1, <3>1 DEF TotalsInv
    <2>5. CASE Tick \/ Stopped \/ UNCHANGED vars
      <3>1. UNCHANGED <<pc, goal, steps, replans, cost>>
        BY <2>5 DEF Tick, Stopped, vars, db, totals
      <3> QED
        BY <1>t, <2>1, <3>1 DEF TotalsInv
    <2>6. CASE MissingGoal \/ ProviderRaises \/ ArgumentsRejected \/ Crash
      <3>1. pc' \in {"raised", "crashed"}
        BY <2>6 DEF MissingGoal, ProviderRaises, ArgumentsRejected, Crash, Raise
      <3> QED
        BY <1>t, <2>1, <3>1 DEF TotalsInv
    <2>7. CASE CreateGoal \/ MarkRunning \/ CallPlanner \/ AdoptPlan \/ SelectTool \/ ToolReturns
      <3>1. /\ pc \in {"create", "start", "top", "planning", "subtask", "invoking"}
            /\ pc' \in {"start", "top", "planning", "subtask", "invoking", "valid", "invalid"}
            /\ replans' = replans
        BY <2>7 DEF CreateGoal, MarkRunning, CallPlanner, AdoptPlan, SelectTool, Admitted, ToolReturns,
           totals
      <3> QED
        BY <1>t, <2>1, <3>1 DEF TotalsInv
    <2> QED
      BY <1>3, <2>2, <2>3, <2>4, <2>5, <2>6, <2>7
         DEF QuietStep, Next, Step, Planning, Selecting, Invoking, Aborts
  <1> QED
    BY <1>1, <1>2, <1>3, RowSteps

\* An ended goal's totals are what a reader adds up from its rows, for every
\* budget: the calls, the replan events, the failed subtasks and the cost.
THEOREM TotalsAreHonest == Spec => []TotalsMatchTrace
  <1>1. IInv /\ TotalsInv => TotalsMatchTrace
    <2> SUFFICES ASSUME IInv, TotalsInv, goal.status \in {"succeeded", "aborted"}
                 PROVE  /\ goal.steps = Len(calls) /\ goal.replans = Len(events)
                        /\ goal.replans = Cardinality({r \in DOMAIN subtasks : subtasks[r] = "failed"})
                        /\ goal.cost = cost
      BY DEF TotalsMatchTrace
    <2>1. pc \in {"succeeded", "aborted"}
      BY DEF IInv, TypeOK, Control, PCs, Ended
    <2>2. DOMAIN subtasks = 1 .. Len(subtasks)
      BY DEF IInv, TypeOK
    <2>3. {r \in DOMAIN subtasks : subtasks[r] = "failed"} = FailedRows
      BY <2>2 DEF FailedRows
    <2> QED
      BY <2>1, <2>3 DEF IInv, Counters, TotalsInv
  <1> QED
    BY <1>1, TotalsInit, TotalsStep, InductiveInvariant, PTL DEF Spec
-----------------------------------------------------------------------------
(* What the planner is told. *)

\* The failure in hand is that of the last event, but for the one about to be
\* recorded; the prior outputs are those of the done rows, in their order.
LastKind == IF events = <<>> THEN "none" ELSE events[Len(events)].kind

KnowledgeInv ==
  /\ pc \notin {"noTool", "record"} \cup Ended => lastFailure = LastKind
  /\ {prior[i] : i \in 1 .. Len(prior)} = DoneRows
  /\ \A i, j \in 1 .. Len(prior) : i < j => prior[i] < prior[j]

LEMMA KnowledgeInit == Init => KnowledgeInv
  <1> SUFFICES ASSUME Init PROVE KnowledgeInv
    OBVIOUS
  <1>1. DoneRows = {} /\ events = <<>> /\ lastFailure = "none"
    BY DEF Init, DoneRows
  <1>2. prior = <<>> /\ 1 .. Len(prior) = {}
    BY DEF Init
  <1>3. {prior[i] : i \in 1 .. Len(prior)} = {}
    BY <1>2
  <1> QED
    BY <1>1, <1>2, <1>3 DEF KnowledgeInv, LastKind

LEMMA KnowledgeStep == IInv /\ KnowledgeInv /\ [Next]_vars => KnowledgeInv'
  <1> SUFFICES ASSUME IInv, KnowledgeInv, [Next]_vars PROVE KnowledgeInv'
    OBVIOUS
  <1>t. prior \in Seq(Nat) /\ Len(prior) \in Nat /\ events \in Seq(EventRow) /\ Len(events) \in Nat
    BY DEF IInv, TypeOK
  <1>1. CASE DoneStep
    <2> DEFINE n == Len(prior)
    <2>1. prior' = Append(prior, Row) /\ Row \in Nat
      BY <1>1 DEF DoneStep, AcceptOutput
    <2>2. /\ n \in Nat /\ Len(prior') = n + 1 /\ prior'[n + 1] = Row
          /\ \A i \in 1 .. n : prior'[i] = prior[i] /\ prior[i] \in Nat
      BY <1>t, <2>1
    <2>3. \A i \in 1 .. n : prior[i] \in DoneRows /\ prior[i] < Row
      BY <1>1 DEF KnowledgeInv, DoneStep
    <2>4. {prior'[i] : i \in 1 .. Len(prior')} = DoneRows \cup {Row}
      <3>1. 1 .. n + 1 = 1 .. n \cup {n + 1}
        BY <2>2
      <3>2. {prior'[i] : i \in 1 .. n + 1} = {prior[i] : i \in 1 .. n} \cup {Row}
        BY <2>2, <3>1
      <3> QED
        BY <2>2, <3>2 DEF KnowledgeInv
    <2>5. ASSUME NEW i \in 1 .. Len(prior'), NEW j \in 1 .. Len(prior'), i < j
          PROVE  prior'[i] < prior'[j]
      <3>1. i \in 1 .. n /\ prior'[i] = prior[i]
        BY <2>2, <2>5
      <3>2. CASE j = n + 1
        BY <2>2, <2>3, <3>1, <3>2
      <3>3. CASE j # n + 1
        <4>1. j \in 1 .. n /\ prior'[j] = prior[j]
          BY <2>2, <3>3
        <4> QED
          BY <2>5, <3>1, <4>1 DEF KnowledgeInv
      <3> QED
        BY <3>2, <3>3
    <2>6. /\ pc = "valid" /\ pc' \in {"finished", "subtask"}
          /\ UNCHANGED <<lastFailure, events>>
      BY <1>1 DEF DoneStep, AcceptOutput
    <2>7. LastKind' = LastKind
      BY <2>6 DEF LastKind
    <2>8. DoneRows' = DoneRows \cup {Row}
      BY <1>1 DEF DoneStep
    <2> QED
      BY <2>4, <2>5, <2>6, <2>7, <2>8 DEF KnowledgeInv, Ended
  <1>2. ASSUME prior' = prior, DoneRows' = DoneRows,
               pc' \notin {"noTool", "record"} \cup Ended => lastFailure' = LastKind'
        PROVE  KnowledgeInv'
    BY <1>2 DEF KnowledgeInv
  <1>3. CASE FailStep
    <2>1. pc' \in {"noTool", "record"} /\ prior' = prior
      BY <1>3 DEF FailStep, SelectorFails, ToolTimesOut, ToolErrors, ToolFails, RejectOutput
    <2> QED
      BY <1>2, <1>3, <2>1 DEF FailStep
  <1>4. CASE QuietStep
    <2>0. DoneRows' = DoneRows
      BY <1>4 DEF QuietStep
    <2>1. CASE RecordNoTool \/ RecordReplan
      <3>1. PICK e : events' = Append(events, e) /\ e.kind = lastFailure /\ lastFailure' = lastFailure
        BY <2>1 DEF RecordNoTool, RecordReplan, RecordEvent
      <3>2. Len(events') = Len(events) + 1 /\ events'[Len(events) + 1] = e /\ events' # <<>>
        BY <1>t, <3>1
      <3>3. LastKind' = lastFailure'
        BY <3>1, <3>2 DEF LastKind
      <3>4. prior' = prior
        BY <2>1 DEF RecordNoTool, RecordReplan
      <3> QED
        BY <1>2, <2>0, <3>3, <3>4
    <2>2. CASE Aborts \/ Succeed \/ MissingGoal \/ ProviderRaises \/ ArgumentsRejected \/ Crash
      <3>1. pc' \in Ended /\ prior' = prior
        <4>1. CASE Aborts
          BY <4>1, AbortSteps DEF IInv, Abort, Ended
        <4> QED
          BY <2>2, <4>1 DEF Succeed, MissingGoal, ProviderRaises, ArgumentsRejected, Raise, Crash, Ended
      <3> QED
        BY <1>2, <2>0, <3>1
    <2>3. CASE \/ CreateGoal \/ MarkRunning \/ CallPlanner \/ AdoptPlan \/ SelectTool \/ ToolReturns
               \/ Tick \/ Stopped \/ UNCHANGED vars
      <3>1. UNCHANGED <<events, lastFailure, prior>>
        BY <2>3 DEF CreateGoal, MarkRunning, CallPlanner, AdoptPlan, SelectTool, ToolReturns, Tick,
           Stopped, vars, db
      <3>2. pc' \notin {"noTool", "record"} \cup Ended => pc \notin {"noTool", "record"} \cup Ended
        BY <2>3 DEF CreateGoal, MarkRunning, CallPlanner, AdoptPlan, SelectTool, Admitted, ToolReturns,
           Tick, Stopped, vars, Ended
      <3>3. LastKind' = LastKind
        BY <3>1 DEF LastKind
      <3> QED
        BY <1>2, <2>0, <3>1, <3>2, <3>3 DEF KnowledgeInv
    <2> QED
      BY <1>4, <2>1, <2>2, <2>3
         DEF QuietStep, Next, Step, Planning, Selecting, Invoking, Aborts
  <1> QED
    BY <1>1, <1>3, <1>4, RowSteps

\* The planner is told the last failure there is an event for, and the outputs
\* of exactly the done subtasks in their order, after any number of replans.
THEOREM PlannerIsInformed == Spec => []PlannerKnowsTheTrace
  <1>1. IInv /\ KnowledgeInv => PlannerKnowsTheTrace
    <2> SUFFICES ASSUME IInv, KnowledgeInv, pc \in {"top", "planning"} PROVE PlannerKnowsTheTrace
      BY DEF PlannerKnowsTheTrace
    <2>1. DOMAIN subtasks = 1 .. Len(subtasks) /\ DOMAIN prior = 1 .. Len(prior)
      BY DEF IInv, TypeOK
    <2>2. {r \in DOMAIN subtasks : subtasks[r] = "done"} = DoneRows
      BY <2>1 DEF DoneRows
    <2> QED
      BY <2>1, <2>2 DEF KnowledgeInv, LastKind, PlannerKnowsTheTrace, Ended
  <1> QED
    BY <1>1, KnowledgeInit, KnowledgeStep, InductiveInvariant, PTL DEF Spec
=============================================================================
