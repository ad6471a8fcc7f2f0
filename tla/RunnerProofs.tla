---------------------------- MODULE RunnerProofs ----------------------------
(***************************************************************************)
(* Proofs about Runner, for every registry, every set of plans and every   *)
(* budget: IInv is an invariant, and with it the safety properties of      *)
(* Runner and the refinement of GoalTrace.                                 *)
(***************************************************************************)
EXTENDS RunnerInvariant, TLAPS

USE ToolsAssumption, PlansAssumption, BudgetAssumption

-----------------------------------------------------------------------------
(* Sequences: what a replaced, an appended and a concatenated row change. *)

\* EXCEPT at an index of a sequence replaces that element and nothing else.
LEMMA ReplaceRow ==
  ASSUME NEW S, NEW s \in Seq(S), NEW n \in 1 .. Len(s), NEW v \in S
  PROVE  LET t == [s EXCEPT ![n] = v]
         IN  /\ t \in Seq(S) /\ Len(t) = Len(s) /\ DOMAIN t = 1 .. Len(s)
             /\ t[n] = v
             /\ \A i \in 1 .. Len(s) : i # n => t[i] = s[i]
  OBVIOUS

\* Append adds one element at the end and keeps the others.
LEMMA AppendRow ==
  ASSUME NEW S, NEW s \in Seq(S), NEW v \in S
  PROVE  LET t == Append(s, v)
         IN  /\ t \in Seq(S) /\ Len(t) = Len(s) + 1
             /\ t[Len(t)] = v
             /\ \A i \in 1 .. Len(s) : t[i] = s[i]
  OBVIOUS

\* The rows of a new plan stand pending after those there were.
LEMMA AddPlan ==
  ASSUME NEW s \in Seq(SubtaskStatus), NEW n \in Nat
  PROVE  LET t == s \o [i \in 1 .. n |-> "pending"]
         IN  /\ t \in Seq(SubtaskStatus) /\ Len(t) = Len(s) + n
             /\ \A i \in 1 .. Len(s) : t[i] = s[i]
             /\ \A i \in Len(s) + 1 .. Len(s) + n : t[i] = "pending"
  BY DEF SubtaskStatus
-----------------------------------------------------------------------------
(* Type correctness. *)

LEMMA TypeInit == Init => TypeOK
  <1> SUFFICES ASSUME Init PROVE TypeOK
    OBVIOUS
  <1>1. pc \in PCs
    BY DEF Init, PCs, Running, Ended
  <1>2. goal \in GoalRow
    BY DEF Init, NewGoal, GoalRow, GoalStatus
  <1>3. subtasks \in Seq(SubtaskStatus) /\ calls \in Seq(CallRow) /\ events \in Seq(EventRow)
    BY DEF Init
  <1>4. plan \in Plans \cup {<<>>} /\ prior \in Seq(Nat)
    BY DEF Init
  <1> QED
    BY <1>1, <1>2, <1>3, <1>4 DEF Init, TypeOK

\* The loop's row exists while the loop is within the plan.
LEMMA RowExists ==
  ASSUME TypeOK, Position, pos <= Len(plan)
  PROVE  Row \in 1 .. Len(subtasks)
  <1>1. Len(plan) \in Nat
    BY DEF TypeOK
  <1> QED
    BY <1>1 DEF TypeOK, Position, Row

\* A new status for the loop's row: the others keep theirs.
LEMMA SetSubtask ==
  ASSUME TypeOK, Position, pos <= Len(plan), NEW s \in SubtaskStatus,
         subtasks' = [subtasks EXCEPT ![Row] = s]
  PROVE  /\ subtasks' \in Seq(SubtaskStatus) /\ Len(subtasks') = Len(subtasks)
         /\ subtasks'[Row] = s
         /\ \A r \in 1 .. Len(subtasks) : r # Row => subtasks'[r] = subtasks[r]
  <1>1. Row \in 1 .. Len(subtasks)
    BY RowExists
  <1>2. subtasks \in Seq(SubtaskStatus)
    BY DEF TypeOK
  <1> QED
    BY <1>1, <1>2, ReplaceRow

\* Every row of tool_calls has its type.
LEMMA CallTyped ==
  ASSUME TypeOK, NEW i \in 1 .. Len(calls)
  PROVE  /\ calls[i] \in CallRow
         /\ calls[i].status \in CallStatus /\ calls[i].verdict \in Verdicts
  <1>1. calls \in Seq(CallRow)
    BY DEF TypeOK
  <1>2. calls[i] \in CallRow
    BY <1>1
  <1> QED
    BY <1>2 DEF CallRow

\* The last call gets a status, or a verdict: the others keep theirs.
LEMMA SetCall ==
  ASSUME TypeOK, Len(calls) > 0, NEW s \in CallStatus, NEW v \in Verdicts,
         \/ calls' = [calls EXCEPT ![Len(calls)].status = s] /\ v = LastCall.verdict
         \/ calls' = [calls EXCEPT ![Len(calls)].verdict = v] /\ s = LastCall.status
  PROVE  /\ calls' \in Seq(CallRow) /\ Len(calls') = Len(calls)
         /\ calls'[Len(calls)] = [sub |-> LastCall.sub, tool |-> LastCall.tool,
                                  status |-> s, verdict |-> v]
         /\ \A i \in 1 .. Len(calls) : i # Len(calls) => calls'[i] = calls[i]
  <1> DEFINE n == Len(calls)
             c == [sub |-> LastCall.sub, tool |-> LastCall.tool, status |-> s, verdict |-> v]
  <1>1. calls \in Seq(CallRow) /\ n \in 1 .. Len(calls)
    BY DEF TypeOK
  <1>2. calls[n] \in CallRow
    BY <1>1
  <1>3. c \in CallRow
    BY <1>2 DEF CallRow, LastCall
  <1>4. calls' = [calls EXCEPT ![n] = c]
    <2>1. CASE calls' = [calls EXCEPT ![n].status = s] /\ v = LastCall.verdict
      <3>1. [calls[n] EXCEPT !.status = s] = c
        BY <1>2, <2>1 DEF CallRow, LastCall
      <3> QED
        BY <2>1, <3>1
    <2>2. CASE calls' = [calls EXCEPT ![n].verdict = v] /\ s = LastCall.status
      <3>1. [calls[n] EXCEPT !.verdict = v] = c
        BY <1>2, <2>2 DEF CallRow, LastCall
      <3> QED
        BY <2>2, <3>1
    <2> QED
      BY <2>1, <2>2
  <1> HIDE DEF c
  <1>5. /\ calls' \in Seq(CallRow) /\ Len(calls') = Len(calls)
        /\ calls'[n] = c
        /\ \A i \in 1 .. Len(calls) : i # n => calls'[i] = calls[i]
    BY <1>1, <1>3, <1>4, ReplaceRow
  <1> QED
    BY <1>5 DEF c

\* An abort closes the row of the goal with counts and a reason.
LEMMA TypeAbort ==
  ASSUME TypeOK, NEW reason \in AbortReasons, NEW total \in Nat, Abort(reason, total)
  PROVE  TypeOK'
  <1>1. goal' \in GoalRow
    BY DEF TypeOK, Abort, GoalRow, GoalStatus
  <1>2. pc' \in PCs
    BY DEF Abort, PCs, Ended
  <1> QED
    BY <1>1, <1>2 DEF TypeOK, Abort, inPlan

\* A step keeps the types; that a rejected output has a verdict that names a
\* kind of failure is HeldCall, that an event has one is EventRows.
LEMMA TypeStep ==
  ASSUME TypeOK, Position, HeldCall, EventRows, [Next]_vars
  PROVE  TypeOK'
  <1>1. CASE CreateGoal \/ MarkRunning \/ Succeed
    <2>1. goal' \in GoalRow
      <3>1. CASE CreateGoal
        BY <3>1 DEF CreateGoal, NewGoal, GoalRow, GoalStatus
      <3>2. CASE MarkRunning
        BY <3>2 DEF TypeOK, MarkRunning, GoalRow, GoalStatus
      <3>3. CASE Succeed
        <4>1. Len(calls) \in Nat /\ steps \in Nat /\ replans \in Nat /\ cost \in Nat
          BY DEF TypeOK
        <4>2. goal \in GoalRow
          BY DEF TypeOK
        <4> QED
          BY <3>3, <4>1, <4>2 DEF Succeed, GoalRow, GoalStatus
      <3> QED
        BY <1>1, <3>1, <3>2, <3>3
    <2>2. pc' \in PCs
      BY <1>1 DEF CreateGoal, MarkRunning, Succeed, PCs, Running, Ended
    <2> QED
      BY <1>1, <2>1, <2>2 DEF TypeOK, CreateGoal, MarkRunning, Succeed, inPlan, totals
  <1>2. CASE WallClockExceeded \/ ReplansExceeded \/ PlannerFails \/ StepsExceeded
             \/ CostExceeded \/ GiveUp \/ PlanExhausted
    <2>1. PICK reason \in AbortReasons : Abort(reason, cost)
      BY <1>2 DEF WallClockExceeded, ReplansExceeded, PlannerFails, StepsExceeded,
           CostExceeded, GiveUp, PlanExhausted, AbortReasons
    <2> QED
      BY <2>1, TypeAbort DEF TypeOK
  <1>3. CASE EmptyPlan \/ PlanTooDear
    <2>1. PICK reason \in AbortReasons, c \in 0 .. MaxPlanCost : Abort(reason, cost + c)
      BY <1>3 DEF EmptyPlan, PlanTooDear, AbortReasons
    <2>2. cost + c \in Nat
      BY DEF TypeOK
    <2> QED
      BY <2>1, <2>2, TypeAbort
  <1>4. CASE AdoptPlan
    <2>1. PICK p \in Plans, c \in 0 .. MaxPlanCost :
            /\ plan' = p
            /\ cost' = cost + c
            /\ subtasks' = subtasks \o [i \in 1 .. Len(p) |-> "pending"]
      BY <1>4 DEF AdoptPlan
    <2>2. Len(p) \in Nat
      OBVIOUS
    <2>3. subtasks' \in Seq(SubtaskStatus)
      BY <2>1, <2>2, AddPlan DEF TypeOK
    <2>4. base' \in Nat /\ pos' \in Nat /\ cost' \in Nat
      BY <1>4, <2>1 DEF AdoptPlan, TypeOK
    <2>5. pc' \in PCs
      BY <1>4 DEF AdoptPlan, PCs, Running
    <2> QED
      BY <1>4, <2>1, <2>3, <2>4, <2>5 DEF AdoptPlan, TypeOK
  <1>5. CASE SelectorFails
    <2>1. subtasks' \in Seq(SubtaskStatus)
      BY <1>5, SetSubtask DEF SelectorFails, Admitted, SubtaskStatus
    <2>2. cost' \in Nat
      BY <1>5 DEF SelectorFails, SelectCosts, TypeOK
    <2>3. pc' \in PCs /\ lastFailure' \in FailureKind
      BY <1>5 DEF SelectorFails, PCs, Running, FailureKind
    <2> QED
      BY <1>5, <2>1, <2>2, <2>3 DEF SelectorFails, TypeOK, inPlan
  <1>6. CASE SelectTool
    <2>1. PICK t \in Tools, c \in 0 .. MaxSelectCost :
            calls' = Append(calls, NewCall(Row, t)) /\ cost' = cost + c
      BY <1>6 DEF SelectTool, SelectCosts
    <2>2. NewCall(Row, t) \in CallRow
      BY DEF NewCall, CallRow, CallStatus, Verdicts, Row, TypeOK
    <2>3. calls' \in Seq(CallRow) /\ cost' \in Nat
      BY <2>1, <2>2 DEF TypeOK
    <2>4. pc' \in PCs /\ steps' \in Nat /\ late' \in Nat
      BY <1>6 DEF SelectTool, PCs, Running, TypeOK
    <2> QED
      BY <1>6, <2>3, <2>4 DEF SelectTool, TypeOK, inPlan
  <1>7. CASE RecordNoTool \/ RecordReplan
    <2>1. PICK c \in Nat : /\ replans' = replans + 1
                           /\ events' = Append(events, [idx |-> replans', call |-> c,
                                                        kind |-> lastFailure])
      BY <1>7 DEF RecordNoTool, RecordReplan, RecordEvent, TypeOK
    <2>2. lastFailure \in FailureKind
      BY <1>7 DEF RecordNoTool, RecordReplan, EventRows, TypeOK
    <2>3. [idx |-> replans', call |-> c, kind |-> lastFailure] \in EventRow
      BY <2>1, <2>2 DEF EventRow, TypeOK
    <2>4. events' \in Seq(EventRow) /\ replans' \in Nat
      BY <2>1, <2>3 DEF TypeOK
    <2>5. pc' \in PCs
      BY <1>7 DEF RecordNoTool, RecordReplan, PCs, Running
    <2> QED
      BY <1>7, <2>4, <2>5 DEF RecordNoTool, RecordReplan, TypeOK, inPlan
  <1>8. CASE ToolTimesOut \/ ToolErrors
    <2>a. Len(calls) > 0 /\ pos <= Len(plan)
      BY <1>8 DEF ToolTimesOut, ToolErrors, ToolFails, HeldCall, Position, AtCall
    <2>b. LastCall.verdict \in Verdicts
      BY <2>a, CallTyped DEF LastCall
    <2>1. calls' \in Seq(CallRow)
      BY <1>8, <2>a, <2>b, SetCall DEF ToolTimesOut, ToolErrors, ToolFails, CallStatus
    <2>2. subtasks' \in Seq(SubtaskStatus)
      BY <1>8, <2>a, SetSubtask DEF ToolTimesOut, ToolErrors, ToolFails, SubtaskStatus
    <2>3. pc' \in PCs /\ lastFailure' \in FailureKind
      BY <1>8 DEF ToolTimesOut, ToolErrors, ToolFails, PCs, Running, FailureKind
    <2> QED
      BY <1>8, <2>1, <2>2, <2>3 DEF ToolTimesOut, ToolErrors, ToolFails, TypeOK, inPlan, totals
  <1>9. CASE ToolReturns
    <2>a. Len(calls) > 0 /\ pos <= Len(plan)
      BY <1>9 DEF ToolReturns, HeldCall, Position, AtCall
    <2>b. LastCall.status \in CallStatus
      BY <2>a, CallTyped DEF LastCall
    <2>1. calls' \in Seq(CallRow)
      BY <1>9, <2>a, <2>b, SetCall DEF ToolReturns
    <2>2. subtasks' \in Seq(SubtaskStatus)
      BY <1>9, <2>a, SetSubtask DEF ToolReturns, SubtaskStatus
    <2>3. pc' \in PCs
      BY <1>9 DEF ToolReturns, PCs, Running
    <2> QED
      BY <1>9, <2>1, <2>2, <2>3 DEF ToolReturns, TypeOK, inPlan, totals
  <1>10. CASE RejectOutput
    <2>1. subtasks' \in Seq(SubtaskStatus)
      BY <1>10, SetSubtask DEF RejectOutput, Position, AtCall, SubtaskStatus
    <2>2. pc' \in PCs /\ lastFailure' \in FailureKind
      BY <1>10 DEF RejectOutput, HeldCall, AtCall, PCs, Running, FailureKind
    <2> QED
      BY <1>10, <2>1, <2>2 DEF RejectOutput, TypeOK, inPlan, totals
  <1>11. CASE AcceptOutput
    <2>1. subtasks' \in Seq(SubtaskStatus)
      BY <1>11, SetSubtask DEF AcceptOutput, Position, AtCall, SubtaskStatus
    <2>2. Row \in Nat
      BY DEF Row, TypeOK
    <2>3. prior' \in Seq(Nat)
      BY <1>11, <2>2 DEF AcceptOutput, TypeOK
    <2>4. pc' \in PCs /\ pos' \in Nat
      BY <1>11 DEF AcceptOutput, PCs, Running, TypeOK
    <2> QED
      BY <1>11, <2>1, <2>3, <2>4 DEF AcceptOutput, TypeOK, totals
  <1>12. CASE MissingGoal \/ CallPlanner \/ ProviderRaises \/ ArgumentsRejected \/ Crash
    <2>1. pc' \in PCs
      BY <1>12 DEF MissingGoal, CallPlanner, ProviderRaises, ArgumentsRejected, Crash, Raise,
           PCs, Running, Ended
    <2> QED
      BY <1>12, <2>1 DEF MissingGoal, CallPlanner, ProviderRaises, ArgumentsRejected, Crash,
           Raise, TypeOK, db, inPlan, totals
  <1>13. CASE Tick \/ Stopped \/ UNCHANGED vars
    BY <1>13 DEF Tick, Stopped, vars, db, inPlan, totals, TypeOK
  <1> QED
    BY <1>1, <1>2, <1>3, <1>4, <1>5, <1>6, <1>7, <1>8, <1>9, <1>10, <1>11, <1>12, <1>13
       DEF Next, Step, Planning, Selecting, Invoking
-----------------------------------------------------------------------------
(* What the steps around a call change, in terms of rows. *)

\* The end of a call settles the last row of tool_calls and touches no other,
\* and settles, or marks as running, the subtask it belongs to.
LEMMA CallSettled ==
  ASSUME TypeOK, Position, HeldCall, ToolTimesOut \/ ToolErrors \/ ToolReturns
  PROVE  /\ Len(calls) > 0 /\ Len(calls') = Len(calls)
         /\ \A i \in 1 .. Len(calls) : i # Len(calls) => calls'[i] = calls[i]
         /\ calls'[Len(calls)].sub = Row
         /\ calls'[Len(calls)].tool = calls[Len(calls)].tool
         /\ \/ /\ pc' = "record" /\ lastFailure' \in {"timeout", "tool_returned_error"}
               /\ calls'[Len(calls)].status = IF lastFailure' = "timeout" THEN "timeout" ELSE "error"
               /\ calls'[Len(calls)].verdict = "none"
               /\ subtasks'[Row] = "failed"
            \/ /\ pc' \in {"valid", "invalid"} /\ lastFailure' = lastFailure
               /\ calls'[Len(calls)].status = "ok"
               /\ pc' = "valid" => calls'[Len(calls)].verdict = "valid"
               /\ pc' = "invalid" => calls'[Len(calls)].verdict \in InvalidKinds
               /\ subtasks'[Row] = "running"
         /\ Row \in 1 .. Len(subtasks) /\ Len(subtasks') = Len(subtasks)
         /\ \A r \in 1 .. Len(subtasks) : r # Row => subtasks'[r] = subtasks[r]
  <1>1. Len(calls) > 0 /\ pos <= Len(plan) /\ LastCall.sub = Row /\ OpenCall(Len(calls))
    BY DEF ToolTimesOut, ToolErrors, ToolFails, ToolReturns, HeldCall, Position, AtCall
  <1>2. Len(calls) \in 1 .. Len(calls)
    BY <1>1 DEF TypeOK
  <1>3. Row \in 1 .. Len(subtasks)
    BY <1>1, RowExists
  <1>4. LastCall.status = "ok" /\ LastCall.verdict = "none"
    BY <1>1 DEF OpenCall, LastCall
  <1>5. ASSUME NEW s \in {"timeout", "error"}, NEW k, ToolFails(s, k)
        PROVE  /\ calls'[Len(calls)] = [sub |-> Row, tool |-> LastCall.tool,
                                        status |-> s, verdict |-> "none"]
               /\ Len(calls') = Len(calls)
               /\ \A i \in 1 .. Len(calls) : i # Len(calls) => calls'[i] = calls[i]
               /\ subtasks'[Row] = "failed" /\ Len(subtasks') = Len(subtasks)
               /\ \A r \in 1 .. Len(subtasks) : r # Row => subtasks'[r] = subtasks[r]
    <2>1. s \in CallStatus /\ "none" \in Verdicts /\ "failed" \in SubtaskStatus
      BY DEF CallStatus, Verdicts, SubtaskStatus
    <2>2. /\ calls' = [calls EXCEPT ![Len(calls)].status = s] /\ "none" = LastCall.verdict
          /\ subtasks' = [subtasks EXCEPT ![Row] = "failed"]
      BY <1>4, <1>5 DEF ToolFails
    <2>3. /\ calls'[Len(calls)] = [sub |-> LastCall.sub, tool |-> LastCall.tool,
                                   status |-> s, verdict |-> "none"]
          /\ Len(calls') = Len(calls)
          /\ \A i \in 1 .. Len(calls) : i # Len(calls) => calls'[i] = calls[i]
      BY <1>1, <2>1, <2>2, SetCall
    <2>4. /\ subtasks'[Row] = "failed" /\ Len(subtasks') = Len(subtasks)
          /\ \A r \in 1 .. Len(subtasks) : r # Row => subtasks'[r] = subtasks[r]
      BY <1>1, <2>1, <2>2, SetSubtask
    <2> QED
      BY <1>1, <2>3, <2>4
  <1>6. CASE ToolTimesOut
    BY <1>1, <1>2, <1>3, <1>5, <1>6 DEF ToolTimesOut, ToolFails, LastCall
  <1>7. CASE ToolErrors
    BY <1>1, <1>2, <1>3, <1>5, <1>7 DEF ToolErrors, ToolFails, LastCall
  <1>8. CASE ToolReturns
    <2>1. PICK v \in Verdicts \ {"none"} :
            /\ calls' = [calls EXCEPT ![Len(calls)].verdict = v]
            /\ pc' = IF v = "valid" THEN "valid" ELSE "invalid"
      BY <1>8 DEF ToolReturns
    <2>2. "ok" \in CallStatus /\ "running" \in SubtaskStatus
      BY DEF CallStatus, SubtaskStatus
    <2>3. /\ calls'[Len(calls)] = [sub |-> LastCall.sub, tool |-> LastCall.tool,
                                   status |-> "ok", verdict |-> v]
          /\ Len(calls') = Len(calls)
          /\ \A i \in 1 .. Len(calls) : i # Len(calls) => calls'[i] = calls[i]
      BY <1>1, <1>4, <2>1, <2>2, SetCall
    <2>4. /\ subtasks'[Row] = "running" /\ Len(subtasks') = Len(subtasks)
          /\ \A r \in 1 .. Len(subtasks) : r # Row => subtasks'[r] = subtasks[r]
      BY <1>1, <1>8, <2>2, SetSubtask DEF ToolReturns
    <2>5. v = "valid" \/ v \in InvalidKinds
      BY DEF Verdicts
    <2>6. pc' \in {"valid", "invalid"} /\ lastFailure' = lastFailure
      BY <1>8, <2>1 DEF ToolReturns
    <2> QED
      BY <1>1, <1>2, <1>3, <2>1, <2>3, <2>4, <2>5, <2>6 DEF LastCall, InvalidKinds
  <1> QED
    BY <1>6, <1>7, <1>8

\* The other ends of a subtask change its row alone.
LEMMA SubtaskSettled ==
  ASSUME TypeOK, Position, SelectorFails \/ RejectOutput \/ AcceptOutput
  PROVE  /\ Row \in 1 .. Len(subtasks) /\ Len(subtasks') = Len(subtasks)
         /\ \A r \in 1 .. Len(subtasks) : r # Row => subtasks'[r] = subtasks[r]
         /\ subtasks'[Row] = IF pc = "valid" THEN "done" ELSE "failed"
         /\ calls' = calls /\ events' = events /\ plan' = plan /\ base' = base
  <1>1. pos <= Len(plan)
    BY DEF SelectorFails, Admitted, RejectOutput, AcceptOutput, Position, AtCall
  <1>2. Row \in 1 .. Len(subtasks)
    BY <1>1, RowExists
  <1>3. PICK s \in {"done", "failed"} : /\ subtasks' = [subtasks EXCEPT ![Row] = s]
                                        /\ s = IF pc = "valid" THEN "done" ELSE "failed"
    BY DEF SelectorFails, Admitted, RejectOutput, AcceptOutput
  <1>4. s \in SubtaskStatus
    BY DEF SubtaskStatus
  <1>5. /\ Len(subtasks') = Len(subtasks) /\ subtasks'[Row] = s
        /\ \A r \in 1 .. Len(subtasks) : r # Row => subtasks'[r] = subtasks[r]
    BY <1>1, <1>3, <1>4, SetSubtask
  <1>6. calls' = calls /\ events' = events /\ plan' = plan /\ base' = base
    BY DEF SelectorFails, RejectOutput, AcceptOutput, inPlan
  <1> QED
    BY <1>2, <1>3, <1>5, <1>6

\* A call is opened for the loop's row, after the calls there were.
LEMMA CallOpened ==
  ASSUME TypeOK, Position, SelectTool
  PROVE  /\ Row \in 1 .. Len(subtasks) /\ Len(calls') = Len(calls) + 1
         /\ \A i \in 1 .. Len(calls) : calls'[i] = calls[i]
         /\ \E t \in Tools : /\ calls'[Len(calls) + 1] = NewCall(Row, t)
                             /\ calls' = Append(calls, NewCall(Row, t))
  <1>1. Row \in 1 .. Len(subtasks)
    BY RowExists DEF SelectTool, Admitted
  <1>2. PICK t \in Tools : calls' = Append(calls, NewCall(Row, t))
    BY DEF SelectTool
  <1>3. NewCall(Row, t) \in CallRow
    BY <1>1 DEF NewCall, CallRow, CallStatus, Verdicts
  <1>4. calls \in Seq(CallRow)
    BY DEF TypeOK
  <1>5. /\ Len(calls') = Len(calls) + 1
        /\ calls'[Len(calls')] = NewCall(Row, t)
        /\ \A i \in 1 .. Len(calls) : calls'[i] = calls[i]
    BY <1>2, <1>3, <1>4, AppendRow
  <1> QED
    BY <1>1, <1>2, <1>5

\* A replan event is recorded after those there were.
LEMMA EventRecorded ==
  ASSUME TypeOK, EventRows, RecordNoTool \/ RecordReplan
  PROVE  /\ Len(events') = Len(events) + 1
         /\ \A k \in 1 .. Len(events) : events'[k] = events[k]
         /\ events'[Len(events) + 1] =
              [idx |-> replans + 1, kind |-> lastFailure,
               call |-> IF pc = "record" THEN Len(calls) ELSE 0]
         /\ lastFailure \in FailureKind
  <1>1. lastFailure \in FailureKind
    BY DEF RecordNoTool, RecordReplan, EventRows, TypeOK
  <1> DEFINE e == [idx |-> replans + 1, kind |-> lastFailure,
                   call |-> IF pc = "record" THEN Len(calls) ELSE 0]
  <1>2. events' = Append(events, e)
    BY DEF RecordNoTool, RecordReplan, RecordEvent
  <1>3. e \in EventRow
    BY <1>1 DEF EventRow, TypeOK
  <1>4. events \in Seq(EventRow)
    BY DEF TypeOK
  <1> HIDE DEF e
  <1>5. /\ Len(events') = Len(events) + 1
        /\ events'[Len(events')] = e
        /\ \A k \in 1 .. Len(events) : events'[k] = events[k]
    BY <1>2, <1>3, <1>4, AppendRow
  <1> QED
    BY <1>1, <1>5 DEF e

\* A plan is adopted below the rows there were.
LEMMA PlanAdopted ==
  ASSUME TypeOK, AdoptPlan
  PROVE  /\ Len(plan') \in Nat /\ Len(plan') > 0 /\ base' = Len(subtasks) /\ pos' = 1
         /\ Len(subtasks') = Len(subtasks) + Len(plan')
         /\ \A r \in 1 .. Len(subtasks) : subtasks'[r] = subtasks[r]
         /\ \A r \in Len(subtasks) + 1 .. Len(subtasks') : subtasks'[r] = "pending"
         /\ subtasks' \in Seq(SubtaskStatus)
  <1>1. PICK p \in Plans : plan' = p /\ subtasks' = subtasks \o [i \in 1 .. Len(p) |-> "pending"]
    BY DEF AdoptPlan
  <1>2. p \in Seq(Hints) /\ p # <<>>
    OBVIOUS
  <1>3. Len(p) \in Nat /\ Len(p) > 0
    BY <1>2
  <1>4. subtasks \in Seq(SubtaskStatus)
    BY DEF TypeOK
  <1> DEFINE t == subtasks \o [i \in 1 .. Len(p) |-> "pending"]
  <1>5. /\ t \in Seq(SubtaskStatus) /\ Len(t) = Len(subtasks) + Len(p)
        /\ \A r \in 1 .. Len(subtasks) : t[r] = subtasks[r]
        /\ \A r \in Len(subtasks) + 1 .. Len(subtasks) + Len(p) : t[r] = "pending"
    BY ONLY <1>3, <1>4, AddPlan
  <1>6. subtasks' = t
    BY <1>1
  <1> HIDE DEF t
  <1> QED
    BY <1>1, <1>3, <1>5, <1>6 DEF AdoptPlan

-----------------------------------------------------------------------------
(* The status of the goal and the counters. *)

\* The nine ways to abort, as one.
Aborts == WallClockExceeded \/ ReplansExceeded \/ PlannerFails \/ EmptyPlan \/ PlanTooDear
          \/ StepsExceeded \/ CostExceeded \/ GiveUp \/ PlanExhausted

LEMMA AbortSteps ==
  ASSUME TypeOK, Aborts
  PROVE  /\ pc \in Running
         /\ \E reason \in AbortReasons, c \in 0 .. MaxPlanCost :
              cost + c \in Nat /\ Abort(reason, cost + c) /\ (pc = "planning" \/ c = 0)
  <1>0. 0 \in 0 .. MaxPlanCost /\ cost \in Nat /\ cost + 0 = cost
    BY DEF TypeOK
  <1>1. CASE EmptyPlan \/ PlanTooDear
    <2>1. \A c \in 0 .. MaxPlanCost : cost + c \in Nat
      BY <1>0
    <2> QED
      BY <1>1, <2>1 DEF EmptyPlan, PlanTooDear, AbortReasons, Running
  <1>2. CASE ~(EmptyPlan \/ PlanTooDear)
    <2>1. pc \in Running /\ \E reason \in AbortReasons : Abort(reason, cost)
      BY <1>2 DEF Aborts, WallClockExceeded, ReplansExceeded, PlannerFails,
           StepsExceeded, CostExceeded, GiveUp, PlanExhausted, AbortReasons, Running
    <2> QED
      BY <2>1, <1>0
  <1> QED
    BY <1>1, <1>2

LEMMA ControlStep ==
  ASSUME TypeOK, Control, [Next]_vars
  PROVE  Control'
  <1> USE DEF Control, Running, Ended
  <1>g. goal \in GoalRow
    BY DEF TypeOK
  <1>1. CASE CreateGoal
    BY <1>1 DEF CreateGoal, NewGoal
  <1>2. CASE MarkRunning
    BY <1>2, <1>g DEF MarkRunning, GoalRow
  <1>3. CASE Succeed
    BY <1>3, <1>g DEF Succeed, GoalRow
  <1>4. CASE Aborts
    <2>0. PICK reason \in AbortReasons, total \in Nat : Abort(reason, total) /\ pc \in Running
      BY <1>4, AbortSteps
    <2>1. goal'.status = "aborted" /\ goal'.reason \in AbortReasons /\ goal'.final = goal.final
      BY <2>0, <1>g DEF Abort, GoalRow
    <2> QED
      BY <2>0, <2>1 DEF Abort, AbortReasons
  <1>5. CASE AdoptPlan
    BY <1>5 DEF AdoptPlan
  <1>6. CASE SelectorFails \/ SelectTool
    BY <1>6 DEF SelectorFails, SelectTool, Admitted
  <1>7. CASE RecordNoTool \/ RecordReplan
    BY <1>7 DEF RecordNoTool, RecordReplan
  <1>8. CASE ToolTimesOut \/ ToolErrors \/ ToolReturns
    BY <1>8 DEF ToolTimesOut, ToolErrors, ToolFails, ToolReturns
  <1>9. CASE RejectOutput \/ AcceptOutput
    BY <1>9 DEF RejectOutput, AcceptOutput
  <1>10. CASE MissingGoal \/ CallPlanner \/ ProviderRaises \/ ArgumentsRejected \/ Crash
    BY <1>10 DEF MissingGoal, CallPlanner, ProviderRaises, ArgumentsRejected, Crash, Raise,
         Admitted, db, TypeOK, PCs
  <1>11. CASE Tick \/ Stopped \/ UNCHANGED vars
    BY <1>11 DEF Tick, Stopped, vars, db
  <1> QED
    BY <1>1, <1>2, <1>3, <1>4, <1>5, <1>6, <1>7, <1>8, <1>9, <1>10, <1>11
       DEF Next, Aborts, Step, Planning, Selecting, Invoking

LEMMA CountersStep ==
  ASSUME TypeOK, Control, Counters, Position, HeldCall, [Next]_vars
  PROVE  Counters'
  <1> USE DEF Counters, Running, Ended
  <1>t. /\ Len(plan) \in Nat /\ Len(calls) \in Nat /\ Len(events) \in Nat
        /\ pos \in Nat /\ steps \in Nat /\ replans \in Nat /\ cost \in Nat /\ late \in Nat
    BY DEF TypeOK
  <1>1. CASE CreateGoal \/ MarkRunning
    BY <1>1, <1>t DEF CreateGoal, MarkRunning, inPlan, totals, Position
  <1>2. CASE Succeed
    BY <1>2, <1>t DEF Succeed, inPlan, totals
  <1>3. CASE Aborts
    <2>1. PICK reason \in AbortReasons, c \in 0 .. MaxPlanCost :
            Abort(reason, cost + c) /\ pc \in Running
      BY <1>3, AbortSteps
    <2>2. cost' = cost + c /\ pc' = "aborted"
      BY <2>1 DEF Abort
    <2>3. cost <= MaxCost + MaxSelectCost
      BY <2>1
    <2>4. cost' <= MaxCost + MaxSelectCost + MaxPlanCost
      BY <2>2, <2>3, <1>t
    <2> QED
      BY <2>1, <2>2, <2>4 DEF Abort, inPlan
  <1>4. CASE AdoptPlan
    <2>1. PICK p \in Plans, c \in 0 .. MaxPlanCost : plan' = p /\ cost' = cost + c /\ cost + c <= MaxCost
      BY <1>4 DEF AdoptPlan
    <2>2. Len(p) \in Nat
      OBVIOUS
    <2> QED
      BY <1>4, <2>1, <2>2, <1>t DEF AdoptPlan
  <1>5. CASE SelectorFails
    <2>1. PICK c \in 0 .. MaxSelectCost : cost' = cost + c
      BY <1>5 DEF SelectorFails, SelectCosts
    <2> QED
      BY <1>5, <2>1, <1>t DEF SelectorFails, Admitted, inPlan
  <1>6. CASE SelectTool
    <2>1. PICK c \in 0 .. MaxSelectCost : cost' = cost + c
      BY <1>6 DEF SelectTool, SelectCosts
    <2>2. Len(calls') = Len(calls) + 1
      BY <1>6 DEF SelectTool, TypeOK
    <2> QED
      BY <1>6, <2>1, <2>2, <1>t DEF SelectTool, Admitted, inPlan
  <1>7. CASE RecordNoTool \/ RecordReplan
    <2>1. replans' = replans + 1 /\ Len(events') = Len(events) + 1
      BY <1>7 DEF RecordNoTool, RecordReplan, RecordEvent, TypeOK
    <2>2. pc \in {"noTool", "record"} /\ pc' \in {"top", "giveUp"}
      BY <1>7 DEF RecordNoTool, RecordReplan
    <2>3. pc' = "giveUp" => replans' > MaxReplans
      BY <1>7 DEF RecordNoTool, RecordReplan
    <2>4. UNCHANGED <<calls, plan, pos, steps, cost, expired, late>>
      BY <1>7 DEF RecordNoTool, RecordReplan, inPlan
    <2>5. replans <= MaxReplans /\ MaxReplans \in Nat
      BY <2>2, BudgetAssumption
    <2> QED
      BY <2>1, <2>2, <2>3, <2>4, <2>5, <1>t
  <1>8. CASE ToolTimesOut \/ ToolErrors \/ ToolReturns
    <2>1. Len(calls') = Len(calls)
      BY <1>8, CallSettled
    <2> QED
      BY <1>8, <2>1, <1>t DEF ToolTimesOut, ToolErrors, ToolFails, ToolReturns, inPlan, totals
  <1>9. CASE RejectOutput
    BY <1>9, <1>t DEF RejectOutput, inPlan, totals
  <1>10. CASE AcceptOutput
    BY <1>10, <1>t DEF AcceptOutput, totals
  <1>11. CASE MissingGoal \/ CallPlanner \/ ProviderRaises \/ ArgumentsRejected \/ Crash
    BY <1>11, <1>t DEF MissingGoal, CallPlanner, ProviderRaises, ArgumentsRejected, Crash, Raise,
         db, inPlan, totals
  <1>12. CASE Tick \/ Stopped \/ UNCHANGED vars
    BY <1>12 DEF Tick, Stopped, vars, db, inPlan, totals
  <1> QED
    BY <1>1, <1>2, <1>3, <1>4, <1>5, <1>6, <1>7, <1>8, <1>9, <1>10, <1>11, <1>12
       DEF Next, Step, Planning, Selecting, Invoking, Aborts
-----------------------------------------------------------------------------
(* The rows of the plan in hand. *)

LEMMA PositionStep ==
  ASSUME TypeOK, Position, HeldCall, [Next]_vars
  PROVE  Position'
  <1> USE DEF Position, Running, Ended, AtCall, Row
  <1>t. /\ Len(plan) \in Nat /\ Len(subtasks) \in Nat /\ base \in Nat /\ pos \in Nat
    BY DEF TypeOK
  <1>1. CASE CreateGoal \/ MarkRunning \/ MissingGoal \/ CallPlanner
    BY <1>1, <1>t DEF CreateGoal, MarkRunning, MissingGoal, CallPlanner, db, inPlan
  <1>2. CASE Succeed
    BY <1>2, <1>t DEF Succeed, inPlan
  <1>3. CASE Aborts
    <2>1. PICK reason, c : Abort(reason, c) /\ pc \in Running
      BY <1>3, AbortSteps
    <2>2. pc \notin {"invalid", "valid", "crashed"}
      BY <1>3 DEF Aborts, WallClockExceeded, ReplansExceeded, PlannerFails, EmptyPlan, PlanTooDear,
         StepsExceeded, CostExceeded, GiveUp, PlanExhausted
    <2>3. pc' = "aborted" /\ subtasks' = subtasks /\ base' = base /\ pos' = pos /\ plan' = plan
      BY <2>1 DEF Abort, inPlan
    <2>4. \A r \in 1 .. Len(subtasks) : subtasks[r] # "running"
      BY <2>2
    <2> QED
      BY <2>3, <2>4, <1>t
  <1>4. CASE AdoptPlan
    <2>1. \A r \in 1 .. Len(subtasks) : subtasks[r] # "running"
      BY <1>4 DEF AdoptPlan
    <2>2. pc' = "subtask"
      BY <1>4 DEF AdoptPlan
    <2> QED
      BY <1>4, <2>1, <2>2, <1>t, PlanAdopted
  <1>5. CASE SelectorFails \/ RejectOutput
    <2>1. pos' = pos /\ pc' \in {"noTool", "record"} /\ pos <= Len(plan)
      BY <1>5 DEF SelectorFails, RejectOutput, Admitted, inPlan
    <2>2. pc # "valid"
      BY <1>5 DEF SelectorFails, RejectOutput, Admitted
    <2>3. \A r \in 1 .. Len(subtasks) : r # Row => subtasks[r] # "running"
      OBVIOUS
    <2> QED
      BY <1>5, <2>1, <2>2, <2>3, <1>t, SubtaskSettled
  <1>6. CASE AcceptOutput
    <2>1. \/ pos' = pos /\ pc' = "finished"
          \/ pos' = pos + 1 /\ pc' = "subtask"
      BY <1>6 DEF AcceptOutput
    <2>2. pc = "valid" /\ pos <= Len(plan)
      BY <1>6 DEF AcceptOutput
    <2>3. \A r \in 1 .. Len(subtasks) : r # Row => subtasks[r] # "running"
      OBVIOUS
    <2>4. /\ plan' = plan /\ base' = base /\ Len(subtasks') = Len(subtasks)
          /\ subtasks'[base + pos] = "done"
          /\ \A r \in 1 .. Len(subtasks) : r # base + pos => subtasks'[r] = subtasks[r]
      BY <1>6, <2>2, SubtaskSettled
    <2>5. CASE pos' = pos /\ pc' = "finished"
      BY <2>2, <2>3, <2>4, <2>5, <1>t
    <2>6. CASE pos' = pos + 1 /\ pc' = "subtask"
      <3>1. \A r \in 1 .. Len(subtasks) :
              /\ base < r /\ r < base + pos + 1 => subtasks'[r] = "done"
              /\ r >= base + pos + 1 => subtasks'[r] = "pending"
              /\ subtasks'[r] # "running"
        BY <2>2, <2>3, <2>4, <1>t
      <3> QED
        BY <2>2, <2>4, <2>6, <3>1, <1>t
    <2> QED
      BY <2>1, <2>5, <2>6
  <1>7. CASE SelectTool
    BY <1>7, <1>t DEF SelectTool, Admitted, inPlan
  <1>8. CASE RecordNoTool \/ RecordReplan
    BY <1>8, <1>t DEF RecordNoTool, RecordReplan, inPlan
  <1>9. CASE ToolTimesOut \/ ToolErrors \/ ToolReturns
    <2>1. plan' = plan /\ base' = base /\ pos' = pos /\ pc = "invoking"
      BY <1>9 DEF ToolTimesOut, ToolErrors, ToolFails, ToolReturns, inPlan
    <2>2. \A r \in 1 .. Len(subtasks) : r # Row => subtasks[r] # "running"
      OBVIOUS
    <2>3. pos <= Len(plan)
      BY <2>1
    <2> QED
      BY <1>9, <2>1, <2>2, <2>3, <1>t, CallSettled
  <1>10. CASE ProviderRaises \/ ArgumentsRejected \/ Crash
    BY <1>10, <1>t DEF ProviderRaises, ArgumentsRejected, Crash, Raise, Admitted, db, inPlan
  <1>11. CASE Tick \/ Stopped \/ UNCHANGED vars
    BY <1>11, <1>t DEF Tick, Stopped, vars, db, inPlan
  <1> QED
    BY <1>1, <1>2, <1>3, <1>4, <1>5, <1>6, <1>7, <1>8, <1>9, <1>10, <1>11
       DEF Next, Step, Planning, Selecting, Invoking, Aborts
-----------------------------------------------------------------------------
(* The calls and the subtasks they settle. *)

LEMMA CallRowsStep ==
  ASSUME TypeOK, Position, CallRows, HeldCall, [Next]_vars
  PROVE  CallRows'
  <1> USE DEF OpenCall, CallFailed
  <1>t. /\ Len(plan) \in Nat /\ Len(subtasks) \in Nat /\ base \in Nat /\ pos \in Nat
        /\ Len(calls) \in Nat /\ Row \in Nat
    BY DEF TypeOK, Row
  <1>1. CASE CreateGoal \/ MarkRunning \/ MissingGoal \/ CallPlanner
    <2>1. pc \in {"create", "start", "top"} /\ pc' \in {"start", "top", "planning", "raised"}
      BY <1>1 DEF CreateGoal, MarkRunning, MissingGoal, CallPlanner
    <2>2. UNCHANGED <<calls, subtasks, base, pos>>
      BY <1>1 DEF CreateGoal, MarkRunning, MissingGoal, CallPlanner, db, inPlan
    <2> QED
      BY <2>1, <2>2 DEF CallRows, CallsSound, CallSound, CallsInOrder, DoneOnCall, Row
  <1>2. CASE Succeed
    BY <1>2 DEF Succeed, inPlan, CallRows, CallsSound, CallSound, CallsInOrder, DoneOnCall, Row
  <1>3. CASE Aborts
    <2>1. PICK reason, c : Abort(reason, c)
      BY <1>3, AbortSteps
    <2>2. pc \in {"top", "planning", "subtask", "giveUp"}
      BY <1>3 DEF Aborts, WallClockExceeded, ReplansExceeded, PlannerFails, EmptyPlan, PlanTooDear,
         StepsExceeded, CostExceeded, GiveUp, PlanExhausted
    <2>3. pc' = "aborted" /\ UNCHANGED <<calls, subtasks, base, pos>>
      BY <2>1 DEF Abort, inPlan
    <2> QED
      BY <2>2, <2>3 DEF CallRows, CallsSound, CallSound, CallsInOrder, DoneOnCall, Row
  <1>4. CASE AdoptPlan
    <2>1. pc = "planning" /\ pc' = "subtask" /\ calls' = calls
      BY <1>4 DEF AdoptPlan
    <2>2. /\ Row' = Len(subtasks) + 1 /\ Len(subtasks') >= Len(subtasks)
          /\ \A r \in 1 .. Len(subtasks) : subtasks'[r] = subtasks[r]
          /\ \A r \in Len(subtasks) + 1 .. Len(subtasks') : subtasks'[r] = "pending"
          /\ Len(subtasks') \in Nat
      BY <1>4, <1>t, PlanAdopted DEF Row
    <2>3. CallsSound'
      <3> SUFFICES ASSUME NEW i \in 1 .. Len(calls) PROVE CallSound(i)'
        BY <2>1 DEF CallsSound
      <3>1. CallSound(i)
        BY DEF CallRows, CallsSound
      <3>2. calls[i].sub < Row' /\ subtasks'[calls[i].sub] = subtasks[calls[i].sub]
        BY <2>2, <3>1 DEF CallSound
      <3> QED
        BY <2>1, <2>2, <3>1, <3>2, <1>t DEF CallSound
    <2>4. CallsInOrder'
      BY <2>1 DEF CallRows, CallsInOrder
    <2>5. DoneOnCall'
      <3> SUFFICES ASSUME NEW r \in 1 .. Len(subtasks'), subtasks'[r] = "done"
                   PROVE  \E i \in 1 .. Len(calls) : calls[i].sub = r /\ calls[i].verdict = "valid"
        BY <2>1 DEF DoneOnCall
      <3>1. r \in 1 .. Len(subtasks) /\ subtasks[r] = "done"
        BY <2>2, <1>t
      <3> QED
        BY <3>1 DEF CallRows, DoneOnCall
    <2> QED
      BY <2>3, <2>4, <2>5 DEF CallRows
  <1>5. CASE SelectorFails \/ RejectOutput
    <2>1. /\ pc \in {"subtask", "invalid"} /\ pc' \in {"noTool", "record"} /\ Row' = Row
          /\ pc = "invalid" => pc' = "record"
      BY <1>5 DEF SelectorFails, RejectOutput, Admitted, inPlan, Row
    <2>2. /\ Row \in 1 .. Len(subtasks) /\ Len(subtasks') = Len(subtasks)
          /\ \A r \in 1 .. Len(subtasks) : r # Row => subtasks'[r] = subtasks[r]
          /\ subtasks'[Row] = "failed"
          /\ calls' = calls
      BY <1>5, <2>1, SubtaskSettled
    <2>3. pc = "invalid" => Len(calls) > 0 /\ calls[Len(calls)].sub = Row
      BY DEF HeldCall, AtCall, LastCall
    <2>6. CallsSound'
      BY <2>1, <2>2, <2>3, <1>t DEF CallRows, CallsSound, CallSound, CallsInOrder
    <2>7. CallsInOrder'
      BY <2>1, <2>2, <2>3, <1>t DEF CallRows, CallsSound, CallSound, CallsInOrder
    <2>8. DoneOnCall'
      BY <2>1, <2>2, <2>3, <1>t DEF CallRows, DoneOnCall
    <2> QED
      BY <2>6, <2>7, <2>8 DEF CallRows
  <1>6. CASE AcceptOutput
    <2>1. /\ pc = "valid" /\ pc' \in {"finished", "subtask"}
          /\ LastCall.tool = Finish => pc' = "finished"
          /\ pc' = "finished" => Row' = Row
          /\ pc' = "subtask" => Row' = Row + 1
      BY <1>6, <1>t DEF AcceptOutput, Row, TypeOK
    <2>2. /\ Row \in 1 .. Len(subtasks) /\ Len(subtasks') = Len(subtasks)
          /\ \A r \in 1 .. Len(subtasks) : r # Row => subtasks'[r] = subtasks[r]
          /\ subtasks'[Row] = "done"
          /\ calls' = calls
      BY <1>6, <2>1, SubtaskSettled
    <2>3. /\ Len(calls) > 0 /\ calls[Len(calls)].sub = Row
          /\ calls[Len(calls)].status = "ok" /\ calls[Len(calls)].verdict = "valid"
      BY <2>1 DEF HeldCall, AtCall, LastCall
    <2>4. "valid" \notin InvalidKinds /\ "none" \notin InvalidKinds
      BY DEF InvalidKinds
    <2>5. \A i \in 1 .. Len(calls) : i < Len(calls) => calls[i].sub < Row
      BY <2>3, <1>t DEF CallRows, CallsInOrder
    <2>6. CallsSound'
      <3> SUFFICES ASSUME NEW i \in 1 .. Len(calls) PROVE CallSound(i)'
        BY <2>2 DEF CallsSound
      <3>1. CallSound(i)
        BY DEF CallRows, CallsSound
      <3>2. CASE i = Len(calls)
        BY <2>1, <2>2, <2>3, <2>4, <3>2, <1>t DEF CallSound, LastCall
      <3>3. CASE i < Len(calls)
        BY <2>1, <2>2, <2>5, <3>1, <3>3, <1>t DEF CallSound
      <3> QED BY <3>2, <3>3, <1>t
    <2>7. CallsInOrder'
      BY <2>1, <2>2, <2>3, <2>4, <1>t DEF CallRows, CallsSound, CallSound, CallsInOrder
    <2>8. DoneOnCall'
      BY <2>1, <2>2, <2>3, <2>4, <1>t DEF CallRows, DoneOnCall
    <2> QED
      BY <2>6, <2>7, <2>8 DEF CallRows
  <1>7. CASE SelectTool
    <2>1. pc = "subtask" /\ pc' = "invoking" /\ subtasks' = subtasks /\ Row' = Row
      BY <1>7 DEF SelectTool, Admitted, inPlan, Row
    <2>2. PICK t \in Tools : calls'[Len(calls) + 1] = NewCall(Row, t)
      BY <1>7, CallOpened
    <2>3. /\ Row \in 1 .. Len(subtasks) /\ Len(calls') = Len(calls) + 1
          /\ \A i \in 1 .. Len(calls) : calls'[i] = calls[i]
      BY <1>7, CallOpened
    <2>4. /\ calls'[Len(calls) + 1].sub = Row
          /\ calls'[Len(calls) + 1].status = "ok" /\ calls'[Len(calls) + 1].verdict = "none"
      BY <2>2 DEF NewCall
    <2>5. "valid" \notin InvalidKinds /\ "none" \notin InvalidKinds
      BY DEF InvalidKinds
    <2>6. CallsSound'
      BY <2>1, <2>3, <2>4, <2>5, <1>t DEF CallRows, CallsSound, CallSound, CallsInOrder
    <2>7. CallsInOrder'
      BY <2>1, <2>3, <2>4, <2>5, <1>t DEF CallRows, CallsSound, CallSound, CallsInOrder
    <2>8. DoneOnCall'
      BY <2>1, <2>3, <2>4, <2>5, <1>t DEF CallRows, DoneOnCall
    <2> QED
      BY <2>6, <2>7, <2>8 DEF CallRows
  <1>8. CASE RecordNoTool \/ RecordReplan
    BY <1>8 DEF RecordNoTool, RecordReplan, inPlan, CallRows, CallsSound, CallSound, CallsInOrder, DoneOnCall, Row
  <1>9. CASE ToolTimesOut \/ ToolErrors \/ ToolReturns
    <2>1. pc = "invoking" /\ Row' = Row
      BY <1>9 DEF ToolTimesOut, ToolErrors, ToolFails, ToolReturns, inPlan, Row
    <2>2. calls[Len(calls)].sub = Row /\ Len(calls) > 0 /\ calls[Len(calls)].status = "ok"
          /\ calls[Len(calls)].verdict = "none"
      BY <2>1 DEF HeldCall, AtCall, LastCall
    <2>3. "valid" \notin InvalidKinds /\ "none" \notin InvalidKinds
      BY DEF InvalidKinds
    <2>4. subtasks[Row] = "pending" /\ Row \in 1 .. Len(subtasks)
      BY <1>9, <2>1, CallSettled DEF Position
    <2>6. CallsSound'
      BY <1>9, <2>1, <2>2, <2>3, <2>4, <1>t, CallSettled, SMTT(20) DEF CallRows, CallsSound, CallSound, CallsInOrder
    <2>7. CallsInOrder'
      BY <1>9, <2>1, <2>2, <2>3, <2>4, <1>t, CallSettled DEF CallRows, CallsSound, CallSound, CallsInOrder
    <2>8. DoneOnCall'
      BY <1>9, <2>1, <2>2, <2>3, <2>4, <1>t, CallSettled DEF CallRows, DoneOnCall
    <2> QED
      BY <2>6, <2>7, <2>8 DEF CallRows
  <1>10. CASE ProviderRaises \/ ArgumentsRejected \/ Crash
    BY <1>10 DEF ProviderRaises, ArgumentsRejected, Crash, Raise, Admitted, db, inPlan, CallRows,
       CallsSound, CallSound, CallsInOrder, DoneOnCall, Row, Ended
  <1>11. CASE Tick \/ Stopped \/ UNCHANGED vars
    BY <1>11 DEF Tick, Stopped, vars, db, inPlan, CallRows, CallsSound, CallSound, CallsInOrder, DoneOnCall, Row
  <1> QED
    BY <1>1, <1>2, <1>3, <1>4, <1>5, <1>6, <1>7, <1>8, <1>9, <1>10, <1>11
       DEF Next, Step, Planning, Selecting, Invoking, Aborts
-----------------------------------------------------------------------------
(* The call the loop holds, and the replan events. *)

LEMMA HeldCallStep ==
  ASSUME TypeOK, Position, HeldCall, [Next]_vars
  PROVE  HeldCall'
  <1> USE DEF AtCall, LastCall
  <1>1. CASE pc' \notin AtCall
    BY <1>1 DEF HeldCall
  <1>2. CASE SelectTool
    <2>1. PICK t \in Tools : calls'[Len(calls) + 1] = NewCall(Row, t)
      BY <1>2, CallOpened
    <2>2. Len(calls') = Len(calls) + 1 /\ Len(calls) \in Nat
      BY <1>2, CallOpened DEF TypeOK
    <2>3. pc' = "invoking" /\ Row' = Row
      BY <1>2 DEF SelectTool, inPlan, Row
    <2> QED
      BY <2>1, <2>2, <2>3 DEF HeldCall, OpenCall, NewCall
  <1>3. CASE ToolTimesOut \/ ToolErrors \/ ToolReturns
    <2>1. Row' = Row
      BY <1>3 DEF ToolTimesOut, ToolErrors, ToolFails, ToolReturns, inPlan, Row
    <2>2. "none" \notin InvalidKinds
      BY DEF InvalidKinds
    <2> QED
      BY <1>3, <2>1, <2>2, CallSettled DEF HeldCall, CallFailed, KindOf
  <1>4. CASE RejectOutput
    <2>1. /\ pc = "invalid" /\ pc' = "record" /\ calls' = calls /\ Row' = Row
          /\ lastFailure' = LastCall.verdict
      BY <1>4 DEF RejectOutput, inPlan, Row
    <2>2. /\ Len(calls) > 0 /\ LastCall.sub = Row
          /\ LastCall.status = "ok" /\ LastCall.verdict \in InvalidKinds
      BY <2>1 DEF HeldCall
    <2> QED
      BY <2>1, <2>2 DEF HeldCall, CallFailed, KindOf
  <1>5. CASE AcceptOutput
    <2>1. \/ pc' = "subtask"
          \/ /\ pc = "valid" /\ pc' = "finished" /\ calls' = calls /\ Row' = Row
             /\ LastCall.tool = Finish
      BY <1>5 DEF AcceptOutput, Row
    <2> QED
      BY <2>1 DEF HeldCall
  <1>6. CASE Tick \/ Stopped \/ UNCHANGED vars
    <2>1. UNCHANGED <<pc, calls, base, pos, lastFailure>>
      BY <1>6 DEF Tick, Stopped, vars, db, inPlan
    <2> QED
      BY <2>1 DEF HeldCall, OpenCall, CallFailed, KindOf, Row
  <1>7. CASE Aborts
    <2>1. PICK reason, c : Abort(reason, c)
      BY <1>7, AbortSteps
    <2> QED
      BY <2>1 DEF Abort, HeldCall
  <1>8. CASE SelectorFails \/ AdoptPlan \/ RecordNoTool \/ RecordReplan \/ CreateGoal \/ MarkRunning
             \/ MissingGoal \/ CallPlanner \/ Succeed \/ ProviderRaises \/ ArgumentsRejected \/ Crash
    <2>1. pc' \notin AtCall
      BY <1>8 DEF SelectorFails, AdoptPlan, RecordNoTool, RecordReplan, CreateGoal, MarkRunning,
         MissingGoal, CallPlanner, Succeed, ProviderRaises, ArgumentsRejected, Crash, Raise
    <2> QED
      BY <1>1, <2>1
  <1> QED
    BY <1>1, <1>2, <1>3, <1>4, <1>5, <1>6, <1>7, <1>8
       DEF Next, Step, Planning, Selecting, Invoking, Aborts

\* A step that leaves the events alone and the calls they name.
LEMMA EventsKept ==
  ASSUME TypeOK, EventRows, events' = events, Len(calls') \in Nat, Len(calls') >= Len(calls),
         \A i \in 1 .. Len(calls) : i # Len(calls) \/ pc \notin AtCall => calls'[i] = calls[i],
         pc' \in AtCall => pc \in AtCall \/ Len(calls') > Len(calls),
         pc' = "noTool" => lastFailure' = "no_tool_for_subtask",
         pc' = "record" => lastFailure' # "none"
  PROVE  EventRows'
  <1>1. Len(calls) \in Nat /\ events \in Seq(EventRow)
    BY DEF TypeOK
  <1>2. DOMAIN events = 1 .. Len(events) /\ Len(events) \in Nat
    BY <1>1
  <1>3. ASSUME NEW k \in 1 .. Len(events)
        PROVE  /\ events[k].call \in Nat /\ events[k].call <= Len(calls)
               /\ pc \in AtCall => events[k].call < Len(calls)
    <2>1. events[k] \in EventRow
      BY <1>1
    <2> QED
      BY <2>1 DEF EventRow, EventRows
  <1>4. ASSUME NEW k \in 1 .. Len(events), events[k].call # 0
        PROVE  calls'[events[k].call] = calls[events[k].call]
    <2>1. /\ events[k].call \in 1 .. Len(calls)
          /\ events[k].call # Len(calls) \/ pc \notin AtCall
      BY <1>1, <1>3, <1>4
    <2> QED
      BY <2>1
  <1>5. EventsTellTheTruth'
    BY <1>2, <1>4 DEF EventRows, EventsTellTheTruth, CallFailed, KindOf
  <1>6. \A k \in 1 .. Len(events) : /\ events[k].call <= Len(calls')
                                    /\ pc' \in AtCall => events[k].call < Len(calls')
    BY <1>1, <1>3
  <1> QED
    BY <1>5, <1>6 DEF EventRows

LEMMA EventRowsStep ==
  ASSUME TypeOK, Position, Counters, HeldCall, EventRows, [Next]_vars
  PROVE  EventRows'
  <1>t. Len(calls) \in Nat /\ Len(events) \in Nat /\ DOMAIN events = 1 .. Len(events)
    BY DEF TypeOK
  <1>1. CASE UNCHANGED <<calls, events>> /\ pc' \notin AtCall \cup {"noTool"}
    BY <1>1, <1>t, EventsKept DEF AtCall
  <1>2. CASE CreateGoal \/ MarkRunning \/ MissingGoal \/ CallPlanner \/ Succeed \/ AdoptPlan
             \/ ProviderRaises \/ ArgumentsRejected \/ Crash
    BY <1>1, <1>2 DEF CreateGoal, MarkRunning, MissingGoal, CallPlanner, Succeed, AdoptPlan,
       ProviderRaises, ArgumentsRejected, Crash, Raise, db, inPlan, AtCall
  <1>3. CASE Aborts
    <2>1. PICK reason, c : Abort(reason, c)
      BY <1>3, AbortSteps
    <2> QED
      BY <1>1, <2>1 DEF Abort, AtCall
  <1>4. CASE SelectorFails \/ RejectOutput \/ AcceptOutput
    <2>1. /\ UNCHANGED <<calls, events>>
          /\ pc' \in AtCall => pc \in AtCall
          /\ pc' = "noTool" => lastFailure' = "no_tool_for_subtask"
      BY <1>4 DEF SelectorFails, RejectOutput, AcceptOutput, AtCall
    <2>2. pc' = "record" => lastFailure' # "none"
      BY <1>4 DEF SelectorFails, RejectOutput, AcceptOutput, HeldCall, AtCall, InvalidKinds
    <2> QED
      BY <2>1, <2>2, <1>t, EventsKept
  <1>5. CASE SelectTool
    <2>1. pc = "subtask" /\ pc' = "invoking" /\ events' = events
      BY <1>5 DEF SelectTool, Admitted
    <2>2. Len(calls') = Len(calls) + 1 /\ \A i \in 1 .. Len(calls) : calls'[i] = calls[i]
      BY <1>5, CallOpened
    <2> QED
      BY <2>1, <2>2, <1>t, EventsKept
  <1>6. CASE ToolTimesOut \/ ToolErrors \/ ToolReturns
    <2>1. pc = "invoking" /\ events' = events /\ pc' # "noTool"
      BY <1>6 DEF ToolTimesOut, ToolErrors, ToolFails, ToolReturns
    <2>2. /\ Len(calls') = Len(calls)
          /\ pc' = "record" => lastFailure' # "none"
          /\ \A i \in 1 .. Len(calls) : i # Len(calls) => calls'[i] = calls[i]
      BY <1>6, CallSettled
    <2>3. pc \in AtCall
      BY <2>1 DEF AtCall
    <2> QED
      BY <2>1, <2>2, <2>3, <1>t, EventsKept
  <1>7. CASE RecordNoTool \/ RecordReplan
    <2> DEFINE n == Len(events) + 1
               c == IF pc = "record" THEN Len(calls) ELSE 0
    <2>1. /\ Len(events') = n /\ \A k \in 1 .. Len(events) : events'[k] = events[k]
          /\ events'[n] = [idx |-> replans + 1, kind |-> lastFailure, call |-> c]
      BY <1>7, EventRecorded
    <2>2. /\ calls' = calls /\ pc' \notin AtCall \cup {"noTool"} /\ pc' # "record"
          /\ pc \in {"record", "noTool"}
      BY <1>7 DEF RecordNoTool, RecordReplan, AtCall
    <2>3. replans = Len(events)
      BY DEF Counters
    <2>4. pc = "record" => /\ Len(calls) > 0 /\ CallFailed(Len(calls))
                           /\ lastFailure = KindOf(Len(calls))
      BY DEF HeldCall, AtCall
    <2>5. pc = "noTool" => lastFailure = "no_tool_for_subtask"
      BY DEF EventRows
    <2>6. \A k \in 1 .. Len(events) : /\ events[k].call <= Len(calls)
                                      /\ pc = "record" => events[k].call < Len(calls)
      BY DEF EventRows, AtCall
    <2>7. DOMAIN events' = 1 .. n
      BY <1>7, TypeStep, <2>1 DEF TypeOK
    <2>8. \A k \in 1 .. n : /\ events'[k].idx = k
                            /\ events'[k].call <= Len(calls)
                            /\ IF events'[k].call = 0
                                 THEN events'[k].kind = "no_tool_for_subtask"
                                 ELSE /\ CallFailed(events'[k].call)
                                      /\ events'[k].kind = KindOf(events'[k].call)
      <3>1. ASSUME NEW k \in 1 .. Len(events)
            PROVE  /\ events[k].idx = k /\ events[k].call <= Len(calls)
                   /\ IF events[k].call = 0
                        THEN events[k].kind = "no_tool_for_subtask"
                        ELSE /\ CallFailed(events[k].call)
                             /\ events[k].kind = KindOf(events[k].call)
        BY <1>t DEF EventRows, EventsTellTheTruth
      <3>2. /\ events'[n].idx = n /\ events'[n].call = c /\ events'[n].kind = lastFailure
        BY <2>1, <2>3
      <3>3. c <= Len(calls)
        BY <1>t
      <3> QED
        BY <2>1, <2>2, <2>4, <2>5, <3>1, <3>2, <3>3, <1>t
    <2>9. \A j, k \in 1 .. n : j < k /\ events'[k].call # 0 => events'[j].call < events'[k].call
      <3>1. ASSUME NEW j \in 1 .. n, NEW k \in 1 .. n, j < k, events'[k].call # 0
            PROVE  events'[j].call < events'[k].call
        <4>1. j \in 1 .. Len(events) /\ events'[j] = events[j]
          BY <1>t, <2>1, <3>1
        <4>2. CASE k = n
          BY <2>1, <2>2, <2>6, <3>1, <4>1, <4>2
        <4>3. CASE k # n
          <5>1. k \in 1 .. Len(events) /\ events'[k] = events[k]
            BY <1>t, <2>1, <4>3
          <5> QED
            BY <1>t, <3>1, <4>1, <5>1 DEF EventRows, EventsTellTheTruth
        <4> QED
          BY <4>2, <4>3
      <3> QED
        BY <3>1
    <2>10. EventsTellTheTruth'
      BY <2>2, <2>7, <2>8, <2>9 DEF EventsTellTheTruth, CallFailed, KindOf
    <2> QED
      BY <2>1, <2>2, <2>8, <2>10 DEF EventRows
  <1>8. CASE Tick \/ Stopped \/ UNCHANGED vars
    <2>1. UNCHANGED <<pc, calls, events, lastFailure>>
      BY <1>8 DEF Tick, Stopped, vars, db
    <2> QED
      BY <2>1, <1>t, EventsKept DEF EventRows
  <1> QED
    BY <1>2, <1>3, <1>4, <1>5, <1>6, <1>7, <1>8
       DEF Next, Step, Planning, Selecting, Invoking, Aborts
-----------------------------------------------------------------------------
(* How a goal ends. *)

\* No finish has been accepted while the loop is looking for one.
LEMMA NoFinishYet ==
  ASSUME CallRows, Len(calls) \in Nat, DOMAIN calls = 1 .. Len(calls),
         pc \notin {"valid", "finished", "succeeded", "crashed"}
  PROVE  ~ \E i \in DOMAIN calls : FinishedBy(i)
  BY DEF CallRows, CallsSound, CallSound, FinishedBy

LEMMA HonestAbortStep ==
  ASSUME TypeOK, Control, Counters, Position, CallRows, HonestAbort, [Next]_vars
  PROVE  HonestAbort'
  <1>t. /\ Len(calls) \in Nat /\ DOMAIN calls = 1 .. Len(calls) /\ Len(events) \in Nat
        /\ goal \in GoalRow /\ cost \in Nat /\ steps \in Nat /\ replans \in Nat
    BY DEF TypeOK
  <1>1. CASE goal'.status # "aborted"
    BY <1>1 DEF HonestAbort
  <1>2. CASE Aborts
    <2>1. PICK reason \in AbortReasons, c \in 0 .. MaxPlanCost : Abort(reason, cost + c) /\ pc \in Running
      BY <1>2, AbortSteps
    <2>2. /\ goal'.reason = reason /\ goal'.cost = cost + c /\ goal'.final = goal.final
          /\ UNCHANGED <<subtasks, calls, events, base, expired>>
      BY <1>t, <2>1 DEF Abort, GoalRow, inPlan
    <2>3. goal'.reason # "none" /\ goal'.final = 0
      BY <2>1, <2>2 DEF Control, AbortReasons, Running
    <2>4. pc \notin {"valid", "finished", "succeeded", "crashed"}
      BY <1>2 DEF Aborts, WallClockExceeded, ReplansExceeded, PlannerFails, EmptyPlan, PlanTooDear,
         StepsExceeded, CostExceeded, GiveUp, PlanExhausted
    <2>5. ~ \E i \in DOMAIN calls : FinishedBy(i)
      BY <1>t, <2>4, NoFinishYet
    <2>6. (~ \E i \in DOMAIN calls : FinishedBy(i))'
      BY <2>2, <2>5 DEF FinishedBy
    <2>7. goal'.reason = "wall_clock_exceeded" => expired
      BY <1>2, <1>t DEF Aborts, WallClockExceeded, ReplansExceeded, PlannerFails, EmptyPlan,
         PlanTooDear, StepsExceeded, CostExceeded, GiveUp, PlanExhausted, Abort, GoalRow
    <2>8. goal'.reason = "max_replans_exceeded" => replans = MaxReplans + 1
      <3>1. goal'.reason = "max_replans_exceeded" => replans > MaxReplans \/ pc = "giveUp"
        BY <1>2, <1>t DEF Aborts, WallClockExceeded, ReplansExceeded, PlannerFails, EmptyPlan,
           PlanTooDear, StepsExceeded, CostExceeded, GiveUp, PlanExhausted, Abort, GoalRow
      <3>2. replans <= MaxReplans + 1 /\ (pc = "giveUp" => replans = MaxReplans + 1)
        BY DEF Counters
      <3> QED
        BY <1>t, <3>1, <3>2
    <2>9. goal'.reason = "max_steps_exceeded" => steps = MaxSteps
      <3>1. goal'.reason = "max_steps_exceeded" => steps >= MaxSteps
        BY <1>2, <1>t DEF Aborts, WallClockExceeded, ReplansExceeded, PlannerFails, EmptyPlan,
           PlanTooDear, StepsExceeded, CostExceeded, GiveUp, PlanExhausted, Abort, GoalRow
      <3>2. steps <= MaxSteps
        BY DEF Counters
      <3> QED
        BY <1>t, <3>1, <3>2
    <2>10. goal'.reason = "max_cost_exceeded" => goal'.cost > MaxCost
      BY <1>2, <1>t DEF Aborts, WallClockExceeded, ReplansExceeded, PlannerFails, EmptyPlan,
         PlanTooDear, StepsExceeded, CostExceeded, GiveUp, PlanExhausted, Abort, GoalRow
    <2>11. goal'.reason = "plan_exhausted_without_finish" => pos > Len(plan)
      BY <1>2, <1>t DEF Aborts, WallClockExceeded, ReplansExceeded, PlannerFails, EmptyPlan,
         PlanTooDear, StepsExceeded, CostExceeded, GiveUp, PlanExhausted, Abort, GoalRow
    <2>12. pos > Len(plan) => \A r \in base + 1 .. Len(subtasks) : subtasks[r] = "done"
      <3>1. Len(plan) \in Nat /\ base \in Nat /\ pos \in Nat
        BY DEF TypeOK
      <3> QED
        BY <3>1 DEF Position, Row
    <2> QED
      BY <2>2, <2>3, <2>6, <2>7, <2>8, <2>9, <2>10, <2>11, <2>12 DEF HonestAbort, Counters
  <1>3. CASE Stopped \/ Tick \/ UNCHANGED vars
    <2>1. UNCHANGED <<goal, subtasks, calls, events, base>> /\ (expired => expired')
      BY <1>3 DEF Stopped, Tick, vars, db, inPlan
    <2> QED
      BY <2>1 DEF HonestAbort, FinishedBy
  <1>4. CASE MissingGoal \/ ProviderRaises \/ ArgumentsRejected \/ Crash \/ CallPlanner
    <2>1. goal' = goal /\ goal.status # "aborted"
      BY <1>4 DEF MissingGoal, ProviderRaises, ArgumentsRejected, Crash, CallPlanner, Raise, db,
         Admitted, Control, Running, Ended, TypeOK, PCs
    <2> QED
      BY <1>1, <2>1
  <1>5. CASE CreateGoal \/ MarkRunning \/ Succeed
    <2>1. goal'.status # "aborted"
      <3>1. CASE CreateGoal
        BY <3>1 DEF CreateGoal, NewGoal
      <3>2. CASE MarkRunning
        BY <1>t, <3>2 DEF MarkRunning, GoalRow
      <3>3. CASE Succeed
        BY <1>t, <3>3 DEF Succeed, GoalRow
      <3> QED
        BY <1>5, <3>1, <3>2, <3>3
    <2> QED
      BY <1>1, <2>1
  <1>6. CASE AdoptPlan \/ SelectorFails \/ SelectTool \/ RecordNoTool \/ RecordReplan
             \/ ToolTimesOut \/ ToolErrors \/ ToolReturns \/ RejectOutput \/ AcceptOutput
    <2>1. goal' = goal /\ goal.status # "aborted"
      BY <1>6 DEF AdoptPlan, SelectorFails, SelectTool, RecordNoTool, RecordReplan, ToolTimesOut,
         ToolErrors, ToolFails, ToolReturns, RejectOutput, AcceptOutput, Admitted, Control, Running
    <2> QED
      BY <1>1, <2>1
  <1> QED
    BY <1>2, <1>3, <1>4, <1>5, <1>6 DEF Next, Step, Planning, Selecting, Invoking, Aborts

LEMMA HonestSuccessStep ==
  ASSUME TypeOK, Control, Position, CallRows, HeldCall, HonestSuccess, [Next]_vars
  PROVE  HonestSuccess'
  <1>t. /\ Len(calls) \in Nat /\ DOMAIN calls = 1 .. Len(calls) /\ goal \in GoalRow
    BY DEF TypeOK
  <1>1. CASE goal'.status # "succeeded"
    BY <1>1 DEF HonestSuccess
  <1>2. CASE Succeed
    <2>1. /\ goal'.reason = goal.reason /\ goal'.final = Len(calls) /\ goal.reason = "none"
          /\ UNCHANGED <<subtasks, calls, base>> /\ pc = "finished"
      BY <1>2, <1>t DEF Succeed, GoalRow, inPlan, Control, Running
    <2>2. /\ Len(calls) > 0 /\ calls[Len(calls)].sub = Row
          /\ calls[Len(calls)].verdict = "valid" /\ calls[Len(calls)].tool = Finish
      BY <2>1 DEF HeldCall, AtCall, LastCall
    <2>3. pos <= Len(plan) /\ Row \in 1 .. Len(subtasks)
      BY <2>1, RowExists DEF Position, AtCall
    <2>4. \A r \in base + 1 .. Row : subtasks[r] = "done"
      BY <2>1, <2>3 DEF Position, TypeOK, Row
    <2>5. \A i \in DOMAIN calls : FinishedBy(i) => i = Len(calls)
      BY <1>t DEF CallRows, CallsSound, CallSound, FinishedBy
    <2>6. Row \in base + 1 .. Row
      BY <2>3 DEF Position, TypeOK, Row
    <2>7. FinishedBy(Len(calls))
      BY <2>2, <2>4, <2>6 DEF FinishedBy
    <2> QED
      BY <2>1, <2>2, <2>4, <2>5, <2>7, <1>t DEF HonestSuccess, FinishedBy
  <1>3. CASE Stopped \/ Tick \/ UNCHANGED vars
    <2>1. UNCHANGED <<goal, subtasks, calls, base>>
      BY <1>3 DEF Stopped, Tick, vars, db, inPlan
    <2> QED
      BY <2>1 DEF HonestSuccess, FinishedBy
  <1>4. CASE MissingGoal \/ ProviderRaises \/ ArgumentsRejected \/ Crash \/ CallPlanner
    <2>1. goal' = goal /\ goal.status # "succeeded"
      BY <1>4 DEF MissingGoal, ProviderRaises, ArgumentsRejected, Crash, CallPlanner, Raise, db,
         Admitted, Control, Running, Ended, TypeOK, PCs
    <2> QED
      BY <1>1, <2>1
  <1>5. CASE CreateGoal \/ MarkRunning \/ Aborts
    <2>1. goal'.status # "succeeded"
      <3>1. CASE CreateGoal
        BY <3>1 DEF CreateGoal, NewGoal
      <3>2. CASE MarkRunning
        BY <1>t, <3>2 DEF MarkRunning, GoalRow
      <3>3. CASE Aborts
        BY <1>t, <3>3, AbortSteps DEF Abort, GoalRow
      <3> QED
        BY <1>5, <3>1, <3>2, <3>3
    <2> QED
      BY <1>1, <2>1
  <1>6. CASE AdoptPlan \/ SelectorFails \/ SelectTool \/ RecordNoTool \/ RecordReplan
             \/ ToolTimesOut \/ ToolErrors \/ ToolReturns \/ RejectOutput \/ AcceptOutput
    <2>1. goal' = goal /\ goal.status # "succeeded"
      BY <1>6 DEF AdoptPlan, SelectorFails, SelectTool, RecordNoTool, RecordReplan, ToolTimesOut,
         ToolErrors, ToolFails, ToolReturns, RejectOutput, AcceptOutput, Admitted, Control, Running
    <2> QED
      BY <1>1, <2>1
  <1> QED
    BY <1>2, <1>3, <1>4, <1>5, <1>6 DEF Next, Step, Planning, Selecting, Invoking, Aborts
-----------------------------------------------------------------------------
(* The theorems. *)

LEMMA InvInit == Init => IInv
  <1> SUFFICES ASSUME Init PROVE IInv
    OBVIOUS
  <1>1. TypeOK
    BY TypeInit
  <1>2. /\ goal.status \in {"absent", "pending"} /\ goal.reason = "none" /\ goal.final = 0
        /\ pc \in {"create", "start"}
        /\ pc = "create" => goal.status = "absent"
    BY DEF Init, NewGoal
  <1>3. /\ subtasks = <<>> /\ calls = <<>> /\ events = <<>> /\ plan = <<>>
        /\ Len(subtasks) = 0 /\ Len(calls) = 0 /\ Len(events) = 0 /\ Len(plan) = 0
        /\ DOMAIN calls = {} /\ DOMAIN events = {}
    BY DEF Init
  <1>4. Control
    BY <1>2, <1>3 DEF Control, Running
  <1>5. Counters
    BY <1>2, <1>3 DEF Init, Counters, Running, Ended
  <1>6. Position
    BY <1>2, <1>3 DEF Init, Position, AtCall, Row
  <1>7. CallRows /\ HeldCall /\ EventRows
    BY <1>2, <1>3 DEF CallRows, CallsSound, CallsInOrder, DoneOnCall, HeldCall, AtCall, EventRows,
       EventsTellTheTruth
  <1>8. HonestAbort /\ HonestSuccess
    BY <1>2 DEF HonestAbort, HonestSuccess
  <1> QED
    BY <1>1, <1>4, <1>5, <1>6, <1>7, <1>8 DEF IInv

\* Every step of Runner keeps IInv.
LEMMA InvStep == IInv /\ [Next]_vars => IInv'
  BY TypeStep, ControlStep, CountersStep, PositionStep, CallRowsStep, HeldCallStep,
     EventRowsStep, HonestAbortStep, HonestSuccessStep DEF IInv

\* IInv is inductive: every step of the loop, and every way out of it, keeps
\* what the program points say of the committed rows.
THEOREM InductiveInvariant == Spec => []IInv
  BY InvInit, InvStep, PTL DEF Spec

\* Every variable keeps its type.
THEOREM TypeCorrect == Spec => []TypeOK
  <1>1. IInv => TypeOK
    BY DEF IInv
  <1> QED
    BY <1>1, InductiveInvariant, PTL

\* The budgets on steps, replans and cost hold, and what is begun after the wall
\* clock ran out fits in one plan, for every registry, every set of plans and
\* every value of the budgets (run_loop's checks in runner.py).
THEOREM BudgetSafety == Spec => []BudgetsHold
  <1>1. IInv => BudgetsHold
    BY DEF IInv, Counters, BudgetsHold
  <1> QED
    BY <1>1, InductiveInvariant, PTL

\* An aborted goal states a reason that its rows bear out.
THEOREM AbortsAreHonest == Spec => []HonestAbort
  <1>1. IInv => HonestAbort
    BY DEF IInv
  <1> QED
    BY <1>1, InductiveInvariant, PTL

\* A goal succeeds on the valid output of its last call, a finish, with the
\* subtasks before it done.
THEOREM SuccessesAreHonest == Spec => []HonestSuccess
  <1>1. IInv => HonestSuccess
    BY DEF IInv
  <1> QED
    BY <1>1, InductiveInvariant, PTL

\* At every instant, and so after a crash at any point, the rows of subtasks
\* and calls explain each other and no subtask was tried twice.
THEOREM TraceIsExplained == Spec => []TraceExplained
  <1>1. IInv => TraceExplained
    <2> SUFFICES ASSUME IInv PROVE TraceExplained
      OBVIOUS
    <2>t. /\ DOMAIN calls = 1 .. Len(calls) /\ DOMAIN subtasks = 1 .. Len(subtasks)
          /\ pc \in PCs /\ goal \in GoalRow
      BY DEF IInv, TypeOK
    <2>1. \A i, j \in DOMAIN calls : i < j => calls[i].sub < calls[j].sub
      BY <2>t DEF IInv, CallRows, CallsInOrder
    <2>2. \A r \in DOMAIN subtasks : subtasks[r] = "done" =>
            \E i \in DOMAIN calls : calls[i].sub = r /\ calls[i].verdict = "valid"
      BY <2>t DEF IInv, CallRows, DoneOnCall
    <2>3. pc \in {"invoking", "invalid"} => goal.status = "running"
      BY DEF IInv, Control, Running
    <2>4. pc \in {"raised", "crashed"} /\ DOMAIN calls # {} => goal.status = "running"
      BY DEF IInv, Control
    <2>5. ASSUME NEW i \in DOMAIN calls
          PROVE  /\ CallFailed(i) => \/ subtasks[calls[i].sub] = "failed"
                                     \/ i = Len(calls) /\ goal.status = "running"
                 /\ OpenCall(i) => i = Len(calls) /\ goal.status = "running"
      <3>1. CallSound(i)
        BY <2>t DEF IInv, CallRows, CallsSound
      <3> QED
        BY <2>3, <2>4, <3>1 DEF CallSound
    <2>6. goal.status \notin {"absent", "pending", "running"} => pc \in {"aborted", "succeeded"}
      BY <2>t DEF IInv, Control, PCs, Running, Ended
    <2>7. pc \in {"aborted", "succeeded"} => \A r \in DOMAIN subtasks : subtasks[r] # "running"
      BY <2>t DEF IInv, Position
    <2> QED
      BY <2>1, <2>2, <2>5, <2>6, <2>7 DEF TraceExplained
  <1> QED
    BY <1>1, InductiveInvariant, PTL

\* Each replan event names the failure that caused it.
THEOREM EventsAreTrue == Spec => []EventsTellTheTruth
  <1>1. IInv => EventsTellTheTruth
    BY DEF IInv, EventRows
  <1> QED
    BY <1>1, InductiveInvariant, PTL
=============================================================================
