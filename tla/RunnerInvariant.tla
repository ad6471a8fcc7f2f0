-------------------------- MODULE RunnerInvariant ---------------------------
(***************************************************************************)
(* The inductive invariant of Runner: what the loop knows at each of its   *)
(* program points about the rows it has committed.                         *)
(***************************************************************************)
EXTENDS RunnerTrace

\* The points at which the loop holds a call of the subtask it is at.
AtCall == {"invoking", "invalid", "valid", "finished", "record"}

\* The status of the goal follows the control.
Control ==
  /\ pc = "create" => goal.status = "absent"
  /\ pc = "start" => goal.status \in {"absent", "pending"}
  /\ pc \in Running => goal.status = "running"
  /\ pc \in {"raised", "crashed"} => goal.status \in {"absent", "pending", "running"}
  /\ pc \in {"aborted", "succeeded"} => goal.status = pc
  /\ goal.status # "aborted" => goal.reason = "none"
  /\ goal.status = "aborted" => goal.reason # "none"
  /\ goal.status # "succeeded" => goal.final = 0
  /\ goal.status \in {"absent", "pending"} =>
       subtasks = <<>> /\ calls = <<>> /\ events = <<>>

\* The local counters count the rows and keep the budgets.
Counters ==
  /\ steps = Len(calls) /\ steps <= MaxSteps
  /\ replans = Len(events) /\ replans <= MaxReplans + 1
  /\ pc \in Running \ {"top", "giveUp"} => replans <= MaxReplans
  /\ pc = "giveUp" => replans = MaxReplans + 1
  /\ cost <= MaxCost + MaxSelectCost + MaxPlanCost
  /\ pc \notin Ended => cost <= MaxCost + MaxSelectCost
  /\ late <= pos /\ late <= Len(plan)
  /\ pc = "subtask" => late < pos
  /\ pc \in {"create", "start", "planning"} \/ ~expired => late = 0

\* The rows of the plan in hand: done before the loop's position, pending
\* after it, and at it what the program point says.
Position ==
  /\ Len(subtasks) = base + Len(plan)
  /\ 1 <= pos /\ pos <= Len(plan) + 1
  /\ pc \in AtCall \cup {"noTool", "giveUp"} => pos <= Len(plan)
  /\ \A r \in 1 .. Len(subtasks) :
       /\ base < r /\ r < Row => subtasks[r] = "done"
       /\ r > Row => subtasks[r] = "pending"
       /\ subtasks[r] = "running" => r = Row /\ pc \in {"invalid", "valid", "crashed"}
       /\ r = Row =>
            /\ pc \in {"subtask", "invoking"} => subtasks[r] = "pending"
            /\ pc \in {"invalid", "valid"} => subtasks[r] = "running"
            /\ pc \in {"noTool", "giveUp", "record"} => subtasks[r] = "failed"
            /\ pc = "finished" => subtasks[r] = "done"

\* Each call is what its row says.
CallSound(i) ==
  /\ calls[i].sub \in 1 .. Len(subtasks)
  /\ calls[i].sub <= Row
  /\ pc = "subtask" => calls[i].sub < Row
  /\ OpenCall(i) => i = Len(calls) /\ pc \in {"invoking", "raised", "crashed"}
  /\ calls[i].status # "ok" => calls[i].verdict = "none"
  /\ CallFailed(i) => \/ subtasks[calls[i].sub] = "failed"
                      \/ i = Len(calls) /\ pc \in {"invalid", "crashed"}
  /\ calls[i].tool = Finish /\ calls[i].verdict = "valid" =>
       i = Len(calls) /\ pc \in {"valid", "finished", "succeeded", "crashed"}

CallsSound == \A i \in 1 .. Len(calls) : CallSound(i)

\* The calls go up the rows.
CallsInOrder == \A i, j \in 1 .. Len(calls) : i < j => calls[i].sub < calls[j].sub

\* A subtask is done on a valid output.
DoneOnCall ==
  \A r \in 1 .. Len(subtasks) : subtasks[r] = "done" =>
    \E i \in 1 .. Len(calls) : calls[i].sub = r /\ calls[i].verdict = "valid"

CallRows == CallsSound /\ CallsInOrder /\ DoneOnCall

\* The last call, at the program points that hold it.
HeldCall ==
  pc \in AtCall =>
    /\ Len(calls) > 0
    /\ LastCall.sub = Row
    /\ pc = "invoking" => OpenCall(Len(calls))
    /\ pc = "invalid" => LastCall.status = "ok" /\ LastCall.verdict \in InvalidKinds
    /\ pc \in {"valid", "finished"} => LastCall.status = "ok" /\ LastCall.verdict = "valid"
    /\ pc = "finished" => LastCall.tool = Finish
    /\ pc = "record" => CallFailed(Len(calls)) /\ lastFailure = KindOf(Len(calls))

\* The replan events, and the failure the loop carries to the next one.
EventRows ==
  /\ EventsTellTheTruth
  /\ \A k \in 1 .. Len(events) :
       /\ events[k].call <= Len(calls)
       /\ pc \in AtCall => events[k].call < Len(calls)
  /\ pc = "noTool" => lastFailure = "no_tool_for_subtask"
  /\ pc = "record" => lastFailure # "none"

IInv ==
  /\ TypeOK /\ Control /\ Counters /\ Position /\ CallRows /\ HeldCall /\ EventRows
  /\ HonestAbort /\ HonestSuccess
=============================================================================
