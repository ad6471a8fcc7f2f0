----------------------------- MODULE GoalTrace ------------------------------
(***************************************************************************)
(* What the database promises a reader of a goal (GET /v1/goals/{id} and   *)
(* /trace, the CLI's replay): the trace only grows.                        *)
(*                                                                         *)
(*   - The status goes from pending to running to one terminal value, and  *)
(*     the loop never changes the row again.  In the service the goal may  *)
(*     be condemned once, whatever its status is, and nothing follows.     *)
(*   - Subtasks, calls and replan events are appended, while the goal is   *)
(*     running, and never removed.                                         *)
(*   - A call is appended open, to a subtask that no call has reached, and *)
(*     is settled once; no other call is opened before.                    *)
(*   - A subtask leaves pending once, and done and failed are final.       *)
(*                                                                         *)
(* The module says nothing of the loop that writes the rows: no budget, no *)
(* plan, no counter.  Runner implements it (RunnerTrace).                  *)
(***************************************************************************)
EXTENDS Naturals, Sequences

CONSTANTS
  Tools,    \* the names a call may carry
  Finish,   \* the tool whose valid output ends the goal
  Invalid,  \* the verdicts that reject an output
  Kinds     \* the kinds of failure a replan event may carry

VARIABLES
  status,   \* the status of the goal
  rows,     \* the statuses of its subtasks, by idx
  calls,    \* its tool calls, in the order they were made
  events    \* its replan events

trace == <<status, rows, calls, events>>

Open(c)   == c.status = "ok" /\ c.verdict = "none"
Failed(c) == c.status # "ok" \/ c.verdict \in Invalid
Settled   == \A i \in DOMAIN calls : ~Open(calls[i])

\* No call has reached row r.
Untouched(r) == rows[r] = "pending" /\ \A i \in DOMAIN calls : calls[i].sub < r

Init ==
  /\ status \in {"absent", "pending"}
  /\ rows = <<>> /\ calls = <<>> /\ events = <<>>

Create ==
  /\ status = "absent" /\ status' = "pending"
  /\ UNCHANGED <<rows, calls, events>>

Start ==
  /\ status = "pending" /\ status' = "running"
  /\ UNCHANGED <<rows, calls, events>>

\* A plan: pending rows after those there are.
Plan ==
  /\ status = "running" /\ Settled
  /\ Len(rows') > Len(rows)
  /\ rows' = [r \in 1 .. Len(rows') |-> IF r <= Len(rows) THEN rows[r] ELSE "pending"]
  /\ UNCHANGED <<status, calls, events>>

Call(r) ==
  /\ status = "running" /\ Settled
  /\ Untouched(r)
  /\ \E t \in Tools :
       calls' = Append(calls, [sub |-> r, tool |-> t, status |-> "ok", verdict |-> "none"])
  /\ UNCHANGED <<status, rows, events>>

\* The tool failed: the call and its subtask are settled together.
Fail ==
  /\ status = "running" /\ calls # <<>> /\ Open(calls[Len(calls)])
  /\ \E s \in {"error", "timeout"} : calls' = [calls EXCEPT ![Len(calls)].status = s]
  /\ rows' = [rows EXCEPT ![calls[Len(calls)].sub] = "failed"]
  /\ UNCHANGED <<status, events>>

\* The tool answered: the call has its verdict, the subtask not yet.
Judge ==
  /\ status = "running" /\ calls # <<>> /\ Open(calls[Len(calls)])
  /\ \E v \in {"valid"} \cup Invalid : calls' = [calls EXCEPT ![Len(calls)].verdict = v]
  /\ rows' = [rows EXCEPT ![calls[Len(calls)].sub] = "running"]
  /\ UNCHANGED <<status, events>>

\* The subtask follows the verdict of its call.
Close ==
  /\ status = "running" /\ calls # <<>> /\ Settled
  /\ LET c == calls[Len(calls)]
     IN  /\ rows[c.sub] = "running"
         /\ rows' = [rows EXCEPT ![c.sub] = IF c.verdict = "valid" THEN "done" ELSE "failed"]
  /\ UNCHANGED <<status, calls, events>>

\* A subtask no tool was found for.
Skip(r) ==
  /\ status = "running" /\ Settled
  /\ Untouched(r)
  /\ rows' = [rows EXCEPT ![r] = "failed"]
  /\ UNCHANGED <<status, calls, events>>

\* A replan event, for the last call if it failed or for no call.
Explain ==
  /\ status = "running" /\ Settled
  /\ \E k \in Kinds, c \in {0, Len(calls)} :
       /\ c # 0 => Failed(calls[c]) /\ rows[calls[c].sub] = "failed"
       /\ events' = Append(events, [idx |-> Len(events) + 1, call |-> c, kind |-> k])
  /\ UNCHANGED <<status, rows, calls>>

Abort ==
  /\ status = "running" /\ Settled
  /\ \A r \in DOMAIN rows : rows[r] # "running"
  /\ status' = "aborted"
  /\ UNCHANGED <<rows, calls, events>>

Succeed ==
  /\ status = "running" /\ Settled
  /\ \A r \in DOMAIN rows : rows[r] # "running"
  /\ calls # <<>>
  /\ calls[Len(calls)].tool = Finish /\ calls[Len(calls)].verdict = "valid"
  /\ status' = "succeeded"
  /\ UNCHANGED <<rows, calls, events>>

Next ==
  \/ Create \/ Start \/ Plan \/ Fail \/ Judge \/ Close \/ Explain \/ Abort \/ Succeed
  \/ \E r \in DOMAIN rows : Call(r) \/ Skip(r)

Spec == Init /\ [][Next]_trace

\* The handler of exceptions of the service: the status and no row.
Condemn ==
  /\ status \notin {"absent", "failed"} /\ status' = "failed"
  /\ UNCHANGED <<rows, calls, events>>

ServiceSpec == Init /\ [][Next \/ Condemn]_trace
=============================================================================
