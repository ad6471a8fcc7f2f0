------------------------- MODULE EvalSuiteInvariant -------------------------
(***************************************************************************)
(* The inductive invariant of EvalSuite on the instance the harness runs:  *)
(* how far a goal of the suite has come while none of its calls was slow,  *)
(* what the rows of the report and of the baseline are by then, and how a  *)
(* goal goes on that had one slow call.                                    *)
(***************************************************************************)
EXTENDS EvalSuite, RunnerInvariant

-----------------------------------------------------------------------------
(* A script whose calls all work: its first plan and their arguments. *)

FirstPlan(key) == PlanScript[key][1]

\* No script names a tool more than twice with arguments that differ: a call
\* has the first arguments of its tool, or the last.
ArgAt(key, n) ==
  LET tools == FirstPlan(key)
      args  == ToolArgs(key, tools[n])
  IN  IF \E m \in 1 .. n - 1 : tools[m] = tools[n] THEN args[Len(args)] ELSE args[1]

\* The files that the first n calls write.
WrittenBy(key, n) ==
  {ArgAt(key, m) : m \in {i \in 1 .. n : FirstPlan(key)[i] = "write_file"}}
-----------------------------------------------------------------------------
(* The goal in hand. *)

BeforePlan == {"create", "start", "top", "planning"}

\* The first plan is followed to its end, and its last call is the finish.
PlainRun(key) ==
  LET tools == FirstPlan(key)
      n     == Len(calls)
  IN  /\ replans = 0
      /\ pc \in BeforePlan =>
           calls = <<>> /\ planIdx = 0 /\ toolIdx = [tool \in Tools |-> 0]
      /\ pc \notin BeforePlan =>
           /\ pc \in {"subtask", "invoking", "valid", "finished", "succeeded"}
           /\ plan = tools /\ planIdx = 1
           /\ n <= Len(tools)
           /\ \A i \in 1 .. n : calls[i].tool = tools[i] /\ calls[i].status = "ok"
           /\ pc = "subtask" => pos = n + 1 /\ n < Len(tools)
           /\ pc \in {"invoking", "valid", "finished"} => pos = n
           /\ pc \in {"finished", "succeeded"} => n = Len(tools)
           /\ \A t \in Tools : toolIdx[t] = 0 <=> \A i \in 1 .. n : tools[i] # t
           /\ WrittenBy(key, IF pc = "invoking" THEN n - 1 ELSE n) \subseteq files
           /\ pc = "invoking" => arg = ArgAt(key, n)

\* send_email is not registered: no call is made, and the replans run out.
UnregisteredRun ==
  /\ pc \in BeforePlan \cup {"subtask", "noTool", "giveUp", "aborted"}
  /\ calls = <<>>
  /\ pc \in {"subtask", "noTool"} => plan = <<"send_email">> /\ pos = 1
  /\ pc = "aborted" => goal.reason = "max_replans_exceeded"

\* extract_json is refused without its hint, and gets it after one replan.
StrictRun ==
  LET n == Len(calls)
  IN  \/ /\ replans = 0
         /\ pc \in BeforePlan => calls = <<>> /\ planIdx = 0 /\ toolIdx["extract_json"] = 0
         /\ pc \notin BeforePlan =>
              /\ pc \in {"subtask", "invoking", "record"}
              /\ plan = <<"extract_json", "finish">> /\ planIdx = 1 /\ pos = 1
              /\ pc = "subtask" => calls = <<>> /\ toolIdx["extract_json"] = 0
              /\ pc = "invoking" => n = 1 /\ calls[1].tool = "extract_json" /\ arg = "noHint"
              /\ pc = "record" => n = 1 /\ calls[1].status = "error"
      \/ /\ replans = 1 /\ n \in 1 .. 3 /\ calls[1].status = "error"
         /\ pc \in {"top", "planning"} => n = 1 /\ planIdx = 1
         /\ pc \notin {"top", "planning"} =>
              /\ pc \in {"subtask", "invoking", "valid", "finished", "succeeded"}
              /\ plan = <<"extract_json", "finish">> /\ planIdx = 2
              /\ \A i \in 2 .. n : calls[i].tool = plan[i - 1] /\ calls[i].status = "ok"
              /\ pc = "subtask" => pos = n /\ n < 3
              /\ pc \in {"invoking", "valid", "finished"} => pos = n - 1 /\ n > 1
              /\ pc \in {"finished", "succeeded"} => n = 3
              /\ pc = "invoking" /\ n = 2 => arg = "hint"

\* A slow call has cost a replan that the record does not have, or is about to.
SlowRun ==
  replans + (IF pc = "record" THEN 1 ELSE 0) > Recorded[at].replans

GoalOnCourse ==
  /\ pc = "start" => goal.status = "pending"
  /\ at \in DOMAIN Suite =>
       /\ text = Suite[at].text
       /\ Elements(Fixtures) \subseteq files
       /\ at \in slowGoals => SlowRun
       /\ at \notin slowGoals \cup {13, 15} => PlainRun(Key)
       /\ at = 13 => at \notin slowGoals /\ UnregisteredRun
       /\ at = 15 /\ at \notin slowGoals => StrictRun
-----------------------------------------------------------------------------
(* The report and the baseline. *)

\* The rows that a run with these slow goals can have made.
Faithful(rows, slowOnes) ==
  \A i \in DOMAIN rows :
    IF i \in slowOnes THEN rows[i].replans > Recorded[i].replans
                      ELSE rows[i] = Recorded[i]

Bookkeeping ==
  /\ at \in 0 .. Len(Suite) + 1
  /\ planIdx \in Nat /\ toolIdx \in [Tools -> Nat] /\ slow \in Nat
  /\ slowGoals \subseteq DOMAIN Suite \cap 1 .. at
  /\ DOMAIN report = 1 .. at - 1
  /\ Faithful(report, slowGoals)
  /\ baseline = Torn \/ (DOMAIN baseline = DOMAIN Suite /\ Faithful(baseline, slowBase))
  /\ slowBase \subseteq DOMAIN Suite
  /\ exit \in {"writing", "match", "mismatch", "within", "drifted"} => at = Len(Suite) + 1
  /\ exit = "writing" => baseline = Torn
  /\ exit \in {"match", "mismatch", "within", "drifted"} => baseline # Torn
  /\ exit = "match" => report = baseline
  /\ exit = "mismatch" => report # baseline
  /\ exit = "within" => WithinDrift(report, baseline)
  /\ exit = "drifted" => ~WithinDrift(report, baseline)

\* What a row can be at most, with the budget of the harness: six replans, a plan
\* for each and one before, and twenty steps.
RowFits(row) ==
  /\ row.status \in {"succeeded", "aborted"}
  /\ row.steps \in 0 .. 20 /\ row.replans \in 0 .. 6
  /\ row.cost \in 0 .. 136
  /\ Elements(row.tools) \subseteq Tools

RowsFit ==
  /\ \A i \in DOMAIN report : RowFits(report[i])
  /\ \A i \in DOMAIN baseline : RowFits(baseline[i])

SuiteInv == GoalOnCourse /\ Bookkeeping /\ RowsFit
-----------------------------------------------------------------------------
(* A goal that had one slow call. *)

\* The files there will be when the call in hand has worked.
Soon == IF pc = "invoking" THEN Written ELSE files

\* The scripts that write two files, or one that is no fixture, and read each
\* right after it is written.
PairedKeys == {"compose_report", "data_pipeline", "research_aggregate", "audit_trail"}

\* A read is made after a write, the first write is of the first path, and a
\* write after a read is of the last one.
PairedReads(key) ==
  LET paths == WritePaths[key]
      made  == IF pc = "subtask" THEN pos - 1 ELSE pos
  IN  /\ toolIdx["read_file"] > 0 => toolIdx["write_file"] > 0
      /\ toolIdx["write_file"] > 0 => paths[1] \in Soon
      /\ pc \in {"subtask", "invoking", "valid"} /\ made > 0 /\ plan[made] = "write_file" =>
           /\ toolIdx["write_file"] > 0
           /\ toolIdx["read_file"] > 0 => paths[Len(paths)] \in Soon

\* What keeps the reads of the later plan from failing.
ReadsFind(key) ==
  \/ key \notin DOMAIN ReadPaths
  \/ Elements(ReadPaths[key]) \subseteq files
  \/ key \in PairedKeys /\ PairedReads(key)

\* The replan is still to be recorded, or was, and the last plan of the script is
\* followed from its first subtask.
Recovers(key) ==
  LET n    == Len(calls)
      last == LastPlan(key)
      once == Recorded[at].replans + 1
  IN  /\ ReadsFind(key)
      /\ pc \in {"record", "top", "planning"} =>
           /\ replans = IF pc = "record" THEN once - 1 ELSE once
           /\ n <= 10 /\ planIdx >= Len(PlanScript[key]) - 1
      /\ pc \notin {"record", "top", "planning"} =>
           /\ pc \in {"subtask", "invoking", "valid", "finished", "succeeded"}
           /\ replans = once /\ plan = last
           /\ key = "extract_strict" => planIdx = 2
           /\ pc # "succeeded" =>
                pos \in 1 .. Len(last) /\ n <= (IF pc = "subtask" THEN 9 ELSE 10) + pos
           /\ pc \in {"invoking", "valid"} => LastCall.tool = last[pos]
           /\ pc = "invoking" => Works

\* The script of kitchen_sink reads ahead: its write of the file comes after the
\* call that was slow, and is never reached.
ReadsAhead ==
  /\ Key = "kitchen_sink" /\ "kitchen" \notin files /\ toolIdx["read_file"] > 0
  /\ pc \in {"record", "top", "planning", "subtask", "invoking", "aborted"}
  /\ pc \in {"subtask", "invoking"} => plan = LastPlan("kitchen_sink") /\ pos = 1
  /\ pc = "invoking" => LastCall.tool = "read_file" /\ arg = "kitchen"

\* The goal after it does not write that file.
WritesOwn ==
  at = 20 /\ pc = "invoking" /\ LastCall.tool = "write_file" => arg # "kitchen"

RecoverInv ==
  /\ WritesOwn
  /\ at \in slowGoals \ slowTwice => Recovers(Key) \/ ReadsAhead
  /\ \A i \in (slowGoals \ slowTwice) \cap DOMAIN report :
       \/ report[i].status = "succeeded" /\ report[i].replans = Recorded[i].replans + 1
       \/ i = 19 /\ "kitchen" \notin files
=============================================================================
