------------------------ MODULE ParallelRunnerProofs ------------------------
(***************************************************************************)
(* The loop of run_parallel keeps what the scheduler promises, plan after  *)
(* plan, for every set of plans, cap and number of replans; hence no two   *)
(* plans overlap.  On top of that, the rows, the counts, the outputs kept  *)
(* and the goal row agree with each other and with the outcomes, and the   *)
(* replans bound the work.                                                 *)
(***************************************************************************)
EXTENDS ParallelRunner, SchedulerProofs, FiniteSetTheorems, SequenceTheorems

\* Where the loop is when the scheduler has returned, or was not called yet.
BetweenRuns == {"top", "planning", "record", "finished", "exhausted", "giveUp",
                "succeeded", "aborted"}
InRun       == {"linking", "executing"}

\* Before the first plan there is none, and the scheduler is at rest.
NoPlanYet ==
  /\ plan = <<>> /\ running = {} /\ waiting = {} /\ spc = "returned"
  /\ rpc \in {"top", "planning", "aborted", "raised", "crashed"}

\* From then on the scheduler's invariant holds, and the loop goes on only when
\* the scheduler has returned.
PlanInHand ==
  /\ SInv /\ NothingReady
  /\ rpc \in BetweenRuns \cup InRun \cup {"raised", "crashed"}
  /\ rpc \in BetweenRuns => spc \in {"returned", "aborted"}

PInv == NoPlanYet \/ PlanInHand

USE DEF BetweenRuns, InRun, locals, rvars

LEMMA PlansInit == PInit => PInv
  BY DEF PInit, PInv, NoPlanYet

\* A plan that is adopted starts the scheduler afresh.
LEMMA AdoptIsInit == ASSUME AdoptPlan PROVE Init'
  <1>1. PICK p \in Shapes \ {<<>>} :
          /\ plan' = p
          /\ outcome' = [i \in 1 .. Len(p) |-> "none"]
    BY DEF AdoptPlan
  <1>2. (\E shape \in Shapes : Fresh(shape))'
    BY <1>1 DEF AdoptPlan, Fresh
  <1> QED BY <1>2 DEF Init

\* A fresh scheduler keeps its promises, here after a step.
LEMMA FreshPlan == (Init => SInv /\ NothingReady)'
  <1>1. Init => NothingReady
    BY DEF Init, Fresh, NothingReady
  <1> QED BY <1>1, SchedulerInit, PTL

\* While there is no plan the scheduler has no step to take.
LEMMA NoPlanNoStep == NoPlanYet => ~(Execute \/ Orphaned)
  BY DEF NoPlanYet, Execute, Orphaned, Coroutine, TaskStep, Schedule, Collect,
         CollectFailure, CollectRaise, Drain, CancelWaiting, Start, Finish, Suspended

\* The stop of the process takes the tasks with it and breaks nothing.
LEMMA CrashKeeps == ASSUME SInv, NothingReady, Crash PROVE SInv' /\ NothingReady'
  <1>1. /\ waiting' = {} /\ running' = {}
        /\ UNCHANGED <<plan, spc, scheduled, outcome, completed, lastFailed>>
    BY DEF Crash
  <1>2. Indices' = Indices /\ (\A i : Dependencies(i)' = Dependencies(i)) /\ Ready' = Ready
    BY <1>1 DEF Indices, Dependencies, Ready
  <1> QED
    BY <1>1, <1>2 DEF SInv, STypeOK, DependenciesRespected, Sequential, NothingLeftBehind,
                      FailureIsReported, NothingReady, Ended

LEMMA PlansStep == PInv /\ [PNext]_pvars => PInv'
  <1> SUFFICES ASSUME PInv, [PNext]_pvars PROVE PInv'
    OBVIOUS
  <1>k. ASSUME SInv, NothingReady, [Next]_svars PROVE SInv' /\ NothingReady'
    <2>1. SInv'
      BY <1>k, STypeStep, DependenciesStep, NothingLeftStep, FailureStep DEF SInv
    <2> QED BY <1>k, <2>1, ReadyStep DEF SInv
  <1>1. CASE AdoptPlan
    <2>1. SInv' /\ NothingReady'
      BY <1>1, AdoptIsInit, FreshPlan
    <2> QED BY <1>1, <2>1 DEF AdoptPlan, PInv, PlanInHand
  <1>2. CASE Execute
    <2>1. PlanInHand
      BY <1>2, NoPlanNoStep DEF PInv
    <2>2. SInv' /\ NothingReady'
      BY <1>2, <1>k, <2>1 DEF Execute, Next, PlanInHand
    <2> QED BY <1>2, <2>1, <2>2 DEF Execute, PInv, PlanInHand
  <1>3. CASE Orphaned
    <2>1. PlanInHand
      BY <1>3, NoPlanNoStep DEF PInv
    <2>2. SInv' /\ NothingReady'
      BY <1>3, <1>k, <2>1 DEF Orphaned, Next, PlanInHand
    <2> QED BY <1>3, <2>1, <2>2 DEF Orphaned, PInv, PlanInHand
  <1>4. CASE Crash
    BY <1>4, CrashKeeps DEF Crash, PInv, PlanInHand, NoPlanYet
  <1>5. CASE UNCHANGED svars
    <2>1. CASE NoPlanYet
      BY <1>5, <2>1, <1>1, <1>2, <1>3, <1>4
         DEF PNext, Loop, CallPlanner, PlannerFails, EmptyPlan, LinkRows, LinkRaises,
             ExecuteRaises, Mirror, Succeed, PlanExhausted, RecordReplan, GiveUp,
             PlannerRaises, AtRest, Abort, Raise, pvars, svars, NoPlanYet, PInv
    <2>2. CASE PlanInHand
      <3>1. SInv' /\ NothingReady'
        BY <1>5, <1>k, <2>2 DEF PlanInHand
      <3>2. /\ rpc' \in BetweenRuns \cup InRun \cup {"raised", "crashed"}
            /\ rpc' \in BetweenRuns => spc' \in {"returned", "aborted"}
        BY <1>5, <2>2, <1>1, <1>2, <1>3, <1>4
           DEF PNext, Loop, CallPlanner, PlannerFails, EmptyPlan, LinkRows, LinkRaises,
               ExecuteRaises, Mirror, Succeed, PlanExhausted, RecordReplan, GiveUp,
               PlannerRaises, AtRest, Abort, Raise, pvars, svars, PlanInHand, AdoptPlan,
               Execute, Orphaned, Crash
      <3> QED BY <3>1, <3>2 DEF PInv, PlanInHand
    <2> QED BY <2>1, <2>2 DEF PInv
  <1> QED
    BY <1>1, <1>2, <1>3, <1>4, <1>5
    DEF PNext, Loop, CallPlanner, PlannerFails, EmptyPlan, LinkRows, LinkRaises,
        ExecuteRaises, Mirror, Succeed, PlanExhausted, RecordReplan, GiveUp,
        PlannerRaises, AtRest, Abort, Raise, pvars

\* What the loop of run_parallel knows of the scheduler is inductive: through
\* every replan, exception and stop the scheduler's invariants hold of the plan
\* in hand.
THEOREM PlansInvariant == PSpec => []PInv
  BY PlansInit, PlansStep, PTL DEF PSpec

\* When the planner is asked, a replan recorded or the goal ended, no subtask of
\* an earlier plan runs or waits.
THEOREM PlansDoNotOverlap == PSpec => []NoOverlapOfPlans
  <1>1. PInv => NoOverlapOfPlans
    BY DEF PInv, NoPlanYet, PlanInHand, NoOverlapOfPlans, SInv, NothingLeftBehind
  <1> QED BY <1>1, PlansInvariant, PTL
-----------------------------------------------------------------------------
(* The order of the outcomes: Sorted lists a finite set of indices by rank. *)

Rank(S) == [i \in S |-> Cardinality({j \in S : j <= i})]

\* The rank of an index is its place in the list, and every place is taken.
LEMMA RankFacts ==
  ASSUME NEW S \in SUBSET Nat, IsFiniteSet(S)
  PROVE  /\ Rank(S) \in [S -> 1 .. Cardinality(S)]
         /\ \A i, j \in S : i < j => Rank(S)[i] < Rank(S)[j]
         /\ \A k \in 1 .. Cardinality(S) : \E i \in S : Rank(S)[i] = k
  <1> DEFINE n == Cardinality(S)
             upTo(i) == {j \in S : j <= i}
             rank == [i \in S |-> Cardinality(upTo(i))]
  <1>0. n \in Nat
    BY FS_CardinalityType
  <1>1. ASSUME NEW i \in S PROVE IsFiniteSet(upTo(i)) /\ Cardinality(upTo(i)) \in 1 .. n
    <2>1. upTo(i) \in SUBSET S /\ i \in upTo(i)
      OBVIOUS
    <2>2. IsFiniteSet(upTo(i)) /\ Cardinality(upTo(i)) <= n
      BY <2>1, FS_Subset
    <2>3. Cardinality(upTo(i)) \in Nat /\ Cardinality(upTo(i)) # 0
      BY <2>1, <2>2, FS_CardinalityType, FS_EmptySet
    <2> HIDE DEF upTo
    <2> QED BY <1>0, <2>2, <2>3
  <1>2. ASSUME NEW i \in S, NEW j \in S, i < j
        PROVE  Cardinality(upTo(i)) < Cardinality(upTo(j))
    <2>1. upTo(i) \in SUBSET upTo(j) /\ j \in upTo(j) /\ j \notin upTo(i)
      <3>1. \A k \in S : k \in Nat
        OBVIOUS
      <3>2. \A k \in S : k <= i => k <= j
        BY <1>2, <3>1
      <3>3. j <= j /\ ~(j <= i)
        BY <1>2, <3>1
      <3> QED BY <3>2, <3>3
    <2>2. Cardinality(upTo(i)) <= Cardinality(upTo(j)) /\ Cardinality(upTo(i)) # Cardinality(upTo(j))
      BY <1>1, <2>1, FS_Subset
    <2>3. Cardinality(upTo(i)) \in 1 .. n /\ Cardinality(upTo(j)) \in 1 .. n
      BY <1>1
    <2> HIDE DEF upTo
    <2> QED BY <1>0, <2>2, <2>3
  <1> HIDE DEF upTo
  <1>3. rank \in [S -> 1 .. n] /\ \A i, j \in S : i < j => rank[i] < rank[j]
    BY <1>1, <1>2
  <1>4. rank \in Injection(S, 1 .. n)
    <2>1. ASSUME NEW i \in S, NEW j \in S, i # j PROVE rank[i] # rank[j]
      <3>1. i < j \/ j < i
        BY <2>1
      <3>2. rank[i] \in 1 .. n /\ rank[j] \in 1 .. n
        BY <1>3
      <3> HIDE DEF rank
      <3> QED BY <1>0, <1>3, <3>1, <3>2
    <2> HIDE DEF rank
    <2> QED BY <1>3, <2>1 DEF Injection, IsInjective
  <1>5. IsFiniteSet(1 .. n) /\ Cardinality(1 .. n) = n
    BY <1>0, FS_Interval
  <1>6. rank \in Surjection(S, 1 .. n)
    <2> HIDE DEF rank
    <2> QED BY <1>4, <1>5, FS_Injection
  <1>7. \A k \in 1 .. n : \E i \in S : rank[i] = k
    <2> HIDE DEF rank
    <2> QED BY <1>6 DEF Surjection
  <1>8. rank = Rank(S)
    BY DEF Rank, upTo
  <1> HIDE DEF rank
  <1> QED BY <1>3, <1>7, <1>8

\* Sorted(S) has every member of S once, in increasing order.
LEMMA SortedFacts ==
  ASSUME NEW S \in SUBSET Nat, IsFiniteSet(S)
  PROVE  /\ Sorted(S) \in [1 .. Cardinality(S) -> S]
         /\ \A j, k \in 1 .. Cardinality(S) : j < k => Sorted(S)[j] < Sorted(S)[k]
         /\ \A i \in S : \E k \in 1 .. Cardinality(S) : Sorted(S)[k] = i
  <1> DEFINE n == Cardinality(S)
             Increasing(s) == \A j, k \in DOMAIN s : j < k => s[j] < s[k]
             rank == Rank(S)
             list == [k \in 1 .. n |-> CHOOSE i \in S : rank[i] = k]
  <1>0. n \in Nat
    BY FS_CardinalityType
  <1>1. /\ rank \in [S -> 1 .. n]
        /\ \A i, j \in S : i < j => rank[i] < rank[j]
        /\ \A k \in 1 .. n : \E i \in S : rank[i] = k
    BY RankFacts
  <1> HIDE DEF rank
  <1>2. list \in [1 .. n -> S] /\ \A k \in 1 .. n : rank[list[k]] = k
    BY <1>1
  <1>3. Increasing(list)
    <2> SUFFICES ASSUME NEW j \in 1 .. n, NEW k \in 1 .. n, j < k PROVE list[j] < list[k]
      OBVIOUS
    <2>1. list[j] \in S /\ list[k] \in S /\ rank[list[j]] = j /\ rank[list[k]] = k
      BY <1>2
    <2> HIDE DEF list
    <2>2. list[j] \in Nat /\ list[k] \in Nat
      BY <2>1
    <2>3. ~(list[k] < list[j]) /\ list[k] # list[j]
      <3>1. j \in Nat /\ k \in Nat
        BY <1>0
      <3>2. list[k] < list[j] => k < j
        BY <1>1, <2>1
      <3> QED BY <2>1, <3>1, <3>2
    <2> QED BY <2>2, <2>3
  <1>4. Sorted(S) \in [1 .. n -> S] /\ Increasing(Sorted(S))
    <2>1. \E s \in [1 .. n -> S] : Increasing(s)
      BY <1>2, <1>3
    <2> QED BY <2>1 DEF Sorted
  <1> DEFINE sorted == Sorted(S)
  <1>5. sorted \in Injection(1 .. n, S)
    <2> HIDE DEF sorted
    <2>1. sorted \in [1 .. n -> S] /\ \A j, k \in 1 .. n : j < k => sorted[j] < sorted[k]
      BY <1>4 DEF sorted
    <2>2. ASSUME NEW j \in 1 .. n, NEW k \in 1 .. n, j # k PROVE sorted[j] # sorted[k]
      <3>1. j < k \/ k < j
        BY <1>0, <2>2
      <3>2. sorted[j] \in Nat /\ sorted[k] \in Nat
        BY <2>1
      <3> QED BY <2>1, <3>1, <3>2
    <2> QED BY <2>1, <2>2 DEF Injection, IsInjective
  <1>6. Cardinality(1 .. n) = n
    BY <1>0, FS_Interval
  <1>7. sorted \in Surjection(1 .. n, S)
    BY <1>5, <1>6, FS_Injection
  <1> QED BY <1>4, <1>7 DEF Surjection
-----------------------------------------------------------------------------
(* The rows, the counts and the goal: what the loop keeps.  LoopInv is     *)
(* inductive on top of PInv.                                               *)

Statuses   == {"pending", "done", "failed"}
DoneRows   == {r \in DOMAIN rows : rows[r] = "done"}
FailedRows == {r \in DOMAIN rows : rows[r] = "failed"}
PlanRows   == base + 1 .. base + Len(plan)
PlanDone   == spc = "returned" /\ \A r \in PlanRows : rows[r] = "done"

\* The rows of the plan in hand are the last ones, and pending until the
\* outcomes are mirrored; the outputs are kept in the order of their rows.
ShapeInv ==
  /\ base \in Nat /\ steps \in Nat /\ replans \in Nat
  /\ rows \in Seq(Statuses) /\ Len(rows) = base + Len(plan)
  /\ prior \in Seq(Nat) /\ \A k \in DOMAIN prior : prior[k] \in DOMAIN rows
  /\ \A j, k \in DOMAIN prior : j < k => prior[j] < prior[k]
  /\ rpc \in InRun =>
       /\ \A r \in PlanRows : rows[r] = "pending"
       /\ \A k \in DOMAIN prior : prior[k] <= base

\* Each step has its done row and its output, each replan a failed row; the
\* replan that is about to be recorded has its row already.
CountsInv ==
  /\ steps = Cardinality(DoneRows) /\ steps = Len(prior)
  /\ (IF rpc = "record" THEN replans + 1 ELSE replans) <= Cardinality(FailedRows)

\* The replans are those with an event, and within the budget but for the one
\* that exceeds it and ends the goal.
BudgetInv ==
  /\ events \in Seq(Nat) /\ replans = Len(events)
  /\ reported = IF events = <<>> THEN 0 ELSE events[Len(events)]
  /\ replans <= MaxReplans + 1
  /\ rpc \in {"top", "planning", "record"} \cup InRun => replans <= MaxReplans
  /\ rpc = "giveUp" => replans = MaxReplans + 1

\* What the loop holds of the plan when the scheduler has returned.
OutcomeInv ==
  /\ rpc \in BetweenRuns =>
       \A i \in Indices : i \in Valid <=> \E k \in DOMAIN prior : prior[k] = base + i
  /\ rpc = "record" => spc = "aborted"
  /\ rpc \in {"top", "planning"} /\ reported # 0 => outcome[reported - base] = "failed"
  /\ rpc = "finished" => PlanDone /\ Finishers # {}
  /\ rpc = "exhausted" => PlanDone /\ Finishers = {}

GoalRows ==
  [status : {"running", "succeeded", "aborted"},
   reason : {"none", "planner_error", "planner_returned_empty_plan",
             "plan_exhausted_without_finish", "max_replans_exceeded"},
   steps : Nat, replans : Nat, final : Nat]

\* The goal is running until the loop ends, and ends with what the loop holds.
GoalInv ==
  /\ goal \in GoalRows
  /\ rpc \notin {"succeeded", "aborted"} => goal.status = "running" /\ goal.reason = "none"
  /\ rpc = "succeeded" =>
       /\ goal.status = "succeeded" /\ goal.reason = "none"
       /\ goal.steps = steps /\ goal.replans = replans
       /\ PlanDone /\ Finishers # {} /\ goal.final = base + Final
  /\ rpc = "aborted" =>
       /\ goal.status = "aborted" /\ goal.steps = steps /\ goal.replans = replans
       /\ goal.reason = "plan_exhausted_without_finish" => PlanDone /\ Finishers = {}
       /\ goal.reason = "max_replans_exceeded" => replans = MaxReplans + 1

LoopInv == ShapeInv /\ CountsInv /\ BudgetInv /\ OutcomeInv /\ GoalInv

LEMMA LoopInit == PInit => LoopInv
  <1> SUFFICES ASSUME PInit PROVE LoopInv
    OBVIOUS
  <1>1. ShapeInv
    BY DEF PInit, ShapeInv
  <1>2. CountsInv
    <2>1. DoneRows = {} /\ FailedRows = {}
      BY DEF PInit, DoneRows, FailedRows
    <2> QED BY <2>1, FS_EmptySet DEF PInit, CountsInv
  <1>3. BudgetInv
    BY ReplansAssumption DEF PInit, BudgetInv
  <1>4. OutcomeInv
    BY DEF PInit, OutcomeInv, Indices
  <1>5. GoalInv
    <2>1. goal = [status |-> "running", reason |-> "none", steps |-> 0, replans |-> 0, final |-> 0]
      BY DEF PInit
    <2> QED BY <2>1 DEF PInit, GoalInv, GoalRows
  <1> QED BY <1>1, <1>2, <1>3, <1>4, <1>5 DEF LoopInv

\* The indices of a plan are few, and so are the rows.
LEMMA PlanSets ==
  ASSUME STypeOK
  PROVE  /\ completed \in SUBSET Nat /\ IsFiniteSet(completed)
         /\ Valid \in SUBSET Nat /\ IsFiniteSet(Valid) /\ Valid \subseteq Indices
         /\ IsFiniteSet(Indices) /\ Cardinality(Indices) = Len(plan)
         /\ Cardinality(completed) \in 0 .. Len(plan)
  <1>1. Len(plan) \in Nat /\ completed \in SUBSET Indices /\ Valid \in SUBSET Indices
    BY PlanShape DEF STypeOK, Valid
  <1>2. IsFiniteSet(Indices) /\ Cardinality(Indices) = Len(plan)
    <2>1. /\ IsFiniteSet(1 .. Len(plan))
          /\ Cardinality(1 .. Len(plan)) = IF 1 > Len(plan) THEN 0 ELSE Len(plan) - 1 + 1
      BY <1>1, FS_Interval, SMTT(20)
    <2> QED BY <1>1, <2>1 DEF Indices
  <1>3. /\ IsFiniteSet(completed) /\ Cardinality(completed) <= Len(plan)
        /\ IsFiniteSet(Valid)
    BY <1>1, <1>2, FS_Subset
  <1>4. Cardinality(completed) \in Nat
    BY <1>3, FS_CardinalityType
  <1> QED BY <1>1, <1>2, <1>3, <1>4, PlanShape

LEMMA RowSets ==
  ASSUME ShapeInv
  PROVE  IsFiniteSet(DOMAIN rows) /\ IsFiniteSet(DoneRows) /\ IsFiniteSet(FailedRows)
  <1>1. IsFiniteSet(DOMAIN rows)
    BY FS_Interval DEF ShapeInv
  <1>2. DoneRows \in SUBSET DOMAIN rows /\ FailedRows \in SUBSET DOMAIN rows
    BY DEF DoneRows, FailedRows
  <1> QED BY <1>1, <1>2, FS_Subset

\* The outcomes on the rows: each valid one makes a row done, a failed one makes
\* a row failed, and the rows of earlier plans stay.
LEMMA MirrorFacts ==
  ASSUME STypeOK, ShapeInv, rpc = "executing"
  PROVE  /\ MirroredRows \in Seq(Statuses) /\ Len(MirroredRows) = Len(rows)
         /\ Cardinality({r \in DOMAIN rows : MirroredRows[r] = "done"})
              = Cardinality(DoneRows) + Cardinality(Valid)
         /\ Cardinality(FailedRows) <= Cardinality({r \in DOMAIN rows : MirroredRows[r] = "failed"})
         /\ (\E i \in completed : outcome[i] = "failed") =>
              Cardinality(FailedRows) + 1
                <= Cardinality({r \in DOMAIN rows : MirroredRows[r] = "failed"})
         /\ completed = Indices /\ (\A i \in Indices : outcome[i] \in Ok) =>
              \A r \in PlanRows : MirroredRows[r] = "done"
  <1> DEFINE n == Cardinality(completed)
             done == Sorted(completed)
             new == MirroredRows
             NewDone == {r \in DOMAIN rows : r - base \in 1 .. n /\ outcome[done[r - base]] \in Ok}
             FailedNow == {r \in DOMAIN rows : new[r] = "failed"}
             DoneNow == {r \in DOMAIN rows : new[r] = "done"}
  <1>0. /\ base \in Nat /\ Len(plan) \in Nat /\ n \in 0 .. Len(plan)
        /\ rows \in Seq(Statuses) /\ DOMAIN rows = 1 .. base + Len(plan)
        /\ \A r \in base + 1 .. base + Len(plan) : rows[r] = "pending"
    BY PlanSets, PlanShape DEF ShapeInv, PlanRows
  <1>1. /\ done \in [1 .. n -> completed]
        /\ \A j, k \in 1 .. n : j < k => done[j] < done[k]
        /\ \A i \in completed : \E k \in 1 .. n : done[k] = i
    BY PlanSets, SortedFacts
  <1>2. ASSUME NEW j \in 1 .. n, NEW k \in 1 .. n, j # k PROVE done[j] # done[k]
    <2> HIDE DEF done, n
    <2>1. j < k \/ k < j
      BY <1>0, <1>2
    <2>2. done[j] \in Nat /\ done[k] \in Nat
      BY <1>1, PlanSets
    <2> QED BY <1>1, <2>1, <2>2
  <1> HIDE DEF done, n
  <1>3. \A r \in DOMAIN rows :
          new[r] = IF r - base \in 1 .. n
                     THEN IF outcome[done[r - base]] \in Ok THEN "done" ELSE "failed"
                     ELSE rows[r]
    <2>1. DOMAIN done = 1 .. n
      BY <1>1
    <2> QED BY <2>1 DEF MirroredRows, done
  <1>4. new \in [1 .. base + Len(plan) -> Statuses]
    <2>1. \A r \in DOMAIN rows : new[r] \in Statuses
      BY <1>0, <1>3 DEF Statuses
    <2>2. new = [r \in 1 .. base + Len(plan) |-> new[r]]
      BY <1>0 DEF MirroredRows
    <2> HIDE DEF new
    <2> QED BY <1>0, <2>1, <2>2
  <1> HIDE DEF new
  <1>5. new \in Seq(Statuses) /\ Len(new) = Len(rows)
    BY <1>0, <1>4 DEF ShapeInv
  <1>6. \A r \in DOMAIN rows : r - base \in 1 .. n => r \in base + 1 .. base + Len(plan)
    BY <1>0
  <1>7. DoneNow = DoneRows \cup NewDone /\ DoneRows \cap NewDone = {}
    <2>1. ASSUME NEW r \in DOMAIN rows PROVE new[r] = "done" <=> rows[r] = "done" \/ r \in NewDone
      BY <1>0, <1>3, <1>6
    <2>2. ASSUME NEW r \in NewDone PROVE rows[r] # "done"
      BY <1>0, <1>6
    <2> QED BY <2>1, <2>2 DEF DoneRows
  <1>8. IsFiniteSet(NewDone) /\ Cardinality(NewDone) = Cardinality(Valid)
    <2> DEFINE f == [r \in NewDone |-> done[r - base]]
    <2>1. f \in [NewDone -> Valid]
      BY <1>1 DEF Valid
    <2>2. \A r, s \in NewDone : f[r] = f[s] => r = s
      <3> SUFFICES ASSUME NEW r \in NewDone, NEW s \in NewDone, r # s
                   PROVE  done[r - base] # done[s - base]
        OBVIOUS
      <3>1. r \in Nat /\ s \in Nat /\ r - base \in 1 .. n /\ s - base \in 1 .. n
        BY <1>0
      <3>2. r - base # s - base
        BY <1>0, <3>1
      <3> QED BY <1>2, <3>1, <3>2
    <2>3. \A i \in Valid : \E r \in NewDone : f[r] = i
      <3> SUFFICES ASSUME NEW i \in Valid PROVE \E r \in NewDone : done[r - base] = i
        OBVIOUS
      <3>1. PICK k \in 1 .. n : done[k] = i
        BY <1>1 DEF Valid
      <3>2. base + k \in DOMAIN rows /\ (base + k) - base = k
        BY <1>0
      <3>3. base + k \in NewDone
        BY <3>1, <3>2 DEF Valid
      <3> QED BY <3>1, <3>2, <3>3
    <2> HIDE DEF f, NewDone
    <2>4. f \in Injection(NewDone, Valid) /\ f \in Surjection(NewDone, Valid)
      BY <2>1, <2>2, <2>3 DEF Injection, IsInjective, Surjection
    <2> QED BY <2>4, PlanSets, FS_Injection
  <1>9. Cardinality(DoneNow) = Cardinality(DoneRows) + Cardinality(Valid)
    <2> HIDE DEF DoneNow, NewDone
    <2>1. IsFiniteSet(DoneRows) /\ Cardinality(DoneRows) \in Nat /\ Cardinality(Valid) \in Nat
      BY RowSets, PlanSets, FS_CardinalityType
    <2>2. Cardinality(DoneRows \cup NewDone)
            = Cardinality(DoneRows) + Cardinality(NewDone) - Cardinality(DoneRows \cap NewDone)
      BY <1>8, <2>1, FS_Union
    <2>3. Cardinality(DoneRows \cap NewDone) = 0
      BY <1>7, FS_EmptySet
    <2> QED BY <1>7, <1>8, <2>1, <2>2, <2>3
  <1>10. FailedRows \in SUBSET FailedNow /\ IsFiniteSet(FailedNow)
    <2>1. ASSUME NEW r \in FailedRows PROVE r \in FailedNow
      BY <1>0, <1>3, <1>6 DEF FailedRows
    <2>2. FailedNow \in SUBSET DOMAIN rows
      OBVIOUS
    <2> QED BY <2>1, <2>2, RowSets, FS_Subset
  <1>11. Cardinality(FailedRows) <= Cardinality(FailedNow)
    BY <1>10, FS_Subset
  <1>12. ASSUME NEW i \in completed, outcome[i] = "failed"
         PROVE  Cardinality(FailedRows) + 1 <= Cardinality(FailedNow)
    <2>1. PICK k \in 1 .. n : done[k] = i
      BY <1>1
    <2> DEFINE r == base + k
    <2>2. r \in DOMAIN rows /\ r - base = k /\ r \in base + 1 .. base + Len(plan)
      BY <1>0
    <2>3. new[r] = "failed" /\ r \notin FailedRows
      BY <1>0, <1>3, <1>12, <2>1, <2>2 DEF Ok, FailedRows
    <2>4. FailedRows \cup {r} \in SUBSET FailedNow
      BY <1>10, <2>2, <2>3
    <2> HIDE DEF r
    <2>5. Cardinality(FailedRows \cup {r}) = Cardinality(FailedRows) + 1
      BY <2>3, RowSets, FS_AddElement
    <2> QED BY <1>10, <2>4, <2>5, FS_Subset
  <1>13. ASSUME completed = Indices, \A i \in Indices : outcome[i] \in Ok, NEW r \in PlanRows
         PROVE  new[r] = "done"
    <2>1. n = Len(plan)
      BY <1>13, PlanSets DEF n
    <2>2. r \in DOMAIN rows /\ r - base \in 1 .. n
      BY <1>0, <2>1 DEF PlanRows
    <2>3. outcome[done[r - base]] \in Ok
      BY <1>1, <1>13, <2>2
    <2> QED BY <1>3, <2>2, <2>3
  <1> QED BY <1>5, <1>9, <1>11, <1>12, <1>13 DEF new

\* The places of a concatenation.
LEMMA ConcatPlaces ==
  ASSUME NEW X, NEW s \in Seq(X), NEW t \in Seq(X)
  PROVE  /\ s \o t \in Seq(X) /\ Len(s) \in Nat /\ Len(t) \in Nat
         /\ Len(s \o t) = Len(s) + Len(t) /\ DOMAIN (s \o t) = 1 .. Len(s) + Len(t)
         /\ \A k \in 1 .. Len(s) : (s \o t)[k] = s[k]
         /\ \A k \in Len(s) + 1 .. Len(s) + Len(t) :
              k - Len(s) \in 1 .. Len(t) /\ (s \o t)[k] = t[k - Len(s)]
  <1> DEFINE st == s \o t
  <1>1. /\ st \in Seq(X) /\ Len(st) = Len(s) + Len(t)
        /\ \A k \in 1 .. Len(s) + Len(t) :
             st[k] = IF k <= Len(s) THEN s[k] ELSE t[k - Len(s)]
    BY ConcatProperties
  <1> HIDE DEF st
  <1>2. Len(s) \in Nat /\ Len(t) \in Nat /\ DOMAIN st = 1 .. Len(s) + Len(t)
    BY <1>1
  <1>3. \A k \in 1 .. Len(s) : st[k] = s[k]
    BY <1>1, <1>2
  <1>4. \A k \in Len(s) + 1 .. Len(s) + Len(t) :
          k - Len(s) \in 1 .. Len(t) /\ st[k] = t[k - Len(s)]
    BY <1>1, <1>2
  <1> QED BY <1>1, <1>2, <1>3, <1>4 DEF st

PriorThen == prior \o [k \in 1 .. Cardinality(Kept) |-> base + Sorted(Kept)[k]]

\* The outputs kept: those of the plan follow those of earlier plans, in order.
LEMMA PriorFacts ==
  ASSUME STypeOK, ShapeInv, rpc = "executing"
  PROVE  LET kept == PriorThen IN
         /\ kept \in Seq(Nat) /\ Len(kept) = Len(prior) + Cardinality(Valid)
         /\ \A k \in DOMAIN kept : kept[k] \in DOMAIN rows
         /\ \A j, k \in DOMAIN kept : j < k => kept[j] < kept[k]
         /\ \A i \in Indices : i \in Valid <=> \E k \in DOMAIN kept : kept[k] = base + i
  <1> DEFINE n == Cardinality(Valid)
             list == Sorted(Valid)
             more == [k \in 1 .. n |-> base + list[k]]
             m == Len(prior)
             kept == PriorThen
  <1>0. /\ base \in Nat /\ n \in Nat /\ Len(plan) \in Nat /\ DOMAIN rows = 1 .. base + Len(plan)
        /\ prior \in Seq(Nat) /\ m \in Nat /\ DOMAIN prior = 1 .. m
        /\ \A k \in 1 .. m : prior[k] \in Nat /\ prior[k] <= base /\ prior[k] \in DOMAIN rows
        /\ \A j, k \in 1 .. m : j < k => prior[j] < prior[k]
    BY PlanSets, PlanShape, FS_CardinalityType, SMTT(20) DEF ShapeInv
  <1>1. /\ list \in [1 .. n -> Valid]
        /\ \A j, k \in 1 .. n : j < k => list[j] < list[k]
        /\ \A i \in Valid : \E k \in 1 .. n : list[k] = i
    BY PlanSets, SortedFacts
  <1> HIDE DEF list, n, m
  <1>2. \A k \in 1 .. n : list[k] \in Valid /\ list[k] \in 1 .. Len(plan)
    BY <1>1, PlanSets DEF Indices
  <1>3. more \in Seq(Nat) /\ Len(more) = n
    BY <1>0, <1>2
  <1>4. kept = prior \o more
    BY DEF PriorThen, Kept, n, list
  <1> HIDE DEF more, kept
  <1>5. /\ kept \in Seq(Nat) /\ Len(kept) = m + n /\ DOMAIN kept = 1 .. m + n
        /\ \A k \in 1 .. m : kept[k] = prior[k]
        /\ \A k \in m + 1 .. m + n : k - m \in 1 .. n /\ kept[k] = more[k - m]
    <2>1. prior \in Seq(Nat) /\ more \in Seq(Nat)
      BY <1>0, <1>3
    <2>2. kept \in Seq(Nat) /\ Len(kept) = Len(prior) + Len(more)
      BY <1>4, <2>1, ConcatPlaces
    <2>3. \A k \in 1 .. Len(prior) : kept[k] = prior[k]
      BY <1>4, <2>1, ConcatPlaces
    <2>4. \A k \in Len(prior) + 1 .. Len(prior) + Len(more) :
            k - Len(prior) \in 1 .. Len(more) /\ kept[k] = more[k - Len(prior)]
      BY <1>4, <2>1, ConcatPlaces
    <2> QED BY <1>3, <2>2, <2>3, <2>4 DEF m
  <1>6. ASSUME NEW k \in DOMAIN kept, k \notin 1 .. m
        PROVE  k - m \in 1 .. n /\ kept[k] = base + list[k - m]
    <2>1. k \in m + 1 .. m + n
      BY <1>0, <1>5, <1>6
    <2> QED BY <1>5, <2>1 DEF more
  <1>7. \A k \in DOMAIN kept : kept[k] \in DOMAIN rows
    <2> SUFFICES ASSUME NEW k \in DOMAIN kept PROVE kept[k] \in DOMAIN rows
      OBVIOUS
    <2>1. CASE k \in 1 .. m
      BY <1>0, <1>5, <2>1
    <2>2. CASE k \notin 1 .. m
      <3>1. kept[k] = base + list[k - m] /\ list[k - m] \in 1 .. Len(plan)
        BY <1>2, <1>6, <2>2
      <3> QED BY <1>0, <3>1
    <2> QED BY <2>1, <2>2
  <1>8. \A j, k \in DOMAIN kept : j < k => kept[j] < kept[k]
    <2> SUFFICES ASSUME NEW j \in DOMAIN kept, NEW k \in DOMAIN kept, j < k
                 PROVE  kept[j] < kept[k]
      OBVIOUS
    <2>1. CASE k \in 1 .. m
      <3>1. j \in 1 .. m
        BY <1>0, <1>5, <2>1
      <3> QED BY <1>0, <1>5, <2>1, <3>1
    <2>2. CASE k \notin 1 .. m /\ j \in 1 .. m
      <3>1. kept[k] = base + list[k - m] /\ list[k - m] \in 1 .. Len(plan)
        BY <1>2, <1>6, <2>2
      <3>2. kept[j] = prior[j] /\ prior[j] \in Nat /\ prior[j] <= base
        BY <1>0, <1>5, <2>2
      <3> QED BY <1>0, <3>1, <3>2
    <2>3. CASE k \notin 1 .. m /\ j \notin 1 .. m
      <3>1. /\ kept[k] = base + list[k - m] /\ k - m \in 1 .. n
            /\ kept[j] = base + list[j - m] /\ j - m \in 1 .. n
        BY <1>6, <2>3
      <3>2. j - m < k - m
        BY <1>0, <1>5
      <3>3. list[j - m] < list[k - m]
        BY <1>1, <3>1, <3>2
      <3>4. list[j - m] \in Nat /\ list[k - m] \in Nat
        BY <1>0, <1>2, <3>1
      <3> QED BY <1>0, <3>1, <3>3, <3>4
    <2> QED BY <2>1, <2>2, <2>3
  <1>9. ASSUME NEW i \in Indices
        PROVE  i \in Valid <=> \E k \in DOMAIN kept : kept[k] = base + i
    <2>0. i \in Nat /\ i > 0
      BY <1>0 DEF Indices
    <2>1. ASSUME i \in Valid PROVE \E k \in DOMAIN kept : kept[k] = base + i
      <3>1. PICK k \in 1 .. n : list[k] = i
        BY <1>1, <2>1
      <3>2. m + k \in m + 1 .. m + n /\ m + k \in DOMAIN kept /\ (m + k) - m = k
        BY <1>0, <1>5
      <3>3. kept[m + k] = more[k]
        BY <1>5, <3>2
      <3> QED BY <3>1, <3>2, <3>3 DEF more
    <2>2. ASSUME NEW k \in DOMAIN kept, kept[k] = base + i PROVE i \in Valid
      <3>1. k \notin 1 .. m
        BY <1>0, <1>5, <2>0, <2>2
      <3>2. base + list[k - m] = base + i /\ list[k - m] \in Valid /\ list[k - m] \in 1 .. Len(plan)
        BY <1>2, <1>6, <2>2, <3>1
      <3>3. list[k - m] = i
        BY <1>0, <2>0, <3>2
      <3> QED BY <3>2, <3>3
    <2> QED BY <2>1, <2>2
  <1> QED BY <1>5, <1>7, <1>8, <1>9 DEF n, m, kept
-----------------------------------------------------------------------------
\* All but three actions leave the rows, the events and the counts alone.
LEMMA QuietStep ==
  ASSUME PInv, [PNext]_pvars, ~AdoptPlan, ~Mirror, ~RecordReplan
  PROVE  /\ plan' = plan /\ UNCHANGED <<rows, events, base, steps, replans, reported, prior>>
         /\ rpc' \in InRun => rpc \in InRun
         /\ rpc' \in BetweenRuns => rpc \in BetweenRuns /\ UNCHANGED svars
         /\ rpc' \in {"top", "planning", "record", "finished", "exhausted", "giveUp"} =>
              rpc' = rpc \/ CallPlanner
  BY DEF PNext, Loop, CallPlanner, PlannerFails, EmptyPlan, LinkRows, LinkRaises, ExecuteRaises,
         Succeed, PlanExhausted, GiveUp, PlannerRaises, Execute, Orphaned, Crash, AtRest, Abort,
         Raise, Coroutine, TaskStep, Schedule, Collect, CollectFailure, CollectRaise, Drain,
         CancelWaiting, Start, Finish, pvars, svars

\* While the scheduler is called, and when its result is looked at, its
\* invariant holds of the plan in hand.
LEMMA InHand ==
  ASSUME PInv, rpc \in InRun \cup {"record", "finished", "exhausted", "giveUp"}
  PROVE  SInv /\ STypeOK /\ NothingReady /\ FailureIsReported
  BY DEF PInv, NoPlanYet, PlanInHand, SInv

\* What the scheduler returns is an output of the plan whenever there is one:
\* of the indices that finish it takes the highest.
LEMMA FinalFacts ==
  ASSUME STypeOK
  PROVE  /\ Finishers # {} => Final \in Finishers
         /\ Final = 0 <=> Finishers = {}
  <1>1. Finishers \subseteq Indices /\ Indices \subseteq Nat \ {0} /\ Len(plan) \in Nat
    BY PlanShape DEF STypeOK, Finishers
  <1>2. ASSUME Finishers # {} PROVE Final \in Finishers
    <2> DEFINE T == {n \in Nat : \E i \in Finishers : n = Len(plan) - i}
    <2>1. \A i \in Finishers : Len(plan) - i \in T
      BY <1>1 DEF Indices
    <2>2. T \in SUBSET Nat /\ T # {}
      BY <1>2, <2>1
    <2>3. PICK m \in T : \A n \in T : ~(n < m)
      <3> HIDE DEF T
      <3> QED BY <2>2, LeastMember
    <2>4. PICK i \in Finishers : m = Len(plan) - i
      BY <2>3
    <2>5. \A j \in Finishers : j <= i
      <3> SUFFICES ASSUME NEW j \in Finishers PROVE j <= i
        OBVIOUS
      <3>1. ~(Len(plan) - j < Len(plan) - i)
        BY <2>1, <2>3, <2>4
      <3> QED BY <1>1, <3>1
    <2> QED BY <1>2, <2>5 DEF Final
  <1> QED BY <1>1, <1>2 DEF Final

LEMMA ShapeStep == PInv /\ LoopInv /\ [PNext]_pvars => ShapeInv'
  <1> SUFFICES ASSUME PInv, LoopInv, [PNext]_pvars PROVE ShapeInv'
    OBVIOUS
  <1>0. ShapeInv
    BY DEF LoopInv
  <1>1. CASE AdoptPlan
    <2>1. PICK p \in Shapes \ {<<>>} :
            plan' = p /\ rows' = rows \o [i \in 1 .. Len(p) |-> "pending"]
      BY <1>1 DEF AdoptPlan
    <2>2. Len(p) \in Nat /\ rows \in Seq(Statuses) /\ Len(rows) \in Nat
      BY <1>0, ShapesAssumption DEF ShapeInv
    <2> DEFINE new == [i \in 1 .. Len(p) |-> "pending"]
    <2>3. new \in Seq(Statuses) /\ Len(new) = Len(p) /\ \A i \in 1 .. Len(p) : new[i] = "pending"
      BY <2>2 DEF Statuses
    <2> HIDE DEF new
    <2>4. /\ base' = Len(rows) /\ Len(rows) \in Nat /\ rows' \in Seq(Statuses)
          /\ Len(rows') = Len(rows) + Len(p) /\ DOMAIN rows \subseteq DOMAIN rows'
          /\ DOMAIN rows = 1 .. Len(rows)
          /\ \A r \in Len(rows) + 1 .. Len(rows) + Len(p) :
               r - Len(rows) \in 1 .. Len(p) /\ rows'[r] = new[r - Len(rows)]
      <3>1. rows' = rows \o new /\ base' = Len(rows)
        BY <1>1, <2>1 DEF AdoptPlan, new
      <3>2. rows \o new \in Seq(Statuses) /\ Len(rows \o new) = Len(rows) + Len(new)
        BY <2>2, <2>3
      <3>3. \A r \in Len(rows) + 1 .. Len(rows) + Len(p) :
              r - Len(rows) \in 1 .. Len(p) /\ rows'[r] = new[r - Len(rows)]
        BY <2>2, <2>3, <3>1, ConcatPlaces
      <3> QED BY <2>2, <2>3, <3>1, <3>2, <3>3
    <2>5. \A r \in PlanRows' : rows'[r] = "pending"
      <3>1. ASSUME NEW r \in base' + 1 .. base' + Len(p) PROVE rows'[r] = "pending"
        <4>1. r \in Len(rows) + 1 .. Len(rows) + Len(p)
          BY <2>4, <3>1
        <4> QED BY <2>3, <2>4, <4>1
      <3> QED BY <2>1, <3>1 DEF PlanRows
    <2>6. \A k \in DOMAIN prior : prior[k] \in DOMAIN rows' /\ prior[k] <= base'
      BY <1>0, <2>4 DEF ShapeInv
    <2>7. UNCHANGED <<steps, replans, prior>>
      BY <1>1 DEF AdoptPlan
    <2> QED BY <1>0, <2>1, <2>4, <2>5, <2>6, <2>7 DEF ShapeInv
  <1>2. CASE Mirror
    <2>1. /\ rpc = "executing" /\ rpc' \notin InRun /\ rows' = MirroredRows
          /\ steps' = steps + Cardinality(Valid)
          /\ prior' = PriorThen
          /\ UNCHANGED <<plan, base, replans>>
      BY <1>2 DEF Mirror, StepsOf, PriorThen, svars
    <2>2. STypeOK
      BY <2>1, InHand
    <2>3. steps' \in Nat
      BY <1>0, <2>1, <2>2, PlanSets, FS_CardinalityType DEF ShapeInv
    <2>4. rows' \in Seq(Statuses) /\ Len(rows') = Len(rows) /\ DOMAIN rows' = DOMAIN rows
      BY <1>0, <2>1, <2>2, MirrorFacts DEF ShapeInv
    <2>5. /\ prior' \in Seq(Nat) /\ \A k \in DOMAIN prior' : prior'[k] \in DOMAIN rows
          /\ \A j, k \in DOMAIN prior' : j < k => prior'[j] < prior'[k]
      BY <1>0, <2>1, <2>2, PriorFacts
    <2> QED BY <1>0, <2>1, <2>3, <2>4, <2>5 DEF ShapeInv
  <1>3. CASE RecordReplan
    BY <1>0, <1>3 DEF RecordReplan, ShapeInv, svars
  <1>4. CASE ~AdoptPlan /\ ~Mirror /\ ~RecordReplan
    BY <1>0, <1>4, QuietStep DEF ShapeInv, PlanRows
  <1> QED BY <1>1, <1>2, <1>3, <1>4

LEMMA CountsStep == PInv /\ LoopInv /\ [PNext]_pvars => CountsInv'
  <1> SUFFICES ASSUME PInv, LoopInv, [PNext]_pvars PROVE CountsInv'
    OBVIOUS
  <1>0. /\ ShapeInv /\ CountsInv /\ replans \in Nat
        /\ Cardinality(DoneRows) \in Nat /\ Cardinality(FailedRows) \in Nat
    BY RowSets, FS_CardinalityType DEF LoopInv, ShapeInv
  <1>1. CASE AdoptPlan
    <2>1. PICK p \in Shapes \ {<<>>} : rows' = rows \o [i \in 1 .. Len(p) |-> "pending"]
      BY <1>1 DEF AdoptPlan
    <2>2. Len(p) \in Nat /\ rows \in Seq(Statuses) /\ Len(rows) \in Nat
      BY <1>0, ShapesAssumption DEF ShapeInv
    <2> DEFINE new == [i \in 1 .. Len(p) |-> "pending"]
    <2>3. new \in Seq(Statuses) /\ Len(new) = Len(p) /\ \A i \in 1 .. Len(p) : new[i] = "pending"
      BY <2>2 DEF Statuses
    <2>4. rows' = rows \o new
      BY <2>1
    <2> HIDE DEF new
    <2>5. /\ DOMAIN rows' = 1 .. Len(rows) + Len(p) /\ DOMAIN rows = 1 .. Len(rows)
          /\ \A r \in 1 .. Len(rows) : rows'[r] = rows[r]
          /\ \A r \in Len(rows) + 1 .. Len(rows) + Len(p) :
               r - Len(rows) \in 1 .. Len(p) /\ rows'[r] = new[r - Len(rows)]
      <3>1. rows \o new \in Seq(Statuses) /\ Len(rows \o new) = Len(rows) + Len(new)
        BY <2>2, <2>3
      <3>2. \A r \in 1 .. Len(rows) : rows'[r] = rows[r]
        BY <2>2, <2>3, <2>4, ConcatPlaces
      <3>3. \A r \in Len(rows) + 1 .. Len(rows) + Len(p) :
              r - Len(rows) \in 1 .. Len(p) /\ rows'[r] = new[r - Len(rows)]
        BY <2>2, <2>3, <2>4, ConcatPlaces
      <3> QED BY <2>2, <2>3, <2>4, <3>1, <3>2, <3>3
    <2>6. \A r \in DOMAIN rows' \ DOMAIN rows : rows'[r] = "pending"
      <3> SUFFICES ASSUME NEW r \in DOMAIN rows' \ DOMAIN rows PROVE rows'[r] = "pending"
        OBVIOUS
      <3>1. r \in Len(rows) + 1 .. Len(rows) + Len(p) /\ r - Len(rows) \in 1 .. Len(p)
        BY <2>2, <2>5
      <3> QED BY <2>3, <2>5, <3>1
    <2>7. DOMAIN rows \subseteq DOMAIN rows'
      BY <2>2, <2>5
    <2>8. DoneRows' = DoneRows /\ FailedRows' = FailedRows
      BY <2>5, <2>6, <2>7 DEF DoneRows, FailedRows
    <2> QED BY <1>0, <1>1, <2>8 DEF AdoptPlan, CountsInv
  <1>2. CASE Mirror
    <2>1. /\ rpc = "executing" /\ rows' = MirroredRows
          /\ steps' = steps + Cardinality(Valid)
          /\ prior' = PriorThen
          /\ rpc' = "record" => spc = "aborted"
          /\ UNCHANGED replans
      BY <1>2 DEF Mirror, StepsOf, PriorThen
    <2>2. STypeOK /\ FailureIsReported
      BY <2>1, InHand
    <2> DEFINE done   == {r \in DOMAIN rows : MirroredRows[r] = "done"}
               failed == {r \in DOMAIN rows : MirroredRows[r] = "failed"}
    <2>3. /\ Cardinality(done) = Cardinality(DoneRows) + Cardinality(Valid)
          /\ Cardinality(FailedRows) <= Cardinality(failed)
          /\ (\E i \in completed : outcome[i] = "failed") =>
               Cardinality(FailedRows) + 1 <= Cardinality(failed)
          /\ DOMAIN MirroredRows = DOMAIN rows
      BY <1>0, <2>1, <2>2, MirrorFacts DEF MirroredRows
    <2>4. DoneRows' = done /\ FailedRows' = failed
      BY <2>1, <2>3 DEF DoneRows, FailedRows
    <2>5. IsFiniteSet(failed) /\ Cardinality(failed) \in Nat
      <3>1. failed \in SUBSET DOMAIN rows
        OBVIOUS
      <3> HIDE DEF failed
      <3> QED BY <1>0, <3>1, RowSets, FS_Subset, FS_CardinalityType
    <2> HIDE DEF done, failed
    <2>6. Len(prior') = Len(prior) + Cardinality(Valid)
      BY <1>0, <2>1, <2>2, PriorFacts
    <2>7. rpc' = "record" => Cardinality(FailedRows) + 1 <= Cardinality(failed)
      BY <2>1, <2>2, <2>3 DEF FailureIsReported
    <2>8. (IF rpc' = "record" THEN replans + 1 ELSE replans) <= Cardinality(failed)
      <3>1. replans <= Cardinality(FailedRows)
        BY <1>0, <2>1 DEF CountsInv
      <3> QED BY <1>0, <2>3, <2>5, <2>7, <3>1
    <2> QED BY <1>0, <2>1, <2>3, <2>4, <2>6, <2>8 DEF CountsInv
  <1>3. CASE RecordReplan
    <2>1. DoneRows' = DoneRows /\ FailedRows' = FailedRows
      BY <1>3 DEF RecordReplan, DoneRows, FailedRows
    <2> QED BY <1>0, <1>3, <2>1 DEF RecordReplan, CountsInv
  <1>4. CASE ~AdoptPlan /\ ~Mirror /\ ~RecordReplan
    <2>1. /\ UNCHANGED <<rows, steps, replans, prior>>
          /\ rpc' = "record" => rpc = "record"
      BY <1>4, QuietStep DEF CallPlanner
    <2>2. DoneRows' = DoneRows /\ FailedRows' = FailedRows
      BY <2>1 DEF DoneRows, FailedRows
    <2>3. replans <= Cardinality(FailedRows)
      BY <1>0 DEF CountsInv
    <2>4. (IF rpc' = "record" THEN replans + 1 ELSE replans) <= Cardinality(FailedRows)
      BY <1>0, <2>1, <2>3 DEF CountsInv
    <2> QED BY <1>0, <2>1, <2>2, <2>4 DEF CountsInv
  <1> QED BY <1>1, <1>2, <1>3, <1>4

LEMMA BudgetStep == PInv /\ LoopInv /\ [PNext]_pvars => BudgetInv'
  <1> SUFFICES ASSUME PInv, LoopInv, [PNext]_pvars PROVE BudgetInv'
    OBVIOUS
  <1>0. BudgetInv /\ replans \in Nat /\ base \in Nat
    BY DEF LoopInv, ShapeInv
  <1>1. CASE RecordReplan
    <2>1. /\ rpc = "record" /\ reported' = base + lastFailed /\ replans' = replans + 1
          /\ events' = Append(events, reported')
          /\ rpc' = IF replans' > MaxReplans THEN "giveUp" ELSE "top"
      BY <1>1 DEF RecordReplan
    <2>2. reported' \in Nat
      BY <1>0, <2>1, InHand, PlanShape DEF STypeOK
    <2>3. /\ events' \in Seq(Nat) /\ Len(events') = Len(events) + 1 /\ events' # <<>>
          /\ events'[Len(events')] = reported'
      BY <1>0, <2>1, <2>2 DEF BudgetInv
    <2>4. replans <= MaxReplans
      BY <1>0, <2>1 DEF BudgetInv
    <2> QED BY <1>0, <2>1, <2>3, <2>4, ReplansAssumption DEF BudgetInv
  <1>2. CASE AdoptPlan \/ Mirror
    BY <1>0, <1>2 DEF AdoptPlan, Mirror, BudgetInv
  <1>3. CASE ~AdoptPlan /\ ~Mirror /\ ~RecordReplan
    <2>1. /\ UNCHANGED <<events, replans, reported>>
          /\ rpc' \in InRun => rpc \in InRun
          /\ rpc' \in {"top", "planning", "record", "giveUp"} => rpc' = rpc \/ CallPlanner
      BY <1>3, QuietStep
    <2> QED BY <1>0, <2>1 DEF BudgetInv, CallPlanner
  <1> QED BY <1>1, <1>2, <1>3

LEMMA OutcomeStep == PInv /\ LoopInv /\ [PNext]_pvars => OutcomeInv'
  <1> SUFFICES ASSUME PInv, LoopInv, [PNext]_pvars PROVE OutcomeInv'
    OBVIOUS
  <1>0. OutcomeInv /\ ShapeInv
    BY DEF LoopInv
  <1>1. CASE AdoptPlan
    BY <1>1 DEF AdoptPlan, OutcomeInv
  <1>2. CASE Mirror
    <2>1. /\ rpc = "executing" /\ rows' = MirroredRows /\ prior' = PriorThen
          /\ rpc' = IF spc = "aborted" THEN "record" ELSE IF Final = 0 THEN "exhausted" ELSE "finished"
          /\ spc \in {"returned", "aborted"}
          /\ UNCHANGED svars /\ base' = base
      BY <1>2 DEF Mirror, PriorThen
    <2>2. SInv /\ STypeOK /\ NothingReady /\ FailureIsReported
      BY <2>1, InHand
    <2>3. /\ Indices' = Indices /\ Valid' = Valid /\ Finishers' = Finishers /\ plan' = plan
          /\ spc' = spc
      BY <2>1 DEF svars, Indices, Valid, Finishers
    <2>4. \A i \in Indices : i \in Valid <=> \E k \in DOMAIN prior' : prior'[k] = base + i
      BY <1>0, <2>1, <2>2, PriorFacts
    <2>5. ASSUME spc = "returned" PROVE PlanDone'
      <3>1. completed = Indices /\ \A i \in Indices : outcome[i] \in Ok
        <4>1. completed = Indices
          BY <2>2, <2>5, NobodyStarves DEF SInv, NothingReady, NothingLeftBehind
        <4> QED BY <2>2, <2>5, <4>1 DEF FailureIsReported
      <3>2. \A r \in PlanRows : MirroredRows[r] = "done"
        BY <1>0, <2>1, <2>2, <3>1, MirrorFacts
      <3> QED BY <2>1, <2>3, <2>5, <3>2 DEF PlanDone, PlanRows
    <2>6. Final = 0 <=> Finishers = {}
      BY <2>2, FinalFacts
    <2> QED BY <2>1, <2>3, <2>4, <2>5, <2>6 DEF OutcomeInv
  <1>3. CASE RecordReplan
    <2>1. /\ rpc = "record" /\ reported' = base + lastFailed /\ rpc' \in {"top", "giveUp"}
          /\ UNCHANGED <<plan, outcome, completed, base, prior>>
      BY <1>3 DEF RecordReplan, svars
    <2>2. STypeOK /\ outcome[lastFailed] = "failed"
      BY <1>0, <2>1, InHand DEF OutcomeInv, FailureIsReported
    <2>3. reported' - base = lastFailed
      BY <1>0, <2>1, <2>2, PlanShape DEF ShapeInv, STypeOK
    <2>4. Indices' = Indices /\ Valid' = Valid
      BY <2>1 DEF Indices, Valid
    <2> QED BY <1>0, <2>1, <2>2, <2>3, <2>4 DEF OutcomeInv
  <1>4. CASE ~AdoptPlan /\ ~Mirror /\ ~RecordReplan
    <2>1. /\ UNCHANGED <<base, prior, rows, reported>>
          /\ rpc' \in BetweenRuns => rpc \in BetweenRuns /\ UNCHANGED svars
          /\ rpc' \in {"top", "planning", "record", "finished", "exhausted", "giveUp"} =>
               rpc' = rpc \/ CallPlanner
      BY <1>4, QuietStep
    <2>2. SUFFICES ASSUME rpc' \in BetweenRuns PROVE OutcomeInv'
      BY <2>2 DEF OutcomeInv
    <2>3. /\ UNCHANGED <<spc, outcome>>
          /\ Indices' = Indices /\ Valid' = Valid /\ Finishers' = Finishers
          /\ PlanDone' = PlanDone
      BY <2>1, <2>2 DEF svars, Indices, Valid, Finishers, PlanDone, PlanRows
    <2> QED BY <1>0, <2>1, <2>2, <2>3 DEF OutcomeInv, CallPlanner
  <1> QED BY <1>1, <1>2, <1>3, <1>4

LEMMA GoalStep == PInv /\ LoopInv /\ [PNext]_pvars => GoalInv'
  <1> SUFFICES ASSUME PInv, LoopInv, [PNext]_pvars PROVE GoalInv'
    OBVIOUS
  <1>0. GoalInv /\ OutcomeInv /\ BudgetInv /\ steps \in Nat /\ replans \in Nat /\ base \in Nat
    BY DEF LoopInv, ShapeInv
  <1>1. ASSUME NEW reason \in {"planner_error", "planner_returned_empty_plan",
                               "plan_exhausted_without_finish", "max_replans_exceeded"},
               Abort(reason),
               reason = "plan_exhausted_without_finish" => PlanDone /\ Finishers = {},
               reason = "max_replans_exceeded" => replans = MaxReplans + 1
        PROVE  GoalInv'
    <2>1. /\ goal' = [goal EXCEPT !.status = "aborted", !.reason = reason,
                                  !.steps = steps, !.replans = replans]
          /\ rpc' = "aborted" /\ UNCHANGED <<svars, rows, base, steps, replans>>
      BY <1>1 DEF Abort
    <2>2. /\ goal' \in GoalRows /\ goal'.status = "aborted" /\ goal'.reason = reason
          /\ goal'.steps = steps /\ goal'.replans = replans
      BY <1>0, <2>1 DEF GoalInv, GoalRows
    <2>3. PlanDone' = PlanDone /\ Finishers' = Finishers
      BY <2>1 DEF svars, PlanDone, PlanRows, Finishers
    <2> QED BY <1>1, <2>1, <2>2, <2>3 DEF GoalInv
  <1>2. CASE PlannerFails \/ EmptyPlan
    BY <1>1, <1>2 DEF PlannerFails, EmptyPlan
  <1>3. CASE PlanExhausted
    BY <1>0, <1>1, <1>3 DEF PlanExhausted, OutcomeInv
  <1>4. CASE GiveUp
    BY <1>0, <1>1, <1>4 DEF GiveUp, BudgetInv
  <1>5. CASE Succeed
    <2>1. /\ goal' = [goal EXCEPT !.status = "succeeded", !.final = base + Final,
                                  !.steps = steps, !.replans = replans]
          /\ rpc = "finished" /\ rpc' = "succeeded"
          /\ UNCHANGED <<svars, rows, base, steps, replans>>
      BY <1>5 DEF Succeed
    <2>2. PlanDone' = PlanDone /\ Finishers' = Finishers /\ Final' = Final
      BY <2>1 DEF svars, PlanDone, PlanRows, Finishers, Final
    <2>3. PlanDone /\ Finishers # {} /\ goal.reason = "none"
      BY <1>0, <2>1 DEF OutcomeInv, GoalInv
    <2>4. base + Final \in Nat
      BY <1>0, <2>1, InHand, FinalFacts, PlanShape DEF Finishers, STypeOK
    <2>5. /\ goal' \in GoalRows /\ goal'.status = "succeeded" /\ goal'.reason = "none"
          /\ goal'.steps = steps /\ goal'.replans = replans /\ goal'.final = base + Final
      BY <1>0, <2>1, <2>3, <2>4 DEF GoalInv, GoalRows
    <2> QED BY <2>1, <2>2, <2>3, <2>5 DEF GoalInv
  <1>6. CASE UNCHANGED <<svars, rows, base, steps, replans, goal, rpc>>
    BY <1>0, <1>6 DEF GoalInv, svars, PlanDone, PlanRows, Finishers, Final
  <1>7. CASE UNCHANGED goal /\ rpc \notin {"succeeded", "aborted"}
             /\ rpc' \notin {"succeeded", "aborted"}
    BY <1>0, <1>7 DEF GoalInv
  <1> QED
    BY <1>2, <1>3, <1>4, <1>5, <1>6, <1>7
       DEF PNext, Loop, CallPlanner, AdoptPlan, LinkRows, LinkRaises, ExecuteRaises, Mirror,
           RecordReplan, PlannerRaises, Execute, Orphaned, Crash, AtRest, Raise, RunEnded, pvars

\* What the loop keeps of its rows, counts and outcomes is inductive, whatever
\* the plans, the outcomes and their order.
THEOREM LoopInvariant == PSpec => []LoopInv
  <1>1. PInv /\ LoopInv /\ [PNext]_pvars => LoopInv'
    BY ShapeStep, CountsStep, BudgetStep, OutcomeStep, GoalStep DEF LoopInv
  <1> QED BY <1>1, LoopInit, PlansInvariant, PTL DEF PSpec

\* The goal row is honest: a success has its output and a plan that is done, an
\* exhausted plan has neither a failure nor an output, the replans are spent.
THEOREM ParallelHonesty == PSpec => []ParallelHonest
  <1>1. PInv /\ LoopInv => ParallelHonest
    <2> SUFFICES ASSUME PInv, LoopInv PROVE ParallelHonest
      OBVIOUS
    <2>0. GoalInv /\ BudgetInv /\ ShapeInv
      BY DEF LoopInv
    <2>1. goal.status = "succeeded" => rpc = "succeeded"
      BY <2>0 DEF GoalInv
    <2>2. goal.reason = "plan_exhausted_without_finish" => rpc = "aborted" /\ PlanDone /\ Finishers = {}
      BY <2>0 DEF GoalInv
    <2>3. goal.reason = "max_replans_exceeded" => replans = MaxReplans + 1
      BY <2>0 DEF GoalInv
    <2>4. PlanDone => \A r \in base + 1 .. Len(rows) : rows[r] = "done"
      BY <2>0 DEF PlanDone, PlanRows, ShapeInv
    <2>5. ASSUME goal.status = "succeeded"
          PROVE  goal.final > base /\ outcome[goal.final - base] \in {"finish", "final"}
      <3>1. Finishers # {} /\ goal.final = base + Final /\ STypeOK /\ base \in Nat
        BY <2>0, <2>1, <2>5 DEF GoalInv, ShapeInv, PInv, NoPlanYet, PlanInHand, SInv
      <3>2. Final \in Finishers /\ Final \in Nat \ {0}
        BY <3>1, FinalFacts, PlanShape DEF Finishers, STypeOK
      <3>3. goal.final > base /\ goal.final - base = Final
        BY <3>1, <3>2
      <3> QED BY <3>2, <3>3 DEF Finishers
    <2>6. ASSUME PlanDone, Finishers = {}, rpc = "aborted", NEW i \in Indices
          PROVE  outcome[i] # "finish"
      <3>1. PlanInHand /\ spc = "returned"
        BY <2>6 DEF PlanDone, PInv, NoPlanYet, Indices
      <3>2. completed = Indices
        BY <3>1, NobodyStarves DEF PlanInHand, SInv, NothingReady, NothingLeftBehind
      <3> QED BY <2>6, <3>2 DEF Finishers
    <2> QED BY <2>0, <2>1, <2>2, <2>3, <2>4, <2>5, <2>6 DEF ParallelHonest, BudgetInv, GoalInv
  <1> QED BY <1>1, PlansInvariant, LoopInvariant, PTL

\* Whatever row a status stands in, the steps of an ended goal are its done rows
\* and the outputs kept, and every replan has its event and a failed row.
THEOREM CountsSafety == PSpec => []CountsAgree
  <1>1. LoopInv => CountsAgree
    BY DEF LoopInv, GoalInv, CountsInv, BudgetInv, CountsAgree, DoneRows, FailedRows
  <1> QED BY <1>1, LoopInvariant, PTL

\* The planner is told of every sibling that succeeded, in order and once, and
\* of the failure that was recorded last.
THEOREM SiblingsSafety == PSpec => []PlannerKnowsSiblings
  <1>1. LoopInv => PlannerKnowsSiblings
    BY DEF LoopInv, ShapeInv, OutcomeInv, BudgetInv, PlannerKnowsSiblings
  <1> QED BY <1>1, LoopInvariant, PTL
-----------------------------------------------------------------------------
(* The work: each plan adds its rows once, and there are few plans.        *)

\* Before a plan is adopted each replan has had its plan, after it the first
\* plan as well.
WorkInv ==
  \A n \in Nat :
    (\A p \in Shapes : Len(p) <= n) =>
      /\ Len(rows) <= (MaxReplans + 1) * n
      /\ rpc \in {"top", "planning"} => Len(rows) <= replans * n
      /\ rpc \in InRun \cup {"record"} => Len(rows) <= (replans + 1) * n

\* What is below a product stays below it when a factor grows.
LEMMA MoreRoom ==
  ASSUME NEW r \in Nat, NEW m \in Nat, NEW n \in Nat, r <= m
  PROVE  r * n <= m * n
  OBVIOUS

LEMMA WorkStep == PInv /\ LoopInv /\ WorkInv /\ [PNext]_pvars => WorkInv'
  <1> SUFFICES ASSUME PInv, LoopInv, WorkInv, [PNext]_pvars,
                      NEW n \in Nat, \A p \in Shapes : Len(p) <= n
               PROVE  /\ Len(rows') <= (MaxReplans + 1) * n
                      /\ rpc' \in {"top", "planning"} => Len(rows') <= replans' * n
                      /\ rpc' \in InRun \cup {"record"} => Len(rows') <= (replans' + 1) * n
    BY DEF WorkInv
  <1>0. /\ rows \in Seq(Statuses) /\ Len(rows) \in Nat /\ replans \in Nat
        /\ BudgetInv /\ MaxReplans \in Nat
    BY ReplansAssumption DEF LoopInv, ShapeInv
  <1>1. /\ Len(rows) <= (MaxReplans + 1) * n
        /\ rpc \in {"top", "planning"} => Len(rows) <= replans * n
        /\ rpc \in InRun \cup {"record"} => Len(rows) <= (replans + 1) * n
    BY DEF WorkInv
  <1>2. CASE AdoptPlan
    <2>1. PICK p \in Shapes \ {<<>>} : rows' = rows \o [i \in 1 .. Len(p) |-> "pending"]
      BY <1>2 DEF AdoptPlan
    <2>2. Len(p) \in Nat /\ Len(p) <= n
      BY ShapesAssumption
    <2> DEFINE new == [i \in 1 .. Len(p) |-> "pending"]
    <2>3. new \in Seq(Statuses) /\ Len(new) = Len(p)
      BY <2>2 DEF Statuses
    <2>4. rows' = rows \o new
      BY <2>1
    <2> HIDE DEF new
    <2>5. Len(rows') = Len(rows) + Len(p)
      <3>1. Len(rows \o new) = Len(rows) + Len(new)
        BY <1>0, <2>3
      <3> QED BY <2>3, <2>4, <3>1
    <2>6. Len(rows) <= replans * n /\ replans <= MaxReplans /\ replans' = replans /\ rpc' = "linking"
      BY <1>0, <1>1, <1>2 DEF AdoptPlan, BudgetInv
    <2>7. (replans + 1) * n <= (MaxReplans + 1) * n /\ (replans + 1) * n = replans * n + n
      BY <1>0, <2>6, MoreRoom
    <2>8. replans * n \in Nat /\ (MaxReplans + 1) * n \in Nat
      BY <1>0
    <2> QED BY <1>0, <2>2, <2>5, <2>6, <2>7, <2>8
  <1>3. CASE Mirror
    <2>1. DOMAIN rows' = DOMAIN rows /\ Len(rows') = Len(rows)
      <3>1. /\ rpc = "executing" /\ rows' = MirroredRows
        BY <1>3 DEF Mirror
      <3>2. ShapeInv'
        BY ShapeStep
      <3>3. DOMAIN rows' = DOMAIN rows
        BY <3>1 DEF MirroredRows
      <3> QED BY <1>0, <3>2, <3>3 DEF ShapeInv
    <2>2. rpc = "executing" /\ replans' = replans /\ rpc' \in {"record", "exhausted", "finished"}
      BY <1>3 DEF Mirror
    <2> QED BY <1>1, <2>1, <2>2
  <1>4. CASE RecordReplan
    BY <1>0, <1>1, <1>4 DEF RecordReplan
  <1>5. CASE ~AdoptPlan /\ ~Mirror /\ ~RecordReplan
    <2>1. /\ UNCHANGED <<rows, replans>>
          /\ rpc' \in InRun => rpc \in InRun
          /\ rpc' \in {"top", "planning", "record"} => rpc' = rpc \/ CallPlanner
      BY <1>5, QuietStep
    <2> QED BY <1>1, <2>1 DEF CallPlanner
  <1> QED BY <1>2, <1>3, <1>4, <1>5

\* The work of a goal is bounded by its replans: if no plan has more than n
\* subtasks, the goal has at most (max_replans + 1) * n rows, and no more steps.
THEOREM WorkSafety == PSpec => []WorkBounded
  <1>1. PInit => WorkInv
    BY ReplansAssumption DEF PInit, WorkInv
  <1>2. PSpec => []WorkInv
    BY <1>1, WorkStep, PlansInvariant, LoopInvariant, PTL DEF PSpec
  <1>3. LoopInv /\ WorkInv => WorkBounded
    <2> SUFFICES ASSUME LoopInv, WorkInv PROVE WorkBounded
      OBVIOUS
    <2>1. \A p \in Shapes : Len(p) \in Nat
      BY ShapesAssumption
    <2>2. steps <= Len(rows)
      <3>1. DoneRows \in SUBSET (1 .. Len(rows)) /\ Len(rows) \in Nat
        BY DEF LoopInv, ShapeInv, DoneRows
      <3>2. IsFiniteSet(1 .. Len(rows)) /\ Cardinality(1 .. Len(rows)) = Len(rows)
        BY <3>1, FS_Interval, SMTT(20)
      <3>3. Cardinality(DoneRows) <= Len(rows)
        BY <3>1, <3>2, FS_Subset
      <3> QED BY <3>3 DEF LoopInv, CountsInv
    <2> QED BY <2>1, <2>2 DEF WorkBounded, WorkInv
  <1> QED BY <1>2, <1>3, LoopInvariant, PTL
=============================================================================
