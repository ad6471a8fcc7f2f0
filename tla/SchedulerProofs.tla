-------------------------- MODULE SchedulerProofs ---------------------------
(***************************************************************************)
(* The scheduler is correct for every plan and every max_concurrency.      *)
(* SInv is inductive: one lemma per conjunct shows that a step keeps it.   *)
(* That no subtask is starved rests on the order of the indices: of those  *)
(* that did not run the first one would be ready.                          *)
(***************************************************************************)
EXTENDS Scheduler, WellFoundedInduction, TLAPS

\* The shape of a plan, and what its subtasks may depend on.
LEMMA PlanShape ==
  ASSUME STypeOK
  PROVE  /\ plan \in Seq([parallel : BOOLEAN, dependencies : SUBSET Nat])
         /\ Len(plan) \in Nat /\ Indices \subseteq Nat \ {0}
         /\ \A i \in Indices : Dependencies(i) \subseteq Indices
  <1>1. plan \in Seq([parallel : BOOLEAN, dependencies : SUBSET Nat])
    BY ShapesAssumption DEF STypeOK
  <1>2. Len(plan) \in Nat /\ Indices \subseteq Nat \ {0}
    BY <1>1 DEF Indices
  <1>3. ASSUME NEW i \in Indices PROVE Dependencies(i) \subseteq Indices
    BY <1>1, <1>2 DEF Dependencies, Indices
  <1> QED BY <1>1, <1>2, <1>3

\* While the plan stays, so do its indices and dependencies.
LEMMA SamePlan ==
  ASSUME plan' = plan
  PROVE  Indices' = Indices /\ \A i : Dependencies(i)' = Dependencies(i)
  BY DEF Indices, Dependencies

\* The map of dependencies holds the earlier subtasks that a subtask names, or
\* all of them if it opts in to nothing.
LEMMA DependsOn ==
  ASSUME STypeOK, NEW i \in Indices, NEW j \in Indices
  PROVE  j \in Dependencies(i) <=> j < i /\ (j \in plan[i].dependencies \/ Sequential(i))
  <1>1. i \in Nat /\ j \in Nat \ {0}
    BY PlanShape
  <1> QED BY <1>1 DEF Dependencies, Sequential

LEMMA SchedulerInit == Init => SInv
  <1> SUFFICES ASSUME Init PROVE SInv
    OBVIOUS
  <1>1. PICK p \in Shapes : Fresh(p)
    BY DEF Init
  <1>2. STypeOK
    BY <1>1 DEF STypeOK, Fresh, Indices, Outcomes, Ok
  <1> QED BY <1>1, <1>2 DEF SInv, DependenciesRespected, NothingLeftBehind, FailureIsReported, Fresh, Ended

\* A task that is done keeps its outcome.
LEMMA OutcomeKept ==
  ASSUME STypeOK, Next
  PROVE  \A i \in Indices : outcome[i] # "none" => outcome'[i] = outcome[i]
  <1>1. ASSUME NEW k \in Indices, Finish(k)
        PROVE  \A i \in Indices : outcome[i] # "none" => outcome'[i] = outcome[i]
    BY <1>1 DEF Finish, STypeOK
  <1>2. CASE outcome' = outcome
    BY <1>2
  <1> QED BY <1>1, <1>2 DEF Next, Coroutine, TaskStep, Schedule, Start, Collect, CollectFailure,
             CollectRaise, Drain, CancelWaiting, Stopped, svars

LEMMA STypeStep == STypeOK /\ [Next]_svars => STypeOK'
  <1> SUFFICES ASSUME STypeOK, [Next]_svars PROVE STypeOK'
    OBVIOUS
  <1>0. /\ plan \in Shapes
        /\ scheduled \subseteq Indices
        /\ waiting \subseteq scheduled /\ running \subseteq scheduled /\ completed \subseteq scheduled
        /\ waiting \cap running = {}
        /\ outcome \in [Indices -> Outcomes \cup {"none"}]
        /\ \A i \in Indices : outcome[i] # "none" => i \in scheduled \ (waiting \cup running)
        /\ \A i \in completed : outcome[i] \notin {"none", "raised"}
        /\ lastFailed \in completed \cup {0}
    BY DEF STypeOK
  <1>p. plan' = plan /\ Indices' = Indices
    <2>1. plan' = plan
      BY DEF Next, Coroutine, TaskStep, Schedule, Start, Finish, Collect, CollectFailure,
             CollectRaise, Drain, CancelWaiting, Stopped, svars
    <2> QED BY <2>1 DEF Indices
  <1>1. CASE Schedule
    <2>1. Ready \subseteq Indices /\ Ready \cap scheduled = {}
      BY DEF Ready
    <2>2. \A i \in Ready : outcome[i] = "none"
      BY <2>1, <1>0
    <2> QED BY <1>0, <1>p, <1>1, <2>1, <2>2 DEF Schedule, STypeOK, Ended
  <1>2. ASSUME NEW k \in Indices, Start(k) PROVE STypeOK'
    BY <1>0, <1>p, <1>2 DEF Start, STypeOK, Suspended, Ended
  <1>3. ASSUME NEW k \in Indices, Finish(k) PROVE STypeOK'
    <2>1. PICK o \in Outcomes : outcome' = [outcome EXCEPT ![k] = o]
      BY <1>3 DEF Finish
    <2>2. outcome' \in [Indices -> Outcomes \cup {"none"}]
      BY <1>0, <2>1
    <2>3. k \in running /\ k \notin completed
      BY <1>0, <1>3 DEF Finish
    <2>4. \A i \in Indices : outcome'[i] # "none" => i \in scheduled \ (waiting \cup running')
      BY <1>0, <1>3, <2>1, <2>3 DEF Finish
    <2>5. \A i \in completed : outcome'[i] \notin {"none", "raised"}
      BY <1>0, <2>1, <2>3
    <2> QED BY <1>0, <1>p, <1>3, <2>2, <2>4, <2>5 DEF Finish, STypeOK, Suspended, Ended
  <1>4. CASE Collect
    BY <1>0, <1>p, <1>4 DEF Collect, Done, InFlight, Ok, STypeOK, Ended
  <1>5. CASE CollectFailure
    BY <1>0, <1>p, <1>5 DEF CollectFailure, Done, Failed, InFlight, STypeOK, Ended
  <1>6. CASE CollectRaise
    BY <1>0, <1>p, <1>6 DEF CollectRaise, STypeOK, Ended
  <1>7. CASE Drain
    BY <1>0, <1>p, <1>7 DEF Drain, Done, InFlight, STypeOK, Ended
  <1>8. CASE CancelWaiting
    BY <1>0, <1>p, <1>8 DEF CancelWaiting, STypeOK, Ended
  <1>9. CASE UNCHANGED svars
    BY <1>p, <1>9 DEF STypeOK, svars, Ended
  <1> QED BY <1>1, <1>2, <1>3, <1>4, <1>5, <1>6, <1>7, <1>8, <1>9
          DEF Next, Coroutine, TaskStep, Stopped

\* What is taken stays taken, and a task is given only by Schedule, to a ready
\* subtask and before any failure.
LEMMA TakenKept ==
  ASSUME STypeOK, Next
  PROVE  /\ plan' = plan
         /\ completed \subseteq completed'
         /\ scheduled' = scheduled \/ Schedule
  BY DEF Next, Coroutine, TaskStep, Schedule, Start, Finish, Collect, CollectFailure,
         CollectRaise, Drain, CancelWaiting, Stopped, svars

LEMMA DependenciesStep == SInv /\ [Next]_svars => DependenciesRespected'
  <1> SUFFICES ASSUME SInv, [Next]_svars PROVE DependenciesRespected'
    OBVIOUS
  <1>0. STypeOK /\ DependenciesRespected /\ FailureIsReported
    BY DEF SInv
  <1>1. CASE UNCHANGED svars
    BY <1>0, <1>1 DEF DependenciesRespected, Indices, Sequential, svars
  <1>2. CASE Next
    <2>1. /\ plan' = plan /\ completed \subseteq completed'
          /\ scheduled' = scheduled \/ Schedule
      BY <1>0, <1>2, TakenKept
    <2>2. Indices' = Indices /\ \A i : Sequential(i)' = Sequential(i)
      BY <2>1 DEF Indices, Sequential
    <2>3. \A j \in completed : j \in Indices /\ outcome'[j] = outcome[j]
      BY <1>0, <1>2, OutcomeKept DEF STypeOK
    <2>4. ASSUME NEW i \in scheduled', NEW j \in Indices,
                 j < i /\ (j \in plan[i].dependencies \/ Sequential(i))
          PROVE  j \in completed /\ outcome[j] \in Ok
      <3>1. CASE i \in scheduled
        BY <1>0, <2>4, <3>1 DEF DependenciesRespected
      <3>2. CASE i \notin scheduled
        <4>1. spc = "schedule" /\ i \in Ready
          BY <2>1, <2>4, <3>2 DEF Schedule
        <4>2. j \in completed
          <5>1. i \in Indices
            BY <4>1 DEF Ready
          <5>2. j \in Dependencies(i)
            BY <1>0, <2>4, <5>1, DependsOn
          <5> QED BY <4>1, <5>2 DEF Ready
        <4> QED BY <1>0, <4>1, <4>2 DEF FailureIsReported
      <3> QED BY <3>1, <3>2
    <2> QED BY <2>1, <2>2, <2>3, <2>4 DEF DependenciesRespected
  <1> QED BY <1>1, <1>2

LEMMA NothingLeftStep == SInv /\ [Next]_svars => NothingLeftBehind'
  <1> SUFFICES ASSUME SInv, [Next]_svars PROVE NothingLeftBehind'
    OBVIOUS
  <1>0. STypeOK /\ STypeOK' /\ NothingLeftBehind
    BY STypeStep DEF SInv
  <1>1. SUFFICES ASSUME spc' \in {"returned", "aborted"} PROVE scheduled' \subseteq completed'
    BY <1>0, <1>1 DEF NothingLeftBehind, STypeOK
  <1>2. CASE spc' = spc /\ scheduled' = scheduled /\ completed' = completed
    BY <1>0, <1>1, <1>2 DEF NothingLeftBehind
  <1>3. CASE Schedule
    BY <1>1, <1>3 DEF Schedule, InFlight
  <1>4. CASE CollectFailure
    BY <1>1, <1>4 DEF CollectFailure, InFlight
  <1>5. CASE Drain
    BY <1>1, <1>5 DEF Drain, InFlight
  <1> QED BY <1>1, <1>2, <1>3, <1>4, <1>5
          DEF Next, Coroutine, TaskStep, Start, Finish, Collect, CollectRaise, CancelWaiting,
              Stopped, Suspended, svars

LEMMA FailureStep == SInv /\ [Next]_svars => FailureIsReported'
  <1> SUFFICES ASSUME SInv, [Next]_svars PROVE FailureIsReported'
    OBVIOUS
  <1>0. /\ STypeOK /\ STypeOK' /\ FailureIsReported
        /\ DependenciesRespected /\ DependenciesRespected'
    BY STypeStep, DependenciesStep DEF SInv
  <1>1. CASE UNCHANGED svars
    BY <1>0, <1>1 DEF FailureIsReported, Dependencies, svars
  <1>2. CASE Next
    <2>1. \A j \in completed : j \in Indices /\ outcome'[j] = outcome[j]
      BY <1>0, <1>2, OutcomeKept DEF STypeOK
    <2>2. ASSUME lastFailed' \in completed', outcome'[lastFailed'] = "failed"
          PROVE  \A i \in scheduled' : lastFailed' \notin Dependencies(i)'
      <3>1. plan' = plan /\ Indices' = Indices
        BY <1>0, <1>2, TakenKept, SamePlan
      <3>2. /\ \A i : Dependencies(i)' = Dependencies(i)
            /\ \A i : Sequential(i)' = Sequential(i)
        BY <3>1, SamePlan DEF Sequential
      <3>3. scheduled' \subseteq Indices /\ completed' \subseteq scheduled'
        BY <1>0, <3>1 DEF STypeOK
      <3>4. \A i \in scheduled' : lastFailed' \in Dependencies(i) =>
              lastFailed' < i /\ (lastFailed' \in plan[i].dependencies \/ Sequential(i))
        <4> SUFFICES ASSUME NEW i \in scheduled', NEW j \in Indices, j \in Dependencies(i)
                     PROVE  j < i /\ (j \in plan[i].dependencies \/ Sequential(i))
          BY <2>2, <3>3
        <4> QED BY <1>0, <3>3, DependsOn
      <3>5. \A i \in scheduled', j \in Indices :
              j < i /\ (j \in plan[i].dependencies \/ Sequential(i)) => outcome'[j] \in Ok
        BY <1>0, <3>1, <3>2 DEF DependenciesRespected
      <3> QED BY <2>2, <3>2, <3>3, <3>4, <3>5 DEF Ok
    <2>3. CASE Schedule
      BY <1>0, <2>1, <2>3 DEF Schedule, FailureIsReported
    <2>4. ASSUME NEW k \in Indices, Start(k) \/ Finish(k) PROVE FailureIsReported'
      BY <1>0, <2>1, <2>2, <2>4 DEF Start, Finish, FailureIsReported
    <2>5. CASE Collect
      BY <1>0, <2>1, <2>5 DEF Collect, FailureIsReported
    <2>6. CASE CollectFailure
      <3>1. lastFailed' \in completed' /\ outcome'[lastFailed'] = "failed"
        BY <2>6 DEF CollectFailure, Failed
      <3>2. spc' \in {"draining", "aborted"}
        BY <2>6 DEF CollectFailure
      <3> QED BY <2>2, <3>1, <3>2 DEF FailureIsReported
    <2>7. CASE Drain
      <3>1. lastFailed \in completed /\ outcome[lastFailed] = "failed" /\ lastFailed' = lastFailed
        BY <1>0, <2>7 DEF Drain, FailureIsReported
      <3>2. lastFailed' \in completed' /\ outcome'[lastFailed'] = "failed"
        BY <2>1, <2>7, <3>1 DEF Drain
      <3>3. spc' \in {"aborted", "raised"}
        BY <2>7 DEF Drain
      <3> QED BY <2>2, <3>2, <3>3 DEF FailureIsReported
    <2>8. CASE CollectRaise \/ CancelWaiting
      BY <2>8 DEF CollectRaise, CancelWaiting, FailureIsReported
    <2> QED BY <1>1, <1>2, <2>3, <2>4, <2>5, <2>6, <2>7, <2>8
            DEF Next, Coroutine, TaskStep, Stopped
  <1> QED BY <1>1, <1>2

\* The conjunction of the scheduler's invariants is inductive.
THEOREM SchedulerInvariant == Spec => []SInv
  <1>1. Init => SInv
    BY SchedulerInit
  <1>2. SInv /\ [Next]_svars => SInv'
    BY STypeStep, DependenciesStep, NothingLeftStep, FailureStep DEF SInv
  <1> QED BY <1>1, <1>2, PTL DEF Spec

\* No task is ever in two places, for every plan and every cap.
THEOREM SchedulerTypeCorrect == Spec => []STypeOK
  <1>1. SInv => STypeOK
    BY DEF SInv
  <1> QED BY <1>1, SchedulerInvariant, PTL

\* A subtask gets a task only when all it depends on is done and valid; a plan
\* that opts in to nothing runs in its order.
THEOREM DependencySafety == Spec => []DependenciesRespected
  <1>1. SInv => DependenciesRespected
    BY DEF SInv
  <1> QED BY <1>1, SchedulerInvariant, PTL

\* A result is handed out only when nothing is in flight.
THEOREM NothingLeftSafety == Spec => []NothingLeftBehind
  <1>1. SInv => NothingLeftBehind
    BY DEF SInv
  <1> QED BY <1>1, SchedulerInvariant, PTL

\* A failure is reported, and no subtask that depends on it is started.
THEOREM FailureSafety == Spec => []FailureIsReported
  <1>1. SInv => FailureIsReported
    BY DEF SInv
  <1> QED BY <1>1, SchedulerInvariant, PTL

\* After a failure no subtask gets a task.
THEOREM NoWorkSafety == Spec => NoWorkAfterFailure
  <1>1. SInv /\ [Next]_svars => [lastFailed # 0 => scheduled' = scheduled]_svars
    <2> SUFFICES ASSUME SInv, Next, lastFailed # 0 PROVE scheduled' = scheduled
      BY DEF svars
    <2>1. ~Schedule
      BY DEF SInv, FailureIsReported, Schedule
    <2> QED BY <2>1, TakenKept DEF SInv
  <1> QED BY <1>1, SchedulerInvariant, PTL DEF Spec, NoWorkAfterFailure
-----------------------------------------------------------------------------
(* No subtask is starved. *)

\* A set of natural numbers that is not empty has a least member.
LEMMA LeastMember ==
  ASSUME NEW T \in SUBSET Nat, T # {}
  PROVE  \E m \in T : \A n \in T : ~(n < m)
  <1> DEFINE R == {p \in Nat \X Nat : p[1] < p[2]}
  <1>1. IsWellFoundedOn(R, Nat)
    <2>1. R = OpToRel(<, Nat)
      BY DEF OpToRel
    <2> QED BY <2>1, NatLessThanWellFounded
  <1>2. \E m \in T : \A n \in T : ~(<<n, m>> \in R)
    <2> HIDE DEF R
    <2> QED BY <1>1, WFMin
  <1> QED BY <1>2

\* The loop is left at its head only when no subtask is ready.
NothingReady == spc = "returned" => Ready = {}

LEMMA ReadyStep == STypeOK /\ NothingReady /\ [Next]_svars => NothingReady'
  <1> SUFFICES ASSUME STypeOK, NothingReady, [Next]_svars, spc' = "returned" PROVE Ready' = {}
    BY DEF NothingReady
  <1>p. plan' = plan /\ Indices' = Indices /\ \A i : Dependencies(i)' = Dependencies(i)
    <2>1. plan' = plan
      BY TakenKept DEF svars
    <2> QED BY <2>1, SamePlan
  <1>1. CASE Schedule
    <2>1. scheduled' = scheduled /\ completed' = completed /\ Ready = {}
      BY <1>1 DEF Schedule
    <2> QED BY <1>p, <2>1 DEF Ready
  <1>2. CASE spc = "returned" /\ scheduled' = scheduled /\ completed' = completed
    <2>1. Ready = {}
      BY <1>2 DEF NothingReady
    <2> QED BY <1>2, <1>p, <2>1 DEF Ready
  <1> QED BY <1>1, <1>2 DEF Next, Coroutine, TaskStep, Start, Finish, Collect, CollectFailure,
             CollectRaise, Drain, CancelWaiting, Stopped, Suspended, svars

\* If nothing is ready and nothing in flight, every subtask has run: the first
\* of those that have not depends on earlier ones only, so it would be ready.
LEMMA NobodyStarves ==
  ASSUME STypeOK, completed = scheduled, Ready = {}
  PROVE  completed = Indices
  <1> SUFFICES ASSUME Indices \ completed # {} PROVE FALSE
    BY DEF STypeOK
  <1>1. Indices \ completed \in SUBSET Nat
    BY PlanShape
  <1>2. PICK m \in Indices \ completed : \A n \in Indices \ completed : ~(n < m)
    BY <1>1, LeastMember
  <1>3. ASSUME NEW d \in Dependencies(m) PROVE d \in completed
    <2>1. d \in Indices /\ d \in 1 .. m - 1 /\ m \in Nat
      BY PlanShape DEF Dependencies
    <2>2. d < m
      BY <2>1
    <2> QED BY <1>2, <2>1, <2>2
  <1>4. m \in Ready
    BY <1>3 DEF Ready
  <1> QED BY <1>4

\* Without a failure every subtask of the plan runs with a valid output, whatever
\* _build_dependency_map made of its dependencies.
THEOREM NoStarvation == Spec => []AllRunUnlessFailed
  <1>1. Init => NothingReady
    BY DEF Init, Fresh, NothingReady
  <1>2. SInv => STypeOK
    BY DEF SInv
  <1>3. Spec => []NothingReady
    BY <1>1, <1>2, ReadyStep, SchedulerInvariant, PTL DEF Spec
  <1>4. SInv /\ NothingReady => AllRunUnlessFailed
    <2> SUFFICES ASSUME SInv, NothingReady, spc = "returned"
                 PROVE  completed = Indices /\ \A i \in Indices : outcome[i] \in Ok
      BY DEF AllRunUnlessFailed
    <2>1. completed = Indices
      BY NobodyStarves DEF SInv, NothingReady, NothingLeftBehind
    <2> QED BY <2>1 DEF SInv, FailureIsReported
  <1> QED BY <1>3, <1>4, SchedulerInvariant, PTL
=============================================================================
