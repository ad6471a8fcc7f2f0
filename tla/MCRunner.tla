------------------------------ MODULE MCRunner ------------------------------
(***************************************************************************)
(* Small instances of Runner.  Plans are all plans of at most MaxPlanLen   *)
(* subtasks, the one bound the code does not have.                         *)
(***************************************************************************)
EXTENDS RunnerInvariant

CONSTANT MaxPlanLen

MCPlans == UNION {[1 .. n -> Hints] : n \in 1 .. MaxPlanLen}
=============================================================================
