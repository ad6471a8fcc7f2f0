--------------------------- MODULE MCGoalService ----------------------------
(***************************************************************************)
(* A small instance of GoalService with two plans: one of two subtasks and *)
(* one that no tool is found for.  Any tool may be selected for any        *)
(* subtask, so that a goal may end with the first or with the second.      *)
(***************************************************************************)
EXTENDS GoalService

MCPlans == {<<"calculate", "calculate">>, <<"unregistered">>}
=============================================================================
