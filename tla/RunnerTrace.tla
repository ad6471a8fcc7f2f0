---------------------------- MODULE RunnerTrace -----------------------------
(***************************************************************************)
(* Runner implements GoalTrace: the rows are mapped to themselves, a step  *)
(* of the loop that commits nothing is a stutter, and so is a crash.       *)
(***************************************************************************)
EXTENDS Runner

Trace == INSTANCE GoalTrace
           WITH Invalid <- InvalidKinds, Kinds <- FailureKind,
                status <- goal.status, rows <- subtasks

\* The trace of a goal only grows (GoalTrace), whatever the tools, the
\* provider and the clock do and wherever the process stops.
TraceOnlyGrows == Trace!Spec
=============================================================================
