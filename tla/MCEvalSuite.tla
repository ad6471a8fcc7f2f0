---------------------------- MODULE MCEvalSuite -----------------------------
(***************************************************************************)
(* The instance the harness runs: its registry, its budget and its script. *)
(***************************************************************************)
EXTENDS EvalSuiteInvariant

ASSUME HarnessAssumption == Harness

MCPlans == UNION {{PlanScript[k][n] : n \in DOMAIN PlanScript[k]} : k \in DOMAIN PlanScript}
MCHints == Tools \cup {"send_email"}
=============================================================================
