-------------------------- MODULE MCParallelRunner --------------------------
(***************************************************************************)
(* Small instances of ParallelRunner: plans in which a subtask that cannot *)
(* run stands between two that do, plans that opt in to nothing, and one   *)
(* that names an index out of range.                                       *)
(***************************************************************************)
EXTENDS ParallelRunner

Root  == [parallel |-> TRUE, dependencies |-> {}]
On(D) == [parallel |-> FALSE, dependencies |-> D]

MCShapes == {<<>>, <<Root>>, <<On({}), On({})>>, <<Root, On({1}), Root>>,
             <<Root, Root, On({3})>>, <<Root, On({5})>>}
=============================================================================
