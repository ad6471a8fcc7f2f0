---------------------------- MODULE MCScheduler -----------------------------
(***************************************************************************)
(* Small instances of Scheduler: every plan of at most two subtasks, every *)
(* plan of three in which a subtask may name earlier ones, and the last    *)
(* two themselves, and chosen plans of four.                               *)
(***************************************************************************)
EXTENDS Scheduler

Subtask(D) == [parallel : BOOLEAN, dependencies : SUBSET D]

Pairs   == {<<a, b>> : a \in Subtask({1, 2}), b \in Subtask({1, 2, 3})}
Triples == {<<a, b, c>> : a \in Subtask({}), b \in Subtask({1, 2}), c \in Subtask({1, 2, 3})}

Root   == [parallel |-> TRUE, dependencies |-> {}]
On(D)  == [parallel |-> FALSE, dependencies |-> D]
Plain  == On({})

\* A diamond, a wide plan, two chains, a plan that opts in to nothing, and one
\* whose last subtask alone is sequential.
Quads == {<<Root, On({1}), On({1}), On({2, 3})>>, <<Root, Root, Root, Root>>,
          <<Root, Root, On({1}), On({2})>>, <<Plain, Plain, Plain, Plain>>,
          <<Root, Root, Root, Plain>>}

MCShapes == {<<>>} \cup {<<a>> : a \in Subtask({1})} \cup Pairs \cup Triples \cup Quads
=============================================================================
