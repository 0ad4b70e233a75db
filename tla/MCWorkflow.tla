----------------------------- MODULE MCWorkflow -----------------------------
(* Instances of Workflow for TLC. *)
EXTENDS Workflow

\* A chain with a shortcut, a task beside a chain, and a cycle.
Chain == [t \in Tasks |-> {u \in Tasks : u < t}]
Fork == [t \in Tasks |-> IF t = 3 THEN {1} ELSE {}]
Cycle == [t \in Tasks |-> IF t = 1 THEN {} ELSE Tasks \ {1, t}]
SomeGraphs == {Chain, Fork, Cycle}

\* Task 2 is fanned out, task 1 is retried once; running 1 and 2 exhausts the smaller budget.
TwoOfSecond == [t \in Tasks |-> IF t = 2 THEN 2 ELSE 1]
RetryFirst == [t \in Tasks |-> IF t = 1 THEN 1 ELSE 0]
SomeCost == [t \in Tasks |-> IF t = 2 THEN 2 ELSE 1]
=============================================================================
