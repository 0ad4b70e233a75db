----------------------------- MODULE MCElection -----------------------------
(* Instances of Election for TLC: n1 is senior to n2, n2 to n3. *)
EXTENDS Election

CONSTANTS n1, n2, n3

AllRouters == [n \in Nodes |-> "router"]
FirstOriginal == [n \in Nodes |-> IF n = n1 THEN "coordinator" ELSE "router"]
Seniority == [n \in Nodes |-> CASE n = n1 -> 1 [] n = n2 -> 2 [] n = n3 -> 3]
=============================================================================
