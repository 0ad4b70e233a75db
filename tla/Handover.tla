------------------------------ MODULE Handover ------------------------------
(***************************************************************************)
(* What file transfers promise, messages, chunks and disks aside: a file   *)
(* is offered once; a node confirms it once, and not before; a file that   *)
(* is not what was offered is confirmed only after some node has the whole *)
(* one; and the sender is done with a file only when some node has         *)
(* confirmed it, or when the sender stops.                                 *)
(***************************************************************************)
CONSTANTS Nodes, Files, sender

VARIABLES
  stage,    \* of each file at its sender: new, offered, over
  outcome   \* what each node has confirmed of each file: none, whole, broken

vars == <<stage, outcome>>

Init ==
  /\ stage = [f \in Files |-> "new"]
  /\ outcome = [n \in Nodes |-> [f \in Files |-> "none"]]

Confirmed(f) == \E n \in Nodes : outcome[n][f] # "none"

Offer(f) ==
  /\ stage[f] = "new"
  /\ stage' = [stage EXCEPT ![f] = "offered"]
  /\ UNCHANGED outcome

Confirm(n, f, result) ==
  /\ stage[f] # "new" /\ outcome[n][f] = "none"
  /\ result = "broken" => \E m \in Nodes : outcome[m][f] = "whole"
  /\ outcome' = [outcome EXCEPT ![n][f] = result]
  /\ UNCHANGED stage

Finish(f) ==
  /\ stage[f] = "offered" /\ Confirmed(f)
  /\ stage' = [stage EXCEPT ![f] = "over"]
  /\ UNCHANGED outcome

Stop(n) ==
  /\ stage' = [f \in Files |-> IF sender[f] = n /\ stage[f] = "offered" THEN "over" ELSE stage[f]]
  /\ UNCHANGED outcome

Next ==
  \/ \E f \in Files : Offer(f) \/ Finish(f)
  \/ \E n \in Nodes, f \in Files : \E result \in {"whole", "broken"} : Confirm(n, f, result)
  \/ \E n \in Nodes : Stop(n)

Spec == Init /\ [][Next]_vars
=============================================================================
