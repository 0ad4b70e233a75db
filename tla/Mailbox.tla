------------------------------- MODULE Mailbox -------------------------------
(***************************************************************************)
(* What the message path promises an addressee: each message is accepted   *)
(* at most once, and what was accepted is performed once, or lost when the *)
(* node stops in between.  It is never performed twice, and never accepted *)
(* again after a loss.                                                     *)
(***************************************************************************)
CONSTANTS Nodes, Msgs

VARIABLE state

Init == state = [n \in Nodes |-> [m \in Msgs |-> "waiting"]]

Change(n, m, before, after) ==
  state[n][m] = before /\ state' = [state EXCEPT ![n][m] = after]

Accept(n, m) == Change(n, m, "waiting", "accepted")

Perform(n, m) == Change(n, m, "accepted", "performed")

Drop(n, m) == Change(n, m, "accepted", "lost")

Next == \E n \in Nodes, m \in Msgs : Accept(n, m) \/ Perform(n, m) \/ Drop(n, m)

Spec == Init /\ [][Next]_state
=============================================================================
