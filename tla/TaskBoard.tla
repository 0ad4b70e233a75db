----------------------------- MODULE TaskBoard -----------------------------
(***************************************************************************)
(* What the shared task board promises, row by row: core/delegation.py     *)
(* without its nodes, coroutines and statements.  A task is posted once,   *)
(* taken from the board by one node at a time, and ended.  Everything else *)
(* that happens to a row is a write somebody decided earlier and carries   *)
(* out by the task id alone.  Such a write never creates a row, and makes  *)
(* a node the owner only if the node is one of the task's takers: a node   *)
(* that took the task from the board (it may have lost it since) or found  *)
(* it waiting.  A stale taker may so take a task over from its owner; a    *)
(* node that never took it may not.                                        *)
(***************************************************************************)
CONSTANTS Nodes, Tasks, None

VARIABLES
  state,      \* absent, waiting (for an addressee or a parent), open, held, ended
  owner,      \* the node named on the task, or None
  takers,     \* pairs <<t, n>>: n may still name itself the owner of t
  decided     \* the tasks somebody is about to write; moves on its own

Init ==
  /\ state = [t \in Tasks |-> "absent"]
  /\ owner = [t \in Tasks |-> None]
  /\ takers = {}

Stays(t) == state'[t] = state[t] /\ owner'[t] = owner[t]

Post(t) ==
  /\ state[t] = "absent"
  /\ state'[t] \in {"waiting", "open"}
  /\ owner'[t] = owner[t]

Claim(t, n) ==
  /\ state[t] = "open"
  /\ state'[t] = "held" /\ owner'[t] = n

\* By an operator.
HandOver(t, n) ==
  /\ state[t] \in {"waiting", "held"}
  /\ state'[t] = state[t] /\ owner'[t] = n

\* Cancelled, expired, or too late in a race.
Withdraw(t) ==
  /\ state[t] \in {"waiting", "open", "held"}
  /\ state'[t] = "ended"
  /\ owner'[t] = owner[t]

\* By a stale taker, which becomes the owner.
TakeOver(t, n) ==
  /\ <<t, n>> \in takers
  /\ state[t] # "absent"
  /\ state'[t] = "held" /\ owner'[t] = n

\* By somebody who decided it earlier: nobody becomes the owner.
Overwrite(t) ==
  /\ t \in decided
  /\ state[t] # "absent"
  /\ \/ state'[t] = "open" /\ owner'[t] \in {None, owner[t]}
     \/ state'[t] \in {"waiting", "ended"} /\ owner'[t] = owner[t]

\* Nobody becomes a taker but by a claim or while the task waits.
Entitles(t) ==
  \A n \in Nodes :
    <<t, n>> \in takers' \ takers => state[t] = "waiting" \/ Claim(t, n)

\* One statement may end several rows at once.
Next == \A t \in Tasks :
  /\ Entitles(t)
  /\ \/ Stays(t) \/ Post(t) \/ Withdraw(t) \/ Overwrite(t)
     \/ \E n \in Nodes : Claim(t, n) \/ HandOver(t, n) \/ TakeOver(t, n)

Spec == Init /\ [][Next]_<<state, owner, takers>>
=============================================================================
