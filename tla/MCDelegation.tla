---------------------------- MODULE MCDelegation ----------------------------
(* Instances of Delegation for TLC. *)
EXTENDS Delegation, TLC

CONSTANTS n1, n2, t1, t2, t3, t4, s1, s2

SlotSymmetry == Permutations(Slots)

\* One task put on the board by n1.
OneFrom == [t \in Tasks |-> n1]
ToAny == [t \in Tasks |-> AnyAgent]
ToSecond == [t \in Tasks |-> n2]
Offered == [t \in Tasks |-> TRUE]
NotOffered == [t \in Tasks |-> FALSE]
SameSubject == [t \in Tasks |-> "s"]
OwnSubject == [t \in Tasks |-> t]
NoParent == [t \in Tasks |-> None]
NoReview == [t \in Tasks |-> None]
OneRetry == [t \in Tasks |-> 1]
NoRetry == [t \in Tasks |-> 0]
AllEligible == [t \in Tasks |-> Nodes]

\* t2 waits for t1, both addressed to no node in particular; apart from them t3
\* is offered to all, and t4 is the row of its review by n2.
Chain == [t \in Tasks |-> IF t = t2 THEN t1 ELSE None]
Review == [t \in Tasks |-> IF t = t4 THEN t3 ELSE None]
ChainOffered == [t \in Tasks |-> t # t2]
ToReviewer == [t \in Tasks |-> IF t = t4 THEN n2 ELSE AnyAgent]

\* A behaviour has either the chain, on n1 alone, or the review, in which n1
\* collects results and n2 executes.
ChainOrReview ==
  \/ /\ setup[t3] = "none"
     /\ phase[n2] = "idle" /\ up[n2]
  \/ /\ setup[t1] = "none"
     /\ phase[n1] \in {"idle", "results"}
     /\ phase[n2] \in {"idle", "available"} /\ up[n2]

\* Collecting results changes nothing where nothing waits for one.
NoCollecting == \A n \in Nodes : phase[n] # "results"

\* Statements fail while one coroutine runs at a time.
FaultsAlone ==
  NoCollecting /\ (faults = 0 \/ Cardinality({s \in Slots : exec[s] # Idle}) <= 1)

\* A node dies or a statement fails.
OneDisturbance == NoCollecting /\ crashes + faults <= 1
=============================================================================
