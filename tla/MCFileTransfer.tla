--------------------------- MODULE MCFileTransfer ---------------------------
(* Instances of FileTransfer for TLC. *)
EXTENDS FileTransfer

CONSTANTS n1, n2, n3, f1, f2

FromFirst == [f \in Files |-> n1]
ToSecond == [f \in Files |-> n2]
SameName == [f \in Files |-> "name"]
OneChunk == [f \in Files |-> 1]
NonePacked == {}
OnePacked == {<<f1, 1>>}

\* A bystander that overhears the first transfer, a second transfer, or a COMPLETE
\* whose handler raises, never two of these in one behaviour.  Fairness never has
\* to be met by one of these steps.
OneDisturbance ==
  /\ taken[n3] = {} \/ \A m \in sent : m.file = f1
  /\ aborted # {} => taken[n3] = {} /\ \A m \in sent : m.file = f1

DisturbedOnce == Init /\ [][Next /\ OneDisturbance']_vars /\ Fairness
=============================================================================
