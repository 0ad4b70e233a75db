---------------------------- MODULE MCMessagePath ----------------------------
(* One message of n1, for n2 or for everybody. *)
EXTENDS MessagePath

CONSTANTS n1, n2

MCfrom == [m \in Msgs |-> n1]
=============================================================================
