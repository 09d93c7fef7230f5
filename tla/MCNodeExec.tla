---------------------------- MODULE MCNodeExec ----------------------------
(* One command whose call is repeated, on a node that connects three times. *)
EXTENDS NodeExec, TLC

CONSTANTS n1, c1, c2, c3, i1, i2, r1

MCNodeOf == [c \in Conns |-> n1]
MCTarget == [i \in Calls |-> n1]
MCApprovalOf == [i \in Calls |-> r1]
=============================================================================
