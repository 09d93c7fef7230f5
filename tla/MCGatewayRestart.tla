-------------------------- MODULE MCGatewayRestart --------------------------
(* All calls go to one lane; the body of the first may hang across restarts. *)
EXTENDS GatewayRestart, TLC

CONSTANTS main, t1, t2, t3

MCOneLane == [t \in Tasks |-> main]
=============================================================================
