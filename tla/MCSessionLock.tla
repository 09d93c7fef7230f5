---------------------------- MODULE MCSessionLock ----------------------------
(* Two callers in one process and one in another, which may die. *)
EXTENDS SessionLock, TLC

CONSTANTS p1, p2, c1, c2, c3

MCProcs == {p1, p2}
MCCallers == {c1, c2, c3}
MCProcOf == (c1 :> p1) @@ (c2 :> p1) @@ (c3 :> p2)
===============================================================================
