--------------------------- MODULE MCCommandQueue ---------------------------
(* A small instance of CommandQueue: a lane three calls compete for and a  *)
(* second lane, so that a reset, a clear or a cap change of one lane is    *)
(* interleaved with the work of another.                                   *)
EXTENDS CommandQueue, TLC

CONSTANTS main, cron, t1, t2, t3, t4

MCLaneOf == (t1 :> main) @@ (t2 :> main) @@ (t3 :> main) @@ (t4 :> cron)
=============================================================================
