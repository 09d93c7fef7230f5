----------------------------- MODULE MCRunLanes -----------------------------
(* Two runs of one session, and a queued cron job that starts a run of a   *)
(* session of its own.                                                     *)
EXTENDS RunLanes, TLC

CONSTANTS sess, cronSess, r1, r1g, r2, r2g, job, jobRun, jobRunG

MCChild == (r1 :> r1g) @@ (r2 :> r2g) @@ (job :> jobRun) @@ (jobRun :> jobRunG)
           @@ (r1g :> NoTask) @@ (r2g :> NoTask) @@ (jobRunG :> NoTask)

MCLaneOf == (r1 :> sess) @@ (r2 :> sess) @@ (job :> Cron) @@ (jobRun :> cronSess)
            @@ (r1g :> ResolveGlobalLane(Main)) @@ (r2g :> ResolveGlobalLane(Main))
            @@ (jobRunG :> ResolveGlobalLane(Cron))
=============================================================================
