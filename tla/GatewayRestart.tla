--------------------------- MODULE GatewayRestart ---------------------------
(***************************************************************************)
(* The gateway's run loop (src/cli/gateway-cli/run-loop.ts) on top of the  *)
(* command queue: signals, the drain before a restart, closing the server, *)
(* the hand-over of the process lock, respawn or in-process restart, and   *)
(* the reset of the lanes at the start of the next loop iteration.         *)
(*                                                                         *)
(* The shutdown a signal starts is an async function that runs beside the  *)
(* loop: each of its awaits ends an action.  The embedded runs awaited     *)
(* next to the lane tasks only lengthen the "draining" step.               *)
(***************************************************************************)
EXTENDS CommandQueue

CONSTANTS
  Hung,               \* tasks whose body may never settle
  SignalsWhileStarting  \* do signals arrive while start() is pending?

ASSUME GatewayAssumption ==
  Hung \subseteq Tasks /\ SignalsWhileStarting \in BOOLEAN

VARIABLES
  loop,           \* where `for (;;)` is; "failed": start() threw, lock being released
  firstStart,     \* isFirstStart
  resolverArmed,  \* restartResolver is the resolver of the promise being awaited
  server,         \* `server` is not null
  listening,      \* a started server holds the port
  closeFailed,    \* history: a close() threw before it closed the port
  shutdown,       \* where the async function of request() is
  action,         \* the action it serves
  activeAtStart,  \* waitForActiveTasks: the tasks running when it was called
  drained,        \* its answer
  lock            \* `lock` is not null

restartVars == <<loop, firstStart, resolverArmed, server, listening, closeFailed,
                 shutdown, action, activeAtStart, drained, lock>>
vars == <<laneVars, restartVars>>

Alive == loop # "exited"

shuttingDown == shutdown # "none"

ActiveTasks == UNION {activeTaskIds[l] : l \in Lanes}

GatewayInit ==
  /\ Init
  /\ loop = "starting"
  /\ firstStart = TRUE
  /\ resolverArmed = FALSE
  /\ server = FALSE /\ listening = FALSE /\ closeFailed = FALSE
  /\ shutdown = "none" /\ action = "none"
  /\ activeAtStart = {} /\ drained = "none"
  /\ lock = TRUE

ExitProcess ==
  /\ loop' = "exited"
  /\ UNCHANGED <<laneVars, firstStart, resolverArmed, server, listening,
                 closeFailed, shutdown, action, activeAtStart, drained, lock>>

-----------------------------------------------------------------------------
(* The loop.                                                               *)

StartSucceeds ==
  /\ loop = "starting"
  /\ ~listening                       \* otherwise the port is in use
  /\ loop' = "waiting"
  /\ firstStart' = FALSE
  /\ server' = TRUE /\ listening' = TRUE
  /\ resolverArmed' = TRUE
  /\ UNCHANGED <<laneVars, closeFailed, shutdown, action, activeAtStart, drained,
                 lock>>

(* The first failure is thrown out of runGatewayLoop; a later one keeps    *)
(* the process alive without a server.                                     *)
StartFails ==
  /\ loop = "starting"
  /\ IF firstStart THEN ExitProcess
     ELSE /\ loop' = "failed"
          /\ server' = FALSE
          /\ UNCHANGED <<laneVars, firstStart, resolverArmed, listening, closeFailed,
                         shutdown, action, activeAtStart, drained, lock>>

AwaitRestartAfterFailure ==
  /\ loop = "failed"
  /\ lock' = FALSE
  /\ loop' = "waiting"
  /\ resolverArmed' = TRUE
  /\ UNCHANGED <<laneVars, firstStart, server, listening, closeFailed, shutdown,
                 action, activeAtStart, drained>>

-----------------------------------------------------------------------------
(* The shutdown.  A signal that finds one under way is ignored.            *)

(* server?.close(...): without a server there is nothing to wait for.      *)
AfterDrain == IF server THEN "closing" ELSE "releasing"

SignalArrives ==
  /\ Alive /\ ~shuttingDown
  /\ loop = "waiting" \/ SignalsWhileStarting

(* MaxResets bounds the restarts.  gatewayDraining may already be set: by  *)
(* a restart request the loop never answered.                              *)
RequestRestart ==
  /\ SignalArrives
  /\ \A l \in Lanes : generation[l] < MaxResets
  /\ action' = "restart" /\ shutdown' = "draining"
  /\ activeAtStart' = ActiveTasks
  /\ gatewayDraining' = TRUE
  /\ UNCHANGED <<queue, activeTaskIds, maxConcurrent, generation, taskGeneration,
                 status, loop, firstStart, resolverArmed, server, listening,
                 closeFailed, drained, lock>>

RequestStop ==
  /\ SignalArrives
  /\ action' = "stop" /\ shutdown' = AfterDrain
  /\ UNCHANGED <<laneVars, loop, firstStart, resolverArmed, server, listening,
                 closeFailed, activeAtStart, drained, lock>>

(* waitForActiveTasks answers, or its deadline passes.                     *)
DrainEnds_AnySettled ==   \* bug: one settled task of the snapshot is enough
  /\ Alive /\ shutdown = "draining"
  /\ drained' = IF activeAtStart # {} /\ activeAtStart \subseteq ActiveTasks
                THEN "timeout" ELSE "yes"
  /\ shutdown' = AfterDrain
  /\ UNCHANGED <<laneVars, loop, firstStart, resolverArmed, server, listening,
                 closeFailed, action, activeAtStart, lock>>
DrainEnds ==
  /\ Alive /\ shutdown = "draining"
  /\ drained' = IF activeAtStart \cap ActiveTasks = {} THEN "yes" ELSE "timeout"
  /\ shutdown' = AfterDrain
  /\ UNCHANGED <<laneVars, loop, firstStart, resolverArmed, server, listening,
                 closeFailed, action, activeAtStart, lock>>

CloseServer_SkippedAfterTimeout ==   \* bug: the timeout path goes straight on
  /\ Alive /\ shutdown = "closing"
  /\ server' = FALSE
  /\ \/ /\ listening' = (listening /\ drained = "timeout")
        /\ UNCHANGED closeFailed
     \/ /\ listening
        /\ closeFailed' = TRUE
        /\ UNCHANGED listening
  /\ shutdown' = "releasing"
  /\ UNCHANGED <<laneVars, loop, firstStart, resolverArmed, action,
                 activeAtStart, drained, lock>>
(* A close that throws (tailscaleCleanup, stopChannel and stopGmailWatcher *)
(* are awaited unguarded before httpServer.close) is logged and forgotten: *)
(* the loop goes on without a server while the old one holds the port.     *)
CloseServer ==
  /\ Alive /\ shutdown = "closing"
  /\ server' = FALSE
  /\ \/ /\ listening' = FALSE
        /\ UNCHANGED closeFailed
     \/ /\ listening
        /\ closeFailed' = TRUE
        /\ UNCHANGED listening
  /\ shutdown' = "releasing"
  /\ UNCHANGED <<laneVars, loop, firstStart, resolverArmed, action,
                 activeAtStart, drained, lock>>

(* forceExitTimer: the drain or the close took too long.                   *)
ForceExit ==
  /\ Alive /\ shutdown \in {"draining", "closing"}
  /\ ExitProcess

(* The end of handleRestartAfterServerClose: restartResolver is called and *)
(* the loop, if it waits on that promise, iterates: onIteration resets the *)
(* lanes and start() is called.  A resolver that is absent or already used *)
(* is called in vain.                                                      *)
FinishRestart_NoHook ==   \* bug: the loop iterates without onIteration
  /\ shutdown' = "none" /\ action' = "none" /\ drained' = "none" /\ activeAtStart' = {}
  /\ IF resolverArmed THEN resolverArmed' = FALSE /\ loop' = "starting" /\ UNCHANGED laneVars
     ELSE UNCHANGED <<laneVars, resolverArmed, loop>>
FinishRestart_FlagOnly ==   \* bug: the hook clears the flag and forgets the lanes
  /\ shutdown' = "none" /\ action' = "none" /\ drained' = "none" /\ activeAtStart' = {}
  /\ IF resolverArmed
     THEN /\ resolverArmed' = FALSE /\ loop' = "starting"
          /\ gatewayDraining' = FALSE
          /\ UNCHANGED <<queue, activeTaskIds, maxConcurrent, generation,
                         taskGeneration, status>>
     ELSE UNCHANGED <<laneVars, resolverArmed, loop>>
FinishRestart ==
  /\ shutdown' = "none" /\ action' = "none" /\ drained' = "none" /\ activeAtStart' = {}
  /\ IF resolverArmed
     THEN resolverArmed' = FALSE /\ loop' = "starting" /\ ResetAllLanes
     ELSE UNCHANGED <<laneVars, resolverArmed, loop>>

(* The lock is released, and then the process is replaced (or stopped), or *)
(* restarts in place because respawning is disabled or failed.             *)
ReleaseLockAndExit ==
  /\ Alive /\ shutdown = "releasing"
  /\ lock' = FALSE
  /\ loop' = "exited"
  /\ UNCHANGED <<laneVars, firstStart, resolverArmed, server, listening,
                 closeFailed, shutdown, action, activeAtStart, drained>>

ReleaseLockAndRestartInProcess ==
  /\ Alive /\ shutdown = "releasing" /\ action = "restart"
  /\ lock' = FALSE
  /\ IF lock
     THEN /\ shutdown' = "reacquiring"
          /\ UNCHANGED <<laneVars, loop, resolverArmed, action, activeAtStart, drained>>
     ELSE FinishRestart
  /\ UNCHANGED <<firstStart, server, listening, closeFailed>>

ReacquireLock ==
  /\ Alive /\ shutdown = "reacquiring"
  /\ lock' = TRUE
  /\ FinishRestart
  /\ UNCHANGED <<firstStart, server, listening, closeFailed>>

ReacquireFails ==
  /\ Alive /\ shutdown = "reacquiring"
  /\ ExitProcess

-----------------------------------------------------------------------------
LaneStep ==
  /\ Alive
  /\ \/ \E t \in Tasks : EnqueueCommandInLane(t) \/ RefuseWhileDraining(t)
     \/ \E t \in Tasks, o \in {"resolved", "rejected"} : Settle(t, o)
     \/ \E l \in Lanes, n \in ConcurrencyInputs : SetCommandLaneConcurrency(l, n)
     \/ \E l \in Lanes : ClearCommandLane(l)
  /\ UNCHANGED restartVars

LoopStep == StartSucceeds \/ StartFails \/ AwaitRestartAfterFailure

ShutdownStep ==
  \/ DrainEnds \/ CloseServer \/ ForceExit
  \/ ReleaseLockAndExit \/ ReleaseLockAndRestartInProcess
  \/ ReacquireLock \/ ReacquireFails

GatewayNext == LaneStep \/ LoopStep \/ RequestRestart \/ RequestStop \/ ShutdownStep

GatewaySpec == GatewayInit /\ [][GatewayNext]_vars

(***************************************************************************)
(* start() answers; every await of the shutdown ends, by a timer if need   *)
(* be; bodies settle, except those in Hung, whose finally never runs.      *)
(***************************************************************************)
GatewayFairness ==
  /\ WF_vars(LoopStep)
  /\ WF_vars(ShutdownStep)
  /\ \A t \in Tasks \ Hung :
       WF_vars(LaneStep /\ \E o \in {"resolved", "rejected"} : Settle(t, o))

GatewayFairSpec == GatewaySpec /\ GatewayFairness

-----------------------------------------------------------------------------
(* Every field of the run loop has its type; a loop that waits can be      *)
(* woken, and shuttingDown is set exactly while a request is served.       *)
GatewayTypeOK ==
  /\ loop \in {"starting", "failed", "waiting", "exited"}
  /\ shutdown \in {"none", "draining", "closing", "releasing", "reacquiring"}
  /\ action \in {"none", "restart", "stop"}
  /\ drained \in {"none", "yes", "timeout"}
  /\ activeAtStart \in SUBSET Tasks
  /\ {firstStart, resolverArmed, server, listening, closeFailed, lock} \subseteq BOOLEAN
  /\ resolverArmed => loop \in {"waiting", "exited"}
  /\ loop = "waiting" => resolverArmed
  /\ shuttingDown <=> action # "none"

(* A gateway that has started and is not shutting down accepts work: the   *)
(* drain flag of a restart never outlives the restart.                     *)
ServingAcceptsWork ==
  (loop = "waiting" /\ server /\ ~shuttingDown) => ~gatewayDraining

(* "All active work drained": when the drain is said to be complete, no    *)
(* task that was running when the restart was requested still runs, whatever *)
(* was started, settled or cleared meanwhile.                              *)
DrainedMeansDone ==
  drained = "yes" => \A t \in activeAtStart : status[t] # "running"

(* Between the request and the end of a restart nothing new is accepted    *)
(* into a queue that the exit of the process would silently lose.          *)
NothingAcceptedWhileDraining ==
  [][(action = "restart" /\ action' = "restart") =>
       \A t \in Tasks : status[t] = "idle" => status'[t] \in {"idle", "refused"}]_vars

(* The lanes forget what runs only between two servers, also when the      *)
(* drain timed out, the lock was reacquired or an earlier start() failed:  *)
(* no client of a live server sees its lane reset, unless the close() of   *)
(* that server threw, which the run loop only logs.                        *)
ResetBetweenServers ==
  [][generation' # generation => (~listening /\ ~listening') \/ closeFailed]_vars

(* A restart ends, in an exited process or in a loop that starts the work  *)
(* it finds queued, even when the bodies that occupied the lane before the *)
(* restart never settle.                                                   *)
QueuedSurvivesRestart ==
  \A t \in Tasks :
    (action = "restart" /\ status[t] = "queued" /\ \A h \in Hung : status[h] # "queued")
      ~> (status[t] # "queued" \/ loop = "exited")

=============================================================================
