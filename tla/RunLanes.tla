------------------------------ MODULE RunLanes ------------------------------
(***************************************************************************)
(* Agent runs, compactions and queued cron runs on the command queue       *)
(* (agents/pi-embedded-runner/run.ts, compact.ts, lanes.ts and             *)
(* cron/service/ops.ts): an entry whose body enqueues another entry, in    *)
(* another lane, and awaits it.  A run holds its session's lane while it   *)
(* waits for and holds a slot of the global lane; a queued cron run holds  *)
(* a slot of the cron lane around both.                                    *)
(***************************************************************************)
EXTENDS CommandQueue

CONSTANTS
  Main, Cron, Subagent, Nested,   \* lanes of process/lanes.ts
  NoTask,
  Child   \* the entry the body of an entry enqueues and awaits, or NoTask

ASSUME RunLanesAssumption ==
  /\ NoTask \notin Tasks
  /\ Child \in [Tasks -> Tasks \cup {NoTask}]
  /\ \A p, q \in Tasks : Child[p] = Child[q] /\ Child[p] # NoTask => p = q

(* The lanes applyGatewayLaneConcurrency sets; lanes of sessions and the   *)
(* nested lane keep the default cap of one.                                *)
ConfiguredLanes == {Main, Cron, Subagent}

(* The global lane of a run that asks for a lane. *)
ResolveGlobalLane_Direct(lane) == lane   \* bug: a cron run wants its job's lane
ResolveGlobalLane(lane) == IF lane = Cron THEN Nested ELSE lane

TopLevel == {t \in Tasks : \A p \in Tasks : Child[p] # t}

Settled(t) == status[t] \in {"resolved", "rejected", "refused", "cleared"}

(* Bodies that have not enqueued their entry.  The body of a run does so in *)
(* the synchronous section that starts it, so nothing else happens while    *)
(* one is due; that of a cron job loads the store and reserves the job      *)
(* before, or finds that there is nothing to run.                           *)
Owed == {t \in Tasks : /\ status[t] = "running"
                       /\ Child[t] # NoTask
                       /\ status[Child[t]] = "idle"}
Due == {t \in Owed : LaneOf[t] # Cron}

StartBody(t) ==
  /\ t \in Owed
  /\ Due = {} \/ t \in Due
  /\ EnqueueCommandInLane(Child[t]) \/ RefuseWhileDraining(Child[t])

Call(t) ==
  /\ Due = {} /\ t \in TopLevel
  /\ EnqueueCommandInLane(t) \/ RefuseWhileDraining(t)

(* A body ends as the entry it awaits does; one without such an entry ends *)
(* either way.                                                             *)
Outcome(t) ==
  IF Child[t] = NoTask \/ t \in Owed THEN {"resolved", "rejected"}
  ELSE IF status[Child[t]] = "resolved" THEN {"resolved"} ELSE {"rejected"}

BodyEnds_NotAwaited(t) ==   \* bug: the inner promise is neither returned nor awaited
  /\ Due = {}
  /\ \E o \in {"resolved", "rejected"} : Settle(t, o)
BodyEnds(t) ==
  /\ Due = {}
  /\ Child[t] # NoTask => Settled(Child[t]) \/ t \in Owed
  /\ \E o \in Outcome(t) : Settle(t, o)

(* Config reloads, /stop and interrupts, and restarts.                     *)
Environment ==
  /\ Due = {}
  /\ \/ \E l \in ConfiguredLanes \cap Lanes, n \in ConcurrencyInputs : SetCommandLaneConcurrency(l, n)
     \/ \E l \in Lanes : ClearCommandLane(l)
     \/ MarkGatewayDraining
     \/ ResetAllLanes

RunNext ==
  \/ \E t \in Tasks : StartBody(t) \/ Call(t) \/ BodyEnds(t)
  \/ Environment

RunSpec == Init /\ [][RunNext]_laneVars

(* Agent runs and jobs have timeouts: a body that awaits nothing in the    *)
(* queue ends.                                                             *)
RunFairness ==
  /\ WF_laneVars(\E t \in Tasks : StartBody(t))
  /\ \A t \in Tasks : WF_laneVars(BodyEnds(t))

RunFairSpec == RunSpec /\ RunFairness

-----------------------------------------------------------------------------
(* "only one agent run touches a given session at a time": of the runs     *)
(* queued through one session lane since the last in-process restart, at   *)
(* most one is past the session lane, in the global queue or running.      *)
OneRunPerSession ==
  \A s, r \in Tasks :
    (/\ s # r /\ LaneOf[s] = LaneOf[r] /\ LaneOf[s] \notin ConfiguredLanes
     /\ Child[s] # NoTask /\ Child[r] # NoTask
     /\ status[Child[s]] \in {"queued", "running"}
     /\ status[Child[r]] \in {"queued", "running"})
      => \E x \in {s, r} : taskGeneration[x] # generation[LaneOf[x]]

(* "inner operations must use nested to avoid deadlock": however the lanes *)
(* its body and the bodies around it need are occupied, every entry ends,  *)
(* so that again and again nothing is left queued or running.              *)
EverythingEnds == []<>(\A t \in Tasks : status[t] \notin {"queued", "running"})

=============================================================================
