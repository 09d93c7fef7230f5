---------------------------- MODULE CommandQueue ----------------------------
(***************************************************************************)
(* The in-process, lane-aware command queue of the gateway                 *)
(* (src/process/command-queue.ts).                                         *)
(*                                                                         *)
(* Every agent run, compaction and queued cron job is a promise handed to  *)
(* enqueueCommandInLane.  A lane is a FIFO with a concurrency cap; its     *)
(* pump starts entries until the cap is reached or the queue is empty, and *)
(* is re-run whenever an entry arrives, a started entry settles, the cap   *)
(* changes or the lanes are reset by an in-process restart.                *)
(*                                                                         *)
(* JavaScript runs one synchronous section at a time, so every exported    *)
(* function, and every continuation after `await entry.task()`, is one     *)
(* action together with the pump it ends in.  A task is named by itself:   *)
(* the counter nextTaskId only makes the ids of started entries distinct,  *)
(* and each entry is started once.  A lane missing from the `lanes` map    *)
(* behaves like one with the defaults of getLaneState.                     *)
(***************************************************************************)
EXTENDS Integers, Sequences, FiniteSets

CONSTANTS
  Lanes,              \* lane names ("main", "cron", "session:<key>", ...)
  Tasks,              \* the calls of enqueueCommandInLane
  LaneOf,             \* the (normalized) lane each call names
  ConcurrencyInputs,  \* values passed to setCommandLaneConcurrency
  MaxResets           \* bound on in-process restarts

ASSUME ConstantsAssumption ==
  /\ IsFiniteSet(Tasks)
  /\ LaneOf \in [Tasks -> Lanes]
  /\ ConcurrencyInputs \subseteq Int
  /\ MaxResets \in Nat

VARIABLES
  queue,            \* LaneState.queue: entries not started yet
  activeTaskIds,    \* LaneState.activeTaskIds: entries the lane counts as running
  maxConcurrent,    \* LaneState.maxConcurrent
  generation,       \* LaneState.generation, bumped by resetAllLanes
  gatewayDraining,  \* set while a restart drains the process
  taskGeneration,   \* the generation a started entry captured
  status            \* what happened to the promise of each call

laneVars == <<queue, activeTaskIds, maxConcurrent, generation, gatewayDraining,
              taskGeneration, status>>

(***************************************************************************)
(* "refused" is a rejection with GatewayDrainingError, "cleared" one with  *)
(* CommandLaneClearedError; "running" means that the body really runs,     *)
(* whatever the lane believes.                                             *)
(***************************************************************************)
Statuses == {"idle", "refused", "queued", "running",
             "resolved", "rejected", "cleared"}

InLane(l) == {t \in Tasks : LaneOf[t] = l}

-----------------------------------------------------------------------------
(* The cap setCommandLaneConcurrency stores for its argument. *)
CapOf(n) == IF n < 1 THEN 1 ELSE n

(* How many entries one run of the pump loop starts. *)
PumpCount(q, active, cap) ==
  LET free == cap - Cardinality(active) IN
  IF free <= 0 THEN 0 ELSE IF free <= Len(q) THEN free ELSE Len(q)

Started_FromTail(q, active, cap) ==   \* bug: pop() for shift()
  {q[Len(q) + 1 - i] : i \in 1..PumpCount(q, active, cap)}
Started(q, active, cap) == {q[i] : i \in 1..PumpCount(q, active, cap)}

Remaining_Peeked(q, active, cap) == q   \* bug: the entry is read, not shifted
Remaining(q, active, cap) == SubSeq(q, PumpCount(q, active, cap) + 1, Len(q))

(***************************************************************************)
(* drainLane on the lanes of L, from the intermediate state the caller has *)
(* built: queues q, active sets a, caps m, generations g, promises s.      *)
(***************************************************************************)
DrainLanes(L, q, a, m, g, s) ==
  LET started == [l \in Lanes |-> IF l \in L THEN Started(q[l], a[l], m[l]) ELSE {}] IN
  /\ queue' = [l \in Lanes |-> IF l \in L THEN Remaining(q[l], a[l], m[l]) ELSE q[l]]
  /\ activeTaskIds' = [l \in Lanes |-> a[l] \cup started[l]]
  /\ maxConcurrent' = m
  /\ generation' = g
  /\ status' = [t \in Tasks |-> IF t \in started[LaneOf[t]] THEN "running" ELSE s[t]]
  /\ taskGeneration' = [t \in Tasks |-> IF t \in started[LaneOf[t]]
                                        THEN g[LaneOf[t]] ELSE taskGeneration[t]]

-----------------------------------------------------------------------------
Init ==
  /\ queue = [l \in Lanes |-> <<>>]
  /\ activeTaskIds = [l \in Lanes |-> {}]
  /\ maxConcurrent = [l \in Lanes |-> 1]
  /\ generation = [l \in Lanes |-> 0]
  /\ gatewayDraining = FALSE
  /\ taskGeneration = [t \in Tasks |-> 0]
  /\ status = [t \in Tasks |-> "idle"]

(* enqueueCommandInLane while the gateway accepts work. *)
EnqueueCommandInLane(t) ==
  /\ status[t] = "idle"
  /\ ~gatewayDraining
  /\ DrainLanes({LaneOf[t]}, [queue EXCEPT ![LaneOf[t]] = Append(@, t)],
                activeTaskIds, maxConcurrent, generation,
                [status EXCEPT ![t] = "queued"])
  /\ UNCHANGED gatewayDraining

(* enqueueCommandInLane during a drain: the promise is already rejected. *)
RefuseWhileDraining(t) ==
  /\ status[t] = "idle"
  /\ gatewayDraining
  /\ status' = [status EXCEPT ![t] = "refused"]
  /\ UNCHANGED <<queue, activeTaskIds, maxConcurrent, generation,
                 gatewayDraining, taskGeneration>>

(* The task of the lane's present generation settles: its slot is freed,   *)
(* the lane is pumped and the caller's promise is settled.                 *)
SettleCurrent_NoPumpOnError(t, outcome) ==   \* bug: the catch branch does not pump
  /\ status[t] = "running"
  /\ taskGeneration[t] = generation[LaneOf[t]]
  /\ DrainLanes(IF outcome = "rejected" THEN {} ELSE {LaneOf[t]}, queue,
                [activeTaskIds EXCEPT ![LaneOf[t]] = @ \ {t}],
                maxConcurrent, generation, [status EXCEPT ![t] = outcome])
  /\ UNCHANGED gatewayDraining
SettleCurrent(t, outcome) ==
  /\ status[t] = "running"
  /\ taskGeneration[t] = generation[LaneOf[t]]
  /\ DrainLanes({LaneOf[t]}, queue, [activeTaskIds EXCEPT ![LaneOf[t]] = @ \ {t}],
                maxConcurrent, generation, [status EXCEPT ![t] = outcome])
  /\ UNCHANGED gatewayDraining

(* A task started before the last reset settles: completeTask answers      *)
(* false, the lane is left alone, the caller's promise is settled.         *)
SettleStale(t, outcome) ==
  /\ status[t] = "running"
  /\ taskGeneration[t] # generation[LaneOf[t]]
  /\ status' = [status EXCEPT ![t] = outcome]
  /\ UNCHANGED <<queue, activeTaskIds, maxConcurrent, generation,
                 gatewayDraining, taskGeneration>>

Settle(t, outcome) == SettleCurrent(t, outcome) \/ SettleStale(t, outcome)

SetCommandLaneConcurrency(l, n) ==
  /\ DrainLanes({l}, queue, activeTaskIds,
                [maxConcurrent EXCEPT ![l] = CapOf(n)],
                generation, status)
  /\ UNCHANGED gatewayDraining

ClearCommandLane(l) ==
  /\ queue[l] # <<>>
  /\ queue' = [queue EXCEPT ![l] = <<>>]
  /\ status' = [t \in Tasks |-> IF LaneOf[t] = l /\ status[t] = "queued"
                                THEN "cleared" ELSE status[t]]
  /\ UNCHANGED <<activeTaskIds, maxConcurrent, generation, gatewayDraining,
                 taskGeneration>>

MarkGatewayDraining ==
  /\ ~gatewayDraining
  /\ gatewayDraining' = TRUE
  /\ UNCHANGED <<queue, activeTaskIds, maxConcurrent, generation,
                 taskGeneration, status>>

(* resetAllLanes: every lane forgets what it started and is pumped again.  *)
ResetAllLanes_NoDrain ==   \* bug: preserved entries wait for the next enqueue
  /\ \A l \in Lanes : generation[l] < MaxResets
  /\ gatewayDraining' = FALSE
  /\ DrainLanes({}, queue, [l \in Lanes |-> {}], maxConcurrent,
                [l \in Lanes |-> generation[l] + 1], status)
ResetAllLanes_SameGeneration ==   \* bug: late completions count for the new lane
  /\ \A l \in Lanes : generation[l] < MaxResets
  /\ gatewayDraining' = FALSE
  /\ DrainLanes({l \in Lanes : queue[l] # <<>>}, queue, [l \in Lanes |-> {}],
                maxConcurrent, generation, status)
ResetAllLanes ==
  /\ \A l \in Lanes : generation[l] < MaxResets
  /\ gatewayDraining' = FALSE
  /\ DrainLanes({l \in Lanes : queue[l] # <<>>}, queue, [l \in Lanes |-> {}],
                maxConcurrent, [l \in Lanes |-> generation[l] + 1], status)

Next ==
  \/ \E t \in Tasks : EnqueueCommandInLane(t) \/ RefuseWhileDraining(t)
  \/ \E t \in Tasks, o \in {"resolved", "rejected"} : Settle(t, o)
  \/ \E l \in Lanes, n \in ConcurrencyInputs : SetCommandLaneConcurrency(l, n)
  \/ \E l \in Lanes : ClearCommandLane(l)
  \/ MarkGatewayDraining
  \/ ResetAllLanes

Spec == Init /\ [][Next]_laneVars

(***************************************************************************)
(* A started body settles eventually: agent runs and cron jobs carry       *)
(* timeouts.  Nothing else is owed by the environment.                     *)
(***************************************************************************)
Fairness == \A t \in Tasks : WF_laneVars(\E o \in {"resolved", "rejected"} : Settle(t, o))

FairSpec == Spec /\ Fairness

-----------------------------------------------------------------------------
(***************************************************************************)
(* Properties                                                              *)
(***************************************************************************)

(* Every field of the lane records and every promise has its type.         *)
TypeOK ==
  /\ queue \in [Lanes -> Seq(Tasks)]
  /\ activeTaskIds \in [Lanes -> SUBSET Tasks]
  /\ maxConcurrent \in [Lanes -> Nat \ {0}]
  /\ generation \in [Lanes -> Nat]
  /\ gatewayDraining \in BOOLEAN
  /\ taskGeneration \in [Tasks -> Nat]
  /\ status \in [Tasks -> Statuses]

(* A promise is pending in a queue exactly while its call is "queued", in  *)
(* the lane it named and once: no call is dropped without being settled    *)
(* and none is started twice.                                              *)
QueuedExactlyOnce ==
  /\ \A l \in Lanes : \A i \in 1..Len(queue[l]) :
       /\ status[queue[l][i]] = "queued"
       /\ LaneOf[queue[l][i]] = l
       /\ \A j \in 1..Len(queue[l]) : queue[l][i] = queue[l][j] => i = j
  /\ \A t \in Tasks : status[t] = "queued" =>
       \E i \in 1..Len(queue[LaneOf[t]]) : queue[LaneOf[t]][i] = t

(* A lane counts exactly the bodies that really run for its present        *)
(* generation: after any mix of completions, cap changes and restarts, no  *)
(* slot is leaked to a task that is gone and none is handed out twice      *)
(* within a generation.                                                    *)
SlotsMatchRunning ==
  \A l \in Lanes :
    activeTaskIds[l] = {t \in InLane(l) : /\ status[t] = "running"
                                          /\ taskGeneration[t] = generation[l]}

(* No lost wake-up: between two synchronous sections a lane with queued    *)
(* entries is at its cap, so there is a completion to come that pumps it.  *)
(* This is the state the "drainLane blocked" warning looks for.            *)
NoStrandedWork ==
  \A l \in Lanes :
    queue[l] # <<>> => Cardinality(activeTaskIds[l]) >= maxConcurrent[l]

(* A step that starts work leaves its lane within the cap, also when the   *)
(* cap was lowered below what already runs.                                *)
CapStep ==
  \A l \in Lanes : ~(activeTaskIds'[l] \subseteq activeTaskIds[l]) =>
    Cardinality(activeTaskIds'[l]) <= maxConcurrent'[l]
StartsWithinCap == [][CapStep]_laneVars

(* A lane is a FIFO: an entry is never started while one queued before it  *)
(* in the same lane keeps waiting.                                         *)
FifoStep ==
  \A l \in Lanes : \A i, j \in 1..Len(queue[l]) :
    (i < j /\ status'[queue[l][j]] = "running") => status'[queue[l][i]] # "queued"
NoOvertaking == [][FifoStep]_laneVars

(* Every accepted entry is started or cleared, whatever restarts and       *)
(* clears happen, as long as started bodies settle.                        *)
QueuedIsServed ==
  \A t \in Tasks : status[t] = "queued" ~> status[t] # "queued"

=============================================================================
