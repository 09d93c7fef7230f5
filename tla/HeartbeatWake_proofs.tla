------------------------ MODULE HeartbeatWake_proofs ------------------------
(***************************************************************************)
(* Proofs about HeartbeatWake, for any targets, delays, runners and number *)
(* of callbacks under way.  The invariant adds to the properties what they *)
(* need of each other: a callback hands out wakes of its own batch, and    *)
(* `running` is set while a callback of the runner in charge is under way, *)
(* unless a callback of a former runner has reset it.                      *)
(***************************************************************************)
EXTENDS HeartbeatWake, TLAPS

BatchesInOrder ==
  \A b \in Slots : /\ batch[b].of \in 0..runners
                   /\ batch[b].now \cup batch[b].todo \subseteq batch[b].all
                   /\ batch[b].now \cap batch[b].todo = {}
                   /\ batch[b].of = None => batch[b].todo = {}

RunnersInOrder == runners \in Nat /\ handler \in 0..runners

RunningIsKnown ==
  ~intruded /\ handler # None =>
    \A b \in Slots : batch[b].of = handler => running

BatchType ==
  batch \in [Slots -> [of : Nat, now : SUBSET Targets, todo : SUBSET Targets,
                       all : SUBSET Targets, delay : Nat, disabled : BOOLEAN]]

TimerType == timer \in [kind : {"off", "normal", "retry"}, left : Nat, delay : Nat]

FlagTypes ==
  /\ {running, scheduled, intruded} \subseteq BOOLEAN
  /\ stopped \subseteq 1..runners /\ runners \in 0..MaxRunners
  /\ pending \subseteq Targets /\ uncalled \subseteq Targets

WakeInv ==
  /\ RunnersInOrder /\ BatchType /\ TimerType /\ FlagTypes /\ BatchesInOrder
  /\ PendingHasTimer /\ UncalledIsHeld
  /\ RunningIsKnown /\ SerialBatches
  /\ LatestIsInCharge

-----------------------------------------------------------------------------
(* Whatever is scheduled on a timer, there is a timer then.                *)
LEMMA ScheduleArms ==
  ASSUME NEW tm \in [kind : {"off", "normal", "retry"}, left : Nat, delay : Nat],
         NEW d \in Nat, NEW k \in {"normal", "retry"}
  PROVE  /\ Schedule(tm, d, k) \in [kind : {"off", "normal", "retry"}, left : Nat, delay : Nat]
         /\ Schedule(tm, d, k).kind # "off"
         /\ tm.kind = "retry" => Schedule(tm, d, k) = tm
BY DEF Schedule, Armed

LEMMA InitWakeInv == Init => WakeInv
<1> SUFFICES ASSUME Init PROVE WakeInv
  OBVIOUS
<1>1. RunnersInOrder /\ BatchType /\ TimerType
  BY DEF Init, RunnersInOrder, BatchType, TimerType, NoBatch, TimerOff, None
<1>2. FlagTypes
  <2>1. 0 \in 0..MaxRunners
    BY WakeAssumption
  <2>2. stopped \subseteq 1..runners /\ pending \subseteq Targets /\ uncalled \subseteq Targets
    BY DEF Init
  <2>3. {running, scheduled, intruded} \subseteq BOOLEAN
    BY DEF Init
  <2> QED BY <2>1, <2>2, <2>3 DEF Init, FlagTypes
<1>3. BatchesInOrder
  BY DEF Init, BatchesInOrder, NoBatch, None
<1>4. PendingHasTimer /\ UncalledIsHeld /\ RunningIsKnown /\ SerialBatches /\ LatestIsInCharge
  BY DEF Init, PendingHasTimer, UncalledIsHeld, RunningIsKnown, SerialBatches, LatestIsInCharge
<1> QED BY <1>1, <1>2, <1>3, <1>4 DEF WakeInv

LEMMA RequestStep ==
  ASSUME WakeInv, NEW t \in Targets, NEW d \in Delays, RequestHeartbeatNow(t, d)
  PROVE  WakeInv'
<1>1. d \in Nat
  BY WakeAssumption
<1>2. TimerType' /\ timer'.kind # "off"
  BY <1>1, ScheduleArms DEF WakeInv, TimerType, RequestHeartbeatNow
<1> QED BY <1>2
  DEF RequestHeartbeatNow, WakeInv, RunnersInOrder, BatchType, TimerType, FlagTypes,
      BatchesInOrder, PendingHasTimer, UncalledIsHeld, RunningIsKnown, SerialBatches,
      LatestIsInCharge

LEMMA RunnerStartsStep ==
  ASSUME WakeInv, RunnerStarts
  PROVE  WakeInv'
<1>1. \A b \in Slots : batch'[b].of # handler'
  BY DEF WakeInv, RunnersInOrder, BatchesInOrder, RunnerStarts
<1>2. TimerType' /\ (pending' # {} => timer'.kind # "off")
  BY WakeAssumption DEF RunnerStarts, TimerType, Armed, TimerOff
<1>3. RunnersInOrder' /\ BatchesInOrder' /\ BatchType' /\ FlagTypes'
  <2>1. RunnersInOrder' /\ BatchType'
    BY DEF WakeInv, RunnersInOrder, BatchType, RunnerStarts
  <2>2. BatchesInOrder'
    BY DEF WakeInv, RunnersInOrder, BatchesInOrder, RunnerStarts
  <2>3. stopped' \subseteq 1..runners'
    BY DEF WakeInv, RunnersInOrder, FlagTypes, RunnerStarts
  <2>4. runners' \in 0..MaxRunners
    BY WakeAssumption DEF WakeInv, FlagTypes, RunnerStarts
  <2> QED BY <2>1, <2>2, <2>3, <2>4 DEF WakeInv, FlagTypes, RunnerStarts
<1>4. UncalledIsHeld' /\ LatestIsInCharge'
  BY DEF WakeInv, UncalledIsHeld, LatestIsInCharge, RunnerStarts
<1> QED BY <1>1, <1>2, <1>3, <1>4
  DEF WakeInv, PendingHasTimer, RunningIsKnown, SerialBatches

LEMMA RunnerStopsStep ==
  ASSUME WakeInv, NEW r \in 1..runners, RunnerStops(r)
  PROVE  WakeInv'
<1>1. handler' = None \/ handler' = handler
  BY DEF RunnerStops
<1>2. RunnersInOrder' /\ BatchesInOrder' /\ BatchType' /\ TimerType' /\ FlagTypes'
  BY DEF WakeInv, RunnersInOrder, BatchesInOrder, BatchType, TimerType, FlagTypes,
         RunnerStops, None
<1>3. LatestIsInCharge'
  BY DEF WakeInv, RunnersInOrder, LatestIsInCharge, RunnerStops
<1>4. UncalledIsHeld'
  BY DEF WakeInv, UncalledIsHeld, RunnerStops
<1>5. PendingHasTimer' /\ RunningIsKnown' /\ SerialBatches'
  BY <1>1 DEF WakeInv, PendingHasTimer, RunningIsKnown, SerialBatches, RunnerStops
<1> QED BY <1>2, <1>3, <1>4, <1>5 DEF WakeInv

LEMMA TimerStep ==
  ASSUME WakeInv, Tick \/ TimerFindsNoWork \/ TimerFindsRunning
  PROVE  WakeInv'
<1>1. UNCHANGED <<handler, runners, stopped, pending, running, batch, uncalled, intruded>>
  BY DEF Tick, TimerFindsNoWork, TimerFindsRunning
<1>2. TimerType'
  BY DEF WakeInv, TimerType, Tick, TimerFindsNoWork, TimerFindsRunning, TimerOff, Armed
<1>3. PendingHasTimer'
  BY DEF WakeInv, TimerType, PendingHasTimer, Tick, TimerFindsNoWork, TimerFindsRunning,
         TimerOff, Armed, Due
<1>4. FlagTypes'
  BY <1>1 DEF WakeInv, FlagTypes, Tick, TimerFindsNoWork, TimerFindsRunning
<1> QED BY <1>1, <1>2, <1>3, <1>4
  DEF WakeInv, RunnersInOrder, BatchType, BatchesInOrder, UncalledIsHeld, RunningIsKnown,
      SerialBatches, LatestIsInCharge

LEMMA StartsBatchStep ==
  ASSUME WakeInv, NEW b \in Slots, NEW t \in Targets, TimerStartsBatch(b, t)
  PROVE  WakeInv'
<1>1. /\ handler # None /\ ~running /\ batch[b].of = None /\ t \in pending
      /\ UNCHANGED <<handler, runners, stopped, intruded>>
      /\ pending' = {} /\ timer' = TimerOff /\ scheduled' = FALSE /\ running' = TRUE
      /\ uncalled' = uncalled \ {t}
  BY DEF TimerStartsBatch, BeginBatch
<1>2. /\ batch' \in [Slots -> [of : Nat, now : SUBSET Targets, todo : SUBSET Targets,
                               all : SUBSET Targets, delay : Nat, disabled : BOOLEAN]]
      /\ batch'[b].of = handler /\ batch'[b].now = {t} /\ batch'[b].todo = pending \ {t}
      /\ batch'[b].all = pending
      /\ \A c \in Slots \ {b} : batch'[c] = batch[c]
  BY DEF TimerStartsBatch, BeginBatch, WakeInv, BatchType, TimerType, FlagTypes, RunnersInOrder
<1>3. RunnersInOrder' /\ TimerType' /\ FlagTypes' /\ BatchType'
  BY <1>1, <1>2 DEF WakeInv, RunnersInOrder, TimerType, FlagTypes, BatchType, TimerOff
<1>4. BatchesInOrder'
  BY <1>1, <1>2 DEF WakeInv, RunnersInOrder, BatchesInOrder
<1>5. UncalledIsHeld'
  <2> SUFFICES ASSUME NEW u \in uncalled', u \notin pending'
               PROVE  \E c \in Slots : u \in batch'[c].todo
    BY DEF UncalledIsHeld
  <2>1. CASE u \in pending
    BY <2>1, <1>1, <1>2
  <2>2. CASE u \notin pending
    <3>1. PICK c \in Slots : u \in batch[c].todo
      BY <2>2, <1>1 DEF WakeInv, UncalledIsHeld
    <3>2. c # b
      BY <3>1, <1>1 DEF WakeInv, BatchesInOrder
    <3> QED BY <3>1, <3>2, <1>2
  <2> QED BY <2>1, <2>2
<1>6. PendingHasTimer' /\ RunningIsKnown' /\ LatestIsInCharge'
  BY <1>1 DEF WakeInv, PendingHasTimer, RunningIsKnown, LatestIsInCharge
<1>7. SerialBatches'
  BY <1>1, <1>2 DEF WakeInv, RunningIsKnown, SerialBatches
<1> QED BY <1>3, <1>4, <1>5, <1>6, <1>7 DEF WakeInv

(* The end of a callback, with queue p and timer tm.                       *)
LEMMA EndBatchStep ==
  ASSUME WakeInv, NEW b \in Slots, batch[b].of # None,
         NEW p \in SUBSET Targets, pending \subseteq p,
         NEW tm \in [kind : {"off", "normal", "retry"}, left : Nat, delay : Nat],
         EndBatch(b, p, tm),
         uncalled' \subseteq uncalled \cup p, batch[b].todo \cap uncalled' \subseteq p,
         UNCHANGED <<handler, runners, stopped, scheduled>>
  PROVE  WakeInv'
<1>1. /\ pending' = p /\ running' = FALSE
      /\ intruded' = (intruded \/ batch[b].of # handler)
  BY DEF EndBatch
<1>2. /\ batch'[b] = NoBatch /\ \A c \in Slots \ {b} : batch'[c] = batch[c]
      /\ BatchType'
  BY DEF EndBatch, WakeInv, BatchType, NoBatch, None
<1>3. batch[b].delay \in Nat
  BY DEF WakeInv, BatchType
<1>4. TimerType' /\ (p # {} => timer'.kind # "off")
  BY <1>3, ScheduleArms DEF EndBatch, TimerType
<1>5. RunnersInOrder' /\ FlagTypes'
  BY <1>1 DEF WakeInv, RunnersInOrder, FlagTypes
<1>6. BatchesInOrder'
  BY <1>2 DEF WakeInv, RunnersInOrder, BatchesInOrder, NoBatch, None
<1>7. UncalledIsHeld'
  <2> SUFFICES ASSUME NEW u \in uncalled', u \notin p
               PROVE  \E c \in Slots : u \in batch'[c].todo
    BY <1>1 DEF UncalledIsHeld
  <2>1. PICK c \in Slots : u \in batch[c].todo
    BY DEF WakeInv, UncalledIsHeld
  <2> QED BY <2>1, <1>2
<1>8. PendingHasTimer' /\ LatestIsInCharge'
  BY <1>1, <1>4 DEF WakeInv, PendingHasTimer, LatestIsInCharge
<1>9. RunningIsKnown' /\ SerialBatches'
  <2> SUFFICES ASSUME ~intruded', handler' # None
               PROVE  \A c \in Slots : batch'[c].of # handler
    BY DEF RunningIsKnown, SerialBatches
  <2>1. ~intruded /\ batch[b].of = handler /\ handler # None
    BY <1>1
  <2>2. \A c \in Slots \ {b} : batch[c].of # handler
    BY <2>1 DEF WakeInv, SerialBatches
  <2> QED BY <1>2, <2>1, <2>2 DEF NoBatch
<1> QED BY <1>2, <1>4, <1>5, <1>6, <1>7, <1>8, <1>9 DEF WakeInv

LEMMA CallThrowsStep ==
  ASSUME WakeInv, NEW b \in Slots, CallThrows(b)
  PROVE  WakeInv'
<1>1. batch[b].all \in SUBSET Targets /\ pending \in SUBSET Targets
  BY DEF WakeInv, BatchType, FlagTypes
<1>2. Schedule(timer, RetryTicks, "retry")
        \in [kind : {"off", "normal", "retry"}, left : Nat, delay : Nat]
  BY WakeAssumption, ScheduleArms DEF WakeInv, TimerType
<1>3. batch[b].now \cup batch[b].todo \subseteq batch[b].all
  BY DEF WakeInv, BatchesInOrder
<1> QED BY <1>1, <1>2, <1>3, EndBatchStep DEF CallThrows, PutBack

LEMMA CallAnswersStep ==
  ASSUME WakeInv, NEW b \in Slots, NEW busy \in BOOLEAN, CallAnswers(b, busy)
  PROVE  WakeInv'
<1> DEFINE p == IF busy THEN PutBack(b, batch[b].now) ELSE pending
           tm == IF busy THEN Schedule(timer, RetryTicks, "retry") ELSE timer
           back == IF busy THEN uncalled \cup batch[b].now ELSE uncalled
<1>1. /\ batch[b].now \in SUBSET Targets /\ batch[b].todo \in SUBSET Targets
      /\ pending \in SUBSET Targets /\ uncalled \in SUBSET Targets
  BY DEF WakeInv, BatchType, FlagTypes
<1>2. p \in SUBSET Targets /\ pending \subseteq p /\ back \subseteq uncalled \cup p
  BY <1>1 DEF PutBack
<1>3. /\ tm \in [kind : {"off", "normal", "retry"}, left : Nat, delay : Nat]
      /\ timer.kind # "off" \/ p # pending => tm.kind # "off"
  BY WakeAssumption, ScheduleArms DEF WakeInv, TimerType
<1>4. CASE batch[b].todo = {} /\ EndBatch(b, p, tm) /\ uncalled' = back
  <2> HIDE DEF p, tm, back
  <2> QED BY <1>2, <1>3, <1>4, EndBatchStep DEF CallAnswers
<1>5. CASE \E next \in batch[b].todo :
             /\ batch' = [batch EXCEPT ![b].now = {next}, ![b].todo = @ \ {next},
                                      ![b].disabled = @ \/ batch[b].of \in stopped]
             /\ pending' = p /\ timer' = tm
             /\ uncalled' = back \ {next}
             /\ UNCHANGED <<running, intruded>>
  <2>1. PICK next \in batch[b].todo :
             /\ batch' = [batch EXCEPT ![b].now = {next}, ![b].todo = @ \ {next},
                                      ![b].disabled = @ \/ batch[b].of \in stopped]
             /\ pending' = p /\ timer' = tm
             /\ uncalled' = back \ {next}
             /\ UNCHANGED <<running, intruded>>
    BY <1>5
  <2>2. UNCHANGED <<handler, runners, stopped, scheduled>> /\ batch[b].of # None
    BY DEF CallAnswers
  <2> HIDE DEF p, tm, back
  <2>3. BatchType'
    BY <2>1, <1>1 DEF WakeInv, BatchType
  <2>4. /\ batch'[b].of = batch[b].of /\ batch'[b].all = batch[b].all
        /\ batch'[b].now = {next} /\ batch'[b].todo = batch[b].todo \ {next}
        /\ \A c \in Slots \ {b} : batch'[c] = batch[c]
    BY <2>1 DEF WakeInv, BatchType
  <2>5. RunnersInOrder' /\ TimerType' /\ FlagTypes'
    BY <2>1, <2>2, <1>1, <1>2, <1>3 DEF WakeInv, RunnersInOrder, TimerType, FlagTypes
  <2>6. BatchesInOrder'
    BY <2>2, <2>4 DEF WakeInv, BatchesInOrder
  <2>7. PendingHasTimer'
    BY <2>1, <2>2, <1>3 DEF WakeInv, PendingHasTimer
  <2>8. UncalledIsHeld'
    <3> SUFFICES ASSUME NEW u \in uncalled', u \notin p
                 PROVE  \E c \in Slots : u \in batch'[c].todo
      BY <2>1 DEF UncalledIsHeld
    <3>1. u \in uncalled /\ u \notin pending /\ u # next
      BY <2>1, <1>2
    <3>2. PICK c \in Slots : u \in batch[c].todo
      BY <3>1 DEF WakeInv, UncalledIsHeld
    <3> QED BY <3>1, <3>2, <2>4
  <2>9. \A c \in Slots : batch'[c].of = batch[c].of
    BY <2>4
  <2>10. RunningIsKnown' /\ SerialBatches' /\ LatestIsInCharge'
    BY <2>1, <2>2, <2>9 DEF WakeInv, RunningIsKnown, SerialBatches, LatestIsInCharge
  <2> QED BY <2>3, <2>5, <2>6, <2>7, <2>8, <2>10 DEF WakeInv
<1> QED BY <1>4, <1>5 DEF CallAnswers

LEMMA NextWakeInv == WakeInv /\ [Next]_vars => WakeInv'
<1> SUFFICES ASSUME WakeInv, [Next]_vars PROVE WakeInv'
  OBVIOUS
<1>1. CASE Next
  BY <1>1, RequestStep, RunnerStartsStep, RunnerStopsStep, TimerStep, StartsBatchStep,
     CallAnswersStep, CallThrowsStep DEF Next
<1>2. CASE UNCHANGED vars
  BY <1>2 DEF vars, WakeInv, RunnersInOrder, BatchType, TimerType, FlagTypes, BatchesInOrder,
     PendingHasTimer, UncalledIsHeld, RunningIsKnown, SerialBatches, LatestIsInCharge
<1> QED BY <1>1, <1>2

-----------------------------------------------------------------------------
(* The invariant holds in every state the wake layer reaches.              *)
THEOREM WakeInvariance == Spec => []WakeInv
<1> QED BY InitWakeInv, NextWakeInv, PTL DEF Spec

(* Type correctness of the wake layer's module state.                      *)
THEOREM TypeCorrect == Spec => []TypeOK
<1>1. WakeInv => TypeOK
  BY DEF WakeInv, RunnersInOrder, BatchType, TimerType, FlagTypes, BatchesInOrder, TypeOK
<1> QED BY <1>1, WakeInvariance, PTL

(* No lost wake-up: however requests, retries, late callbacks and replaced *)
(* runners interleave, a pending wake has an armed timer.                  *)
THEOREM NoLostWakeup == Spec => []PendingHasTimer
<1>1. WakeInv => PendingHasTimer
  BY DEF WakeInv
<1> QED BY <1>1, WakeInvariance, PTL

(* A wake that still has to be handed to the handler is never dropped:     *)
(* not by an error in the middle of a batch, not by a replaced runner.     *)
THEOREM WakesAreHeld == Spec => []UncalledIsHeld
<1>1. WakeInv => UncalledIsHeld
  BY DEF WakeInv
<1> QED BY <1>1, WakeInvariance, PTL

(* The runner in charge works off one batch at a time, as long as no       *)
(* callback of a former runner has ended under it.                         *)
THEOREM BatchesAreSerial == Spec => []SerialBatches
<1>1. WakeInv => SerialBatches
  BY DEF WakeInv
<1> QED BY <1>1, WakeInvariance, PTL

(* A stale disposer never takes the registration of a newer runner.        *)
THEOREM DisposersAreLocal == Spec => []LatestIsInCharge
<1>1. WakeInv => LatestIsInCharge
  BY DEF WakeInv
<1> QED BY <1>1, WakeInvariance, PTL

(* The retry cooldown is a hard minimum: under one runner, only the clock  *)
(* brings an armed retry nearer.                                           *)
THEOREM CooldownIsKept == Spec => RetryCooldown
<1>1. WakeInv /\ [Next]_vars =>
        [timer.kind = "retry" /\ timer.left > 0 /\ runners' = runners
           => timer'.kind = "retry" /\ timer'.left >= timer.left - 1]_vars
  <2> SUFFICES ASSUME WakeInv, Next, timer.kind = "retry", timer.left > 0, runners' = runners
               PROVE  timer'.kind = "retry" /\ timer'.left >= timer.left - 1
    BY DEF vars
  <2>1. timer \in [kind : {"off", "normal", "retry"}, left : Nat, delay : Nat]
    BY DEF WakeInv, TimerType
  <2>2. \A d, k : Schedule(timer, d, k) = timer
    BY DEF Schedule
  <2>3. timer' = timer => timer'.kind = "retry" /\ timer'.left >= timer.left - 1
    BY <2>1
  <2>4. CASE \E t \in Targets, d \in Delays : RequestHeartbeatNow(t, d)
    BY <2>2, <2>3, <2>4 DEF RequestHeartbeatNow
  <2>5. CASE RunnerStarts
    BY <2>5 DEF RunnerStarts, WakeInv, RunnersInOrder
  <2>6. CASE \E r \in 1..runners : RunnerStops(r)
    BY <2>3, <2>6 DEF RunnerStops
  <2>7. CASE Tick
    BY <2>1, <2>7 DEF Tick
  <2>8. ~Due
    BY <2>1 DEF Due
  <2>9. CASE TimerFindsNoWork \/ TimerFindsRunning
    BY <2>8, <2>9 DEF TimerFindsNoWork, TimerFindsRunning
  <2>10. ASSUME NEW b \in Slots, NEW busy \in BOOLEAN, CallAnswers(b, busy)
         PROVE  timer' = timer
    <3>1. (IF busy THEN Schedule(timer, RetryTicks, "retry") ELSE timer) = timer
      BY <2>2
    <3>2. Schedule(timer, batch[b].delay, "normal") = timer
      BY <2>2
    <3> QED BY <2>10, <3>1, <3>2 DEF CallAnswers, EndBatch
  <2>11. ASSUME NEW b \in Slots, CallThrows(b) PROVE timer' = timer
    BY <2>2, <2>11 DEF CallThrows, EndBatch
  <2> QED BY <2>3, <2>4, <2>5, <2>6, <2>7, <2>8, <2>9, <2>10, <2>11
          DEF Next, TimerStartsBatch
<1> QED BY <1>1, WakeInvariance, PTL DEF Spec, RetryCooldown

=============================================================================
