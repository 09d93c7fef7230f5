---------------------------- MODULE HeartbeatWake ----------------------------
(***************************************************************************)
(* The wake layer of the heartbeat (src/infra/heartbeat-wake.ts): requests *)
(* to run the agent soon (cron jobs, finished commands, hooks, the         *)
(* heartbeat interval) are coalesced per target until a timer hands them   *)
(* to the handler of the running heartbeat runner, one call at a time.     *)
(*                                                                         *)
(* One action is one synchronous section: a request, a registration, a     *)
(* timer that fires, the continuation after `await active(...)`.  A timer  *)
(* callback is async, so after a runner is replaced the callbacks of the   *)
(* old one live on beside those of the new one.  Time is counted in ticks, *)
(* and a timer that is due may still wait for its turn.  Of two wakes for  *)
(* one target only the more urgent reason is kept: here they are one wake. *)
(***************************************************************************)
EXTENDS Integers, FiniteSets

CONSTANTS
  Targets,       \* wake targets (agent id and session key)
  Delays,        \* the values of coalesceMs, in ticks
  CoalesceTicks, \* DEFAULT_COALESCE_MS
  RetryTicks,    \* DEFAULT_RETRY_MS
  MaxRunners,    \* bound on heartbeat runners, one after the other
  MaxBatches     \* bound on timer callbacks under way together

ASSUME WakeAssumption ==
  /\ IsFiniteSet(Targets) /\ Delays \subseteq Nat
  /\ CoalesceTicks \in Nat /\ RetryTicks \in Nat
  /\ MaxRunners \in Nat /\ MaxBatches \in Nat \ {0}

Slots == 1..MaxBatches
None == 0

VARIABLES
  handler,    \* the runner whose handler is registered, or None
  runners,    \* how many runners have been started
  stopped,    \* the runners that were stopped
  pending,    \* pendingWakes: the targets with a pending wake
  timer,      \* the armed timer, with the delay it was armed with
  running,    \* a batch is being worked off
  scheduled,  \* a timer fired meanwhile
  batch,      \* the timer callbacks that await a handler call
  uncalled,   \* targets requested, or told to retry, and not called since
  intruded    \* a callback of a former runner ended under the present one

vars == <<handler, runners, stopped, pending, timer, running, scheduled,
          batch, uncalled, intruded>>

TimerOff == [kind |-> "off", left |-> 0, delay |-> 0]
NoBatch == [of |-> None, now |-> {}, todo |-> {}, all |-> {}, delay |-> 0,
            disabled |-> FALSE]

Armed(delay, kind) == [kind |-> kind, left |-> delay, delay |-> delay]

(* schedule() on timer tm: a retry is never brought forward, another timer *)
(* only by an earlier one.                                                 *)
Schedule_PreemptsRetry(tm, delay, kind) ==   \* bug: the timer's kind is not looked at
  IF tm.kind # "off" /\ tm.left <= delay THEN tm ELSE Armed(delay, kind)
Schedule(tm, delay, kind) ==
  IF tm.kind = "retry" \/ (tm.kind = "normal" /\ tm.left <= delay) THEN tm
  ELSE Armed(delay, kind)

Init ==
  /\ handler = None /\ runners = 0 /\ stopped = {}
  /\ pending = {}
  /\ timer = TimerOff /\ running = FALSE /\ scheduled = FALSE
  /\ batch = [b \in Slots |-> NoBatch]
  /\ uncalled = {} /\ intruded = FALSE

-----------------------------------------------------------------------------
RequestHeartbeatNow(t, delay) ==
  /\ pending' = pending \cup {t}
  /\ timer' = Schedule(timer, delay, "normal")
  /\ uncalled' = uncalled \cup {t}
  /\ UNCHANGED <<handler, runners, stopped, running, scheduled, batch, intruded>>

(* A runner registers its handler: the timer and the flags of the former   *)
(* one are reset, what is pending is scheduled afresh.                     *)
RunnerStarts_NoSchedule ==   \* bug: wakes kept from the former runner wait
  /\ runners < MaxRunners
  /\ runners' = runners + 1 /\ handler' = runners + 1
  /\ running' = FALSE /\ scheduled' = FALSE /\ intruded' = FALSE
  /\ timer' = TimerOff
  /\ UNCHANGED <<stopped, pending, batch, uncalled>>
RunnerStarts ==
  /\ runners < MaxRunners
  /\ runners' = runners + 1 /\ handler' = runners + 1
  /\ running' = FALSE /\ scheduled' = FALSE /\ intruded' = FALSE
  /\ timer' = IF pending # {} THEN Armed(CoalesceTicks, "normal") ELSE TimerOff
  /\ UNCHANGED <<stopped, pending, batch, uncalled>>

(* A runner's cleanup disposes of its own registration only.  (Every       *)
(* runner registers a function of its own, so the generation number the    *)
(* disposer compares as well tells nothing more.)                          *)
RunnerStops(r) ==
  /\ r \notin stopped
  /\ stopped' = stopped \cup {r}
  /\ handler' = IF handler = r THEN None ELSE handler
  /\ UNCHANGED <<runners, pending, timer, running, scheduled, batch, uncalled, intruded>>

-----------------------------------------------------------------------------
(* The timer's callback.                                                   *)

Due == timer.kind # "off" /\ timer.left = 0

Tick ==
  /\ timer.left > 0
  /\ timer' = [timer EXCEPT !.left = @ - 1]
  /\ UNCHANGED <<handler, runners, stopped, pending, running, scheduled, batch,
                 uncalled, intruded>>

TimerFindsNoWork ==
  /\ Due
  /\ handler = None \/ (~running /\ pending = {})
  /\ timer' = TimerOff /\ scheduled' = FALSE
  /\ UNCHANGED <<handler, runners, stopped, pending, running, batch, uncalled, intruded>>

TimerFindsRunning ==
  /\ Due /\ handler # None /\ running
  /\ timer' = Armed(timer.delay, timer.kind) /\ scheduled' = TRUE
  /\ UNCHANGED <<handler, runners, stopped, pending, running, batch, uncalled, intruded>>

(* The callback takes everything pending and calls the handler with the    *)
(* first wake (in an order this module leaves open).                       *)
BeginBatch(b, first) ==
  /\ batch[b].of = None /\ \A c \in 1..b - 1 : batch[c].of # None
  /\ first \in pending
  /\ batch' = [batch EXCEPT ![b] =
       [of |-> handler, now |-> {first}, all |-> pending, delay |-> timer.delay,
        disabled |-> FALSE, todo |-> pending \ {first}]]
  /\ pending' = {}
  /\ timer' = TimerOff /\ scheduled' = FALSE /\ running' = TRUE
  /\ uncalled' = uncalled \ {first}
  /\ UNCHANGED <<handler, runners, stopped, intruded>>
TimerStartsBatch_Overlapping(b, first) ==   \* bug: `running` is not looked at
  Due /\ handler # None /\ BeginBatch(b, first)
TimerStartsBatch(b, first) ==
  Due /\ handler # None /\ ~running /\ BeginBatch(b, first)

(* The finally block, after the queue has become p and the timer tm. *)
EndBatch(b, p, tm) ==
  /\ pending' = p
  /\ timer' = IF p # {} \/ scheduled THEN Schedule(tm, batch[b].delay, "normal") ELSE tm
  /\ running' = FALSE
  /\ batch' = [batch EXCEPT ![b] = NoBatch]
  /\ intruded' = (intruded \/ batch[b].of # handler)

(* queuePendingWakeReason for wakes of b that are put back.                *)
PutBack_Nothing(b, wakes) == pending   \* bug: the wakes are forgotten
PutBack(b, wakes) == pending \cup wakes

(* A call answers: with "requests-in-flight" (busy) its wake is put back   *)
(* for a retry.  Then comes the next wake of the batch, or its end.  A     *)
(* call that reaches a stopped runner is answered "disabled" at once.      *)
CallAnswers(b, busy) ==
  LET p == IF busy THEN PutBack(b, batch[b].now) ELSE pending
      tm == IF busy THEN Schedule(timer, RetryTicks, "retry") ELSE timer
      back == IF busy THEN uncalled \cup batch[b].now ELSE uncalled IN
  /\ batch[b].of # None
  /\ busy => ~batch[b].disabled
  /\ \/ /\ batch[b].todo = {}
        /\ EndBatch(b, p, tm)
        /\ uncalled' = back
     \/ \E next \in batch[b].todo :
          /\ batch' = [batch EXCEPT ![b].now = {next}, ![b].todo = @ \ {next},
                                   ![b].disabled = @ \/ batch[b].of \in stopped]
          /\ pending' = p /\ timer' = tm
          /\ uncalled' = back \ {next}
          /\ UNCHANGED <<running, intruded>>
  /\ UNCHANGED <<handler, runners, stopped, scheduled>>

(* A call throws: the whole batch is put back and retried. *)
CallThrows(b) ==
  /\ batch[b].of # None /\ ~batch[b].disabled
  /\ EndBatch(b, PutBack(b, batch[b].all), Schedule(timer, RetryTicks, "retry"))
  /\ uncalled' = uncalled \cup batch[b].now
  /\ UNCHANGED <<handler, runners, stopped, scheduled>>

Next ==
  \/ \E t \in Targets, d \in Delays : RequestHeartbeatNow(t, d)
  \/ RunnerStarts
  \/ \E r \in 1..runners : RunnerStops(r)
  \/ Tick \/ TimerFindsNoWork \/ TimerFindsRunning
  \/ \E b \in Slots : \/ \E t \in Targets : TimerStartsBatch(b, t)
                      \/ \E busy \in BOOLEAN : CallAnswers(b, busy)
                      \/ CallThrows(b)

Spec == Init /\ [][Next]_vars

(***************************************************************************)
(* Timers fire, and a call of the runner in charge answers or throws (an   *)
(* agent run has a timeout), but does not throw for ever: the runner       *)
(* catches what a heartbeat throws.  Calls of a former runner may hang.    *)
(***************************************************************************)
OfRunnerInCharge(b) == batch[b].of = handler

Fairness ==
  /\ WF_vars(Tick)
  /\ WF_vars(TimerFindsNoWork \/ TimerFindsRunning
             \/ \E b \in Slots, t \in Targets : TimerStartsBatch(b, t))
  /\ \A b \in Slots :
       WF_vars(/\ OfRunnerInCharge(b)
               /\ CallThrows(b) \/ \E busy \in BOOLEAN : CallAnswers(b, busy))
  /\ \A b \in Slots :
       SF_vars(\E busy \in BOOLEAN : OfRunnerInCharge(b) /\ CallAnswers(b, busy))

FairSpec == Spec /\ Fairness

-----------------------------------------------------------------------------
(***************************************************************************)
(* Properties                                                              *)
(***************************************************************************)

(* Handler, queue, timer and callbacks have their types, and the wake a    *)
(* callback awaits is not one it still has to hand out.                    *)
TypeOK ==
  /\ handler \in 0..runners /\ runners \in 0..MaxRunners /\ stopped \subseteq 1..runners
  /\ pending \subseteq Targets
  /\ timer.kind \in {"off", "normal", "retry"} /\ {timer.left, timer.delay} \subseteq Nat
  /\ {running, scheduled, intruded} \subseteq BOOLEAN
  /\ \A b \in Slots : /\ batch[b].of \in 0..runners
                      /\ batch[b].now \cup batch[b].todo \subseteq batch[b].all
                      /\ batch[b].now \cap batch[b].todo = {}
                      /\ batch[b].all \subseteq Targets
                      /\ batch[b].delay \in Nat /\ batch[b].disabled \in BOOLEAN
  /\ uncalled \subseteq Targets

(* No lost wake-up: while a runner is in charge, a pending wake has a      *)
(* timer, whatever requests, retries, late callbacks of former runners and *)
(* replaced runners came together.                                         *)
PendingHasTimer == handler # None /\ pending # {} => timer.kind # "off"

(* A wake that was requested, or answered with "requests-in-flight", or    *)
(* cut off by an error, stays pending or in a callback until the handler   *)
(* is called with it.                                                      *)
UncalledIsHeld ==
  \A t \in uncalled : t \in pending \/ \E b \in Slots : t \in batch[b].todo

(* The runner in charge works off one batch at a time, until the callback  *)
(* of a former runner ends under it (and resets its `running`).            *)
SerialBatches ==
  handler # None /\ ~intruded =>
    \A b, c \in Slots : batch[b].of = handler /\ batch[c].of = handler => b = c

(* "Stale disposers are no-ops": a runner that is not stopped keeps its    *)
(* registration until another one takes it.                                *)
LatestIsInCharge ==
  runners > 0 /\ runners \notin stopped => handler = runners

(* "Keep retry cooldown as a hard minimum delay": once a retry is armed,   *)
(* nothing but time and a new runner brings it forward, neither a request  *)
(* nor the end of the batch it was armed in.                               *)
RetryCooldown ==
  [][timer.kind = "retry" /\ timer.left > 0 /\ runners' = runners
       => timer'.kind = "retry" /\ timer'.left >= timer.left - 1]_vars

(* The callback of a former runner still has wakes to hand out. *)
HeldByFormer(t) == \E b \in Slots : batch[b].of # handler /\ t \in batch[b].todo

(* A wake is handed to the handler in the end, also when it is requested   *)
(* while a batch runs, when handlers throw or are busy, and when the       *)
(* runner is replaced meanwhile; unless there is no runner, or the wake    *)
(* was in a batch of a former runner, which a call that hangs keeps.       *)
WakesAreCalled ==
  \A t \in Targets :
    (t \in uncalled) ~> (t \notin uncalled \/ handler = None \/ HeldByFormer(t))

=============================================================================
