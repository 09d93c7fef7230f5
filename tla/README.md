# A TLA+ model of the OpenClaw gateway's core

OpenClaw is a gateway that keeps chat channels, cron jobs, heartbeats and
WebSocket clients connected to AI agents. Its code is TypeScript, under
`src/openclaw-zero-token/src/` (paths below are relative to that directory;
`docs/` is `src/openclaw-zero-token/docs/`). The process is single-threaded, but
nothing in it is sequential: every promise, timer, file operation and channel
answer is an interleaving point, the process restarts *in place* with module state
and running bodies surviving the restart, and files outlive crashes.

This directory models the parts where that matters most: how work is queued, how
a restart drains it, what happens to messages that arrive in bursts or while an agent
is busy, how wakes and cron jobs reach the agent, who may write a session file, how a
command reaches a node that comes and goes, and how an outgoing message survives a
crash.

Contents: [inventory](#1-inventory), [plan](#2-plan), [modules](#3-modules-and-how-they-correspond-to-the-code),
[runs](#4-what-the-runs-check), [bounds](#5-bounds), [fairness](#6-fairness),
[proofs](#7-proofs), [findings and known behaviour](#8-findings-and-behaviour-outside-the-properties),
[what is not modelled](#9-what-is-not-modelled).

## 1. Inventory

### How a message moves

1. A channel plugin receives a message. `auto-reply/inbound-debounce.ts` joins
   bursts per conversation and keeps them in order.
2. `auto-reply/reply/agent-runner.ts` (`runReplyAgent`) looks whether a run of the
   session is active. If so, the message is steered into the run, dropped (heartbeats),
   or put on the session's *followup queue* (`auto-reply/reply/queue/`).
3. Otherwise `runEmbeddedPiAgent` (`agents/pi-embedded-runner/run.ts`) queues the run
   on the *session lane* and, from inside it, on a *global lane* of the *command queue*
   (`process/command-queue.ts`). Compactions and manual cron runs use the same lanes.
4. When the run ends, `finalizeWithFollowup` starts the *drain* of the followup queue.
5. Answers go out through `infra/outbound/deliver.ts`, which writes each delivery to the
   *delivery queue* directory before sending and acknowledges it after.
6. Cron jobs, finished background commands and the heartbeat interval ask for an agent
   turn through the *heartbeat wake layer* (`infra/heartbeat-wake.ts`).
7. A restart signal makes the *run loop* (`cli/gateway-cli/run-loop.ts`) refuse new
   work, wait for what runs, close the server, hand the process lock over and iterate:
   lanes are reset, queued entries resume, a new heartbeat runner replaces the old one,
   and the recovery of the delivery queue starts.

### Components

| Component | State | Operations | Hard behaviour | What makes it correct | Module |
|---|---|---|---|---|---|
| Command queue | per lane: queue, active ids, cap, generation; drain flag | enqueue, pump, settle, set cap, clear, mark draining, reset | completions of former generations, caps lowered below what runs, lost wake-ups | exact slots, nothing lost or started twice, FIFO, no stranded lane | `CommandQueue` |
| Gateway run loop | loop position, server, lock, resolver of the iteration, shutdown in progress | signals, drain, close, forced exit, lock release and reacquire, respawn, iterate | a shutdown runs beside the loop it wants to wake | a restarted gateway accepts work; a drain reported complete is; resets happen between servers | `GatewayRestart` |
| Run lanes | none of its own | nested enqueues of runs, compactions, cron runs | hold-and-wait across lanes | one run per session, no deadlock | `RunLanes` |
| Followup queue | queue object per session: items, settings, dropped count, summary lines, draining; ids seen | enqueue, drop policy, drain (collect, single, summary), clear | the drain holds an object the map may forget, and removes by position after an await | every message is answered once or dropped on purpose; a batch has one target | `FollowupQueue` |
| Heartbeat wake layer | handler, pending wakes, timer, `running`, `scheduled` | request, register, dispose, timer callback, answers | callbacks of a replaced runner write the flags of the new one | no wake lost or stranded, retry cooldown kept | `HeartbeatWake` |
| Outbound delivery queue | files `<id>.json`, `<id>.delivered`, `failed/<id>.json` with retry counts | enqueue, send, ack, fail, recover | crashes between file operations, recovery beside live sends | nothing lost, acked never replayed, bounded retries, every entry settles | `DeliveryQueue` |
| Cron service | stored jobs with running marker, next due time, errors; memory and timer per service | catch-up of a start, tick, manual run, add, update, remove, reload | runs lie between two locked sections; results are applied to a store others have changed | a due job runs, once at a time, and its marker is cleared | `CronService` |
| Session write lock | a lock file per session, `HELD_LOCKS` and a watchdog per process | create, write, read, judge, reclaim, re-enter, release, sweep | each file operation is an await; owners die; files are removed by path | one re-entrant holder; a dead owner's file is reclaimed | `SessionLock`, `ReentrantLock` |
| Inbound debounce | buffers and promise chains per key | enqueue, timer, forced flush, reserve, release | a message that does not wait behind one that does; the removal of a chain; saturation | per-key order, nothing lost, no key left behind | `InboundDebounce`, `KeyedFifo` |
| Node registry | sessions by node and by connection, pending invokes | register, unregister, invoke, answer, timeout | a node reconnects before its old close is handled | a connected node is found; each call is answered | `NodeRegistry` |
| Exec approvals | records with a decision, its promise, a timer and a grace period | request, forward, resolve, expire, consume | a decision against its timeout, a consumed record against its promise | one outcome per approval, one use per one-time approval | `ExecApprovals` |
| Node commands | where the agent and each call is | request, wait for the decision, call, wake up, check, send | waits for the node's wake-up between the decision and its use | nothing runs as approved that was not | `NodeExec` |
| Restart signal (`infra/restart.ts`) | tokens, scheduled timer, deferral polls | schedule, emit, defer, consume | polls not cancelled by each other | one restart per request cycle | - |
| Gateway lock | a lock file of the process | acquire, reclaim stale, release | as the session lock | one gateway per state directory | - |
| Reply dispatcher, active run registry | pending count with a reservation; active handles, waiters | enqueue, mark complete; set, clear, wait | last delivery against markComplete | a restart neither waits for ever nor too short | - |
| Heartbeat runner | due times per agent, timer | run, updateConfig, stop | zero-delay timer racing the retry | an agent's heartbeat stays scheduled | - |

The other parts (channel manager and health monitor, subagent registry, model
fallback, session store, config reload, restart sentinel, ACP, process supervisor,
gateway protocol, browser providers, plugins, apps, UI, CLI) are listed with the
reason they are left out in `PROJECT.json` and in section 9. The hazards of the
code, each with its line and the property that watches it, are in `PROJECT.json`.

### How they interact

- Run loop -> command queue: `markGatewayDraining`, `waitForActiveTasks`, `resetAllLanes`.
- Runs, compactions, cron -> command queue: an entry whose body enqueues another one.
- Reload -> command queue: `setCommandLaneConcurrency`; `/stop` and interrupts clear a session's lane and followup queue.
- Agent runner <-> followup queue: enqueue while a run is active, drain at its end; a followup run is again a run on the lanes.
- Heartbeat runner <-> wake layer: registration, calls, "requests-in-flight" when the main lane is busy.
- Restart in place -> wake layer and delivery queue: new runner, new recovery, while callbacks and sends of the former server are still under way.
- Reload and restart -> cron service: a new service on the store file, while ticks and runs of the former one go on.
- Agent run, compaction, session store -> session write lock: each takes it around its writes, and callers of one process share it.
- Agent -> approvals -> node registry: a decision is waited for, then claimed in `node.invoke`, which waits for the node, checks the claim and sends.

## 2. Plan

In the order of writing; lines 1 to 11 exist. The proofs about lines 1, 2 and 5 are in
`Lanes_proofs`, those of the others in the `*_proofs` module of the component.

1. `CommandQueue` and its proofs: the lanes everything else runs on.
2. `GatewayRestart` (EXTENDS `CommandQueue`) and its proofs: the run loop around them. `CommandQueue!Spec` is the abstract specification it is shown to implement.
3. `FollowupQueue` and its proofs: the queue of a busy session.
4. `DeliveryQueue` and its proofs: outgoing messages across crashes.
5. `RunLanes` (EXTENDS `CommandQueue`) and its proofs: nested entries.
6. `HeartbeatWake` and its proofs: wakes across runner replacement.
7. `SessionLock` and its proofs, with the abstract `ReentrantLock` it implements.
8. `CronService` and its proofs: start, tick, manual run and edits over one stored job list.
9. `InboundDebounce` and its proofs, with the abstract `KeyedFifo` it implements.
10. `NodeRegistry` and `ExecApprovals`, small modules of their own.
11. `NodeExec` (EXTENDS both) and its proofs: a command that needs a decision and a node.
12. Next proofs: `TypeOK` of the modules whose runs do not state it (`InboundDebounce`, `NodeExec`) in full, and weaker hypotheses for `LinesAreKept` (which clears of a drained queue are harmless).
13. Next modules, should they take the place of others: `RestartSignal` composed with `GatewayRestart` through the consumed signal, and the reply dispatcher with the active run registry, which decide how long a drain waits.

The number of runs is kept at a dozen, so that the whole project is re-checked within
half an hour. A component that comes in later shares a run with one it interacts with.

## 3. Modules and how they correspond to the code

An action is one synchronous section of JavaScript: from an event or the
continuation of an `await` to the next `await` or return, with everything it calls.
`PROJECT.json` maps each definition to its lines. Definitions named
`Action_Something` with a comment `bug:` are plausible wrong versions of the action
they stand before; no specification uses them, they serve to show that a property
would notice.

**CommandQueue** (`process/command-queue.ts`). `queue`, `activeTaskIds`,
`maxConcurrent` and `generation` are the fields of `LaneState`, per lane;
`gatewayDraining` the process-wide flag; `taskGeneration` the generation a started
body captured; `status` the fate of each call's promise. A call is identified with
its entry. `DrainLanes` is `drainLane` (the pump), run at the end of every action that
calls it. `Settle` is the continuation after the body, with `completeTask`'s
generation check (`SettleCurrent`, `SettleStale`). `ResetAllLanes` bumps the
generations, forgets what runs and pumps what is queued.

**GatewayRestart** (`cli/gateway-cli/run-loop.ts`, `process/restart-recovery.ts`,
`waitForActiveTasks`). The `for (;;)` loop and the async shutdown started by a
signal are two processes that meet in `restartResolver`. `RequestRestart` sets the
drain flag and takes the snapshot of running tasks; `DrainEnds` is the answer or the
deadline of the drain; `ForceExit` the watchdog timer; the lock is released, then the
process is replaced or restarts in place (`FinishRestart`), which wakes the loop only if
it waits on an armed resolver. `CloseServer` closes the server or throws before it has, which the
code logs and goes on from; `closeFailed` is a history variable. Its lane steps are those of
`CommandQueue`.

**RunLanes** (`agents/pi-embedded-runner/lanes.ts`, `run.ts`, `compact.ts`,
`cron/service/ops.ts`). `Child[t]` is the entry the body of `t` enqueues and awaits. The body of
a run enqueues its child in the section that starts it (`Due` blocks everything else until
then); that of a cron job does so later, after it has loaded and reserved the job, or ends
without it (`Owed`). A body settles as its child does. `ResolveGlobalLane` sends runs of cron jobs to the
nested lane.

**FollowupQueue** (`auto-reply/reply/queue/`, `utils/queue-helpers.ts`, the parts of
`agent-runner.ts` that enqueue and finalize). `queue[i]` are queue *objects*, `current` is
the one the map holds for the session: a drain keeps working on its object after the map
has lost it. `drain[i].at` is where the loop awaits: the debounce, the microtasks between
the routing check and the copy of a batch, or the run. `EnqueueFollowupRun` contains the
dedupe, the settings a message brings, the overflow policy and the liveness re-check.
A session brings one `regime` of settings. `accepted`, `delivered`, `discarded`, `unreported` and
`late` (what was queued between the routing check of a batch and its copy) are history variables.

**DeliveryQueue** (`infra/outbound/deliver.ts`, `delivery-queue-storage.ts`,
`delivery-queue-recovery.ts`). `json`, `marker`, `failed` are the files; `job[a][e]` is where
the live call or a recovery is with entry `e`. Each file operation is an action, so a
crash or another actor can come between any two. `Crash` forgets everything but the
files; `RestartInProcess` starts one more recovery while sends and the recoveries of former
servers go on, which nothing stops. `persisted`, `reached`, `aborted`, `acked`, `attempts`,
`contended` (entries a recovery listed while another actor had them), `crashes` are history
variables.

**HeartbeatWake** (`infra/heartbeat-wake.ts`, the registration and `stop` of
`heartbeat-runner.ts`). `handler` is the number of the registered runner, `pending` the keys
of `pendingWakes`, `timer` the armed timeout with its kind and remaining ticks,
`batch[b]` the timer callbacks that await a handler call: more than one, because those of a
replaced runner live on. `uncalled` and `intruded` are history variables.

**CronService** (`cron/service/ops.ts`, `timer.ts`, `jobs.ts`, `locked.ts`, `store.ts`).
`locked()` chains the critical sections of all services of one store file, so a section
is one action with the load, the recompute and the save it makes. `disk` is the file,
`mem[s]` the copy of service `s`; `boot`, `tick` and `manual` say where `start()`, `onTimer` and
`run()` of a service are, `bodies` which job runs have not ended. A run lies between two
sections: the one that marks the job and the one that applies the result (`ApplyJobResult`:
error backoff, one-shot retry, disabling, deletion, next slot). `Replace` is a reload, `Crash`
leaves the file alone. `holders` is a history variable: the runs whose marker still stands on
their job, because no edit, later start or other run's result has taken it. `TimerFires` spends the
timer and sets it again, all that a firing during a tick does; `TickEnds` sets it for the next
due time. `Replace` of a service at rest empties its memory, which nothing reads again.

**SessionLock** (`agents/session-write-lock.ts`). `pc[c]` is the file operation a caller
awaits: exclusive create, payload write, read, stat, remove. `held[p]` is the count of the
`HELD_LOCKS` entry, `current[c]` whether the last handle of `c` refers to that very entry (also
after it was released, while others keep the entry: `ReleaseAgain` releases it once more),
`unlinks[p]` the releases whose `fs.rm` is yet to come, `sweeping` the startup sweeps between
judgement and removal. `Ends` is a clean end (which removes what is held) or a crash.
Five hazards that the code does not exclude (section 8) are steps of the model: the history
`met` records the four that endanger the file, at the moment a file is judged by mistake, judged
while another is about to remove it, or has outlasted `staleMs`; `overreleased` records the
entries of which a handle was released again. `Hazards` and `MaxHazards` only bound them.
**ReentrantLock** is what the entries of all processes promise together.

**InboundDebounce** (`auto-reply/inbound-debounce.ts`). `chain[k]` are the tasks of a key that
have not settled, as slots: a buffer has its slot from its first message on, and it gets
`ready` by the timer, a forced flush or `flushKey`; the slot a non-debounced message reserves
behind a forced flush is released when that flush has been awaited. `keyChains` is the map
whose size counts against `maxTrackedKeys`, `settled[k]` the `finally` callbacks that may take
the key out. **KeyedFifo** is a queue per conversation.

**NodeRegistry** (`gateway/node-registry.ts`, `gateway/server/ws-connection.ts`). A connection is
new, open, lost (the link broke or the node has registered anew, and the gateway has not handled
its close), closed, or a ghost: `register` comes after the awaits of the handshake, which do not
look again whether the connection is still there (`message-handler.ts:1080`), so a session may be
registered whose close has been handled before. `Register` looks at no other connection, as the
code. `nodesById` names the connection of a node's session. `Unregister` takes whatever session
the node has; `cutOff` is a history variable: nodes this has cut off.

**ExecApprovals** (`gateway/exec-approval-manager.ts`, `server-methods/exec-approval.ts`). `entry`
is the record with its place in `pending`, `promise` what the promise of the decision was resolved
with; the two differ once a one-time decision is consumed. `ForwarderReturns` is the end of the
await in the request handler.

**NodeExec** (`server-methods/nodes.ts`, `node-invoke-system-run-approval.ts`,
`agents/bash-tools.exec-host-node.ts`; EXTENDS the two modules above). `agent` is where the agent
is with a command, `wants` what it claims of `node.invoke`, `call` where the handler is. The look
at the registry, the check of the claim, the consumption and the send are one section
(`SendToNode`), each await before it a step. `forwarded` is a history variable.

## 4. What the runs check

| Run | States | Question and answer |
|---|---|---|
| `lanes` | 53,732 | Slots match running bodies, promises are queued exactly once, no lane with work is below its cap, lanes are FIFO, and every accepted entry is started or cleared: under all interleavings of enqueues, completions, cap changes, clears and a reset. |
| `restart` | 36,308 | The run loop implements the command queue (`Spec`), never serves with the drain flag set, never reports a drain complete while a task of its snapshot runs, resets lanes only between two servers unless closing the first one failed, and queued work survives a restart although a body hangs. |
| `restart_early` | | Drops one assumption of `restart`: a signal may arrive while `start()` is pending. **Violated**, see section 8. |
| `runlanes` | 52,192 | One run per session lane, and the nested waits (cron lane around session lane around global lane) always end. |
| `heartbeat` | 99,417 | Wakes across the replacement of a runner: none lost or stranded, batches serial, retry cooldown kept, every wake handed to the handler. |
| `followup` | 79,802 | Three regimes: a queue that refuses what exceeds its cap, with and without a redelivery, and under mode changes; and the default policy (summarize) under changing caps, with overflow before the drain's run. Messages come in every phase of a drain. They are neither lost nor repeated, none that was there at the routing check is mixed across targets, a queued one is answered, and a dropped one keeps its summary line until the agent was shown it. |
| `followup_run_overflow` | | The second regime with overflow while a followup run is in flight. **Violated**, see section 8. |
| `delivery` | 146,752 | Crashes anywhere, and live sends and recoveries that meet over restarts in place: an entry is not lost and leaves the queue. An entry that no two actors had at once is sent a bounded number of times, and not again after its ack. |
| `cron` | 219,596 | A one-shot and a cron job under ticks, catch-up, a manual run, an edit, a replaced service and a crash: of two runs of a job at most one still has its marker, a due slot is not moved on unexecuted outside the places the property names, and no job stays due or marked. |
| `session_lock` | 277,545 | Three callers in two processes, one death each, a watchdog, a sweep, handles released again and any one hazard to the file: until it is met an entry is backed by a written file of its own process and the entries implement a re-entrant lock (`IsReentrantLock`); throughout, no late release costs another caller its entry, and a dead owner's file does not bar a contender. |
| `debounce` | 46,591 | Five messages of two keys with room to track one: the debouncer implements a FIFO per key (`IsKeyedFifo`), every message is handed over, and an idle debouncer tracks no key. |
| `nodes` | 401,147 | A command called twice under one approval, on a node that connects three times, also beside its open connection or over one that is gone: a one-time decision lets one call through, a denial or a missing route none; no call waits for a node without a session; a connected node is found; every call is answered. |

`Spec`, `IsReentrantLock` and `IsKeyedFifo` are refinements: the first of the lanes by the run
loop, under the identity; the second maps the depth of the abstract lock to `held`, so the file,
its payload and every operation on it disappear; the third maps what waits in a conversation to
the messages in the slots whose flush has not begun.

Every property of a passing run fails for at least one of the `bug:` variants when that
variant takes the place of the action; `PROJECT.json` lists the pairs.

## 5. Bounds

- `lanes`: three calls on one lane, a fourth on another, caps 0 (stored as 1) and 2, one reset. Three calls give a running, a waiting and an overtaking one; lowering the cap from 2 to 1 with two running, and a stale completion beside a current one, both occur.
- `restart`: two calls on a serial lane, the first of which may hang, three restarts (`MaxResets`). The second restart is needed for a stale resolver and for entries two generations old, the third for one after a close that failed. A third call and two restarts (176,680 states) show the same.
- `runlanes`: two runs of one session and a cron job with its run, seven entries on five lanes, one restart. The cron lane is full with one job, which is what a deadlock needs.
- `heartbeat`: two targets, two runners, two callbacks under way (`MaxBatches`), requests without delay, coalescing 1 tick and retry 2 ticks: a request is due before the coalescing of a new runner, and that before a retry, as with 0, 250 and 1000 ms.
- `followup*`: three messages, two of one reply target and one of another; in a refusing regime one of two messages is delivered twice by its channel, in the summarizing one the cap is 1 or 2; up to two queue objects (`MaxQueues`), as many as one clear can leave alive. Messages come in all phases of a drain; `OverflowPhases` and `ClearPhases` say during which an overflow or a clear may come; what happens outside them is in section 8.
- `delivery`: two entries (order and deferral), one of which is best-effort with an `onError` and the other may be with two actors at once (`Overlapping`); while that happens it is alone in the queue. Two recoveries at once (`Recoveries`), `MaxRetries` 2 instead of 5, one crash. Retry counts above the limit are alike (`OneMore`).
- `cron`: a one-shot job and one with a cron expression, two instants (`MaxTime`), two services (a replacement or a crash, in the course of which any step may be cut short), one edit, one manual run, one job at a time in a tick (`Concurrency`) and in a catch-up (`MaxImmediate`). A job is due, runs, fails and is retried once; a slot falls due while another job's result is applied. Runs end "ok" or with an error that may pass; a "permanent" one, which disables a one-shot job at once, is in the module and in the proofs, and the three properties hold with it too (351,269 states). `EveryJobs` is empty: what differs for them (`SlotAfter`, the kept anchor of a forced run) is in the module. `Overlap = FALSE`: a reload waits for the sections of the service before it, see section 8.
- `session_lock`: two callers in one process (re-entrance, a watchdog between two holders) and one in another, each process dies once, counts to 2. All five hazards, at most one to the file in a behaviour (`MaxHazards`): without that bound each can happen again and again, and every one adds a release whose late unlink removes somebody's file. A second release of a handle with two other holders (`overreleased`) takes three callers of one process; it is proved, and was checked apart with a fourth caller and `Hazards = {"release_again"}` (82,290 states).
- `debounce`: three messages of one key (one in flight, one buffered, one that skips the debounce) and two of another, `MaxTrackedKeys` 1, so that the table is full for the second key.
- `nodes`: one node with three connections, taken in any one order (`IsNext`; two reconnects, so an old close can come late twice), two calls under one approval, all three fallbacks.

No symmetry is used: most runs check liveness.

## 6. Fairness

- Bodies of lane entries settle: agent runs and cron jobs carry timeouts. `restart` takes one of them out (`Hung`): a body interrupted by a restart never runs its `finally`.
- `start()` answers and each await of a shutdown ends: the code puts a timer on each.
- Followup runs end; a run that is retried for ever succeeds some time (strong fairness of `RunSucceeds`), without which no queue can promise an answer.
- Sends answer, file operations return; the gateway is restarted again and again, and the backoff of an entry (at most ten minutes) is over at some restarts (strong fairness of `Replay`).
- Timers fire. A call of the registered runner answers or throws; it does not throw for ever (the runner catches what a heartbeat throws). Nothing is assumed of the calls of a former runner.
- The chain of cron sections moves on (a failed section does not break `locked()`), an armed cron timer fires (it is clamped to a minute), and a job run that is waited for ends or times out (a job with `timeoutSeconds: 0` has no timeout, and is taken to end). One weak fairness per process of a service.
- Operations on the lock file return, and the file of a dead owner grows old.
- Debounce timers fire, promise callbacks run, and `onFlush` returns. It has no deadline of its own: a channel handler that never returned would hold up its conversation, in the code too.
- The waits of `node.invoke` for a wake-up, a reconnect or a nudge have deadlines, and so has a request to a node. Nothing is assumed of the agent, the approver, the node or its link.

Signals, requests, messages, clears, config changes, edits, manual runs, crashes,
reconnects, decisions, registrations and the release of a session lock by its holder are
never fair: nothing depends on their coming.

## 7. Proofs

`*_proofs.tla` hold the theorems TLAPS checks, for all values of the constants under the
`ASSUME` of the modules (finite sets of calls and targets, natural bounds, `LaneOf`, `ProcOf`
and the like functions, `Child` injective).

**CommandQueue.** The inductive invariant `IInv` is type correctness, `QueuedExactlyOnce`,
`SlotsMatchRunning`, `NoStrandedWork`, and `NoFutureGeneration`: a running body was
started in the present generation or an earlier one. Without the last part a reset
could bring a stale body back among the counted ones. Every action ends in the pump, so
the proof centres on `DrainStep`: pumping from an intermediate state that satisfies
`IInv` except for free room in the pumped lanes restores all of it. From `IInv` follow
`TypeCorrect`, `NothingLostOrDuplicated`, `SlotAccounting`, `NoLostWakeup`, and the action
properties `CapRespected` and `LanesAreFifo`.

**GatewayRestart.** Every step of the run loop is a step of the command queue or leaves it
alone (`GatewayImplementsLanes`), so `IInv` holds under it. `ServingGatewayAccepts` needs the
hypothesis `~SignalsWhileStarting`; its invariant `LoopInv` says that a shutdown is served
only while the loop waits on an armed resolver. `DrainIsComplete` strengthens
`DrainedMeansDone` with: a task of the snapshot never runs without its slot during the drain
and never returns to a queue. `DrainRefusesWork` (`NothingAcceptedWhileDraining`, which no run
repeats) follows from the drain flag being set from a restart request to the reset, so a new
call is refused in every step in between. `LanesResetBetweenServers` has `ListenInv`: while a
server listens, the loop waits or the process has exited, and a shutdown past the close finds
no server, unless closing one has failed; it needs `~SignalsWhileStarting` as well.

**RunLanes.** `RunsImplementLanes` is the same refinement for nested entries.
`SessionsAreSerial` proves one run per session: `RunInv` adds to `IInv` that an entry enqueued
by a body waits or runs only while that body runs (`BodiesAwait`), and that a lane nobody
configures keeps cap one and counts at most one entry (`OneSlot`). Two runs past the same
session lane would then be two counted entries of a lane of one slot.

**HeartbeatWake.** `WakeInv` adds to the properties that a callback hands out wakes of its own
batch and an idle slot has none (`BatchesInOrder`), and that `running` is set while a
callback of the registered runner is under way, unless a former one's has reset it
(`RunningIsKnown`). It yields `NoLostWakeup`, `WakesAreHeld`, `BatchesAreSerial`,
`DisposersAreLocal`, and the action property `CooldownIsKept`.

**SessionLock.** No theorem assumes anything of `Hazards`. `LockInvariant` strengthens
`EntryIsBacked`: until a hazard is met, at most one caller or sweep is about to
remove a file it judged, and then the file's owner is dead; a caller that writes created
the file that is there; each pending unlink of a live process belongs to its file, and excludes
an entry. So exclusion can be lost only through one of the four hazards to the file. From it,
`Backed`, and `Reentrant`: every step is an `Enter`, a `Leave`, a `Revoke` or leaves the entries
alone, for any processes, callers, depths and deaths; the step that meets a hazard is a `Revoke`
of whoever holds. The other half holds throughout: the count of an entry is the number of its
holders unless a handle of it was released again (`HandlesInv`), and `HandlesKept` follows.

**FollowupQueue.** `RoutingIsKept` has no hypothesis: for any phases in which messages, overflows
and clears come, a batch that was checked has one target but for what is in `late`, until it is
copied. `LinesAreKept` rests on
`SummaryInv`: only the session's queue is drained and holds lines that are owed, lines count as
work, and a run that shows the summary shows all that is owed. Its two hypotheses are the
behaviours of §8 under which the code does lose lines: a message that falls out while a
followup run is in flight, and a drain that outlives a clear; without either one TLC finds
`DroppedAreKept` violated.

`NoMessageAnsweredTwice` and `NoMessageLost` (`AnsweredOnce`, `NothingLost`) are two halves of one
balance: what was accepted of a message is what was delivered, what was discarded and what the
queue objects hold, a prompt in flight counting as held until its run succeeds. Two
descriptions hold it up. `PromptsFit`: the prompt of a run in flight is at most the front of its
queue as it is *now*, so removing by position removes what was answered; this is false as soon as
something falls out of the queue meanwhile, which is the finding `followup_run_overflow`, and
hence the hypothesis that `OverflowPhases` lacks `"running"`. `PromptsShow`: the front that will
be removed is all in the prompt; this is false of a summary outside collect mode, which takes the
head item's place (`drain.ts:152`), hence `OnlyBatchesSummarized` for `NoMessageLost` alone. The
second hypothesis, `ClearPhases \subseteq {"idle"}`, is the clear of §8: a drain that outlives
it removes the next queue. The sums over queue objects and their items are `MapThenSumSet`, a
recursive function; the counting lemmas (`CountAppend`, `CountSplit`, `PendingOfOne`, ...) unfold it
where it ranges over one object more or one less.

**CronService.** Both theorems assume `~Overlap`: the sections and runs of a service are over before
it is replaced, without which markers are cleared under a run (§8) and TLC finds `OneRunAtATime`
violated. `MarkersStayInOrder` has the invariant `MarkerInv`: a service that is not in charge does
nothing (`OnlyCurrentWorks`), what a process waits for belongs to its phase (`RunsBelong`), a
run that holds a marker has not ended or its result is not applied (`HoldersAreUnderWay`), its marker
is in the file and in memory (`MarkersStand`), and no two hold the marker of one job
(`OneHolder`). `OneRunAtATime` is what the last two say of runs that go on. `DueIsNotSkipped` needs
`SlotInv` as well (`SlotsStayAhead`): what was executed lies in the past, a slot that waits lies
ahead of the last run of its job (`StoresAhead`), and memory differs from the file in markers and in
slots the file lacks (`MemoryFollows`); so a pass that loads the file, recomputes and saves it cannot
move a due slot it has not executed. The proof showed that the result of a run that was
given up clears the marker of the newer run as well (§8); `OneRunAtATime` therefore speaks of
runs whose own marker stands, which `holders` records.

**InboundDebounce.** `KeysAreFifo` is the refinement `IsKeyedFifo`, for any messages, keys and
`maxTrackedKeys`. `ChainsInv`: what runs is ready and comes first in its chain, what still takes
messages is not ready and comes last, and `keyChains` knows every key that has tasks. The last part
is what lets a message pass at once only when none of its key waits; the middle one keeps a buffer
apart from the task that runs, so that a message added to it is not handed over unseen. What
waits is a concatenation (`FlattenSeq`, a recursive function); `FlattenAppend`, `FlattenHead` and
`LastGrows` say what it does when a slot comes, goes or grows. They are proved by an induction
which `SetInduction` makes a matter of sets: the least number outside a set that holds 0 and is
closed under `+ 1` would have a predecessor in it.

**DeliveryQueue.** `NothingLost` needs `SentReached` beside it: an actor that is about to ack has seen
the message reach the channel or be aborted, or the delivery is bestEffort; this holds whether or
not two actors meet over an entry. `AckedIsNotReplayed` and `SendsAreBounded` follow from
`QueueInv`, which speaks of each entry that is not `contended`, for any number of recoveries at
once: one actor has it (`OneHasIt`); what a job holds is on disk, what is acked is gone and what a
job has read is still what the file says (`FileAgrees`); and its sends are in its retry count but
for one under way and one for each crash (`SendsCounted`). A file that is gone makes the ack and
the failure of its holder error branches; the invariant shows that they are not taken for such an
entry.

**NodeExec.** `NoneWaitsForTheGone` and `NodesAreFound` follow from `RegistrySafe`: the session of a
node belongs to one of its own connections, and the open one has it unless the node was cut
off. `DecisionsHold` needs that record and promise agree (`RecordMatchesPromise`): the record
loses its decision only when a one-time decision is consumed, before which nothing was sent;
and that an approval nobody requested has no decision.

Model-checked only: all liveness properties (`QueuedIsServed`, `QueuedSurvivesRestart`,
`EverythingEnds`, `WakesAreCalled`, `QueuedIsAnswered`, `SummaryIsDelivered`, `EntriesSettle`,
`JobsSettle`, `OrphanIsReclaimed`, `EveryItemIsHanded`, `IdleTracksNothing`, `CallsAreAnswered`), which
the proof system cannot treat under fairness. Every invariant and action property of a passing run
and each of the three refinements is a theorem; the two runs that end in a
counterexample check what the hypotheses above exclude. Type invariants are proved as part of the
inductive invariants; the runs spend their time on what types do not say.

## 8. Findings and behaviour outside the properties

Findings (runs that end in a counterexample; the quoted lines are in `PROJECT.json`):

- `restart_early`: signal handlers are installed before the loop. A restart requested
  while `start()` is pending sets the drain flag, finds no server to close and calls a
  resolver that is absent or spent (`run-loop.ts:92`). No iteration resets the lanes; when
  `start()` answers, the gateway serves and refuses all work until another restart.
- `followup_run_overflow`: during `await run` the drop policy splices items off the front,
  the very items in flight; afterwards the drain removes as many from the front of what is
  there now (`drain.ts:138`, `queue-helpers.ts:156`). A message that arrived meanwhile is
  removed unanswered and unsummarized.

Behaviour that the passing properties leave out on purpose. Most of it is listed as a hazard;
the parameters named can be changed to see it.

*Followup queue*

- *Drop policy changed.* If the policy changes from `summarize` while messages were dropped, no
  summary is due, `droppedCount` is never cleared, and the drain runs the agent on a prompt of
  the bare title over and over (`drain.ts:118`, `queue-helpers.ts:58`). The regimes keep the
  policy of a session.
- *Clear during a drain.* The drain of a cleared queue deletes, in its `finally`
  (`drain.ts:180`), whatever queue is registered under the key by then; a message queued
  after the clear is lost with it. `ClearPhases` therefore has only `"idle"`.
- *Arrival between routing check and copy* (`drain.ts:102` to `:117`). The await between
  them gives a message of another target a chance to join the batch and to be answered to the
  wrong target. `CollectKeepsRouting` leaves out what came in this window (`late`), and only that.
- *Summary outside collect mode* (`drain.ts:152`). The run that shows the summary removes
  the head item, which nobody answers.
- *Cap of one outside collect mode* (`drain.ts:183`). A message during the run leaves
  dropped messages without items, and the drain reschedules itself for ever.

*Outbound delivery*

- *Best effort in a recovery.* `deliver.ts:519-520` tracks partial failures through the caller's
  `onError`; the recovery passes `bestEffort` but no `onError`
  (`delivery-queue-recovery.ts:63-81`, `:199`), so it acks an entry all of whose payloads failed.
  `NothingLost` speaks of the other entries.
- *Two actors with one entry.* `server.impl.ts:1132` starts a recovery nobody waits for or stops.
  After a restart in place a send of the former server or its recovery may be under way: each
  actor then sends the message, more often than `MAX_RETRIES` in all, one sends it after the other
  has acked it, and an entry acked by one can be written back by the other's `failDelivery`.
  `AckedIsNotReplayed` and `SendsAreBounded` leave out the entries to which this happened
  (`contended`); that nothing is lost and every entry settles is checked with them.
- *One temporary file.* Two `failDelivery` of one entry write the same `<id>.json.<pid>.tmp`
  (`delivery-queue-storage.ts:79`). If they overlap one rename may fail or move a half-written
  file, which a recovery skips as malformed; the model has write and rename as one step.

*Restart and heartbeats*

- *A close that throws.* Awaits before `httpServer.close` are not guarded (`server-close.ts:53`,
  `:70`, `:75`); the run loop logs the error, forgets the server and restarts (`run-loop.ts:162-170`).
  The lanes are then reset while the old server listens, and `start()` may find its port in use.
  `ResetBetweenServers` leaves out what follows such a close (`closeFailed`).
- *Nested enqueue during a drain.* An entry of a session lane that starts while the gateway
  drains has its inner enqueue (`run.ts:115`) refused, although `command-queue.ts:264-266`
  says queued entries are preserved for after the restart.
- *Runs across a reset.* After a drain that timed out, a run of the former iteration may
  go on beside a new run of its session; `OneRunPerSession` speaks of runs since the reset.
- *Callbacks of a former runner.* Their `finally` resets `running` under the new runner, after
  which two of its batches may overlap (`intruded`); wakes left in their batch are answered
  "disabled", or kept for ever by a call that hangs (`HeldByFormer`).
- *Cooldown after a request.* A request that arrives during a batch arms a normal timer; the
  retry then scheduled for a busy lane does not replace it, so the cooldown starts with the
  next retry only.

*Cron*

- *Reload during a run.* `start()` of the new service clears every marker in the file
  (`ops.ts:104`), also that of a run the old service still waits for; the job may then run
  twice at a time. `OneRunAtATime` fails with `Overlap = TRUE`. For the same reason the old
  service may save a memory that lacks what the new one has written.
- *Result of a run that was given up.* A run whose marker an edit has taken (disabling
  the job and enabling it again) does not know it: its result is applied all the same and clears
  the marker of the newer run of the job (`timer.ts:320`), beside which the job can then start
  once more.
- *Marker of a forced run.* A disabled job may be run by force; any recompute takes its marker
  away (`normalizeJobTickState` in `jobs.ts`), so it can be forced again beside the first run.
- *Slots moved on.* `add` recomputes every job and moves past-due slots of the others; so does
  the last section of `start()`. `MayAdvance` in `CronService` names these places.
- *Catch-up plan.* Jobs planned at startup are run without another look at the store: one that
  was removed or disabled meanwhile still runs.
- *Stopped service.* The `finally` of `onTimer` arms the timer of a service that was stopped during
  its tick (`timer.ts:729`), which then goes on beside its successor.
- *Timeouts.* A run that times out is reported and its marker cleared, but its body may go on
  beside the next run of the job (`timer.ts:82`); only an abort signal is sent.

*Session lock* (each is a hazard of the model; after one of the first four the file no longer
backs its entry)

- `"overlap"`: judging a file stale and removing it are two steps (`:558`). Of two contenders
  that judged the same file, the second may remove the fresh lock the first has created.
- `"no_starttime"`: where the start time of a process is unknown, a payload with the own pid and
  no entry is an orphan (`shouldTreatAsOrphanSelfLock`). A file whose release has yet to unlink
  it is reclaimed by the next caller of the process, and the late unlink then removes the
  fresh lock of that caller. And a pid in use again looks alive.
- `"long_hold"`: a file older than `staleMs` is stale although its owner lives and holds it; agent
  runs may hold it longer (`pi-embedded-runner/run/attempt.ts:689`).
- `"sweep"`: the startup sweep takes a file without payload for stale whatever its age (`:446`).
- `"release_again"`: a handle does not know that it was released (`:131-142`). While others keep
  its entry, a second release of it decrements their count, and the entry and its file go while
  one of them holds. No caller in the source releases twice: each does so in one `finally`.

*Nodes and approvals*

- *Late close.* When the close of an old connection is handled after the node has connected
  again, `unregister` deletes the new session and fails the calls sent over it
  (`node-registry.ts:87`). The node is not found until it connects once more (`cutOff`).
- *Registered after its close.* A connection that closes during the handshake is registered all the
  same (`ws-connection.ts:272` finds no client yet, `message-handler.ts:1080-1084` does not ask).
  The session stays listed until the node connects once more, also in the place of a live one when
  the handshake of the dead connection ends last; calls over it run into their timeout. In the
  model the connection is a ghost, and a live one it displaced counts as lost.
- *Approved, but told there is no decision.* `exec-approval.ts:205-217` answers that there is no
  route after the forwarder's await, without a look at whether the approval was resolved
  meanwhile; `waitDecision` after the grace period finds no record and answers alike.
- *Approved in time, refused.* The claim is checked after the waits for the node's wake-up, so an
  approval given in time may have expired by then (`node-invoke-system-run-approval.ts:159`).
- *Fallback "full".* `docs/tools/exec-approvals.md:97-103` says a prompt nobody can answer falls
  back to `askFallback`. On a node the gateway refuses the claim when there was no route, and
  after the timer only while the record is unexpired.
- *One-time approvals and failed sends.* The decision is consumed before the send; a send that
  fails has used it up. An agent whose own call times out reports a denial although the gateway
  may still run the command.

## 9. What is not modelled

- What an agent run does: prompts, tools, streaming, model fallback. A run is a body that
  settles.
- Contents: texts, routing metadata beyond "same target or not", prompt formatting,
  payload chunking. Of two wakes for one target only one is kept, whichever its reason.
- Time, except as order: debounces, backoffs and timeouts are steps that may be taken;
  `HeartbeatWake` and `CronService` count ticks because their properties compare instants.
- File errors other than a failed enqueue and a failed write of a lock file, and queue entries
  of older versions.
- In the cron service: patches of schedules, failure alerts, delivery of results, schedule
  computation errors, the session reaper, the two-hour limit of a marker. In the node commands:
  command policy as anything but a refusal, the binding of an approval to node, device and
  command, the queue of actions for iOS nodes in the background.
- Restart signal (`infra/restart.ts`; polls of two deferred restarts do not cancel each other,
  `:225`), gateway lock (`infra/gateway-lock.ts:227` has the window of the session lock), reply
  dispatcher (`reply-dispatcher.ts:185`), active run registry, heartbeat runner: worth modules,
  next in the plan.
- The components listed as `not_modelled` in `PROJECT.json`: adapters and user interfaces
  (channels, plugins, apps, UI, CLI, gateway protocol), behaviour of external systems (browser
  providers, ACP runtimes, child processes), pure functions covered by unit tests (model
  fallback, auth cooldowns, config diffs), and small synchronous stores (system events). They
  make up most of the repository's lines, as do generated metadata and schemas.
