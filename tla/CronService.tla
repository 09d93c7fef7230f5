----------------------------- MODULE CronService -----------------------------
(***************************************************************************)
(* The cron scheduler (src/cron/service/): one store file of jobs, a copy  *)
(* of it in the memory of each service, and the processes that work on it: *)
(* the timer tick, the catch-up of start(), manual runs and edits.         *)
(*                                                                         *)
(* locked() chains the critical sections of all services of one store      *)
(* file, so a section is one action, with the load, recompute and persist  *)
(* it makes.  The run of a job lies between two sections; it ends, or its  *)
(* timeout reports an error.  A configuration reload or a restart in place *)
(* stops a service and starts another beside whatever the first still has  *)
(* under way; a crash ends all of them.                                    *)
(*                                                                         *)
(* Time is an integer; what is shorter than a tick of it (MIN_REFIRE_GAP,  *)
(* the startup stagger beyond its order) and STUCK_RUN_MS, which is longer *)
(* than every run with a timeout, are left out.  The timer is at most a    *)
(* minute late or early, so an armed one may fire at any time.             *)
(***************************************************************************)
EXTENDS Integers, FiniteSets

CONSTANTS
  AtJobs, EveryJobs, CronJobs,   \* ids of jobs by the kind of their schedule
  At,            \* the time of a one-shot job; the period of the others
  Outcomes,      \* what a run may report: "ok", "skipped", an "error" that may
                 \* pass (isTransientCronError), a "permanent" one
  MaxAttempts,   \* retry.maxAttempts of one-shot jobs
  Backoff,       \* delay before a failed job runs again
  Concurrency,   \* cronConfig.maxConcurrentRuns
  MaxImmediate,  \* maxMissedJobsPerRestart
  Overlap,       \* a reload may meet sections and runs of the old service
  MaxTime,       \* bound: the last instant
  MaxServices,   \* bound: services started one after the other
  MaxEdits,      \* bound: add, update and remove calls
  MaxManual      \* bound: manual runs

ASSUME CronAssumption ==
  /\ Outcomes \subseteq {"ok", "skipped", "error", "permanent"}
  /\ IsFiniteSet(AtJobs \cup EveryJobs \cup CronJobs)
  /\ {At, Backoff, Concurrency, MaxTime, MaxServices} \subseteq Nat \ {0}
  /\ Overlap \in BOOLEAN
  /\ {MaxAttempts, MaxImmediate, MaxEdits, MaxManual} \subseteq Nat

Jobs == AtJobs \cup EveryJobs \cup CronJobs
KindOf(j) == CASE j \in AtJobs -> "at" [] j \in EveryJobs -> "every" [] j \in CronJobs -> "cron"

Undefined == 0
Services == 1..MaxServices
Modes == {"due", "force"}

VARIABLES
  now,       \* nowMs()
  disk,      \* the store file: the jobs in it
  mem,       \* state.store of each service
  current,   \* the service the gateway hands its calls to
  armed,     \* state.timer of each service is set
  boot,      \* start(): what it awaits, the runs it still has to make, their results
  tick,      \* onTimer, likewise; "idle" is state.running = false
  manual,    \* the manual run of each service
  bodies,    \* runs of executeJobCore that have not ended
  holders,   \* runs whose marker stands on their job (a history variable)
  edits,     \* calls made so far
  manuals

vars == <<now, disk, mem, current, armed, boot, tick, manual, bodies, holders, edits, manuals>>
bodyVars == <<bodies, holders>>

-----------------------------------------------------------------------------
(* Schedules. *)

(* The next slot of a periodic job: "every" may name the present instant. *)
SlotAfter(kind, n) ==
  IF kind = "cron" THEN (n \div At + 1) * At
  ELSE LET steps == (n + At - 1) \div At IN (IF steps = 0 THEN 1 ELSE steps) * At

(* The last slot of a cron expression before n, or Undefined. *)
SlotBefore(n) == ((n - 1) \div At) * At

(* computeJobNextRunAtMs *)
NextRun(r, n) ==
  CASE ~r.enabled -> Undefined
    [] r.enabled /\ r.kind = "at" ->
         IF r.status = "ok" /\ r.last # Undefined /\ At <= r.last THEN Undefined ELSE At
    [] r.enabled /\ r.kind = "every" /\ r.last # Undefined /\ r.last + At > n -> r.last + At
    [] OTHER -> SlotAfter(r.kind, n)

(* normalizeJobTickState, as far as a disabled job is concerned. *)
Normalized(r) == IF r.enabled THEN r ELSE [r EXCEPT !.next = Undefined, !.running = Undefined]

Recomputed(r, n) == [r EXCEPT !.next = NextRun(r, n)]

IsPastDue(r, n) == r.next # Undefined /\ n >= r.next

(* recomputeNextRuns: what is missing or past due moves to its next slot. *)
RecomputeNextRuns(store, n) ==
  [j \in DOMAIN store |->
     LET r == Normalized(store[j]) IN
     IF r.enabled /\ (r.next = Undefined \/ IsPastDue(r, n)) THEN Recomputed(r, n) ELSE r]

(* recomputeNextRunsForMaintenance: a past-due slot moves only if it was   *)
(* executed, and only when `expired` is asked for.                         *)
Maintained_Advances(store, n, expired) ==   \* bug: the full recompute (#13992)
  RecomputeNextRuns(store, n)
Maintained(store, n, expired) ==
  [j \in DOMAIN store |->
     LET r == Normalized(store[j])
         executed == expired /\ IsPastDue(r, n) /\ r.running = Undefined
                     /\ r.last # Undefined /\ r.last >= r.next
     IN IF r.enabled /\ (r.next = Undefined \/ executed) THEN Recomputed(r, n) ELSE r]

(* isRunnableJob during a tick. *)
Runnable(r, n) == r.enabled /\ r.running = Undefined /\ IsPastDue(r, n)

(* isRunnableJob during startup catch-up: one-shot jobs that ran wait for   *)
(* their retry, cron expressions replay a slot missed since their last run. *)
Missed(r, n) ==
  /\ r.enabled
  /\ r.running = Undefined
  /\ IF r.kind = "at" /\ r.status # "none"
     THEN r.status = "error" /\ r.next > r.last /\ n >= r.next
     ELSE \/ IsPastDue(r, n)
          \/ /\ r.kind = "cron"
             /\ r.last # Undefined
             /\ ~(r.status = "error" /\ r.next > n /\ n < r.last + Backoff)
             /\ SlotBefore(n) > r.last

(* applyJobResult, for a result [job, status, started, ended].  A one-shot  *)
(* job is tried again after an error that may pass.                         *)
Latest(a, b) == IF a > b THEN a ELSE b
ApplyJobResult(r, result, preserve) ==
  LET failed == result.status \in {"error", "permanent"}
      errors == IF failed THEN r.errors + 1 ELSE 0
      done == [r EXCEPT !.running = Undefined, !.last = result.started,
                        !.status = IF failed THEN "error" ELSE result.status,
                        !.errors = IF errors > MaxAttempts THEN MaxAttempts + 1 ELSE errors]
      kept == IF preserve /\ r.kind = "every" THEN [done EXCEPT !.last = r.last] ELSE done
      natural == NextRun(kept, result.ended)
      retried == result.status = "error" /\ errors <= MaxAttempts
  IN CASE r.kind = "at" /\ retried ->
            [done EXCEPT !.next = result.ended + Backoff]
       [] r.kind = "at" /\ ~retried ->
            [done EXCEPT !.enabled = FALSE, !.next = Undefined]
       [] r.kind # "at" /\ failed /\ r.enabled ->
            [done EXCEPT !.next = Latest(natural, result.ended + Backoff)]
       [] OTHER -> [done EXCEPT !.next = natural]

(* A one-shot job is deleted when it succeeds (deleteAfterRun). *)
IsSpent(r, result) == r.kind = "at" /\ result.status = "ok"

(* applyOutcomeToStoredJob for each of a set of results. *)
ApplyOutcomes(store, results) ==
  LET of(j) == {o \in results : o.job = j} IN
  [j \in {i \in DOMAIN store : ~\E o \in of(i) : IsSpent(store[i], o)} |->
     IF of(j) = {} THEN store[j] ELSE ApplyJobResult(store[j], CHOOSE o \in of(j) : TRUE, FALSE)]

Marked(store, due, n) ==
  [j \in DOMAIN store |-> IF j \in due THEN [store[j] EXCEPT !.running = n] ELSE store[j]]

(* nextWakeAtMs: armTimer sets a timer if some enabled job has a next run. *)
WantsTimer(store) == \E j \in DOMAIN store : store[j].enabled /\ store[j].next # Undefined

-----------------------------------------------------------------------------
(* Processes. *)

Idle == [phase |-> "idle", results |-> {}, skip |-> {}, live |-> FALSE]
NoManual == [phase |-> "idle", job |-> CHOOSE j \in Jobs : TRUE, mode |-> "due",
             at |-> 0, result |-> [status |-> "none", ended |-> 0]]

(* createJob *)
NewJob(j, n) ==
  LET r == [kind |-> KindOf(j), enabled |-> TRUE, next |-> Undefined, running |-> Undefined,
            last |-> Undefined, status |-> "none", errors |-> 0]
  IN Recomputed(r, n)

Init ==
  /\ now = 1
  /\ disk = [j \in Jobs |-> NewJob(j, 1)]
  /\ mem = [s \in Services |-> disk]
  /\ current = 1
  /\ armed = [s \in Services |-> FALSE]
  /\ boot = [s \in Services |-> IF s = 1 THEN [Idle EXCEPT !.phase = "clear"] ELSE Idle]
  /\ tick = [s \in Services |-> Idle]
  /\ manual = [s \in Services |-> NoManual]
  /\ bodies = {}
  /\ holders = {}
  /\ edits = 0
  /\ manuals = 0

(* ensureLoaded and persist: a section leaves memory and file equal. *)
Persist(s, store) == disk' = store /\ mem' = [mem EXCEPT ![s] = disk']

(* armTimer, after a persist. *)
Arm(s) == armed' = [armed EXCEPT ![s] = WantsTimer(disk')]

(* A run some process reserved and waits for; it has started or not. A      *)
(* process has one run of a job at a time, whose marker it holds until the  *)
(* result is applied.                                                       *)
RunId(s, by, j) == [svc |-> s, by |-> by, job |-> j]
IdOf(b) == RunId(b.svc, b.by, b.job)
Reserve(s, by, jobs, started) ==
  /\ bodies' = bodies \cup
       {[svc |-> s, by |-> by, job |-> j, started |-> started] : j \in jobs}
  /\ holders' = holders \cup {RunId(s, by, j) : j \in jobs}
RunsOf(s, by) == {b \in bodies : b.svc = s /\ b.by = by}
Running(b) == b.started # Undefined
Started(b, n) == (bodies \ {b}) \cup {[b EXCEPT !.started = n]}

(* start() and edits take the markers of jobs away.                         *)
Unmarked(jobs) == {h \in holders : h.job \notin jobs}

(* The results of runs take their own markers, or, from a run that lost it, *)
(* the marker of whichever run of the job holds it by then.                 *)
ResultsApplied(ids) ==
  {h \in holders : h \notin ids /\ \A id \in ids \ holders : id.job # h.job}
TickRuns(s) == {RunId(s, "tick", o.job) : o \in tick[s].results}
BootRuns(s) == {RunId(s, "boot", o.job) : o \in boot[s].results}

-----------------------------------------------------------------------------
(* start() *)

(* Its first section: markers a former process left are cleared. *)
StartClears_KeepsMarkers(s) ==   \* bug: the markers of a crashed process stay
  /\ boot[s].phase = "clear"
  /\ Persist(s, disk)
  /\ boot' = [boot EXCEPT ![s] = [@ EXCEPT !.phase = "plan"]]
  /\ UNCHANGED <<now, current, armed, tick, manual, bodyVars, edits, manuals>>
StartClears(s) ==
  LET marked == {j \in DOMAIN disk : disk[j].running # Undefined} IN
  /\ boot[s].phase = "clear"
  /\ Persist(s, Marked(disk, marked, Undefined))
  /\ boot' = [boot EXCEPT ![s] = [@ EXCEPT !.phase = "plan", !.skip = marked]]
  /\ holders' = Unmarked(marked)
  /\ UNCHANGED <<now, current, armed, tick, manual, bodies, edits, manuals>>

(* planStartupCatchup: the most overdue jobs run at once, the rest later.   *)
StartPlans(s) ==
  /\ boot[s].phase = "plan"
  /\ \E missed \in {{j \in DOMAIN mem[s] \ boot[s].skip : Missed(mem[s][j], now)}} :
     \E chosen \in SUBSET missed :
       /\ Cardinality(chosen) = MaxImmediate \/ chosen = missed
       /\ Cardinality(chosen) <= MaxImmediate
       /\ \A i \in chosen, j \in missed \ chosen : mem[s][i].next <= mem[s][j].next
       /\ IF missed = {} THEN UNCHANGED <<disk, mem>>
          ELSE Persist(s, Marked(mem[s], chosen, now))
       /\ boot' = [boot EXCEPT ![s] =
            [@ EXCEPT !.phase = IF missed = {} THEN "final" ELSE "run", !.skip = missed \ chosen]]
       /\ Reserve(s, "boot", chosen, Undefined)
  /\ UNCHANGED <<now, current, armed, tick, manual, edits, manuals>>

(* executeStartupCatchupPlan runs its candidates one after the other. *)
StartRunsJob(b) ==
  /\ b.by = "boot" /\ ~Running(b)
  /\ ~\E other \in RunsOf(b.svc, "boot") : Running(other)
  /\ bodies' = Started(b, now)
  /\ UNCHANGED <<now, disk, mem, current, armed, boot, tick, manual, holders, edits, manuals>>

(* applyStartupCatchupOutcomes, on the store in memory. (\E x \in {e}, here *)
(* and below, is a LET whose expression is evaluated once.)                 *)
Deferred(store, skip, n) ==
  [j \in DOMAIN store |->
     IF j \in skip /\ store[j].enabled THEN [store[j] EXCEPT !.next = n + 1] ELSE store[j]]
StartApplies(s) ==
  /\ boot[s].phase = "run"
  /\ RunsOf(s, "boot") = {}
  /\ \E applied \in {ApplyOutcomes(mem[s], boot[s].results)} :
       Persist(s, Maintained(Deferred(applied, boot[s].skip, now), now, FALSE))
  /\ boot' = [boot EXCEPT ![s] = [Idle EXCEPT !.phase = "final"]]
  /\ holders' = ResultsApplied(BootRuns(s))
  /\ UNCHANGED <<now, current, armed, tick, manual, bodies, edits, manuals>>

(* The last section: everything past due moves on, and the timer is armed. *)
StartArms(s) ==
  /\ boot[s].phase = "final"
  /\ Persist(s, RecomputeNextRuns(mem[s], now))
  /\ Arm(s)
  /\ boot' = [boot EXCEPT ![s] = Idle]
  /\ UNCHANGED <<now, current, tick, manual, bodyVars, edits, manuals>>

-----------------------------------------------------------------------------
(* onTimer *)

(* The timer is spent and set again at once (armRunningRecheckTimer); a     *)
(* firing while a tick is under way does no more than that.                 *)
TimerFires(s) ==
  /\ armed[s]
  /\ armed' = [armed EXCEPT ![s] = TRUE]
  /\ tick' = IF tick[s].phase = "idle" THEN [tick EXCEPT ![s].phase = "collect"] ELSE tick
  /\ UNCHANGED <<now, disk, mem, current, boot, manual, bodyVars, edits, manuals>>

(* The first section of a tick: reload, and mark what is due. *)
TickCollects(s) ==
  LET due == {j \in DOMAIN disk : Runnable(disk[j], now)} IN
  /\ tick[s].phase = "collect"
  /\ Persist(s, IF due = {} THEN Maintained(disk, now, TRUE) ELSE Marked(disk, due, now))
  /\ tick' = [tick EXCEPT ![s] = [Idle EXCEPT !.phase = IF due = {} THEN "end" ELSE "run", !.live = TRUE]]
  /\ Reserve(s, "tick", due, Undefined)
  /\ UNCHANGED <<now, current, armed, boot, manual, edits, manuals>>

(* runDueJob: the marker is set again on the object the tick collected,     *)
(* which is the one in memory unless the store was reloaded meanwhile.      *)
TickRunsJob(b) ==
  LET s == b.svc IN
  /\ b.by = "tick" /\ ~Running(b)
  /\ Cardinality({other \in RunsOf(s, "tick") : Running(other)}) < Concurrency
  /\ bodies' = Started(b, now)
  /\ mem' = IF tick[s].live THEN [mem EXCEPT ![s] = Marked(@, {b.job}, now)] ELSE mem
  /\ UNCHANGED <<now, disk, current, armed, boot, tick, manual, holders, edits, manuals>>

(* The second section: results are applied to what the file holds by now. *)
TickApplies(s) ==
  /\ tick[s].phase = "run"
  /\ RunsOf(s, "tick") = {}
  /\ \E applied \in {ApplyOutcomes(disk, tick[s].results)} :
       Persist(s, Maintained(applied, now, FALSE))
  /\ tick' = [tick EXCEPT ![s] = [Idle EXCEPT !.phase = "end"]]
  /\ holders' = ResultsApplied(TickRuns(s))
  /\ UNCHANGED <<now, current, armed, boot, manual, bodies, edits, manuals>>

(* The finally block, after the session reaper: also of a stopped service. *)
TickEnds(s) ==
  /\ tick[s].phase = "end"
  /\ tick' = [tick EXCEPT ![s] = Idle]
  /\ armed' = [armed EXCEPT ![s] = WantsTimer(mem[s])]
  /\ UNCHANGED <<now, disk, mem, current, boot, manual, bodyVars, edits, manuals>>

-----------------------------------------------------------------------------
(* run(), mode "due" or "force" *)

(* inspectManualRunPreflight: the check, in a section of its own. *)
ManualChecks(s, j, mode) ==
  LET store == Maintained(mem[s], now, FALSE)
      due == /\ store[j].running = Undefined
             /\ mode = "force" \/ (store[j].enabled /\ IsPastDue(store[j], now))
  IN /\ s = current
     /\ boot[s].phase # "clear"
     /\ manual[s].phase = "idle"
     /\ manuals < MaxManual
     /\ j \in DOMAIN mem[s]
     /\ mem' = [mem EXCEPT ![s] = store]
     /\ manual' = IF due THEN [manual EXCEPT ![s] = [NoManual EXCEPT
                       !.phase = "reserve", !.job = j, !.mode = mode, !.at = now]]
                  ELSE manual
     /\ manuals' = manuals + 1
     /\ UNCHANGED <<now, disk, current, armed, boot, tick, bodyVars, edits>>

(* The reservation, in the next section: a job that is gone, or whose       *)
(* marker is set by now, is not run.                                        *)
ManualReserves_Unchecked(s) ==   \* bug: the marker is not looked at again
  LET j == manual[s].job IN
  /\ manual[s].phase = "reserve"
  /\ IF j \in DOMAIN mem[s]
     THEN /\ Persist(s, Marked(mem[s], {j}, manual[s].at))
          /\ Reserve(s, "manual", {j}, manual[s].at)
          /\ manual' = [manual EXCEPT ![s].phase = "run"]
     ELSE manual' = [manual EXCEPT ![s] = NoManual] /\ UNCHANGED <<disk, mem, bodyVars>>
  /\ UNCHANGED <<now, current, armed, boot, tick, edits, manuals>>
ManualReserves(s) ==
  LET j == manual[s].job IN
  /\ manual[s].phase = "reserve"
  /\ IF j \in DOMAIN mem[s] /\ mem[s][j].running = Undefined
     THEN /\ Persist(s, Marked(mem[s], {j}, manual[s].at))
          /\ Reserve(s, "manual", {j}, manual[s].at)
          /\ manual' = [manual EXCEPT ![s].phase = "run"]
     ELSE manual' = [manual EXCEPT ![s] = NoManual] /\ UNCHANGED <<disk, mem, bodyVars>>
  /\ UNCHANGED <<now, current, armed, boot, tick, edits, manuals>>

(* finishPreparedManualRun: the result is applied to the job in memory, the *)
(* file is read again, and of the job only enabled and state are kept.      *)
ManualFinishes(s) ==
  LET j == manual[s].job
      result == [job |-> j, status |-> manual[s].result.status,
                 started |-> manual[s].at, ended |-> manual[s].result.ended]
      merged(done) ==
        IF IsSpent(mem[s][j], result) THEN [i \in DOMAIN disk \ {j} |-> disk[i]]
        ELSE [i \in DOMAIN disk |-> IF i = j THEN done ELSE disk[i]]
  IN /\ manual[s].phase = "finish"
     /\ manual' = [manual EXCEPT ![s] = NoManual]
     /\ \/ /\ j \in DOMAIN mem[s]
           /\ \E done \in {ApplyJobResult(mem[s][j], result, manual[s].mode = "force")} :
              \E store \in {merged(done)} : Persist(s, Maintained(store, now, TRUE))
           /\ Arm(s)
           /\ tick' = [tick EXCEPT ![s].live = FALSE]
           /\ holders' = ResultsApplied({RunId(s, "manual", j)})
        \/ j \notin DOMAIN mem[s] /\ UNCHANGED <<disk, mem, armed, tick, holders>>
     /\ UNCHANGED <<now, current, boot, bodies, edits, manuals>>

-----------------------------------------------------------------------------
(* Runs of jobs *)

(* What the process that started body b learns of its end. *)
Report(b, status) ==
  LET result == [job |-> b.job, status |-> status, started |-> b.started, ended |-> now] IN
  CASE b.by = "boot" -> /\ boot' = [boot EXCEPT ![b.svc].results = @ \cup {result}]
                        /\ UNCHANGED <<tick, manual>>
    [] b.by = "tick" -> /\ tick' = [tick EXCEPT ![b.svc].results = @ \cup {result}]
                        /\ UNCHANGED <<boot, manual>>
    [] b.by = "manual" -> /\ manual' = [manual EXCEPT ![b.svc] =
                               [@ EXCEPT !.phase = "finish", !.result = [status |-> status, ended |-> now]]]
                          /\ UNCHANGED <<boot, tick>>

(* A run ends, or times out; what goes on after that is not waited for.     *)
BodyEnds(b, status) ==
  /\ Running(b)
  /\ bodies' = bodies \ {b}
  /\ Report(b, status)
  /\ UNCHANGED <<now, disk, mem, current, armed, holders, edits, manuals>>

-----------------------------------------------------------------------------
(* Edits, on the store in memory of the service in charge. *)

CanEdit(s) == s = current /\ boot[s].phase # "clear" /\ edits < MaxEdits

Saves(s, store) ==
  /\ Persist(s, store)
  /\ Arm(s)
  /\ edits' = edits + 1
  /\ UNCHANGED <<now, current, boot, tick, manual, bodies, manuals>>

(* add recomputes every job, not only the new one. *)
Add(s, j) ==
  /\ CanEdit(s)
  /\ j \notin DOMAIN mem[s]
  /\ Saves(s, RecomputeNextRuns([i \in DOMAIN mem[s] \cup {j} |->
                                   IF i = j THEN NewJob(j, now) ELSE mem[s][i]], now))
  /\ UNCHANGED holders

(* update of enabled: disabling takes the next run and the marker away.     *)
Update(s, j, enabled) ==
  LET patched == [mem[s][j] EXCEPT !.enabled = enabled]
      repaired == IF enabled THEN Recomputed(patched, now) ELSE Normalized(patched)
  IN /\ CanEdit(s)
     /\ j \in DOMAIN mem[s]
     /\ Saves(s, [mem[s] EXCEPT ![j] = repaired])
     /\ holders' = IF repaired.running = Undefined THEN Unmarked({j}) ELSE holders

Remove(s, j) ==
  /\ CanEdit(s)
  /\ j \in DOMAIN mem[s]
  /\ Saves(s, [i \in DOMAIN mem[s] \ {j} |-> mem[s][i]])
  /\ holders' = Unmarked({j})

-----------------------------------------------------------------------------
(* Services come and go *)

(* A reload or a restart in place: stop() clears the timer, no more, and    *)
(* the next service starts beside what the old one still has under way. One *)
(* that has nothing under way never looks at its memory again.              *)
Replace ==
  /\ current < MaxServices
  /\ Overlap \/ (/\ boot[current].phase = "idle" /\ tick[current].phase = "idle"
                 /\ manual[current].phase = "idle")
  /\ current' = current + 1
  /\ armed' = [armed EXCEPT ![current] = FALSE]
  /\ mem' = IF Overlap THEN mem ELSE [mem EXCEPT ![current] = <<>>]
  /\ boot' = [boot EXCEPT ![current + 1] = [Idle EXCEPT !.phase = "clear"]]
  /\ UNCHANGED <<now, disk, tick, manual, bodyVars, edits, manuals>>

(* The process dies, and comes up again with the file alone. *)
Crash ==
  /\ current < MaxServices
  /\ current' = current + 1
  /\ mem' = [s \in Services |-> <<>>]
  /\ armed' = [s \in Services |-> FALSE]
  /\ boot' = [s \in Services |-> IF s = current + 1 THEN [Idle EXCEPT !.phase = "clear"] ELSE Idle]
  /\ tick' = [s \in Services |-> Idle]
  /\ manual' = [s \in Services |-> NoManual]
  /\ bodies' = {}
  /\ holders' = {}
  /\ UNCHANGED <<now, disk, edits, manuals>>

ClockTicks ==
  /\ now < MaxTime
  /\ now' = now + 1
  /\ UNCHANGED <<disk, mem, current, armed, boot, tick, manual, bodyVars, edits, manuals>>

-----------------------------------------------------------------------------
Runs(s, by) ==
  \E b \in RunsOf(s, by) :
    \/ StartRunsJob(b) \/ TickRunsJob(b)
    \/ \E status \in Outcomes : BodyEnds(b, status)

Start(s) == StartClears(s) \/ StartPlans(s) \/ Runs(s, "boot") \/ StartApplies(s) \/ StartArms(s)
OnTimer(s) == TimerFires(s) \/ TickCollects(s) \/ Runs(s, "tick") \/ TickApplies(s) \/ TickEnds(s)
ManualRun(s) == ManualReserves(s) \/ Runs(s, "manual") \/ ManualFinishes(s)
Calls(s, j) ==
  \/ \E mode \in Modes : ManualChecks(s, j, mode)
  \/ Add(s, j)
  \/ \E enabled \in BOOLEAN : Update(s, j, enabled)
  \/ Remove(s, j)

Next ==
  \/ \E s \in Services : Start(s) \/ OnTimer(s) \/ ManualRun(s) \/ \E j \in Jobs : Calls(s, j)
  \/ Replace \/ Crash \/ ClockTicks

(* The chain of sections moves on, the timer fires, and a run that is      *)
(* waited for ends or times out, so each process goes on; nobody is bound  *)
(* to call, to restart or to let the time pass.                            *)
Fairness ==
  \A s \in Services : WF_vars(Start(s)) /\ WF_vars(OnTimer(s)) /\ WF_vars(ManualRun(s))

Spec == Init /\ [][Next]_vars /\ Fairness

-----------------------------------------------------------------------------
(* However ticks, catch-up and manual runs of one service interleave, no    *)
(* job runs twice at a time, unless one of the runs has lost its marker: to *)
(* an edit, to a later start, or to the result of a run that had lost its   *)
(* own.                                                                     *)
OneRunAtATime ==
  \A b, c \in bodies :
    /\ b.job = c.job /\ Running(b) /\ Running(c)
    /\ {IdOf(b), IdOf(c)} \subseteq holders
    => b = c

(* A slot that is due is not moved on before it was executed: not by a     *)
(* section that finds nothing to run, and not by the results of other jobs. *)
(* Excepted are the results of the job itself, the recompute of add, the    *)
(* last section of start, the deferral of its catch-up, and an edit of the  *)
(* job itself (#13992, #17852).                                             *)
SkipsSlot(j) ==
  /\ j \in DOMAIN disk \cap DOMAIN disk'
  /\ disk[j].enabled /\ disk[j].running = Undefined /\ IsPastDue(disk[j], now)
  /\ disk'[j].enabled /\ disk'[j].running = Undefined /\ disk'[j].next > now
MayAdvance(j) ==
  \E s \in Services :
    \/ StartArms(s)
    \/ StartApplies(s) /\ j \in boot[s].skip \cup {o.job : o \in boot[s].results}
    \/ TickApplies(s) /\ j \in {o.job : o \in tick[s].results}
    \/ ManualFinishes(s) /\ manual[s].job = j
    \/ \E i \in Jobs : Add(s, i)
    \/ Update(s, j, TRUE)
DueIsNotSkipped == [][\A j \in Jobs : SkipsSlot(j) => MayAdvance(j)]_vars

(* A job that is due, or marked as running, does not stay so: although      *)
(* ticks overlap long runs (#12025), services are replaced and the process  *)
(* dies with markers on disk, it is run, disabled or removed in the end.    *)
Busy(j) ==
  /\ j \in DOMAIN disk
  /\ disk[j].running # Undefined \/ (disk[j].enabled /\ IsPastDue(disk[j], now))
JobsSettle == \A j \in Jobs : Busy(j) ~> ~Busy(j)
===============================================================================
