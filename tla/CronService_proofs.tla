------------------------- MODULE CronService_proofs -------------------------
(***************************************************************************)
(* Proofs about the cron service: while a service is not replaced before   *)
(* its sections and runs are over, no job runs twice at a time, and no     *)
(* slot that is due is moved on unexecuted, for any jobs, periods, caps,   *)
(* outcomes, times, services, edits and manual runs.                       *)
(***************************************************************************)
EXTENDS CronService, TLAPS

Statuses == {"none", "ok", "skipped", "error", "permanent"}

JobRecords ==
  [kind : {"at", "every", "cron"}, enabled : BOOLEAN, next : Nat, running : Nat,
   last : Nat, status : Statuses, errors : Nat]

Stores == UNION {[D -> JobRecords] : D \in SUBSET Jobs}

Results == [job : Jobs, status : Statuses, started : Nat, ended : Nat]

Phases == {"idle", "clear", "plan", "collect", "run", "final", "end"}
Processes == [phase : Phases, results : SUBSET Results, skip : SUBSET Jobs, live : BOOLEAN]

ManualRuns ==
  [phase : {"idle", "reserve", "run", "finish"}, job : Jobs \cup {NoManual.job},
   mode : Modes, at : Nat, result : [status : Statuses, ended : Nat]]

RunIds == [svc : Services, by : {"boot", "tick", "manual"}, job : Jobs]
Bodies == [svc : Services, by : {"boot", "tick", "manual"}, job : Jobs, started : Nat]

(* Every variable the sections work on has its type. *)
TypeOK ==
  /\ now \in Nat \ {0}
  /\ disk \in Stores
  /\ mem \in [Services -> Stores]
  /\ current \in Services
  /\ armed \in [Services -> BOOLEAN]
  /\ boot \in [Services -> Processes]
  /\ tick \in [Services -> Processes]
  /\ manual \in [Services -> ManualRuns]
  /\ bodies \subseteq Bodies
  /\ holders \subseteq RunIds

-----------------------------------------------------------------------------
(* Without overlap a service that is not in charge does nothing, and one    *)
(* that starts has nothing under way before it has cleared the markers.     *)
Quiet(s) ==
  /\ tick[s].phase = "idle"
  /\ manual[s].phase = "idle"
  /\ ~armed[s]
OnlyCurrentWorks ==
  /\ \A s \in Services \ {current} : Quiet(s) /\ boot[s].phase = "idle"
  /\ boot[current].phase = "clear" => Quiet(current)

(* What a process waits for, and what it was told, belongs to its phase;    *)
(* a process has one run of a job at a time.                                *)
Awaits(s, by) ==
  /\ by = "boot" => boot[s].phase = "run"
  /\ by = "tick" => tick[s].phase = "run"
  /\ by = "manual" => manual[s].phase = "run"
RunsBelong ==
  /\ \A b \in bodies : /\ Awaits(b.svc, b.by)
                       /\ b.by = "manual" => b.job = manual[b.svc].job
  /\ \A b, c \in bodies : IdOf(b) = IdOf(c) => b = c
  /\ \A s \in Services : /\ boot[s].results # {} => boot[s].phase = "run"
                         /\ tick[s].results # {} => tick[s].phase = "run"
                         /\ manual[s].phase # "idle" =>
                              manual[s].job \in Jobs /\ manual[s].at # Undefined

(* A run that holds a marker has not ended, or its result is not applied.   *)
Reported(h) ==
  /\ h.by = "boot" => h \in BootRuns(h.svc)
  /\ h.by = "tick" => h \in TickRuns(h.svc)
  /\ h.by = "manual" => manual[h.svc].phase = "finish" /\ manual[h.svc].job = h.job
UnderWay == {IdOf(b) : b \in bodies}
HoldersAreUnderWay == \A h \in holders : h \in UnderWay \/ Reported(h)

(* The marker of such a run is in a store, except that any recompute takes  *)
(* it from a disabled job, which only a manual run can be on.               *)
MarkerStands(store, h) ==
  /\ h.job \in DOMAIN store
  /\ IF store[h.job].enabled THEN store[h.job].running # Undefined ELSE h.by = "manual"
MarkersStand ==
  \A h \in holders : MarkerStands(disk, h) /\ MarkerStands(mem[h.svc], h)

OneHolder == \A g, h \in holders : g.job = h.job => g = h

MarkerInv ==
  /\ TypeOK /\ OnlyCurrentWorks /\ RunsBelong /\ HoldersAreUnderWay
  /\ MarkersStand /\ OneHolder

-----------------------------------------------------------------------------
(* Stores. *)

LEMMA StoreIs ==
  ASSUME NEW f \in Stores
  PROVE  /\ DOMAIN f \subseteq Jobs
         /\ f = [j \in DOMAIN f |-> f[j]]
         /\ \A j \in DOMAIN f : f[j] \in JobRecords
BY DEF Stores

LEMMA JobFields ==
  ASSUME NEW r \in JobRecords
  PROVE  /\ r.kind \in {"at", "every", "cron"}
         /\ r.enabled \in BOOLEAN
         /\ r.next \in Nat /\ r.running \in Nat /\ r.last \in Nat
         /\ r.status \in Statuses
         /\ r.errors \in Nat
BY DEF JobRecords

(* The updates of a job record, one by one. *)
WithNext(r, n) == [r EXCEPT !.next = n]
WithRunning(r, n) == [r EXCEPT !.running = n]
WithEnabled(r, e) == [r EXCEPT !.enabled = e]
WithLast(r, n) == [r EXCEPT !.last = n]
WithStatus(r, x) == [r EXCEPT !.status = x]
WithErrors(r, n) == [r EXCEPT !.errors = n]

LEMMA WithNextFields ==
  ASSUME NEW r \in JobRecords, NEW n \in Nat
  PROVE  /\ WithNext(r, n) \in JobRecords
         /\ WithNext(r, n).next = n
         /\ WithNext(r, n).kind = r.kind /\ WithNext(r, n).enabled = r.enabled
         /\ WithNext(r, n).running = r.running /\ WithNext(r, n).last = r.last
         /\ WithNext(r, n).status = r.status
BY DEF WithNext, JobRecords

LEMMA WithRunningFields ==
  ASSUME NEW r \in JobRecords, NEW n \in Nat
  PROVE  /\ WithRunning(r, n) \in JobRecords
         /\ WithRunning(r, n).running = n
         /\ WithRunning(r, n).kind = r.kind /\ WithRunning(r, n).enabled = r.enabled
         /\ WithRunning(r, n).next = r.next /\ WithRunning(r, n).last = r.last
         /\ WithRunning(r, n).status = r.status
BY DEF WithRunning, JobRecords

LEMMA WithEnabledFields ==
  ASSUME NEW r \in JobRecords, NEW e \in BOOLEAN
  PROVE  /\ WithEnabled(r, e) \in JobRecords
         /\ WithEnabled(r, e).enabled = e
         /\ WithEnabled(r, e).kind = r.kind /\ WithEnabled(r, e).running = r.running
         /\ WithEnabled(r, e).next = r.next /\ WithEnabled(r, e).last = r.last
         /\ WithEnabled(r, e).status = r.status
BY DEF WithEnabled, JobRecords

LEMMA WithLastFields ==
  ASSUME NEW r \in JobRecords, NEW n \in Nat
  PROVE  /\ WithLast(r, n) \in JobRecords
         /\ WithLast(r, n).last = n
         /\ WithLast(r, n).kind = r.kind /\ WithLast(r, n).enabled = r.enabled
         /\ WithLast(r, n).running = r.running /\ WithLast(r, n).next = r.next
         /\ WithLast(r, n).status = r.status
BY DEF WithLast, JobRecords

-----------------------------------------------------------------------------
(* Schedules: a slot of a periodic job lies ahead of its last run. *)
LEMMA SlotFacts ==
  ASSUME NEW kind, NEW n \in Nat
  PROVE  /\ SlotAfter(kind, n) \in Nat \ {0}
         /\ SlotAfter(kind, n) >= n
         /\ kind = "cron" => SlotAfter(kind, n) > n
<1>1. At \in Nat \ {0}
  BY CronAssumption
<1>2. CASE kind = "cron"
  <2> DEFINE q == n \div At
  <2>1. q \in Nat
    BY <1>1
  <2>2. n = At * q + (n % At) /\ n % At \in 0 .. At - 1
    BY <1>1
  <2>3. (q + 1) * At = At * q + At /\ At * q \in Nat
    BY <1>1, <2>1
  <2>4. SlotAfter(kind, n) = (q + 1) * At
    BY <1>2 DEF SlotAfter
  <2> HIDE DEF q
  <2> QED BY <1>1, <2>1, <2>2, <2>3, <2>4
<1>3. CASE kind # "cron"
  <2> DEFINE m == n + At - 1
             q == m \div At
             k == IF q = 0 THEN 1 ELSE q
  <2>1. m \in Nat /\ q \in Nat
    BY <1>1
  <2>2. m = At * q + (m % At) /\ m % At \in 0 .. At - 1
    BY <1>1, <2>1
  <2>3. SlotAfter(kind, n) = k * At
    BY <1>3 DEF SlotAfter
  <2>4. k \in Nat \ {0} /\ k >= q
    BY <2>1
  <2>5. k * At \in Nat \ {0} /\ k * At >= At * q
    <3> HIDE DEF k, q
    <3> QED BY <1>1, <2>1, <2>4
  <2>6. At * q \in Nat
    BY <1>1, <2>1
  <2> HIDE DEF q, k
  <2> QED BY <1>1, <1>3, <2>1, <2>2, <2>3, <2>5, <2>6 DEF m
<1> QED BY <1>2, <1>3

LEMMA NextRunFacts ==
  ASSUME NEW r \in JobRecords, NEW n \in Nat
  PROVE  /\ NextRun(r, n) \in Nat
         /\ ~r.enabled => NextRun(r, n) = Undefined
         /\ r.enabled /\ r.kind = "at" => NextRun(r, n) \in {Undefined, At}
         /\ r.enabled /\ r.kind # "at" => NextRun(r, n) >= n
         /\ r.enabled /\ r.kind # "at" /\ r.last # Undefined /\ r.last <= n
              => r.last < NextRun(r, n)
<1>1. At \in Nat \ {0}
  BY CronAssumption
<1>2. CASE ~r.enabled
  <2>1. NextRun(r, n) = Undefined
    BY <1>2 DEF NextRun
  <2> QED BY <1>2, <2>1 DEF Undefined
<1>3. CASE r.enabled /\ r.kind = "at"
  <2>1. NextRun(r, n) \in {Undefined, At}
    BY <1>3 DEF NextRun
  <2> QED BY <1>1, <1>3, <2>1 DEF Undefined
<1>4. CASE r.enabled /\ r.kind # "at" /\ r.kind = "every" /\ r.last # Undefined /\ r.last + At > n
  <2>1. NextRun(r, n) = r.last + At
    BY <1>4 DEF NextRun
  <2> QED BY <1>1, <1>4, <2>1, JobFields
<1>5. CASE r.enabled /\ r.kind # "at" /\ ~(r.kind = "every" /\ r.last # Undefined /\ r.last + At > n)
  <2>1. NextRun(r, n) = SlotAfter(r.kind, n)
    BY <1>5 DEF NextRun
  <2>2. r.kind \in {"every", "cron"} /\ r.last \in Nat
    BY <1>5, JobFields
  <2>3. SlotAfter(r.kind, n) \in Nat \ {0} /\ SlotAfter(r.kind, n) >= n
        /\ (r.kind = "cron" => SlotAfter(r.kind, n) > n)
    BY SlotFacts
  <2> QED BY <1>1, <1>5, <2>1, <2>2, <2>3
<1> QED BY <1>2, <1>3, <1>4, <1>5

-----------------------------------------------------------------------------
(* What the operations on stores keep: the jobs, whether they are enabled,  *)
(* and the markers and slots of those that are.                             *)
LEMMA NormalizedFacts ==
  ASSUME NEW r \in JobRecords
  PROVE  /\ Normalized(r) \in JobRecords
         /\ Normalized(r).kind = r.kind /\ Normalized(r).enabled = r.enabled
         /\ Normalized(r).last = r.last
         /\ r.enabled => Normalized(r) = r
<1>1. CASE r.enabled
  BY <1>1 DEF Normalized
<1>2. CASE ~r.enabled
  <2>1. Normalized(r) = WithRunning(WithNext(r, Undefined), Undefined)
    BY <1>2 DEF Normalized, WithRunning, WithNext, JobRecords
  <2>2. Undefined \in Nat
    BY DEF Undefined
  <2> DEFINE n == WithNext(r, Undefined)
  <2>3. n \in JobRecords /\ n.kind = r.kind /\ n.enabled = r.enabled /\ n.last = r.last
    BY <2>2, WithNextFields
  <2> HIDE DEF n
  <2>4. /\ WithRunning(n, Undefined) \in JobRecords
        /\ WithRunning(n, Undefined).kind = n.kind
        /\ WithRunning(n, Undefined).enabled = n.enabled
        /\ WithRunning(n, Undefined).last = n.last
    BY <2>2, <2>3, WithRunningFields
  <2> QED BY <1>2, <2>1, <2>3, <2>4 DEF n
<1> QED BY <1>1, <1>2

LEMMA RecomputedFacts ==
  ASSUME NEW r \in JobRecords, NEW n \in Nat
  PROVE  /\ Recomputed(r, n) \in JobRecords
         /\ Recomputed(r, n).next = NextRun(r, n)
         /\ Recomputed(r, n).kind = r.kind /\ Recomputed(r, n).enabled = r.enabled
         /\ Recomputed(r, n).running = r.running /\ Recomputed(r, n).last = r.last
<1>1. NextRun(r, n) \in Nat
  BY NextRunFacts
<1>2. Recomputed(r, n) = WithNext(r, NextRun(r, n))
  BY DEF Recomputed, WithNext
<1> QED BY <1>1, <1>2, WithNextFields

(* g is f after an operation that keeps the jobs in J but for their slots   *)
(* and the markers of disabled ones.                                        *)
Keeps(f, g, J) ==
  \A j \in J \cap DOMAIN f :
    /\ j \in DOMAIN g
    /\ g[j].enabled = f[j].enabled
    /\ f[j].enabled /\ f[j].running # Undefined => g[j].running # Undefined

LEMMA KeepsMarker ==
  ASSUME NEW f \in Stores, NEW g \in Stores, NEW J, Keeps(f, g, J),
         NEW h, h.job \in J, MarkerStands(f, h)
  PROVE  MarkerStands(g, h)
BY DEF Keeps, MarkerStands

LEMMA KeepsTransitive ==
  ASSUME NEW f, NEW g, NEW k, NEW J, Keeps(f, g, J), Keeps(g, k, J)
  PROVE  Keeps(f, k, J)
BY DEF Keeps

(* How the maintenance passes treat one job. *)
LEMMA MaintainedJob ==
  ASSUME NEW r \in JobRecords, NEW n \in Nat \ {0}, NEW b \in BOOLEAN
  PROVE  LET x == IF b THEN Recomputed(Normalized(r), n) ELSE Normalized(r) IN
         /\ x \in JobRecords
         /\ x.kind = r.kind /\ x.enabled = r.enabled /\ x.last = r.last
         /\ r.enabled => /\ x.running = r.running
                         /\ x.next = IF b THEN NextRun(r, n) ELSE r.next
<1> DEFINE m == Normalized(r)
<1>1. /\ m \in JobRecords /\ m.kind = r.kind /\ m.enabled = r.enabled /\ m.last = r.last
      /\ r.enabled => m = r
  BY NormalizedFacts
<1> HIDE DEF m
<1>2. /\ Recomputed(m, n) \in JobRecords
      /\ Recomputed(m, n).next = NextRun(m, n)
      /\ Recomputed(m, n).kind = m.kind /\ Recomputed(m, n).enabled = m.enabled
      /\ Recomputed(m, n).running = m.running /\ Recomputed(m, n).last = m.last
  BY <1>1, RecomputedFacts
<1>3. CASE b
  BY <1>1, <1>2, <1>3 DEF m
<1>4. CASE ~b
  BY <1>1, <1>4 DEF m
<1> QED BY <1>3, <1>4

(* The slots of f that g has as well. *)
KeepsSlot(f, g, j) == f[j].enabled => g[j].next = f[j].next

Executed(r, n) == IsPastDue(r, n) /\ r.running = Undefined /\ r.last # Undefined /\ r.last >= r.next

LEMMA MaintainedFacts ==
  ASSUME NEW f \in Stores, NEW n \in Nat \ {0}, NEW e \in BOOLEAN
  PROVE  LET g == Maintained(f, n, e) IN
         /\ g \in Stores /\ DOMAIN g = DOMAIN f
         /\ \A j \in DOMAIN f :
              /\ g[j].kind = f[j].kind /\ g[j].enabled = f[j].enabled
              /\ g[j].last = f[j].last
              /\ f[j].enabled =>
                   /\ g[j].running = f[j].running
                   /\ g[j].next = IF f[j].next = Undefined \/ (e /\ Executed(f[j], n))
                                  THEN NextRun(f[j], n) ELSE f[j].next
<1> DEFINE g == Maintained(f, n, e)
           moved(j) == f[j].enabled /\ (f[j].next = Undefined \/ (e /\ Executed(f[j], n)))
           x(j) == IF moved(j) THEN Recomputed(Normalized(f[j]), n) ELSE Normalized(f[j])
<1>1. DOMAIN f \subseteq Jobs /\ \A j \in DOMAIN f : f[j] \in JobRecords
  BY StoreIs
<1>2. \A j \in DOMAIN f :
        /\ f[j].enabled \in BOOLEAN
        /\ Normalized(f[j]).enabled = f[j].enabled
        /\ f[j].enabled => Normalized(f[j]) = f[j]
  BY <1>1, NormalizedFacts, JobFields
<1>3. DOMAIN g = DOMAIN f
  BY DEF Maintained
<1>4. ASSUME NEW j \in DOMAIN f
      PROVE  g[j] = x(j)
  <2>1. CASE f[j].enabled
    BY <1>2, <2>1 DEF Maintained, Executed
  <2>2. CASE ~f[j].enabled
    BY <1>2, <2>2 DEF Maintained
  <2> QED BY <1>2, <2>1, <2>2
<1>5. ASSUME NEW j \in DOMAIN f
      PROVE  /\ x(j) \in JobRecords
             /\ x(j).kind = f[j].kind /\ x(j).enabled = f[j].enabled
             /\ x(j).last = f[j].last
             /\ f[j].enabled =>
                  /\ x(j).running = f[j].running
                  /\ x(j).next = IF moved(j) THEN NextRun(f[j], n) ELSE f[j].next
  <2>1. moved(j) \in BOOLEAN /\ f[j] \in JobRecords
    BY <1>1
  <2> HIDE DEF moved
  <2> QED BY <2>1, MaintainedJob
<1>6. g \in Stores
  BY <1>1, <1>3, <1>4, <1>5 DEF Stores, Maintained
<1> HIDE DEF x, g
<1> QED BY <1>3, <1>4, <1>5, <1>6 DEF g

LEMMA RecomputeNextRunsFacts ==
  ASSUME NEW f \in Stores, NEW n \in Nat \ {0}
  PROVE  LET g == RecomputeNextRuns(f, n) IN
         /\ g \in Stores /\ DOMAIN g = DOMAIN f
         /\ \A j \in DOMAIN f :
              /\ g[j].kind = f[j].kind /\ g[j].enabled = f[j].enabled
              /\ g[j].last = f[j].last
              /\ f[j].enabled =>
                   /\ g[j].running = f[j].running
                   /\ g[j].next \in {f[j].next, NextRun(f[j], n)}
<1> DEFINE g == RecomputeNextRuns(f, n)
           moved(j) == f[j].enabled /\ (f[j].next = Undefined \/ IsPastDue(f[j], n))
           x(j) == IF moved(j) THEN Recomputed(Normalized(f[j]), n) ELSE Normalized(f[j])
<1>1. DOMAIN f \subseteq Jobs /\ \A j \in DOMAIN f : f[j] \in JobRecords
  BY StoreIs
<1>2. \A j \in DOMAIN f :
        /\ f[j].enabled \in BOOLEAN
        /\ Normalized(f[j]).enabled = f[j].enabled
        /\ f[j].enabled => Normalized(f[j]) = f[j]
  BY <1>1, NormalizedFacts, JobFields
<1>3. DOMAIN g = DOMAIN f
  BY DEF RecomputeNextRuns
<1>4. ASSUME NEW j \in DOMAIN f
      PROVE  g[j] = x(j)
  <2>1. CASE f[j].enabled
    BY <1>2, <2>1 DEF RecomputeNextRuns
  <2>2. CASE ~f[j].enabled
    BY <1>2, <2>2 DEF RecomputeNextRuns
  <2> QED BY <1>2, <2>1, <2>2
<1>5. ASSUME NEW j \in DOMAIN f
      PROVE  /\ x(j) \in JobRecords
             /\ x(j).kind = f[j].kind /\ x(j).enabled = f[j].enabled
             /\ x(j).last = f[j].last
             /\ f[j].enabled =>
                  /\ x(j).running = f[j].running
                  /\ x(j).next \in {f[j].next, NextRun(f[j], n)}
  <2>1. moved(j) \in BOOLEAN /\ f[j] \in JobRecords
    BY <1>1
  <2> HIDE DEF moved
  <2> QED BY <2>1, MaintainedJob
<1>6. g \in Stores
  BY <1>1, <1>3, <1>4, <1>5 DEF Stores, RecomputeNextRuns
<1> HIDE DEF x, g
<1> QED BY <1>3, <1>4, <1>5, <1>6 DEF g

LEMMA MarkedFacts ==
  ASSUME NEW f \in Stores, NEW D, NEW n \in Nat
  PROVE  LET g == Marked(f, D, n) IN
         /\ g \in Stores /\ DOMAIN g = DOMAIN f
         /\ \A j \in DOMAIN f :
              /\ g[j].kind = f[j].kind /\ g[j].enabled = f[j].enabled
              /\ g[j].last = f[j].last /\ g[j].next = f[j].next
              /\ g[j].running = IF j \in D THEN n ELSE f[j].running
<1> DEFINE g == Marked(f, D, n)
           x(j) == IF j \in D THEN WithRunning(f[j], n) ELSE f[j]
<1>1. DOMAIN f \subseteq Jobs /\ \A j \in DOMAIN f : f[j] \in JobRecords
  BY StoreIs
<1>2. g = [j \in DOMAIN f |-> x(j)]
  BY DEF Marked, WithRunning
<1>3. ASSUME NEW j \in DOMAIN f
      PROVE  /\ x(j) \in JobRecords
             /\ x(j).kind = f[j].kind /\ x(j).enabled = f[j].enabled
             /\ x(j).last = f[j].last /\ x(j).next = f[j].next
             /\ x(j).running = IF j \in D THEN n ELSE f[j].running
  BY <1>1, WithRunningFields
<1> HIDE DEF x, g
<1> QED BY <1>1, <1>2, <1>3 DEF g, Stores

LEMMA DeferredFacts ==
  ASSUME NEW f \in Stores, NEW D, NEW n \in Nat
  PROVE  LET g == Deferred(f, D, n) IN
         /\ g \in Stores /\ DOMAIN g = DOMAIN f
         /\ \A j \in DOMAIN f :
              /\ g[j].kind = f[j].kind /\ g[j].enabled = f[j].enabled
              /\ g[j].last = f[j].last /\ g[j].running = f[j].running
              /\ g[j].next = IF j \in D /\ f[j].enabled THEN n + 1 ELSE f[j].next
<1> DEFINE g == Deferred(f, D, n)
           x(j) == IF j \in D /\ f[j].enabled THEN WithNext(f[j], n + 1) ELSE f[j]
<1>1. DOMAIN f \subseteq Jobs /\ \A j \in DOMAIN f : f[j] \in JobRecords
  BY StoreIs
<1>2. g = [j \in DOMAIN f |-> x(j)]
  BY DEF Deferred, WithNext
<1>3. ASSUME NEW j \in DOMAIN f
      PROVE  /\ x(j) \in JobRecords
             /\ x(j).kind = f[j].kind /\ x(j).enabled = f[j].enabled
             /\ x(j).last = f[j].last /\ x(j).running = f[j].running
             /\ x(j).next = IF j \in D /\ f[j].enabled THEN n + 1 ELSE f[j].next
  BY <1>1, WithNextFields
<1> HIDE DEF x, g
<1> QED BY <1>1, <1>2, <1>3 DEF g, Stores

LEMMA NewJobFacts ==
  ASSUME NEW j \in Jobs, NEW n \in Nat
  PROVE  /\ NewJob(j, n) \in JobRecords
         /\ NewJob(j, n).enabled
         /\ NewJob(j, n).last = Undefined /\ NewJob(j, n).running = Undefined
<1> DEFINE r == [kind |-> KindOf(j), enabled |-> TRUE, next |-> Undefined,
                 running |-> Undefined, last |-> Undefined, status |-> "none", errors |-> 0]
<1>1. KindOf(j) \in {"at", "every", "cron"}
  BY DEF KindOf, Jobs
<1>2. r \in JobRecords /\ r.enabled /\ r.last = Undefined /\ r.running = Undefined
  BY <1>1 DEF JobRecords, Statuses, Undefined
<1>3. NewJob(j, n) = Recomputed(r, n)
  BY DEF NewJob
<1> HIDE DEF r
<1> QED BY <1>2, <1>3, RecomputedFacts

(* A result clears the marker, and the next slot lies after the run, but    *)
(* for a forced run that keeps the anchor of a periodic job, whose slot may *)
(* be the instant it ended in.                                              *)
LEMMA ApplyJobResultFacts ==
  ASSUME NEW r \in JobRecords, NEW o \in Results, NEW p \in BOOLEAN
  PROVE  LET x == ApplyJobResult(r, o, p) IN
         /\ x \in JobRecords
         /\ x.kind = r.kind /\ x.running = Undefined /\ x.last = o.started
         /\ (o.started <= o.ended /\ o.started # Undefined /\ x.enabled) =>
              \/ o.started < x.next
              \/ p /\ x.kind # "at" /\ x.next = o.ended /\ o.started = o.ended
<1> DEFINE failed == o.status \in {"error", "permanent"}
           errors == IF failed THEN r.errors + 1 ELSE 0
           retried == o.status = "error" /\ errors <= MaxAttempts
           status == IF failed THEN "error" ELSE o.status
           count == IF errors > MaxAttempts THEN MaxAttempts + 1 ELSE errors
           done == [r EXCEPT !.running = Undefined, !.last = o.started,
                             !.status = status, !.errors = count]
           kept == IF p /\ r.kind = "every" THEN [done EXCEPT !.last = r.last] ELSE done
           natural == NextRun(kept, o.ended)
<1>1. status \in Statuses /\ o.started \in Nat /\ o.ended \in Nat
  BY DEF Results, Statuses
<1>2. /\ r.kind \in {"at", "every", "cron"} /\ r.last \in Nat /\ r.errors \in Nat
      /\ r.enabled \in BOOLEAN
  BY JobFields
<1>3. MaxAttempts \in Nat /\ Backoff \in Nat \ {0} /\ Undefined \in Nat /\ count \in Nat
  BY <1>2, CronAssumption DEF Undefined
<1>4. /\ done \in JobRecords
      /\ done.kind = r.kind /\ done.enabled = r.enabled /\ done.last = o.started
      /\ done.running = Undefined
  <2> HIDE DEF count, status
  <2> QED BY <1>1, <1>3 DEF JobRecords
<1> HIDE DEF done
<1>5. /\ kept \in JobRecords /\ kept.kind = r.kind /\ kept.enabled = r.enabled
      /\ ~p => kept.last = o.started
      /\ r.kind # "every" => kept.last = o.started
  <2>1. CASE p /\ r.kind = "every"
    <3>1. kept = WithLast(done, r.last)
      BY <2>1 DEF WithLast
    <3> QED BY <1>2, <1>4, <2>1, <3>1, WithLastFields
  <2>2. CASE ~(p /\ r.kind = "every")
    BY <1>4, <2>2
  <2> QED BY <2>1, <2>2
<1> HIDE DEF kept
<1>6. /\ natural \in Nat
      /\ r.enabled /\ r.kind # "at" => natural >= o.ended
      /\ r.enabled /\ r.kind # "at" /\ ~p /\ o.started # Undefined /\ o.started <= o.ended
           => o.started < natural
  BY <1>1, <1>5, NextRunFacts
<1> HIDE DEF natural
<1>7. CASE r.kind = "at" /\ retried
  <2>1. ApplyJobResult(r, o, p) = WithNext(done, o.ended + Backoff)
    BY <1>7 DEF ApplyJobResult, WithNext, done
  <2>2. o.ended + Backoff \in Nat
    BY <1>1, <1>3
  <2>3. /\ WithNext(done, o.ended + Backoff) \in JobRecords
        /\ WithNext(done, o.ended + Backoff).next = o.ended + Backoff
        /\ WithNext(done, o.ended + Backoff).kind = done.kind
        /\ WithNext(done, o.ended + Backoff).running = done.running
        /\ WithNext(done, o.ended + Backoff).last = done.last
    BY <1>4, <2>2, WithNextFields
  <2>4. o.started <= o.ended => o.started < o.ended + Backoff
    BY <1>1, <1>3
  <2> QED BY <1>4, <2>1, <2>3, <2>4
<1>8. CASE r.kind = "at" /\ ~retried
  <2> DEFINE off == WithEnabled(done, FALSE)
  <2>1. ApplyJobResult(r, o, p) = WithNext(off, Undefined)
    BY <1>4, <1>8 DEF ApplyJobResult, WithNext, WithEnabled, done, JobRecords
  <2>2. /\ off \in JobRecords /\ off.enabled = FALSE /\ off.kind = done.kind
        /\ off.running = done.running /\ off.last = done.last
    BY <1>4, WithEnabledFields
  <2> HIDE DEF off
  <2>3. /\ WithNext(off, Undefined) \in JobRecords
        /\ WithNext(off, Undefined).enabled = off.enabled
        /\ WithNext(off, Undefined).kind = off.kind
        /\ WithNext(off, Undefined).running = off.running
        /\ WithNext(off, Undefined).last = off.last
    BY <1>3, <2>2, WithNextFields
  <2> QED BY <1>4, <2>1, <2>2, <2>3
<1>9. CASE r.kind # "at"
  <2> DEFINE n == IF failed /\ r.enabled THEN Latest(natural, o.ended + Backoff) ELSE natural
  <2>1. ApplyJobResult(r, o, p) = WithNext(done, n)
    BY <1>9 DEF ApplyJobResult, WithNext, done, kept, natural
  <2>2. n \in Nat /\ n >= natural
    BY <1>1, <1>3, <1>6 DEF Latest
  <2>3. /\ WithNext(done, n) \in JobRecords
        /\ WithNext(done, n).next = n
        /\ WithNext(done, n).enabled = done.enabled
        /\ WithNext(done, n).kind = done.kind
        /\ WithNext(done, n).running = done.running
        /\ WithNext(done, n).last = done.last
    <3> HIDE DEF n
    <3> QED BY <1>4, <2>2, WithNextFields
  <2>4. (o.started <= o.ended /\ o.started # Undefined /\ r.enabled) =>
          \/ o.started < n
          \/ p /\ n = o.ended /\ o.started = o.ended
    <3> HIDE DEF n
    <3> QED BY <1>1, <1>6, <1>9, <2>2
  <2> HIDE DEF n
  <2> QED BY <1>4, <1>9, <2>1, <2>3, <2>4
<1> QED BY <1>7, <1>8, <1>9

LEMMA ApplyOutcomesFacts ==
  ASSUME NEW f \in Stores, NEW R \in SUBSET Results
  PROVE  LET g == ApplyOutcomes(f, R) IN
         /\ g \in Stores /\ DOMAIN g \subseteq DOMAIN f
         /\ \A j \in DOMAIN f : j \notin {o.job : o \in R} => j \in DOMAIN g /\ g[j] = f[j]
         /\ \A j \in DOMAIN g : j \in {o.job : o \in R} =>
              \E o \in R : g[j] = ApplyJobResult(f[j], o, FALSE)
<1> DEFINE g == ApplyOutcomes(f, R)
           of(j) == {o \in R : o.job = j}
           D == {i \in DOMAIN f : ~\E o \in of(i) : IsSpent(f[i], o)}
           pick(j) == CHOOSE o \in of(j) : TRUE
           x(j) == IF of(j) = {} THEN f[j] ELSE ApplyJobResult(f[j], pick(j), FALSE)
<1>1. DOMAIN f \subseteq Jobs /\ \A j \in DOMAIN f : f[j] \in JobRecords
  BY StoreIs
<1>2. g = [j \in D |-> x(j)]
  BY DEF ApplyOutcomes
<1>3. ASSUME NEW j \in DOMAIN f, of(j) # {}
      PROVE  pick(j) \in R
  BY <1>3
<1>4. ASSUME NEW j \in DOMAIN f
      PROVE  x(j) \in JobRecords
  <2>1. CASE of(j) = {}
    BY <1>1, <2>1
  <2>2. CASE of(j) # {}
    <3>1. pick(j) \in Results
      BY <1>3, <2>2
    <3> HIDE DEF pick
    <3>2. ApplyJobResult(f[j], pick(j), FALSE) \in JobRecords
      BY <1>1, <3>1, ApplyJobResultFacts
    <3> QED BY <2>2, <3>2
  <2> QED BY <2>1, <2>2
<1>5. g \in Stores
  <2>1. D \subseteq DOMAIN f
    OBVIOUS
  <2> HIDE DEF x, g, D
  <2>2. g \in [D -> JobRecords]
    BY <1>2, <1>4, <2>1
  <2> QED BY <1>1, <2>1, <2>2 DEF Stores
<1>6. ASSUME NEW j \in DOMAIN f, j \notin {o.job : o \in R}
      PROVE  j \in DOMAIN g /\ g[j] = f[j]
  <2>1. of(j) = {}
    BY <1>6
  <2> HIDE DEF g, pick
  <2> QED BY <1>2, <2>1
<1>7. ASSUME NEW j \in DOMAIN g, j \in {o.job : o \in R}
      PROVE  \E o \in R : g[j] = ApplyJobResult(f[j], o, FALSE)
  <2>1. of(j) # {} /\ j \in DOMAIN f
    BY <1>2, <1>7
  <2>2. pick(j) \in R
    BY <1>3, <2>1
  <2>3. g[j] = ApplyJobResult(f[j], pick(j), FALSE)
    <3> HIDE DEF g, pick
    <3> QED BY <1>2, <1>7, <2>1
  <2> HIDE DEF pick, g
  <2> QED BY <2>2, <2>3
<1> HIDE DEF g
<1> QED BY <1>2, <1>5, <1>6, <1>7 DEF g

-----------------------------------------------------------------------------
(* Processes. *)
(* The updates of a process, one by one. *)
AtPhase(p, x) == [p EXCEPT !.phase = x]
Planned(p, x, S) == [p EXCEPT !.phase = x, !.skip = S]
Collected(x) == [Idle EXCEPT !.phase = x, !.live = TRUE]
Reloaded(p) == [p EXCEPT !.live = FALSE]
Told(p, R) == [p EXCEPT !.results = R]
Checked(j, m, n) == [NoManual EXCEPT !.phase = "reserve", !.job = j, !.mode = m, !.at = n]
Launched(p) == [p EXCEPT !.phase = "run"]
Ended(p, x, n) == [p EXCEPT !.phase = "finish", !.result = [status |-> x, ended |-> n]]

LEMMA ProcessFields ==
  ASSUME NEW p \in Processes
  PROVE  /\ p.phase \in Phases /\ p.results \in SUBSET Results /\ p.skip \in SUBSET Jobs
         /\ p.live \in BOOLEAN
BY DEF Processes

LEMMA IdleFacts == Idle \in Processes /\ Idle.phase = "idle" /\ Idle.results = {}
BY DEF Idle, Processes, Phases

LEMMA AtPhaseFacts ==
  ASSUME NEW p \in Processes, NEW x \in Phases
  PROVE  /\ AtPhase(p, x) \in Processes
         /\ AtPhase(p, x).phase = x /\ AtPhase(p, x).results = p.results
BY DEF AtPhase, Processes

LEMMA PlannedFacts ==
  ASSUME NEW p \in Processes, NEW x \in Phases, NEW S \in SUBSET Jobs
  PROVE  /\ Planned(p, x, S) \in Processes
         /\ Planned(p, x, S).phase = x /\ Planned(p, x, S).results = p.results
BY DEF Planned, Processes

LEMMA CollectedFacts ==
  ASSUME NEW x \in Phases
  PROVE  /\ Collected(x) \in Processes
         /\ Collected(x).phase = x /\ Collected(x).results = {}
BY DEF Collected, Idle, Processes

LEMMA ReloadedFacts ==
  ASSUME NEW p \in Processes
  PROVE  /\ Reloaded(p) \in Processes
         /\ Reloaded(p).phase = p.phase /\ Reloaded(p).results = p.results
BY DEF Reloaded, Processes

LEMMA ToldFacts ==
  ASSUME NEW p \in Processes, NEW R \in SUBSET Results
  PROVE  /\ Told(p, R) \in Processes
         /\ Told(p, R).phase = p.phase /\ Told(p, R).results = R
BY DEF Told, Processes

LEMMA NoManualFacts == NoManual \in ManualRuns /\ NoManual.phase = "idle"
BY DEF NoManual, ManualRuns, Modes, Statuses

LEMMA CheckedFacts ==
  ASSUME NEW j \in Jobs, NEW m \in Modes, NEW n \in Nat
  PROVE  /\ Checked(j, m, n) \in ManualRuns
         /\ Checked(j, m, n).phase = "reserve"
         /\ Checked(j, m, n).job = j /\ Checked(j, m, n).at = n
BY DEF Checked, NoManual, ManualRuns, Statuses

LEMMA LaunchedFacts ==
  ASSUME NEW p \in ManualRuns
  PROVE  /\ Launched(p) \in ManualRuns
         /\ Launched(p).phase = "run" /\ Launched(p).job = p.job /\ Launched(p).at = p.at
BY DEF Launched, ManualRuns

LEMMA EndedFacts ==
  ASSUME NEW p \in ManualRuns, NEW n \in Nat, NEW x \in Statuses
  PROVE  /\ Ended(p, x, n) \in ManualRuns
         /\ Ended(p, x, n).phase = "finish" /\ Ended(p, x, n).job = p.job
         /\ Ended(p, x, n).at = p.at /\ Ended(p, x, n).result.ended = n
BY DEF Ended, ManualRuns

LEMMA RunIdFields ==
  ASSUME NEW s, NEW by, NEW j
  PROVE  /\ RunId(s, by, j).svc = s /\ RunId(s, by, j).by = by /\ RunId(s, by, j).job = j
         /\ s \in Services /\ by \in {"boot", "tick", "manual"} /\ j \in Jobs
              => RunId(s, by, j) \in RunIds
BY DEF RunId, RunIds

LEMMA RunIdIs ==
  ASSUME NEW h \in RunIds
  PROVE  /\ h = RunId(h.svc, h.by, h.job)
         /\ h.svc \in Services /\ h.by \in {"boot", "tick", "manual"} /\ h.job \in Jobs
BY DEF RunId, RunIds

LEMMA IdOfFields ==
  ASSUME NEW b \in Bodies
  PROVE  /\ IdOf(b) \in RunIds
         /\ IdOf(b).svc = b.svc /\ IdOf(b).by = b.by /\ IdOf(b).job = b.job
         /\ b.svc \in Services /\ b.by \in {"boot", "tick", "manual"} /\ b.job \in Jobs
         /\ b.started \in Nat
BY DEF IdOf, RunId, RunIds, Bodies

-----------------------------------------------------------------------------
(* What is under way belongs to the service in charge. *)
LEMMA CurrentOnly ==
  ASSUME MarkerInv
  PROVE  /\ \A s \in Services :
              boot[s].phase # "idle" \/ tick[s].phase # "idle" \/ manual[s].phase # "idle"
              \/ armed[s] => s = current
         /\ \A b \in bodies : b.svc = current
         /\ \A h \in holders : h.svc = current
         /\ boot[current].phase = "clear" => bodies = {} /\ holders = {}
<1>1. TypeOK /\ OnlyCurrentWorks /\ RunsBelong /\ HoldersAreUnderWay
  BY DEF MarkerInv
<1>2. \A s \in Services :
        boot[s].phase # "idle" \/ tick[s].phase # "idle" \/ manual[s].phase # "idle"
        \/ armed[s] => s = current
  BY <1>1 DEF OnlyCurrentWorks, Quiet
<1>3. ASSUME NEW b \in bodies
      PROVE  b.svc = current /\ boot[current].phase # "clear"
  <2>1. b.svc \in Services /\ b.by \in {"boot", "tick", "manual"} /\ Awaits(b.svc, b.by)
    BY <1>1, IdOfFields DEF TypeOK, RunsBelong
  <2>2. \/ b.by = "boot" /\ boot[b.svc].phase = "run"
        \/ tick[b.svc].phase = "run"
        \/ manual[b.svc].phase = "run"
    BY <2>1 DEF Awaits
  <2> QED BY <1>1, <1>2, <2>1, <2>2 DEF OnlyCurrentWorks, Quiet
<1>4. ASSUME NEW h \in holders
      PROVE  h.svc = current /\ boot[current].phase # "clear"
  <2>1. h \in RunIds /\ h.svc \in Services /\ h.by \in {"boot", "tick", "manual"}
    BY <1>1, RunIdIs DEF TypeOK
  <2>2. CASE h \in UnderWay
    <3>1. PICK b \in bodies : h = IdOf(b)
      BY <2>2 DEF UnderWay
    <3>2. h.svc = b.svc
      BY <1>1, <3>1, IdOfFields DEF TypeOK
    <3> QED BY <1>3, <3>2
  <2>3. CASE Reported(h)
    <3>1. \/ boot[h.svc].results # {}
          \/ tick[h.svc].results # {}
          \/ manual[h.svc].phase = "finish"
      BY <2>1, <2>3 DEF Reported, BootRuns, TickRuns
    <3>2. \/ boot[h.svc].phase = "run"
          \/ tick[h.svc].phase = "run"
          \/ manual[h.svc].phase = "finish"
      BY <1>1, <2>1, <3>1 DEF RunsBelong
    <3> QED BY <1>1, <1>2, <2>1, <3>2 DEF OnlyCurrentWorks, Quiet
  <2> QED BY <1>1, <2>2, <2>3 DEF HoldersAreUnderWay
<1> QED BY <1>2, <1>3, <1>4

LEMMA InitMarkerInv == Init => MarkerInv
<1> SUFFICES ASSUME Init
             PROVE  MarkerInv
  OBVIOUS
<1>1. MaxServices \in Nat \ {0} /\ 1 \in Services
  BY CronAssumption DEF Services
<1>2. disk \in Stores
  <2>1. \A j \in Jobs : NewJob(j, 1) \in JobRecords
    BY NewJobFacts
  <2>2. disk \in [Jobs -> JobRecords]
    BY <2>1 DEF Init
  <2> QED BY <2>2 DEF Stores
<1>3. /\ Idle \in Processes /\ Idle.phase = "idle" /\ Idle.results = {}
      /\ [Idle EXCEPT !.phase = "clear"] \in Processes
      /\ [Idle EXCEPT !.phase = "clear"].phase = "clear"
      /\ [Idle EXCEPT !.phase = "clear"].results = {}
  BY IdleFacts, AtPhaseFacts DEF AtPhase, Phases
<1>4. NoManual \in ManualRuns /\ NoManual.phase = "idle"
  BY NoManualFacts

<1>5. TypeOK
  <2>1. mem \in [Services -> Stores] /\ armed \in [Services -> BOOLEAN]
    BY <1>2 DEF Init
  <2>2. boot \in [Services -> Processes] /\ tick \in [Services -> Processes]
    BY <1>3 DEF Init
  <2>3. manual \in [Services -> ManualRuns]
    BY <1>4 DEF Init
  <2> QED BY <1>1, <1>2, <2>1, <2>2, <2>3 DEF Init, TypeOK
<1>6. OnlyCurrentWorks
  BY <1>1, <1>3, <1>4 DEF Init, OnlyCurrentWorks, Quiet
<1>7. RunsBelong
  BY <1>1, <1>3, <1>4 DEF Init, RunsBelong
<1>8. HoldersAreUnderWay /\ MarkersStand /\ OneHolder
  BY DEF Init, HoldersAreUnderWay, MarkersStand, OneHolder
<1> QED BY <1>5, <1>6, <1>7, <1>8 DEF MarkerInv

-----------------------------------------------------------------------------
(* The marker invariant, action by action. *)
LEMMA Persisted ==
  ASSUME TypeOK, NEW s \in Services, NEW g \in Stores, Persist(s, g)
  PROVE  /\ disk' = g /\ mem'[s] = g /\ \A x \in Services : x # s => mem'[x] = mem[x]
         /\ disk' \in Stores /\ mem' \in [Services -> Stores]
BY DEF TypeOK, Persist

LEMMA MarkersMove ==
  ASSUME TypeOK, NEW s \in Services, NEW g \in Stores, Persist(s, g),
         \A h \in holders' : h.svc = s /\ MarkerStands(g, h)
  PROVE  MarkersStand'
<1>1. disk' = g /\ mem'[s] = g
  BY Persisted
<1>2. ASSUME NEW h \in holders'
      PROVE  MarkerStands(disk', h) /\ MarkerStands(mem'[h.svc], h)
  BY <1>1
<1> QED BY <1>2 DEF MarkersStand

(* What UnderWay and Reported make of processes and bodies that stay. *)
LEMMA ReportedStays ==
  ASSUME NEW h, Reported(h),
         h.by = "boot" => boot'[h.svc].results = boot[h.svc].results,
         h.by = "tick" => tick'[h.svc].results = tick[h.svc].results,
         h.by = "manual" => /\ manual'[h.svc].phase = manual[h.svc].phase
                            /\ manual'[h.svc].job = manual[h.svc].job
  PROVE  Reported(h)'
BY DEF Reported, BootRuns, TickRuns

LEMMA StartClearsStep ==
  ASSUME MarkerInv, NEW s \in Services, StartClears(s)
  PROVE  MarkerInv'
<1> DEFINE marked == {j \in DOMAIN disk : disk[j].running # Undefined}
           p == Planned(boot[s], "plan", marked)
<1>1. TypeOK /\ OnlyCurrentWorks /\ RunsBelong
  BY DEF MarkerInv
<1>2. s = current /\ bodies = {} /\ holders = {}
  BY CurrentOnly DEF StartClears
<1>3. disk \in Stores /\ marked \subseteq Jobs /\ Undefined \in Nat
  BY <1>1, StoreIs DEF TypeOK, Undefined
<1>4. Marked(disk, marked, Undefined) \in Stores
  BY <1>3, MarkedFacts
<1>5. Persist(s, Marked(disk, marked, Undefined))
  BY DEF StartClears
<1>6. disk' \in Stores /\ mem' \in [Services -> Stores]
  BY <1>1, <1>4, <1>5, Persisted
<1>7. /\ p \in Processes /\ p.phase = "plan" /\ p.results = boot[s].results
  <2>1. boot[s] \in Processes /\ "plan" \in Phases
    BY <1>1 DEF TypeOK, Phases
  <2> HIDE DEF marked
  <2> QED BY <1>3, <2>1, PlannedFacts
<1>8. boot' = [boot EXCEPT ![s] = p]
  BY DEF StartClears, Planned
<1> HIDE DEF p, marked
<1>9. boot' \in [Services -> Processes] /\ boot'[s] = p
      /\ \A x \in Services : x # s => boot'[x] = boot[x]
  BY <1>1, <1>7, <1>8 DEF TypeOK
<1>10. holders' = {} /\ bodies' = {}
  BY <1>2 DEF StartClears, Unmarked
<1>11. UNCHANGED <<now, current, armed, tick, manual>>
  BY DEF StartClears
<1>12. TypeOK'
  BY <1>1, <1>6, <1>9, <1>10, <1>11 DEF TypeOK
<1>13. OnlyCurrentWorks'
  BY <1>1, <1>2, <1>7, <1>9, <1>11 DEF OnlyCurrentWorks, Quiet
<1>14. RunsBelong'
  <2>1. boot[s].results = {}
    BY <1>1 DEF RunsBelong, StartClears
  <2> QED BY <1>1, <1>7, <1>9, <1>10, <1>11, <2>1 DEF RunsBelong
<1>15. HoldersAreUnderWay' /\ MarkersStand' /\ OneHolder'
  BY <1>10 DEF HoldersAreUnderWay, MarkersStand, OneHolder
<1> QED BY <1>12, <1>13, <1>14, <1>15 DEF MarkerInv

(* A reservation: the jobs have no run that holds their marker, and the     *)
(* process has none of theirs; afterwards their markers are set.            *)
LEMMA ReserveTypes ==
  ASSUME TypeOK, NEW s \in Services, NEW by \in {"boot", "tick", "manual"},
         NEW J \in SUBSET Jobs, NEW n \in Nat, Reserve(s, by, J, n)
  PROVE  bodies' \subseteq Bodies /\ holders' \subseteq RunIds
<1>1. ASSUME NEW j \in J
      PROVE  /\ [svc |-> s, by |-> by, job |-> j, started |-> n] \in Bodies
             /\ RunId(s, by, j) \in RunIds
  BY DEF Bodies, RunIds, RunId
<1> QED BY <1>1 DEF Reserve, TypeOK

LEMMA ReserveRuns ==
  ASSUME TypeOK, RunsBelong, HoldersAreUnderWay, OneHolder,
         NEW s \in Services, NEW by \in {"boot", "tick", "manual"},
         NEW J \in SUBSET Jobs, NEW n \in Nat, Reserve(s, by, J, n),
         \A b \in bodies : b.svc = s /\ b.by # by,
         \A h \in holders : h.svc = s /\ h.job \notin J /\ (Reported(h) => Reported(h)')
  PROVE  /\ \A b \in bodies' : b \in bodies \/ (b.svc = s /\ b.by = by /\ b.job \in J /\ b.started = n)
         /\ \A b, c \in bodies' : IdOf(b) = IdOf(c) => b = c
         /\ \A h \in holders' : h \in holders \/ (h.svc = s /\ h.by = by /\ h.job \in J)
         /\ HoldersAreUnderWay'
         /\ OneHolder'
<1> DEFINE B(j) == [svc |-> s, by |-> by, job |-> j, started |-> n]
<1>1. /\ bodies' = bodies \cup {B(j) : j \in J}
      /\ holders' = holders \cup {RunId(s, by, j) : j \in J}
  BY DEF Reserve
<1>2. ASSUME NEW j \in J
      PROVE  /\ B(j).svc = s /\ B(j).by = by /\ B(j).job = j /\ B(j).started = n
             /\ B(j) \in Bodies /\ IdOf(B(j)) = RunId(s, by, j)
  BY DEF Bodies, IdOf
<1>3. ASSUME NEW b \in bodies'
      PROVE  b \in bodies \/ \E j \in J : b = B(j)
  BY <1>1
<1>4. ASSUME NEW h \in holders'
      PROVE  h \in holders \/ \E j \in J : h = RunId(s, by, j)
  BY <1>1
<1>5. \A b \in bodies : b \in Bodies /\ IdOf(b).by = b.by
  BY IdOfFields DEF TypeOK
<1> HIDE DEF B
<1>6. ASSUME NEW b \in bodies', NEW c \in bodies', IdOf(b) = IdOf(c)
      PROVE  b = c
  <2>1. CASE b \in bodies /\ c \in bodies
    BY <1>6, <2>1 DEF RunsBelong
  <2>2. ASSUME NEW j \in J, b = B(j), c \in bodies
        PROVE  FALSE
    BY <1>2, <1>5, <1>6, <2>2, RunIdFields
  <2>3. ASSUME NEW j \in J, c = B(j), b \in bodies
        PROVE  FALSE
    BY <1>2, <1>5, <1>6, <2>3, RunIdFields
  <2>4. ASSUME NEW i \in J, NEW j \in J, b = B(i), c = B(j)
        PROVE  b = c
    <3>1. RunId(s, by, i) = RunId(s, by, j)
      BY <1>2, <1>6, <2>4
    <3>2. i = j
      BY <3>1, RunIdFields
    <3> QED BY <2>4, <3>2
  <2> QED BY <1>3, <2>1, <2>2, <2>3, <2>4
<1>7. HoldersAreUnderWay'
  <2> SUFFICES ASSUME NEW h \in holders'
               PROVE  h \in UnderWay' \/ Reported(h)'
    BY DEF HoldersAreUnderWay
  <2>1. CASE h \in holders
    <3>1. h \in UnderWay => h \in UnderWay'
      BY <1>1 DEF UnderWay
    <3> QED BY <2>1, <3>1 DEF HoldersAreUnderWay
  <2>2. ASSUME NEW j \in J, h = RunId(s, by, j)
        PROVE  h \in UnderWay'
    <3>1. B(j) \in bodies'
      BY <1>1
    <3> QED BY <1>2, <2>2, <3>1 DEF UnderWay
  <2> QED BY <1>4, <2>1, <2>2
<1>8. OneHolder'
  <2> SUFFICES ASSUME NEW g \in holders', NEW h \in holders', g.job = h.job
               PROVE  g = h
    BY DEF OneHolder
  <2>1. ASSUME NEW j \in J
        PROVE  RunId(s, by, j).job = j
    BY RunIdFields
  <2> QED BY <1>4, <2>1 DEF OneHolder
<1> QED BY <1>2, <1>3, <1>4, <1>6, <1>7, <1>8, RunIdFields

LEMMA HoldersShrink ==
  ASSUME TypeOK, HoldersAreUnderWay, OneHolder, holders' \subseteq holders, bodies' = bodies,
         \A h \in holders' : Reported(h) => Reported(h)'
  PROVE  holders' \subseteq RunIds /\ HoldersAreUnderWay' /\ OneHolder'
<1>1. UnderWay' = UnderWay
  BY DEF UnderWay
<1> QED BY <1>1 DEF TypeOK, HoldersAreUnderWay, OneHolder

LEMMA StartedBodies ==
  ASSUME TypeOK, RunsBelong, NEW b \in bodies, bodies' = Started(b, now)
  PROVE  /\ bodies' \subseteq Bodies /\ UnderWay' = UnderWay
         /\ \A x \in bodies' : \/ x \in bodies
                               \/ /\ x.svc = b.svc /\ x.by = b.by /\ x.job = b.job
                                  /\ x.started = now
         /\ \A x, y \in bodies' : IdOf(x) = IdOf(y) => x = y
<1> DEFINE c == [b EXCEPT !.started = now]
<1>1. b \in Bodies /\ now \in Nat
  BY DEF TypeOK
<1>2. /\ c \in Bodies /\ c.svc = b.svc /\ c.by = b.by /\ c.job = b.job /\ c.started = now
      /\ IdOf(c) = IdOf(b)
  BY <1>1 DEF Bodies, IdOf
<1>3. bodies' = (bodies \ {b}) \cup {c}
  BY DEF Started
<1> HIDE DEF c
<1>4. bodies' \subseteq Bodies
  BY <1>2, <1>3 DEF TypeOK
<1>5. UnderWay' = UnderWay
  <2>1. UnderWay' \subseteq UnderWay
    BY <1>2, <1>3 DEF UnderWay
  <2>2. ASSUME NEW x \in bodies
        PROVE  \E y \in bodies' : IdOf(y) = IdOf(x)
    <3>1. CASE x = b
      BY <1>2, <1>3, <3>1
    <3>2. CASE x # b
      BY <1>3, <3>2
    <3> QED BY <3>1, <3>2
  <2>3. UnderWay \subseteq UnderWay'
    BY <2>2 DEF UnderWay
  <2> QED BY <2>1, <2>3
<1>6. ASSUME NEW x \in bodies', NEW y \in bodies', IdOf(x) = IdOf(y)
      PROVE  x = y
  BY <1>2, <1>3, <1>6 DEF RunsBelong
<1> QED BY <1>2, <1>3, <1>4, <1>5, <1>6

LEMMA StartRunsJobStep ==
  ASSUME MarkerInv, NEW b \in bodies, StartRunsJob(b)
  PROVE  MarkerInv'
<1>1. TypeOK /\ OnlyCurrentWorks /\ RunsBelong /\ HoldersAreUnderWay /\ MarkersStand /\ OneHolder
  BY DEF MarkerInv
<1>2. b.by = "boot" /\ bodies' = Started(b, now)
      /\ UNCHANGED <<now, disk, mem, current, armed, boot, tick, manual, holders>>
  BY DEF StartRunsJob
<1>3. /\ bodies' \subseteq Bodies /\ UnderWay' = UnderWay
      /\ \A x \in bodies' : x \in bodies \/ (x.svc = b.svc /\ x.by = b.by /\ x.job = b.job)
      /\ \A x, y \in bodies' : IdOf(x) = IdOf(y) => x = y
  BY <1>1, <1>2, StartedBodies
<1>4. TypeOK'
  BY <1>1, <1>2, <1>3 DEF TypeOK
<1>5. OnlyCurrentWorks'
  BY <1>1, <1>2 DEF OnlyCurrentWorks, Quiet
<1>6. RunsBelong'
  BY <1>1, <1>2, <1>3 DEF RunsBelong, Awaits
<1>7. HoldersAreUnderWay'
  BY <1>1, <1>2, <1>3 DEF HoldersAreUnderWay, Reported, BootRuns, TickRuns
<1>8. MarkersStand' /\ OneHolder'
  BY <1>1, <1>2 DEF MarkersStand, OneHolder
<1> QED BY <1>4, <1>5, <1>6, <1>7, <1>8 DEF MarkerInv

(* A mark keeps markers if it sets one. *)
LEMMA MarkedKeeps ==
  ASSUME NEW f \in Stores, NEW D, NEW n \in Nat \ {0}, NEW J
  PROVE  Keeps(f, Marked(f, D, n), J)
<1> DEFINE g == Marked(f, D, n)
<1>1. /\ DOMAIN g = DOMAIN f
      /\ \A j \in DOMAIN f : /\ g[j].enabled = f[j].enabled
                             /\ g[j].running = IF j \in D THEN n ELSE f[j].running
  BY MarkedFacts
<1> HIDE DEF g
<1>2. Keeps(f, g, J)
  BY <1>1 DEF Keeps, Undefined
<1> QED BY <1>2 DEF g

LEMMA MaintainedKeeps ==
  ASSUME NEW f \in Stores, NEW n \in Nat \ {0}, NEW e \in BOOLEAN, NEW J
  PROVE  Keeps(f, Maintained(f, n, e), J)
<1> DEFINE g == Maintained(f, n, e)
<1>1. /\ DOMAIN g = DOMAIN f
      /\ \A j \in DOMAIN f : /\ g[j].enabled = f[j].enabled
                             /\ f[j].enabled => g[j].running = f[j].running
  BY MaintainedFacts
<1> HIDE DEF g
<1>2. Keeps(f, g, J)
  BY <1>1 DEF Keeps
<1> QED BY <1>2 DEF g

LEMMA RecomputeKeeps ==
  ASSUME NEW f \in Stores, NEW n \in Nat \ {0}, NEW J
  PROVE  Keeps(f, RecomputeNextRuns(f, n), J)
<1> DEFINE g == RecomputeNextRuns(f, n)
<1>1. /\ DOMAIN g = DOMAIN f
      /\ \A j \in DOMAIN f : /\ g[j].enabled = f[j].enabled
                             /\ f[j].enabled => g[j].running = f[j].running
  BY RecomputeNextRunsFacts
<1> HIDE DEF g
<1>2. Keeps(f, g, J)
  BY <1>1 DEF Keeps
<1> QED BY <1>2 DEF g

LEMMA DeferredKeeps ==
  ASSUME NEW f \in Stores, NEW D, NEW n \in Nat, NEW J
  PROVE  Keeps(f, Deferred(f, D, n), J)
<1> DEFINE g == Deferred(f, D, n)
<1>1. /\ DOMAIN g = DOMAIN f
      /\ \A j \in DOMAIN f : g[j].enabled = f[j].enabled /\ g[j].running = f[j].running
  BY DeferredFacts
<1> HIDE DEF g
<1>2. Keeps(f, g, J)
  BY <1>1 DEF Keeps
<1> QED BY <1>2 DEF g

LEMMA OutcomesKeep ==
  ASSUME NEW f \in Stores, NEW R \in SUBSET Results, NEW J, J \cap {o.job : o \in R} = {}
  PROVE  Keeps(f, ApplyOutcomes(f, R), J)
<1> DEFINE g == ApplyOutcomes(f, R)
<1>1. \A j \in DOMAIN f : j \notin {o.job : o \in R} => j \in DOMAIN g /\ g[j] = f[j]
  BY ApplyOutcomesFacts
<1> HIDE DEF g
<1>2. Keeps(f, g, J)
  BY <1>1 DEF Keeps
<1> QED BY <1>2 DEF g

(* A marker stands where one was just set. *)
LEMMA MarkedStands ==
  ASSUME NEW f \in Stores, NEW D, NEW n \in Nat \ {0}, NEW h, h.job \in D,
         h.job \in DOMAIN f, f[h.job].enabled \/ h.by = "manual"
  PROVE  MarkerStands(Marked(f, D, n), h)
<1> DEFINE g == Marked(f, D, n)
<1>1. /\ DOMAIN g = DOMAIN f
      /\ \A j \in DOMAIN f : /\ g[j].enabled = f[j].enabled
                             /\ g[j].running = IF j \in D THEN n ELSE f[j].running
  BY MarkedFacts
<1> HIDE DEF g
<1>2. MarkerStands(g, h)
  BY <1>1 DEF MarkerStands, Undefined
<1> QED BY <1>2 DEF g

LEMMA StartPlansStep ==
  ASSUME MarkerInv, NEW s \in Services, StartPlans(s)
  PROVE  MarkerInv'
<1>1. /\ TypeOK /\ OnlyCurrentWorks /\ RunsBelong /\ HoldersAreUnderWay /\ MarkersStand /\ OneHolder
      /\ boot[s].phase = "plan"
  BY DEF MarkerInv, StartPlans
<1>2. /\ s = current /\ \A b \in bodies : b.svc = s
      /\ \A h \in holders : h.svc = s
  BY <1>1, CurrentOnly
<1> DEFINE missed == {j \in DOMAIN mem[s] \ boot[s].skip : Missed(mem[s][j], now)}
<1>3. PICK chosen \in SUBSET missed :
        /\ IF missed = {} THEN UNCHANGED <<disk, mem>>
           ELSE Persist(s, Marked(mem[s], chosen, now))
        /\ boot' = [boot EXCEPT ![s] =
             [@ EXCEPT !.phase = IF missed = {} THEN "final" ELSE "run", !.skip = missed \ chosen]]
        /\ Reserve(s, "boot", chosen, Undefined)
  BY DEF StartPlans
<1> DEFINE x == IF missed = {} THEN "final" ELSE "run"
           p == Planned(boot[s], x, missed \ chosen)
<1>4. UNCHANGED <<now, current, armed, tick, manual>>
  BY DEF StartPlans
<1>5. mem[s] \in Stores /\ boot[s] \in Processes /\ now \in Nat \ {0} /\ Undefined \in Nat
  BY <1>1 DEF TypeOK, Undefined
<1>6. missed \subseteq Jobs /\ missed \subseteq DOMAIN mem[s]
      /\ \A j \in missed : mem[s][j].enabled /\ mem[s][j].running = Undefined
  BY <1>5, StoreIs DEF Missed
<1> HIDE DEF missed
<1>7. p \in Processes /\ p.phase = x /\ p.results = boot[s].results /\ x \in {"final", "run"}
      /\ (chosen # {} => x = "run")
  BY <1>5, <1>6, PlannedFacts DEF Phases
<1>8. boot' = [boot EXCEPT ![s] = p]
  BY <1>3 DEF Planned
<1> HIDE DEF p, x
<1>9. boot' \in [Services -> Processes] /\ boot'[s] = p
      /\ \A y \in Services : y # s => boot'[y] = boot[y]
  BY <1>1, <1>7, <1>8 DEF TypeOK
<1>10. bodies' \subseteq Bodies /\ holders' \subseteq RunIds
  BY <1>1, <1>3, <1>5, <1>6, ReserveTypes
<1>11. /\ \A b \in bodies' : b \in bodies \/ (b.svc = s /\ b.by = "boot" /\ b.job \in chosen)
       /\ \A b, c \in bodies' : IdOf(b) = IdOf(c) => b = c
       /\ \A h \in holders' : h \in holders \/ (h.svc = s /\ h.by = "boot" /\ h.job \in chosen)
       /\ HoldersAreUnderWay'
       /\ OneHolder'
  <2>1. \A b \in bodies : b.svc = s /\ b.by # "boot"
    BY <1>1, <1>2 DEF RunsBelong, Awaits
  <2>2. ASSUME NEW h \in holders
        PROVE  h.svc = s /\ h.job \notin chosen /\ (Reported(h) => Reported(h)')
    <3>1. h.svc = s /\ h.by \in {"boot", "tick", "manual"}
      BY <1>1, <1>2, RunIdIs DEF TypeOK
    <3>2. h.job \notin chosen
      BY <1>1, <1>6, <3>1 DEF MarkersStand, MarkerStands
    <3>3. Reported(h) => Reported(h)'
      BY <1>4, <1>7, <1>9, <3>1, ReportedStays
    <3> QED BY <3>1, <3>2, <3>3
  <2>3. chosen \in SUBSET Jobs /\ "boot" \in {"boot", "tick", "manual"}
        /\ Reserve(s, "boot", chosen, Undefined)
    BY <1>3, <1>6
  <2>4. \A h \in holders : h.svc = s /\ h.job \notin chosen /\ (Reported(h) => Reported(h)')
    BY <2>2
  <2>5. /\ \A b \in bodies' : \/ b \in bodies
                              \/ (b.svc = s /\ b.by = "boot" /\ b.job \in chosen /\ b.started = Undefined)
        /\ \A b, c \in bodies' : IdOf(b) = IdOf(c) => b = c
        /\ \A h \in holders' : h \in holders \/ (h.svc = s /\ h.by = "boot" /\ h.job \in chosen)
        /\ HoldersAreUnderWay'
        /\ OneHolder'
    BY <1>1, <1>5, <2>1, <2>3, <2>4, ReserveRuns
  <2> QED BY <2>5
<1>12. /\ disk' \in Stores /\ mem' \in [Services -> Stores]
       /\ MarkersStand'
  <2>1. CASE missed = {}
    <3>1. UNCHANGED <<disk, mem>> /\ holders' \subseteq holders
      BY <1>3, <1>11, <2>1
    <3> QED BY <1>1, <3>1 DEF TypeOK, MarkersStand
  <2>2. CASE missed # {}
    <3> DEFINE g == Marked(mem[s], chosen, now)
    <3>1. g \in Stores /\ Persist(s, g)
      BY <1>3, <1>5, <2>2, MarkedFacts
    <3>2. ASSUME NEW h \in holders'
          PROVE  h.svc = s /\ MarkerStands(g, h)
      <4>1. CASE h \in holders
        <5>1. Keeps(mem[s], g, {h.job}) /\ MarkerStands(mem[s], h) /\ h.svc = s
          BY <1>1, <1>2, <1>5, <4>1, MarkedKeeps DEF MarkersStand
        <5> HIDE DEF g
        <5>2. h.job \in {h.job}
          OBVIOUS
        <5> QED BY <1>5, <3>1, <5>1, <5>2, KeepsMarker
      <4>2. CASE h.svc = s /\ h.by = "boot" /\ h.job \in chosen
        <5>1. h.job \in DOMAIN mem[s] /\ mem[s][h.job].enabled
          BY <1>6, <4>2
        <5> QED BY <1>5, <4>2, <5>1, MarkedStands
      <4> QED BY <1>11, <4>1, <4>2
    <3> HIDE DEF g
    <3> QED BY <1>1, <3>1, <3>2, Persisted, MarkersMove
  <2> QED BY <2>1, <2>2
<1>13. TypeOK'
  BY <1>1, <1>4, <1>9, <1>10, <1>12 DEF TypeOK
<1>14. OnlyCurrentWorks'
  BY <1>1, <1>2, <1>4, <1>7, <1>9 DEF OnlyCurrentWorks, Quiet
<1>15. RunsBelong'
  <2>1. boot[s].results = {}
    BY <1>1 DEF RunsBelong
  <2>2. ASSUME NEW b \in bodies'
        PROVE  Awaits(b.svc, b.by)' /\ (b.by = "manual" => b.job = manual'[b.svc].job)
    BY <1>1, <1>4, <1>7, <1>9, <1>11, <2>2 DEF RunsBelong, Awaits, TypeOK, Bodies
  <2> QED BY <1>1, <1>4, <1>7, <1>9, <1>11, <2>1, <2>2 DEF RunsBelong
<1> QED BY <1>11, <1>12, <1>13, <1>14, <1>15 DEF MarkerInv

(* The results a section applies leave the markers of other runs alone. *)
LEMMA AppliedSpares ==
  ASSUME OneHolder, NEW ids, NEW h \in ResultsApplied(ids)
  PROVE  h \in holders /\ h \notin ids /\ \A id \in ids : id.job # h.job
BY DEF ResultsApplied, OneHolder

LEMMA ReportedRuns ==
  ASSUME HoldersAreUnderWay, TypeOK, NEW h \in holders, NEW by \in {"boot", "tick", "manual"},
         h.by = by, RunsOf(h.svc, by) = {}
  PROVE  Reported(h)
BY IdOfFields DEF HoldersAreUnderWay, UnderWay, RunsOf, TypeOK

LEMMA StartAppliesStep ==
  ASSUME MarkerInv, NEW s \in Services, StartApplies(s)
  PROVE  MarkerInv'
<1>1. /\ TypeOK /\ OnlyCurrentWorks /\ RunsBelong /\ HoldersAreUnderWay /\ MarkersStand /\ OneHolder
      /\ boot[s].phase = "run" /\ RunsOf(s, "boot") = {}
  BY DEF MarkerInv, StartApplies
<1>2. /\ s = current /\ \A b \in bodies : b.svc = s
      /\ \A h \in holders : h.svc = s
  BY <1>1, CurrentOnly
<1> DEFINE R == boot[s].results
           a == ApplyOutcomes(mem[s], R)
           d == Deferred(a, boot[s].skip, now)
           g == Maintained(d, now, FALSE)
           p == [Idle EXCEPT !.phase = "final"]
<1>3. /\ Persist(s, g)
      /\ boot' = [boot EXCEPT ![s] = p]
      /\ holders' = ResultsApplied(BootRuns(s))
      /\ UNCHANGED <<now, current, armed, tick, manual, bodies>>
  BY DEF StartApplies
<1>4. mem[s] \in Stores /\ R \in SUBSET Results /\ now \in Nat \ {0}
  BY <1>1, ProcessFields DEF TypeOK
<1>5. p \in Processes /\ p.phase = "final" /\ p.results = {}
  BY IdleFacts, AtPhaseFacts DEF AtPhase, Phases
<1>6. a \in Stores
  BY <1>4, ApplyOutcomesFacts
<1>7. d \in Stores
  BY <1>4, <1>6, DeferredFacts
<1>8. g \in Stores
  BY <1>4, <1>7, MaintainedFacts
<1>9. ASSUME NEW h \in holders'
      PROVE  /\ h \in holders /\ h.svc = s /\ MarkerStands(g, h)
             /\ h \in UnderWay' \/ Reported(h)'
  <2>1. h \in holders /\ h \notin BootRuns(s) /\ \A id \in BootRuns(s) : id.job # h.job
    BY <1>1, <1>3, AppliedSpares
  <2>2. h.svc = s /\ h.by \in {"boot", "tick", "manual"}
    BY <1>1, <1>2, <2>1, RunIdIs DEF TypeOK
  <2>3. {h.job} \cap {o.job : o \in R} = {}
    BY <2>1, RunIdFields DEF BootRuns
  <2>4. Keeps(mem[s], a, {h.job}) /\ MarkerStands(mem[s], h)
    BY <1>1, <1>4, <2>1, <2>2, <2>3, OutcomesKeep DEF MarkersStand
  <2> HIDE DEF a
  <2>5. Keeps(a, d, {h.job})
    BY <1>4, <1>6, DeferredKeeps
  <2> HIDE DEF d
  <2>6. Keeps(d, g, {h.job})
    BY <1>4, <1>7, MaintainedKeeps
  <2> HIDE DEF g
  <2>7. MarkerStands(g, h)
    <3>1. Keeps(mem[s], g, {h.job}) /\ h.job \in {h.job}
      BY <2>4, <2>5, <2>6, KeepsTransitive
    <3> QED BY <1>4, <1>8, <2>4, <3>1, KeepsMarker
  <2>8. h.by # "boot"
    <3>1. h.by = "boot" => Reported(h)
      BY <1>1, <2>1, <2>2, ReportedRuns
    <3> QED BY <2>1, <2>2, <3>1 DEF Reported
  <2>9. h \in UnderWay' \/ Reported(h)'
    <3>1. Reported(h) => Reported(h)'
      BY <1>3, <2>8, ReportedStays
    <3> QED BY <1>1, <1>3, <2>1, <3>1 DEF HoldersAreUnderWay, UnderWay
  <2> QED BY <2>1, <2>2, <2>7, <2>9
<1> HIDE DEF a, d, g, p
<1>10. boot' \in [Services -> Processes] /\ boot'[s] = p
      /\ \A y \in Services : y # s => boot'[y] = boot[y]
  BY <1>1, <1>3, <1>5 DEF TypeOK
<1>11. TypeOK'
  BY <1>1, <1>3, <1>8, <1>9, <1>10, Persisted DEF TypeOK
<1>12. OnlyCurrentWorks'
  BY <1>1, <1>2, <1>3, <1>5, <1>10 DEF OnlyCurrentWorks, Quiet
<1>13. RunsBelong'
  <2>1. \A b \in bodies : b.by # "boot"
    BY <1>1, <1>2 DEF RunsOf
  <2>2. ASSUME NEW b \in bodies'
        PROVE  Awaits(b.svc, b.by)' /\ (b.by = "manual" => b.job = manual'[b.svc].job)
    BY <1>1, <1>3, <2>1 DEF RunsBelong, Awaits
  <2> QED BY <1>1, <1>3, <1>5, <1>10, <2>2 DEF RunsBelong
<1>14. HoldersAreUnderWay' /\ OneHolder'
  BY <1>1, <1>9 DEF HoldersAreUnderWay, OneHolder
<1>15. MarkersStand'
  BY <1>1, <1>3, <1>8, <1>9, MarkersMove
<1> QED BY <1>11, <1>12, <1>13, <1>14, <1>15 DEF MarkerInv

LEMMA StartArmsStep ==
  ASSUME MarkerInv, NEW s \in Services, StartArms(s)
  PROVE  MarkerInv'
<1>1. /\ TypeOK /\ OnlyCurrentWorks /\ RunsBelong /\ HoldersAreUnderWay /\ MarkersStand /\ OneHolder
      /\ boot[s].phase = "final"
  BY DEF MarkerInv, StartArms
<1>2. s = current /\ \A h \in holders : h.svc = s
  BY <1>1, CurrentOnly
<1> DEFINE g == RecomputeNextRuns(mem[s], now)
<1>3. /\ Persist(s, g)
      /\ boot' = [boot EXCEPT ![s] = Idle]
      /\ armed' = [armed EXCEPT ![s] = WantsTimer(disk')]
      /\ UNCHANGED <<now, current, tick, manual, bodies, holders>>
  BY DEF StartArms, Arm, bodyVars
<1>4. mem[s] \in Stores /\ now \in Nat \ {0}
  BY <1>1 DEF TypeOK
<1>5. g \in Stores
  BY <1>4, RecomputeNextRunsFacts
<1>6. ASSUME NEW h \in holders'
      PROVE  h.svc = s /\ MarkerStands(g, h)
  <2>1. h \in holders /\ h.svc = s /\ MarkerStands(mem[s], h) /\ h.job \in {h.job}
    BY <1>1, <1>2, <1>3 DEF MarkersStand
  <2>2. Keeps(mem[s], g, {h.job})
    BY <1>4, RecomputeKeeps
  <2> HIDE DEF g
  <2> QED BY <1>4, <1>5, <2>1, <2>2, KeepsMarker
<1> HIDE DEF g
<1>7. /\ boot' \in [Services -> Processes] /\ boot'[s] = Idle
      /\ \A y \in Services : y # s => boot'[y] = boot[y]
  BY <1>1, <1>3, IdleFacts DEF TypeOK
<1>8. armed' \in [Services -> BOOLEAN] /\ \A y \in Services : y # s => armed'[y] = armed[y]
  <2>1. WantsTimer(disk') \in BOOLEAN
    BY DEF WantsTimer
  <2> QED BY <1>1, <1>3, <2>1 DEF TypeOK
<1>9. TypeOK'
  BY <1>1, <1>3, <1>5, <1>7, <1>8, Persisted DEF TypeOK
<1>10. OnlyCurrentWorks'
  BY <1>1, <1>2, <1>3, <1>7, <1>8, IdleFacts DEF OnlyCurrentWorks, Quiet
<1>11. boot[s].results = {}
  BY <1>1 DEF RunsBelong
<1>12. RunsBelong'
  <2>1. ASSUME NEW b \in bodies'
        PROVE  Awaits(b.svc, b.by)' /\ (b.by = "manual" => b.job = manual'[b.svc].job)
    BY <1>1, <1>3, <1>7 DEF RunsBelong, Awaits, TypeOK, Bodies
  <2> QED BY <1>1, <1>3, <1>7, <2>1, IdleFacts DEF RunsBelong
<1>13. HoldersAreUnderWay' /\ OneHolder'
  <2>1. ASSUME NEW h \in holders', Reported(h)
        PROVE  Reported(h)'
    <3>1. boot'[h.svc].results = boot[h.svc].results
      BY <1>1, <1>2, <1>3, <1>7, <1>11, IdleFacts
    <3> QED BY <1>3, <2>1, <3>1, ReportedStays
  <2> QED BY <1>1, <1>3, <2>1, HoldersShrink
<1>14. MarkersStand'
  BY <1>1, <1>3, <1>5, <1>6, MarkersMove
<1> QED BY <1>9, <1>10, <1>12, <1>13, <1>14 DEF MarkerInv

(* The timer that fires is set again. *)
LEMMA TimerStaysSet ==
  ASSUME TypeOK, NEW s \in Services, TimerFires(s)
  PROVE  armed' = armed
BY DEF TimerFires, TypeOK

(* A tick that changes its phase alone, with nothing to wait for. *)
LEMMA TickStartsStep ==
  ASSUME MarkerInv, NEW s \in Services, TimerFires(s), tick[s].phase = "idle"
  PROVE  MarkerInv'
<1>1. /\ TypeOK /\ OnlyCurrentWorks /\ RunsBelong /\ HoldersAreUnderWay /\ MarkersStand /\ OneHolder
      /\ armed[s] /\ tick[s].phase = "idle"
  BY DEF MarkerInv, TimerFires
<1>2. s = current /\ boot[s].phase # "clear" /\ tick[s].results = {}
  BY <1>1, CurrentOnly DEF OnlyCurrentWorks, Quiet, RunsBelong
<1> DEFINE p == AtPhase(tick[s], "collect")
<1>3. /\ tick' = [tick EXCEPT ![s] = p]
      /\ UNCHANGED <<now, disk, mem, current, armed, boot, manual, bodies, holders>>
  BY <1>1, TimerStaysSet DEF TimerFires, AtPhase, bodyVars
<1>4. p \in Processes /\ p.phase = "collect" /\ p.results = {}
  <2>1. tick[s] \in Processes /\ "collect" \in Phases
    BY <1>1 DEF TypeOK, Phases
  <2> QED BY <1>2, <2>1, AtPhaseFacts
<1> HIDE DEF p
<1>5. /\ tick' \in [Services -> Processes] /\ tick'[s] = p
      /\ \A y \in Services : y # s => tick'[y] = tick[y]
  BY <1>1, <1>3, <1>4 DEF TypeOK
<1>6. TypeOK'
  BY <1>1, <1>3, <1>5 DEF TypeOK
<1>7. OnlyCurrentWorks'
  BY <1>1, <1>2, <1>3, <1>5 DEF OnlyCurrentWorks, Quiet
<1>8. RunsBelong'
  <2>1. ASSUME NEW b \in bodies'
        PROVE  Awaits(b.svc, b.by)' /\ (b.by = "manual" => b.job = manual'[b.svc].job)
    BY <1>1, <1>3, <1>5 DEF RunsBelong, Awaits, TypeOK, Bodies
  <2> QED BY <1>1, <1>3, <1>4, <1>5, <2>1 DEF RunsBelong
<1>9. HoldersAreUnderWay' /\ OneHolder'
  <2>1. ASSUME NEW h \in holders', Reported(h)
        PROVE  Reported(h)'
    <3>1. h.svc \in Services
      BY <1>1, <1>3, RunIdIs DEF TypeOK
    <3>2. tick'[h.svc].results = tick[h.svc].results
      BY <1>2, <1>4, <1>5, <3>1
    <3> QED BY <1>3, <2>1, <3>2, ReportedStays
  <2> QED BY <1>1, <1>3, <2>1, HoldersShrink
<1>10. MarkersStand'
  BY <1>1, <1>3 DEF MarkersStand
<1> QED BY <1>6, <1>7, <1>8, <1>9, <1>10 DEF MarkerInv

LEMMA TickEndsStep ==
  ASSUME MarkerInv, NEW s \in Services, TickEnds(s)
  PROVE  MarkerInv'
<1>1. /\ TypeOK /\ OnlyCurrentWorks /\ RunsBelong /\ HoldersAreUnderWay /\ MarkersStand /\ OneHolder
      /\ tick[s].phase = "end"
  BY DEF MarkerInv, TickEnds
<1>2. s = current /\ boot[s].phase # "clear" /\ tick[s].results = {}
  BY <1>1, CurrentOnly DEF OnlyCurrentWorks, Quiet, RunsBelong
<1>3. /\ tick' = [tick EXCEPT ![s] = Idle]
      /\ armed' = [armed EXCEPT ![s] = WantsTimer(mem[s])]
      /\ UNCHANGED <<now, disk, mem, current, boot, manual, bodies, holders>>
  BY DEF TickEnds, bodyVars
<1>4. /\ tick' \in [Services -> Processes] /\ tick'[s] = Idle
      /\ \A y \in Services : y # s => tick'[y] = tick[y]
  BY <1>1, <1>3, IdleFacts DEF TypeOK
<1>5. armed' \in [Services -> BOOLEAN] /\ \A y \in Services : y # s => armed'[y] = armed[y]
  <2>1. WantsTimer(mem[s]) \in BOOLEAN
    BY DEF WantsTimer
  <2> QED BY <1>1, <1>3, <2>1 DEF TypeOK
<1>6. TypeOK'
  BY <1>1, <1>3, <1>4, <1>5 DEF TypeOK
<1>7. OnlyCurrentWorks'
  BY <1>1, <1>2, <1>3, <1>4, <1>5, IdleFacts DEF OnlyCurrentWorks, Quiet
<1>8. RunsBelong'
  <2>1. ASSUME NEW b \in bodies'
        PROVE  Awaits(b.svc, b.by)' /\ (b.by = "manual" => b.job = manual'[b.svc].job)
    BY <1>1, <1>3, <1>4 DEF RunsBelong, Awaits, TypeOK, Bodies
  <2> QED BY <1>1, <1>3, <1>4, <2>1, IdleFacts DEF RunsBelong
<1>9. HoldersAreUnderWay' /\ OneHolder'
  <2>1. ASSUME NEW h \in holders', Reported(h)
        PROVE  Reported(h)'
    <3>1. h.svc \in Services
      BY <1>1, <1>3, RunIdIs DEF TypeOK
    <3>2. tick'[h.svc].results = tick[h.svc].results
      BY <1>2, <1>4, <3>1, IdleFacts
    <3> QED BY <1>3, <2>1, <3>2, ReportedStays
  <2> QED BY <1>1, <1>3, <2>1, HoldersShrink
<1>10. MarkersStand'
  BY <1>1, <1>3 DEF MarkersStand
<1> QED BY <1>6, <1>7, <1>8, <1>9, <1>10 DEF MarkerInv

LEMMA TickCollectsStep ==
  ASSUME MarkerInv, NEW s \in Services, TickCollects(s)
  PROVE  MarkerInv'
<1>1. /\ TypeOK /\ OnlyCurrentWorks /\ RunsBelong /\ HoldersAreUnderWay /\ MarkersStand /\ OneHolder
      /\ tick[s].phase = "collect"
  BY DEF MarkerInv, TickCollects
<1>2. /\ s = current /\ boot[s].phase # "clear" /\ tick[s].results = {}
      /\ \A b \in bodies : b.svc = s
      /\ \A h \in holders : h.svc = s
  BY <1>1, CurrentOnly DEF OnlyCurrentWorks, Quiet, RunsBelong
<1> DEFINE due == {j \in DOMAIN disk : Runnable(disk[j], now)}
           g == IF due = {} THEN Maintained(disk, now, TRUE) ELSE Marked(disk, due, now)
           x == IF due = {} THEN "end" ELSE "run"
           p == Collected(x)
<1>3. /\ Persist(s, g)
      /\ tick' = [tick EXCEPT ![s] = p]
      /\ Reserve(s, "tick", due, Undefined)
      /\ UNCHANGED <<now, current, armed, boot, manual>>
  BY DEF TickCollects, Collected
<1>4. disk \in Stores /\ now \in Nat \ {0} /\ Undefined \in Nat
  BY <1>1 DEF TypeOK, Undefined
<1>5. due \subseteq Jobs /\ due \subseteq DOMAIN disk
      /\ \A j \in due : disk[j].enabled /\ disk[j].running = Undefined
  BY <1>4, StoreIs DEF Runnable
<1> HIDE DEF due
<1>6. p \in Processes /\ p.phase = x /\ p.results = {} /\ x \in {"end", "run"}
      /\ (due # {} => x = "run")
  <2>1. x \in {"end", "run"} /\ x \in Phases /\ (due # {} => x = "run")
    BY DEF Phases
  <2> HIDE DEF x
  <2> QED BY <2>1, CollectedFacts
<1> HIDE DEF p, x
<1>7. g \in Stores
  BY <1>4, MaintainedFacts, MarkedFacts
<1>8. /\ tick' \in [Services -> Processes] /\ tick'[s] = p
      /\ \A y \in Services : y # s => tick'[y] = tick[y]
  BY <1>1, <1>3, <1>6 DEF TypeOK
<1>9. bodies' \subseteq Bodies /\ holders' \subseteq RunIds
  BY <1>1, <1>3, <1>4, <1>5, ReserveTypes
<1>10. /\ \A b \in bodies' : \/ b \in bodies
                             \/ (b.svc = s /\ b.by = "tick" /\ b.job \in due /\ b.started = Undefined)
       /\ \A b, c \in bodies' : IdOf(b) = IdOf(c) => b = c
       /\ \A h \in holders' : h \in holders \/ (h.svc = s /\ h.by = "tick" /\ h.job \in due)
       /\ HoldersAreUnderWay'
       /\ OneHolder'
  <2>1. \A b \in bodies : b.svc = s /\ b.by # "tick"
    BY <1>1, <1>2 DEF RunsBelong, Awaits
  <2>2. ASSUME NEW h \in holders
        PROVE  h.svc = s /\ h.job \notin due /\ (Reported(h) => Reported(h)')
    <3>1. h.svc = s /\ h.by \in {"boot", "tick", "manual"}
      BY <1>1, <1>2, RunIdIs DEF TypeOK
    <3>2. h.job \notin due
      BY <1>1, <1>5, <3>1 DEF MarkersStand, MarkerStands
    <3>3. Reported(h) => Reported(h)'
      BY <1>2, <1>3, <1>6, <1>8, <3>1, ReportedStays
    <3> QED BY <3>1, <3>2, <3>3
  <2>3. due \in SUBSET Jobs /\ "tick" \in {"boot", "tick", "manual"}
        /\ Reserve(s, "tick", due, Undefined)
    BY <1>3, <1>5
  <2>4. \A h \in holders : h.svc = s /\ h.job \notin due /\ (Reported(h) => Reported(h)')
    BY <2>2
  <2> HIDE DEF g
  <2> QED BY <1>1, <1>4, <2>1, <2>3, <2>4, ReserveRuns
<1>11. MarkersStand'
  <2>1. ASSUME NEW h \in holders'
        PROVE  h.svc = s /\ MarkerStands(g, h)
    <3>1. CASE h \in holders
      <4>1. MarkerStands(disk, h) /\ h.svc = s /\ h.job \in {h.job}
        BY <1>1, <1>2, <3>1 DEF MarkersStand
      <4>2. Keeps(disk, g, {h.job})
        BY <1>4, MarkedKeeps, MaintainedKeeps
      <4> HIDE DEF g
      <4> QED BY <1>4, <1>7, <4>1, <4>2, KeepsMarker
    <3>2. CASE h.svc = s /\ h.by = "tick" /\ h.job \in due
      <4>1. h.job \in DOMAIN disk /\ disk[h.job].enabled
        BY <1>5, <3>2
      <4>2. MarkerStands(Marked(disk, due, now), h)
        BY <1>4, <3>2, <4>1, MarkedStands
      <4>3. due # {}
        BY <3>2
      <4> QED BY <3>2, <4>2, <4>3
    <3> QED BY <1>10, <3>1, <3>2
  <2> HIDE DEF g
  <2> QED BY <1>1, <1>3, <1>7, <2>1, MarkersMove
<1> HIDE DEF g
<1>12. TypeOK'
  BY <1>1, <1>3, <1>7, <1>8, <1>9, Persisted DEF TypeOK
<1>13. OnlyCurrentWorks'
  BY <1>1, <1>2, <1>3, <1>6, <1>8 DEF OnlyCurrentWorks, Quiet
<1>14. RunsBelong'
  <2>1. ASSUME NEW b \in bodies'
        PROVE  Awaits(b.svc, b.by)' /\ (b.by = "manual" => b.job = manual'[b.svc].job)
    BY <1>1, <1>3, <1>6, <1>8, <1>10, <2>1 DEF RunsBelong, Awaits, TypeOK, Bodies
  <2> QED BY <1>1, <1>3, <1>6, <1>8, <1>10, <2>1 DEF RunsBelong
<1> QED BY <1>10, <1>11, <1>12, <1>13, <1>14 DEF MarkerInv

LEMMA TickRunsJobStep ==
  ASSUME MarkerInv, NEW b \in bodies, TickRunsJob(b)
  PROVE  MarkerInv'
<1>1. TypeOK /\ OnlyCurrentWorks /\ RunsBelong /\ HoldersAreUnderWay /\ MarkersStand /\ OneHolder
  BY DEF MarkerInv
<1> DEFINE s == b.svc
           g == Marked(mem[s], {b.job}, now)
<1>2. /\ b.by = "tick" /\ bodies' = Started(b, now)
      /\ UNCHANGED <<now, disk, current, armed, boot, tick, manual, holders>>
  BY DEF TickRunsJob
<1>3. mem' = mem \/ mem' = [mem EXCEPT ![s] = g]
  BY DEF TickRunsJob
<1>4. s \in Services /\ mem[s] \in Stores /\ now \in Nat \ {0}
  BY <1>1, IdOfFields DEF TypeOK
<1>5. g \in Stores
  BY <1>4, MarkedFacts
<1>6. /\ bodies' \subseteq Bodies /\ UnderWay' = UnderWay
      /\ \A x \in bodies' : x \in bodies \/ (x.svc = b.svc /\ x.by = b.by /\ x.job = b.job)
      /\ \A x, y \in bodies' : IdOf(x) = IdOf(y) => x = y
  BY <1>1, <1>2, StartedBodies
<1>7. MarkersStand'
  <2>1. ASSUME NEW h \in holders
        PROVE  MarkerStands(disk, h) /\ MarkerStands(mem'[h.svc], h)
    <3>1. MarkerStands(disk, h) /\ MarkerStands(mem[h.svc], h) /\ h.job \in {h.job}
          /\ h.svc \in Services
      BY <1>1, RunIdIs DEF MarkersStand, TypeOK
    <3>2. CASE mem'[h.svc] = mem[h.svc]
      BY <3>1, <3>2
    <3>3. CASE h.svc = s /\ mem'[h.svc] = g
      <4>1. Keeps(mem[s], g, {h.job})
        BY <1>4, MarkedKeeps
      <4> HIDE DEF g, s
      <4> QED BY <1>4, <1>5, <3>1, <3>3, <4>1, KeepsMarker
    <3> HIDE DEF g, s
    <3> QED BY <1>1, <1>3, <3>1, <3>2, <3>3 DEF TypeOK
  <2> QED BY <1>2, <2>1 DEF MarkersStand
<1> HIDE DEF g
<1>8. TypeOK'
  BY <1>1, <1>2, <1>3, <1>5, <1>6 DEF TypeOK
<1>9. OnlyCurrentWorks'
  BY <1>1, <1>2 DEF OnlyCurrentWorks, Quiet
<1>10. RunsBelong'
  BY <1>1, <1>2, <1>6 DEF RunsBelong, Awaits
<1>11. HoldersAreUnderWay'
  BY <1>1, <1>2, <1>6 DEF HoldersAreUnderWay, Reported, BootRuns, TickRuns
<1>12. OneHolder'
  BY <1>1, <1>2 DEF OneHolder
<1> QED BY <1>7, <1>8, <1>9, <1>10, <1>11, <1>12 DEF MarkerInv

LEMMA TickAppliesStep ==
  ASSUME MarkerInv, NEW s \in Services, TickApplies(s)
  PROVE  MarkerInv'
<1>1. /\ TypeOK /\ OnlyCurrentWorks /\ RunsBelong /\ HoldersAreUnderWay /\ MarkersStand /\ OneHolder
      /\ tick[s].phase = "run" /\ RunsOf(s, "tick") = {}
  BY DEF MarkerInv, TickApplies
<1>2. /\ s = current /\ boot[s].phase # "clear" /\ \A b \in bodies : b.svc = s
      /\ \A h \in holders : h.svc = s
  BY <1>1, CurrentOnly DEF OnlyCurrentWorks, Quiet
<1> DEFINE R == tick[s].results
           a == ApplyOutcomes(disk, R)
           g == Maintained(a, now, FALSE)
           p == [Idle EXCEPT !.phase = "end"]
<1>3. /\ Persist(s, g)
      /\ tick' = [tick EXCEPT ![s] = p]
      /\ holders' = ResultsApplied(TickRuns(s))
      /\ UNCHANGED <<now, current, armed, boot, manual, bodies>>
  BY DEF TickApplies
<1>4. disk \in Stores /\ R \in SUBSET Results /\ now \in Nat \ {0}
  BY <1>1, ProcessFields DEF TypeOK
<1>5. p \in Processes /\ p.phase = "end" /\ p.results = {}
  BY IdleFacts, AtPhaseFacts DEF AtPhase, Phases
<1>6. a \in Stores
  BY <1>4, ApplyOutcomesFacts
<1>7. g \in Stores
  BY <1>4, <1>6, MaintainedFacts
<1>8. ASSUME NEW h \in holders'
      PROVE  /\ h \in holders /\ h.svc = s /\ MarkerStands(g, h)
             /\ h \in UnderWay' \/ Reported(h)'
  <2>1. h \in holders /\ h \notin TickRuns(s) /\ \A id \in TickRuns(s) : id.job # h.job
    BY <1>1, <1>3, AppliedSpares
  <2>2. h.svc = s /\ h.by \in {"boot", "tick", "manual"}
    BY <1>1, <1>2, <2>1, RunIdIs DEF TypeOK
  <2>3. {h.job} \cap {o.job : o \in R} = {}
    BY <2>1, RunIdFields DEF TickRuns
  <2>4. Keeps(disk, a, {h.job}) /\ MarkerStands(disk, h)
    BY <1>1, <1>4, <2>1, <2>2, <2>3, OutcomesKeep DEF MarkersStand
  <2> HIDE DEF a
  <2>5. Keeps(a, g, {h.job})
    BY <1>4, <1>6, MaintainedKeeps
  <2> HIDE DEF g
  <2>6. MarkerStands(g, h)
    <3>1. Keeps(disk, g, {h.job}) /\ h.job \in {h.job}
      BY <2>4, <2>5, KeepsTransitive
    <3> QED BY <1>4, <1>7, <2>4, <3>1, KeepsMarker
  <2>7. h.by # "tick"
    <3>1. h.by = "tick" => Reported(h)
      BY <1>1, <2>1, <2>2, ReportedRuns
    <3> QED BY <2>1, <2>2, <3>1 DEF Reported
  <2>8. h \in UnderWay' \/ Reported(h)'
    <3>1. Reported(h) => Reported(h)'
      BY <1>3, <2>7, ReportedStays
    <3> QED BY <1>1, <1>3, <2>1, <3>1 DEF HoldersAreUnderWay, UnderWay
  <2> QED BY <2>1, <2>2, <2>6, <2>8
<1> HIDE DEF a, g, p
<1>9. /\ tick' \in [Services -> Processes] /\ tick'[s] = p
      /\ \A y \in Services : y # s => tick'[y] = tick[y]
  BY <1>1, <1>3, <1>5 DEF TypeOK
<1>10. TypeOK'
  BY <1>1, <1>3, <1>7, <1>8, <1>9, Persisted DEF TypeOK
<1>11. OnlyCurrentWorks'
  BY <1>1, <1>2, <1>3, <1>5, <1>9 DEF OnlyCurrentWorks, Quiet
<1>12. RunsBelong'
  <2>1. \A b \in bodies : b.by # "tick"
    BY <1>1, <1>2 DEF RunsOf
  <2>2. ASSUME NEW b \in bodies'
        PROVE  Awaits(b.svc, b.by)' /\ (b.by = "manual" => b.job = manual'[b.svc].job)
    BY <1>1, <1>3, <2>1 DEF RunsBelong, Awaits
  <2> QED BY <1>1, <1>3, <1>5, <1>9, <2>2 DEF RunsBelong
<1>13. HoldersAreUnderWay' /\ OneHolder'
  BY <1>1, <1>8 DEF HoldersAreUnderWay, OneHolder
<1>14. MarkersStand'
  BY <1>1, <1>3, <1>7, <1>8, MarkersMove
<1> QED BY <1>10, <1>11, <1>12, <1>13, <1>14 DEF MarkerInv

LEMMA ManualChecksStep ==
  ASSUME MarkerInv, NEW s \in Services, NEW j \in Jobs, NEW mode \in Modes,
         ManualChecks(s, j, mode)
  PROVE  MarkerInv'
<1>1. /\ TypeOK /\ OnlyCurrentWorks /\ RunsBelong /\ HoldersAreUnderWay /\ MarkersStand /\ OneHolder
      /\ s = current /\ boot[s].phase # "clear" /\ manual[s].phase = "idle"
  BY DEF MarkerInv, ManualChecks
<1> DEFINE g == Maintained(mem[s], now, FALSE)
           p == Checked(j, mode, now)
<1>2. /\ mem' = [mem EXCEPT ![s] = g]
      /\ manual' = manual \/ manual' = [manual EXCEPT ![s] = p]
      /\ UNCHANGED <<now, disk, current, armed, boot, tick, bodies, holders>>
  BY DEF ManualChecks, Checked, bodyVars
<1>3. mem[s] \in Stores /\ now \in Nat \ {0}
  BY <1>1 DEF TypeOK
<1>4. g \in Stores
  BY <1>3, MaintainedFacts
<1>5. p \in ManualRuns /\ p.phase = "reserve" /\ p.job = j /\ p.at = now /\ now # Undefined
  BY <1>3, CheckedFacts DEF Undefined
<1>6. \A h \in holders : h \in RunIds /\ h.svc \in Services /\ h.job \in {h.job}
  BY <1>1, RunIdIs DEF TypeOK
<1>7. MarkersStand'
  <2>1. ASSUME NEW h \in holders
        PROVE  MarkerStands(disk, h) /\ MarkerStands(mem'[h.svc], h)
    <3>1. MarkerStands(disk, h) /\ MarkerStands(mem[h.svc], h)
      BY <1>1 DEF MarkersStand
    <3>2. CASE h.svc # s
      BY <1>1, <1>2, <1>6, <3>1, <3>2 DEF TypeOK
    <3>3. CASE h.svc = s
      <4>1. Keeps(mem[s], g, {h.job})
        BY <1>3, MaintainedKeeps
      <4> HIDE DEF g
      <4>2. MarkerStands(g, h)
        BY <1>3, <1>4, <1>6, <3>1, <3>3, <4>1, KeepsMarker
      <4> QED BY <1>1, <1>2, <3>1, <3>3, <4>2 DEF TypeOK
    <3> QED BY <3>2, <3>3
  <2> QED BY <1>2, <2>1 DEF MarkersStand
<1> HIDE DEF g, p
<1>8. /\ manual' \in [Services -> ManualRuns]
      /\ \A x \in Services : manual'[x] = manual[x] \/ (x = s /\ manual'[x] = p)
  BY <1>1, <1>2, <1>5 DEF TypeOK
<1>9. TypeOK'
  BY <1>1, <1>2, <1>4, <1>8 DEF TypeOK
<1>10. OnlyCurrentWorks'
  BY <1>1, <1>2, <1>8 DEF OnlyCurrentWorks, Quiet
<1>11. RunsBelong'
  <2>1. ASSUME NEW b \in bodies'
        PROVE  Awaits(b.svc, b.by)' /\ (b.by = "manual" => b.job = manual'[b.svc].job)
    BY <1>1, <1>2, <1>5, <1>8, IdOfFields DEF RunsBelong, Awaits, TypeOK
  <2> QED BY <1>1, <1>2, <1>5, <1>8, <2>1 DEF RunsBelong
<1>12. HoldersAreUnderWay' /\ OneHolder'
  <2>1. ASSUME NEW h \in holders', Reported(h)
        PROVE  Reported(h)'
    <3>1. h.by = "manual" => manual'[h.svc] = manual[h.svc]
      BY <1>1, <1>2, <1>6, <1>8, <2>1 DEF Reported
    <3> QED BY <1>2, <2>1, <3>1, ReportedStays
  <2> QED BY <1>1, <1>2, <2>1, HoldersShrink
<1> QED BY <1>7, <1>9, <1>10, <1>11, <1>12 DEF MarkerInv

LEMMA ManualReservesStep ==
  ASSUME MarkerInv, NEW s \in Services, ManualReserves(s)
  PROVE  MarkerInv'
<1>1. /\ TypeOK /\ OnlyCurrentWorks /\ RunsBelong /\ HoldersAreUnderWay /\ MarkersStand /\ OneHolder
      /\ manual[s].phase = "reserve"
  BY DEF MarkerInv, ManualReserves
<1>2. /\ s = current /\ boot[s].phase # "clear" /\ manual[s].job \in Jobs
      /\ \A b \in bodies : b.svc = s
      /\ \A h \in holders : h.svc = s
  BY <1>1, CurrentOnly DEF OnlyCurrentWorks, Quiet, RunsBelong
<1>3. /\ mem[s] \in Stores /\ manual[s] \in ManualRuns /\ manual[s].at \in Nat \ {0}
  BY <1>1 DEF TypeOK, ManualRuns, RunsBelong, Undefined
<1>4. UNCHANGED <<now, current, armed, boot, tick>>
  BY DEF ManualReserves
<1>5. \A h \in holders : h \in RunIds /\ h.svc = s /\ h.by \in {"boot", "tick", "manual"}
  BY <1>1, <1>2, RunIdIs DEF TypeOK
<1>6. CASE /\ manual' = [manual EXCEPT ![s] = NoManual]
           /\ UNCHANGED <<disk, mem, bodies, holders>>
  <2>1. /\ manual' \in [Services -> ManualRuns] /\ manual'[s] = NoManual
        /\ \A x \in Services : x # s => manual'[x] = manual[x]
    BY <1>1, <1>6, NoManualFacts DEF TypeOK
  <2>2. TypeOK'
    BY <1>1, <1>4, <1>6, <2>1 DEF TypeOK
  <2>3. OnlyCurrentWorks'
    BY <1>1, <1>2, <1>4, <2>1 DEF OnlyCurrentWorks, Quiet
  <2>4. RunsBelong'
    <3>1. ASSUME NEW b \in bodies'
          PROVE  Awaits(b.svc, b.by)' /\ (b.by = "manual" => b.job = manual'[b.svc].job)
      BY <1>1, <1>2, <1>4, <1>6, <2>1 DEF RunsBelong, Awaits
    <3> QED BY <1>1, <1>4, <1>6, <2>1, <3>1, NoManualFacts DEF RunsBelong
  <2>5. HoldersAreUnderWay' /\ OneHolder'
    <3>1. ASSUME NEW h \in holders', Reported(h)
          PROVE  Reported(h)'
      <4>1. h.by # "manual"
        BY <1>1, <1>5, <1>6, <3>1 DEF Reported
      <4> QED BY <1>4, <3>1, <4>1, ReportedStays
    <3> QED BY <1>1, <1>6, <3>1, HoldersShrink
  <2>6. MarkersStand'
    BY <1>1, <1>6 DEF MarkersStand
  <2> QED BY <2>2, <2>3, <2>4, <2>5, <2>6 DEF MarkerInv
<1>7. CASE /\ manual[s].job \in DOMAIN mem[s] /\ mem[s][manual[s].job].running = Undefined
           /\ Persist(s, Marked(mem[s], {manual[s].job}, manual[s].at))
           /\ Reserve(s, "manual", {manual[s].job}, manual[s].at)
           /\ manual' = [manual EXCEPT ![s].phase = "run"]
  <2> DEFINE p == Launched(manual[s])
             n == manual[s].at
             D == {manual[s].job}
             g == Marked(mem[s], D, n)
  <2>1. manual' = [manual EXCEPT ![s] = p]
    BY <1>7 DEF Launched
  <2>2. p \in ManualRuns /\ p.phase = "run" /\ p.job = manual[s].job /\ p.at = manual[s].at
    BY <1>3, LaunchedFacts
  <2>3. /\ D \in SUBSET Jobs /\ n \in Nat \ {0} /\ g \in Stores
    BY <1>2, <1>3, MarkedFacts
  <2> HIDE DEF p
  <2>4. /\ manual' \in [Services -> ManualRuns] /\ manual'[s] = p
        /\ \A x \in Services : x # s => manual'[x] = manual[x]
    BY <1>1, <2>1, <2>2 DEF TypeOK
  <2>5. Persist(s, g) /\ Reserve(s, "manual", D, n)
    BY <1>7
  <2> HIDE DEF D, n
  <2>6. bodies' \subseteq Bodies /\ holders' \subseteq RunIds
    BY <1>1, <2>3, <2>5, ReserveTypes
  <2>7. /\ \A b \in bodies' : \/ b \in bodies
                              \/ (b.svc = s /\ b.by = "manual" /\ b.job \in D /\ b.started = n)
        /\ \A b, c \in bodies' : IdOf(b) = IdOf(c) => b = c
        /\ \A h \in holders' : h \in holders \/ (h.svc = s /\ h.by = "manual" /\ h.job \in D)
        /\ HoldersAreUnderWay'
        /\ OneHolder'
    <3>1. \A b \in bodies : b.svc = s /\ b.by # "manual"
      BY <1>1, <1>2 DEF RunsBelong, Awaits
    <3>2. ASSUME NEW h \in holders
          PROVE  h.svc = s /\ h.job \notin D /\ (Reported(h) => Reported(h)')
      <4>1. h.by # "manual"
        <5>1. h.by = "manual" => Reported(h)
          BY <1>1, <1>5, <3>1, ReportedRuns DEF RunsOf
        <5> QED BY <1>1, <1>5, <5>1 DEF Reported
      <4>2. h.job \notin D
        <5>1. MarkerStands(mem[s], h)
          BY <1>1, <1>5 DEF MarkersStand
        <5> QED BY <1>7, <4>1, <5>1 DEF MarkerStands, D
      <4>3. Reported(h) => Reported(h)'
        BY <1>4, <4>1, ReportedStays
      <4> QED BY <1>5, <4>2, <4>3
    <3> HIDE DEF g
    <3>3. \A h \in holders : h.svc = s /\ h.job \notin D /\ (Reported(h) => Reported(h)')
      BY <3>2
    <3> QED BY <1>1, <2>3, <2>5, <3>1, <3>3, ReserveRuns
  <2>8. MarkersStand'
    <3>1. ASSUME NEW h \in holders'
          PROVE  h.svc = s /\ MarkerStands(g, h)
      <4>1. CASE h.svc = s /\ h.by = "manual" /\ h.job \in D
        <5>1. /\ DOMAIN g = DOMAIN mem[s]
              /\ \A i \in DOMAIN mem[s] : /\ g[i].enabled = mem[s][i].enabled
                                          /\ g[i].running = IF i \in D THEN n ELSE mem[s][i].running
          BY <1>3, <2>3, MarkedFacts
        <5> HIDE DEF g
        <5> QED BY <1>7, <2>3, <4>1, <5>1 DEF MarkerStands, D, Undefined
      <4>2. CASE h \in holders
        <5>1. MarkerStands(mem[s], h) /\ h.svc = s /\ h.job \in {h.job}
          BY <1>1, <1>5, <4>2 DEF MarkersStand
        <5>2. Keeps(mem[s], g, {h.job})
          BY <1>3, <2>3, MarkedKeeps
        <5> HIDE DEF g
        <5> QED BY <1>3, <2>3, <5>1, <5>2, KeepsMarker
      <4> QED BY <2>7, <4>1, <4>2
    <3> HIDE DEF g
    <3> QED BY <1>1, <2>3, <2>5, <3>1, MarkersMove
  <2> HIDE DEF g
  <2>9. TypeOK'
    BY <1>1, <1>4, <2>3, <2>4, <2>5, <2>6, Persisted DEF TypeOK
  <2>10. OnlyCurrentWorks'
    BY <1>1, <1>2, <1>4, <2>4 DEF OnlyCurrentWorks, Quiet
  <2>11. RunsBelong'
    <3>1. ASSUME NEW b \in bodies'
          PROVE  Awaits(b.svc, b.by)' /\ (b.by = "manual" => b.job = manual'[b.svc].job)
      <4>1. CASE b \in bodies
        BY <1>1, <1>2, <1>4, <2>2, <2>4, <4>1 DEF RunsBelong, Awaits
      <4>2. CASE b.svc = s /\ b.by = "manual" /\ b.job \in D
        BY <2>2, <2>4, <4>2 DEF Awaits, D
      <4> QED BY <2>7, <4>1, <4>2
    <3> QED BY <1>1, <1>4, <2>2, <2>4, <2>7, <3>1 DEF RunsBelong
  <2> QED BY <2>7, <2>8, <2>9, <2>10, <2>11 DEF MarkerInv
<1> QED BY <1>6, <1>7 DEF ManualReserves, bodyVars

(* What the end of a manual run writes: the job as the result leaves it, or *)
(* nothing of it, over what the file holds of the other jobs.               *)
Merged(f, j, r, spent) ==
  IF spent THEN [i \in DOMAIN f \ {j} |-> f[i]]
  ELSE [i \in DOMAIN f |-> IF i = j THEN r ELSE f[i]]

LEMMA MergedFacts ==
  ASSUME NEW f \in Stores, NEW j, NEW r \in JobRecords, NEW spent \in BOOLEAN
  PROVE  LET g == Merged(f, j, r, spent) IN
         /\ g \in Stores /\ DOMAIN g \subseteq DOMAIN f
         /\ \A i \in DOMAIN f : i # j => i \in DOMAIN g /\ g[i] = f[i]
         /\ j \in DOMAIN g => g[j] = r
<1>1. DOMAIN f \subseteq Jobs /\ \A i \in DOMAIN f : f[i] \in JobRecords
  BY StoreIs
<1>2. CASE spent
  <2> DEFINE D == DOMAIN f \ {j}
             g == [i \in D |-> f[i]]
  <2>1. Merged(f, j, r, spent) = g
    BY <1>2 DEF Merged
  <2>2. D \in SUBSET Jobs /\ g \in [D -> JobRecords]
    BY <1>1
  <2>3. g \in Stores
    BY <2>2 DEF Stores
  <2> QED BY <2>1, <2>3
<1>3. CASE ~spent
  <2> DEFINE g == [i \in DOMAIN f |-> IF i = j THEN r ELSE f[i]]
  <2>1. Merged(f, j, r, spent) = g
    BY <1>3 DEF Merged
  <2>2. g \in Stores
    BY <1>1 DEF Stores
  <2> QED BY <2>1, <2>2
<1> QED BY <1>2, <1>3

LEMMA ManualFinishesStep ==
  ASSUME MarkerInv, NEW s \in Services, ManualFinishes(s)
  PROVE  MarkerInv'
<1> DEFINE j == manual[s].job
           o == [job |-> j, status |-> manual[s].result.status,
                 started |-> manual[s].at, ended |-> manual[s].result.ended]
           done == ApplyJobResult(mem[s][j], o, manual[s].mode = "force")
           m == Merged(disk, j, done, IsSpent(mem[s][j], o))
           g == Maintained(m, now, TRUE)
           p == Reloaded(tick[s])
<1>1. /\ TypeOK /\ OnlyCurrentWorks /\ RunsBelong /\ HoldersAreUnderWay /\ MarkersStand /\ OneHolder
      /\ manual[s].phase = "finish"
  BY DEF MarkerInv, ManualFinishes
<1>2. /\ s = current /\ boot[s].phase # "clear" /\ j \in Jobs
      /\ \A b \in bodies : b.svc = s /\ b.by # "manual"
      /\ \A h \in holders : h.svc = s
  BY <1>1, CurrentOnly DEF OnlyCurrentWorks, Quiet, RunsBelong, Awaits
<1>3. /\ manual' = [manual EXCEPT ![s] = NoManual]
      /\ UNCHANGED <<now, current, boot, bodies>>
  BY DEF ManualFinishes
<1>4. \/ /\ j \in DOMAIN mem[s] /\ Persist(s, g)
         /\ armed' = [armed EXCEPT ![s] = WantsTimer(disk')]
         /\ tick' = [tick EXCEPT ![s] = p]
         /\ holders' = ResultsApplied({RunId(s, "manual", j)})
      \/ j \notin DOMAIN mem[s] /\ UNCHANGED <<disk, mem, armed, tick, holders>>
  BY DEF ManualFinishes, Arm, Merged, Reloaded
<1>5. /\ mem[s] \in Stores /\ disk \in Stores /\ manual[s] \in ManualRuns /\ now \in Nat \ {0}
      /\ tick[s] \in Processes
  BY <1>1 DEF TypeOK
<1>6. o \in Results /\ (manual[s].mode = "force") \in BOOLEAN
  BY <1>2, <1>5 DEF ManualRuns, Results
<1>7. j \in DOMAIN mem[s] => m \in Stores /\ g \in Stores
  <2>1. ASSUME j \in DOMAIN mem[s]
        PROVE  done \in JobRecords
    <3>1. mem[s][j] \in JobRecords
      BY <1>5, <2>1, StoreIs
    <3> HIDE DEF o
    <3> QED BY <1>6, <3>1, ApplyJobResultFacts
  <2>2. IsSpent(mem[s][j], o) \in BOOLEAN
    BY DEF IsSpent
  <2> HIDE DEF done, o
  <2>3. j \in DOMAIN mem[s] => m \in Stores
    BY <1>5, <2>1, <2>2, MergedFacts
  <2> HIDE DEF m
  <2> QED BY <1>5, <2>3, MaintainedFacts
<1>8. ASSUME NEW h \in holders'
      PROVE  /\ h \in holders /\ h.svc = s
             /\ h.by # "manual"
             /\ h \in UnderWay' \/ Reported(h)'
             /\ j \in DOMAIN mem[s] => h.job # j
  <2>1. h \in holders /\ (j \in DOMAIN mem[s] => h.job # j)
    <3>1. CASE holders' = ResultsApplied({RunId(s, "manual", j)})
      BY <1>1, <3>1, AppliedSpares, RunIdFields
    <3> QED BY <1>4, <3>1
  <2>2. h.svc = s /\ h.by \in {"boot", "tick", "manual"}
    BY <1>1, <1>2, <2>1, RunIdIs DEF TypeOK
  <2>3. h.by # "manual"
    <3>1. h.by = "manual" => h.job = j
      <4>1. h.by = "manual" => Reported(h)
        BY <1>1, <1>2, <2>1, <2>2, ReportedRuns DEF RunsOf
      <4> QED BY <2>2, <4>1 DEF Reported
    <3>2. h.job \in DOMAIN mem[s]
      BY <1>1, <2>1, <2>2 DEF MarkersStand, MarkerStands
    <3> QED BY <2>1, <3>1, <3>2
  <2>4. h \in UnderWay' \/ Reported(h)'
    <3>1. Reported(h) => Reported(h)'
      <4>1. tick'[s].results = tick[s].results
        <5> HIDE DEF g
        <5> QED BY <1>1, <1>4, <1>5, ReloadedFacts DEF TypeOK
      <4> QED BY <1>3, <2>2, <2>3, <4>1, ReportedStays
    <3> QED BY <1>1, <1>3, <2>1, <3>1 DEF HoldersAreUnderWay, UnderWay
  <2> QED BY <2>1, <2>2, <2>3, <2>4
<1>9. MarkersStand'
  <2>1. CASE j \notin DOMAIN mem[s]
    BY <1>1, <1>4, <2>1 DEF MarkersStand
  <2>2. CASE j \in DOMAIN mem[s]
    <3>1. ASSUME NEW h \in holders'
          PROVE  h.svc = s /\ MarkerStands(g, h)
      <4>1. /\ h \in holders /\ h.svc = s /\ h.job # j /\ MarkerStands(disk, h)
            /\ h.job \in {h.job} /\ m \in Stores /\ g \in Stores
        BY <1>1, <1>7, <1>8, <2>2 DEF MarkersStand
      <4>2. Keeps(disk, m, {h.job})
        <5>1. \A i \in DOMAIN disk : i # j => i \in DOMAIN m /\ m[i] = disk[i]
          <6>1. mem[s][j] \in JobRecords
            BY <1>5, <2>2, StoreIs
          <6>2. done \in JobRecords
            <7> HIDE DEF o
            <7> QED BY <1>6, <6>1, ApplyJobResultFacts
          <6>3. IsSpent(mem[s][j], o) \in BOOLEAN
            BY DEF IsSpent
          <6> HIDE DEF done, o
          <6> QED BY <1>5, <6>2, <6>3, MergedFacts
        <5> HIDE DEF m
        <5> QED BY <4>1, <5>1 DEF Keeps
      <4> HIDE DEF m
      <4>3. Keeps(m, g, {h.job})
        BY <1>5, <4>1, MaintainedKeeps
      <4> HIDE DEF g
      <4>4. Keeps(disk, g, {h.job})
        BY <4>2, <4>3, KeepsTransitive
      <4> QED BY <1>5, <4>1, <4>4, KeepsMarker
    <3> HIDE DEF g
    <3> QED BY <1>1, <1>4, <1>7, <2>2, <3>1, MarkersMove
  <2> QED BY <2>1, <2>2
<1> HIDE DEF m, g
<1>10. /\ disk' \in Stores /\ mem' \in [Services -> Stores]
       /\ armed' \in [Services -> BOOLEAN]
       /\ \A x \in Services : x # s => armed'[x] = armed[x]
  <2>1. WantsTimer(disk') \in BOOLEAN
    BY DEF WantsTimer
  <2> QED BY <1>1, <1>4, <1>7, <2>1, Persisted DEF TypeOK
<1>11. p \in Processes /\ p.phase = tick[s].phase /\ p.results = tick[s].results
  BY <1>5, ReloadedFacts
<1> HIDE DEF p, o
<1>12. /\ tick' \in [Services -> Processes]
       /\ \A x \in Services : /\ tick'[x].phase = tick[x].phase
                              /\ tick'[x].results = tick[x].results
  BY <1>1, <1>4, <1>11 DEF TypeOK
<1>13. /\ manual' \in [Services -> ManualRuns] /\ manual'[s] = NoManual
       /\ \A x \in Services : x # s => manual'[x] = manual[x]
  BY <1>1, <1>3, NoManualFacts DEF TypeOK
<1>14. TypeOK'
  BY <1>1, <1>3, <1>8, <1>10, <1>12, <1>13 DEF TypeOK
<1>15. OnlyCurrentWorks'
  BY <1>1, <1>2, <1>3, <1>10, <1>12, <1>13 DEF OnlyCurrentWorks, Quiet
<1>16. RunsBelong'
  <2>1. ASSUME NEW b \in bodies'
        PROVE  Awaits(b.svc, b.by)' /\ (b.by = "manual" => b.job = manual'[b.svc].job)
    BY <1>1, <1>2, <1>3, <1>12 DEF RunsBelong, Awaits
  <2> QED BY <1>1, <1>3, <1>12, <1>13, <2>1, NoManualFacts DEF RunsBelong
<1>17. HoldersAreUnderWay' /\ OneHolder'
  BY <1>1, <1>8 DEF HoldersAreUnderWay, OneHolder
<1> QED BY <1>9, <1>14, <1>15, <1>16, <1>17 DEF MarkerInv

(* The report of a run, to each of the processes that wait for one. *)
LEMMA Reports ==
  ASSUME NEW b, NEW x
  PROVE  LET o == [job |-> b.job, status |-> x, started |-> b.started, ended |-> now] IN
         Report(b, x) =>
           /\ b.by = "boot" => /\ boot' = [boot EXCEPT ![b.svc] = Told(boot[b.svc], boot[b.svc].results \cup {o})]
                               /\ UNCHANGED <<tick, manual>>
           /\ b.by = "tick" => /\ tick' = [tick EXCEPT ![b.svc] = Told(tick[b.svc], tick[b.svc].results \cup {o})]
                               /\ UNCHANGED <<boot, manual>>
           /\ b.by = "manual" => /\ manual' = [manual EXCEPT ![b.svc] = Ended(manual[b.svc], x, now)]
                                 /\ UNCHANGED <<boot, tick>>
<1>1. CASE b.by = "boot"
  BY <1>1 DEF Report, Told
<1>2. CASE b.by = "tick"
  BY <1>2 DEF Report, Told
<1>3. CASE b.by = "manual"
  BY <1>3 DEF Report, Ended
<1> QED BY <1>1, <1>2, <1>3

LEMMA BodyEndsStep ==
  ASSUME MarkerInv, NEW b \in bodies, NEW x \in Outcomes, BodyEnds(b, x)
  PROVE  MarkerInv'
<1> DEFINE s == b.svc
           o == [job |-> b.job, status |-> x, started |-> b.started, ended |-> now]
<1>1. TypeOK /\ OnlyCurrentWorks /\ RunsBelong /\ HoldersAreUnderWay /\ MarkersStand /\ OneHolder
  BY DEF MarkerInv
<1>2. /\ bodies' = bodies \ {b} /\ Report(b, x)
      /\ UNCHANGED <<now, disk, mem, current, armed, holders>>
  BY DEF BodyEnds
<1>3. /\ \A c \in bodies : /\ c.svc \in Services /\ c.by \in {"boot", "tick", "manual"}
                           /\ IdOf(c) = RunId(c.svc, c.by, c.job)
                           /\ IdOf(c).svc = c.svc /\ IdOf(c).by = c.by /\ IdOf(c).job = c.job
      /\ \A h \in holders : h.svc \in Services /\ h.by \in {"boot", "tick", "manual"}
  BY <1>1, IdOfFields, RunIdIs DEF TypeOK, IdOf
<1>4. o \in Results /\ x \in Statuses /\ now \in Nat
  BY <1>1, IdOfFields, CronAssumption DEF TypeOK, Results, Statuses
<1>5. /\ boot[s] \in Processes /\ tick[s] \in Processes /\ manual[s] \in ManualRuns
      /\ boot[s].results \in SUBSET Results /\ tick[s].results \in SUBSET Results
  BY <1>1, <1>3, ProcessFields DEF TypeOK
<1>6. MarkersStand' /\ OneHolder'
  BY <1>1, <1>2 DEF MarkersStand, OneHolder
<1>7. /\ \A c \in bodies' : c \in bodies /\ c # b
      /\ \A c \in bodies' : ~(c.by = "manual" /\ b.by = "manual" /\ c.svc = s)
      /\ \A c, d \in bodies' : IdOf(c) = IdOf(d) => c = d
  <2>1. ASSUME NEW c \in bodies', c.by = "manual", b.by = "manual", c.svc = s
        PROVE  FALSE
    <3>1. c \in bodies /\ c # b
      BY <1>2
    <3>2. c.job = b.job
      BY <1>1, <2>1, <3>1 DEF RunsBelong
    <3>3. IdOf(c) = IdOf(b)
      BY <1>3, <2>1, <3>1, <3>2
    <3> QED BY <1>1, <3>1, <3>3 DEF RunsBelong
  <2> QED BY <1>1, <1>2, <2>1 DEF RunsBelong
<1>8. ASSUME NEW h \in holders
      PROVE  h \in UnderWay' \/ h = IdOf(b) \/ Reported(h)
  BY <1>1, <1>2 DEF HoldersAreUnderWay, UnderWay
<1>9. CASE b.by = "boot"
  <2> DEFINE R == boot[s].results \cup {o}
             p == Told(boot[s], R)
  <2>1. boot' = [boot EXCEPT ![s] = p] /\ UNCHANGED <<tick, manual>>
    BY <1>2, <1>9, Reports
  <2>2. R \in SUBSET Results
    BY <1>4, <1>5
  <2> HIDE DEF R
  <2>3. p \in Processes /\ p.phase = boot[s].phase /\ p.results = R
    BY <1>5, <2>2, ToldFacts
  <2> HIDE DEF p
  <2>4. /\ boot' \in [Services -> Processes] /\ boot'[s] = p
        /\ \A y \in Services : y # s => boot'[y] = boot[y]
    BY <1>1, <1>3, <2>1, <2>3 DEF TypeOK
  <2>5. TypeOK'
    BY <1>1, <1>2, <2>1, <2>4 DEF TypeOK
  <2>6. OnlyCurrentWorks'
    BY <1>1, <1>2, <2>1, <2>3, <2>4 DEF OnlyCurrentWorks, Quiet
  <2>7. RunsBelong'
    <3>1. boot[s].phase = "run"
      BY <1>1, <1>9 DEF RunsBelong, Awaits
    <3>2. ASSUME NEW c \in bodies'
          PROVE  Awaits(c.svc, c.by)' /\ (c.by = "manual" => c.job = manual'[c.svc].job)
      BY <1>1, <1>3, <1>7, <2>1, <2>3, <2>4 DEF RunsBelong, Awaits
    <3> QED BY <1>1, <1>7, <2>1, <2>3, <2>4, <3>1, <3>2 DEF RunsBelong
  <2>8. ASSUME NEW h \in holders
        PROVE  h \in UnderWay' \/ Reported(h)'
    <3>1. BootRuns(h.svc) \subseteq BootRuns(h.svc)'
      BY <1>3, <2>3, <2>4 DEF BootRuns, R
    <3>2. h = IdOf(b) => h \in BootRuns(h.svc)'
      <4>1. IdOf(b) = RunId(s, "boot", o.job) /\ IdOf(b).svc = s /\ s \in Services
        BY <1>3, <1>9
      <4>2. o \in boot'[s].results
        BY <2>3, <2>4 DEF R
      <4> HIDE DEF o
      <4> QED BY <4>1, <4>2 DEF BootRuns
    <3> QED BY <1>3, <1>8, <1>9, <2>1, <3>1, <3>2 DEF Reported, TickRuns
  <2>9. HoldersAreUnderWay'
    BY <1>2, <2>8 DEF HoldersAreUnderWay
  <2> QED BY <1>6, <2>5, <2>6, <2>7, <2>9 DEF MarkerInv
<1>10. CASE b.by = "tick"
  <2> DEFINE R == tick[s].results \cup {o}
             p == Told(tick[s], R)
  <2>1. tick' = [tick EXCEPT ![s] = p] /\ UNCHANGED <<boot, manual>>
    BY <1>2, <1>10, Reports
  <2>2. R \in SUBSET Results
    BY <1>4, <1>5
  <2> HIDE DEF R
  <2>3. p \in Processes /\ p.phase = tick[s].phase /\ p.results = R
    BY <1>5, <2>2, ToldFacts
  <2> HIDE DEF p
  <2>4. /\ tick' \in [Services -> Processes] /\ tick'[s] = p
        /\ \A y \in Services : y # s => tick'[y] = tick[y]
    BY <1>1, <1>3, <2>1, <2>3 DEF TypeOK
  <2>5. TypeOK'
    BY <1>1, <1>2, <2>1, <2>4 DEF TypeOK
  <2>6. OnlyCurrentWorks'
    BY <1>1, <1>2, <2>1, <2>3, <2>4 DEF OnlyCurrentWorks, Quiet
  <2>7. RunsBelong'
    <3>1. tick[s].phase = "run"
      BY <1>1, <1>10 DEF RunsBelong, Awaits
    <3>2. ASSUME NEW c \in bodies'
          PROVE  Awaits(c.svc, c.by)' /\ (c.by = "manual" => c.job = manual'[c.svc].job)
      BY <1>1, <1>3, <1>7, <2>1, <2>3, <2>4 DEF RunsBelong, Awaits
    <3> QED BY <1>1, <1>7, <2>1, <2>3, <2>4, <3>1, <3>2 DEF RunsBelong
  <2>8. ASSUME NEW h \in holders
        PROVE  h \in UnderWay' \/ Reported(h)'
    <3>1. TickRuns(h.svc) \subseteq TickRuns(h.svc)'
      BY <1>3, <2>3, <2>4 DEF TickRuns, R
    <3>2. h = IdOf(b) => h \in TickRuns(h.svc)'
      <4>1. IdOf(b) = RunId(s, "tick", o.job) /\ IdOf(b).svc = s /\ s \in Services
        BY <1>3, <1>10
      <4>2. o \in tick'[s].results
        BY <2>3, <2>4 DEF R
      <4> HIDE DEF o
      <4> QED BY <4>1, <4>2 DEF TickRuns
    <3> QED BY <1>3, <1>8, <1>10, <2>1, <3>1, <3>2 DEF Reported, BootRuns
  <2>9. HoldersAreUnderWay'
    BY <1>2, <2>8 DEF HoldersAreUnderWay
  <2> QED BY <1>6, <2>5, <2>6, <2>7, <2>9 DEF MarkerInv
<1>11. CASE b.by = "manual"
  <2> DEFINE p == Ended(manual[s], x, now)
  <2>1. manual' = [manual EXCEPT ![s] = p] /\ UNCHANGED <<boot, tick>>
    BY <1>2, <1>11, Reports
  <2>2. p \in ManualRuns /\ p.phase = "finish" /\ p.job = manual[s].job /\ p.at = manual[s].at
    BY <1>4, <1>5, EndedFacts
  <2> HIDE DEF p, o
  <2>3. /\ manual' \in [Services -> ManualRuns] /\ manual'[s] = p
        /\ \A y \in Services : y # s => manual'[y] = manual[y]
    BY <1>1, <1>3, <2>1, <2>2 DEF TypeOK
  <2>4. manual[s].phase = "run" /\ manual[s].job = b.job
    BY <1>1, <1>11 DEF RunsBelong, Awaits
  <2>5. TypeOK'
    BY <1>1, <1>2, <2>1, <2>3 DEF TypeOK
  <2>6. OnlyCurrentWorks'
    BY <1>1, <1>2, <1>3, <2>1, <2>2, <2>3, <2>4 DEF OnlyCurrentWorks, Quiet
  <2>7. RunsBelong'
    <3>1. ASSUME NEW c \in bodies'
          PROVE  Awaits(c.svc, c.by)' /\ (c.by = "manual" => c.job = manual'[c.svc].job)
      BY <1>1, <1>3, <1>7, <1>11, <2>1, <2>3 DEF RunsBelong, Awaits
    <3> QED BY <1>1, <1>7, <2>1, <2>2, <2>3, <2>4, <3>1 DEF RunsBelong
  <2>8. ASSUME NEW h \in holders
        PROVE  h \in UnderWay' \/ Reported(h)'
    BY <1>3, <1>8, <1>11, <2>1, <2>2, <2>3, <2>4 DEF Reported, BootRuns, TickRuns
  <2>9. HoldersAreUnderWay'
    BY <1>2, <2>8 DEF HoldersAreUnderWay
  <2> QED BY <1>6, <2>5, <2>6, <2>7, <2>9 DEF MarkerInv
<1> QED BY <1>3, <1>9, <1>10, <1>11

(* An edit saves a store in which the markers that still stand are. *)
LEMMA EditStep ==
  ASSUME MarkerInv, NEW s \in Services, CanEdit(s), NEW g \in Stores, Saves(s, g),
         holders' \subseteq holders, \A h \in holders' : MarkerStands(g, h)
  PROVE  MarkerInv'
<1>1. /\ TypeOK /\ OnlyCurrentWorks /\ RunsBelong /\ HoldersAreUnderWay /\ MarkersStand /\ OneHolder
      /\ s = current /\ boot[s].phase # "clear"
  BY DEF MarkerInv, CanEdit
<1>2. /\ Persist(s, g)
      /\ armed' = [armed EXCEPT ![s] = WantsTimer(disk')]
      /\ UNCHANGED <<now, current, boot, tick, manual, bodies>>
  BY DEF Saves, Arm
<1>3. armed' \in [Services -> BOOLEAN] /\ \A y \in Services : y # s => armed'[y] = armed[y]
  <2>1. WantsTimer(disk') \in BOOLEAN
    BY DEF WantsTimer
  <2> QED BY <1>1, <1>2, <2>1 DEF TypeOK
<1>4. TypeOK'
  BY <1>1, <1>2, <1>3, Persisted DEF TypeOK
<1>5. OnlyCurrentWorks'
  BY <1>1, <1>2, <1>3 DEF OnlyCurrentWorks, Quiet
<1>6. RunsBelong'
  BY <1>1, <1>2 DEF RunsBelong, Awaits
<1>7. HoldersAreUnderWay' /\ OneHolder'
  <2>1. \A h \in holders' : Reported(h) => Reported(h)'
    BY <1>2, ReportedStays
  <2> QED BY <1>1, <1>2, <2>1, HoldersShrink
<1>8. MarkersStand'
  <2>1. \A h \in holders' : h.svc = s /\ MarkerStands(g, h)
    BY <1>1, CurrentOnly
  <2> QED BY <1>1, <1>2, <2>1, MarkersMove
<1> QED BY <1>4, <1>5, <1>6, <1>7, <1>8 DEF MarkerInv

(* The stores edits make. *)
Added(f, j, r) == [i \in DOMAIN f \cup {j} |-> IF i = j THEN r ELSE f[i]]

LEMMA AddedFacts ==
  ASSUME NEW f \in Stores, NEW j \in Jobs, NEW r \in JobRecords
  PROVE  /\ Added(f, j, r) \in Stores /\ DOMAIN Added(f, j, r) = DOMAIN f \cup {j}
         /\ \A i \in DOMAIN f : i # j => Added(f, j, r)[i] = f[i]
         /\ Added(f, j, r)[j] = r
<1> DEFINE D == DOMAIN f \cup {j}
           g == [i \in D |-> IF i = j THEN r ELSE f[i]]
<1>1. DOMAIN f \subseteq Jobs /\ \A i \in DOMAIN f : f[i] \in JobRecords
  BY StoreIs
<1>2. Added(f, j, r) = g
  BY DEF Added
<1>3. D \in SUBSET Jobs /\ g \in [D -> JobRecords]
  BY <1>1
<1>4. g \in Stores
  BY <1>3 DEF Stores
<1> QED BY <1>2, <1>4

LEMMA AddStep ==
  ASSUME MarkerInv, NEW s \in Services, NEW j \in Jobs, Add(s, j)
  PROVE  MarkerInv'
<1> DEFINE f == Added(mem[s], j, NewJob(j, now))
           g == RecomputeNextRuns(f, now)
<1>1. /\ TypeOK /\ MarkersStand /\ CanEdit(s) /\ j \notin DOMAIN mem[s]
      /\ Saves(s, g) /\ holders' = holders
  BY DEF MarkerInv, Add, Added
<1>2. mem[s] \in Stores /\ now \in Nat \ {0} /\ s = current
  BY <1>1 DEF TypeOK, CanEdit
<1>3. NewJob(j, now) \in JobRecords
  BY <1>2, NewJobFacts
<1>4. /\ f \in Stores /\ DOMAIN f = DOMAIN mem[s] \cup {j}
      /\ \A i \in DOMAIN mem[s] : i # j => f[i] = mem[s][i]
  <2> DEFINE m == mem[s]
             r == NewJob(j, now)
  <2>1. m \in Stores /\ r \in JobRecords
    BY <1>2, <1>3
  <2> HIDE DEF m, r
  <2>2. /\ Added(m, j, r) \in Stores /\ DOMAIN Added(m, j, r) = DOMAIN m \cup {j}
        /\ \A i \in DOMAIN m : i # j => Added(m, j, r)[i] = m[i]
        /\ Added(m, j, r)[j] = r
    BY <2>1, AddedFacts
  <2> QED BY <2>2 DEF m, r
<1> HIDE DEF f
<1>5. g \in Stores
  BY <1>2, <1>4, RecomputeNextRunsFacts
<1>6. ASSUME NEW h \in holders'
      PROVE  MarkerStands(g, h)
  <2>1. h \in holders /\ MarkerStands(mem[s], h) /\ h.job \in {h.job}
    BY <1>1, <1>2, CurrentOnly DEF MarkersStand
  <2>2. Keeps(mem[s], f, {h.job})
    BY <1>1, <1>4, <2>1 DEF Keeps
  <2>3. Keeps(f, g, {h.job})
    BY <1>2, <1>4, RecomputeKeeps
  <2> HIDE DEF g
  <2>4. Keeps(mem[s], g, {h.job})
    BY <2>2, <2>3, KeepsTransitive
  <2> QED BY <1>2, <1>5, <2>1, <2>4, KeepsMarker
<1> HIDE DEF g
<1> QED BY <1>1, <1>5, <1>6, EditStep

LEMMA RemoveStep ==
  ASSUME MarkerInv, NEW s \in Services, NEW j \in Jobs, Remove(s, j)
  PROVE  MarkerInv'
<1> DEFINE D == DOMAIN mem[s] \ {j}
           g == [i \in D |-> mem[s][i]]
<1>1. /\ TypeOK /\ MarkersStand /\ CanEdit(s) /\ Saves(s, g)
      /\ holders' = Unmarked({j})
  BY DEF MarkerInv, Remove
<1>2. mem[s] \in Stores /\ s = current
  BY <1>1 DEF TypeOK, CanEdit
<1>3. DOMAIN mem[s] \subseteq Jobs /\ \A i \in DOMAIN mem[s] : mem[s][i] \in JobRecords
  BY <1>2, StoreIs
<1>4. g \in Stores
  <2>1. D \in SUBSET Jobs /\ g \in [D -> JobRecords]
    BY <1>3
  <2> QED BY <2>1 DEF Stores
<1>5. ASSUME NEW h \in holders'
      PROVE  MarkerStands(g, h) /\ h \in holders
  <2>1. h \in holders /\ h.job # j
    BY <1>1 DEF Unmarked
  <2>2. MarkerStands(mem[s], h)
    BY <1>1, <1>2, <2>1, CurrentOnly DEF MarkersStand
  <2> QED BY <2>1, <2>2 DEF MarkerStands
<1> HIDE DEF g
<1> QED BY <1>1, <1>4, <1>5, EditStep

LEMMA UpdateStep ==
  ASSUME MarkerInv, NEW s \in Services, NEW j \in Jobs, NEW e \in BOOLEAN, Update(s, j, e)
  PROVE  MarkerInv'
<1> DEFINE patched == WithEnabled(mem[s][j], e)
           repaired == IF e THEN Recomputed(patched, now) ELSE Normalized(patched)
           g == [mem[s] EXCEPT ![j] = repaired]
<1>1. /\ TypeOK /\ MarkersStand /\ CanEdit(s) /\ Saves(s, g) /\ j \in DOMAIN mem[s]
      /\ holders' = IF repaired.running = Undefined THEN Unmarked({j}) ELSE holders
  BY DEF MarkerInv, Update, WithEnabled
<1>2. mem[s] \in Stores /\ now \in Nat /\ s = current
  BY <1>1 DEF TypeOK, CanEdit
<1>3. DOMAIN mem[s] \subseteq Jobs /\ \A i \in DOMAIN mem[s] : mem[s][i] \in JobRecords
  BY <1>2, StoreIs
<1>4. patched \in JobRecords
  BY <1>1, <1>3, WithEnabledFields
<1>b. ~e => patched.enabled = FALSE
  BY <1>1, <1>3, WithEnabledFields
<1>c. e => patched.enabled = TRUE
  BY <1>1, <1>3, WithEnabledFields
<1> HIDE DEF patched
<1>d. ~e => repaired.running = Undefined
  BY <1>4, <1>b DEF Normalized, JobRecords
<1>e. e => repaired.enabled = TRUE
  BY <1>2, <1>4, <1>c, RecomputedFacts
<1>5. repaired \in JobRecords
  BY <1>2, <1>4, RecomputedFacts, NormalizedFacts
<1> HIDE DEF repaired
<1>6. g \in Stores
  BY <1>2, <1>5 DEF Stores
<1>7. ASSUME NEW h \in holders'
      PROVE  MarkerStands(g, h) /\ h \in holders
  <2>1. h \in holders
    BY <1>1 DEF Unmarked
  <2>2. MarkerStands(mem[s], h)
    BY <1>1, <1>2, <2>1, CurrentOnly DEF MarkersStand
  <2>3. CASE h.job # j
    BY <1>2, <2>1, <2>2, <2>3 DEF MarkerStands
  <2>4. CASE h.job = j
    <3>1. repaired.running # Undefined
      BY <1>1, <2>4 DEF Unmarked
    <3>2. repaired.enabled = TRUE
      BY <1>d, <1>e, <3>1
    <3>3. j \in DOMAIN g /\ g[j] = repaired
      BY <1>1, <1>2
    <3> HIDE DEF g
    <3> QED BY <2>1, <2>4, <3>1, <3>2, <3>3 DEF MarkerStands
  <2> QED BY <2>3, <2>4
<1> HIDE DEF g
<1> QED BY <1>1, <1>6, <1>7, EditStep

LEMMA ReplaceStep ==
  ASSUME MarkerInv, ~Overlap, Replace
  PROVE  MarkerInv'
<1> DEFINE c == current + 1
           p == [Idle EXCEPT !.phase = "clear"]
<1>1. /\ TypeOK /\ OnlyCurrentWorks /\ RunsBelong /\ HoldersAreUnderWay
      /\ current < MaxServices
      /\ boot[current].phase = "idle" /\ tick[current].phase = "idle"
      /\ manual[current].phase = "idle"
  BY DEF MarkerInv, Replace
<1>2. /\ current' = c
      /\ armed' = [armed EXCEPT ![current] = FALSE]
      /\ mem' = [mem EXCEPT ![current] = <<>>]
      /\ boot' = [boot EXCEPT ![c] = p]
      /\ UNCHANGED <<now, disk, tick, manual, bodies, holders>>
  BY DEF Replace, bodyVars
<1>3. current \in Services /\ c \in Services /\ c # current
  BY <1>1, CronAssumption DEF TypeOK, Services
<1>4. p \in Processes /\ p.phase = "clear" /\ p.results = {}
  BY IdleFacts, AtPhaseFacts DEF AtPhase, Phases
<1>5. bodies = {} /\ holders = {}
  <2>1. ASSUME NEW b \in bodies
        PROVE  FALSE
    <3>1. b.svc = current /\ b.by \in {"boot", "tick", "manual"} /\ Awaits(b.svc, b.by)
      BY <1>1, CurrentOnly, IdOfFields DEF TypeOK, RunsBelong
    <3> QED BY <1>1, <3>1 DEF Awaits
  <2>2. ASSUME NEW h \in holders
        PROVE  FALSE
    <3>1. h.svc = current /\ h.by \in {"boot", "tick", "manual"}
      BY <1>1, CurrentOnly, RunIdIs DEF TypeOK
    <3>2. Reported(h)
      BY <1>1, <2>1 DEF HoldersAreUnderWay, UnderWay
    <3>3. boot[current].results = {} /\ tick[current].results = {}
      BY <1>1, <1>3 DEF RunsBelong
    <3> QED BY <1>1, <3>1, <3>2, <3>3 DEF Reported, BootRuns, TickRuns
  <2> QED BY <2>1, <2>2
<1> HIDE DEF p, c
<1>6. /\ boot' \in [Services -> Processes] /\ boot'[c] = p
      /\ \A y \in Services : y # c => boot'[y] = boot[y]
      /\ armed' \in [Services -> BOOLEAN] /\ ~armed'[current]
      /\ \A y \in Services : y # current => armed'[y] = armed[y]
  BY <1>1, <1>2, <1>3, <1>4 DEF TypeOK
<1>11. mem' \in [Services -> Stores]
  <2>1. <<>> \in Stores
    BY DEF Stores
  <2> QED BY <1>1, <1>2, <1>3, <2>1 DEF TypeOK
<1>7. TypeOK'
  BY <1>1, <1>2, <1>3, <1>6, <1>11 DEF TypeOK
<1>8. OnlyCurrentWorks'
  BY <1>1, <1>2, <1>3, <1>4, <1>6 DEF OnlyCurrentWorks, Quiet
<1>9. RunsBelong'
  BY <1>1, <1>2, <1>4, <1>5, <1>6 DEF RunsBelong
<1>10. HoldersAreUnderWay' /\ MarkersStand' /\ OneHolder'
  BY <1>2, <1>5 DEF HoldersAreUnderWay, MarkersStand, OneHolder
<1> QED BY <1>7, <1>8, <1>9, <1>10 DEF MarkerInv

LEMMA CrashStep ==
  ASSUME MarkerInv, Crash
  PROVE  MarkerInv'
<1> DEFINE p == [Idle EXCEPT !.phase = "clear"]
<1>1. TypeOK /\ current < MaxServices
  BY DEF MarkerInv, Crash
<1>2. /\ current' = current + 1
      /\ mem' = [s \in Services |-> <<>>]
      /\ armed' = [s \in Services |-> FALSE]
      /\ boot' = [s \in Services |-> IF s = current' THEN p ELSE Idle]
      /\ tick' = [s \in Services |-> Idle]
      /\ manual' = [s \in Services |-> NoManual]
      /\ bodies' = {} /\ holders' = {}
      /\ UNCHANGED <<now, disk>>
  BY DEF Crash
<1>3. current' \in Services
  BY <1>1, <1>2, CronAssumption DEF TypeOK, Services
<1>4. p \in Processes /\ p.phase = "clear" /\ p.results = {}
  BY IdleFacts, AtPhaseFacts DEF AtPhase, Phases
<1> HIDE DEF p
<1>5. /\ Idle \in Processes /\ Idle.phase = "idle" /\ Idle.results = {}
      /\ NoManual \in ManualRuns /\ NoManual.phase = "idle"
  BY IdleFacts, NoManualFacts
<1>6. <<>> \in Stores
  BY DEF Stores
<1>7. /\ mem' \in [Services -> Stores] /\ armed' \in [Services -> BOOLEAN]
      /\ boot' \in [Services -> Processes] /\ tick' \in [Services -> Processes]
      /\ manual' \in [Services -> ManualRuns]
  BY <1>2, <1>4, <1>5, <1>6
<1>8. TypeOK'
  BY <1>1, <1>2, <1>3, <1>7 DEF TypeOK
<1>9. OnlyCurrentWorks'
  BY <1>2, <1>3, <1>4, <1>5 DEF OnlyCurrentWorks, Quiet
<1>10. RunsBelong'
  BY <1>2, <1>4, <1>5 DEF RunsBelong
<1>11. HoldersAreUnderWay' /\ MarkersStand' /\ OneHolder'
  BY <1>2 DEF HoldersAreUnderWay, MarkersStand, OneHolder
<1> QED BY <1>8, <1>9, <1>10, <1>11 DEF MarkerInv

LEMMA ClockTicksStep ==
  ASSUME MarkerInv, ClockTicks \/ UNCHANGED vars
  PROVE  MarkerInv'
<1>1. /\ now' \in {now, now + 1}
      /\ UNCHANGED <<disk, mem, current, armed, boot, tick, manual, bodies, holders>>
  BY DEF ClockTicks, vars, bodyVars
<1>2. TypeOK'
  BY <1>1 DEF MarkerInv, TypeOK
<1>3. OnlyCurrentWorks' /\ RunsBelong'
  BY <1>1 DEF MarkerInv, OnlyCurrentWorks, Quiet, RunsBelong, Awaits
<1>4. HoldersAreUnderWay'
  BY <1>1 DEF MarkerInv, HoldersAreUnderWay, UnderWay, Reported, BootRuns, TickRuns
<1>5. MarkersStand' /\ OneHolder'
  BY <1>1 DEF MarkerInv, MarkersStand, OneHolder
<1> QED BY <1>2, <1>3, <1>4, <1>5 DEF MarkerInv

LEMMA TimerFiresStep ==
  ASSUME MarkerInv, NEW s \in Services, TimerFires(s)
  PROVE  MarkerInv'
<1>1. CASE tick[s].phase = "idle"
  BY <1>1, TickStartsStep
<1>2. CASE tick[s].phase # "idle"
  <2>1. UNCHANGED vars
    BY <1>2, TimerStaysSet DEF MarkerInv, TimerFires, vars, bodyVars
  <2> QED BY <2>1, ClockTicksStep
<1> QED BY <1>1, <1>2

-----------------------------------------------------------------------------
LEMMA RunsStep ==
  ASSUME MarkerInv, NEW s \in Services, NEW by, Runs(s, by)
  PROVE  MarkerInv'
<1>1. PICK b \in bodies : \/ StartRunsJob(b) \/ TickRunsJob(b)
                          \/ \E status \in Outcomes : BodyEnds(b, status)
  BY DEF Runs, RunsOf
<1> QED BY <1>1, StartRunsJobStep, TickRunsJobStep, BodyEndsStep

(* Every step keeps the markers in order, unless services may overlap. *)
LEMMA NextMarkerInv ==
  ASSUME ~Overlap, MarkerInv, [Next]_vars
  PROVE  MarkerInv'
<1>1. ASSUME NEW s \in Services, Start(s)
      PROVE  MarkerInv'
  BY <1>1, StartClearsStep, StartPlansStep, RunsStep, StartAppliesStep, StartArmsStep DEF Start
<1>2. ASSUME NEW s \in Services, OnTimer(s)
      PROVE  MarkerInv'
  BY <1>2, TimerFiresStep, TickCollectsStep, RunsStep, TickAppliesStep, TickEndsStep DEF OnTimer
<1>3. ASSUME NEW s \in Services, ManualRun(s)
      PROVE  MarkerInv'
  BY <1>3, ManualReservesStep, RunsStep, ManualFinishesStep DEF ManualRun
<1>4. ASSUME NEW s \in Services, NEW j \in Jobs, Calls(s, j)
      PROVE  MarkerInv'
  BY <1>4, ManualChecksStep, AddStep, UpdateStep, RemoveStep DEF Calls
<1> QED BY <1>1, <1>2, <1>3, <1>4, ReplaceStep, CrashStep, ClockTicksStep DEF Next

(* While services do not overlap, the markers and the processes that hold   *)
(* them stay in order.                                                      *)
THEOREM MarkersStayInOrder ==
  ASSUME ~Overlap
  PROVE  Spec => []MarkerInv
<1>1. MarkerInv /\ [Next]_vars => MarkerInv'
  BY NextMarkerInv
<1> QED BY <1>1, InitMarkerInv, PTL DEF Spec

(* Two runs that are both under their marker are one run.                   *)
THEOREM JobsRunOnceAtATime ==
  ASSUME ~Overlap
  PROVE  Spec => []OneRunAtATime
<1>1. MarkerInv => OneRunAtATime
  <2> SUFFICES ASSUME MarkerInv, NEW b \in bodies, NEW c \in bodies,
                      b.job = c.job, {IdOf(b), IdOf(c)} \subseteq holders
               PROVE  b = c
    BY DEF OneRunAtATime
  <2>1. IdOf(b).job = IdOf(c).job
    BY IdOfFields DEF MarkerInv, TypeOK
  <2>2. IdOf(b) = IdOf(c)
    BY <2>1 DEF MarkerInv, OneHolder
  <2> QED BY <2>2 DEF MarkerInv, RunsBelong
<1> QED BY <1>1, MarkersStayInOrder, PTL

-----------------------------------------------------------------------------
(* What was executed lies in the past. *)
HappenedBy(o, n) == o.started # Undefined /\ o.started <= o.ended /\ o.ended <= n
TimesPass ==
  /\ \A s \in Services :
       /\ \A o \in boot[s].results \cup tick[s].results : HappenedBy(o, now)
       /\ manual[s].phase # "idle" => manual[s].at <= now
       /\ manual[s].phase = "finish" =>
            manual[s].at <= manual[s].result.ended /\ manual[s].result.ended <= now
  /\ \A b \in bodies : b.started <= now

(* A slot lies ahead of the last run; only a one-shot job that is enabled   *)
(* again may be due at a time it ran after.                                 *)
Ahead(r, n) ==
  /\ r.last <= n
  /\ r.enabled /\ r.next # Undefined /\ r.last # Undefined =>
       r.last < r.next \/ (r.kind = "at" /\ r.next = At)
SlotsAhead(store, n) == \A j \in DOMAIN store : Ahead(store[j], n)
StoresAhead == SlotsAhead(disk, now) /\ \A s \in Services : SlotsAhead(mem[s], now)

(* Memory differs from the file in markers and in slots the file lacks.     *)
SameSlots(f, g) ==
  /\ DOMAIN f = DOMAIN g
  /\ \A j \in DOMAIN f :
       /\ f[j].enabled = g[j].enabled
       /\ f[j].enabled /\ f[j].next # Undefined => g[j].next = f[j].next
MemoryFollows ==
  boot[current].phase # "clear" => SameSlots(disk, mem[current])

SlotInv == TimesPass /\ StoresAhead /\ MemoryFollows

-----------------------------------------------------------------------------
(* What the operations on stores do to slots. *)
LEMMA MarkedAhead ==
  ASSUME NEW f \in Stores, NEW D, NEW n \in Nat, NEW k \in Nat, SlotsAhead(f, k)
  PROVE  SlotsAhead(Marked(f, D, n), k)
<1> DEFINE g == Marked(f, D, n)
<1>1. /\ DOMAIN g = DOMAIN f
      /\ \A j \in DOMAIN f : /\ g[j].kind = f[j].kind /\ g[j].enabled = f[j].enabled
                             /\ g[j].last = f[j].last /\ g[j].next = f[j].next
  BY MarkedFacts
<1> HIDE DEF g
<1>2. SlotsAhead(g, k)
  BY <1>1 DEF SlotsAhead, Ahead
<1> QED BY <1>2 DEF g

LEMMA DeferredAhead ==
  ASSUME NEW f \in Stores, NEW D, NEW n \in Nat, SlotsAhead(f, n)
  PROVE  SlotsAhead(Deferred(f, D, n), n)
<1> DEFINE g == Deferred(f, D, n)
<1>1. /\ DOMAIN g = DOMAIN f
      /\ \A j \in DOMAIN f :
           /\ g[j].kind = f[j].kind /\ g[j].enabled = f[j].enabled
           /\ g[j].last = f[j].last
           /\ g[j].next = IF j \in D /\ f[j].enabled THEN n + 1 ELSE f[j].next
  BY DeferredFacts
<1>2. \A j \in DOMAIN f : f[j].last \in Nat
  BY StoreIs, JobFields
<1> HIDE DEF g
<1>3. SlotsAhead(g, n)
  BY <1>1, <1>2 DEF SlotsAhead, Ahead
<1> QED BY <1>3 DEF g

LEMMA NextRunAhead ==
  ASSUME NEW r \in JobRecords, NEW n \in Nat, r.last <= n,
         NEW x \in JobRecords, x.kind = r.kind, x.enabled = r.enabled, x.last = r.last,
         x.enabled => x.next = NextRun(r, n)
  PROVE  Ahead(x, n)
<1>1. /\ r.enabled /\ r.kind = "at" => NextRun(r, n) \in {Undefined, At}
      /\ r.enabled /\ r.kind # "at" /\ r.last # Undefined /\ r.last <= n => r.last < NextRun(r, n)
  BY NextRunFacts
<1> QED BY <1>1 DEF Ahead

(* A pass that moves executed slots puts even those of a forced run ahead.  *)
LEMMA MaintainedAhead ==
  ASSUME NEW f \in Stores, NEW n \in Nat \ {0}, NEW e \in BOOLEAN,
         \A j \in DOMAIN f : Ahead(f[j], n) \/ (e /\ Executed(f[j], n) /\ f[j].last <= n)
  PROVE  SlotsAhead(Maintained(f, n, e), n)
<1> DEFINE g == Maintained(f, n, e)
           moved(j) == f[j].next = Undefined \/ (e /\ Executed(f[j], n))
<1>1. /\ g \in Stores /\ DOMAIN g = DOMAIN f
      /\ \A j \in DOMAIN f :
           /\ g[j].kind = f[j].kind /\ g[j].enabled = f[j].enabled
           /\ g[j].last = f[j].last
           /\ f[j].enabled => g[j].next = IF moved(j) THEN NextRun(f[j], n) ELSE f[j].next
  BY MaintainedFacts
<1> HIDE DEF g
<1>2. ASSUME NEW j \in DOMAIN f
      PROVE  Ahead(g[j], n)
  <2>1. f[j] \in JobRecords /\ g[j] \in JobRecords /\ f[j].last <= n
    BY <1>1, StoreIs DEF Ahead
  <2>2. CASE moved(j)
    <3>1. /\ g[j].kind = f[j].kind /\ g[j].enabled = f[j].enabled /\ g[j].last = f[j].last
          /\ g[j].enabled => g[j].next = NextRun(f[j], n)
      BY <1>1, <2>2
    <3> QED BY <2>1, <3>1, NextRunAhead
  <2>3. CASE ~moved(j)
    BY <1>1, <2>1, <2>3 DEF Ahead
  <2> QED BY <2>2, <2>3
<1> QED BY <1>1, <1>2 DEF SlotsAhead, g

LEMMA RecomputeAhead ==
  ASSUME NEW f \in Stores, NEW n \in Nat \ {0}, SlotsAhead(f, n)
  PROVE  SlotsAhead(RecomputeNextRuns(f, n), n)
<1> DEFINE g == RecomputeNextRuns(f, n)
<1>1. /\ g \in Stores /\ DOMAIN g = DOMAIN f
      /\ \A j \in DOMAIN f :
           /\ g[j].kind = f[j].kind /\ g[j].enabled = f[j].enabled
           /\ g[j].last = f[j].last
           /\ f[j].enabled => g[j].next \in {f[j].next, NextRun(f[j], n)}
  BY RecomputeNextRunsFacts
<1> HIDE DEF g
<1>2. ASSUME NEW j \in DOMAIN f
      PROVE  Ahead(g[j], n)
  <2>1. f[j] \in JobRecords /\ g[j] \in JobRecords /\ Ahead(f[j], n) /\ f[j].last <= n
    BY <1>1, StoreIs DEF SlotsAhead, Ahead
  <2>2. CASE g[j].enabled => g[j].next = NextRun(f[j], n)
    BY <1>1, <2>1, <2>2, NextRunAhead
  <2>3. CASE g[j].enabled /\ g[j].next = f[j].next
    BY <1>1, <2>1, <2>3 DEF Ahead
  <2> QED BY <1>1, <2>2, <2>3
<1> QED BY <1>1, <1>2 DEF SlotsAhead, g

LEMMA ResultAhead ==
  ASSUME NEW r \in JobRecords, NEW o \in Results, NEW p \in BOOLEAN, NEW n \in Nat,
         HappenedBy(o, n)
  PROVE  LET x == ApplyJobResult(r, o, p) IN
         Ahead(x, n) \/ (p /\ x.enabled /\ Executed(x, n) /\ x.last <= n)
<1> DEFINE x == ApplyJobResult(r, o, p)
<1>1. /\ x \in JobRecords
      /\ x.kind = r.kind /\ x.running = Undefined /\ x.last = o.started
      /\ (o.started <= o.ended /\ o.started # Undefined /\ x.enabled) =>
           \/ o.started < x.next
           \/ p /\ x.kind # "at" /\ x.next = o.ended /\ o.started = o.ended
  BY ApplyJobResultFacts
<1>2. o.started \in Nat /\ o.ended \in Nat
  BY DEF Results
<1> HIDE DEF x
<1>3. Ahead(x, n) \/ (p /\ x.enabled /\ Executed(x, n) /\ x.last <= n)
  BY <1>1, <1>2 DEF HappenedBy, Ahead, Executed, IsPastDue
<1> QED BY <1>3 DEF x

LEMMA OutcomesAhead ==
  ASSUME NEW f \in Stores, NEW R \in SUBSET Results, NEW n \in Nat, SlotsAhead(f, n),
         \A o \in R : HappenedBy(o, n)
  PROVE  SlotsAhead(ApplyOutcomes(f, R), n)
<1> DEFINE g == ApplyOutcomes(f, R)
<1>1. /\ g \in Stores /\ DOMAIN g \subseteq DOMAIN f
      /\ \A j \in DOMAIN f : j \notin {o.job : o \in R} => j \in DOMAIN g /\ g[j] = f[j]
      /\ \A j \in DOMAIN g : j \in {o.job : o \in R} =>
           \E o \in R : g[j] = ApplyJobResult(f[j], o, FALSE)
  BY ApplyOutcomesFacts
<1> HIDE DEF g
<1>2. ASSUME NEW j \in DOMAIN g
      PROVE  Ahead(g[j], n)
  <2>1. CASE j \notin {o.job : o \in R}
    BY <1>1, <2>1 DEF SlotsAhead
  <2>2. CASE j \in {o.job : o \in R}
    <3>1. PICK o \in R : g[j] = ApplyJobResult(f[j], o, FALSE)
      BY <1>1, <2>2
    <3>2. f[j] \in JobRecords /\ o \in Results /\ HappenedBy(o, n) /\ FALSE \in BOOLEAN
      BY <1>1, StoreIs
    <3>3. Ahead(ApplyJobResult(f[j], o, FALSE), n)
      BY <3>2, ResultAhead
    <3> QED BY <3>1, <3>3
  <2> QED BY <2>1, <2>2
<1> QED BY <1>2 DEF SlotsAhead, g

-----------------------------------------------------------------------------
(* Times. *)
LEMMA TimesStay ==
  ASSUME TypeOK, TypeOK', TimesPass, now <= now',
         \A s \in Services :
           /\ boot'[s].results \subseteq boot[s].results
           /\ tick'[s].results \subseteq tick[s].results
           /\ \/ manual'[s] = manual[s]
              \/ manual'[s].phase = "idle"
              \/ manual'[s].phase \in {"reserve", "run"} /\ manual'[s].at <= now,
         \A b \in bodies' : b \in bodies \/ b.started <= now
  PROVE  TimesPass'
<1>1. /\ now \in Nat /\ now' \in Nat
      /\ \A s \in Services : manual'[s].at \in Nat
      /\ \A b \in bodies' : b.started \in Nat
  BY DEF TypeOK, ManualRuns, Bodies
<1>2. ASSUME NEW s \in Services
      PROVE  /\ \A o \in boot'[s].results \cup tick'[s].results : HappenedBy(o, now')
             /\ manual'[s].phase # "idle" => manual'[s].at <= now'
             /\ manual'[s].phase = "finish" =>
                  manual'[s].at <= manual'[s].result.ended /\ manual'[s].result.ended <= now'
  <2>1. ASSUME NEW o \in boot'[s].results \cup tick'[s].results
        PROVE  HappenedBy(o, now')
    <3>1. o \in Results /\ HappenedBy(o, now)
      BY <2>1, ProcessFields DEF TypeOK, TimesPass
    <3>2. o.ended \in Nat
      BY <3>1 DEF Results
    <3> QED BY <1>1, <3>1, <3>2 DEF HappenedBy
  <2>2. manual[s].at \in Nat /\ manual[s].result.ended \in Nat
    BY DEF TypeOK, ManualRuns
  <2>3. /\ manual'[s].phase # "idle" => manual'[s].at <= now'
        /\ manual'[s].phase = "finish" =>
             manual'[s].at <= manual'[s].result.ended /\ manual'[s].result.ended <= now'
    <3>1. CASE manual'[s] = manual[s]
      BY <1>1, <2>2, <3>1 DEF TimesPass
    <3>2. CASE manual'[s].phase \in {"reserve", "run"} /\ manual'[s].at <= now
      <4>1. manual'[s].at <= now'
        BY <1>1, <3>2
      <4> QED BY <3>2, <4>1
    <3> QED BY <3>1, <3>2
  <2> QED BY <2>1, <2>3
<1>3. ASSUME NEW b \in bodies'
      PROVE  b.started <= now'
  BY <1>1 DEF TimesPass
<1> QED BY <1>2, <1>3 DEF TimesPass

LEMMA BodyEndsTimes ==
  ASSUME TypeOK, TypeOK', RunsBelong, TimesPass, NEW b \in bodies, NEW x \in Outcomes, BodyEnds(b, x)
  PROVE  TimesPass'
<1> DEFINE s == b.svc
           o == [job |-> b.job, status |-> x, started |-> b.started, ended |-> now]
<1>1. Running(b) /\ bodies' = bodies \ {b} /\ Report(b, x) /\ now' = now
  BY DEF BodyEnds
<1>2. s \in Services /\ b.by \in {"boot", "tick", "manual"} /\ x \in Statuses /\ o \in Results
  BY IdOfFields, CronAssumption DEF TypeOK, Results, Statuses
<1>3. HappenedBy(o, now) /\ now \in Nat
  BY <1>1 DEF Running, HappenedBy, TimesPass, TypeOK
<1>4. /\ boot[s] \in Processes /\ tick[s] \in Processes /\ manual[s] \in ManualRuns
      /\ boot[s].results \in SUBSET Results /\ tick[s].results \in SUBSET Results
  BY <1>2, ProcessFields DEF TypeOK
<1>5. \A c \in bodies' : c.started <= now
  BY <1>1 DEF TimesPass
<1>6. CASE b.by = "boot"
  <2> DEFINE R == boot[s].results \cup {o}
             p == Told(boot[s], R)
  <2>1. boot' = [boot EXCEPT ![s] = p] /\ UNCHANGED <<tick, manual>>
    BY <1>1, <1>6, Reports
  <2>2. R \in SUBSET Results
    BY <1>2, <1>4
  <2> HIDE DEF R, o
  <2>3. p.results = R
    BY <1>4, <2>2, ToldFacts
  <2> HIDE DEF p
  <2>4. boot'[s].results = R /\ \A y \in Services : y # s => boot'[y] = boot[y]
    BY <1>2, <2>1, <2>3 DEF TypeOK
  <2> QED BY <1>1, <1>3, <1>5, <2>1, <2>4 DEF TimesPass, R
<1>7. CASE b.by = "tick"
  <2> DEFINE R == tick[s].results \cup {o}
             p == Told(tick[s], R)
  <2>1. tick' = [tick EXCEPT ![s] = p] /\ UNCHANGED <<boot, manual>>
    BY <1>1, <1>7, Reports
  <2>2. R \in SUBSET Results
    BY <1>2, <1>4
  <2> HIDE DEF R, o
  <2>3. p.results = R
    BY <1>4, <2>2, ToldFacts
  <2> HIDE DEF p
  <2>4. tick'[s].results = R /\ \A y \in Services : y # s => tick'[y] = tick[y]
    BY <1>2, <2>1, <2>3 DEF TypeOK
  <2> QED BY <1>1, <1>3, <1>5, <2>1, <2>4 DEF TimesPass, R
<1>8. CASE b.by = "manual" /\ manual[s].phase = "run"
  <2> DEFINE p == Ended(manual[s], x, now)
  <2>1. manual' = [manual EXCEPT ![s] = p] /\ UNCHANGED <<boot, tick>>
    BY <1>1, <1>8, Reports
  <2>2. p.phase = "finish" /\ p.at = manual[s].at /\ p.result.ended = now
    BY <1>2, <1>3, <1>4, EndedFacts
  <2> HIDE DEF p, o
  <2>3. manual'[s] = p /\ \A y \in Services : y # s => manual'[y] = manual[y]
    BY <1>2, <2>1, <2>2 DEF TypeOK
  <2>4. manual[s].at <= now
    BY <1>2, <1>8 DEF TimesPass
  <2> QED BY <1>1, <1>3, <1>5, <2>1, <2>2, <2>3, <2>4 DEF TimesPass
<1>9. b.by = "manual" => manual[s].phase = "run"
  BY DEF RunsBelong, Awaits
<1> QED BY <1>2, <1>6, <1>7, <1>8, <1>9

LEMMA StartTimes ==
  ASSUME MarkerInv, MarkerInv', TimesPass, NEW s \in Services,
         StartClears(s) \/ StartPlans(s) \/ StartApplies(s) \/ StartArms(s)
  PROVE  TimesPass'
<1>1. TypeOK /\ TypeOK' /\ now' = now /\ UNCHANGED <<tick, manual>>
  BY DEF MarkerInv, StartClears, StartPlans, StartApplies, StartArms
<1>2. boot[s] \in Processes /\ now \in Nat
  BY <1>1 DEF TypeOK
<1>3. \E p : /\ boot' = [boot EXCEPT ![s] = p]
             /\ p.results \subseteq boot[s].results
  <2>1. CASE StartClears(s)
    <3> DEFINE S == {j \in DOMAIN disk : disk[j].running # Undefined}
               p == Planned(boot[s], "plan", S)
    <3>1. boot' = [boot EXCEPT ![s] = p]
      BY <2>1 DEF StartClears, Planned
    <3>2. S \in SUBSET Jobs /\ "plan" \in Phases
      BY <1>1, StoreIs DEF TypeOK, Phases
    <3> HIDE DEF S
    <3>3. p.results = boot[s].results
      BY <1>2, <3>2, PlannedFacts
    <3> HIDE DEF p
    <3> QED BY <3>1, <3>3
  <2>2. CASE StartPlans(s)
    <3> DEFINE missed == {j \in DOMAIN mem[s] \ boot[s].skip : Missed(mem[s][j], now)}
    <3>1. PICK chosen \in SUBSET missed :
            boot' = [boot EXCEPT ![s] =
              [@ EXCEPT !.phase = IF missed = {} THEN "final" ELSE "run", !.skip = missed \ chosen]]
      BY <2>2 DEF StartPlans
    <3>2. missed \subseteq Jobs
      <4>1. mem[s] \in Stores
        BY <1>1 DEF TypeOK
      <4> QED BY <4>1, StoreIs
    <3> HIDE DEF missed
    <3> DEFINE x == IF missed = {} THEN "final" ELSE "run"
               S == missed \ chosen
               p == Planned(boot[s], x, S)
    <3>3. boot' = [boot EXCEPT ![s] = p]
      BY <3>1 DEF Planned
    <3>4. x \in Phases /\ S \in SUBSET Jobs
      BY <3>2 DEF Phases
    <3> HIDE DEF x, S
    <3>5. p.results = boot[s].results
      BY <1>2, <3>4, PlannedFacts
    <3> HIDE DEF p
    <3> QED BY <3>3, <3>5
  <2>3. CASE StartApplies(s)
    <3> DEFINE p == AtPhase(Idle, "final")
    <3>1. boot' = [boot EXCEPT ![s] = p]
      BY <2>3 DEF StartApplies, AtPhase
    <3>2. p.results = {}
      BY IdleFacts, AtPhaseFacts DEF Phases
    <3> HIDE DEF p
    <3> QED BY <3>1, <3>2
  <2>4. CASE StartArms(s)
    BY <2>4, IdleFacts DEF StartArms
  <2> QED BY <2>1, <2>2, <2>3, <2>4
<1>4. \A y \in Services : boot'[y].results \subseteq boot[y].results
  BY <1>1, <1>3 DEF TypeOK
<1>5. \A b \in bodies' : b \in bodies \/ b.started <= now
  <2>1. CASE StartPlans(s)
    <3>1. PICK J : Reserve(s, "boot", J, Undefined)
      BY <2>1 DEF StartPlans
    <3> QED BY <1>2, <3>1 DEF Reserve, Undefined
  <2>2. CASE StartClears(s) \/ StartApplies(s) \/ StartArms(s)
    BY <2>2 DEF StartClears, StartApplies, StartArms, bodyVars
  <2> QED BY <2>1, <2>2
<1> QED BY <1>1, <1>2, <1>4, <1>5, TimesStay

LEMMA OnTimerTimes ==
  ASSUME MarkerInv, MarkerInv', TimesPass, NEW s \in Services,
         TimerFires(s) \/ TickCollects(s) \/ TickApplies(s) \/ TickEnds(s)
  PROVE  TimesPass'
<1>1. TypeOK /\ TypeOK' /\ now' = now /\ UNCHANGED <<boot, manual>>
  BY DEF MarkerInv, TimerFires, TickCollects, TickApplies, TickEnds
<1>2. tick[s] \in Processes /\ now \in Nat
  BY <1>1 DEF TypeOK
<1>3. \E p : /\ tick' = [tick EXCEPT ![s] = p]
             /\ p.results \subseteq tick[s].results
  <2>1. CASE TimerFires(s) /\ tick[s].phase = "idle"
    <3> DEFINE p == AtPhase(tick[s], "collect")
    <3>1. tick' = [tick EXCEPT ![s] = p]
      BY <2>1 DEF TimerFires, AtPhase
    <3>2. p.results = tick[s].results
      BY <1>2, AtPhaseFacts DEF Phases
    <3> HIDE DEF p
    <3> QED BY <3>1, <3>2
  <2>2. CASE TickCollects(s)
    <3> DEFINE due == {j \in DOMAIN disk : Runnable(disk[j], now)}
               x == IF due = {} THEN "end" ELSE "run"
               p == Collected(x)
    <3>1. tick' = [tick EXCEPT ![s] = p]
      BY <2>2 DEF TickCollects, Collected
    <3>2. x \in Phases
      BY DEF Phases
    <3> HIDE DEF x
    <3>3. p.results = {}
      BY <3>2, CollectedFacts
    <3> HIDE DEF p
    <3> QED BY <3>1, <3>3
  <2>3. CASE TickApplies(s)
    <3> DEFINE p == AtPhase(Idle, "end")
    <3>1. tick' = [tick EXCEPT ![s] = p]
      BY <2>3 DEF TickApplies, AtPhase
    <3>2. p.results = {}
      BY IdleFacts, AtPhaseFacts DEF Phases
    <3> HIDE DEF p
    <3> QED BY <3>1, <3>2
  <2>4. CASE TickEnds(s)
    BY <2>4, IdleFacts DEF TickEnds
  <2>5. CASE TimerFires(s) /\ tick[s].phase # "idle"
    <3>1. tick' = [tick EXCEPT ![s] = tick[s]]
      BY <1>1, <2>5 DEF TimerFires, TypeOK
    <3> QED BY <3>1
  <2> QED BY <2>1, <2>2, <2>3, <2>4, <2>5
<1>4. \A y \in Services : tick'[y].results \subseteq tick[y].results
  BY <1>1, <1>3 DEF TypeOK
<1>5. \A b \in bodies' : b \in bodies \/ b.started <= now
  <2>1. CASE TickCollects(s)
    <3>1. PICK J : Reserve(s, "tick", J, Undefined)
      BY <2>1 DEF TickCollects
    <3> QED BY <1>2, <3>1 DEF Reserve, Undefined
  <2>2. CASE TimerFires(s) \/ TickApplies(s) \/ TickEnds(s)
    BY <2>2 DEF TimerFires, TickApplies, TickEnds, bodyVars
  <2> QED BY <2>1, <2>2
<1> QED BY <1>1, <1>2, <1>4, <1>5, TimesStay

LEMMA ManualTimes ==
  ASSUME MarkerInv, MarkerInv', TimesPass, NEW s \in Services,
         \/ \E j \in Jobs, mode \in Modes : ManualChecks(s, j, mode)
         \/ ManualReserves(s) \/ ManualFinishes(s)
  PROVE  TimesPass'
<1>1. TypeOK /\ TypeOK' /\ now' = now /\ UNCHANGED boot
  BY DEF MarkerInv, ManualChecks, ManualReserves, ManualFinishes
<1>2. tick[s] \in Processes /\ manual[s] \in ManualRuns /\ now \in Nat
  BY <1>1 DEF TypeOK
<1>3. \A y \in Services : tick'[y].results \subseteq tick[y].results
  <2>1. \/ tick' = tick
        \/ tick' = [tick EXCEPT ![s] = Reloaded(tick[s])]
    BY DEF ManualChecks, ManualReserves, ManualFinishes, Reloaded
  <2>2. Reloaded(tick[s]).results = tick[s].results
    BY <1>2, ReloadedFacts
  <2> QED BY <1>1, <2>1, <2>2 DEF TypeOK
<1>4. manual' = manual \/ \E p : /\ manual' = [manual EXCEPT ![s] = p]
                                 /\ \/ p.phase = "idle"
                                    \/ p.phase \in {"reserve", "run"} /\ p.at <= now
  <2>1. ASSUME NEW j \in Jobs, NEW mode \in Modes, ManualChecks(s, j, mode)
        PROVE  \/ manual' = manual
               \/ /\ manual' = [manual EXCEPT ![s] = Checked(j, mode, now)]
                  /\ Checked(j, mode, now).phase = "reserve" /\ Checked(j, mode, now).at <= now
    <3>1. Checked(j, mode, now).phase = "reserve" /\ Checked(j, mode, now).at <= now
      BY <1>2, CheckedFacts
    <3> QED BY <2>1, <3>1 DEF ManualChecks, Checked
  <2>2. CASE ManualReserves(s) /\ manual' = [manual EXCEPT ![s].phase = "run"]
    <3>1. manual' = [manual EXCEPT ![s] = Launched(manual[s])]
      BY <2>2 DEF Launched
    <3>2. Launched(manual[s]).phase = "run" /\ Launched(manual[s]).at = manual[s].at
      BY <1>2, LaunchedFacts
    <3>3. manual[s].at <= now
      BY <2>2 DEF ManualReserves, TimesPass
    <3> QED BY <3>1, <3>2, <3>3
  <2>3. CASE manual' = [manual EXCEPT ![s] = NoManual]
    BY <2>3, NoManualFacts
  <2> QED BY <2>1, <2>2, <2>3 DEF ManualReserves, ManualFinishes
<1>5. \A y \in Services : \/ manual'[y] = manual[y]
                          \/ manual'[y].phase = "idle"
                          \/ manual'[y].phase \in {"reserve", "run"} /\ manual'[y].at <= now
  BY <1>1, <1>4 DEF TypeOK
<1>6. \A b \in bodies' : b \in bodies \/ b.started <= now
  <2>1. CASE ManualReserves(s)
    <3>1. manual[s].at <= now
      BY <2>1 DEF ManualReserves, TimesPass
    <3>2. bodies' = bodies \/ Reserve(s, "manual", {manual[s].job}, manual[s].at)
      BY <2>1 DEF ManualReserves, bodyVars
    <3> QED BY <3>1, <3>2 DEF Reserve
  <2>2. CASE ~ManualReserves(s)
    BY <2>2 DEF ManualChecks, ManualFinishes, bodyVars
  <2> QED BY <2>1, <2>2
<1> QED BY <1>1, <1>2, <1>3, <1>5, <1>6, TimesStay

LEMMA OtherTimes ==
  ASSUME MarkerInv, MarkerInv', TimesPass,
         \/ \E b \in bodies : StartRunsJob(b) \/ TickRunsJob(b)
         \/ \E s \in Services, j \in Jobs :
              Add(s, j) \/ Remove(s, j) \/ \E e \in BOOLEAN : Update(s, j, e)
         \/ Replace \/ Crash \/ ClockTicks \/ UNCHANGED vars
  PROVE  TimesPass'
<1>1. TypeOK /\ TypeOK' /\ RunsBelong
  BY DEF MarkerInv
<1>2. now \in Nat /\ now' \in {now, now + 1}
  BY <1>1 DEF TypeOK, StartRunsJob, TickRunsJob, Add, Remove, Update, Saves, Replace, Crash,
              ClockTicks, vars
<1>3. \A y \in Services : /\ boot'[y].results \subseteq boot[y].results
                          /\ tick'[y].results \subseteq tick[y].results
                          /\ \/ manual'[y] = manual[y]
                             \/ manual'[y].phase = "idle"
  <2>1. CASE Crash
    <3> DEFINE p == AtPhase(Idle, "clear")
    <3>1. /\ boot' = [s \in Services |-> IF s = current + 1 THEN p ELSE Idle]
          /\ tick' = [s \in Services |-> Idle]
          /\ manual' = [s \in Services |-> NoManual]
      BY <2>1 DEF Crash, AtPhase
    <3>2. p.results = {}
      BY IdleFacts, AtPhaseFacts DEF Phases
    <3> HIDE DEF p
    <3> QED BY <3>1, <3>2, IdleFacts, NoManualFacts
  <2>2. CASE Replace
    <3> DEFINE p == AtPhase(Idle, "clear")
    <3>1. boot' = [boot EXCEPT ![current + 1] = p] /\ UNCHANGED <<tick, manual>>
      BY <2>2 DEF Replace, AtPhase
    <3>2. p.results = {}
      BY IdleFacts, AtPhaseFacts DEF Phases
    <3> HIDE DEF p
    <3> QED BY <1>1, <3>1, <3>2 DEF TypeOK
  <2>3. CASE ~Crash /\ ~Replace
    <3>1. UNCHANGED <<boot, tick, manual>>
      BY <2>3 DEF StartRunsJob, TickRunsJob, Add, Remove, Update, Saves, ClockTicks, vars
    <3> QED BY <3>1
  <2> QED BY <2>1, <2>2, <2>3
<1>4. \A b \in bodies' : b \in bodies \/ b.started <= now
  <2>1. ASSUME NEW b \in bodies, StartRunsJob(b) \/ TickRunsJob(b)
        PROVE  \A c \in bodies' : c \in bodies \/ c.started <= now
    <3>1. bodies' = Started(b, now)
      BY <2>1 DEF StartRunsJob, TickRunsJob
    <3> QED BY <1>1, <1>2, <3>1, StartedBodies
  <2>2. CASE Crash
    BY <2>2 DEF Crash
  <2>3. CASE /\ ~Crash
             /\ ~\E b \in bodies : StartRunsJob(b) \/ TickRunsJob(b)
    BY <2>3 DEF Add, Remove, Update, Saves, Replace, ClockTicks, vars, bodyVars
  <2> QED BY <2>1, <2>2, <2>3
<1> QED BY <1>1, <1>2, <1>3, <1>4, TimesStay

-----------------------------------------------------------------------------
(* Slots, action by action. *)
NothingSkipped == \A j \in Jobs : SkipsSlot(j) => MayAdvance(j)
SlotsStep == StoresAhead' /\ MemoryFollows' /\ NothingSkipped

LEMMA PersistAhead ==
  ASSUME TypeOK, StoresAhead, NEW s \in Services, s = current, NEW g \in Stores,
         Persist(s, g), SlotsAhead(g, now), now' = now, current' = current
  PROVE  StoresAhead' /\ MemoryFollows'
<1>1. /\ disk' = g /\ mem'[s] = g /\ \A x \in Services : x # s => mem'[x] = mem[x]
  BY Persisted
<1>2. StoresAhead'
  BY <1>1 DEF StoresAhead, SlotsAhead, Ahead
<1>3. MemoryFollows'
  BY <1>1 DEF MemoryFollows, SameSlots
<1> QED BY <1>2, <1>3

LEMMA DueSlot ==
  ASSUME TypeOK, NEW j, SkipsSlot(j)
  PROVE  /\ j \in DOMAIN disk /\ j \in DOMAIN disk' /\ disk[j].enabled
         /\ disk[j].running = Undefined /\ disk[j].next # Undefined
         /\ disk[j].next <= now /\ disk'[j].next > now /\ disk'[j].next # disk[j].next
         /\ Runnable(disk[j], now)
<1>1. disk[j] \in JobRecords /\ j \in DOMAIN disk
  BY StoreIs DEF TypeOK, SkipsSlot
<1>2. disk[j].next \in Nat /\ now \in Nat
  BY <1>1, JobFields DEF TypeOK
<1> QED BY <1>1, <1>2 DEF SkipsSlot, IsPastDue, Runnable

LEMMA DueSlotInMemory ==
  ASSUME TypeOK, MemoryFollows, boot[current].phase # "clear", NEW j, SkipsSlot(j)
  PROVE  /\ j \in DOMAIN mem[current] /\ mem[current][j].enabled
         /\ mem[current][j].next = disk[j].next
         /\ mem[current][j].next # Undefined
BY DueSlot DEF MemoryFollows, SameSlots

LEMMA SlotsStay ==
  ASSUME TypeOK, StoresAhead, MemoryFollows, UNCHANGED <<disk, mem, current>>, now' \in Nat,
         now <= now',
         boot[current].phase = "clear" => boot'[current].phase = "clear"
  PROVE  SlotsStep
<1>1. now \in Nat /\ disk \in Stores /\ \A s \in Services : mem[s] \in Stores
  BY DEF TypeOK
<1>2. ASSUME NEW f \in Stores, SlotsAhead(f, now)
      PROVE  SlotsAhead(f, now')
  <2>1. \A j \in DOMAIN f : f[j].last \in Nat
    BY StoreIs, JobFields
  <2> QED BY <1>1, <1>2, <2>1 DEF SlotsAhead, Ahead
<1>3. StoresAhead'
  BY <1>1, <1>2 DEF StoresAhead
<1>4. MemoryFollows'
  BY DEF MemoryFollows
<1>5. NothingSkipped
  BY DueSlot DEF NothingSkipped
<1> QED BY <1>3, <1>4, <1>5 DEF SlotsStep

LEMMA StartClearsSlots ==
  ASSUME MarkerInv, SlotInv, NEW s \in Services, StartClears(s)
  PROVE  SlotsStep
<1> DEFINE D == {j \in DOMAIN disk : disk[j].running # Undefined}
           g == Marked(disk, D, Undefined)
<1>1. TypeOK /\ StoresAhead /\ s = current
  BY CurrentOnly DEF MarkerInv, SlotInv, StartClears
<1>2. Persist(s, g) /\ now' = now /\ current' = current
  BY DEF StartClears
<1>3. disk \in Stores /\ now \in Nat /\ Undefined \in Nat
  BY <1>1 DEF TypeOK, Undefined
<1> HIDE DEF D
<1>4. /\ g \in Stores /\ DOMAIN g = DOMAIN disk
      /\ \A j \in DOMAIN disk : g[j].next = disk[j].next
  BY <1>3, MarkedFacts
<1>5. SlotsAhead(g, now)
  BY <1>1, <1>3, MarkedAhead DEF StoresAhead
<1> HIDE DEF g
<1>6. StoresAhead' /\ MemoryFollows'
  BY <1>1, <1>2, <1>4, <1>5, PersistAhead
<1>7. NothingSkipped
  BY <1>1, <1>2, <1>4, Persisted, DueSlot DEF NothingSkipped
<1> QED BY <1>6, <1>7 DEF SlotsStep

LEMMA StartPlansSlots ==
  ASSUME MarkerInv, SlotInv, NEW s \in Services, StartPlans(s)
  PROVE  SlotsStep
<1>1. TypeOK /\ StoresAhead /\ MemoryFollows /\ s = current /\ boot[s].phase = "plan"
  BY CurrentOnly DEF MarkerInv, SlotInv, StartPlans
<1>2. UNCHANGED <<now, current>> /\ now \in Nat \ {0} /\ mem[s] \in Stores
  BY <1>1 DEF StartPlans, TypeOK
<1>3. PICK chosen : UNCHANGED <<disk, mem>> \/ Persist(s, Marked(mem[s], chosen, now))
  BY DEF StartPlans
<1>4. CASE UNCHANGED <<disk, mem>>
  BY <1>1, <1>2, <1>4, SlotsStay
<1>5. CASE Persist(s, Marked(mem[s], chosen, now))
  <2> DEFINE g == Marked(mem[s], chosen, now)
  <2>1. /\ g \in Stores /\ DOMAIN g = DOMAIN mem[s]
        /\ \A j \in DOMAIN mem[s] : g[j].next = mem[s][j].next
    BY <1>2, MarkedFacts
  <2>2. SlotsAhead(g, now)
    BY <1>1, <1>2, MarkedAhead DEF StoresAhead
  <2>3. Persist(s, g)
    BY <1>5
  <2> HIDE DEF g
  <2>4. StoresAhead' /\ MemoryFollows'
    BY <1>1, <1>2, <2>1, <2>2, <2>3, PersistAhead
  <2>5. NothingSkipped
    BY <1>1, <2>1, <2>3, Persisted, DueSlot, DueSlotInMemory DEF NothingSkipped
  <2> QED BY <2>4, <2>5 DEF SlotsStep
<1> QED BY <1>3, <1>4, <1>5

LEMMA StartAppliesSlots ==
  ASSUME MarkerInv, SlotInv, NEW s \in Services, StartApplies(s)
  PROVE  SlotsStep
<1> DEFINE R == boot[s].results
           a == ApplyOutcomes(mem[s], R)
           d == Deferred(a, boot[s].skip, now)
           g == Maintained(d, now, FALSE)
<1>1. /\ TypeOK /\ StoresAhead /\ MemoryFollows /\ TimesPass /\ s = current
      /\ boot[s].phase = "run"
  BY CurrentOnly DEF MarkerInv, SlotInv, StartApplies
<1>2. Persist(s, g) /\ UNCHANGED <<now, current>>
  BY DEF StartApplies
<1>3. mem[s] \in Stores /\ R \in SUBSET Results /\ now \in Nat \ {0}
      /\ SlotsAhead(mem[s], now) /\ \A o \in R : HappenedBy(o, now)
  BY <1>1, ProcessFields DEF TypeOK, StoresAhead, TimesPass
<1>4. /\ a \in Stores /\ SlotsAhead(a, now)
      /\ \A j \in DOMAIN mem[s] : j \notin {o.job : o \in R} => j \in DOMAIN a /\ a[j] = mem[s][j]
  BY <1>3, ApplyOutcomesFacts, OutcomesAhead
<1> HIDE DEF a
<1>5. /\ d \in Stores /\ DOMAIN d = DOMAIN a /\ SlotsAhead(d, now)
      /\ \A j \in DOMAIN a : j \notin boot[s].skip => d[j].next = a[j].next
      /\ \A j \in DOMAIN a : d[j].enabled = a[j].enabled
  BY <1>3, <1>4, DeferredFacts, DeferredAhead
<1> HIDE DEF d
<1>6. /\ g \in Stores /\ DOMAIN g = DOMAIN d
      /\ \A j \in DOMAIN d : d[j].enabled /\ d[j].next # Undefined => g[j].next = d[j].next
  BY <1>3, <1>5, MaintainedFacts
<1>7. SlotsAhead(g, now)
  BY <1>3, <1>5, MaintainedAhead DEF SlotsAhead
<1> HIDE DEF g
<1>8. StoresAhead' /\ MemoryFollows'
  BY <1>1, <1>2, <1>6, <1>7, PersistAhead
<1>9. ASSUME NEW j \in Jobs, SkipsSlot(j), j \notin boot[s].skip \cup {o.job : o \in R}
      PROVE  FALSE
  <2>1. /\ j \in DOMAIN mem[s] /\ mem[s][j].enabled
        /\ mem[s][j].next = disk[j].next /\ mem[s][j].next # Undefined
    BY <1>1, <1>9, DueSlotInMemory
  <2>2. g[j].next = disk[j].next
    BY <1>4, <1>5, <1>6, <1>9, <2>1
  <2> QED BY <1>1, <1>2, <1>6, <1>9, <2>2, Persisted, DueSlot
<1>10. NothingSkipped
  BY <1>9 DEF NothingSkipped, MayAdvance
<1> QED BY <1>8, <1>10 DEF SlotsStep

LEMMA StartArmsSlots ==
  ASSUME MarkerInv, SlotInv, NEW s \in Services, StartArms(s)
  PROVE  SlotsStep
<1> DEFINE g == RecomputeNextRuns(mem[s], now)
<1>1. TypeOK /\ StoresAhead /\ s = current
  BY CurrentOnly DEF MarkerInv, SlotInv, StartArms
<1>2. Persist(s, g) /\ UNCHANGED <<now, current>>
  BY DEF StartArms
<1>3. mem[s] \in Stores /\ now \in Nat \ {0} /\ SlotsAhead(mem[s], now)
  BY <1>1 DEF TypeOK, StoresAhead
<1>4. g \in Stores /\ SlotsAhead(g, now)
  BY <1>3, RecomputeNextRunsFacts, RecomputeAhead
<1> HIDE DEF g
<1>5. StoresAhead' /\ MemoryFollows'
  BY <1>1, <1>2, <1>4, PersistAhead
<1>6. NothingSkipped
  BY DEF NothingSkipped, MayAdvance
<1> QED BY <1>5, <1>6 DEF SlotsStep

LEMMA TickCollectsSlots ==
  ASSUME MarkerInv, SlotInv, NEW s \in Services, TickCollects(s)
  PROVE  SlotsStep
<1> DEFINE due == {j \in DOMAIN disk : Runnable(disk[j], now)}
           g == IF due = {} THEN Maintained(disk, now, TRUE) ELSE Marked(disk, due, now)
<1>1. TypeOK /\ StoresAhead /\ s = current
  BY CurrentOnly DEF MarkerInv, SlotInv, TickCollects
<1>2. Persist(s, g) /\ UNCHANGED <<now, current>>
  BY DEF TickCollects
<1>3. disk \in Stores /\ now \in Nat \ {0} /\ SlotsAhead(disk, now)
  BY <1>1 DEF TypeOK, StoresAhead
<1>4. \A j \in DOMAIN disk : Runnable(disk[j], now) => due # {}
  OBVIOUS
<1> HIDE DEF due
<1>5. /\ g \in Stores
      /\ due # {} => /\ DOMAIN g = DOMAIN disk
                     /\ \A j \in DOMAIN disk : g[j].next = disk[j].next
  <2>1. Maintained(disk, now, TRUE) \in Stores
    BY <1>3, MaintainedFacts
  <2>2. /\ Marked(disk, due, now) \in Stores
        /\ DOMAIN Marked(disk, due, now) = DOMAIN disk
        /\ \A j \in DOMAIN disk : Marked(disk, due, now)[j].next = disk[j].next
    BY <1>3, MarkedFacts
  <2> QED BY <2>1, <2>2
<1>6. SlotsAhead(g, now)
  <2>1. SlotsAhead(Marked(disk, due, now), now)
    BY <1>3, MarkedAhead
  <2>2. SlotsAhead(Maintained(disk, now, TRUE), now)
    BY <1>3, MaintainedAhead DEF SlotsAhead
  <2> QED BY <2>1, <2>2
<1> HIDE DEF g
<1>7. StoresAhead' /\ MemoryFollows'
  BY <1>1, <1>2, <1>5, <1>6, PersistAhead
<1>8. NothingSkipped
  BY <1>1, <1>2, <1>4, <1>5, Persisted, DueSlot DEF NothingSkipped
<1> QED BY <1>7, <1>8 DEF SlotsStep

LEMMA TickRunsJobSlots ==
  ASSUME MarkerInv, SlotInv, NEW b \in bodies, TickRunsJob(b)
  PROVE  SlotsStep
<1> DEFINE s == b.svc
           g == Marked(mem[s], {b.job}, now)
<1>1. TypeOK /\ StoresAhead /\ MemoryFollows /\ s = current /\ s \in Services
  BY CurrentOnly, IdOfFields DEF MarkerInv, SlotInv, TypeOK
<1>2. /\ UNCHANGED <<now, disk, current, boot>>
      /\ mem' = mem \/ mem' = [mem EXCEPT ![s] = g]
  BY DEF TickRunsJob
<1>3. mem[s] \in Stores /\ now \in Nat \ {0} /\ SlotsAhead(mem[s], now)
  BY <1>1 DEF TypeOK, StoresAhead
<1>4. /\ DOMAIN g = DOMAIN mem[s]
      /\ \A j \in DOMAIN mem[s] : /\ g[j].enabled = mem[s][j].enabled
                                  /\ g[j].next = mem[s][j].next
      /\ SlotsAhead(g, now)
  BY <1>3, MarkedFacts, MarkedAhead
<1> HIDE DEF g, s
<1>5. \A x \in Services : mem'[x] = mem[x] \/ (x = s /\ mem'[x] = g)
  BY <1>1, <1>2 DEF TypeOK
<1>6. StoresAhead'
  BY <1>1, <1>2, <1>4, <1>5 DEF StoresAhead
<1>7. MemoryFollows'
  BY <1>1, <1>2, <1>4, <1>5 DEF MemoryFollows, SameSlots
<1>8. NothingSkipped
  BY <1>1, <1>2, DueSlot DEF NothingSkipped
<1> QED BY <1>6, <1>7, <1>8 DEF SlotsStep

LEMMA TickAppliesSlots ==
  ASSUME MarkerInv, SlotInv, NEW s \in Services, TickApplies(s)
  PROVE  SlotsStep
<1> DEFINE R == tick[s].results
           a == ApplyOutcomes(disk, R)
           g == Maintained(a, now, FALSE)
<1>1. TypeOK /\ StoresAhead /\ TimesPass /\ s = current
  BY CurrentOnly DEF MarkerInv, SlotInv, TickApplies
<1>2. Persist(s, g) /\ UNCHANGED <<now, current>>
  BY DEF TickApplies
<1>3. disk \in Stores /\ R \in SUBSET Results /\ now \in Nat \ {0}
      /\ SlotsAhead(disk, now) /\ \A o \in R : HappenedBy(o, now)
  BY <1>1, ProcessFields DEF TypeOK, StoresAhead, TimesPass
<1>4. /\ a \in Stores /\ SlotsAhead(a, now)
      /\ \A j \in DOMAIN disk : j \notin {o.job : o \in R} => j \in DOMAIN a /\ a[j] = disk[j]
  BY <1>3, ApplyOutcomesFacts, OutcomesAhead
<1> HIDE DEF a
<1>5. /\ g \in Stores /\ DOMAIN g = DOMAIN a
      /\ \A j \in DOMAIN a : a[j].enabled /\ a[j].next # Undefined => g[j].next = a[j].next
  BY <1>3, <1>4, MaintainedFacts
<1>6. SlotsAhead(g, now)
  BY <1>3, <1>4, MaintainedAhead DEF SlotsAhead
<1> HIDE DEF g
<1>7. StoresAhead' /\ MemoryFollows'
  BY <1>1, <1>2, <1>5, <1>6, PersistAhead
<1>8. ASSUME NEW j \in Jobs, SkipsSlot(j), j \notin {o.job : o \in R}
      PROVE  FALSE
  BY <1>1, <1>2, <1>4, <1>5, <1>8, Persisted, DueSlot
<1>9. NothingSkipped
  BY <1>8 DEF NothingSkipped, MayAdvance
<1> QED BY <1>7, <1>9 DEF SlotsStep

(* The due slot of a job lies ahead of its last run, or belongs to a one-   *)
(* shot job, which has no other.                                            *)
LEMMA ExecutedStays ==
  ASSUME NEW r \in JobRecords, NEW n \in Nat, Ahead(r, n), r.enabled, Executed(r, n)
  PROVE  ~(NextRun(r, n) > n)
<1>1. r.kind = "at" /\ r.next = At
  BY JobFields DEF Ahead, Executed, IsPastDue
<1>2. NextRun(r, n) \in {Undefined, At} /\ At <= n
  BY <1>1, NextRunFacts DEF Executed, IsPastDue
<1> QED BY <1>2, CronAssumption DEF Undefined

LEMMA ManualChecksSlots ==
  ASSUME MarkerInv, SlotInv, NEW s \in Services, NEW j \in Jobs, NEW mode \in Modes,
         ManualChecks(s, j, mode)
  PROVE  SlotsStep
<1> DEFINE g == Maintained(mem[s], now, FALSE)
<1>1. /\ TypeOK /\ StoresAhead /\ MemoryFollows /\ s = current
      /\ boot[s].phase # "clear"
  BY DEF MarkerInv, SlotInv, ManualChecks
<1>2. UNCHANGED <<now, disk, current, boot>> /\ mem' = [mem EXCEPT ![s] = g]
  BY DEF ManualChecks
<1>3. mem[s] \in Stores /\ now \in Nat \ {0} /\ SlotsAhead(mem[s], now)
  BY <1>1 DEF TypeOK, StoresAhead
<1>4. /\ DOMAIN g = DOMAIN mem[s]
      /\ \A i \in DOMAIN mem[s] :
           /\ g[i].enabled = mem[s][i].enabled
           /\ mem[s][i].enabled /\ mem[s][i].next # Undefined => g[i].next = mem[s][i].next
  BY <1>3, MaintainedFacts
<1>5. SlotsAhead(g, now)
  BY <1>3, MaintainedAhead DEF SlotsAhead
<1> HIDE DEF g
<1>6. mem'[s] = g /\ \A x \in Services : x # s => mem'[x] = mem[x]
  BY <1>1, <1>2 DEF TypeOK
<1>7. StoresAhead'
  BY <1>1, <1>2, <1>5, <1>6 DEF StoresAhead
<1>8. MemoryFollows'
  BY <1>1, <1>2, <1>4, <1>6 DEF MemoryFollows, SameSlots
<1>9. NothingSkipped
  BY <1>1, <1>2, DueSlot DEF NothingSkipped
<1> QED BY <1>7, <1>8, <1>9 DEF SlotsStep

LEMMA ManualReservesSlots ==
  ASSUME MarkerInv, SlotInv, NEW s \in Services, ManualReserves(s)
  PROVE  SlotsStep
<1> DEFINE D == {manual[s].job}
           g == Marked(mem[s], D, manual[s].at)
<1>1. /\ TypeOK /\ StoresAhead /\ MemoryFollows /\ s = current
      /\ boot[s].phase # "clear"
  BY CurrentOnly DEF MarkerInv, OnlyCurrentWorks, Quiet, SlotInv, ManualReserves
<1>2. UNCHANGED <<now, current, boot>> /\ now \in Nat /\ mem[s] \in Stores
      /\ manual[s].at \in Nat
  BY <1>1 DEF ManualReserves, TypeOK, ManualRuns
<1>3. UNCHANGED <<disk, mem>> \/ Persist(s, g)
  BY DEF ManualReserves
<1>4. CASE UNCHANGED <<disk, mem>>
  BY <1>1, <1>2, <1>4, SlotsStay
<1>5. CASE Persist(s, g)
  <2>1. /\ g \in Stores /\ DOMAIN g = DOMAIN mem[s]
        /\ \A j \in DOMAIN mem[s] : g[j].next = mem[s][j].next
    BY <1>2, MarkedFacts
  <2>2. SlotsAhead(g, now)
    BY <1>1, <1>2, MarkedAhead DEF StoresAhead
  <2> HIDE DEF g
  <2>3. StoresAhead' /\ MemoryFollows'
    BY <1>1, <1>2, <1>5, <2>1, <2>2, PersistAhead
  <2>4. NothingSkipped
    BY <1>1, <1>5, <2>1, Persisted, DueSlot, DueSlotInMemory DEF NothingSkipped
  <2> QED BY <2>3, <2>4 DEF SlotsStep
<1> QED BY <1>3, <1>4, <1>5

LEMMA ManualFinishesSlots ==
  ASSUME MarkerInv, SlotInv, NEW s \in Services, ManualFinishes(s)
  PROVE  SlotsStep
<1> DEFINE j == manual[s].job
           o == [job |-> j, status |-> manual[s].result.status,
                 started |-> manual[s].at, ended |-> manual[s].result.ended]
           done == ApplyJobResult(mem[s][j], o, manual[s].mode = "force")
           spent == IsSpent(mem[s][j], o)
           m == Merged(disk, j, done, spent)
           g == Maintained(m, now, TRUE)
<1>1. /\ TypeOK /\ StoresAhead /\ MemoryFollows /\ TimesPass /\ RunsBelong /\ s = current
      /\ manual[s].phase = "finish"
  BY CurrentOnly DEF MarkerInv, SlotInv, ManualFinishes
<1>2. UNCHANGED <<now, current, boot>> /\ now \in Nat \ {0}
  BY <1>1 DEF ManualFinishes, TypeOK
<1>3. \/ j \in DOMAIN mem[s] /\ Persist(s, g)
      \/ UNCHANGED <<disk, mem>>
  BY DEF ManualFinishes, Merged
<1>4. CASE UNCHANGED <<disk, mem>>
  BY <1>1, <1>2, <1>4, SlotsStay
<1>5. CASE j \in DOMAIN mem[s] /\ Persist(s, g)
  <2>1. /\ disk \in Stores /\ SlotsAhead(disk, now) /\ mem[s][j] \in JobRecords
    BY <1>1, <1>5, StoreIs DEF TypeOK, StoresAhead
  <2>2. o \in Results /\ (manual[s].mode = "force") \in BOOLEAN /\ HappenedBy(o, now)
    <3>1. manual[s] \in ManualRuns /\ j \in Jobs /\ manual[s].at # Undefined
      BY <1>1 DEF TypeOK, RunsBelong
    <3> QED BY <1>1, <3>1 DEF ManualRuns, Results, TimesPass, HappenedBy
  <2> HIDE DEF o, j
  <2>3. /\ done \in JobRecords
        /\ Ahead(done, now) \/ (Executed(done, now) /\ done.last <= now)
    BY <1>2, <2>1, <2>2, ApplyJobResultFacts, ResultAhead
  <2>4. spent \in BOOLEAN
    BY DEF IsSpent
  <2> HIDE DEF done, spent
  <2>5. /\ m \in Stores
        /\ \A i \in DOMAIN disk : i # j => i \in DOMAIN m /\ m[i] = disk[i]
        /\ DOMAIN m \subseteq DOMAIN disk
        /\ j \in DOMAIN m => m[j] = done
    <3>1. disk \in Stores /\ done \in JobRecords /\ spent \in BOOLEAN
      BY <2>1, <2>3, <2>4
    <3>2. m \in Stores /\ DOMAIN m \subseteq DOMAIN disk
      BY <3>1, MergedFacts
    <3>3. \A i \in DOMAIN disk : i # j => i \in DOMAIN m /\ m[i] = disk[i]
      BY <3>1, MergedFacts
    <3>4. j \in DOMAIN m => m[j] = done
      BY <3>1, MergedFacts
    <3> QED BY <3>2, <3>3, <3>4
  <2> HIDE DEF m
  <2>6. /\ g \in Stores /\ DOMAIN g = DOMAIN m
        /\ \A i \in DOMAIN m :
             m[i].enabled => g[i].next = IF m[i].next = Undefined \/ Executed(m[i], now)
                                         THEN NextRun(m[i], now) ELSE m[i].next
    BY <1>2, <2>5, MaintainedFacts
  <2>7. SlotsAhead(g, now)
    <3>1. \A i \in DOMAIN m : Ahead(m[i], now) \/ (Executed(m[i], now) /\ m[i].last <= now)
      BY <2>1, <2>3, <2>5 DEF SlotsAhead
    <3> QED BY <1>2, <2>5, <3>1, MaintainedAhead
  <2> HIDE DEF g
  <2>8. StoresAhead' /\ MemoryFollows'
    BY <1>1, <1>2, <1>5, <2>6, <2>7, PersistAhead
  <2>9. ASSUME NEW i \in Jobs, SkipsSlot(i), i # j
        PROVE  FALSE
    <3>1. /\ i \in DOMAIN disk /\ disk[i].enabled /\ disk[i].next # Undefined
          /\ disk'[i].next > now /\ disk'[i].next # disk[i].next
      BY <1>1, <2>9, DueSlot
    <3>2. disk' = g /\ m[i] = disk[i] /\ i \in DOMAIN m
      BY <1>1, <1>5, <2>5, <2>6, <2>9, <3>1, Persisted
    <3>3. Executed(disk[i], now) /\ NextRun(disk[i], now) > now
      BY <2>6, <3>1, <3>2
    <3>4. Ahead(disk[i], now) /\ disk[i] \in JobRecords
      BY <2>1, <3>1, StoreIs DEF SlotsAhead
    <3> QED BY <1>2, <3>1, <3>3, <3>4, ExecutedStays
  <2>10. NothingSkipped
    BY <2>9 DEF NothingSkipped, MayAdvance, j
  <2> QED BY <2>8, <2>10 DEF SlotsStep
<1> QED BY <1>3, <1>4, <1>5

LEMMA AddSlots ==
  ASSUME MarkerInv, SlotInv, NEW s \in Services, NEW j \in Jobs, Add(s, j)
  PROVE  SlotsStep
<1> DEFINE f == Added(mem[s], j, NewJob(j, now))
           g == RecomputeNextRuns(f, now)
<1>1. TypeOK /\ StoresAhead /\ s = current /\ Persist(s, g) /\ UNCHANGED <<now, current>>
  BY DEF MarkerInv, SlotInv, Add, Added, CanEdit, Saves
<1>2. mem[s] \in Stores /\ now \in Nat \ {0} /\ SlotsAhead(mem[s], now)
  BY <1>1 DEF TypeOK, StoresAhead
<1>3. NewJob(j, now) \in JobRecords /\ Ahead(NewJob(j, now), now)
  BY <1>2, NewJobFacts DEF Ahead, Undefined
<1>4. /\ f \in Stores /\ DOMAIN f = DOMAIN mem[s] \cup {j}
      /\ \A i \in DOMAIN mem[s] : i # j => f[i] = mem[s][i]
      /\ f[j] = NewJob(j, now)
  <2> DEFINE m == mem[s]
             r == NewJob(j, now)
  <2>1. m \in Stores /\ r \in JobRecords
    BY <1>2, <1>3
  <2> HIDE DEF m, r
  <2>2. /\ Added(m, j, r) \in Stores /\ DOMAIN Added(m, j, r) = DOMAIN m \cup {j}
        /\ \A i \in DOMAIN m : i # j => Added(m, j, r)[i] = m[i]
        /\ Added(m, j, r)[j] = r
    BY <2>1, AddedFacts
  <2> QED BY <2>2 DEF m, r
<1> HIDE DEF f
<1>5. SlotsAhead(f, now)
  BY <1>2, <1>3, <1>4 DEF SlotsAhead
<1>6. g \in Stores /\ SlotsAhead(g, now)
  BY <1>2, <1>4, <1>5, RecomputeNextRunsFacts, RecomputeAhead
<1> HIDE DEF g
<1>7. StoresAhead' /\ MemoryFollows'
  BY <1>1, <1>6, PersistAhead
<1>8. NothingSkipped
  BY DEF NothingSkipped, MayAdvance
<1> QED BY <1>7, <1>8 DEF SlotsStep

LEMMA RemoveSlots ==
  ASSUME MarkerInv, SlotInv, NEW s \in Services, NEW j \in Jobs, Remove(s, j)
  PROVE  SlotsStep
<1> DEFINE D == DOMAIN mem[s] \ {j}
           g == [i \in D |-> mem[s][i]]
<1>1. /\ TypeOK /\ StoresAhead /\ MemoryFollows /\ s = current /\ boot[s].phase # "clear"
      /\ Persist(s, g) /\ UNCHANGED <<now, current>>
  BY DEF MarkerInv, SlotInv, Remove, CanEdit, Saves
<1>2. /\ mem[s] \in Stores /\ DOMAIN mem[s] \subseteq Jobs
      /\ \A i \in DOMAIN mem[s] : mem[s][i] \in JobRecords
  BY <1>1, StoreIs DEF TypeOK
<1>3. g \in Stores
  <2>1. D \in SUBSET Jobs /\ g \in [D -> JobRecords]
    BY <1>2
  <2> QED BY <2>1 DEF Stores
<1>4. SlotsAhead(g, now)
  BY <1>1 DEF StoresAhead, SlotsAhead
<1>5. DOMAIN g = D /\ \A i \in D : g[i] = mem[s][i]
  OBVIOUS
<1> HIDE DEF g
<1>6. StoresAhead' /\ MemoryFollows'
  BY <1>1, <1>3, <1>4, PersistAhead
<1>7. NothingSkipped
  BY <1>1, <1>3, <1>5, Persisted, DueSlot, DueSlotInMemory DEF NothingSkipped
<1> QED BY <1>6, <1>7 DEF SlotsStep

LEMMA UpdateSlots ==
  ASSUME MarkerInv, SlotInv, NEW s \in Services, NEW j \in Jobs, NEW e \in BOOLEAN,
         Update(s, j, e)
  PROVE  SlotsStep
<1> DEFINE patched == WithEnabled(mem[s][j], e)
           repaired == IF e THEN Recomputed(patched, now) ELSE Normalized(patched)
           g == [mem[s] EXCEPT ![j] = repaired]
<1>1. /\ TypeOK /\ StoresAhead /\ MemoryFollows /\ s = current /\ boot[s].phase # "clear"
      /\ Persist(s, g) /\ UNCHANGED <<now, current>> /\ j \in DOMAIN mem[s]
  BY DEF MarkerInv, SlotInv, Update, WithEnabled, CanEdit, Saves
<1>2. /\ mem[s] \in Stores /\ now \in Nat /\ SlotsAhead(mem[s], now)
      /\ mem[s][j] \in JobRecords
  BY <1>1, StoreIs DEF TypeOK, StoresAhead
<1>3. /\ patched \in JobRecords /\ patched.enabled = e
      /\ patched.last = mem[s][j].last /\ patched.last <= now
  BY <1>1, <1>2, WithEnabledFields DEF SlotsAhead, Ahead
<1> HIDE DEF patched
<1>4. /\ repaired \in JobRecords /\ Ahead(repaired, now)
      /\ ~e => ~repaired.enabled
  <2>1. CASE e
    <3>1. /\ repaired \in JobRecords /\ repaired.next = NextRun(patched, now)
          /\ repaired.kind = patched.kind /\ repaired.enabled = patched.enabled
          /\ repaired.last = patched.last
      BY <1>2, <1>3, <2>1, RecomputedFacts
    <3> HIDE DEF repaired
    <3> QED BY <1>2, <1>3, <2>1, <3>1, NextRunAhead
  <2>2. CASE ~e
    <3>1. /\ repaired \in JobRecords /\ repaired.enabled = patched.enabled
          /\ repaired.last = patched.last
      BY <1>3, <2>2, NormalizedFacts
    <3> HIDE DEF repaired
    <3> QED BY <1>3, <2>2, <3>1 DEF Ahead
  <2> QED BY <2>1, <2>2
<1> HIDE DEF repaired
<1>5. /\ g \in Stores /\ DOMAIN g = DOMAIN mem[s] /\ g[j] = repaired
      /\ \A i \in DOMAIN mem[s] : i # j => g[i] = mem[s][i]
  BY <1>1, <1>2, <1>4 DEF Stores
<1> HIDE DEF g
<1>6. SlotsAhead(g, now)
  BY <1>2, <1>4, <1>5 DEF SlotsAhead
<1>7. StoresAhead' /\ MemoryFollows'
  BY <1>1, <1>5, <1>6, PersistAhead
<1>8. disk' = g
  BY <1>1, <1>5, Persisted
<1>9. ASSUME NEW i \in Jobs, SkipsSlot(i), ~(i = j /\ e)
      PROVE  FALSE
  <2>1. CASE i = j
    <3>1. disk'[i].enabled
      BY <1>9 DEF SkipsSlot
    <3> QED BY <1>4, <1>5, <1>8, <1>9, <2>1, <3>1
  <2>2. CASE i # j
    BY <1>1, <1>5, <1>8, <1>9, <2>2, DueSlot, DueSlotInMemory
  <2> QED BY <2>1, <2>2
<1>10. ASSUME NEW i \in Jobs, SkipsSlot(i)
       PROVE  MayAdvance(i)
  <2>1. i = j /\ e
    BY <1>9, <1>10
  <2>2. Update(s, i, TRUE)
    BY <2>1
  <2> QED BY <2>2 DEF MayAdvance
<1> QED BY <1>7, <1>10 DEF SlotsStep, NothingSkipped

LEMMA OtherSlots ==
  ASSUME MarkerInv, SlotInv,
         \/ \E s \in Services : TimerFires(s) \/ TickEnds(s)
         \/ \E b \in bodies : StartRunsJob(b)
         \/ ClockTicks \/ UNCHANGED vars
  PROVE  SlotsStep
<1>1. TypeOK /\ StoresAhead /\ MemoryFollows /\ now \in Nat
  BY DEF MarkerInv, SlotInv, TypeOK
<1>2. UNCHANGED <<disk, mem, current, boot>> /\ now' \in {now, now + 1}
  BY DEF TimerFires, TickEnds, StartRunsJob, ClockTicks, vars
<1> QED BY <1>1, <1>2, SlotsStay

LEMMA BodyEndsSlots ==
  ASSUME MarkerInv, SlotInv, NEW b \in bodies, NEW x \in Outcomes, BodyEnds(b, x)
  PROVE  SlotsStep
<1>1. TypeOK /\ StoresAhead /\ MemoryFollows /\ now \in Nat /\ boot[current].phase # "clear"
  BY CurrentOnly DEF MarkerInv, SlotInv, TypeOK
<1>2. UNCHANGED <<disk, mem, current, now>>
  BY DEF BodyEnds
<1> QED BY <1>1, <1>2, SlotsStay

LEMMA ReplaceSlots ==
  ASSUME MarkerInv, SlotInv, Replace
  PROVE  SlotsStep
<1> DEFINE p == AtPhase(Idle, "clear")
<1>1. TypeOK /\ StoresAhead /\ current < MaxServices
  BY DEF MarkerInv, SlotInv, Replace
<1>2. /\ UNCHANGED <<now, disk>> /\ current' = current + 1
      /\ mem' = mem \/ mem' = [mem EXCEPT ![current] = <<>>]
      /\ boot' = [boot EXCEPT ![current + 1] = p]
  BY DEF Replace, AtPhase
<1>3. current + 1 \in Services /\ p.phase = "clear"
  BY <1>1, CronAssumption, IdleFacts, AtPhaseFacts DEF TypeOK, Services, Phases
<1> HIDE DEF p
<1>4. StoresAhead' /\ MemoryFollows'
  BY <1>1, <1>2, <1>3 DEF StoresAhead, SlotsAhead, MemoryFollows, TypeOK
<1>5. NothingSkipped
  BY <1>1, <1>2, DueSlot DEF NothingSkipped
<1> QED BY <1>4, <1>5 DEF SlotsStep

LEMMA CrashSlots ==
  ASSUME MarkerInv, SlotInv, Crash
  PROVE  SlotsStep
<1> DEFINE p == AtPhase(Idle, "clear")
<1>1. TypeOK /\ StoresAhead /\ current < MaxServices
  BY DEF MarkerInv, SlotInv, Crash
<1>2. /\ UNCHANGED <<now, disk>> /\ current' = current + 1
      /\ mem' = [s \in Services |-> <<>>]
      /\ boot' = [s \in Services |-> IF s = current + 1 THEN p ELSE Idle]
  BY DEF Crash, AtPhase
<1>3. current + 1 \in Services /\ p.phase = "clear"
  BY <1>1, CronAssumption, IdleFacts, AtPhaseFacts DEF TypeOK, Services, Phases
<1> HIDE DEF p
<1>4. StoresAhead' /\ MemoryFollows'
  BY <1>1, <1>2, <1>3 DEF StoresAhead, SlotsAhead, MemoryFollows, TypeOK
<1>5. NothingSkipped
  BY <1>1, <1>2, DueSlot DEF NothingSkipped
<1> QED BY <1>4, <1>5 DEF SlotsStep

-----------------------------------------------------------------------------
LEMMA InitSlotInv == Init => SlotInv
<1> SUFFICES ASSUME Init
             PROVE  SlotInv
  OBVIOUS
<1>1. /\ Idle.results = {} /\ AtPhase(Idle, "clear").results = {}
      /\ AtPhase(Idle, "clear").phase = "clear" /\ NoManual.phase = "idle"
  BY IdleFacts, AtPhaseFacts, NoManualFacts DEF Phases
<1>2. boot = [s \in Services |-> IF s = 1 THEN AtPhase(Idle, "clear") ELSE Idle]
  BY DEF Init, AtPhase
<1>3. TimesPass
  BY <1>1, <1>2 DEF Init, TimesPass
<1>4. SlotsAhead(disk, now)
  BY NewJobFacts DEF Init, SlotsAhead, Ahead, Undefined
<1>5. StoresAhead
  BY <1>4 DEF Init, StoresAhead
<1>6. MemoryFollows
  BY CronAssumption, <1>1, <1>2 DEF Init, MemoryFollows, Services
<1> QED BY <1>3, <1>5, <1>6 DEF SlotInv

LEMMA NextTimesPass ==
  ASSUME MarkerInv, MarkerInv', TimesPass, [Next]_vars
  PROVE  TimesPass'
<1>1. ASSUME NEW s \in Services, NEW by, Runs(s, by)
      PROVE  TimesPass'
  <2>1. PICK b \in bodies : \/ StartRunsJob(b) \/ TickRunsJob(b)
                            \/ \E status \in Outcomes : BodyEnds(b, status)
    BY <1>1 DEF Runs, RunsOf
  <2> QED BY <2>1, OtherTimes, BodyEndsTimes DEF MarkerInv
<1>2. ASSUME NEW s \in Services, Start(s)
      PROVE  TimesPass'
  BY <1>1, <1>2, StartTimes DEF Start
<1>3. ASSUME NEW s \in Services, OnTimer(s)
      PROVE  TimesPass'
  BY <1>1, <1>3, OnTimerTimes DEF OnTimer
<1>4. ASSUME NEW s \in Services, ManualRun(s)
      PROVE  TimesPass'
  BY <1>1, <1>4, ManualTimes DEF ManualRun
<1>5. ASSUME NEW s \in Services, NEW j \in Jobs, Calls(s, j)
      PROVE  TimesPass'
  BY <1>5, ManualTimes, OtherTimes DEF Calls
<1>6. CASE Replace \/ Crash \/ ClockTicks \/ UNCHANGED vars
  BY <1>6, OtherTimes
<1> QED BY <1>2, <1>3, <1>4, <1>5, <1>6 DEF Next

LEMMA NextSlots ==
  ASSUME MarkerInv, SlotInv, [Next]_vars
  PROVE  SlotsStep
<1>1. ASSUME NEW s \in Services, NEW by, Runs(s, by)
      PROVE  SlotsStep
  <2>1. PICK b \in bodies : \/ StartRunsJob(b) \/ TickRunsJob(b)
                            \/ \E status \in Outcomes : BodyEnds(b, status)
    BY <1>1 DEF Runs, RunsOf
  <2> QED BY <2>1, OtherSlots, TickRunsJobSlots, BodyEndsSlots
<1>2. ASSUME NEW s \in Services, Start(s)
      PROVE  SlotsStep
  BY <1>1, <1>2, StartClearsSlots, StartPlansSlots, StartAppliesSlots, StartArmsSlots DEF Start
<1>3. ASSUME NEW s \in Services, OnTimer(s)
      PROVE  SlotsStep
  BY <1>1, <1>3, OtherSlots, TickCollectsSlots, TickAppliesSlots DEF OnTimer
<1>4. ASSUME NEW s \in Services, ManualRun(s)
      PROVE  SlotsStep
  BY <1>1, <1>4, ManualReservesSlots, ManualFinishesSlots DEF ManualRun
<1>5. ASSUME NEW s \in Services, NEW j \in Jobs, Calls(s, j)
      PROVE  SlotsStep
  BY <1>5, ManualChecksSlots, AddSlots, UpdateSlots, RemoveSlots DEF Calls
<1>6. CASE Replace \/ Crash \/ ClockTicks \/ UNCHANGED vars
  BY <1>6, ReplaceSlots, CrashSlots, OtherSlots
<1> QED BY <1>2, <1>3, <1>4, <1>5, <1>6 DEF Next

(* While services do not overlap, memory follows the file and every slot    *)
(* that waits lies ahead of the last run of its job.                        *)
THEOREM SlotsStayAhead ==
  ASSUME ~Overlap
  PROVE  Spec => []SlotInv
<1>1. MarkerInv /\ MarkerInv' /\ SlotInv /\ [Next]_vars => SlotInv'
  BY NextTimesPass, NextSlots DEF SlotInv, SlotsStep
<1> QED BY <1>1, InitSlotInv, MarkersStayInOrder, PTL DEF Spec

(* A slot that is due is moved on by the results of its own job, by an edit *)
(* of it, or by the passes that say so, and by nothing else.                *)
THEOREM DueSlotsAreKept ==
  ASSUME ~Overlap
  PROVE  Spec => DueIsNotSkipped
<1>1. MarkerInv /\ SlotInv /\ [Next]_vars =>
        [\A j \in Jobs : SkipsSlot(j) => MayAdvance(j)]_vars
  BY NextSlots DEF SlotsStep, NothingSkipped
<1> QED BY <1>1, MarkersStayInOrder, SlotsStayAhead, PTL DEF Spec, DueIsNotSkipped
=============================================================================
