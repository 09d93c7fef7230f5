----------------------------- MODULE SessionLock -----------------------------
(***************************************************************************)
(* The write lock of one session file (src/agents/session-write-lock.ts):  *)
(* a lock file that is created exclusively, written in a second step, read *)
(* and judged by whoever finds it, and removed by its path; and, in each   *)
(* process, the HELD_LOCKS entry that its callers share.                   *)
(*                                                                         *)
(* Every file operation is an await, so each is a step of its own.  A      *)
(* process may die between any two of them and comes back with nothing but *)
(* the file on disk.  Five things can go wrong that the code does not      *)
(* exclude:                                                                *)
(*   "overlap"       a file is judged stale while somebody else is about   *)
(*                   to remove it;                                         *)
(*   "no_starttime"  a payload has no start time of its process, as on     *)
(*                   platforms that tell none: a file of a dead one may    *)
(*                   look alive, a living one takes its own for an orphan; *)
(*   "long_hold"     a lock is held for longer than staleMs;               *)
(*   "sweep"         a starting gateway sweeps a lock file that has been   *)
(*                   created and not been written;                         *)
(*   "release_again" a caller releases the handle it was given again.      *)
(* The first four endanger the file: met records those that have happened, *)
(* overreleased the entries with a handle that was released again.         *)
(* Hazards and MaxHazards bound which of them happen, and how many.        *)
(***************************************************************************)
EXTENDS Integers, FiniteSets

CONSTANTS
  Procs,       \* processes that use the session file
  Callers,     \* acquireSessionWriteLock calls that may be under way
  ProcOf,      \* the process of each caller
  NoFile,      \* the value of file while there is none
  Hazards,     \* bound: the hazards that may happen
  MaxHazards,  \* bound: hazards to the file that may happen in one behaviour
  MaxCrashes,  \* bound: deaths of processes
  MaxDepth     \* bound: count of a held lock

Files == [by : Procs, epoch : Nat, written : BOOLEAN, old : BOOLEAN]
HazardNames == {"overlap", "no_starttime", "long_hold", "sweep", "release_again"}

ASSUME SessionLockAssumption ==
  /\ IsFiniteSet(Callers)
  /\ ProcOf \in [Callers -> Procs]
  /\ NoFile \notin Files
  /\ Hazards \subseteq HazardNames
  /\ MaxHazards \in Nat
  /\ MaxCrashes \in Nat
  /\ MaxDepth \in Nat \ {0}

Steps == {"idle", "open", "write", "holding", "read", "stat", "remove"}

VARIABLES
  file,      \* the lock file: who created it, its payload, its age
  epoch,     \* how often each process has died
  held,      \* HELD_LOCKS: count of the entry, 0 without one
  pc,        \* what each caller awaits
  current,   \* the last handle of a caller refers to the present entry
  unlinks,   \* releases that have yet to remove the file
  watched,   \* the watchdog timer of each process runs
  sweeping,  \* processes whose startup sweep is about to remove the file
  met,       \* history: the hazards to the file that have happened
  overreleased  \* history: processes with a handle of the entry released again

vars == <<file, epoch, held, pc, current, unlinks, watched, sweeping, met, overreleased>>

Init ==
  /\ file = NoFile
  /\ epoch = [p \in Procs |-> 0]
  /\ held = [p \in Procs |-> 0]
  /\ pc = [c \in Callers |-> "idle"]
  /\ current = [c \in Callers |-> FALSE]
  /\ unlinks = [p \in Procs |-> 0]
  /\ watched = [p \in Procs |-> FALSE]
  /\ sweeping = {}
  /\ met = {}
  /\ overreleased = {}

IsDead(f) == f.epoch # epoch[f.by]
HasPayload == file # NoFile /\ file.written
IsOld == file # NoFile /\ file.old

Meets(hazards) ==
  /\ hazards \subseteq Hazards
  /\ hazards # {} => Cardinality(met) < MaxHazards
  /\ met' = met \cup hazards

-----------------------------------------------------------------------------
(* acquireSessionWriteLock *)

(* The first lines: an entry of this process is entered again at once,      *)
(* unless the caller does not allow it.                                     *)
Acquire(c) ==
  LET p == ProcOf[c] IN
  /\ pc[c] = "idle"
  /\ watched' = [watched EXCEPT ![p] = TRUE]
  /\ \/ /\ held[p] > 0
        /\ held[p] < MaxDepth
        /\ held' = [held EXCEPT ![p] = @ + 1]
        /\ pc' = [pc EXCEPT ![c] = "holding"]
        /\ current' = [current EXCEPT ![c] = TRUE]
     \/ /\ pc' = [pc EXCEPT ![c] = "open"]     \* no entry, or ~allowReentrant
        /\ current' = [current EXCEPT ![c] = FALSE]
        /\ UNCHANGED held
  /\ UNCHANGED <<file, epoch, unlinks, sweeping, met, overreleased>>

(* fs.open(lockPath, "wx") *)
Open(c) ==
  /\ pc[c] = "open"
  /\ \/ /\ file = NoFile
        /\ file' = [by |-> ProcOf[c], epoch |-> epoch[ProcOf[c]], written |-> FALSE, old |-> FALSE]
        /\ pc' = [pc EXCEPT ![c] = "write"]
     \/ /\ file # NoFile
        /\ pc' = [pc EXCEPT ![c] = "read"]
        /\ UNCHANGED file
  /\ UNCHANGED <<epoch, held, current, unlinks, watched, sweeping, met, overreleased>>

(* The payload is written into the file that was opened, which the path     *)
(* may not name any more, and the entry is made.                            *)
IsOwn(f, p) == f # NoFile /\ f.by = p /\ f.epoch = epoch[p]
Write(c) ==
  LET p == ProcOf[c] IN
  /\ pc[c] = "write"
  /\ file' = IF IsOwn(file, p) THEN [file EXCEPT !.written = TRUE] ELSE file
  /\ held' = [held EXCEPT ![p] = 1]
  /\ current' = [d \in Callers |-> d = c \/ (current[d] /\ ProcOf[d] # p)]
  /\ pc' = [pc EXCEPT ![c] = "holding"]
  /\ overreleased' = overreleased \ {p}
  /\ UNCHANGED <<epoch, unlinks, watched, sweeping, met>>

(* The write fails: the file is removed and the error goes to the caller. *)
WriteFails(c) ==
  /\ pc[c] = "write"
  /\ file' = NoFile
  /\ pc' = [pc EXCEPT ![c] = "idle"]
  /\ UNCHANGED <<epoch, held, current, unlinks, watched, sweeping, met, overreleased>>

(* inspectLockPayload: the payload is older than staleMs, or its pid is gone *)
(* or, by its start time, has become another process.  Without a start time  *)
(* a pid that is in use again looks like the owner.                          *)
LooksDead(f) == f.old \/ IsDead(f)
LooksAlive(f) == ~f.old /\ (IsDead(f) => "no_starttime" \in Hazards)

(* Without a start time a payload with the own pid and no entry is stale.    *)
shouldTreatAsOrphanSelfLock(f, p) ==
  "no_starttime" \in Hazards /\ f.by = p /\ held[p] = 0

(* What a judgement for removal meets: another that has not removed yet.     *)
NoOtherRemoves == sweeping = {} /\ \A d \in Callers : pc[d] # "remove"
Overlap == IF NoOtherRemoves THEN {} ELSE {"overlap"}

Read_AnyIsStale(c) ==   \* bug: a payload that cannot be read counts as stale at once
  /\ pc[c] = "read"
  /\ HasPayload => LooksDead(file)
  /\ Meets(Overlap)
  /\ pc' = [pc EXCEPT ![c] = "remove"]
  /\ UNCHANGED <<file, epoch, held, current, unlinks, watched, sweeping, overreleased>>
Read(c) ==
  LET p == ProcOf[c] IN
  /\ pc[c] = "read"
  /\ \/ ~HasPayload /\ pc' = [pc EXCEPT ![c] = "stat"] /\ UNCHANGED met
     \/ /\ HasPayload /\ LooksDead(file)
        /\ pc' = [pc EXCEPT ![c] = "remove"]
        /\ Meets(Overlap)
     \/ /\ HasPayload /\ shouldTreatAsOrphanSelfLock(file, p)
        /\ pc' = [pc EXCEPT ![c] = "remove"]
        /\ Meets(Overlap \cup IF IsDead(file) THEN {} ELSE {"no_starttime"})
     \/ /\ HasPayload /\ LooksAlive(file)
        /\ pc' = [pc EXCEPT ![c] = "open"]
        /\ UNCHANGED met
  /\ UNCHANGED <<file, epoch, held, current, unlinks, watched, sweeping, overreleased>>

(* shouldReclaimContendedLockFile: without a payload, the mtime decides, of *)
(* whatever file is there by now.                                           *)
Stat_NeverOld(c) ==   \* bug: a file without a payload is never reclaimed
  /\ pc[c] = "stat"
  /\ pc' = [pc EXCEPT ![c] = "open"]
  /\ UNCHANGED <<file, epoch, held, current, unlinks, watched, sweeping, met, overreleased>>
Stat(c) ==
  /\ pc[c] = "stat"
  /\ \/ IsOld /\ pc' = [pc EXCEPT ![c] = "remove"] /\ Meets(Overlap)
     \/ ~IsOld /\ pc' = [pc EXCEPT ![c] = "open"] /\ UNCHANGED met
  /\ UNCHANGED <<file, epoch, held, current, unlinks, watched, sweeping, overreleased>>

Remove(c) ==
  /\ pc[c] = "remove"
  /\ file' = NoFile
  /\ pc' = [pc EXCEPT ![c] = "open"]
  /\ UNCHANGED <<epoch, held, current, unlinks, watched, sweeping, met, overreleased>>

(* The loop ends when timeoutMs have passed. *)
GiveUp(c) ==
  /\ pc[c] = "open"
  /\ pc' = [pc EXCEPT ![c] = "idle"]
  /\ UNCHANGED <<file, epoch, held, current, unlinks, watched, sweeping, met, overreleased>>

-----------------------------------------------------------------------------
(* cleanStaleLockFiles, when a gateway starts: a missing payload is stale   *)
(* here whatever the age of the file.                                       *)
SweepReads(p) ==
  /\ file # NoFile
  /\ file.written => LooksDead(file)
  /\ Meets(Overlap \cup IF file.written \/ IsDead(file) THEN {} ELSE {"sweep"})
  /\ sweeping' = sweeping \cup {p}
  /\ UNCHANGED <<file, epoch, held, pc, current, unlinks, watched, overreleased>>

SweepRemoves(p) ==
  /\ p \in sweeping
  /\ file' = NoFile
  /\ sweeping' = sweeping \ {p}
  /\ UNCHANGED <<epoch, held, pc, current, unlinks, watched, met, overreleased>>

-----------------------------------------------------------------------------
(* releaseHeldLock *)

(* The entry goes at once, the file after an await.                         *)
Drop(p) ==
  /\ held' = [held EXCEPT ![p] = 0]
  /\ current' = [c \in Callers |-> current[c] /\ ProcOf[c] # p]
  /\ unlinks' = [unlinks EXCEPT ![p] = @ + 1]

Release_AnyEntry(c) ==   \* bug: the identity of the entry is not compared
  LET p == ProcOf[c] IN
  /\ pc[c] = "holding"
  /\ pc' = [pc EXCEPT ![c] = "idle"]
  /\ \/ held[p] = 0 /\ UNCHANGED <<held, current, unlinks, overreleased>>
     \/ /\ held[p] > 1
        /\ held' = [held EXCEPT ![p] = @ - 1]
        /\ UNCHANGED <<current, unlinks, overreleased>>
     \/ held[p] = 1 /\ Drop(p) /\ UNCHANGED overreleased
  /\ UNCHANGED <<file, epoch, watched, sweeping, met>>
LetGo(p) ==
  \/ /\ held[p] > 1
     /\ held' = [held EXCEPT ![p] = @ - 1]
     /\ UNCHANGED <<current, unlinks>>
  \/ held[p] = 1 /\ Drop(p)
Release(c) ==
  LET p == ProcOf[c] IN
  /\ pc[c] = "holding"
  /\ pc' = [pc EXCEPT ![c] = "idle"]
  /\ \/ /\ ~current[c]                       \* current !== held
        /\ UNCHANGED <<held, current, unlinks, overreleased>>
     \/ /\ current[c]
        /\ LetGo(p)
        /\ overreleased' = IF held[p] > 1 THEN overreleased ELSE overreleased \ {p}
  /\ UNCHANGED <<file, epoch, watched, sweeping, met>>

(* The handle is released again.  It refers to the entry as long as others  *)
(* keep that alive, and the count goes down once more.  A caller that has   *)
(* asked for the lock anew does not touch its earlier handle.               *)
ReleaseAgain(c) ==
  LET p == ProcOf[c] IN
  /\ "release_again" \in Hazards
  /\ pc[c] = "idle"
  /\ current[c]
  /\ LetGo(p)
  /\ overreleased' = IF held[p] > 1 THEN overreleased \cup {p} ELSE overreleased \ {p}
  /\ UNCHANGED <<file, epoch, pc, watched, sweeping, met>>

(* runLockWatchdogCheck, of a lock that was held for too long. *)
Watchdog(p) ==
  /\ watched[p]
  /\ held[p] > 0
  /\ Drop(p)
  /\ overreleased' = overreleased \ {p}
  /\ UNCHANGED <<file, epoch, pc, watched, sweeping, met>>

(* fs.rm by path, and the watchdog stops when nothing is held. *)
Unlink(p) ==
  /\ unlinks[p] > 0
  /\ file' = NoFile
  /\ unlinks' = [unlinks EXCEPT ![p] = @ - 1]
  /\ watched' = [watched EXCEPT ![p] = held[p] > 0 /\ @]
  /\ UNCHANGED <<epoch, held, pc, current, sweeping, met, overreleased>>

-----------------------------------------------------------------------------
(* The surroundings *)

(* The process ends: on a signal or exit() its held lock is removed on the  *)
(* way out (releaseAllLocksSync), in a crash the file stays.                *)
Ends(p, cleanly) ==
  /\ epoch[p] < MaxCrashes
  /\ epoch' = [epoch EXCEPT ![p] = @ + 1]
  /\ file' = IF cleanly /\ held[p] > 0 THEN NoFile ELSE file
  /\ held' = [held EXCEPT ![p] = 0]
  /\ pc' = [c \in Callers |-> IF ProcOf[c] = p THEN "idle" ELSE pc[c]]
  /\ current' = [c \in Callers |-> current[c] /\ ProcOf[c] # p]
  /\ unlinks' = [unlinks EXCEPT ![p] = 0]
  /\ watched' = [watched EXCEPT ![p] = FALSE]
  /\ sweeping' = sweeping \ {p}
  /\ overreleased' = overreleased \ {p}
  /\ UNCHANGED met

(* staleMs have passed since the file was written. *)
Ages ==
  /\ file # NoFile
  /\ ~file.old
  /\ Meets(IF IsDead(file) THEN {} ELSE {"long_hold"})
  /\ file' = [file EXCEPT !.old = TRUE]
  /\ UNCHANGED <<epoch, held, pc, current, unlinks, watched, sweeping, overreleased>>

-----------------------------------------------------------------------------
Contend(c) == Open(c) \/ Write(c) \/ WriteFails(c) \/ Read(c) \/ Stat(c) \/ Remove(c)

Next ==
  \/ \E c \in Callers : 
       Acquire(c) \/ Contend(c) \/ GiveUp(c) \/ Release(c) \/ ReleaseAgain(c)
  \/ \E p \in Procs : Watchdog(p) \/ Unlink(p) \/ SweepReads(p) \/ SweepRemoves(p)
  \/ \E p \in Procs, cleanly \in BOOLEAN : Ends(p, cleanly)
  \/ Ages

(* File operations return, and files grow old; no caller is bound to        *)
(* release what it holds, or to ask for the lock.                           *)
Fairness ==
  /\ \A c \in Callers : WF_vars(Contend(c))
  /\ \A p \in Procs : WF_vars(Unlink(p)) /\ WF_vars(SweepRemoves(p))
  /\ WF_vars(Ages)

Spec == Init /\ [][Next]_vars /\ Fairness

-----------------------------------------------------------------------------
TypeOK ==
  /\ file \in Files \cup {NoFile}
  /\ epoch \in [Procs -> Nat]
  /\ held \in [Procs -> Nat]
  /\ pc \in [Callers -> Steps]
  /\ current \in [Callers -> BOOLEAN]
  /\ unlinks \in [Procs -> Nat]
  /\ watched \in [Procs -> BOOLEAN]
  /\ sweeping \subseteq Procs
  /\ met \subseteq HazardNames
  /\ overreleased \subseteq Procs

(* Until a hazard to the file is met, the HELD_LOCKS entries of all         *)
(* processes together behave as one reentrant lock, whatever dies, times    *)
(* out, is released again or is released by the watchdog meanwhile.         *)
Depth == [p \in Procs |-> IF met = {} THEN held[p] ELSE 0]
Lock == INSTANCE ReentrantLock WITH depth <- Depth
IsReentrantLock == Lock!Spec

(* Until a hazard to the file is met, an entry is backed by a lock file of  *)
(* this process that has its payload, so that no other process can have     *)
(* one: neither a late removal nor a contender that judges the file takes   *)
(* it away.                                                                 *)
EntryIsBacked ==
  met = {} => \A p \in Procs : held[p] > 0 => IsOwn(file, p) /\ file.written

(* A caller loses the entry it holds by its own release, by the watchdog or *)
(* with its process: the late release of a lock that the watchdog took away *)
(* does not let go of the entry another caller has made since.  Two things  *)
(* beside these can take it, both of the same process: a handle of the      *)
(* entry that is released more than once, and a caller that makes an entry  *)
(* of its own after a hazard has cost the file.                             *)
Holds(c) == pc[c] = "holding" /\ current[c]
HandlesAreKept ==
  [][\A c \in Callers : Holds(c) /\ ~Holds(c)' =>
       \/ pc'[c] # "holding"
       \/ Watchdog(ProcOf[c])
       \/ ProcOf[c] \in overreleased
       \/ \E d \in Callers \ {c} :
            /\ ProcOf[d] = ProcOf[c]
            /\ ReleaseAgain(d) \/ (Write(d) /\ met # {})]_vars

(* A lock file whose owner is dead does not keep a contender out for ever:  *)
(* it is reclaimed before the contender gives up, if that takes long, also  *)
(* when its owner died before it wrote the payload.                         *)
Contends(c) == pc[c] \in {"open", "read", "stat", "remove"}
Orphaned == file # NoFile /\ IsDead(file)
OrphanIsReclaimed ==
  \A c \in Callers : (Orphaned /\ Contends(c)) ~> (~Orphaned \/ ~Contends(c))

===============================================================================
