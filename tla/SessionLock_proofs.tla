-------------------------- MODULE SessionLock_proofs --------------------------
(***************************************************************************)
(* Proofs about SessionLock: as long as none of the hazards is met, the    *)
(* entries of all processes behave as one reentrant lock and every entry   *)
(* is backed by its file, for any processes, callers and deaths.           *)
(***************************************************************************)
EXTENDS SessionLock, FiniteSetTheorems, TLAPS

-----------------------------------------------------------------------------
(* The inductive invariant *)

Fresh(f, p) == IsOwn(f, p) /\ ~f.old

(* A file that was created and not written yet belongs to one live writer.  *)
WritersInv ==
  /\ \A c \in Callers : pc[c] = "write" => Fresh(file, ProcOf[c]) /\ ~file.written
  /\ \A c, d \in Callers : pc[c] = "write" /\ pc[d] = "write" => c = d

(* An entry, and a release that has yet to remove its file, own the file.   *)
OwnersInv ==
  \A p \in Procs :
    /\ held[p] > 0 => Fresh(file, p) /\ file.written
    /\ unlinks[p] > 0 =>
         Fresh(file, p) /\ file.written /\ held[p] = 0 /\ unlinks[p] = 1

(* What was judged stale stays there, and stale, until its one judge has    *)
(* removed it.                                                              *)
RemoversInv ==
  /\ \A c \in Callers : pc[c] = "remove" => file # NoFile /\ IsDead(file) /\ sweeping = {}
  /\ \A c, d \in Callers : pc[c] = "remove" /\ pc[d] = "remove" => c = d
  /\ \A p \in sweeping : file # NoFile /\ IsDead(file)
  /\ \A p, q \in sweeping : p = q

(* Only the file of a dead process is old, and the dead do not come back.   *)
AgesInv ==
  file # NoFile => file.epoch <= epoch[file.by] /\ (file.old => IsDead(file))

(* An entry counts the callers that hold it, unless one of its handles has  *)
(* been released again.                                                     *)
HandlesOf(p) == {c \in Callers : ProcOf[c] = p /\ Holds(c)}
HandlesInv == \A p \in Procs \ overreleased : held[p] = Cardinality(HandlesOf(p))

FileInv == WritersInv /\ OwnersInv /\ RemoversInv /\ AgesInv
LockInv == TypeOK /\ (met = {} => FileInv) /\ HandlesInv

-----------------------------------------------------------------------------
(* Types *)

LEMMA TypeInit == Init => TypeOK
BY SessionLockAssumption DEF Init, TypeOK, Steps

LEMMA TypeStep == TypeOK /\ [Next]_vars => TypeOK'
<1> SUFFICES ASSUME TypeOK, [Next]_vars PROVE TypeOK'
  OBVIOUS
<1> USE SessionLockAssumption DEF TypeOK, Files, Steps, HazardNames, Meets, Overlap
<1>1. ASSUME NEW c \in Callers, Acquire(c) PROVE TypeOK'
  <2>1. held' = [held EXCEPT ![ProcOf[c]] = @ + 1] \/ UNCHANGED held
    BY <1>1 DEF Acquire
  <2>2. held' \in [Procs -> Nat]
    BY <2>1
  <2>3. current' \in [Callers -> BOOLEAN]
    BY <1>1 DEF Acquire
  <2>4. watched' \in [Procs -> BOOLEAN]
    BY <1>1 DEF Acquire
  <2> QED BY <1>1, <2>2, <2>3, <2>4 DEF Acquire
<1>2. ASSUME NEW c \in Callers, Open(c) PROVE TypeOK'
  <2> DEFINE f == [by |-> ProcOf[c], epoch |-> epoch[ProcOf[c]], written |-> FALSE, old |-> FALSE]
  <2>1. ProcOf[c] \in Procs /\ epoch[ProcOf[c]] \in Nat
    OBVIOUS
  <2>2. f \in Files
    BY <2>1
  <2> HIDE DEF f
  <2>3. file' \in Files \cup {NoFile}
    BY <1>2, <2>2 DEF Open, f
  <2>4. pc' \in [Callers -> Steps]
    BY <1>2 DEF Open
  <2> QED BY <1>2, <2>3, <2>4 DEF Open
<1>3. ASSUME NEW c \in Callers, Write(c) PROVE TypeOK'
  BY <1>3 DEF Write, IsOwn
<1>4. ASSUME NEW c \in Callers, WriteFails(c) \/ Remove(c) \/ GiveUp(c) PROVE TypeOK'
  BY <1>4 DEF WriteFails, Remove, GiveUp
<1>5. ASSUME NEW c \in Callers, Read(c) \/ Stat(c) PROVE TypeOK'
  BY <1>5 DEF Read, Stat
<1>6. ASSUME NEW c \in Callers, Release(c) \/ ReleaseAgain(c) PROVE TypeOK'
  <2> DEFINE p == ProcOf[c]
  <2>1. \/ UNCHANGED <<held, current, unlinks>>
        \/ /\ held[p] > 1 /\ held' = [held EXCEPT ![p] = held[p] - 1]
           /\ UNCHANGED <<current, unlinks>>
        \/ Drop(p)
    BY <1>6 DEF Release, ReleaseAgain, LetGo
  <2>2. /\ held' \in [Procs -> Nat] /\ current' \in [Callers -> BOOLEAN]
        /\ unlinks' \in [Procs -> Nat]
    <3>1. CASE UNCHANGED <<held, current, unlinks>>
      BY <3>1
    <3>2. CASE held[p] > 1 /\ held' = [held EXCEPT ![p] = held[p] - 1] /\ UNCHANGED <<current, unlinks>>
      <4>1. held[p] - 1 \in Nat
        BY <3>2
      <4> QED BY <3>2, <4>1
    <3>3. CASE Drop(p)
      BY <3>3 DEF Drop
    <3> QED BY <2>1, <3>1, <3>2, <3>3
  <2>3. overreleased' \subseteq Procs
    BY <1>6 DEF Release, ReleaseAgain
  <2>4. /\ pc' = [pc EXCEPT ![c] = "idle"] \/ UNCHANGED pc
        /\ UNCHANGED <<file, epoch, watched, sweeping, met>>
    BY <1>6, Zenon DEF Release, ReleaseAgain
  <2> QED BY <2>2, <2>3, <2>4
<1>7. ASSUME NEW p \in Procs, Watchdog(p) \/ Unlink(p) PROVE TypeOK'
  <2>1. CASE Watchdog(p)
    BY <2>1 DEF Watchdog, Drop
  <2>2. CASE Unlink(p)
    <3>1. watched' \in [Procs -> BOOLEAN]
      BY <2>2 DEF Unlink
    <3>2. unlinks[p] - 1 \in Nat
      BY <2>2 DEF Unlink
    <3> QED BY <2>2, <3>1, <3>2 DEF Unlink
  <2> QED BY <1>7, <2>1, <2>2
<1>8. ASSUME NEW p \in Procs, SweepReads(p) \/ SweepRemoves(p) PROVE TypeOK'
  BY <1>8 DEF SweepReads, SweepRemoves
<1>9. ASSUME NEW p \in Procs, NEW cleanly \in BOOLEAN, Ends(p, cleanly) PROVE TypeOK'
  BY <1>9 DEF Ends
<1>10. CASE Ages \/ UNCHANGED vars
  BY <1>10 DEF Ages, vars
<1> QED BY <1>1, <1>2, <1>3, <1>4, <1>5, <1>6, <1>7, <1>8, <1>9, <1>10 DEF Next, Contend

-----------------------------------------------------------------------------
(* The file is safe *)

LEMMA FileInit == Init => FileInv
BY SessionLockAssumption DEF Init, FileInv, WritersInv, OwnersInv, RemoversInv, AgesInv

(* A judgement that meets no hazard is the only one under way.              *)
LEMMA OnlyJudge ==
  ASSUME NEW hazards, Meets(Overlap \cup hazards), met' = {}
  PROVE  hazards = {} /\ sweeping = {} /\ \A d \in Callers : pc[d] # "remove"
BY DEF Meets, Overlap, NoOtherRemoves

(* Until a hazard is met every step keeps the file with its owner.          *)
LEMMA FileStep ==
  ASSUME TypeOK, TypeOK', FileInv, [Next]_vars, met' = {}
  PROVE  FileInv'
<1> USE SessionLockAssumption
    DEF FileInv, TypeOK, Files, Steps, WritersInv, OwnersInv, RemoversInv, AgesInv,
        Fresh, IsOwn, IsDead
<1>1. ASSUME NEW c \in Callers, Acquire(c) PROVE FileInv'
  <2>1. CASE ~UNCHANGED held
    <3>1. /\ held[ProcOf[c]] > 0 /\ held' = [held EXCEPT ![ProcOf[c]] = @ + 1]
          /\ pc' = [pc EXCEPT ![c] = "holding"]
          /\ current' = [current EXCEPT ![c] = TRUE]
          /\ watched' = [watched EXCEPT ![ProcOf[c]] = TRUE]
          /\ UNCHANGED <<file, epoch, unlinks, sweeping>>
      BY <1>1, <2>1 DEF Acquire
    <3>2. held' \in [Procs -> Nat] /\ \A p \in Procs : held'[p] > 0 <=> held[p] > 0
      BY <3>1
    <3> QED BY <3>1, <3>2
  <2>2. CASE UNCHANGED held
    BY <1>1, <2>2 DEF Acquire
  <2> QED BY <1>1, <2>1, <2>2 DEF Acquire
<1>2. ASSUME NEW c \in Callers, Open(c) PROVE FileInv'
  <2> DEFINE p == ProcOf[c]
             f == [by |-> p, epoch |-> epoch[p], written |-> FALSE, old |-> FALSE]
  <2>1. CASE file # NoFile
    BY <1>2, <2>1 DEF Open
  <2>2. CASE file = NoFile
    <3>1. /\ file' = f /\ f \in Files /\ f # NoFile
          /\ f.by = p /\ f.epoch = epoch[p] /\ ~f.old /\ ~f.written
      <4>1. file' = f
        BY <1>2, <2>2 DEF Open
      <4>2. p \in Procs /\ epoch[p] \in Nat
        OBVIOUS
      <4>3. f \in Files
        BY <4>2
      <4>4. f # NoFile
        BY <4>3
      <4> QED BY <4>1, <4>3, <4>4
    <3>2. /\ \A q \in Procs : held[q] = 0 /\ unlinks[q] = 0
          /\ \A d \in Callers : pc[d] # "write" /\ pc[d] # "remove"
          /\ sweeping = {}
      BY <2>2
    <3>3. pc' = [pc EXCEPT ![c] = "write"]
          /\ UNCHANGED <<epoch, held, current, unlinks, watched, sweeping>>
      BY <1>2, <2>2 DEF Open
    <3> QED BY <3>1, <3>2, <3>3
  <2> QED BY <2>1, <2>2
<1>3. ASSUME NEW c \in Callers, Write(c) PROVE FileInv'
  <2> DEFINE p == ProcOf[c]
  <2>1. p \in Procs /\ Fresh(file, p) /\ ~file.written /\ file \in Files
    BY <1>3 DEF Write
  <2>2. /\ \A q \in Procs : held[q] = 0 /\ unlinks[q] = 0
        /\ \A d \in Callers \ {c} : pc[d] # "write"
        /\ \A d \in Callers : pc[d] # "remove"
        /\ sweeping = {}
    BY <1>3, <2>1 DEF Write
  <2>3. /\ file' \in Files /\ file'.by = file.by /\ file'.epoch = file.epoch
        /\ file'.old = file.old /\ file'.written
    BY <1>3, <2>1 DEF Write
  <2>4. /\ held' = [held EXCEPT ![p] = 1] /\ pc' = [pc EXCEPT ![c] = "holding"]
        /\ current' \in [Callers -> BOOLEAN]
        /\ UNCHANGED <<epoch, unlinks, watched, sweeping>>
    BY <1>3 DEF Write
  <2> QED BY <2>1, <2>2, <2>3, <2>4
<1>4. ASSUME NEW c \in Callers, WriteFails(c) PROVE FileInv'
  BY <1>4 DEF WriteFails
<1>5. ASSUME NEW c \in Callers, Read(c) PROVE FileInv'
  <2>1. CASE pc' = [pc EXCEPT ![c] = "stat"] \/ pc' = [pc EXCEPT ![c] = "open"]
    BY <1>5, <2>1 DEF Read
  <2>2. CASE pc' = [pc EXCEPT ![c] = "remove"]
    <3>1. /\ file # NoFile
          /\ \/ Meets(Overlap \cup {}) /\ LooksDead(file)
             \/ Meets(Overlap \cup IF IsDead(file) THEN {} ELSE {"no_starttime"})
      BY <1>5, <2>2 DEF Read, HasPayload
    <3>2. /\ IsDead(file)
          /\ sweeping = {} /\ \A d \in Callers : pc[d] # "remove"
      BY <3>1, OnlyJudge DEF LooksDead
    <3> QED BY <1>5, <2>2, <3>1, <3>2 DEF Read
  <2> QED BY <1>5, <2>1, <2>2 DEF Read
<1>6. ASSUME NEW c \in Callers, Stat(c) PROVE FileInv'
  <2>1. CASE pc' = [pc EXCEPT ![c] = "open"]
    BY <1>6, <2>1 DEF Stat
  <2>2. CASE pc' = [pc EXCEPT ![c] = "remove"]
    <3>1. file # NoFile /\ file.old /\ Meets(Overlap \cup {})
      BY <1>6, <2>2 DEF Stat, IsOld
    <3>2. sweeping = {} /\ \A d \in Callers : pc[d] # "remove"
      BY <3>1, OnlyJudge
    <3> QED BY <1>6, <2>2, <3>1, <3>2 DEF Stat
  <2> QED BY <1>6, <2>1, <2>2 DEF Stat
<1>7. ASSUME NEW c \in Callers, Remove(c) PROVE FileInv'
  BY <1>7 DEF Remove
<1>8. ASSUME NEW c \in Callers, GiveUp(c) PROVE FileInv'
  BY <1>8 DEF GiveUp
<1>9. ASSUME NEW c \in Callers, LetGo(ProcOf[c]), pc[c] # "remove" /\ pc[c] # "write",
             pc' = [pc EXCEPT ![c] = "idle"] \/ pc' = pc,
             UNCHANGED <<file, epoch, watched, sweeping, met>>
      PROVE  FileInv'
  <2>1. CASE held[ProcOf[c]] > 1
    <3>1. held' = [held EXCEPT ![ProcOf[c]] = @ - 1] /\ UNCHANGED unlinks
      BY <1>9, <2>1 DEF LetGo
    <3>2. held' \in [Procs -> Nat] /\ \A p \in Procs : held'[p] > 0 <=> held[p] > 0
      BY <3>1, <2>1
    <3> QED BY <1>9, <3>1, <3>2
  <2>2. CASE held[ProcOf[c]] = 1
    <3>1. /\ held' = [held EXCEPT ![ProcOf[c]] = 0]
          /\ unlinks' = [unlinks EXCEPT ![ProcOf[c]] = @ + 1]
      BY <1>9, <2>2 DEF LetGo, Drop
    <3>2. unlinks[ProcOf[c]] = 0 /\ Fresh(file, ProcOf[c]) /\ file.written
      BY <2>2
    <3> QED BY <1>9, <3>1, <3>2, <2>2
  <2> QED BY <1>9, <2>1, <2>2 DEF LetGo
<1>10. ASSUME NEW p \in Procs, Watchdog(p) PROVE FileInv'
  BY <1>10 DEF Watchdog, Drop
<1>11. ASSUME NEW p \in Procs, Unlink(p) PROVE FileInv'
  BY <1>11 DEF Unlink
<1>12. ASSUME NEW p \in Procs, SweepReads(p) PROVE FileInv'
  <2>1. /\ file # NoFile /\ (file.written => LooksDead(file))
        /\ Meets(Overlap \cup IF file.written \/ IsDead(file) THEN {} ELSE {"sweep"})
    BY <1>12 DEF SweepReads
  <2>2. /\ file.written \/ IsDead(file)
        /\ sweeping = {} /\ \A d \in Callers : pc[d] # "remove"
    BY <2>1, OnlyJudge
  <2>3. IsDead(file)
    BY <2>1, <2>2 DEF LooksDead
  <2> QED BY <1>12, <2>1, <2>2, <2>3 DEF SweepReads
<1>13. ASSUME NEW p \in Procs, SweepRemoves(p) PROVE FileInv'
  BY <1>13 DEF SweepRemoves
<1>14. ASSUME NEW p \in Procs, NEW cleanly \in BOOLEAN, Ends(p, cleanly) PROVE FileInv'
  BY <1>14 DEF Ends
<1>15. CASE Ages
  <2>1. IsDead(file)
    BY <1>15 DEF Ages, Meets
  <2> QED BY <1>15, <2>1 DEF Ages
<1>16. CASE UNCHANGED vars
  BY <1>16 DEF vars
<1>17. ASSUME NEW c \in Callers, Release(c) PROVE FileInv'
  <2>1. CASE ~current[c]
    BY <1>17, <2>1 DEF Release
  <2>2. CASE current[c]
    BY <1>9, <1>17, <2>2 DEF Release
  <2> QED BY <2>1, <2>2
<1>18. ASSUME NEW c \in Callers, ReleaseAgain(c) PROVE FileInv'
  BY <1>9, <1>18 DEF ReleaseAgain
<1> QED BY <1>1, <1>2, <1>3, <1>4, <1>5, <1>6, <1>7, <1>8, <1>10, <1>11, <1>12, <1>13, <1>14, <1>15, <1>16, <1>17, <1>18 DEF Next, Contend

-----------------------------------------------------------------------------
(* The handles are counted *)

LEMMA HandlesFinite == \A p \in Procs : IsFiniteSet(HandlesOf(p))
BY SessionLockAssumption, FS_Subset DEF HandlesOf

LEMMA HandlesInit == Init => HandlesInv
<1>1. Init => \A p \in Procs : HandlesOf(p) = {}
  BY DEF Init, HandlesOf, Holds
<1> QED BY <1>1, FS_EmptySet DEF Init, HandlesInv

(* What a release or the watchdog drops is counted no more.                 *)
LEMMA HandlesDrop ==
  ASSUME TypeOK, HandlesInv, NEW p \in Procs,
         held' = [held EXCEPT ![p] = 0],
         current' = [c \in Callers |-> current[c] /\ ProcOf[c] # p],
         overreleased' = overreleased \ {p},
         \A c \in Callers : current[c] /\ ProcOf[c] # p => pc'[c] = pc[c]
  PROVE  HandlesInv'
<1>1. HandlesOf(p)' = {}
  BY DEF HandlesOf, Holds
<1>2. \A q \in Procs \ {p} : HandlesOf(q)' = HandlesOf(q)
  BY DEF HandlesOf, Holds, TypeOK
<1>3. \A q \in Procs \ overreleased' : held'[q] = Cardinality(HandlesOf(q)')
  BY <1>1, <1>2, FS_EmptySet DEF HandlesInv, TypeOK
<1> QED BY <1>3 DEF HandlesInv

(* A step that touches neither entries nor holders counts the same.         *)
LEMMA HandlesSame ==
  ASSUME HandlesInv, UNCHANGED <<held, overreleased>>,
         \A c \in Callers : Holds(c)' = Holds(c)
  PROVE  HandlesInv'
<1>1. \A p \in Procs : HandlesOf(p)' = HandlesOf(p)
  BY DEF HandlesOf
<1> QED BY <1>1 DEF HandlesInv

(* One more holder is one more in the count.                                *)
LEMMA HandlesMore ==
  ASSUME TypeOK, HandlesInv, NEW c \in Callers,
         held' = [held EXCEPT ![ProcOf[c]] = held[ProcOf[c]] + 1], UNCHANGED overreleased,
         \A d \in Callers \ {c} : Holds(d)' = Holds(d),
         Holds(c)', ~Holds(c)
  PROVE  HandlesInv'
<1> DEFINE p == ProcOf[c]
<1> USE SessionLockAssumption
<1>1. p \in Procs /\ IsFiniteSet(HandlesOf(p)) /\ c \notin HandlesOf(p)
  BY HandlesFinite DEF HandlesOf
<1>2. HandlesOf(p)' = HandlesOf(p) \cup {c}
  BY DEF HandlesOf
<1>3. Cardinality(HandlesOf(p)') = Cardinality(HandlesOf(p)) + 1
  BY <1>1, <1>2, FS_AddElement
<1>4. \A q \in Procs \ {p} : HandlesOf(q)' = HandlesOf(q) /\ held'[q] = held[q]
  BY DEF HandlesOf, TypeOK
<1> QED BY <1>1, <1>3, <1>4 DEF HandlesInv, TypeOK

(* One holder less is one less.                                             *)
LEMMA HandlesLess ==
  ASSUME TypeOK, HandlesInv, NEW c \in Callers,
         held' = [held EXCEPT ![ProcOf[c]] = held[ProcOf[c]] - 1], UNCHANGED overreleased,
         \A d \in Callers \ {c} : Holds(d)' = Holds(d),
         ~Holds(c)', Holds(c)
  PROVE  HandlesInv'
<1> DEFINE p == ProcOf[c]
<1> USE SessionLockAssumption
<1>1. p \in Procs /\ IsFiniteSet(HandlesOf(p)) /\ c \in HandlesOf(p)
  BY HandlesFinite DEF HandlesOf
<1>2. HandlesOf(p)' = HandlesOf(p) \ {c}
  BY DEF HandlesOf
<1>3. Cardinality(HandlesOf(p)') = Cardinality(HandlesOf(p)) - 1
  BY <1>1, <1>2, FS_RemoveElement
<1>4. \A q \in Procs \ {p} : HandlesOf(q)' = HandlesOf(q) /\ held'[q] = held[q]
  BY DEF HandlesOf, TypeOK
<1> QED BY <1>1, <1>3, <1>4 DEF HandlesInv, TypeOK

(* An entry with the count one has one holder, unless it was released again.*)
LEMMA OneHolder ==
  ASSUME HandlesInv, NEW p \in Procs \ overreleased, held[p] = 1,
         NEW c \in HandlesOf(p), NEW d \in HandlesOf(p)
  PROVE  c = d
<1>1. IsFiniteSet(HandlesOf(p)) /\ Cardinality(HandlesOf(p)) = 1
  BY HandlesFinite DEF HandlesInv
<1>2. IsFiniteSet(HandlesOf(p) \ {c}) /\ Cardinality(HandlesOf(p) \ {c}) = 0
  <2>1. Cardinality(HandlesOf(p) \ {c}) = Cardinality(HandlesOf(p)) - 1
    BY <1>1, FS_RemoveElement
  <2> QED BY <1>1, <2>1, FS_RemoveElement
<1>3. HandlesOf(p) \ {c} = {}
  BY <1>2, FS_EmptySet
<1> QED BY <1>3

(* What a step may do to the holder c.                                      *)
Kept(c) ==
  Holds(c) /\ ~Holds(c)' =>
    \/ pc'[c] # "holding"
    \/ Watchdog(ProcOf[c])
    \/ ProcOf[c] \in overreleased
    \/ \E d \in Callers \ {c} :
         /\ ProcOf[d] = ProcOf[c]
         /\ ReleaseAgain(d) \/ (Write(d) /\ met # {})
HandlesStep == \A c \in Callers : Kept(c)

(* Every step keeps the count, and no caller loses its entry to another.    *)
LEMMA CountStep ==
  ASSUME TypeOK, met = {} => FileInv, HandlesInv, [Next]_vars
  PROVE  HandlesInv' /\ HandlesStep
<1> USE SessionLockAssumption
<1>0. ASSUME \A c \in Callers : Holds(c)' = Holds(c)
      PROVE  HandlesStep
  BY <1>0 DEF HandlesStep, Kept
<1>1. ASSUME NEW c \in Callers, Acquire(c) PROVE HandlesInv' /\ HandlesStep
  <2>1. ~Holds(c) /\ \A d \in Callers \ {c} : Holds(d)' = Holds(d)
    BY <1>1 DEF Acquire, Holds, TypeOK
  <2>2. HandlesStep
    BY <2>1 DEF HandlesStep, Kept
  <2>3. CASE UNCHANGED held
    <3>1. ~Holds(c)'
      <4>1. held[ProcOf[c]] # held[ProcOf[c]] + 1
        BY DEF TypeOK
      <4>2. current' = [current EXCEPT ![c] = FALSE]
        BY <1>1, <2>3, <4>1 DEF Acquire, TypeOK
      <4> QED BY <4>2 DEF Holds, TypeOK
    <3>2. UNCHANGED overreleased /\ \A d \in Callers : Holds(d)' = Holds(d)
      BY <1>1, <2>1, <3>1 DEF Acquire, Holds
    <3> QED BY <2>2, <2>3, <3>2, HandlesSame
  <2>4. CASE ~UNCHANGED held
    <3>1. held' = [held EXCEPT ![ProcOf[c]] = held[ProcOf[c]] + 1] /\ Holds(c)'
      BY <1>1, <2>4 DEF Acquire, Holds, TypeOK
    <3>2. UNCHANGED overreleased
      BY <1>1 DEF Acquire
    <3>3. HandlesInv'
      BY <2>1, <3>1, <3>2, HandlesMore
    <3> QED BY <2>2, <3>3
  <2> QED BY <2>3, <2>4
<1>2. ASSUME NEW c \in Callers, Write(c) PROVE HandlesInv' /\ HandlesStep
  <2> DEFINE p == ProcOf[c]
  <2>1. /\ p \in Procs /\ pc[c] = "write"
        /\ held' = [held EXCEPT ![p] = 1]
        /\ current' = [d \in Callers |-> d = c \/ (current[d] /\ ProcOf[d] # p)]
        /\ pc' = [pc EXCEPT ![c] = "holding"]
        /\ overreleased' = overreleased \ {p}
    BY <1>2 DEF Write
  <2>2. HandlesOf(p)' = {c} /\ \A q \in Procs \ {p} : HandlesOf(q)' = HandlesOf(q)
    BY <2>1 DEF HandlesOf, Holds, TypeOK
  <2>3. Cardinality({c}) = 1
    BY FS_Singleton
  <2>4. HandlesInv'
    BY <2>1, <2>2, <2>3 DEF HandlesInv, TypeOK
  <2>5. ASSUME NEW d \in Callers, Holds(d), ~Holds(d)' PROVE Kept(d)
    <3>1. d # c /\ ProcOf[d] = p
      BY <2>1, <2>5 DEF Holds, TypeOK
    <3>2. CASE met = {}
      <4>1. held[p] = 0
        BY <2>1, <3>2 DEF TypeOK, FileInv, WritersInv, OwnersInv
      <4>2. CASE p \notin overreleased
        <5>1. HandlesOf(p) = {}
          BY <2>1, <4>1, <4>2, HandlesFinite, FS_EmptySet DEF HandlesInv
        <5> QED BY <2>5, <3>1, <5>1 DEF HandlesOf
      <4> QED BY <3>1, <4>2 DEF Kept
    <3> QED BY <1>2, <3>1, <3>2 DEF Kept
  <2> QED BY <2>4, <2>5 DEF HandlesStep, Kept
<1>3. ASSUME NEW c \in Callers,
             Open(c) \/ WriteFails(c) \/ Read(c) \/ Stat(c) \/ Remove(c) \/ GiveUp(c)
      PROVE  HandlesInv' /\ HandlesStep
  <2>1. UNCHANGED <<held, overreleased, current>> /\ pc[c] # "holding" /\ pc'[c] # "holding"
        /\ \A d \in Callers \ {c} : pc'[d] = pc[d]
    BY <1>3 DEF Open, WriteFails, Read, Stat, Remove, GiveUp, TypeOK
  <2>2. \A d \in Callers : Holds(d)' = Holds(d)
    BY <2>1 DEF Holds
  <2> QED BY <1>0, <2>1, <2>2, HandlesSame
<1>4. ASSUME NEW c \in Callers, Release(c) PROVE HandlesInv' /\ HandlesStep
  <2> DEFINE p == ProcOf[c]
  <2>1. /\ p \in Procs /\ held[p] \in Nat /\ pc[c] = "holding"
        /\ pc' = [pc EXCEPT ![c] = "idle"] /\ ~Holds(c)'
    BY <1>4 DEF Release, TypeOK, Holds
  <2>2. CASE UNCHANGED <<held, current>> /\ ~current[c]
    <3>1. \A d \in Callers : Holds(d)' = Holds(d)
      BY <2>1, <2>2 DEF Holds, TypeOK
    <3> QED BY <1>0, <1>4, <2>2, <3>1, HandlesSame DEF Release
  <2>3. CASE current[c] /\ held[p] > 1
    <3>1. /\ held' = [held EXCEPT ![p] = held[p] - 1] /\ held[p] - 1 \in Nat
          /\ UNCHANGED <<current, overreleased>>
      BY <1>4, <2>1, <2>3 DEF Release, LetGo
    <3>2. Holds(c) /\ \A d \in Callers \ {c} : Holds(d)' = Holds(d)
      BY <2>1, <2>3, <3>1 DEF Holds, TypeOK
    <3>3. HandlesInv'
      BY <2>1, <3>1, <3>2, HandlesLess
    <3> QED BY <2>1, <3>2, <3>3 DEF HandlesStep, Kept, TypeOK
  <2>4. CASE current[c] /\ held[p] = 1
    <3>1. /\ held' = [held EXCEPT ![p] = 0]
          /\ current' = [d \in Callers |-> current[d] /\ ProcOf[d] # p]
          /\ overreleased' = overreleased \ {p}
      BY <1>4, <2>1, <2>4 DEF Release, LetGo, Drop
    <3>2. \A d \in Callers : current[d] /\ ProcOf[d] # p => pc'[d] = pc[d]
      BY <2>1 DEF TypeOK
    <3>3. HandlesInv'
      BY <2>1, <3>1, <3>2, HandlesDrop
    <3>4. ASSUME NEW d \in Callers, Holds(d), ~Holds(d)' PROVE Kept(d)
      <4>1. ProcOf[d] = p
        BY <2>1, <3>1, <3>4 DEF Holds, TypeOK
      <4>2. CASE p \notin overreleased
        <5>1. c \in HandlesOf(p) /\ d \in HandlesOf(p)
          BY <2>1, <2>4, <3>4, <4>1 DEF HandlesOf, Holds
        <5>2. d = c
          BY <2>1, <2>4, <4>2, <5>1, OneHolder
        <5> QED BY <2>1, <5>2 DEF Kept, TypeOK
      <4> QED BY <4>1, <4>2 DEF Kept
    <3> QED BY <3>3, <3>4 DEF HandlesStep, Kept
  <2> QED BY <1>4, <2>1, <2>2, <2>3, <2>4 DEF Release, LetGo
<1>5. ASSUME NEW c \in Callers, ReleaseAgain(c) PROVE HandlesInv' /\ HandlesStep
  <2> DEFINE p == ProcOf[c]
  <2>1. p \in Procs /\ pc[c] = "idle" /\ UNCHANGED pc /\ ~Holds(c)
    BY <1>5 DEF ReleaseAgain, Holds
  <2>2. \A d \in Callers : Holds(d) /\ ~Holds(d)' => d # c /\ ProcOf[d] = p
    BY <1>5, <2>1 DEF ReleaseAgain, LetGo, Drop, Holds
  <2>3. HandlesStep
    BY <1>5, <2>2 DEF HandlesStep, Kept
  <2>4. CASE held[p] = 1
    <3>1. /\ held' = [held EXCEPT ![p] = 0]
          /\ current' = [d \in Callers |-> current[d] /\ ProcOf[d] # p]
          /\ overreleased' = overreleased \ {p}
      BY <1>5, <2>4 DEF ReleaseAgain, LetGo, Drop
    <3> QED BY <2>1, <2>3, <3>1, HandlesDrop
  <2>5. CASE held[p] > 1
    <3>1. /\ held' = [held EXCEPT ![p] = held[p] - 1] /\ UNCHANGED current
          /\ overreleased' = overreleased \cup {p}
      BY <1>5, <2>5 DEF ReleaseAgain, LetGo
    <3>2. \A q \in Procs : HandlesOf(q)' = HandlesOf(q)
      BY <2>1, <3>1 DEF HandlesOf, Holds
    <3> QED BY <2>3, <3>1, <3>2 DEF HandlesInv, TypeOK
  <2> QED BY <1>5, <2>4, <2>5 DEF ReleaseAgain, LetGo
<1>6. ASSUME NEW p \in Procs, Watchdog(p) PROVE HandlesInv' /\ HandlesStep
  <2>1. /\ held' = [held EXCEPT ![p] = 0]
        /\ current' = [d \in Callers |-> current[d] /\ ProcOf[d] # p]
        /\ overreleased' = overreleased \ {p} /\ UNCHANGED pc
    BY <1>6 DEF Watchdog, Drop
  <2>2. HandlesInv'
    BY <2>1, HandlesDrop
  <2>3. \A d \in Callers : Holds(d) /\ ~Holds(d)' => ProcOf[d] = p
    BY <2>1 DEF Holds
  <2> QED BY <1>6, <2>2, <2>3 DEF HandlesStep, Kept
<1>7. ASSUME NEW p \in Procs, Unlink(p) \/ SweepReads(p) \/ SweepRemoves(p)
      PROVE  HandlesInv' /\ HandlesStep
  <2>1. UNCHANGED <<held, overreleased, pc, current>>
    BY <1>7 DEF Unlink, SweepReads, SweepRemoves
  <2> QED BY <1>0, <2>1, HandlesSame DEF Holds
<1>8. ASSUME NEW p \in Procs, NEW cleanly \in BOOLEAN, Ends(p, cleanly)
      PROVE  HandlesInv' /\ HandlesStep
  <2>1. /\ held' = [held EXCEPT ![p] = 0]
        /\ current' = [d \in Callers |-> current[d] /\ ProcOf[d] # p]
        /\ overreleased' = overreleased \ {p}
        /\ \A c \in Callers : pc'[c] = IF ProcOf[c] = p THEN "idle" ELSE pc[c]
    BY <1>8 DEF Ends
  <2>2. HandlesInv'
    BY <2>1, HandlesDrop
  <2>3. \A c \in Callers : Holds(c) /\ ~Holds(c)' => pc'[c] # "holding"
    BY <2>1 DEF Holds
  <2> QED BY <2>2, <2>3 DEF HandlesStep, Kept
<1>9. CASE Ages \/ UNCHANGED vars
  <2>1. UNCHANGED <<held, overreleased, pc, current>>
    BY <1>9 DEF Ages, vars
  <2> QED BY <1>0, <2>1, HandlesSame DEF Holds
<1> QED BY <1>1, <1>2, <1>3, <1>4, <1>5, <1>6, <1>7, <1>8, <1>9 DEF Next, Contend

-----------------------------------------------------------------------------
(* The lock *)

(* Entries of two processes do not coexist: one file has one owner.         *)
LEMMA OneProcess ==
  ASSUME TypeOK, FileInv, NEW p \in Procs, NEW q \in Procs, p # q,
         held[p] > 0 \/ \E c \in Callers : ProcOf[c] = p /\ pc[c] = "write"
  PROVE  held[q] = 0
BY DEF FileInv, TypeOK, WritersInv, OwnersInv, Fresh, IsOwn

(* What is met stays met, and only judgements and the clock meet anything.  *)
LEMMA MeetStep ==
  ASSUME TypeOK, [Next]_vars
  PROVE  met \subseteq met' /\ (met' = met \/ UNCHANGED held)
BY DEF Next, Contend, Acquire, Open, Write, WriteFails, Read, Stat, Remove, GiveUp,
       Release, ReleaseAgain, Watchdog, Unlink, SweepReads, SweepRemoves, Ends, Ages,
       Meets, vars

(* Without a hazard every step enters, leaves or revokes, or does nothing.  *)
LEMMA EntryStep ==
  ASSUME TypeOK, FileInv, [Next]_vars
  PROVE  \/ UNCHANGED held
         \/ \E p \in Procs :
              \/ /\ \A q \in Procs \ {p} : held[q] = 0
                 /\ held' = [held EXCEPT ![p] = held[p] + 1]
              \/ held[p] > 0 /\ held' = [held EXCEPT ![p] = held[p] - 1]
              \/ held[p] > 0 /\ held' = [held EXCEPT ![p] = 0]
<1> DEFINE Goal == \E p \in Procs :
              \/ /\ \A q \in Procs \ {p} : held[q] = 0
                 /\ held' = [held EXCEPT ![p] = held[p] + 1]
              \/ held[p] > 0 /\ held' = [held EXCEPT ![p] = held[p] - 1]
              \/ held[p] > 0 /\ held' = [held EXCEPT ![p] = 0]
<1> USE SessionLockAssumption
<1>1. ASSUME NEW c \in Callers, Acquire(c) PROVE UNCHANGED held \/ Goal
  <2>1. CASE ~UNCHANGED held
    <3>1. held[ProcOf[c]] > 0 /\ held' = [held EXCEPT ![ProcOf[c]] = held[ProcOf[c]] + 1]
      BY <1>1, <2>1 DEF Acquire
    <3>2. ProcOf[c] \in Procs /\ \A q \in Procs \ {ProcOf[c]} : held[q] = 0
      BY <3>1, OneProcess
    <3> QED BY <3>1, <3>2
  <2> QED BY <2>1
<1>2. ASSUME NEW c \in Callers, Write(c) PROVE Goal
  <2>1. held[ProcOf[c]] = 0 /\ pc[c] = "write" /\ held' = [held EXCEPT ![ProcOf[c]] = 1]
    BY <1>2 DEF Write, FileInv, TypeOK, WritersInv, OwnersInv
  <2>2. ProcOf[c] \in Procs /\ held' = [held EXCEPT ![ProcOf[c]] = held[ProcOf[c]] + 1]
    BY <2>1
  <2>3. \A q \in Procs \ {ProcOf[c]} : held[q] = 0
    BY <2>1, <2>2, OneProcess
  <2> QED BY <2>2, <2>3
<1>3. ASSUME NEW p \in Procs, LetGo(p) PROVE Goal
  <2>1. held[p] \in Nat
    BY DEF TypeOK
  <2>2. \/ held[p] > 1 /\ held' = [held EXCEPT ![p] = held[p] - 1]
        \/ held[p] = 1 /\ held' = [held EXCEPT ![p] = 0]
    BY <1>3 DEF LetGo, Drop
  <2>3. held[p] > 0
    BY <2>1, <2>2
  <2> QED BY <2>2, <2>3
<1>4. ASSUME NEW p \in Procs, held' = [held EXCEPT ![p] = 0] PROVE UNCHANGED held \/ Goal
  <2>1. held[p] = 0 \/ held[p] > 0
    BY DEF TypeOK
  <2>2. CASE held[p] = 0
    BY <1>4, <2>2 DEF TypeOK
  <2>3. CASE held[p] > 0
    BY <1>4, <2>3
  <2> QED BY <2>1, <2>2, <2>3
<1>5. ASSUME NEW c \in Callers, Release(c) \/ ReleaseAgain(c) PROVE UNCHANGED held \/ Goal
  <2>1. ProcOf[c] \in Procs /\ (UNCHANGED held \/ LetGo(ProcOf[c]))
    BY <1>5 DEF Release, ReleaseAgain
  <2> QED BY <1>3, <2>1
<1>6. ASSUME NEW p \in Procs, Watchdog(p) PROVE UNCHANGED held \/ Goal
  BY <1>4, <1>6 DEF Watchdog, Drop
<1>7. ASSUME NEW p \in Procs, NEW cleanly \in BOOLEAN, Ends(p, cleanly)
      PROVE  UNCHANGED held \/ Goal
  BY <1>4, <1>7 DEF Ends
<1> HIDE DEF Goal
<1>8. UNCHANGED held \/ Goal
  BY <1>1, <1>2, <1>5, <1>6, <1>7
        DEF Next, Contend, Open, WriteFails, Read, Stat, Remove, GiveUp, Unlink,
            SweepReads, SweepRemoves, Ages, vars
<1> QED BY <1>8 DEF Goal

LEMMA LockStep ==
  ASSUME TypeOK, TypeOK', met = {} => FileInv, [Next]_vars
  PROVE  [Lock!Next]_Depth
<1>1. CASE met # {}
  <2>1. met' # {}
    BY <1>1, MeetStep
  <2> QED BY <1>1, <2>1 DEF Depth
<1>2. CASE met = {} /\ met' = {}
  <2>1. Depth = held /\ Depth' = held'
    BY <1>2 DEF Depth, TypeOK
  <2> HIDE DEF Depth
  <2>2. CASE UNCHANGED held
    BY <2>1, <2>2
  <2>3. CASE ~UNCHANGED held
    <3>1. PICK p \in Procs :
              \/ /\ \A q \in Procs \ {p} : held[q] = 0
                 /\ held' = [held EXCEPT ![p] = held[p] + 1]
              \/ held[p] > 0 /\ held' = [held EXCEPT ![p] = held[p] - 1]
              \/ held[p] > 0 /\ held' = [held EXCEPT ![p] = 0]
      BY <1>2, <2>3, EntryStep
    <3>2. Lock!Enter(p) \/ Lock!Leave(p) \/ Lock!Revoke(p)
      BY <2>1, <3>1 DEF Lock!Enter, Lock!Leave, Lock!Revoke
    <3> QED BY <3>2 DEF Lock!Next
  <2> QED BY <2>2, <2>3
<1>3. CASE met = {} /\ met' # {}
  <2>1. UNCHANGED held
    BY <1>3, MeetStep
  <2>2. Depth = held /\ Depth' = [p \in Procs |-> 0]
    BY <1>3 DEF Depth, TypeOK
  <2>3. CASE \A p \in Procs : held[p] = 0
    BY <2>2, <2>3 DEF TypeOK
  <2>4. CASE \E p \in Procs : held[p] # 0
    <3>1. PICK p \in Procs : held[p] > 0
      BY <2>4 DEF TypeOK
    <3>2. \A q \in Procs \ {p} : held[q] = 0
      BY <1>3, <3>1, OneProcess
    <3>3. Depth' = [Depth EXCEPT ![p] = 0]
      BY <2>2, <3>2 DEF TypeOK
    <3>4. Lock!Revoke(p)
      BY <2>2, <3>1, <3>3 DEF Lock!Revoke
    <3> QED BY <3>4 DEF Lock!Next
  <2> QED BY <2>3, <2>4
<1> QED BY <1>1, <1>2, <1>3

-----------------------------------------------------------------------------
(* The file stays with its owner until a hazard is met, and the count with  *)
(* the holders, whatever dies.                                              *)
THEOREM LockInvariant == Spec => []LockInv
<1>1. Init => LockInv
  BY TypeInit, FileInit, HandlesInit DEF LockInv
<1>2. LockInv /\ [Next]_vars => LockInv'
  <2> SUFFICES ASSUME LockInv, [Next]_vars PROVE LockInv'
    OBVIOUS
  <2>1. TypeOK /\ TypeOK' /\ HandlesInv'
    BY TypeStep, CountStep DEF LockInv
  <2>2. ASSUME met' = {} PROVE FileInv'
    <3>1. FileInv
      BY <2>1, <2>2, MeetStep DEF LockInv
    <3> QED BY <2>1, <2>2, <3>1, FileStep
  <2> QED BY <2>1, <2>2 DEF LockInv
<1> QED BY <1>1, <1>2, PTL DEF Spec

(* The variables of a session file's lock keep their types.                 *)
THEOREM TypeCorrect == Spec => []TypeOK
<1>1. LockInv => TypeOK
  BY DEF LockInv
<1> QED BY <1>1, LockInvariant, PTL

(* Until a hazard is met, every HELD_LOCKS entry is backed by a written     *)
(* lock file of its process.                                                *)
THEOREM Backed == Spec => []EntryIsBacked
<1>1. LockInv => EntryIsBacked
  BY DEF LockInv, FileInv, OwnersInv, Fresh, EntryIsBacked
<1> QED BY <1>1, LockInvariant, PTL

(* No caller loses its entry to another of its process, unless a handle of  *)
(* the entry is released again or a hazard has cost the file.               *)
THEOREM HandlesKept == Spec => HandlesAreKept
<1>1. LockInv /\ [Next]_vars => [HandlesStep]_vars
  BY CountStep DEF LockInv
<1> QED BY <1>1, LockInvariant, PTL DEF Spec, HandlesAreKept, HandlesStep, Kept

(* acquireSessionWriteLock, releaseHeldLock, the watchdog and the deaths of *)
(* processes implement a reentrant lock that one process holds at a time,   *)
(* until a hazard is met.                                                   *)
THEOREM Reentrant == Spec => IsReentrantLock
<1>1. Init => Lock!Init
  BY DEF Init, Depth, Lock!Init
<1>2. LockInv /\ LockInv' /\ [Next]_vars => [Lock!Next]_Depth
  BY LockStep DEF LockInv
<1> QED BY <1>1, <1>2, LockInvariant, PTL DEF Spec, IsReentrantLock, Lock!Spec
===============================================================================
