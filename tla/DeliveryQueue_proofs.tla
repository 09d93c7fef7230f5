------------------------ MODULE DeliveryQueue_proofs ------------------------
(***************************************************************************)
(* Proofs about DeliveryQueue, for any deliveries, retries, crashes and    *)
(* recoveries at once: a written entry is not lost, whoever meets whom;    *)
(* and as long as two actors do not have an entry at once, an acked entry  *)
(* is not sent again and MAX_RETRIES bounds its sends.                     *)
(***************************************************************************)
EXTENDS DeliveryQueue, TLAPS

-----------------------------------------------------------------------------
(* Types.  The Boolean parts are kept apart: they need another prover.     *)

CountsOK ==
  /\ json \in [Deliveries -> -1..MaxRetries + 1]
  /\ job \in [Actors -> [Deliveries -> Jobs]]
  /\ read \in [Actors -> [Deliveries -> 0..MaxRetries + 1]]
  /\ recovery \in [Recoveries -> {"starting", "reading", "looping", "off"}]
  /\ progressed \subseteq Recoveries /\ contended \subseteq Deliveries
  /\ persisted \subseteq Deliveries /\ reached \subseteq Deliveries
  /\ aborted \subseteq Deliveries /\ acked \subseteq Deliveries
  /\ attempts \in [Deliveries -> Nat]
  /\ crashes \in 0..MaxCrashes

FlagsOK ==
  /\ marker \in [Deliveries -> BOOLEAN] /\ failed \in [Deliveries -> BOOLEAN]

LEMMA TypeParts == TypeOK <=> CountsOK /\ FlagsOK
BY DEF TypeOK, CountsOK, FlagsOK

(* What Goto does to the jobs. *)
LEMMA GotoEffect ==
  ASSUME job \in [Actors -> [Deliveries -> Jobs]],
         NEW a \in Actors, NEW e \in Deliveries, NEW s \in Jobs, Goto(a, e, s)
  PROVE  /\ job' \in [Actors -> [Deliveries -> Jobs]]
         /\ job'[a][e] = s
         /\ \A b \in Actors, d \in Deliveries : b # a \/ d # e => job'[b][d] = job[b][d]
BY DEF Goto

LEMMA FinishedIsJob == \A a \in Actors : Finished(a) \in {"done", "idle"}
BY DEF Finished, Actors

LEMMA OneMoreIsCount ==
  ASSUME NEW n \in 0..MaxRetries + 1
  PROVE  /\ OneMore(n) \in 0..MaxRetries + 1
         /\ n > MaxRetries => OneMore(n) = n
         /\ n <= MaxRetries => OneMore(n) = n + 1
<1> USE DeliveryAssumption DEF OneMore
<1>1. CASE n > MaxRetries
  BY <1>1
<1>2. CASE n <= MaxRetries
  BY <1>2
<1> QED BY <1>1, <1>2

LEMMA ForgetType ==
  ASSUME read \in [Actors -> [Deliveries -> 0..MaxRetries + 1]],
         NEW a \in Actors, NEW e \in Deliveries, Forget(a, e)
  PROVE  read' \in [Actors -> [Deliveries -> 0..MaxRetries + 1]]
BY DeliveryAssumption DEF Forget

LEMMA CountAttemptType ==
  ASSUME attempts \in [Deliveries -> Nat], NEW e \in Deliveries, CountAttempt(e)
  PROVE  /\ attempts' \in [Deliveries -> Nat]
         /\ \A d \in Deliveries : d # e => attempts'[d] = attempts[d]
         /\ e \notin contended => attempts'[e] = attempts[e] + 1
BY DEF CountAttempt

LEMMA FirstRecoveryType == FirstRecovery \in [Recoveries -> {"starting", "off"}]
<1> DEFINE first == CHOOSE q \in Recoveries : TRUE
<1>1. FirstRecovery = [r \in Recoveries |-> IF r = first THEN "starting" ELSE "off"]
  BY DEF FirstRecovery
<1> HIDE DEF first
<1> QED BY <1>1

LEMMA ActorsAre == "live" \in Actors /\ Recoveries \subseteq Actors /\ "live" \notin Recoveries
BY DeliveryAssumption DEF Actors

LEMMA CountsInit == Init => CountsOK
BY DeliveryAssumption, FirstRecoveryType, ActorsAre DEF Init, CountsOK, Missing, Jobs

LEMMA FlagsInit == Init => FlagsOK
BY Zenon DEF Init, FlagsOK

LEMMA CountsStep ==
  ASSUME CountsOK, [Next]_vars
  PROVE  CountsOK'
<1> USE DeliveryAssumption, ActorsAre
<1>1. ASSUME NEW e \in Deliveries, EnqueueDelivery(e) PROVE CountsOK'
  <2>1. \E s \in {"sending", "done"} : Goto("live", e, s)
    BY <1>1 DEF EnqueueDelivery
  <2>2. job' \in [Actors -> [Deliveries -> Jobs]]
    BY <2>1, GotoEffect DEF CountsOK, Jobs
  <2>3. attempts' \in [Deliveries -> Nat]
    BY <1>1, CountAttemptType DEF EnqueueDelivery, CountsOK
  <2>4. json' \in [Deliveries -> -1..MaxRetries + 1]
    BY <1>1 DEF EnqueueDelivery, CountsOK
  <2> QED BY <1>1, <2>2, <2>3, <2>4 DEF EnqueueDelivery, CountsOK
<1>2. ASSUME NEW e \in Deliveries, SendAborted(e) PROVE CountsOK'
  BY <1>2 DEF SendAborted, Goto, CountsOK, Jobs, disk
<1>3. ASSUME NEW a \in Actors, NEW e \in Deliveries, SendStep(a, e) PROVE CountsOK'
  <2>1. \E s \in {"sent", "ack", "fail", "move"} : Goto(a, e, s)
    BY <1>3 DEF SendStep, SendReaches, SendReturns, SendReturnsPartial, SendThrows
  <2>2. job' \in [Actors -> [Deliveries -> Jobs]]
    BY <2>1, GotoEffect DEF CountsOK, Jobs
  <2>3. reached' \subseteq Deliveries /\ UNCHANGED <<json, read, recovery, progressed, persisted,
                                           aborted, acked, attempts, contended, crashes>>
    BY <1>3 DEF SendStep, SendReaches, SendReturns, SendReturnsPartial, SendThrows,
                CountsOK, disk, ghosts
  <2> QED BY <2>2, <2>3 DEF CountsOK
<1>4. ASSUME NEW a \in Actors, NEW e \in Deliveries, QueueStep(a, e) PROVE CountsOK'
  <2>1. CASE AckDelivery(a, e)
    <3>1. json' = [json EXCEPT ![e] = Missing] \/ json' = json
      BY <2>1 DEF AckDelivery
    <3>2. json' \in [Deliveries -> -1..MaxRetries + 1]
      BY <3>1 DEF CountsOK, Missing
    <3>3. \E s \in {"unlink", "done", "idle"} : Goto(a, e, s)
      BY <2>1, FinishedIsJob DEF AckDelivery
    <3>4. job' \in [Actors -> [Deliveries -> Jobs]]
      BY <3>3, GotoEffect DEF CountsOK, Jobs
    <3>5. acked' \subseteq Deliveries
      BY <2>1 DEF AckDelivery, CountsOK
    <3> QED BY <2>1, <3>2, <3>4, <3>5 DEF AckDelivery, CountsOK
  <2>2. CASE UnlinkMarker(a, e)
    BY <2>2, FinishedIsJob DEF UnlinkMarker, Goto, CountsOK, Jobs, ghosts
  <2>3. CASE FailDeliveryReads(a, e)
    <3>1. \E s \in {"rewrite", "done", "idle"} : Goto(a, e, s)
      BY <2>3, FinishedIsJob DEF FailDeliveryReads
    <3>2. job' \in [Actors -> [Deliveries -> Jobs]]
      BY <3>1, GotoEffect DEF CountsOK, Jobs
    <3>3. read' \in [Actors -> [Deliveries -> 0..MaxRetries + 1]]
      <4>1. CASE json[e] # Missing /\ read' = [read EXCEPT ![a][e] = json[e]]
        BY <4>1 DEF CountsOK, Missing
      <4>2. CASE read' = read
        BY <4>2 DEF CountsOK
      <4> QED BY <2>3, <4>1, <4>2 DEF FailDeliveryReads
    <3> QED BY <2>3, <3>2, <3>3 DEF FailDeliveryReads, CountsOK, disk, ghosts
  <2>4. CASE FailDeliveryWrites(a, e)
    <3>0. \E s \in {"done", "idle"} : Goto(a, e, s)
      BY <2>4, FinishedIsJob DEF FailDeliveryWrites
    <3>1. job' \in [Actors -> [Deliveries -> Jobs]]
      BY <3>0, GotoEffect DEF CountsOK, Jobs
    <3>2. read' \in [Actors -> [Deliveries -> 0..MaxRetries + 1]]
      BY <2>4, ForgetType DEF FailDeliveryWrites, CountsOK
    <3>3. json' \in [Deliveries -> -1..MaxRetries + 1]
      BY <2>4, OneMoreIsCount DEF FailDeliveryWrites, CountsOK
    <3> QED BY <2>4, <3>1, <3>2, <3>3 DEF FailDeliveryWrites, CountsOK, ghosts
  <2> QED BY <1>4, <2>1, <2>2, <2>3, <2>4 DEF QueueStep
<1>5. ASSUME NEW r \in Recoveries, RecoveryStep(r) PROVE CountsOK'
  <2>1. CASE Scan(r)
    <3>1. \A d \in Deliveries : (IF json'[d] = Missing THEN "idle" ELSE "listed") \in Jobs
      BY DEF Jobs
    <3>2. job' \in [Actors -> [Deliveries -> Jobs]]
      BY <2>1, <3>1 DEF Scan, Lists, CountsOK
    <3>3. contended' \subseteq Deliveries
      BY <2>1 DEF Scan, Lists, CountsOK
    <3>4. recovery' \in [Recoveries -> {"starting", "reading", "looping", "off"}]
      BY <2>1 DEF Scan, Lists, CountsOK
    <3> QED BY <2>1, <3>2, <3>3, <3>4 DEF Scan, Lists, CountsOK
  <2>2. CASE AllRead(r) \/ RecoveryEnds(r)
    BY <2>2 DEF AllRead, RecoveryEnds, CountsOK, disk, ghosts
  <2>3. CASE DeferRemaining(r)
    <3>1. job' \in [Actors -> [Deliveries -> Jobs]]
      BY <2>3 DEF DeferRemaining, CountsOK, Jobs
    <3>2. read' \in [Actors -> [Deliveries -> 0..MaxRetries + 1]]
      BY <2>3 DEF DeferRemaining, CountsOK
    <3> QED BY <2>3, <3>1, <3>2 DEF DeferRemaining, CountsOK, disk, ghosts
  <2>4. ASSUME NEW e \in Deliveries, ReadEntry(r, e) PROVE CountsOK'
    <3>1. \E s \in {"pending", "idle"} : Goto(r, e, s)
      BY <2>4 DEF ReadEntry
    <3>2. job' \in [Actors -> [Deliveries -> Jobs]]
      BY <3>1, GotoEffect DEF CountsOK, Jobs
    <3>3. read' \in [Actors -> [Deliveries -> 0..MaxRetries + 1]]
      <4>1. CASE json[e] # Missing /\ read' = [read EXCEPT ![r][e] = json[e]]
        BY <4>1 DEF CountsOK, Missing
      <4>2. CASE read' = read
        BY <4>2 DEF CountsOK
      <4> QED BY <2>4, <4>1, <4>2 DEF ReadEntry
    <3> QED BY <2>4, <3>2, <3>3 DEF ReadEntry, CountsOK, disk, ghosts
  <2>5. ASSUME NEW e \in Deliveries, GiveUp(r, e) \/ NotYetEligible(r, e) \/ Replay(r, e)
        PROVE  CountsOK'
    <3>1. \E s \in {"move", "idle", "sending"} : Goto(r, e, s)
      BY <2>5 DEF GiveUp, NotYetEligible, Replay
    <3>2. job' \in [Actors -> [Deliveries -> Jobs]]
      BY <3>1, GotoEffect DEF CountsOK, Jobs
    <3>3. read' \in [Actors -> [Deliveries -> 0..MaxRetries + 1]]
      BY <2>5, ForgetType DEF GiveUp, NotYetEligible, Replay, CountsOK
    <3>4. attempts' \in [Deliveries -> Nat]
      BY <2>5, CountAttemptType DEF GiveUp, NotYetEligible, Replay, CountsOK, ghosts
    <3>5. progressed' \subseteq Recoveries /\ UNCHANGED <<json, recovery, persisted, reached,
                                               aborted, acked, contended, crashes>>
      BY <2>5 DEF GiveUp, NotYetEligible, Replay, CountsOK, disk, ghosts
    <3> QED BY <3>2, <3>3, <3>4, <3>5 DEF CountsOK
  <2>6. ASSUME NEW e \in Deliveries, MoveToFailed(r, e) PROVE CountsOK'
    BY <2>6 DEF MoveToFailed, Goto, CountsOK, Jobs, ghosts, Missing
  <2> QED BY <1>5, <2>1, <2>2, <2>3, <2>4, <2>5, <2>6 DEF RecoveryStep, LoopStep
<1>6. CASE RestartInProcess
  BY <1>6 DEF RestartInProcess, CountsOK, disk, ghosts
<1>7. CASE Crash
  <2>1. job' \in [Actors -> [Deliveries -> Jobs]]
    BY <1>7 DEF Crash, Jobs
  <2>2. recovery' \in [Recoveries -> {"starting", "reading", "looping", "off"}]
    BY <1>7, FirstRecoveryType DEF Crash
  <2> QED BY <1>7, <2>1, <2>2 DEF Crash, CountsOK, disk
<1>8. CASE UNCHANGED vars
  BY <1>8 DEF vars, disk, ghosts, CountsOK
<1> QED BY <1>1, <1>2, <1>3, <1>4, <1>5, <1>6, <1>7, <1>8 DEF Next

LEMMA FlagsStep ==
  ASSUME FlagsOK, [Next]_vars
  PROVE  FlagsOK'
<1> USE DEF FlagsOK
<1>1. ASSUME NEW e \in Deliveries, EnqueueDelivery(e) \/ SendAborted(e) PROVE FlagsOK'
  BY <1>1, Zenon DEF EnqueueDelivery, SendAborted, disk
<1>2. ASSUME NEW a \in Actors, NEW e \in Deliveries, SendStep(a, e) PROVE FlagsOK'
  BY <1>2, Zenon DEF SendStep, SendReaches, SendReturns, SendReturnsPartial, SendThrows, disk, ghosts
<1>3. ASSUME NEW a \in Actors, NEW e \in Deliveries, QueueStep(a, e) PROVE FlagsOK'
  <2>1. CASE AckDelivery(a, e)
    <3>1. marker' \in {[marker EXCEPT ![e] = TRUE], [marker EXCEPT ![e] = FALSE]}
      BY <2>1 DEF AckDelivery
    <3>2. marker' \in [Deliveries -> BOOLEAN]
      BY <3>1
    <3> QED BY <2>1, <3>2, Zenon DEF AckDelivery
  <2>2. CASE UnlinkMarker(a, e)
    <3>1. marker' \in [Deliveries -> BOOLEAN]
      BY <2>2 DEF UnlinkMarker
    <3> QED BY <2>2, <3>1, Zenon DEF UnlinkMarker, ghosts
  <2>3. CASE FailDeliveryReads(a, e) \/ FailDeliveryWrites(a, e)
    BY <2>3, Zenon DEF FailDeliveryReads, FailDeliveryWrites, disk, ghosts
  <2> QED BY <1>3, <2>1, <2>2, <2>3 DEF QueueStep
<1>4. ASSUME NEW r \in Recoveries, RecoveryStep(r) PROVE FlagsOK'
  <2>1. CASE Scan(r)
    <3>1. marker' \in [Deliveries -> BOOLEAN]
      BY <2>1 DEF Scan
    <3> QED BY <2>1, <3>1, Zenon DEF Scan, Lists, ghosts
  <2>2. CASE AllRead(r) \/ RecoveryEnds(r) \/ DeferRemaining(r)
    BY <2>2, Zenon DEF AllRead, RecoveryEnds, DeferRemaining, disk, ghosts
  <2>3. ASSUME NEW e \in Deliveries, ReadEntry(r, e) PROVE FlagsOK'
    BY <2>3, Zenon DEF ReadEntry, disk, ghosts
  <2>4. ASSUME NEW e \in Deliveries, GiveUp(r, e) \/ NotYetEligible(r, e) \/ Replay(r, e) PROVE FlagsOK'
    BY <2>4, Zenon DEF GiveUp, NotYetEligible, Replay, disk, ghosts
  <2>5. ASSUME NEW e \in Deliveries, MoveToFailed(r, e) PROVE FlagsOK'
    <3>1. (json[e] # Missing \/ failed[e]) \in BOOLEAN
      BY Zenon
    <3>2. failed' = [failed EXCEPT ![e] = json[e] # Missing \/ failed[e]]
      BY <2>5, Zenon DEF MoveToFailed
    <3>3. failed' \in [Deliveries -> BOOLEAN]
      BY <3>1, <3>2, Zenon
    <3> QED BY <2>5, <3>3, Zenon DEF MoveToFailed, ghosts
  <2> QED BY <1>4, <2>1, <2>2, <2>3, <2>4, <2>5 DEF RecoveryStep, LoopStep
<1>5. CASE RestartInProcess \/ Crash
  BY <1>5, Zenon DEF RestartInProcess, Crash, disk
<1>6. CASE UNCHANGED vars
  BY <1>6, Zenon DEF vars, disk, ghosts
<1> QED BY <1>1, <1>2, <1>3, <1>4, <1>5, <1>6 DEF Next

(* Files, jobs and counters keep their types: a retry count never leaves    *)
(* the range the recovery compares with MAX_RETRIES.                        *)
THEOREM TypeCorrect == Spec => []TypeOK
<1>1. Init => TypeOK
  BY CountsInit, FlagsInit, TypeParts
<1>2. TypeOK /\ [Next]_vars => TypeOK'
  BY CountsStep, FlagsStep, Zenon DEF TypeOK, CountsOK, FlagsOK
<1> QED BY <1>1, <1>2, PTL DEF Spec

-----------------------------------------------------------------------------
(* Nothing is lost *)

(* A message that is acked has reached the channel, was aborted, or is of   *)
(* best effort; then its entry may go.                                      *)
SentReached ==
  \A a \in Actors, e \in Deliveries :
    /\ job[a][e] = "sent" => e \in reached
    /\ job[a][e] = "ack" => e \in reached \cup aborted \cup BestEffort

LossInv == TypeOK /\ SentReached /\ NothingLost

LEMMA SentReachedStep ==
  ASSUME CountsOK, SentReached, [Next]_vars
  PROVE  SentReached'
<1> USE DEF SentReached, Jobs
<1>1. ASSUME NEW a \in Actors, NEW e \in Deliveries, NEW s \in Jobs, Goto(a, e, s),
             s = "sent" => e \in reached',
             s = "ack" => e \in reached' \cup aborted' \cup BestEffort,
             reached \subseteq reached', aborted \subseteq aborted'
      PROVE  SentReached'
  <2>1. job \in [Actors -> [Deliveries -> Jobs]]
    BY DEF CountsOK
  <2>2. /\ job'[a][e] = s
        /\ \A b \in Actors, d \in Deliveries : b # a \/ d # e => job'[b][d] = job[b][d]
    BY <1>1, <2>1, GotoEffect
  <2> QED BY <1>1, <2>2
<1>2. ASSUME job' = job, reached' = reached, aborted' = aborted PROVE SentReached'
  BY <1>2
<1>3. "live" \in Actors /\ Recoveries \subseteq Actors
  BY ActorsAre
<1>4. ASSUME NEW e \in Deliveries, EnqueueDelivery(e) \/ SendAborted(e) PROVE SentReached'
  <2>1. EnqueueDelivery(e) =>
          \E s \in {"sending", "done"} : Goto("live", e, s) /\ reached' = reached /\ aborted' = aborted
    BY DEF EnqueueDelivery
  <2>2. SendAborted(e) => Goto("live", e, "ack") /\ reached' = reached /\ aborted' = aborted \cup {e}
    BY DEF SendAborted
  <2> QED BY <1>1, <1>3, <1>4, <2>1, <2>2
<1>5. ASSUME NEW a \in Actors, NEW e \in Deliveries, SendStep(a, e) PROVE SentReached'
  <2>1. SendReaches(a, e) => Goto(a, e, "sent") /\ reached' = reached \cup {e} /\ aborted' = aborted
    BY DEF SendReaches
  <2>2. SendReturns(a, e) => /\ Goto(a, e, "ack") /\ reached' = reached /\ aborted' = aborted
                             /\ e \in reached
    BY DEF SendReturns, ghosts, At
  <2>3. SendReturnsPartial(a, e) =>
          /\ Goto(a, e, "ack") \/ Goto(a, e, "fail")
          /\ reached' = reached /\ aborted' = aborted /\ e \in BestEffort
    BY DEF SendReturnsPartial, ghosts
  <2>4. SendThrows(a, e) => /\ Goto(a, e, "fail") \/ Goto(a, e, "move")
                            /\ reached' = reached /\ aborted' = aborted
    BY DEF SendThrows, ghosts
  <2> QED BY <1>1, <1>5, <2>1, <2>2, <2>3, <2>4 DEF SendStep
<1>6. ASSUME NEW a \in Actors, NEW e \in Deliveries, QueueStep(a, e) PROVE SentReached'
  <2>1. /\ \E s \in {"unlink", "rewrite", "done", "idle"} : Goto(a, e, s)
        /\ reached' = reached /\ aborted' = aborted
    BY <1>6, FinishedIsJob
       DEF QueueStep, AckDelivery, UnlinkMarker, FailDeliveryReads, FailDeliveryWrites, ghosts
  <2> QED BY <1>1, <2>1
<1>7. ASSUME NEW r \in Recoveries, RecoveryStep(r) PROVE SentReached'
  <2>1. CASE Scan(r)
    <3>1. \A b \in Actors, d \in Deliveries : job'[b][d] \in {job[b][d], "idle", "listed"}
      BY <2>1, <1>3 DEF Scan, Lists, CountsOK
    <3> QED BY <2>1, <3>1 DEF Scan, Lists
  <2>2. CASE AllRead(r) \/ RecoveryEnds(r)
    BY <1>2, <2>2 DEF AllRead, RecoveryEnds, ghosts
  <2>3. CASE DeferRemaining(r)
    <3>1. \A b \in Actors, d \in Deliveries : job'[b][d] \in {job[b][d], "fail"}
      BY <2>3, <1>3 DEF DeferRemaining, CountsOK
    <3> QED BY <2>3, <3>1 DEF DeferRemaining, ghosts
  <2>4. ASSUME NEW e \in Deliveries, ReadEntry(r, e) \/ LoopStep(r, e) PROVE SentReached'
    <3>1. /\ \E s \in {"pending", "idle", "move", "sending"} : Goto(r, e, s)
          /\ reached' = reached /\ aborted' = aborted
      BY <2>4 DEF ReadEntry, LoopStep, GiveUp, NotYetEligible, Replay, MoveToFailed, ghosts
    <3> QED BY <1>1, <1>3, <3>1
  <2> QED BY <1>7, <2>1, <2>2, <2>3, <2>4 DEF RecoveryStep
<1>8. CASE RestartInProcess
  BY <1>2, <1>8 DEF RestartInProcess, ghosts
<1>9. CASE Crash
  <2>1. \A a \in Actors, d \in Deliveries : job'[a][d] \in {"idle", "done"}
    BY <1>9 DEF Crash, CountsOK
  <2> QED BY <2>1 DEF SentReached
<1>10. CASE UNCHANGED vars
  BY <1>2, <1>10 DEF vars, ghosts
<1> QED BY <1>4, <1>5, <1>6, <1>7, <1>8, <1>9, <1>10 DEF Next

LEMMA NothingLostStep ==
  ASSUME CountsOK, FlagsOK, SentReached, NothingLost, [Next]_vars
  PROVE  NothingLost'
<1> USE DEF NothingLost
<1>1. ASSUME persisted' = persisted, reached \subseteq reached', aborted \subseteq aborted',
             \A e \in Deliveries : json[e] # Missing => json'[e] # Missing,
             failed' = failed
      PROVE  NothingLost'
  BY <1>1 DEF CountsOK
<1>2. ASSUME NEW e \in Deliveries, EnqueueDelivery(e) PROVE NothingLost'
  BY <1>2 DEF EnqueueDelivery, CountsOK, Missing
<1>3. ASSUME NEW e \in Deliveries, SendAborted(e) PROVE NothingLost'
  BY <1>1, <1>3 DEF SendAborted, disk
<1>4. ASSUME NEW a \in Actors, NEW e \in Deliveries, SendStep(a, e) PROVE NothingLost'
  BY <1>1, <1>4 DEF SendStep, SendReaches, SendReturns, SendReturnsPartial, SendThrows, disk, ghosts
<1>5. ASSUME NEW a \in Actors, NEW e \in Deliveries, QueueStep(a, e) PROVE NothingLost'
  <2>1. CASE AckDelivery(a, e)
    <3>1. e \in reached \cup aborted \cup BestEffort
      BY <2>1 DEF AckDelivery, At, SentReached
    <3>2. \A d \in Deliveries : d # e => json'[d] = json[d]
      BY <2>1 DEF AckDelivery, CountsOK
    <3> QED BY <2>1, <3>1, <3>2 DEF AckDelivery, CountsOK
  <2>2. CASE UnlinkMarker(a, e) \/ FailDeliveryReads(a, e)
    BY <1>1, <2>2 DEF UnlinkMarker, FailDeliveryReads, disk, ghosts
  <2>3. CASE FailDeliveryWrites(a, e)
    <3>1. OneMore(read[a][e]) # Missing
      BY OneMoreIsCount DEF CountsOK, Missing
    <3> QED BY <1>1, <2>3, <3>1 DEF FailDeliveryWrites, ghosts, CountsOK
  <2> QED BY <1>5, <2>1, <2>2, <2>3 DEF QueueStep
<1>6. ASSUME NEW r \in Recoveries, RecoveryStep(r) PROVE NothingLost'
  <2>1. CASE Scan(r) \/ AllRead(r) \/ DeferRemaining(r) \/ RecoveryEnds(r)
    BY <1>1, <2>1 DEF Scan, Lists, AllRead, DeferRemaining, RecoveryEnds, disk, ghosts
  <2>2. ASSUME NEW e \in Deliveries, ReadEntry(r, e) PROVE NothingLost'
    BY <1>1, <2>2 DEF ReadEntry, disk, ghosts
  <2>3. ASSUME NEW e \in Deliveries, GiveUp(r, e) \/ NotYetEligible(r, e) \/ Replay(r, e) PROVE NothingLost'
    BY <1>1, <2>3 DEF GiveUp, NotYetEligible, Replay, disk, ghosts
  <2>4. ASSUME NEW e \in Deliveries, MoveToFailed(r, e) PROVE NothingLost'
    <3>1. /\ failed'[e] = (json[e] # Missing \/ failed[e])
          /\ \A d \in Deliveries : d # e => failed'[d] = failed[d]
      BY <2>4, Zenon DEF MoveToFailed, FlagsOK
    <3>2. \A d \in Deliveries : d # e => json'[d] = json[d]
      BY <2>4 DEF MoveToFailed, CountsOK
    <3>3. persisted' = persisted /\ reached' = reached /\ aborted' = aborted
      BY <2>4 DEF MoveToFailed, ghosts
    <3>4. persisted \subseteq Deliveries
      BY DEF CountsOK
    <3> QED BY <3>1, <3>2, <3>3, <3>4, Zenon
  <2> QED BY <1>6, <2>1, <2>2, <2>3, <2>4 DEF RecoveryStep, LoopStep
<1>7. CASE RestartInProcess \/ Crash
  BY <1>1, <1>7 DEF RestartInProcess, Crash, disk, ghosts
<1>8. CASE UNCHANGED vars
  BY <1>1, <1>8 DEF vars, disk, ghosts
<1> QED BY <1>2, <1>3, <1>4, <1>5, <1>6, <1>7, <1>8 DEF Next

(* An entry written without bestEffort is never lost, also when a live send *)
(* and a recovery work on it at the same time, and wherever crashes come.   *)
THEOREM NoEntryIsLost == Spec => []NothingLost
<1>1. Init => LossInv
  BY CountsInit, FlagsInit, TypeParts DEF Init, LossInv, SentReached, NothingLost
<1>2. LossInv /\ [Next]_vars => LossInv'
  <2>1. TypeOK /\ [Next]_vars => TypeOK'
    BY CountsStep, FlagsStep, Zenon DEF TypeOK, CountsOK, FlagsOK
  <2> QED BY <2>1, TypeParts, SentReachedStep, NothingLostStep DEF LossInv
<1>3. LossInv => NothingLost
  BY DEF LossInv
<1> QED BY <1>1, <1>2, <1>3, PTL DEF Spec

-----------------------------------------------------------------------------
(* An entry one actor has at a time *)

(* Jobs that hold the entry they work on. *)
Holding == {"listed", "pending", "sending", "sent", "ack", "fail", "rewrite", "move"}

(* A send that is not counted in the entry yet. *)
UncountedJobs == {"sending", "sent", "ack", "fail", "rewrite", "move"}
Uncounted(e) == \E a \in Actors : job[a][e] \in UncountedJobs

(* One actor has the entry; what it holds is there, what was acked is gone, *)
(* what was read is still true when it is used; the sends are in the retry  *)
(* count, but for one under way and one for each crash.                     *)
OneHasIt(e) == \A a, b \in Actors : Busy(a, e) /\ Busy(b, e) => a = b

FileAgrees(e) ==
  /\ \A a \in Actors : job[a][e] \in Holding => json[e] # Missing
  /\ \A a \in Actors : job[a][e] \in {"pending", "rewrite"} => read[a][e] = json[e]
  /\ e \in acked => json[e] = Missing
  /\ job["live"][e] = "idle" =>
       /\ \A a \in Actors : job[a][e] = "idle"
       /\ json[e] = Missing /\ attempts[e] = 0 /\ e \notin acked

SendsCounted(e) ==
  /\ attempts[e] <= MaxRetries + crashes
  /\ json[e] # Missing => attempts[e] <= json[e] + crashes + 1
  /\ json[e] # Missing /\ ~Uncounted(e) => attempts[e] <= json[e] + crashes

EntryInv(e) == OneHasIt(e) /\ FileAgrees(e) /\ SendsCounted(e)

(* A recovery that has not listed the directory, or is over, has no entry.  *)
RestInv ==
  \A r \in Recoveries : recovery[r] \in {"off", "starting"} =>
    \A e \in Deliveries : job[r][e] = "idle"

QueueInv == CountsOK /\ RestInv /\ \A e \in Deliveries \ contended : EntryInv(e)

LEMMA Numbers ==
  ASSUME CountsOK
  PROVE  /\ MaxRetries \in Nat \ {0} /\ crashes \in Nat
         /\ \A e \in Deliveries : attempts[e] \in Nat /\ json[e] \in -1..MaxRetries + 1
         /\ \A a \in Actors, e \in Deliveries : job[a][e] \in Jobs
BY DeliveryAssumption DEF CountsOK

(* A step that leaves an entry and its actors alone. *)
Same(e) ==
  /\ \A a \in Actors : job'[a][e] = job[a][e] /\ read'[a][e] = read[a][e]
  /\ json'[e] = json[e] /\ attempts'[e] = attempts[e]
  /\ e \in acked' <=> e \in acked

LEMMA SameKeeps ==
  ASSUME NEW e \in Deliveries, EntryInv(e), Same(e), crashes' = crashes
  PROVE  EntryInv(e)'
<1>1. OneHasIt(e)'
  BY DEF EntryInv, OneHasIt, Busy, Same
<1>2. FileAgrees(e)'
  BY ActorsAre DEF EntryInv, FileAgrees, Same
<1>3. Uncounted(e)' <=> Uncounted(e)
  BY DEF Uncounted, Same
<1>4. SendsCounted(e)'
  BY <1>3 DEF EntryInv, SendsCounted, Same
<1> QED BY <1>1, <1>2, <1>4 DEF EntryInv

(* The actor that has an entry takes it to its next job s: what has to hold *)
(* of the entry then.                                                       *)
Arrived(a, e, s) ==
  /\ a = "live" => s # "idle"
  /\ s \in Holding => json'[e] # Missing
  /\ s \in {"pending", "rewrite"} => read'[a][e] = json'[e]
  /\ e \in acked' => json'[e] = Missing
  /\ attempts'[e] <= MaxRetries + crashes
  /\ json'[e] # Missing => attempts'[e] <= json'[e] + crashes + 1
  /\ json'[e] # Missing /\ s \notin UncountedJobs => attempts'[e] <= json'[e] + crashes

LEMMA BusyIsAlone ==
  ASSUME CountsOK, NEW a \in Actors, NEW e \in Deliveries, EntryInv(e), Busy(a, e)
  PROVE  /\ \A b \in Actors : b # a => job[b][e] \in {"idle", "done"}
         /\ job["live"][e] # "idle"
BY ActorsAre DEF EntryInv, OneHasIt, FileAgrees, Busy

LEMMA ArrivedKeeps ==
  ASSUME CountsOK, NEW a \in Actors, NEW e \in Deliveries, NEW s \in Jobs,
         EntryInv(e), Busy(a, e), crashes' = crashes,
         job'[a][e] = s, \A b \in Actors : b # a => job'[b][e] = job[b][e],
         Arrived(a, e, s)
  PROVE  EntryInv(e)'
<1>1. \A b \in Actors : b # a => job'[b][e] \in {"idle", "done"}
  BY BusyIsAlone
<1>2. job'["live"][e] # "idle"
  BY BusyIsAlone, ActorsAre DEF Arrived
<1>3. OneHasIt(e)'
  BY <1>1 DEF OneHasIt, Busy
<1>4. FileAgrees(e)'
  BY <1>1, <1>2 DEF FileAgrees, Arrived, Holding
<1>5. s \in UncountedJobs => Uncounted(e)'
  BY DEF Uncounted
<1>6. SendsCounted(e)'
  BY <1>5 DEF SendsCounted, Arrived
<1> QED BY <1>3, <1>4, <1>6 DEF EntryInv

(* A step of one actor on one entry. *)
LEMMA MoveKeeps ==
  ASSUME QueueInv, NEW a \in Actors, NEW e \in Deliveries, NEW s \in Jobs,
         Goto(a, e, s), Busy(a, e), crashes' = crashes, contended' = contended,
         \A d \in Deliveries : d # e => json'[d] = json[d] /\ attempts'[d] = attempts[d],
         \A b \in Actors, d \in Deliveries : b # a \/ d # e => read'[b][d] = read[b][d],
         acked \subseteq acked', acked' \subseteq acked \cup {e},
         e \notin contended => Arrived(a, e, s)
  PROVE  \A d \in Deliveries \ contended' : EntryInv(d)'
<1>1. /\ job'[a][e] = s
      /\ \A b \in Actors, d \in Deliveries : b # a \/ d # e => job'[b][d] = job[b][d]
  BY GotoEffect DEF QueueInv, CountsOK
<1> SUFFICES ASSUME NEW d \in Deliveries, d \notin contended
             PROVE  EntryInv(d)'
  OBVIOUS
<1>2. EntryInv(d) /\ CountsOK
  BY DEF QueueInv
<1>3. CASE d = e
  BY <1>1, <1>2, <1>3, ArrivedKeeps
<1>4. CASE d # e
  <2>1. Same(d)
    BY <1>1, <1>4 DEF Same
  <2> QED BY <1>2, <2>1, SameKeeps
<1> QED BY <1>3, <1>4

(* What is known of an entry from the job of the one actor that has it. *)
LEMMA OfTheEntry ==
  ASSUME CountsOK, NEW a \in Actors, NEW e \in Deliveries, EntryInv(e), Busy(a, e)
  PROVE  /\ job[a][e] \in Holding => json[e] # Missing /\ e \notin acked
         /\ job[a][e] \in {"pending", "rewrite"} => read[a][e] = json[e]
         /\ e \in acked => json[e] = Missing
         /\ attempts[e] <= MaxRetries + crashes
         /\ json[e] # Missing => attempts[e] <= json[e] + crashes + 1
         /\ json[e] # Missing /\ job[a][e] \notin UncountedJobs => attempts[e] <= json[e] + crashes
<1>1. job[a][e] \notin UncountedJobs => ~Uncounted(e)
  <2>1. \A b \in Actors : b # a => job[b][e] \in {"idle", "done"}
    BY BusyIsAlone
  <2> QED BY <2>1 DEF Uncounted, UncountedJobs
<1> QED BY <1>1 DEF EntryInv, FileAgrees, SendsCounted

-----------------------------------------------------------------------------
(* The steps, one by one *)

LEMMA EnqueueKeeps ==
  ASSUME QueueInv, NEW e \in Deliveries, EnqueueDelivery(e)
  PROVE  \A d \in Deliveries \ contended' : EntryInv(d)'
<1>0. CountsOK /\ job["live"][e] = "idle" /\ crashes' = crashes /\ contended' = contended
      /\ acked' = acked /\ read' = read
  BY DEF EnqueueDelivery, QueueInv, At
<1>1. \E s \in {"sending", "done"} : Goto("live", e, s)
  BY DEF EnqueueDelivery
<1>2. /\ job'["live"][e] \in {"sending", "done"}
      /\ \A b \in Actors, d \in Deliveries : b # "live" \/ d # e => job'[b][d] = job[b][d]
  BY <1>0, <1>1, GotoEffect, ActorsAre DEF CountsOK, Jobs
<1>3. \A d \in Deliveries : d # e => json'[d] = json[d] /\ attempts'[d] = attempts[d]
  BY <1>0, CountAttemptType DEF EnqueueDelivery, CountsOK
<1> SUFFICES ASSUME NEW d \in Deliveries, d \notin contended
             PROVE  EntryInv(d)'
  BY <1>0
<1>4. EntryInv(d)
  BY DEF QueueInv
<1>5. CASE d # e
  <2>1. Same(d)
    BY <1>0, <1>2, <1>3, <1>5 DEF Same
  <2> QED BY <1>0, <1>4, <2>1, SameKeeps
<1>6. CASE d = e
  <2>1. /\ \A a \in Actors : job[a][e] = "idle"
        /\ json[e] = Missing /\ attempts[e] = 0 /\ e \notin acked
    BY <1>0, <1>4, <1>6 DEF EntryInv, FileAgrees
  <2>2. \A a \in Actors : a # "live" => job'[a][e] = "idle"
    BY <1>2, <2>1
  <2>3. \/ json'[e] = 0 /\ attempts'[e] = 1 /\ job'["live"][e] = "sending"
        \/ json'[e] = Missing /\ attempts'[e] = 0 /\ job'["live"][e] = "done"
    <3>1. CASE json' = [json EXCEPT ![e] = 0] /\ Goto("live", e, "sending") /\ CountAttempt(e)
      <4>1. attempts'[e] = attempts[e] + 1
        BY <1>0, <1>6, <3>1, CountAttemptType DEF CountsOK
      <4>2. job'["live"][e] = "sending"
        BY <1>0, <3>1, GotoEffect, ActorsAre DEF CountsOK, Jobs
      <4> QED BY <1>0, <2>1, <3>1, <4>1, <4>2 DEF CountsOK
    <3>2. CASE Goto("live", e, "done") /\ UNCHANGED <<json, persisted, attempts>>
      <4>1. job'["live"][e] = "done"
        BY <1>0, <3>2, GotoEffect, ActorsAre DEF CountsOK, Jobs
      <4> QED BY <2>1, <3>2, <4>1
    <3> QED BY <3>1, <3>2 DEF EnqueueDelivery
  <2>4. OneHasIt(e)'
    BY <2>2 DEF OneHasIt, Busy
  <2>5. FileAgrees(e)'
    BY <1>0, <2>1, <2>2, <2>3 DEF FileAgrees, Holding, Missing
  <2>6. json'[e] = 0 => Uncounted(e)'
    BY <2>3, ActorsAre DEF Uncounted, UncountedJobs, Missing
  <2>7. SendsCounted(e)'
    BY <1>0, <2>3, <2>6, Numbers DEF SendsCounted, Missing
  <2> QED BY <1>6, <2>4, <2>5, <2>7 DEF EntryInv
<1> QED BY <1>5, <1>6

LEMMA SendKeeps ==
  ASSUME QueueInv, NEW a \in Actors, NEW e \in Deliveries,
         SendStep(a, e) \/ (a = "live" /\ SendAborted(e))
  PROVE  \A d \in Deliveries \ contended' : EntryInv(d)'
<1>0. CountsOK
  BY DEF QueueInv
<1>1. /\ job[a][e] \in {"sending", "sent"}
      /\ \E s \in {"sent", "ack", "fail", "move"} : Goto(a, e, s)
  BY DEF SendStep, SendReaches, SendReturns, SendReturnsPartial, SendThrows, SendAborted, At
<1>2. UNCHANGED <<json, read, acked, attempts, contended, crashes>>
  BY DEF SendStep, SendReaches, SendReturns, SendReturnsPartial, SendThrows, SendAborted,
         disk, ghosts
<1>3. PICK s \in {"sent", "ack", "fail", "move"} : Goto(a, e, s)
  BY <1>1
<1>4. Busy(a, e) /\ s \in Jobs
  BY <1>1 DEF Busy, Jobs
<1>5. ASSUME e \notin contended PROVE Arrived(a, e, s)
  <2>1. EntryInv(e)
    BY <1>5 DEF QueueInv
  <2>2. /\ json[e] # Missing /\ e \notin acked
        /\ attempts[e] <= MaxRetries + crashes /\ attempts[e] <= json[e] + crashes + 1
    BY <1>0, <1>1, <1>4, <2>1, OfTheEntry DEF Holding
  <2> QED BY <1>2, <2>2 DEF Arrived, UncountedJobs
<1> QED BY <1>2, <1>3, <1>4, <1>5, MoveKeeps

LEMMA AckKeeps ==
  ASSUME QueueInv, NEW a \in Actors, NEW e \in Deliveries, AckDelivery(a, e)
  PROVE  \A d \in Deliveries \ contended' : EntryInv(d)'
<1>0. CountsOK /\ job[a][e] = "ack" /\ Busy(a, e)
  BY DEF QueueInv, AckDelivery, At, Busy
<1>1. UNCHANGED <<read, attempts, contended, crashes>>
  BY DEF AckDelivery
<1>2. CASE json[e] # Missing
  <2>1. /\ json' = [json EXCEPT ![e] = Missing] /\ acked' = acked \cup {e}
        /\ Goto(a, e, "unlink")
    BY <1>2 DEF AckDelivery
  <2>2. json'[e] = Missing /\ \A d \in Deliveries : d # e => json'[d] = json[d]
    BY <1>0, <2>1 DEF CountsOK
  <2>3. ASSUME e \notin contended PROVE Arrived(a, e, "unlink")
    <3>1. EntryInv(e)
      BY <2>3 DEF QueueInv
    <3>2. attempts[e] <= MaxRetries + crashes
      BY <1>0, <3>1, OfTheEntry
    <3> QED BY <1>1, <2>2, <3>2 DEF Arrived, Holding
  <2>4. "unlink" \in Jobs
    BY DEF Jobs
  <2> QED BY <1>0, <1>1, <2>1, <2>2, <2>3, <2>4, MoveKeeps
<1>3. CASE json[e] = Missing
  <2>1. json' = json /\ acked' = acked /\ Goto(a, e, Finished(a))
    BY <1>3 DEF AckDelivery
  <2>2. e \in contended
    <3> SUFFICES ASSUME e \notin contended PROVE FALSE
      OBVIOUS
    <3>1. EntryInv(e)
      BY DEF QueueInv
    <3> QED BY <1>0, <1>3, <3>1, OfTheEntry DEF Holding
  <2>3. Finished(a) \in Jobs
    BY FinishedIsJob DEF Jobs
  <2> QED BY <1>0, <1>1, <2>1, <2>2, <2>3, MoveKeeps
<1> QED BY <1>2, <1>3

LEMMA UnlinkKeeps ==
  ASSUME QueueInv, NEW a \in Actors, NEW e \in Deliveries, UnlinkMarker(a, e)
  PROVE  \A d \in Deliveries \ contended' : EntryInv(d)'
<1>0. CountsOK /\ job[a][e] = "unlink" /\ Busy(a, e)
  BY DEF QueueInv, UnlinkMarker, At, Busy
<1>1. UNCHANGED <<json, read, acked, attempts, contended, crashes>> /\ Goto(a, e, Finished(a))
  BY DEF UnlinkMarker, ghosts
<1>2. /\ Finished(a) \in Jobs /\ Finished(a) \notin Holding \cup UncountedJobs
      /\ a = "live" => Finished(a) # "idle" /\ Finished(a) \notin {"pending", "rewrite"}
  BY DEF Finished, Jobs, Holding, UncountedJobs
<1>3. ASSUME e \notin contended PROVE Arrived(a, e, Finished(a))
  <2>1. EntryInv(e)
    BY <1>3 DEF QueueInv
  <2>2. /\ e \in acked => json[e] = Missing
        /\ attempts[e] <= MaxRetries + crashes
        /\ json[e] # Missing => attempts[e] <= json[e] + crashes + 1
        /\ json[e] # Missing => attempts[e] <= json[e] + crashes
    BY <1>0, <2>1, OfTheEntry DEF UncountedJobs
  <2> QED BY <1>1, <1>2, <2>2 DEF Arrived, Holding
<1> QED BY <1>0, <1>1, <1>2, <1>3, MoveKeeps

LEMMA FailReadsKeeps ==
  ASSUME QueueInv, NEW a \in Actors, NEW e \in Deliveries, FailDeliveryReads(a, e)
  PROVE  \A d \in Deliveries \ contended' : EntryInv(d)'
<1>0. CountsOK /\ job[a][e] = "fail" /\ Busy(a, e)
  BY DEF QueueInv, FailDeliveryReads, At, Busy
<1>1. UNCHANGED <<json, acked, attempts, contended, crashes>>
  BY DEF FailDeliveryReads, disk, ghosts
<1>2. CASE json[e] # Missing
  <2>1. read' = [read EXCEPT ![a][e] = json[e]] /\ Goto(a, e, "rewrite")
    BY <1>2 DEF FailDeliveryReads
  <2>2. /\ read'[a][e] = json[e]
        /\ \A b \in Actors, d \in Deliveries : b # a \/ d # e => read'[b][d] = read[b][d]
    BY <1>0, <2>1 DEF CountsOK
  <2>3. ASSUME e \notin contended PROVE Arrived(a, e, "rewrite")
    <3>1. EntryInv(e)
      BY <2>3 DEF QueueInv
    <3>2. /\ e \notin acked /\ attempts[e] <= MaxRetries + crashes
          /\ attempts[e] <= json[e] + crashes + 1
      BY <1>0, <1>2, <3>1, OfTheEntry
    <3> QED BY <1>1, <1>2, <2>2, <3>2 DEF Arrived, Holding, UncountedJobs
  <2>4. "rewrite" \in Jobs
    BY DEF Jobs
  <2> QED BY <1>0, <1>1, <2>1, <2>2, <2>3, <2>4, MoveKeeps
<1>3. CASE json[e] = Missing
  <2>1. read' = read /\ Goto(a, e, Finished(a))
    BY <1>3 DEF FailDeliveryReads
  <2>2. e \in contended
    <3> SUFFICES ASSUME e \notin contended PROVE FALSE
      OBVIOUS
    <3>1. EntryInv(e)
      BY DEF QueueInv
    <3> QED BY <1>0, <1>3, <3>1, OfTheEntry DEF Holding
  <2>3. Finished(a) \in Jobs
    BY FinishedIsJob DEF Jobs
  <2> QED BY <1>0, <1>1, <2>1, <2>2, <2>3, MoveKeeps
<1> QED BY <1>2, <1>3

LEMMA FailWritesKeeps ==
  ASSUME QueueInv, NEW a \in Actors, NEW e \in Deliveries, FailDeliveryWrites(a, e)
  PROVE  \A d \in Deliveries \ contended' : EntryInv(d)'
<1>0. CountsOK /\ job[a][e] = "rewrite" /\ Busy(a, e)
  BY DEF QueueInv, FailDeliveryWrites, At, Busy
<1>1. UNCHANGED <<acked, attempts, contended, crashes>> /\ Goto(a, e, Finished(a))
      /\ json' = [json EXCEPT ![e] = OneMore(read[a][e])] /\ Forget(a, e)
  BY DEF FailDeliveryWrites, ghosts
<1>2. /\ Finished(a) \in Jobs /\ Finished(a) \notin Holding \cup UncountedJobs
      /\ a = "live" => Finished(a) # "idle"
      /\ Finished(a) \notin {"pending", "rewrite"}
  BY DEF Finished, Jobs, Holding, UncountedJobs
<1>3. /\ json'[e] = OneMore(read[a][e])
      /\ \A d \in Deliveries : d # e => json'[d] = json[d]
      /\ \A b \in Actors, d \in Deliveries : b # a \/ d # e => read'[b][d] = read[b][d]
  BY <1>0, <1>1 DEF CountsOK, Forget
<1>4. ASSUME e \notin contended PROVE Arrived(a, e, Finished(a))
  <2>1. EntryInv(e)
    BY <1>4 DEF QueueInv
  <2>2. /\ read[a][e] = json[e] /\ json[e] # Missing /\ e \notin acked
        /\ attempts[e] <= MaxRetries + crashes /\ attempts[e] <= json[e] + crashes + 1
    BY <1>0, <2>1, OfTheEntry DEF Holding
  <2>3. MaxRetries \in Nat /\ crashes \in Nat /\ attempts[e] \in Nat /\ json[e] \in 0..MaxRetries + 1
    BY <1>0, <2>2, Numbers DEF Missing
  <2>4. attempts[e] <= json'[e] + crashes
    <3>1. CASE json[e] > MaxRetries
      BY <1>3, <2>2, <2>3, <3>1, OneMoreIsCount
    <3>2. CASE json[e] <= MaxRetries
      BY <1>3, <2>2, <2>3, <3>2, OneMoreIsCount
    <3> QED BY <2>3, <3>1, <3>2
  <2>5. json'[e] \in 0..MaxRetries + 1
    BY <1>3, <2>2, <2>3, OneMoreIsCount
  <2>6. attempts'[e] <= json'[e] + crashes + 1
    BY <1>1, <2>3, <2>4, <2>5
  <2> QED BY <1>1, <1>2, <2>2, <2>4, <2>6 DEF Arrived, Holding
<1> QED BY <1>0, <1>1, <1>2, <1>3, <1>4, MoveKeeps

LEMMA ScanKeeps ==
  ASSUME QueueInv, NEW r \in Recoveries, Scan(r)
  PROVE  \A d \in Deliveries \ contended' : EntryInv(d)'
<1>0. CountsOK /\ recovery[r] = "starting"
  BY DEF QueueInv, Scan, Lists
<1>1. UNCHANGED <<json, read, acked, attempts, crashes>>
  BY DEF Scan, Lists
<1>2. \A d \in Deliveries : job[r][d] = "idle"
  BY <1>0 DEF QueueInv, RestInv
<1>3. /\ \A d \in Deliveries : job'[r][d] = IF json[d] = Missing THEN "idle" ELSE "listed"
      /\ \A b \in Actors, d \in Deliveries : b # r => job'[b][d] = job[b][d]
  BY <1>0, <1>1, ActorsAre DEF Scan, Lists, CountsOK
<1> SUFFICES ASSUME NEW d \in Deliveries, d \notin contended'
             PROVE  EntryInv(d)'
  OBVIOUS
<1>4. /\ d \notin contended
      /\ json[d] # Missing => \A a \in Actors : a # r => ~Busy(a, d)
  BY DEF Scan, Lists
<1>5. EntryInv(d)
  BY <1>4 DEF QueueInv
<1>6. CASE json[d] = Missing
  <2>1. Same(d)
    BY <1>1, <1>2, <1>3, <1>6 DEF Same
  <2> QED BY <1>1, <1>5, <2>1, SameKeeps
<1>7. CASE json[d] # Missing
  <2>1. /\ job'[r][d] = "listed"
        /\ \A a \in Actors : a # r => job'[a][d] = job[a][d] /\ job[a][d] \in {"idle", "done"}
    BY <1>3, <1>4, <1>7 DEF Busy
  <2>2. job'["live"][d] # "idle"
    BY <1>5, <1>7, <2>1, ActorsAre DEF EntryInv, FileAgrees
  <2>3. OneHasIt(d)'
    BY <2>1 DEF OneHasIt, Busy
  <2>4. FileAgrees(d)'
    BY <1>1, <1>5, <1>7, <2>1, <2>2 DEF EntryInv, FileAgrees, Holding
  <2>5. ~Uncounted(d)
    BY <1>2, <2>1 DEF Uncounted, UncountedJobs
  <2>6. SendsCounted(d)'
    BY <1>1, <1>5, <2>5 DEF EntryInv, SendsCounted
  <2> QED BY <2>3, <2>4, <2>6 DEF EntryInv
<1> QED BY <1>6, <1>7

LEMMA ReadKeeps ==
  ASSUME QueueInv, NEW r \in Recoveries, NEW e \in Deliveries, ReadEntry(r, e)
  PROVE  \A d \in Deliveries \ contended' : EntryInv(d)'
<1>0. CountsOK /\ job[r][e] = "listed" /\ Busy(r, e) /\ r \in Actors /\ r # "live"
  BY ActorsAre DEF QueueInv, ReadEntry, At, Busy
<1>1. UNCHANGED <<json, acked, attempts, contended, crashes>>
  BY DEF ReadEntry, disk, ghosts
<1>2. CASE json[e] # Missing
  <2>1. read' = [read EXCEPT ![r][e] = json[e]] /\ Goto(r, e, "pending")
    BY <1>2 DEF ReadEntry
  <2>2. /\ read'[r][e] = json[e]
        /\ \A b \in Actors, d \in Deliveries : b # r \/ d # e => read'[b][d] = read[b][d]
    BY <1>0, <2>1 DEF CountsOK
  <2>3. ASSUME e \notin contended PROVE Arrived(r, e, "pending")
    <3>1. EntryInv(e)
      BY <2>3 DEF QueueInv
    <3>2. /\ e \notin acked /\ attempts[e] <= MaxRetries + crashes
          /\ attempts[e] <= json[e] + crashes /\ attempts[e] <= json[e] + crashes + 1
      BY <1>0, <1>2, <3>1, OfTheEntry DEF UncountedJobs
    <3> QED BY <1>0, <1>1, <1>2, <2>2, <3>2 DEF Arrived, Holding
  <2>4. "pending" \in Jobs
    BY DEF Jobs
  <2> QED BY <1>0, <1>1, <2>1, <2>2, <2>3, <2>4, MoveKeeps
<1>3. CASE json[e] = Missing
  <2>1. read' = read /\ Goto(r, e, "idle")
    BY <1>3 DEF ReadEntry
  <2>2. e \in contended
    <3> SUFFICES ASSUME e \notin contended PROVE FALSE
      OBVIOUS
    <3>1. EntryInv(e)
      BY DEF QueueInv
    <3> QED BY <1>0, <1>3, <3>1, OfTheEntry DEF Holding
  <2>3. "idle" \in Jobs
    BY DEF Jobs
  <2> QED BY <1>0, <1>1, <2>1, <2>2, <2>3, MoveKeeps
<1> QED BY <1>2, <1>3

LEMMA LoopKeeps ==
  ASSUME QueueInv, NEW r \in Recoveries, NEW e \in Deliveries,
         GiveUp(r, e) \/ NotYetEligible(r, e) \/ Replay(r, e)
  PROVE  \A d \in Deliveries \ contended' : EntryInv(d)'
<1>0. CountsOK /\ job[r][e] = "pending" /\ Busy(r, e) /\ r \in Actors /\ r # "live"
  BY ActorsAre DEF QueueInv, GiveUp, NotYetEligible, Replay, NextPending, At, Busy
<1>1. UNCHANGED <<json, acked, contended, crashes>> /\ Forget(r, e)
  BY DEF GiveUp, NotYetEligible, Replay, disk, ghosts
<1>2. \A b \in Actors, d \in Deliveries : b # r \/ d # e => read'[b][d] = read[b][d]
  BY <1>0, <1>1 DEF CountsOK, Forget
<1>3. ASSUME e \notin contended
      PROVE  /\ json[e] # Missing /\ e \notin acked /\ read[r][e] = json[e]
             /\ attempts[e] <= MaxRetries + crashes
             /\ attempts[e] <= json[e] + crashes /\ attempts[e] <= json[e] + crashes + 1
  <2>1. EntryInv(e)
    BY <1>3 DEF QueueInv
  <2> QED BY <1>0, <2>1, OfTheEntry DEF UncountedJobs, Holding
<1>4. CASE GiveUp(r, e) \/ NotYetEligible(r, e)
  <2>1. /\ attempts' = attempts
        /\ \E s \in {"move", "idle"} : Goto(r, e, s)
    BY <1>4 DEF GiveUp, NotYetEligible, ghosts
  <2>2. PICK s \in {"move", "idle"} : Goto(r, e, s)
    BY <2>1
  <2>3. ASSUME e \notin contended PROVE Arrived(r, e, s)
    BY <1>0, <1>1, <1>3, <2>1, <2>3 DEF Arrived, Holding
  <2>4. s \in Jobs
    BY DEF Jobs
  <2> QED BY <1>0, <1>1, <1>2, <2>1, <2>2, <2>3, <2>4, MoveKeeps
<1>5. CASE Replay(r, e)
  <2>1. CountAttempt(e) /\ Goto(r, e, "sending") /\ read[r][e] < MaxRetries
    BY <1>5 DEF Replay
  <2>2. /\ \A d \in Deliveries : d # e => attempts'[d] = attempts[d]
        /\ e \notin contended => attempts'[e] = attempts[e] + 1
    BY <1>0, <2>1, CountAttemptType DEF CountsOK
  <2>3. ASSUME e \notin contended PROVE Arrived(r, e, "sending")
    <3>1. /\ MaxRetries \in Nat /\ crashes \in Nat /\ attempts[e] \in Nat
          /\ json[e] \in -1..MaxRetries + 1
      BY <1>0, Numbers
    <3>2. /\ attempts'[e] <= MaxRetries + crashes
          /\ attempts'[e] <= json'[e] + crashes + 1
      BY <1>1, <1>3, <2>1, <2>2, <2>3, <3>1
    <3> QED BY <1>0, <1>1, <1>3, <2>3, <3>2 DEF Arrived, UncountedJobs
  <2>4. "sending" \in Jobs
    BY DEF Jobs
  <2> QED BY <1>0, <1>1, <1>2, <2>1, <2>2, <2>3, <2>4, MoveKeeps
<1> QED BY <1>4, <1>5

LEMMA MovedKeeps ==
  ASSUME QueueInv, NEW r \in Recoveries, NEW e \in Deliveries, MoveToFailed(r, e)
  PROVE  \A d \in Deliveries \ contended' : EntryInv(d)'
<1>0. CountsOK /\ job[r][e] = "move" /\ Busy(r, e) /\ r \in Actors /\ r # "live"
  BY ActorsAre DEF QueueInv, MoveToFailed, At, Busy
<1>1. UNCHANGED <<read, acked, attempts, contended, crashes>> /\ Goto(r, e, "idle")
      /\ json' = [json EXCEPT ![e] = Missing]
  BY DEF MoveToFailed, ghosts
<1>2. json'[e] = Missing /\ \A d \in Deliveries : d # e => json'[d] = json[d]
  BY <1>0, <1>1 DEF CountsOK
<1>3. ASSUME e \notin contended PROVE Arrived(r, e, "idle")
  <2>1. EntryInv(e)
    BY <1>3 DEF QueueInv
  <2>2. attempts[e] <= MaxRetries + crashes
    BY <1>0, <2>1, OfTheEntry
  <2> QED BY <1>0, <1>1, <1>2, <2>2 DEF Arrived, Holding
<1>4. "idle" \in Jobs
  BY DEF Jobs
<1> QED BY <1>0, <1>1, <1>2, <1>3, <1>4, MoveKeeps

LEMMA DeferKeeps ==
  ASSUME QueueInv, NEW r \in Recoveries, DeferRemaining(r)
  PROVE  \A d \in Deliveries \ contended' : EntryInv(d)'
<1>0. CountsOK /\ r \in Actors /\ r # "live"
  BY ActorsAre DEF QueueInv
<1>1. UNCHANGED <<json, acked, attempts, contended, crashes>>
  BY DEF DeferRemaining, disk, ghosts
<1>2. /\ \A d \in Deliveries : job'[r][d] = IF job[r][d] = "pending" THEN "fail" ELSE job[r][d]
      /\ \A b \in Actors, d \in Deliveries : b # r => job'[b][d] = job[b][d] /\ read'[b][d] = read[b][d]
  BY <1>0 DEF DeferRemaining, CountsOK
<1>3. \A d \in Deliveries : job[r][d] \notin {"listed", "pending"} => job[r][d] # "rewrite"
  BY DEF DeferRemaining, NextPending, RecoveryActive
<1> SUFFICES ASSUME NEW d \in Deliveries, d \notin contended
             PROVE  EntryInv(d)'
  BY <1>1
<1>4. EntryInv(d)
  BY DEF QueueInv
<1>5. CASE job[r][d] = "pending"
  <2>1. Busy(r, d) /\ job'[r][d] = "fail" /\ "fail" \in Jobs
    BY <1>2, <1>5 DEF Busy, Jobs
  <2>2. /\ json[d] # Missing /\ d \notin acked
        /\ attempts[d] <= MaxRetries + crashes /\ attempts[d] <= json[d] + crashes + 1
    BY <1>0, <1>4, <1>5, <2>1, OfTheEntry DEF Holding
  <2>3. Arrived(r, d, "fail")
    BY <1>0, <1>1, <2>2 DEF Arrived, UncountedJobs
  <2> QED BY <1>0, <1>1, <1>2, <1>4, <2>1, <2>3, ArrivedKeeps
<1>6. CASE job[r][d] # "pending"
  <2>1. \A a \in Actors : job'[a][d] = job[a][d]
    BY <1>2, <1>6
  <2>2. \A a \in Actors : job[a][d] \in {"pending", "rewrite"} => read'[a][d] = read[a][d]
    BY <1>2, <1>3, <1>6
  <2>3. OneHasIt(d)'
    BY <1>4, <2>1 DEF EntryInv, OneHasIt, Busy
  <2>4. FileAgrees(d)'
    BY <1>1, <1>4, <2>1, <2>2, ActorsAre DEF EntryInv, FileAgrees
  <2>5. Uncounted(d)' <=> Uncounted(d)
    BY <2>1 DEF Uncounted
  <2>6. SendsCounted(d)'
    BY <1>1, <1>4, <2>5 DEF EntryInv, SendsCounted
  <2> QED BY <2>3, <2>4, <2>6 DEF EntryInv
<1> QED BY <1>5, <1>6

LEMMA CrashKeeps ==
  ASSUME QueueInv, Crash
  PROVE  \A d \in Deliveries \ contended' : EntryInv(d)'
<1>1. \A a \in Actors, d \in Deliveries :
        job'[a][d] = IF a = "live" /\ job[a][d] # "idle" THEN "done" ELSE "idle"
  BY DEF Crash
<1>2. UNCHANGED <<json, acked, attempts, contended>> /\ crashes' = crashes + 1
  BY DEF Crash, disk
<1> SUFFICES ASSUME NEW d \in Deliveries, d \notin contended
             PROVE  EntryInv(d)'
  BY <1>2
<1>3. EntryInv(d) /\ CountsOK
  BY DEF QueueInv
<1>4. /\ \A a \in Actors : job'[a][d] \in {"idle", "done"}
      /\ job'["live"][d] = "idle" => job["live"][d] = "idle"
      /\ \A a \in Actors : a # "live" => job'[a][d] = "idle"
  BY <1>1, ActorsAre
<1>5. OneHasIt(d)'
  BY <1>4 DEF OneHasIt, Busy
<1>6. FileAgrees(d)'
  BY <1>2, <1>3, <1>4 DEF EntryInv, FileAgrees, Holding
<1>7. SendsCounted(d)'
  BY <1>2, <1>3, Numbers DEF EntryInv, SendsCounted
<1> QED BY <1>5, <1>6, <1>7 DEF EntryInv

LEMMA RestStep ==
  ASSUME QueueInv, [Next]_vars
  PROVE  RestInv'
<1>0. CountsOK /\ RestInv
  BY DEF QueueInv
<1>1. ASSUME NEW a \in Actors, NEW e \in Deliveries, NEW s \in Jobs, Goto(a, e, s),
             recovery' = recovery, Busy(a, e) \/ a = "live"
      PROVE  RestInv'
  <2>1. \A b \in Actors, d \in Deliveries : b # a \/ d # e => job'[b][d] = job[b][d]
    BY <1>0, <1>1, GotoEffect DEF CountsOK
  <2> SUFFICES ASSUME NEW r \in Recoveries, recovery[r] \in {"off", "starting"}, NEW d \in Deliveries
               PROVE  job'[r][d] = "idle"
    BY <1>1 DEF RestInv
  <2>2. job[r][d] = "idle"
    BY <1>0 DEF RestInv
  <2>3. r # a \/ d # e
    BY <1>1, <2>2, ActorsAre DEF Busy
  <2> QED BY <2>1, <2>2, <2>3, ActorsAre
<1>2. ASSUME NEW e \in Deliveries, EnqueueDelivery(e) \/ SendAborted(e) PROVE RestInv'
  <2>1. recovery' = recovery /\ \E s \in {"sending", "done", "ack"} : Goto("live", e, s)
    BY <1>2 DEF EnqueueDelivery, SendAborted
  <2> QED BY <1>1, <2>1, ActorsAre DEF Jobs
<1>3. ASSUME NEW a \in Actors, NEW e \in Deliveries, SendStep(a, e) \/ QueueStep(a, e)
      PROVE  RestInv'
  <2>1. job[a][e] \in {"sending", "sent", "ack", "unlink", "fail", "rewrite"}
    BY <1>3 DEF SendStep, SendReaches, SendReturns, SendReturnsPartial, SendThrows, QueueStep,
                AckDelivery, UnlinkMarker, FailDeliveryReads, FailDeliveryWrites, At
  <2>2. \E s \in {"sent", "ack", "fail", "move", "unlink", "rewrite", "done", "idle"} : Goto(a, e, s)
    BY <1>3, FinishedIsJob
       DEF SendStep, SendReaches, SendReturns, SendReturnsPartial, SendThrows, QueueStep,
           AckDelivery, UnlinkMarker, FailDeliveryReads, FailDeliveryWrites
  <2>3. recovery' = recovery
    BY <1>3 DEF SendStep, SendReaches, SendReturns, SendReturnsPartial, SendThrows, QueueStep,
                AckDelivery, UnlinkMarker, FailDeliveryReads, FailDeliveryWrites
  <2> QED BY <1>1, <2>1, <2>2, <2>3 DEF Jobs, Busy
<1>4. ASSUME NEW r \in Recoveries, RecoveryStep(r) PROVE RestInv'
  <2>1. CASE Scan(r)
    <3>1. /\ recovery'[r] = "reading" /\ \A q \in Recoveries : q # r => recovery'[q] = recovery[q]
          /\ \A q \in Recoveries, d \in Deliveries : q # r => job'[q][d] = job[q][d]
      BY <1>0, <2>1, ActorsAre DEF Scan, Lists, CountsOK
    <3> QED BY <1>0, <3>1 DEF RestInv
  <2>2. CASE AllRead(r)
    <3>1. /\ recovery'[r] = "looping" /\ \A q \in Recoveries : q # r => recovery'[q] = recovery[q]
          /\ job' = job
      BY <1>0, <2>2 DEF AllRead, CountsOK
    <3> QED BY <1>0, <3>1 DEF RestInv
  <2>3. CASE RecoveryEnds(r)
    <3>1. /\ \A q \in Recoveries : q # r => recovery'[q] = recovery[q]
          /\ job' = job /\ \A e \in Deliveries : job[r][e] = "idle"
      BY <1>0, <2>3 DEF RecoveryEnds, CountsOK, At
    <3> QED BY <1>0, <3>1 DEF RestInv
  <2>4. CASE DeferRemaining(r)
    <3>1. /\ recovery' = recovery /\ recovery[r] = "looping"
          /\ \A q \in Recoveries, d \in Deliveries : q # r => job'[q][d] = job[q][d]
      BY <1>0, <2>4, ActorsAre DEF DeferRemaining, NextPending, CountsOK
    <3> QED BY <1>0, <3>1 DEF RestInv
  <2>5. ASSUME NEW e \in Deliveries, ReadEntry(r, e) \/ LoopStep(r, e) PROVE RestInv'
    <3>1. /\ recovery' = recovery
          /\ \E s \in {"pending", "idle", "move", "sending"} : Goto(r, e, s)
          /\ job[r][e] \in {"listed", "pending", "move"}
      BY <2>5 DEF ReadEntry, LoopStep, GiveUp, NotYetEligible, Replay, MoveToFailed, NextPending, At
    <3> QED BY <1>1, <3>1, ActorsAre DEF Jobs, Busy
  <2> QED BY <1>4, <2>1, <2>2, <2>3, <2>4, <2>5 DEF RecoveryStep
<1>5. CASE RestartInProcess
  <2>1. PICK r \in Recoveries : recovery[r] = "off" /\ recovery' = [recovery EXCEPT ![r] = "starting"]
    BY <1>5 DEF RestartInProcess
  <2>2. \A q \in Recoveries : q # r => recovery'[q] = recovery[q]
    BY <1>0, <2>1 DEF CountsOK
  <2> QED BY <1>0, <1>5, <2>1, <2>2 DEF RestInv, RestartInProcess
<1>6. CASE Crash
  <2>1. \A r \in Recoveries, d \in Deliveries : job'[r][d] = "idle"
    BY <1>6, ActorsAre DEF Crash
  <2> QED BY <2>1 DEF RestInv
<1>7. CASE UNCHANGED vars
  BY <1>0, <1>7 DEF vars, RestInv
<1> QED BY <1>2, <1>3, <1>4, <1>5, <1>6, <1>7 DEF Next

LEMMA QueueInvStep ==
  ASSUME QueueInv, [Next]_vars
  PROVE  QueueInv'
<1>1. CountsOK' /\ RestInv'
  BY CountsStep, RestStep DEF QueueInv
<1>2. ASSUME job' = job, read' = read, json' = json, attempts' = attempts, acked' = acked,
             crashes' = crashes, contended' = contended
      PROVE  \A d \in Deliveries \ contended' : EntryInv(d)'
  <2> SUFFICES ASSUME NEW d \in Deliveries, d \notin contended PROVE EntryInv(d)'
    BY <1>2
  <2>1. EntryInv(d) /\ Same(d)
    BY <1>2 DEF QueueInv, Same
  <2> QED BY <1>2, <2>1, SameKeeps
<1>3. \A d \in Deliveries \ contended' : EntryInv(d)'
  <2>1. ASSUME NEW e \in Deliveries, EnqueueDelivery(e) \/ SendAborted(e)
        PROVE  \A d \in Deliveries \ contended' : EntryInv(d)'
    BY <2>1, EnqueueKeeps, SendKeeps, ActorsAre
  <2>2. ASSUME NEW a \in Actors, NEW e \in Deliveries, SendStep(a, e) \/ QueueStep(a, e)
        PROVE  \A d \in Deliveries \ contended' : EntryInv(d)'
    <3>1. CASE SendStep(a, e)
      BY <3>1, SendKeeps, Zenon
    <3>2. CASE AckDelivery(a, e)
      BY <3>2, AckKeeps
    <3>3. CASE UnlinkMarker(a, e)
      BY <3>3, UnlinkKeeps
    <3>4. CASE FailDeliveryReads(a, e)
      BY <3>4, FailReadsKeeps
    <3>5. CASE FailDeliveryWrites(a, e)
      BY <3>5, FailWritesKeeps
    <3> QED BY <2>2, <3>1, <3>2, <3>3, <3>4, <3>5 DEF QueueStep
  <2>3. ASSUME NEW r \in Recoveries, RecoveryStep(r)
        PROVE  \A d \in Deliveries \ contended' : EntryInv(d)'
    <3>1. CASE Scan(r) \/ DeferRemaining(r)
      BY <3>1, ScanKeeps, DeferKeeps
    <3>2. CASE AllRead(r) \/ RecoveryEnds(r)
      BY <1>2, <3>2 DEF AllRead, RecoveryEnds, disk, ghosts
    <3>3. ASSUME NEW e \in Deliveries, ReadEntry(r, e) \/ LoopStep(r, e)
          PROVE  \A d \in Deliveries \ contended' : EntryInv(d)'
      BY <3>3, ReadKeeps, LoopKeeps, MovedKeeps DEF LoopStep
    <3> QED BY <2>3, <3>1, <3>2, <3>3 DEF RecoveryStep
  <2>4. CASE RestartInProcess
    BY <1>2, <2>4 DEF RestartInProcess, disk, ghosts
  <2>5. CASE Crash
    BY <2>5, CrashKeeps
  <2>6. CASE UNCHANGED vars
    BY <1>2, <2>6 DEF vars, disk, ghosts
  <2> QED BY <2>1, <2>2, <2>3, <2>4, <2>5, <2>6 DEF Next
<1> QED BY <1>1, <1>3 DEF QueueInv

LEMMA QueueInvHolds == Spec => []QueueInv
<1>1. Init => QueueInv
  <2> SUFFICES ASSUME Init PROVE QueueInv
    OBVIOUS
  <2>1. /\ \A a \in Actors, e \in Deliveries : job[a][e] = "idle"
        /\ \A e \in Deliveries : json[e] = Missing /\ attempts[e] = 0 /\ e \notin acked
        /\ crashes = 0
    BY DEF Init
  <2>2. RestInv
    BY <2>1, ActorsAre DEF RestInv
  <2>3. ASSUME NEW e \in Deliveries PROVE EntryInv(e)
    BY <2>1, ActorsAre, DeliveryAssumption
       DEF EntryInv, OneHasIt, FileAgrees, SendsCounted, Busy, Holding
  <2> QED BY <2>2, <2>3, CountsInit DEF QueueInv
<1> QED BY <1>1, QueueInvStep, PTL DEF Spec

LEMMA AckedStep ==
  ASSUME QueueInv, [Next]_vars
  PROVE  \A d \in acked \ contended' : attempts'[d] = attempts[d]
<1>0. CountsOK /\ acked \subseteq Deliveries
  BY DEF QueueInv, CountsOK
<1>1. ASSUME NEW e \in Deliveries, EnqueueDelivery(e)
      PROVE  \A d \in acked \ contended' : attempts'[d] = attempts[d]
  <2>1. contended' = contended /\ job["live"][e] = "idle"
    BY <1>1 DEF EnqueueDelivery, At
  <2>2. e \notin acked \ contended
    BY <2>1 DEF QueueInv, EntryInv, FileAgrees
  <2>3. \A d \in Deliveries : d # e => attempts'[d] = attempts[d]
    BY <1>0, <1>1, CountAttemptType DEF EnqueueDelivery, CountsOK
  <2> QED BY <1>0, <2>1, <2>2, <2>3
<1>2. ASSUME NEW r \in Recoveries, NEW e \in Deliveries, Replay(r, e)
      PROVE  \A d \in acked \ contended' : attempts'[d] = attempts[d]
  <2>1. contended' = contended /\ job[r][e] = "pending" /\ CountAttempt(e)
    BY <1>2 DEF Replay, NextPending, At
  <2>2. e \notin acked \ contended
    BY <2>1, ActorsAre DEF QueueInv, EntryInv, FileAgrees, Holding
  <2>3. \A d \in Deliveries : d # e => attempts'[d] = attempts[d]
    BY <1>0, <2>1, CountAttemptType DEF CountsOK
  <2> QED BY <1>0, <2>1, <2>2, <2>3
<1>3. ASSUME NEW e \in Deliveries, SendAborted(e) PROVE attempts' = attempts
  BY <1>3 DEF SendAborted
<1>4. ASSUME NEW a \in Actors, NEW e \in Deliveries, SendStep(a, e) \/ QueueStep(a, e)
      PROVE  attempts' = attempts
  BY <1>4 DEF SendStep, SendReaches, SendReturns, SendReturnsPartial, SendThrows, QueueStep,
              AckDelivery, UnlinkMarker, FailDeliveryReads, FailDeliveryWrites, ghosts
<1>5. ASSUME NEW r \in Recoveries, NEW e \in Deliveries,
             ReadEntry(r, e) \/ GiveUp(r, e) \/ NotYetEligible(r, e) \/ MoveToFailed(r, e)
      PROVE  attempts' = attempts
  BY <1>5 DEF ReadEntry, GiveUp, NotYetEligible, MoveToFailed, ghosts
<1>6. ASSUME NEW r \in Recoveries, Scan(r) \/ AllRead(r) \/ DeferRemaining(r) \/ RecoveryEnds(r)
      PROVE  attempts' = attempts
  BY <1>6 DEF Scan, Lists, AllRead, DeferRemaining, RecoveryEnds, ghosts
<1>7. ASSUME RestartInProcess \/ Crash \/ UNCHANGED vars
      PROVE  attempts' = attempts
  BY <1>7 DEF RestartInProcess, Crash, vars, ghosts
<1> QED BY <1>1, <1>2, <1>3, <1>4, <1>5, <1>6, <1>7 DEF Next, RecoveryStep, LoopStep

(* Once an ack has renamed an entry no recovery sends its message again,    *)
(* for any number of crashes and recoveries and wherever they come, unless  *)
(* a recovery lists the entry while another actor has it.                   *)
THEOREM AckedStays == Spec => AckedIsNotReplayed
<1>1. QueueInv /\ [Next]_vars =>
        [\A e \in acked \ contended' : attempts'[e] = attempts[e]]_vars
  BY AckedStep
<1> QED BY <1>1, QueueInvHolds, PTL DEF Spec, AckedIsNotReplayed

(* MAX_RETRIES and the crashes bound the sends of an entry, unless a        *)
(* recovery lists it while another actor has it.                            *)
THEOREM SendsStayBounded == Spec => []SendsAreBounded
<1>1. QueueInv => SendsAreBounded
  BY DEF QueueInv, EntryInv, SendsCounted, SendsAreBounded
<1> QED BY <1>1, QueueInvHolds, PTL

=============================================================================
