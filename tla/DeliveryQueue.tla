---------------------------- MODULE DeliveryQueue ----------------------------
(***************************************************************************)
(* The write-ahead queue of outbound messages: deliverOutboundPayloads     *)
(* (src/infra/outbound/deliver.ts), the queue directory                    *)
(* (delivery-queue-storage.ts) and the recovery a gateway start runs       *)
(* (delivery-queue-recovery.ts).                                           *)
(*                                                                         *)
(* An entry is a file <id>.json; an ack renames it to <id>.delivered and   *)
(* unlinks that; giving up renames it into failed/.  Every file operation  *)
(* and every answer of the channel is an action, and the process may crash *)
(* between any two.  A recovery runs beside the gateway that started it    *)
(* and outlives a restart in place, so several may be under way.           *)
(*                                                                         *)
(* A temporary file that is renamed into place is one action with its      *)
(* rename: only a second writer of the same entry could disturb the two.   *)
(* Deliveries are numbered in the order they are queued (enqueuedAt).      *)
(***************************************************************************)
EXTENDS Integers, FiniteSets

CONSTANTS
  NumDeliveries,  \* bound on the deliveries
  MaxRetries,     \* MAX_RETRIES
  MaxCrashes,     \* bound on crashes
  BestEffort,     \* deliveries queued with bestEffort
  WithOnError,    \* deliveries whose caller passes onError
  Recoveries,     \* bound on the recoveries under way at once
  Overlapping     \* bound: deliveries two actors may have at once; the others
                  \* are queued only while that has not happened

Deliveries == 1..NumDeliveries

ASSUME DeliveryAssumption ==
  /\ NumDeliveries \in Nat /\ MaxRetries \in Nat \ {0} /\ MaxCrashes \in Nat
  /\ BestEffort \subseteq Deliveries /\ WithOnError \subseteq Deliveries
  /\ Overlapping \subseteq Deliveries
  /\ Recoveries # {} /\ "live" \notin Recoveries

Missing == -1

(* Who works on an entry: the call that queued it, or a recovery. *)
Actors == {"live"} \cup Recoveries

VARIABLES
  json,       \* retryCount in <id>.json, Missing without the file
  marker,     \* <id>.delivered exists
  failed,     \* failed/<id>.json exists
  job,        \* where each actor is with each delivery
  read,       \* the retryCount it has read and still has to use
  recovery,   \* where each recoverPendingDeliveries is
  progressed, \* those that have looked at an entry: their deadline may pass
  persisted,  \* the entry was written
  reached,    \* the whole message has reached the channel
  aborted,    \* the caller aborted the delivery
  acked,      \* an ack has renamed the entry
  attempts,   \* how often a send was started, counted until it is contended
  contended,  \* entries a recovery has listed while another actor had them
  crashes     \* crashes so far

disk == <<json, marker, failed>>
ghosts == <<persisted, reached, aborted, acked, attempts, contended, crashes>>
vars == <<disk, job, read, recovery, progressed, ghosts>>

At(a, e, s) == job[a][e] = s
Goto(a, e, s) == job' = [job EXCEPT ![a][e] = s]

(* The entry that was read goes out of scope. *)
Forget(a, e) == read' = [read EXCEPT ![a][e] = 0]

CountAttempt(e) ==
  attempts' = IF e \in contended THEN attempts ELSE [attempts EXCEPT ![e] = @ + 1]

Busy(a, e) == job[a][e] \notin {"idle", "done"}
RecoveryActive(r, e) == job[r][e] \notin {"idle", "listed", "pending"}

(* The process starts with one recovery. *)
FirstRecovery ==
  [r \in Recoveries |-> IF r = CHOOSE q \in Recoveries : TRUE THEN "starting" ELSE "off"]

Init ==
  /\ json = [e \in Deliveries |-> Missing]
  /\ marker = [e \in Deliveries |-> FALSE]
  /\ failed = [e \in Deliveries |-> FALSE]
  /\ job = [a \in Actors |-> [e \in Deliveries |-> "idle"]]
  /\ read = [a \in Actors |-> [e \in Deliveries |-> 0]]
  /\ recovery = FirstRecovery /\ progressed = {}
  /\ persisted = {} /\ reached = {} /\ aborted = {} /\ acked = {}
  /\ attempts = [e \in Deliveries |-> 0]
  /\ contended = {} /\ crashes = 0

-----------------------------------------------------------------------------
(* enqueueDelivery; if it fails the message is sent without an entry, and  *)
(* this module has no more to say of it.                                   *)
EnqueueDelivery(e) ==
  /\ At("live", e, "idle")
  /\ \A d \in Deliveries : d < e => ~At("live", d, "idle")
  /\ \/ e \in Overlapping
     \/ contended = {} /\ \A r \in Recoveries : recovery[r] = "off"
  /\ \/ /\ json' = [json EXCEPT ![e] = 0]
        /\ persisted' = persisted \cup {e}
        /\ Goto("live", e, "sending")
        /\ CountAttempt(e)
     \/ /\ Goto("live", e, "done")
        /\ UNCHANGED <<json, persisted, attempts>>
  /\ UNCHANGED <<marker, failed, read, recovery, progressed, reached, aborted,
                 acked, contended, crashes>>

(* The channel takes the whole message; its answer comes later. *)
SendReaches(a, e) ==
  /\ At(a, e, "sending")
  /\ reached' = reached \cup {e}
  /\ Goto(a, e, "sent")
  /\ UNCHANGED <<disk, read, recovery, progressed, persisted, aborted, acked,
                 attempts, contended, crashes>>

SendReturns(a, e) ==
  /\ At(a, e, "sent")
  /\ Goto(a, e, "ack")
  /\ UNCHANGED <<disk, read, recovery, progressed, ghosts>>

(* With bestEffort the errors of single payloads go to onError and the     *)
(* send returns normally; only a caller's onError is noticed as a partial  *)
(* failure, and the recovery passes none.                                  *)
SendReturnsPartial(a, e) ==
  /\ At(a, e, "sending") /\ e \in BestEffort
  /\ Goto(a, e, IF a = "live" /\ e \in WithOnError THEN "fail" ELSE "ack")
  /\ UNCHANGED <<disk, read, recovery, progressed, ghosts>>

(* The send throws, before or after the channel has taken the message; in  *)
(* a recovery a permanent error gives the entry up.                        *)
SendThrows_Acked(a, e) ==   \* bug: the entry of a failed send is acked
  /\ At(a, e, "sending") \/ At(a, e, "sent")
  /\ Goto(a, e, "ack")
  /\ UNCHANGED <<disk, read, recovery, progressed, ghosts>>
SendThrows(a, e) ==
  /\ At(a, e, "sending") \/ At(a, e, "sent")
  /\ \/ Goto(a, e, "fail")
     \/ a \in Recoveries /\ Goto(a, e, "move")
  /\ UNCHANGED <<disk, read, recovery, progressed, ghosts>>

SendAborted(e) ==
  /\ At("live", e, "sending") \/ At("live", e, "sent")
  /\ aborted' = aborted \cup {e}
  /\ Goto("live", e, "ack")
  /\ UNCHANGED <<disk, read, recovery, progressed, persisted, reached, acked,
                 attempts, contended, crashes>>

Finished(a) == IF a = "live" THEN "done" ELSE "idle"

(* ackDelivery: rename to the marker, or clean up a marker found without   *)
(* its entry; then unlink.                                                 *)
AckDelivery(a, e) ==
  /\ At(a, e, "ack")
  /\ \/ /\ json[e] # Missing
        /\ json' = [json EXCEPT ![e] = Missing]
        /\ marker' = [marker EXCEPT ![e] = TRUE]
        /\ acked' = acked \cup {e}
        /\ Goto(a, e, "unlink")
     \/ /\ json[e] = Missing
        /\ marker' = [marker EXCEPT ![e] = FALSE]
        /\ Goto(a, e, Finished(a))
        /\ UNCHANGED <<json, acked>>
  /\ UNCHANGED <<failed, read, recovery, progressed, persisted, reached,
                 aborted, attempts, contended, crashes>>

UnlinkMarker(a, e) ==
  /\ At(a, e, "unlink")
  /\ marker' = [marker EXCEPT ![e] = FALSE]
  /\ Goto(a, e, Finished(a))
  /\ UNCHANGED <<json, failed, read, recovery, progressed, ghosts>>

(* failDelivery reads the entry and writes it back with one retry more;    *)
(* an entry that is gone is an error nobody looks at.                      *)
FailDeliveryReads(a, e) ==
  /\ At(a, e, "fail")
  /\ \/ /\ json[e] # Missing
        /\ read' = [read EXCEPT ![a][e] = json[e]]
        /\ Goto(a, e, "rewrite")
     \/ /\ json[e] = Missing
        /\ Goto(a, e, Finished(a))
        /\ UNCHANGED read
  /\ UNCHANGED <<disk, recovery, progressed, ghosts>>

(* Retry counts beyond MAX_RETRIES are alike: the bound keeps them finite. *)
OneMore(n) == IF n > MaxRetries THEN n ELSE n + 1

FailDeliveryWrites(a, e) ==
  /\ At(a, e, "rewrite")
  /\ json' = [json EXCEPT ![e] = OneMore(read[a][e])]
  /\ Forget(a, e)
  /\ Goto(a, e, Finished(a))
  /\ UNCHANGED <<marker, failed, recovery, progressed, ghosts>>

-----------------------------------------------------------------------------
(* recoverPendingDeliveries                                                *)

(* The queue directory is listed and the markers in it are unlinked. *)
Lists(r) ==
  /\ recovery[r] = "starting"
  /\ recovery' = [recovery EXCEPT ![r] = "reading"]
  /\ job' = [job EXCEPT ![r] =
               [e \in Deliveries |-> IF json'[e] = Missing THEN "idle" ELSE "listed"]]
  /\ contended' = contended \cup
       {e \in Deliveries : json[e] # Missing /\ \E a \in Actors \ {r} : Busy(a, e)}
  /\ UNCHANGED <<failed, read, progressed, persisted, reached, aborted, acked,
                 attempts, crashes>>

Scan_RequeuesMarkers(r) ==   \* bug: a marker is taken for an unfinished delivery
  /\ json' = [e \in Deliveries |-> IF marker[e] THEN 0 ELSE json[e]]
  /\ marker' = [e \in Deliveries |-> FALSE]
  /\ Lists(r)
Scan(r) ==
  /\ json' = json
  /\ marker' = [e \in Deliveries |-> FALSE]
  /\ Lists(r)

ReadEntry(r, e) ==
  /\ At(r, e, "listed")
  /\ \/ /\ json[e] # Missing
        /\ read' = [read EXCEPT ![r][e] = json[e]]
        /\ Goto(r, e, "pending")
     \/ /\ json[e] = Missing
        /\ Goto(r, e, "idle")
        /\ UNCHANGED read
  /\ UNCHANGED <<disk, recovery, progressed, ghosts>>

AllRead(r) ==
  /\ recovery[r] = "reading"
  /\ \A e \in Deliveries : ~At(r, e, "listed")
  /\ recovery' = [recovery EXCEPT ![r] = "looping"]
  /\ UNCHANGED <<disk, job, read, progressed, ghosts>>

(* The oldest entry left, once the one before is done with. *)
NextPending(r, e) ==
  /\ recovery[r] = "looping"
  /\ At(r, e, "pending")
  /\ \A d \in Deliveries : At(r, d, "pending") => e <= d
  /\ \A d \in Deliveries : ~RecoveryActive(r, d)

GiveUp_Skips(r, e) ==   \* bug: an entry at the limit is only skipped
  /\ NextPending(r, e) /\ read[r][e] >= MaxRetries
  /\ Goto(r, e, "idle")
  /\ Forget(r, e)
  /\ progressed' = progressed \cup {r}
  /\ UNCHANGED <<disk, recovery, ghosts>>
GiveUp(r, e) ==
  /\ NextPending(r, e) /\ read[r][e] >= MaxRetries
  /\ Goto(r, e, "move")
  /\ Forget(r, e)
  /\ progressed' = progressed \cup {r}
  /\ UNCHANGED <<disk, recovery, ghosts>>

(* An entry that was never retried is eligible at once. *)
NotYetEligible(r, e) ==
  /\ NextPending(r, e) /\ read[r][e] \in 1..MaxRetries - 1
  /\ Goto(r, e, "idle")
  /\ Forget(r, e)
  /\ progressed' = progressed \cup {r}
  /\ UNCHANGED <<disk, recovery, ghosts>>

Replay_OneLate(r, e) ==   \* bug: <= for <
  /\ NextPending(r, e) /\ read[r][e] <= MaxRetries
  /\ Goto(r, e, "sending")
  /\ CountAttempt(e)
  /\ Forget(r, e)
  /\ progressed' = progressed \cup {r}
  /\ UNCHANGED <<disk, recovery, persisted, reached, aborted, acked, contended, crashes>>
Replay(r, e) ==
  /\ NextPending(r, e) /\ read[r][e] < MaxRetries
  /\ Goto(r, e, "sending")
  /\ CountAttempt(e)
  /\ Forget(r, e)
  /\ progressed' = progressed \cup {r}
  /\ UNCHANGED <<disk, recovery, persisted, reached, aborted, acked, contended, crashes>>

(* The time budget is used up: failDelivery on every entry left. *)
DeferRemaining(r) ==
  /\ r \in progressed
  /\ \E e \in Deliveries : NextPending(r, e)
  /\ job' = [job EXCEPT ![r] =
       [e \in Deliveries |-> IF @[e] = "pending" THEN "fail" ELSE @[e]]]
  /\ read' = [read EXCEPT ![r] = [e \in Deliveries |-> 0]]
  /\ UNCHANGED <<disk, recovery, progressed, ghosts>>

MoveToFailed(r, e) ==
  /\ At(r, e, "move")
  /\ failed' = [failed EXCEPT ![e] = json[e] # Missing \/ @]
  /\ json' = [json EXCEPT ![e] = Missing]
  /\ Goto(r, e, "idle")
  /\ UNCHANGED <<marker, read, recovery, progressed, ghosts>>

RecoveryEnds(r) ==
  /\ recovery[r] = "looping"
  /\ \A e \in Deliveries : At(r, e, "idle")
  /\ recovery' = [recovery EXCEPT ![r] = "off"]
  /\ progressed' = progressed \ {r}
  /\ UNCHANGED <<disk, job, read, ghosts>>

-----------------------------------------------------------------------------
(* A new server in the same process starts a recovery of its own: sends    *)
(* and recoveries under way go on.                                         *)
RestartInProcess ==
  /\ \/ \A e \in Deliveries \ Overlapping : At("live", e, "idle")
     \/ /\ \A r \in Recoveries : recovery[r] = "off"
        /\ \A e \in Deliveries : ~Busy("live", e)
  /\ \E r \in Recoveries :
       recovery[r] = "off" /\ recovery' = [recovery EXCEPT ![r] = "starting"]
  /\ UNCHANGED <<disk, job, read, progressed, ghosts>>

(* The process dies and is started again: only the files are left. *)
Crash ==
  /\ crashes < MaxCrashes
  /\ crashes' = crashes + 1
  /\ job' = [a \in Actors |-> [e \in Deliveries |->
               IF a = "live" /\ job[a][e] # "idle" THEN "done" ELSE "idle"]]
  /\ read' = [a \in Actors |-> [e \in Deliveries |-> 0]]
  /\ recovery' = FirstRecovery /\ progressed' = {}
  /\ UNCHANGED <<disk, persisted, reached, aborted, acked, attempts, contended>>

SendStep(a, e) ==
  SendReaches(a, e) \/ SendReturns(a, e) \/ SendReturnsPartial(a, e) \/ SendThrows(a, e)

QueueStep(a, e) ==
  \/ AckDelivery(a, e) \/ UnlinkMarker(a, e)
  \/ FailDeliveryReads(a, e) \/ FailDeliveryWrites(a, e)

LoopStep(r, e) ==
  GiveUp(r, e) \/ NotYetEligible(r, e) \/ Replay(r, e) \/ MoveToFailed(r, e)

RecoveryStep(r) ==
  \/ Scan(r) \/ AllRead(r) \/ DeferRemaining(r) \/ RecoveryEnds(r)
  \/ \E e \in Deliveries : ReadEntry(r, e) \/ LoopStep(r, e)

Next ==
  \/ \E e \in Deliveries : EnqueueDelivery(e) \/ SendAborted(e)
  \/ \E a \in Actors, e \in Deliveries : SendStep(a, e) \/ QueueStep(a, e)
  \/ \E r \in Recoveries : RecoveryStep(r)
  \/ RestartInProcess
  \/ Crash

Spec == Init /\ [][Next]_vars

(***************************************************************************)
(* Sends answer and file operations return; the gateway is restarted again *)
(* and again, and a backoff (at most ten minutes) is over at some of the   *)
(* restarts.                                                               *)
(***************************************************************************)
Fairness ==
  /\ \A a \in Actors, e \in Deliveries : WF_vars(SendStep(a, e)) /\ WF_vars(QueueStep(a, e))
  /\ \A r \in Recoveries : WF_vars(RecoveryStep(r))
  /\ WF_vars(RestartInProcess)
  /\ \A e \in Deliveries : SF_vars(\E r \in Recoveries : Replay(r, e))

FairSpec == Spec /\ Fairness

-----------------------------------------------------------------------------
(***************************************************************************)
(* Properties                                                              *)
(***************************************************************************)

Jobs == {"idle", "listed", "pending", "sending", "sent", "ack", "unlink", "fail",
         "rewrite", "move", "done"}

(* Files, jobs and counters have their types; what a recovery has read is  *)
(* a count an entry can have.                                              *)
TypeOK ==
  /\ json \in [Deliveries -> -1..MaxRetries + 1]
  /\ marker \in [Deliveries -> BOOLEAN] /\ failed \in [Deliveries -> BOOLEAN]
  /\ job \in [Actors -> [Deliveries -> Jobs]]
  /\ read \in [Actors -> [Deliveries -> 0..MaxRetries + 1]]
  /\ recovery \in [Recoveries -> {"starting", "reading", "looping", "off"}]
  /\ progressed \subseteq Recoveries
  /\ persisted \subseteq Deliveries /\ reached \subseteq Deliveries
  /\ aborted \subseteq Deliveries /\ acked \subseteq Deliveries
  /\ attempts \in [Deliveries -> Nat]
  /\ contended \subseteq Deliveries
  /\ crashes \in 0..MaxCrashes

(* An entry written without bestEffort is never lost: its message has      *)
(* reached the channel, or was aborted, or the entry is still there to be  *)
(* retried or inspected, whatever crashed or failed in between.            *)
NothingLost ==
  \A e \in persisted \ BestEffort :
    e \in reached \/ e \in aborted \/ json[e] # Missing \/ failed[e]

(* "does not cause the message to be replayed": once an ack has renamed    *)
(* the entry, no recovery sends the message again, wherever the ack was    *)
(* interrupted, unless two actors had the entry at once.                   *)
AckedIsNotReplayed ==
  [][\A e \in acked \ contended' : attempts'[e] = attempts[e]]_vars

(* MAX_RETRIES bounds the sends of one entry, and a crash that interrupts  *)
(* one before it is counted costs one more at most, unless two actors had  *)
(* the entry at once.                                                      *)
SendsAreBounded ==
  \A e \in Deliveries \ contended : attempts[e] <= MaxRetries + crashes

(* No entry stays in the queue for ever: with restarts to come it is       *)
(* delivered, or hits MAX_RETRIES and is moved to failed/.                 *)
EntriesSettle == \A e \in Deliveries : (json[e] # Missing) ~> (json[e] = Missing)

=============================================================================
