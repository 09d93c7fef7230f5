---------------------------- MODULE FollowupQueue ----------------------------
(***************************************************************************)
(* The followup queue of one session (src/auto-reply/reply/queue/ and      *)
(* src/utils/queue-helpers.ts): messages that arrive while the agent is    *)
(* busy, and the drain that answers them when the reply run is over.       *)
(*                                                                         *)
(* A drain is an async loop that holds on to the queue object it was       *)
(* started for; the map from the session key to the queue object may       *)
(* change under it.  An action is one synchronous section of the loop:     *)
(* the awaits are the debounce, the few microtasks between the routing     *)
(* check and the copy of a collected batch ("checked"), and the run.       *)
(* Debounce and prompt texts are left out: a prompt is the messages and    *)
(* the summary lines it shows.                                             *)
(***************************************************************************)
EXTENDS Integers, Sequences, FiniteSetsExt

CONSTANTS
  Messages,       \* inbound messages, each with its own message id
  Route,          \* their reply target: "none", "cross" or a routing key
  Regimes,        \* what the messages of a session bring: the settings, and a
                  \* bound on the times each of them is accepted
  MaxQueues,      \* bound on the queue objects alive at a time
  ArrivalPhases,  \* where every drain is when a message is queued
  OverflowPhases, \* and when one is queued that makes others fall out
  ClearPhases     \* where every drain is when the queue is cleared

Phases == {"idle", "debounce", "checked", "running"}

ASSUME FollowupAssumption ==
  /\ \A r \in Regimes :
       /\ r.maxAccepts \in [Messages -> Nat]
       /\ \A s \in r.settings : /\ s.mode \in {"collect", "followup"}
                                /\ s.dropPolicy \in {"summarize", "old", "new"}
                                /\ s.cap \in Nat
  /\ MaxQueues \in Nat \ {0}
  /\ ArrivalPhases \subseteq Phases /\ OverflowPhases \subseteq Phases
  /\ ClearPhases \subseteq Phases

Queues == 1..MaxQueues
None == 0

VARIABLES
  regime,      \* the regime, which does not change
  current,     \* FOLLOWUP_QUEUES.get(key)
  queue,       \* the queue objects
  drain,       \* the drain loop of each object; "idle": draining is false
  late,        \* history: what was queued since its last routing check
  recent,      \* RECENT_QUEUE_MESSAGE_IDS
  replyRun,    \* the reply run messages wait for
  accepted,    \* how often each message was pushed
  delivered,   \* how often its own text was in the prompt of a finished run
  discarded,   \* how often it was dropped by the policy or by a clear
  unreported   \* messages whose summary line is still owed to the agent

vars == <<regime, current, queue, drain, late, recent, replyRun, accepted,
          delivered, discarded, unreported>>
ghosts == <<regime, accepted, delivered, discarded, unreported>>

Elements(s) == {s[i] : i \in 1..Len(s)}
CountIn(s, m) == Cardinality({i \in 1..Len(s) : s[i] = m})

-----------------------------------------------------------------------------
(* The queue object.                                                       *)

Cleared(q) == [q EXCEPT !.items = <<>>, !.droppedCount = 0, !.summaryLines = <<>>,
                        !.lastRun = FALSE]

(* DEFAULT_QUEUE_CAP; a cap that is not a positive number (here 0) changes *)
(* nothing.                                                                *)
DefaultCap == 20

Configured(q, s) ==
  [q EXCEPT !.mode = s.mode, !.dropPolicy = s.dropPolicy,
            !.cap = IF s.cap > 0 THEN s.cap ELSE @]

NewQueue(s) ==
  Configured([items |-> <<>>, mode |-> s.mode, dropPolicy |-> s.dropPolicy,
              cap |-> DefaultCap, droppedCount |-> 0, summaryLines |-> <<>>,
              lastRun |-> FALSE], s)

HasWork_ItemsOnly(q) == q.items # <<>>   \* bug: a pending summary is not work
HasWork(q) == q.items # <<>> \/ q.droppedCount > 0

HasCrossChannelItems(ms) ==
  LET keys == {Route[m] : m \in ms} \ {"none"} IN
  \/ "cross" \in keys
  \/ keys # {} /\ Cardinality({Route[m] : m \in ms}) > 1

(* buildQueueSummaryPrompt, on a copy of the queue's summary state. *)
SummaryDue(q) == q.dropPolicy = "summarize" /\ q.droppedCount > 0

(* applyQueueDropPolicy: what falls out at the front of a full queue, and  *)
(* the queue without it.                                                   *)
Overflow(q) ==
  IF Len(q.items) < q.cap THEN <<>> ELSE SubSeq(q.items, 1, Len(q.items) - q.cap + 1)

(* The summary lines with those of the overflow, and what the cap on their *)
(* number leaves of them.                                                  *)
AllLines(q) == q.summaryLines \o Overflow(q)
KeptLines(q) ==
  IF Len(AllLines(q)) <= q.cap THEN AllLines(q)
  ELSE SubSeq(AllLines(q), Len(AllLines(q)) - q.cap + 1, Len(AllLines(q)))

WithoutOverflow_Unsummarized(q) ==   \* bug: dropped items leave no line
  [q EXCEPT !.items = SubSeq(q.items, Len(Overflow(q)) + 1, Len(q.items)),
            !.droppedCount = IF q.dropPolicy = "summarize" THEN @ + Len(Overflow(q)) ELSE @]
WithoutOverflow(q) ==
  LET rest == [q EXCEPT !.items = SubSeq(@, Len(Overflow(q)) + 1, Len(@))] IN
  IF q.dropPolicy # "summarize" THEN rest
  ELSE [rest EXCEPT !.droppedCount = @ + Len(Overflow(q)),
                    !.summaryLines = KeptLines(q)]

-----------------------------------------------------------------------------
(* The drain loop.                                                         *)

Resting == [at |-> "idle", prompt |-> <<>>, shown |-> <<>>, summary |-> FALSE,
            taken |-> 0, individually |-> FALSE]
Debouncing == [Resting EXCEPT !.at = "debounce"]

(* scheduleFollowupDrain on drains ds and queues qs: a queue that is       *)
(* missing or already draining is left alone, one without work is removed. *)
ScheduleFollowupDrain(ds, qs) ==
  IF current = None \/ (current # None /\ ds[current].at # "idle")
  THEN drain' = ds /\ UNCHANGED current
  ELSE IF HasWork(qs[current])
       THEN drain' = [ds EXCEPT ![current] = Debouncing] /\ UNCHANGED current
       ELSE drain' = ds /\ current' = None

(* The finally block of the loop of queue object i. *)
FinishDrain_NoReschedule(i, qs) ==   \* bug: leftover work waits for a next reply run
  /\ queue' = qs
  /\ drain' = [drain EXCEPT ![i] = Resting]
  /\ IF HasWork(qs[i]) THEN UNCHANGED current ELSE current' = None
FinishDrain(i, qs) ==
  /\ queue' = qs
  /\ IF HasWork(qs[i]) THEN ScheduleFollowupDrain([drain EXCEPT ![i] = Resting], qs)
     ELSE drain' = [drain EXCEPT ![i] = Resting] /\ current' = None

StartRun(i, prompt, taken, summary, individually) ==
  /\ drain' = [drain EXCEPT ![i] =
       [at |-> "running", prompt |-> prompt, taken |-> taken, summary |-> summary,
        shown |-> IF summary THEN queue[i].summaryLines ELSE <<>>,
        individually |-> individually]]
  /\ UNCHANGED <<queue, current>>

(* drainNextQueueItem: the head item, or the summary in its stead. *)
DrainNext(i, summary, individually) ==
  IF queue[i].items = <<>> THEN FinishDrain(i, queue)
  ELSE StartRun(i, IF summary THEN <<>> ELSE <<Head(queue[i].items)>>, 1, summary,
                individually)

DebounceEnds_NoRouting(i) ==   \* bug: mixed batches are collected too
  /\ drain[i].at = "debounce"
  /\ IF queue[i].mode = "collect"
     THEN drain' = [drain EXCEPT ![i].at = "checked"] /\ UNCHANGED <<queue, current>>
     ELSE DrainNext(i, SummaryDue(queue[i]), FALSE)
  /\ late' = [late EXCEPT ![i] = {}]
  /\ UNCHANGED <<recent, replyRun, ghosts>>
DebounceEnds(i) ==
  /\ drain[i].at = "debounce"
  /\ \/ /\ queue[i].mode = "collect"
        /\ drain[i].individually \/ HasCrossChannelItems(Elements(queue[i].items))
        /\ DrainNext(i, FALSE, TRUE)
     \/ /\ queue[i].mode = "collect"
        /\ ~drain[i].individually /\ ~HasCrossChannelItems(Elements(queue[i].items))
        /\ drain' = [drain EXCEPT ![i].at = "checked"]
        /\ UNCHANGED <<queue, current>>
     \/ /\ queue[i].mode # "collect"
        /\ DrainNext(i, SummaryDue(queue[i]), drain[i].individually)
  /\ late' = [late EXCEPT ![i] = {}]
  /\ UNCHANGED <<recent, replyRun, ghosts>>

(* The items are copied into one prompt, whatever arrived since the check; *)
(* without items and lastRun (a cleared queue) the loop ends.              *)
CollectItems(i) ==
  /\ drain[i].at = "checked"
  /\ IF queue[i].items = <<>> /\ ~queue[i].lastRun THEN FinishDrain(i, queue)
     ELSE StartRun(i, queue[i].items, Len(queue[i].items), SummaryDue(queue[i]), FALSE)
  /\ UNCHANGED <<late, recent, replyRun, ghosts>>

(* The items the run stood for are taken from the front of the queue as it *)
(* is now, and a summary that was shown is cleared as it is now.           *)
AfterRun_KeepsItems(q, d) ==   \* bug: answered items stay
  IF d.summary THEN [q EXCEPT !.droppedCount = 0, !.summaryLines = <<>>] ELSE q
AfterRun(q, d) ==
  LET rest == [q EXCEPT !.items = SubSeq(@, d.taken + 1, Len(@))] IN
  IF d.summary THEN [rest EXCEPT !.droppedCount = 0, !.summaryLines = <<>>] ELSE rest

RunSucceeds(i) ==
  /\ drain[i].at = "running"
  /\ delivered' = [m \in Messages |-> delivered[m] + CountIn(drain[i].prompt, m)]
  /\ unreported' = unreported \ Elements(drain[i].shown)
  /\ LET q == AfterRun(queue[i], drain[i]) IN
     IF HasWork(q)
     THEN /\ queue' = [queue EXCEPT ![i] = q]
          /\ drain' = [drain EXCEPT ![i] = [Debouncing EXCEPT !.individually =
                                              drain[i].individually]]
          /\ UNCHANGED current
     ELSE FinishDrain(i, [queue EXCEPT ![i] = q])
  /\ late' = [late EXCEPT ![i] = {}]
  /\ UNCHANGED <<regime, recent, replyRun, accepted, discarded>>

RunFails_Drops(i) ==   \* bug: a batch whose run threw is taken as answered
  /\ drain[i].at = "running"
  /\ FinishDrain(i, [queue EXCEPT ![i] = AfterRun(queue[i], drain[i])])
  /\ late' = [late EXCEPT ![i] = {}]
  /\ UNCHANGED <<recent, replyRun, ghosts>>
RunFails(i) ==
  /\ drain[i].at = "running"
  /\ FinishDrain(i, queue)
  /\ late' = [late EXCEPT ![i] = {}]
  /\ UNCHANGED <<recent, replyRun, ghosts>>

-----------------------------------------------------------------------------
(* The agent runner.                                                       *)

Init ==
  /\ current = None
  /\ regime \in Regimes
  /\ \E s \in regime.settings : queue = [i \in Queues |-> NewQueue(s)]
  /\ drain = [i \in Queues |-> Resting]
  /\ late = [i \in Queues |-> {}]
  /\ recent = {}
  /\ replyRun = "running"
  /\ accepted = [m \in Messages |-> 0]
  /\ delivered = [m \in Messages |-> 0]
  /\ discarded = [m \in Messages |-> 0]
  /\ unreported = {}

ReplyRunStarts ==
  /\ replyRun = "none"
  /\ replyRun' = "running"
  /\ UNCHANGED <<current, queue, drain, late, recent, ghosts>>

(* The embedded run is over, the turn still has its answer to deliver. *)
ReplyRunEnds ==
  /\ replyRun = "running"
  /\ replyRun' = "finishing"
  /\ UNCHANGED <<current, queue, drain, late, recent, ghosts>>

FinalizeWithFollowup ==
  /\ replyRun = "finishing"
  /\ replyRun' = "none"
  /\ ScheduleFollowupDrain(drain, queue)
  /\ UNCHANGED <<queue, late, recent, ghosts>>

(* isRunActive(): a followup run counts while its embedded part runs. *)
RunActive ==
  (IF replyRun = "running" \/ \E i \in Queues : drain[i].at = "running" THEN {TRUE} ELSE {})
  \cup (IF replyRun # "running" THEN {FALSE} ELSE {})

FreeQueues == {i \in Queues : i # current /\ drain[i].at = "idle"}

(* Dedupe: the id was seen recently, or the message is still queued. *)
Duplicate(m, q) == m \in recent \/ m \in Elements(q.items)

(* The queue an enqueue finds or creates, with the settings it brings. *)
Target == IF current # None THEN current
          ELSE CHOOSE i \in FreeQueues : TRUE
TargetQueue(s) ==
  IF current # None THEN Configured(queue[current], s) ELSE NewQueue(s)

Refused(q) == q.dropPolicy = "new" /\ Len(q.items) >= q.cap

(* The end of enqueueFollowupRun: q becomes the session's queue, and a     *)
(* drain is scheduled at once when no run is active any more.              *)
Keep(q, active) ==
  /\ queue' = [queue EXCEPT ![Target] = q]
  /\ IF active \/ drain[Target].at # "idle" THEN current' = Target /\ UNCHANGED drain
     ELSE IF HasWork(q) THEN current' = Target /\ drain' = [drain EXCEPT ![Target] = Debouncing]
     ELSE current' = None /\ UNCHANGED drain
  /\ UNCHANGED <<regime, replyRun, delivered>>

MayEnqueue ==
  /\ \A i \in Queues : drain[i].at \in ArrivalPhases
  /\ current # None \/ FreeQueues # {}

EnqueueFollowupRun(m, s, active) ==
  /\ MayEnqueue /\ accepted[m] < regime.maxAccepts[m]
  /\ LET q == TargetQueue(s) IN
     /\ ~Duplicate(m, q) /\ ~Refused(q)
     /\ Overflow(q) = <<>> \/ \A i \in Queues : drain[i].at \in OverflowPhases
     /\ Keep([WithoutOverflow(q) EXCEPT !.items = Append(@, m), !.lastRun = TRUE], active)
     /\ discarded' = [x \in Messages |-> discarded[x] + CountIn(Overflow(q), x)]
     /\ unreported' =
          IF q.dropPolicy # "summarize" THEN unreported
          ELSE (unreported \ Elements(AllLines(q))) \cup
               {x \in Elements(KeptLines(q)) : x \in unreported \cup Elements(Overflow(q))}
  /\ late' = IF drain[Target].at = "checked"
             THEN [late EXCEPT ![Target] = @ \cup {m}] ELSE late
  /\ recent' = recent \cup {m}
  /\ accepted' = [accepted EXCEPT ![m] = @ + 1]

(* A duplicate, or a message a full queue refuses, is not queued; the      *)
(* queue object may have been created for it all the same.                 *)
EnqueueSkipped(m, s, active) ==
  /\ MayEnqueue
  /\ LET q == TargetQueue(s) IN
     \/ Duplicate(m, q) /\ Keep(q, active)
     \/ ~Duplicate(m, q) /\ Refused(q) /\ Keep([q EXCEPT !.lastRun = TRUE], active)
  /\ UNCHANGED <<late, recent, accepted, discarded, unreported>>

ForgetMessageId(m) ==
  /\ m \in recent
  /\ recent' = recent \ {m}
  /\ UNCHANGED <<current, queue, drain, late, replyRun, ghosts>>

ClearFollowupQueue ==
  /\ \A i \in Queues : drain[i].at \in ClearPhases
  /\ current # None
  /\ queue' = [queue EXCEPT ![current] = Cleared(@)]
  /\ current' = None
  /\ discarded' = [m \in Messages |-> discarded[m] + CountIn(queue[current].items, m)]
  /\ unreported' = unreported \ Elements(queue[current].summaryLines)
  /\ UNCHANGED <<regime, drain, late, recent, replyRun, accepted, delivered>>

DrainStep(i) == DebounceEnds(i) \/ CollectItems(i) \/ RunSucceeds(i) \/ RunFails(i)

Next ==
  \/ ReplyRunStarts \/ ReplyRunEnds \/ FinalizeWithFollowup
  \/ \E m \in Messages, s \in regime.settings, active \in RunActive :
       EnqueueFollowupRun(m, s, active) \/ EnqueueSkipped(m, s, active)
  \/ \E m \in Messages : ForgetMessageId(m)
  \/ ClearFollowupQueue
  \/ \E i \in Queues : DrainStep(i)

Spec == Init /\ [][Next]_vars

(***************************************************************************)
(* Reply runs end and finalize, debounces and runs end (the run has a      *)
(* timeout), and a run that is tried again and again succeeds some time.   *)
(***************************************************************************)
Fairness ==
  /\ WF_vars(ReplyRunEnds) /\ WF_vars(FinalizeWithFollowup)
  /\ \A i \in Queues : WF_vars(DrainStep(i)) /\ SF_vars(RunSucceeds(i))

FairSpec == Spec /\ Fairness

-----------------------------------------------------------------------------
(***************************************************************************)
(* Properties                                                              *)
(***************************************************************************)

QueueRecords ==
  [items : Seq(Messages), mode : {"collect", "followup"}, cap : Nat \ {0},
   dropPolicy : {"summarize", "old", "new"}, droppedCount : Nat,
   summaryLines : Seq(Messages), lastRun : BOOLEAN]

DrainRecords ==
  [at : Phases, prompt : Seq(Messages), shown : Seq(Messages), summary : BOOLEAN,
   taken : Nat, individually : BOOLEAN]

(* Every queue object and drain loop has its type. *)
TypeOK ==
  /\ regime \in Regimes
  /\ current \in Queues \cup {None}
  /\ queue \in [Queues -> QueueRecords]
  /\ drain \in [Queues -> DrainRecords]
  /\ late \in [Queues -> SUBSET Messages]
  /\ recent \in SUBSET Messages
  /\ replyRun \in {"none", "running", "finishing"}
  /\ {accepted, delivered, discarded} \subseteq [Messages -> Nat]
  /\ unreported \in SUBSET Messages

(* The queue objects a drain or a next reply run can still reach. *)
Live(i) == i = current \/ drain[i].at # "idle"

Pending(m) ==
  MapThenSumSet(LAMBDA i : CountIn(queue[i].items, m), {i \in Queues : Live(i)})

(* No accepted message vanishes: it is queued where something will drain   *)
(* it, or was in the prompt of a finished run, or was dropped by the       *)
(* overflow policy or by a clear.                                          *)
NothingLost ==
  \A m \in Messages : accepted[m] <= delivered[m] + Pending(m) + discarded[m]

(* Nothing is answered twice: retries and redeliveries included, each      *)
(* acceptance ends in one prompt, or in one drop, and not in both.         *)
AnsweredOnce ==
  \A m \in Messages : delivered[m] + Pending(m) + discarded[m] <= accepted[m]

(* "Summarize keeps a short bullet list of dropped messages": until a run  *)
(* has shown it, the line of a dropped message stays in a live queue.      *)
DroppedAreKept ==
  \A m \in unreported : \E i \in Queues : Live(i) /\ m \in Elements(queue[i].summaryLines)

(* One collected prompt never mixes messages with different reply targets, *)
(* whatever arrives, overflows or is cleared during the debounce, the runs *)
(* before and the moments between the routing check and the copy, except   *)
(* with messages that arrive in those moments: nothing looks at them.      *)
CollectKeepsRouting ==
  \A i \in Queues : drain[i].at = "running" /\ Len(drain[i].prompt) > 1
    => ~HasCrossChannelItems(Elements(drain[i].prompt) \ late[i])

(* A queued message is answered, dropped or cleared, also when runs fail   *)
(* and when it arrives in the last moments of a run or of a drain.         *)
QueuedIsAnswered ==
  \A m \in Messages : (Pending(m) > 0) ~> (Pending(m) = 0)

(* The summary of dropped messages reaches the agent. *)
SummaryIsDelivered == (unreported # {}) ~> (unreported = {})

=============================================================================
