--------------------------- MODULE InboundDebounce ---------------------------
(***************************************************************************)
(* The inbound debouncer (src/auto-reply/inbound-debounce.ts): messages of *)
(* one key that arrive in quick succession are handed to onFlush together, *)
(* others at once, and a chain of tasks per key keeps them in order.       *)
(*                                                                         *)
(* A task of a chain is a slot.  The slot of a buffer is taken when its    *)
(* first message arrives, and gets ready when the timer, a message that    *)
(* cannot wait, or flushKey releases it.  Each callback of a promise is a  *)
(* step of its own, and messages may arrive between any two of them.       *)
(***************************************************************************)
EXTENDS Naturals, FiniteSets, SequencesExt

CONSTANTS
  Keys,           \* values of buildKey
  Items,          \* messages
  KeyOf,          \* the key of each message
  MaxTrackedKeys  \* maxTrackedKeys

ASSUME DebounceAssumption ==
  /\ KeyOf \in [Items -> Keys]
  /\ MaxTrackedKeys \in Nat \ {0}

VARIABLES
  arrived,    \* messages passed to enqueue
  chain,      \* the tasks of each key that have not settled
  running,    \* keys whose first task runs onFlush
  buffered,   \* buffers: keys whose last task still takes messages
  keyChains,  \* keys in keyChains
  settled,    \* tasks of each key whose finally is yet to run
  direct,     \* messages that onFlush handles outside a chain
  handed      \* the messages of each key, as onFlush got them

vars == <<arrived, chain, running, buffered, keyChains, settled, direct, handed>>

Slot(items, ready) == [items |-> items, ready |-> ready]

Init ==
  /\ arrived = {}
  /\ chain = [k \in Keys |-> <<>>]
  /\ running = {}
  /\ buffered = {}
  /\ keyChains = {}
  /\ settled = [k \in Keys |-> 0]
  /\ direct = {}
  /\ handed = [k \in Keys |-> <<>>]

-----------------------------------------------------------------------------
(* enqueue *)

IsNew(m) == m \notin arrived /\ arrived' = arrived \cup {m}

(* enqueueKeyTask, of slots that follow the tasks the key has by now.       *)
EnqueueKeyTask(k, tasks) ==
  /\ chain' = [chain EXCEPT ![k] = tasks]
  /\ keyChains' = keyChains \cup {k}

(* releaseBuffer: the last slot of the key is ready, and takes no more.     *)
Released(tasks) == [tasks EXCEPT ![Len(tasks)].ready = TRUE]

(* A message that is not debounced takes a slot behind the buffer, which it *)
(* flushes; its own slot gets ready when that has been handled.             *)
ForceFlush(m) ==
  LET k == KeyOf[m] IN
  /\ k \in buffered
  /\ EnqueueKeyTask(k, Append(Released(chain[k]), Slot(<<m>>, FALSE)))
  /\ buffered' = buffered \ {k}
  /\ UNCHANGED <<direct, handed>>

JoinChain(m) ==
  LET k == KeyOf[m] IN
  /\ k \notin buffered
  /\ k \in keyChains
  /\ EnqueueKeyTask(k, Append(chain[k], Slot(<<m>>, TRUE)))
  /\ UNCHANGED <<buffered, direct, handed>>

RunAtOnce(m) ==
  LET k == KeyOf[m] IN
  /\ k \notin buffered
  /\ k \notin keyChains
  /\ direct' = direct \cup {m}
  /\ handed' = [handed EXCEPT ![k] = Append(@, m)]
  /\ UNCHANGED <<chain, buffered, keyChains>>

Immediate(m) ==
  /\ IsNew(m)
  /\ ForceFlush(m) \/ JoinChain(m) \/ RunAtOnce(m)
  /\ UNCHANGED <<running, settled>>

CanTrackKey(k) == k \in keyChains \/ Cardinality(keyChains) < MaxTrackedKeys

Extend(m) ==
  LET k == KeyOf[m] IN
  /\ k \in buffered
  /\ chain' = [chain EXCEPT ![k][Len(chain[k])].items = Append(@, m)]
  /\ UNCHANGED <<keyChains, buffered>>

Saturated(m) ==
  LET k == KeyOf[m] IN
  /\ k \notin buffered
  /\ ~CanTrackKey(k)
  /\ EnqueueKeyTask(k, Append(chain[k], Slot(<<m>>, TRUE)))
  /\ UNCHANGED buffered

NewBuffer(m) ==
  LET k == KeyOf[m] IN
  /\ k \notin buffered
  /\ CanTrackKey(k)
  /\ EnqueueKeyTask(k, Append(chain[k], Slot(<<m>>, FALSE)))
  /\ buffered' = buffered \cup {k}

Debounced(m) ==
  /\ IsNew(m)
  /\ Extend(m) \/ Saturated(m) \/ NewBuffer(m)
  /\ UNCHANGED <<running, settled, direct, handed>>

-----------------------------------------------------------------------------
(* flushBuffer, by its timer or by a caller of flushKey. *)
Flush(k) ==
  /\ k \in buffered
  /\ chain' = [chain EXCEPT ![k] = Released(@)]
  /\ buffered' = buffered \ {k}
  /\ UNCHANGED <<arrived, running, keyChains, settled, direct, handed>>

(* The forced flush has been awaited: reservedTask.release.                 *)
ReleaseReserved_Never(k) == FALSE   \* bug: release is not called in finally
ReleaseReserved(k) ==
  /\ chain[k] # <<>>
  /\ ~Head(chain[k]).ready
  /\ ~(k \in buffered /\ Len(chain[k]) = 1)
  /\ chain' = [chain EXCEPT ![k][1].ready = TRUE]
  /\ UNCHANGED <<arrived, running, buffered, keyChains, settled, direct, handed>>

(* A task starts when the one before it has settled and it is ready.        *)
Start(k) ==
  /\ k \notin running
  /\ chain[k] # <<>>
  /\ Head(chain[k]).ready
  /\ running' = running \cup {k}
  /\ handed' = [handed EXCEPT ![k] = @ \o Head(chain[k]).items]
  /\ UNCHANGED <<arrived, chain, buffered, keyChains, settled, direct>>

(* onFlush returns, or throws, which runFlush reports and swallows.         *)
End(k) ==
  /\ k \in running
  /\ running' = running \ {k}
  /\ chain' = [chain EXCEPT ![k] = Tail(@)]
  /\ settled' = [settled EXCEPT ![k] = @ + 1]
  /\ UNCHANGED <<arrived, buffered, keyChains, direct, handed>>

EndDirect(m) ==
  /\ m \in direct
  /\ direct' = direct \ {m}
  /\ UNCHANGED <<arrived, chain, running, buffered, keyChains, settled, handed>>

(* settled.finally: the last task takes the key out of keyChains.           *)
Finally_Always(k) ==   \* bug: a later task of the key is not looked for
  /\ settled[k] > 0
  /\ settled' = [settled EXCEPT ![k] = @ - 1]
  /\ keyChains' = keyChains \ {k}
  /\ UNCHANGED <<arrived, chain, running, buffered, direct, handed>>
Finally_NeverLast(k) ==   \* bug: compared with next, which is not what was set
  /\ settled[k] > 0
  /\ settled' = [settled EXCEPT ![k] = @ - 1]
  /\ UNCHANGED <<arrived, chain, running, buffered, keyChains, direct, handed>>
Finally(k) ==
  /\ settled[k] > 0
  /\ settled' = [settled EXCEPT ![k] = @ - 1]
  /\ keyChains' = IF settled[k] = 1 /\ chain[k] = <<>> THEN keyChains \ {k} ELSE keyChains
  /\ UNCHANGED <<arrived, chain, running, buffered, direct, handed>>

Callbacks(k) == Flush(k) \/ ReleaseReserved(k) \/ Start(k) \/ End(k) \/ Finally(k)

Next ==
  \/ \E m \in Items : Immediate(m) \/ Debounced(m) \/ EndDirect(m)
  \/ \E k \in Keys : Callbacks(k)

(* Timers fire, callbacks run, and onFlush returns: it has no deadline of   *)
(* its own, and a handler that never returned would hold up its key.        *)
Fairness ==
  \A k \in Keys :
    /\ WF_vars(Flush(k))
    /\ WF_vars(ReleaseReserved(k))
    /\ WF_vars(Start(k))
    /\ WF_vars(End(k))
    /\ WF_vars(Finally(k))

Spec == Init /\ [][Next]_vars /\ Fairness

-----------------------------------------------------------------------------
(* Per key, messages reach onFlush in the order in which they arrived, each *)
(* once: neither a message that skips the debounce, nor a saturated table,  *)
(* nor a chain that is just being taken down lets one overtake another.     *)
StillWaiting(k) ==
  FlattenSeq([i \in 1..(Len(chain[k]) - (IF k \in running THEN 1 ELSE 0)) |->
                chain[k][i + (IF k \in running THEN 1 ELSE 0)].items])
Fifo == INSTANCE KeyedFifo WITH waiting <- [k \in Keys |-> StillWaiting(k)]
IsKeyedFifo == Fifo!Spec

(* No message stays behind: each that was enqueued is handed to onFlush.    *)
EveryItemIsHanded ==
  \A m \in Items : (m \in arrived) ~> (\E i \in 1..Len(handed[KeyOf[m]]) : handed[KeyOf[m]][i] = m)

(* An idle debouncer tracks nothing: keys do not pile up in keyChains and   *)
(* use up maxTrackedKeys.                                                   *)
IdleTracksNothing == <>[](keyChains = {})
===============================================================================
