------------------------------ MODULE KeyedFifo ------------------------------
(***************************************************************************)
(* What the inbound debouncer promises of each key (a conversation): the   *)
(* messages of a key are handed over in the order in which they arrived,   *)
(* each once, and one or several at a time.                                *)
(***************************************************************************)
EXTENDS Naturals, Sequences

CONSTANTS Keys, Items, KeyOf

VARIABLES
  waiting,   \* the messages of each key that have arrived
  handed     \* the messages of each key that were handed over

Init ==
  /\ waiting = [k \in Keys |-> <<>>]
  /\ handed = [k \in Keys |-> <<>>]

Arrive(m) ==
  /\ waiting' = [waiting EXCEPT ![KeyOf[m]] = Append(@, m)]
  /\ UNCHANGED handed

(* A message that need not wait may pass only when no other one waits.     *)
Pass(m) ==
  /\ waiting[KeyOf[m]] = <<>>
  /\ handed' = [handed EXCEPT ![KeyOf[m]] = Append(@, m)]
  /\ UNCHANGED waiting

HandOver(k) ==
  \E n \in 1..Len(waiting[k]) :
    /\ handed' = [handed EXCEPT ![k] = @ \o SubSeq(waiting[k], 1, n)]
    /\ waiting' = [waiting EXCEPT ![k] = SubSeq(@, n + 1, Len(@))]

Next ==
  \/ \E m \in Items : Arrive(m) \/ Pass(m)
  \/ \E k \in Keys : HandOver(k)

Spec == Init /\ [][Next]_<<waiting, handed>>
===============================================================================
