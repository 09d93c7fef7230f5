---------------------------- MODULE ReentrantLock ----------------------------
(***************************************************************************)
(* What the write lock of a session file promises: a lock that one process *)
(* holds at a time, that this process may enter again, and that may be     *)
(* taken away from it, by its own watchdog or because it ends.             *)
(***************************************************************************)
EXTENDS Naturals

CONSTANT Procs

VARIABLE depth   \* how often each process has entered

Init == depth = [p \in Procs |-> 0]

Enter(p) ==
  /\ \A q \in Procs \ {p} : depth[q] = 0
  /\ depth' = [depth EXCEPT ![p] = @ + 1]

Leave(p) ==
  /\ depth[p] > 0
  /\ depth' = [depth EXCEPT ![p] = @ - 1]

Revoke(p) ==
  /\ depth[p] > 0
  /\ depth' = [depth EXCEPT ![p] = 0]

Next == \E p \in Procs : Enter(p) \/ Leave(p) \/ Revoke(p)

Spec == Init /\ [][Next]_depth
===============================================================================
