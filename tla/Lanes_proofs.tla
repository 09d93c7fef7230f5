---------------------------- MODULE Lanes_proofs ----------------------------
(***************************************************************************)
(* Proofs about the lanes, for any lanes, calls, caps and number of        *)
(* restarts: the command queue, and its two users, the run loop of the     *)
(* gateway and the nested runs.                                            *)
(*                                                                         *)
(* Every action that pumps ends in DrainLanes, so the heart of the proofs  *)
(* about the queue is DrainStep: pumping the lanes of L from an            *)
(* intermediate state that satisfies the invariant, except that lanes of L *)
(* may hold work they have room for, restores the whole invariant.         *)
(*                                                                         *)
(* Both users touch the queue only through its operations, so its theorems *)
(* hold under them.  A drain reported complete is complete, and, when      *)
(* signals do not arrive while start() is pending, a serving gateway       *)
(* accepts work.  The lane of a session lets one of its runs through at a  *)
(* time.                                                                   *)
(***************************************************************************)
EXTENDS GatewayRestart, RunLanes, FiniteSetTheorems, SequenceTheorems, TLAPS

(***************************************************************************)
(* The command queue.                                                      *)
(***************************************************************************)
(* The parts of the invariant, of a state that need not be the present one. *)
QueueMatches(q, s) ==
  /\ \A l \in Lanes : \A i \in 1..Len(q[l]) :
       /\ s[q[l][i]] = "queued"
       /\ LaneOf[q[l][i]] = l
       /\ \A j \in 1..Len(q[l]) : q[l][i] = q[l][j] => i = j
  /\ \A t \in Tasks : s[t] = "queued" =>
       \E i \in 1..Len(q[LaneOf[t]]) : q[LaneOf[t]][i] = t

ActiveMatches(a, g, s) ==
  /\ \A l \in Lanes :
       a[l] = {t \in InLane(l) : s[t] = "running" /\ taskGeneration[t] = g[l]}
  /\ \A t \in Tasks : s[t] = "running" => taskGeneration[t] <= g[LaneOf[t]]

AtCap(l, q, a, m) == q[l] # <<>> => Cardinality(a[l]) >= m[l]

StateType(q, a, m, g, s) ==
  /\ q \in [Lanes -> Seq(Tasks)]
  /\ a \in [Lanes -> SUBSET Tasks]
  /\ m \in [Lanes -> Nat \ {0}]
  /\ g \in [Lanes -> Nat]
  /\ s \in [Tasks -> Statuses]

(* A running body was started in the present generation or an earlier one: *)
(* without it a reset could bring a stale body back among the counted ones. *)
NoFutureGeneration ==
  \A t \in Tasks : status[t] = "running" => taskGeneration[t] <= generation[LaneOf[t]]

(* The inductive invariant. *)
IInv ==
  /\ TypeOK
  /\ QueuedExactlyOnce
  /\ SlotsMatchRunning
  /\ NoFutureGeneration
  /\ NoStrandedWork

-----------------------------------------------------------------------------
(* How many entries the pump loop starts.                                  *)
LEMMA PumpCountFacts ==
  ASSUME NEW q \in Seq(Tasks), NEW active \in SUBSET Tasks, NEW cap \in Nat \ {0}
  PROVE  /\ Cardinality(active) \in Nat
         /\ PumpCount(q, active, cap) \in 0..Len(q)
         /\ PumpCount(q, active, cap) < Len(q) =>
              Cardinality(active) + PumpCount(q, active, cap) >= cap
         /\ PumpCount(q, active, cap) > 0 =>
              Cardinality(active) + PumpCount(q, active, cap) <= cap
<1>1. Cardinality(active) \in Nat
  BY ConstantsAssumption, FS_Subset, FS_CardinalityType
<1>2. Len(q) \in Nat
  BY LenProperties
<1> QED BY <1>1, <1>2 DEF PumpCount

(* What is left in the queue is the queue without its first entries.       *)
LEMMA RemainingFacts ==
  ASSUME NEW q \in Seq(Tasks), NEW active \in SUBSET Tasks, NEW cap \in Nat \ {0}
  PROVE  /\ Remaining(q, active, cap) \in Seq(Tasks)
         /\ Len(Remaining(q, active, cap)) = Len(q) - PumpCount(q, active, cap)
         /\ \A i \in 1..Len(Remaining(q, active, cap)) :
              Remaining(q, active, cap)[i] = q[i + PumpCount(q, active, cap)]
<1> DEFINE n == PumpCount(q, active, cap)
<1>1. n \in 0..Len(q) /\ Len(q) \in Nat
  BY PumpCountFacts, LenProperties
<1>2. \A i \in (n + 1)..Len(q) : q[i] \in Tasks
  BY <1>1, ElementOfSeq
<1>3. /\ SubSeq(q, n + 1, Len(q)) \in Seq(Tasks)
      /\ Len(SubSeq(q, n + 1, Len(q))) = Len(q) - n
      /\ \A i \in 1..(Len(q) - n) : SubSeq(q, n + 1, Len(q))[i] = q[i + n]
  BY <1>1, <1>2
<1> QED BY <1>1, <1>3 DEF Remaining

(* The entries the pump starts are distinct calls, so a lane gains as many *)
(* slots in use as the loop ran iterations.                                *)
LEMMA StartedCardinality ==
  ASSUME NEW q \in Seq(Tasks), NEW active \in SUBSET Tasks, NEW cap \in Nat \ {0},
         \A i, j \in 1..Len(q) : q[i] = q[j] => i = j,
         \A i \in 1..Len(q) : q[i] \notin active
  PROVE  /\ Started(q, active, cap) \in SUBSET Tasks
         /\ Cardinality(active \cup Started(q, active, cap)) =
              Cardinality(active) + PumpCount(q, active, cap)
<1> DEFINE n == PumpCount(q, active, cap)
           S == Started(q, active, cap)
           f == [i \in 1..n |-> q[i]]
<1>1. n \in 0..Len(q) /\ Len(q) \in Nat
  BY PumpCountFacts, LenProperties
<1>2. S \in SUBSET Tasks
  BY <1>1, ElementOfSeq DEF Started
<1>3. f \in Bijection(1..n, S)
  BY <1>1 DEF Started, Bijection, Injection, Surjection, IsInjective
<1>4. IsFiniteSet(1..n) /\ Cardinality(1..n) = n
  BY <1>1, FS_Interval
<1>5. IsFiniteSet(S) /\ Cardinality(S) = n
  BY <1>3, <1>4, FS_Bijection DEF ExistsBijection
<1>6. IsFiniteSet(active) /\ Cardinality(active) \in Nat
  BY ConstantsAssumption, FS_Subset, FS_CardinalityType
<1>7. active \cap S = {}
  BY <1>1 DEF Started
<1>8. Cardinality(active \cap S) = 0
  BY <1>7, FS_EmptySet
<1>9. Cardinality(active \cup S) = Cardinality(active) + Cardinality(S)
                                     - Cardinality(active \cap S)
  BY <1>5, <1>6, FS_Union
<1> QED BY <1>1, <1>2, <1>5, <1>6, <1>8, <1>9

(* What DrainLanes makes of one lane: its first n entries are started.     *)
Pumped(l, n, L, q, a, m, g, s) ==
  /\ queue'[l] \in Seq(Tasks)
  /\ Len(queue'[l]) = Len(q[l]) - n
  /\ \A i \in 1..Len(queue'[l]) : queue'[l][i] = q[l][i + n]
  /\ activeTaskIds'[l] = a[l] \cup {q[l][i] : i \in 1..n}
  /\ l \notin L => n = 0
  /\ l \in L => AtCap(l, queue', activeTaskIds', maxConcurrent')
  /\ n > 0 => Cardinality(activeTaskIds'[l]) <= m[l]
  /\ \A t \in InLane(l) :
       IF t \in {q[l][i] : i \in 1..n}
       THEN status'[t] = "running" /\ taskGeneration'[t] = g[l]
       ELSE status'[t] = s[t] /\ taskGeneration'[t] = taskGeneration[t]

LEMMA DrainLane ==
  ASSUME NEW q, NEW a, NEW m, NEW g, NEW s, StateType(q, a, m, g, s),
         NEW L \in SUBSET Lanes, taskGeneration \in [Tasks -> Nat],
         QueueMatches(q, s), ActiveMatches(a, g, s),
         DrainLanes(L, q, a, m, g, s),
         NEW l \in Lanes
  PROVE  \E n \in 0..Len(q[l]) : Pumped(l, n, L, q, a, m, g, s)
<1>1. /\ q[l] \in Seq(Tasks) /\ a[l] \in SUBSET Tasks /\ m[l] \in Nat \ {0}
      /\ Len(q[l]) \in Nat
  BY LenProperties DEF StateType
<1>2. /\ \A i, j \in 1..Len(q[l]) : q[l][i] = q[l][j] => i = j
      /\ \A i \in 1..Len(q[l]) : q[l][i] \notin a[l]
  BY DEF QueueMatches, ActiveMatches
<1>3. maxConcurrent' = m
  BY DEF DrainLanes
<1>4. CASE l \in L
  <2> DEFINE n == PumpCount(q[l], a[l], m[l])
  <2>1. n \in 0..Len(q[l])
    BY <1>1, PumpCountFacts
  <2>2. /\ queue'[l] = Remaining(q[l], a[l], m[l])
        /\ activeTaskIds'[l] = a[l] \cup Started(q[l], a[l], m[l])
    BY <1>4 DEF DrainLanes
  <2>3. /\ queue'[l] \in Seq(Tasks)
        /\ Len(queue'[l]) = Len(q[l]) - n
        /\ \A i \in 1..Len(queue'[l]) : queue'[l][i] = q[l][i + n]
    BY <1>1, <2>2, RemainingFacts
  <2>4. Cardinality(activeTaskIds'[l]) = Cardinality(a[l]) + n
    BY <1>1, <1>2, <2>2, StartedCardinality
  <2>5. AtCap(l, queue', activeTaskIds', maxConcurrent')
    <3>1. ASSUME queue'[l] # <<>> PROVE n < Len(q[l])
      BY <1>1, <2>1, <2>3, <3>1, EmptySeq
    <3> QED BY <1>1, <1>3, <2>4, <3>1, PumpCountFacts DEF AtCap
  <2>6. n > 0 => Cardinality(activeTaskIds'[l]) <= m[l]
    BY <1>1, <2>4, PumpCountFacts
  <2>7. \A t \in InLane(l) :
          IF t \in {q[l][i] : i \in 1..n}
          THEN status'[t] = "running" /\ taskGeneration'[t] = g[l]
          ELSE status'[t] = s[t] /\ taskGeneration'[t] = taskGeneration[t]
    BY <1>4 DEF DrainLanes, InLane, Started
  <2> QED BY <1>4, <2>1, <2>2, <2>3, <2>5, <2>6, <2>7 DEF Started, Pumped
<1>5. CASE l \notin L
  <2>1. /\ queue'[l] = q[l]
        /\ activeTaskIds'[l] = a[l]
        /\ \A t \in InLane(l) : status'[t] = s[t] /\ taskGeneration'[t] = taskGeneration[t]
    BY <1>5 DEF DrainLanes, InLane
  <2>2. {q[l][i] : i \in 1..0} = {}
    OBVIOUS
  <2>3. 0 \in 0..Len(q[l])
    BY <1>1
  <2>4. \A i \in 1..Len(q[l]) : q[l][i + 0] = q[l][i]
    BY <1>1
  <2> QED BY <1>1, <1>5, <2>1, <2>2, <2>3, <2>4 DEF Pumped
<1> QED BY <1>4, <1>5

(* Pumping restores the invariant, within the cap and in the lane's order. *)
LEMMA DrainStep ==
  ASSUME NEW q, NEW a, NEW m, NEW g, NEW s, StateType(q, a, m, g, s),
         NEW L \in SUBSET Lanes, taskGeneration \in [Tasks -> Nat],
         QueueMatches(q, s), ActiveMatches(a, g, s),
         \A l \in Lanes \ L : AtCap(l, q, a, m),
         \A l \in Lanes : a[l] \subseteq activeTaskIds[l],
         \A l \in Lanes : \A i \in 1..Len(queue[l]) :
           i \in 1..Len(q[l]) /\ q[l][i] = queue[l][i],
         DrainLanes(L, q, a, m, g, s),
         gatewayDraining' \in BOOLEAN
  PROVE  IInv' /\ CapStep /\ FifoStep
<1>1. /\ maxConcurrent' = m /\ generation' = g
      /\ queue' = [l \in Lanes |-> queue'[l]]
      /\ activeTaskIds' = [l \in Lanes |-> activeTaskIds'[l]]
      /\ status' = [t \in Tasks |-> status'[t]]
      /\ taskGeneration' = [t \in Tasks |-> taskGeneration'[t]]
  BY DEF DrainLanes
<1>2. /\ \A t \in Tasks : LaneOf[t] \in Lanes /\ t \in InLane(LaneOf[t])
      /\ \A l \in Lanes : q[l] \in Seq(Tasks) /\ Len(q[l]) \in Nat
      /\ \A l \in Lanes : \A i \in 1..Len(q[l]) : q[l][i] \in InLane(l)
  BY ConstantsAssumption, LenProperties, ElementOfSeq DEF InLane, StateType, QueueMatches
<1>3. TypeOK'
  <2>1. \A l \in Lanes : queue'[l] \in Seq(Tasks)
    BY DrainLane DEF Pumped
  <2>2. \A l \in Lanes : activeTaskIds'[l] \in SUBSET Tasks
    <3>1. \A l \in Lanes : \A i \in 1..Len(q[l]) : q[l][i] \in Tasks
      BY <1>2 DEF InLane
    <3>2. SUFFICES ASSUME NEW l \in Lanes PROVE activeTaskIds'[l] \in SUBSET Tasks
      OBVIOUS
    <3>3. PICK n \in 0..Len(q[l]) : Pumped(l, n, L, q, a, m, g, s)
      BY DrainLane
    <3>4. 1..n \subseteq 1..Len(q[l])
      BY <1>2
    <3> QED BY <3>1, <3>3, <3>4 DEF StateType, Pumped
  <2>3. \A t \in Tasks : status'[t] \in Statuses /\ taskGeneration'[t] \in Nat
    BY <1>2 DEF DrainLanes, StateType, Statuses
  <2> QED BY <1>1, <2>1, <2>2, <2>3 DEF TypeOK, StateType
<1>4. QueuedExactlyOnce'
  <2>1. ASSUME NEW l \in Lanes, NEW i \in 1..Len(queue'[l])
        PROVE  /\ status'[queue'[l][i]] = "queued"
               /\ LaneOf[queue'[l][i]] = l
               /\ \A j \in 1..Len(queue'[l]) : queue'[l][i] = queue'[l][j] => i = j
    <3>1. PICK n \in 0..Len(q[l]) : Pumped(l, n, L, q, a, m, g, s)
      BY DrainLane
    <3>2. n \in Nat /\ n <= Len(q[l]) /\ i + n \in 1..Len(q[l]) /\ i + n > n
      BY <1>2, <3>1 DEF Pumped
    <3>3. queue'[l][i] = q[l][i + n] /\ q[l][i + n] \in InLane(l)
      BY <1>2, <3>1, <3>2 DEF Pumped
    <3>4. \A k \in 1..n : k \in 1..Len(q[l]) /\ k # i + n
      BY <1>2, <3>2
    <3>5. q[l][i + n] \notin {q[l][k] : k \in 1..n}
      BY <3>2, <3>4 DEF QueueMatches
    <3>6. status'[queue'[l][i]] = s[q[l][i + n]]
      <4>1. \A t \in InLane(l) : t \notin {q[l][k] : k \in 1..n} => status'[t] = s[t]
        BY <3>1 DEF Pumped
      <4> QED BY <3>3, <3>5, <4>1
    <3>7. ASSUME NEW j \in 1..Len(queue'[l]), queue'[l][i] = queue'[l][j] PROVE i = j
      <4>1. j + n \in 1..Len(q[l]) /\ q[l][i + n] = q[l][j + n]
        BY <1>2, <3>1, <3>2, <3>7 DEF Pumped
      <4> QED BY <3>2, <4>1 DEF QueueMatches
    <3> QED BY <3>2, <3>3, <3>6, <3>7 DEF QueueMatches
  <2>2. ASSUME NEW t \in Tasks, status'[t] = "queued"
        PROVE  \E i \in 1..Len(queue'[LaneOf[t]]) : queue'[LaneOf[t]][i] = t
    <3> DEFINE l == LaneOf[t]
    <3>1. l \in Lanes /\ t \in InLane(l)
      BY <1>2
    <3>2. PICK n \in 0..Len(q[l]) : Pumped(l, n, L, q, a, m, g, s)
      BY <3>1, DrainLane
    <3>3. t \notin {q[l][k] : k \in 1..n} /\ s[t] = "queued"
      BY <2>2, <3>1, <3>2 DEF Pumped
    <3>4. PICK k \in 1..Len(q[l]) : q[l][k] = t
      BY <3>3 DEF QueueMatches
    <3>5. k \notin 1..n /\ n \in Nat /\ Len(q[l]) \in Nat
      BY <1>2, <3>1, <3>3, <3>4
    <3>6. k - n \in 1..Len(queue'[l]) /\ (k - n) + n = k
      BY <3>2, <3>5 DEF Pumped
    <3>7. queue'[l][k - n] = q[l][(k - n) + n]
      BY <3>2, <3>6 DEF Pumped
    <3> QED BY <3>4, <3>6, <3>7
  <2> QED BY <2>1, <2>2 DEF QueuedExactlyOnce
<1>5. SlotsMatchRunning' /\ NoFutureGeneration'
  <2>1. ASSUME NEW l \in Lanes
        PROVE  /\ activeTaskIds'[l] = {t \in InLane(l) : /\ status'[t] = "running"
                                                         /\ taskGeneration'[t] = g[l]}
               /\ \A t \in InLane(l) : status'[t] = "running" => taskGeneration'[t] <= g[l]
    <3>1. PICK n \in 0..Len(q[l]) : Pumped(l, n, L, q, a, m, g, s)
      BY DrainLane
    <3>2. \A i \in 1..n : q[l][i] \in InLane(l)
      BY <1>2, <3>1
    <3>3. a[l] = {t \in InLane(l) : s[t] = "running" /\ taskGeneration[t] = g[l]}
      BY DEF ActiveMatches
    <3>4. g[l] \in Nat
      BY DEF StateType
    <3>5. \A t \in InLane(l) : s[t] = "running" => taskGeneration[t] <= g[l]
      BY DEF ActiveMatches, InLane
    <3> DEFINE first == {q[l][i] : i \in 1..n}
    <3>6. \A t \in InLane(l) :
            /\ t \in first => status'[t] = "running" /\ taskGeneration'[t] = g[l]
            /\ t \notin first => status'[t] = s[t] /\ taskGeneration'[t] = taskGeneration[t]
      BY <3>1 DEF Pumped
    <3>7. activeTaskIds'[l] = a[l] \cup first /\ first \subseteq InLane(l)
      BY <3>1, <3>2 DEF Pumped
    <3> HIDE DEF first
    <3>8. \A t \in InLane(l) : status'[t] = "running" => taskGeneration'[t] <= g[l]
      BY <3>4, <3>5, <3>6
    <3>9. \A t : t \in activeTaskIds'[l] <=>
                 /\ t \in InLane(l)
                 /\ status'[t] = "running" /\ taskGeneration'[t] = g[l]
      BY <3>3, <3>6, <3>7
    <3> QED BY <3>8, <3>9
  <2> QED BY <1>1, <1>2, <2>1 DEF SlotsMatchRunning, NoFutureGeneration, InLane
<1>6. NoStrandedWork'
  <2>1. ASSUME NEW l \in Lanes PROVE AtCap(l, queue', activeTaskIds', maxConcurrent')
    <3>1. CASE l \in L
      BY <3>1, DrainLane DEF Pumped
    <3>2. CASE l \notin L
      BY <1>1, <3>2 DEF AtCap, DrainLanes
    <3> QED BY <3>1, <3>2
  <2> QED BY <2>1 DEF NoStrandedWork, AtCap
<1>7. CapStep
  <2>1. ASSUME NEW l \in Lanes, ~(activeTaskIds'[l] \subseteq activeTaskIds[l])
        PROVE  Cardinality(activeTaskIds'[l]) <= maxConcurrent'[l]
    <3>1. PICK n \in 0..Len(q[l]) : Pumped(l, n, L, q, a, m, g, s)
      BY DrainLane
    <3>2. CASE n = 0
      <4>1. {q[l][i] : i \in 1..n} = {}
        BY <3>2
      <4> QED BY <2>1, <3>1, <4>1 DEF Pumped
    <3>3. CASE n > 0
      BY <1>1, <3>1, <3>3 DEF Pumped
    <3>4. n \in Nat
      BY <1>2
    <3> QED BY <3>2, <3>3, <3>4
  <2> QED BY <2>1 DEF CapStep
<1>8. FifoStep
  <2>1. ASSUME NEW l \in Lanes, NEW i \in 1..Len(queue[l]), NEW j \in 1..Len(queue[l]),
               i < j, status'[queue[l][j]] = "running"
        PROVE  status'[queue[l][i]] # "queued"
    <3>1. PICK n \in 0..Len(q[l]) : Pumped(l, n, L, q, a, m, g, s)
      BY DrainLane
    <3>2. /\ i \in 1..Len(q[l]) /\ j \in 1..Len(q[l]) /\ n \in Nat /\ Len(q[l]) \in Nat
          /\ queue[l][i] = q[l][i] /\ queue[l][j] = q[l][j]
          /\ q[l][i] \in InLane(l) /\ q[l][j] \in InLane(l)
      BY <1>2
    <3>3. s[q[l][j]] = "queued"
      BY <3>2 DEF QueueMatches
    <3>4. \A t \in InLane(l) :
            /\ t \in {q[l][k] : k \in 1..n} => status'[t] = "running"
            /\ t \notin {q[l][k] : k \in 1..n} => status'[t] = s[t]
      BY <3>1 DEF Pumped
    <3>5. PICK k \in 1..n : q[l][k] = q[l][j]
      BY <2>1, <3>2, <3>3, <3>4
    <3>6. k \in 1..Len(q[l])
      BY <3>2
    <3>7. k = j
      BY <3>2, <3>5, <3>6 DEF QueueMatches
    <3>8. i \in 1..n
      BY <2>1, <3>2, <3>5, <3>7
    <3> QED BY <3>2, <3>4, <3>8
  <2> QED BY <2>1 DEF FifoStep
<1> QED BY <1>3, <1>4, <1>5, <1>6, <1>7, <1>8 DEF IInv

-----------------------------------------------------------------------------
(* The steps that do not pump, and stuttering, from any state.             *)
LEMMA SameLanes ==
  IInv /\ UNCHANGED laneVars => IInv'
BY DEF IInv, TypeOK, QueuedExactlyOnce, SlotsMatchRunning, NoFutureGeneration,
       NoStrandedWork, InLane, laneVars

(* The present state is an intermediate state of a pump.                   *)
LEMMA InvParts ==
  ASSUME IInv
  PROVE  /\ StateType(queue, activeTaskIds, maxConcurrent, generation, status)
         /\ taskGeneration \in [Tasks -> Nat] /\ gatewayDraining \in BOOLEAN
         /\ QueueMatches(queue, status)
         /\ ActiveMatches(activeTaskIds, generation, status)
         /\ \A l \in Lanes : AtCap(l, queue, activeTaskIds, maxConcurrent)
BY DEF IInv, TypeOK, QueuedExactlyOnce, SlotsMatchRunning, NoFutureGeneration,
       NoStrandedWork, StateType, QueueMatches, ActiveMatches, AtCap

LEMMA EnqueueStep ==
  ASSUME IInv, NEW t \in Tasks, EnqueueCommandInLane(t)
  PROVE  IInv' /\ CapStep /\ FifoStep
<1> DEFINE l == LaneOf[t]
           q == [queue EXCEPT ![l] = Append(@, t)]
           s == [status EXCEPT ![t] = "queued"]
<1>1. l \in Lanes /\ queue \in [Lanes -> Seq(Tasks)] /\ status \in [Tasks -> Statuses]
  BY ConstantsAssumption, InvParts DEF StateType
<1>2. /\ q \in [Lanes -> Seq(Tasks)]
      /\ Len(queue[l]) \in Nat /\ Len(q[l]) = Len(queue[l]) + 1
      /\ \A i \in 1..Len(queue[l]) : q[l][i] = queue[l][i]
      /\ q[l][Len(queue[l]) + 1] = t
      /\ \A k \in Lanes \ {l} : q[k] = queue[k]
  BY <1>1, AppendProperties, LenProperties
<1>3. StateType(q, activeTaskIds, maxConcurrent, generation, s)
  BY <1>1, <1>2, InvParts DEF StateType, Statuses
<1>4. QueueMatches(q, s)
  <2>1. \A k \in Lanes : \A i \in 1..Len(queue[k]) : queue[k][i] # t
    BY InvParts DEF QueueMatches, EnqueueCommandInLane
  <2>2. \A i \in 1..Len(q[l]) : i \in 1..Len(queue[l]) \/ i = Len(queue[l]) + 1
    BY <1>2
  <2>3. /\ s[t] = "queued" /\ \A u \in Tasks \ {t} : s[u] = status[u]
        /\ \A k \in Lanes : \A i \in 1..Len(queue[k]) : queue[k][i] \in Tasks \ {t}
    BY <1>1, <2>1, ElementOfSeq
  <2>4. Len(queue[l]) + 1 \in 1..Len(q[l]) /\ \A i \in 1..Len(queue[l]) : i \in 1..Len(q[l])
    BY <1>2
  <2>5. ASSUME NEW k \in Lanes, NEW i \in 1..Len(q[k])
        PROVE  /\ s[q[k][i]] = "queued"
               /\ LaneOf[q[k][i]] = k
               /\ \A j \in 1..Len(q[k]) : q[k][i] = q[k][j] => i = j
    <3>1. CASE k = l
      BY <1>2, <2>1, <2>2, <2>3, <2>5, <3>1, InvParts DEF QueueMatches
    <3>2. CASE k # l
      BY <1>2, <2>3, <2>5, <3>2, InvParts DEF QueueMatches
    <3> QED BY <3>1, <3>2
  <2>6. ASSUME NEW u \in Tasks, s[u] = "queued"
        PROVE  \E i \in 1..Len(q[LaneOf[u]]) : q[LaneOf[u]][i] = u
    <3>1. CASE u = t
      BY <1>2, <2>4, <3>1
    <3>2. CASE u # t
      <4>1. PICK i \in 1..Len(queue[LaneOf[u]]) : queue[LaneOf[u]][i] = u
        BY <2>3, <2>6, <3>2, InvParts DEF QueueMatches
      <4>2. LaneOf[u] \in Lanes
        BY ConstantsAssumption
      <4> QED BY <1>2, <2>4, <4>1, <4>2
    <3> QED BY <3>1, <3>2
  <2> QED BY <2>5, <2>6 DEF QueueMatches
<1>5. ActiveMatches(activeTaskIds, generation, s)
  BY <1>1, InvParts DEF ActiveMatches, EnqueueCommandInLane, InLane
<1>6. \A k \in Lanes \ {l} : AtCap(k, q, activeTaskIds, maxConcurrent)
  BY <1>2, InvParts DEF AtCap
<1>7. /\ DrainLanes({l}, q, activeTaskIds, maxConcurrent, generation, s)
      /\ gatewayDraining' \in BOOLEAN
  BY InvParts DEF EnqueueCommandInLane
<1>8. \A k \in Lanes : \A i \in 1..Len(queue[k]) : i \in 1..Len(q[k]) /\ q[k][i] = queue[k][i]
  BY <1>2
<1> HIDE DEF q, s
<1> QED BY <1>1, <1>3, <1>4, <1>5, <1>6, <1>7, <1>8, InvParts, DrainStep

LEMMA SettleStep ==
  ASSUME IInv, NEW t \in Tasks, NEW o \in {"resolved", "rejected"}, Settle(t, o)
  PROVE  IInv' /\ CapStep /\ FifoStep
<1> DEFINE l == LaneOf[t]
           a == [activeTaskIds EXCEPT ![l] = @ \ {t}]
           s == [status EXCEPT ![t] = o]
<1>1. l \in Lanes /\ status \in [Tasks -> Statuses] /\ status[t] = "running"
  BY ConstantsAssumption, InvParts DEF StateType, Settle, SettleCurrent, SettleStale
<1>2. s[t] = o /\ \A u \in Tasks \ {t} : s[u] = status[u]
  BY <1>1
<1>3. o \notin {"idle", "queued", "running"} /\ s \in [Tasks -> Statuses]
  BY <1>1 DEF Statuses
<1>4. QueueMatches(queue, s)
  <2>1. \A k \in Lanes : \A i \in 1..Len(queue[k]) : queue[k][i] \in Tasks \ {t}
    BY <1>1, InvParts, ElementOfSeq DEF QueueMatches, StateType
  <2> QED BY <1>2, <1>3, <2>1, InvParts DEF QueueMatches
<1>5. CASE SettleCurrent(t, o)
  <2>1. a[l] = activeTaskIds[l] \ {t} /\ \A k \in Lanes \ {l} : a[k] = activeTaskIds[k]
    BY <1>1, InvParts DEF StateType
  <2>2. StateType(queue, a, maxConcurrent, generation, s)
    BY <1>1, <1>3, InvParts DEF StateType
  <2>3. ActiveMatches(a, generation, s)
    <3>1. ASSUME NEW k \in Lanes
          PROVE  a[k] = {u \in InLane(k) : s[u] = "running" /\ taskGeneration[u] = generation[k]}
      <4>1. \A u \in InLane(k) : u \in Tasks /\ LaneOf[u] = k
        BY DEF InLane
      <4>2. activeTaskIds[k] = {u \in InLane(k) : status[u] = "running" /\ taskGeneration[u] = generation[k]}
        BY InvParts DEF ActiveMatches
      <4>3. a[k] = activeTaskIds[k] \ {t}
        BY <2>1, <4>1, <4>2
      <4> HIDE DEF a, s
      <4> QED BY <1>2, <1>3, <4>1, <4>2, <4>3
    <3>2. \A u \in Tasks : s[u] = "running" => taskGeneration[u] <= generation[LaneOf[u]]
      BY <1>2, <1>3, InvParts DEF ActiveMatches
    <3> QED BY <3>1, <3>2 DEF ActiveMatches
  <2>4. \A k \in Lanes \ {l} : AtCap(k, queue, a, maxConcurrent)
    BY <2>1, InvParts DEF AtCap
  <2>5. /\ DrainLanes({l}, queue, a, maxConcurrent, generation, s)
        /\ gatewayDraining' \in BOOLEAN
    BY <1>5, InvParts DEF SettleCurrent
  <2>6. \A k \in Lanes : a[k] \subseteq activeTaskIds[k]
    BY <2>1
  <2> HIDE DEF a, s
  <2> QED BY <1>1, <1>4, <2>2, <2>3, <2>4, <2>5, <2>6, InvParts, DrainStep
<1>6. CASE SettleStale(t, o)
  <2>1. /\ UNCHANGED <<queue, activeTaskIds, maxConcurrent, generation,
                       gatewayDraining, taskGeneration>>
        /\ status' = s /\ taskGeneration[t] # generation[LaneOf[t]]
    BY <1>6 DEF SettleStale
  <2>2. TypeOK'
    BY <1>3, <2>1 DEF IInv, TypeOK
  <2>3. QueuedExactlyOnce'
    BY <1>4, <2>1 DEF QueueMatches, QueuedExactlyOnce
  <2>4. SlotsMatchRunning'
    BY <1>1, <1>2, <1>3, <2>1 DEF IInv, SlotsMatchRunning, InLane
  <2>5. NoFutureGeneration'
    BY <1>2, <1>3, <2>1 DEF IInv, NoFutureGeneration
  <2>6. NoStrandedWork'
    BY <2>1 DEF IInv, NoStrandedWork
  <2>7. \A k \in Lanes : \A i \in 1..Len(queue[k]) : status[queue[k][i]] = "queued"
    BY DEF IInv, QueuedExactlyOnce
  <2>8. FifoStep
    <3>1. \A k \in Lanes : \A i \in 1..Len(queue[k]) :
            queue[k][i] \in Tasks \ {t} /\ status'[queue[k][i]] = "queued"
      BY <1>1, <1>2, <2>1, <2>7, ElementOfSeq DEF IInv, TypeOK
    <3> QED BY <3>1 DEF FifoStep
  <2> QED BY <2>1, <2>2, <2>3, <2>4, <2>5, <2>6, <2>8 DEF IInv, CapStep
<1> QED BY <1>5, <1>6 DEF Settle

LEMMA SetConcurrencyStep ==
  ASSUME IInv, NEW l \in Lanes, NEW n \in ConcurrencyInputs, SetCommandLaneConcurrency(l, n)
  PROVE  IInv' /\ CapStep /\ FifoStep
<1> DEFINE m == [maxConcurrent EXCEPT ![l] = CapOf(n)]
<1>1. CapOf(n) \in Nat \ {0}
  BY ConstantsAssumption DEF CapOf
<1>2. StateType(queue, activeTaskIds, m, generation, status)
  BY <1>1, InvParts DEF StateType
<1>3. \A k \in Lanes \ {l} : AtCap(k, queue, activeTaskIds, m)
  BY InvParts DEF AtCap, StateType
<1>4. /\ DrainLanes({l}, queue, activeTaskIds, m, generation, status)
      /\ gatewayDraining' \in BOOLEAN
  BY InvParts DEF SetCommandLaneConcurrency
<1> HIDE DEF m
<1> QED BY <1>2, <1>3, <1>4, InvParts, DrainStep

LEMMA ClearStep ==
  ASSUME IInv, NEW l \in Lanes, ClearCommandLane(l)
  PROVE  IInv' /\ CapStep /\ FifoStep
<1>1. /\ queue' = [queue EXCEPT ![l] = <<>>]
      /\ status' = [t \in Tasks |-> IF LaneOf[t] = l /\ status[t] = "queued"
                                    THEN "cleared" ELSE status[t]]
      /\ UNCHANGED <<activeTaskIds, maxConcurrent, generation, gatewayDraining, taskGeneration>>
  BY DEF ClearCommandLane
<1>2. queue'[l] = <<>> /\ \A k \in Lanes \ {l} : queue'[k] = queue[k]
  BY <1>1 DEF IInv, TypeOK
<1>3. TypeOK'
  BY <1>1, EmptySeq DEF IInv, TypeOK, Statuses
<1>4. QueuedExactlyOnce'
  <2>1. ASSUME NEW k \in Lanes, NEW i \in 1..Len(queue'[k])
        PROVE  /\ status'[queue'[k][i]] = "queued"
               /\ LaneOf[queue'[k][i]] = k
               /\ \A j \in 1..Len(queue'[k]) : queue'[k][i] = queue'[k][j] => i = j
    <3>1. k # l
      BY <1>2, <2>1, EmptySeq
    <3>2. queue[k][i] \in Tasks
      BY <1>2, <3>1, ElementOfSeq DEF IInv, TypeOK
    <3> QED BY <1>1, <1>2, <3>1, <3>2 DEF IInv, QueuedExactlyOnce
  <2>2. ASSUME NEW t \in Tasks, status'[t] = "queued"
        PROVE  \E i \in 1..Len(queue'[LaneOf[t]]) : queue'[LaneOf[t]][i] = t
    <3>1. LaneOf[t] # l /\ status[t] = "queued" /\ LaneOf[t] \in Lanes
      BY <1>1, <2>2, ConstantsAssumption
    <3> QED BY <1>2, <3>1 DEF IInv, QueuedExactlyOnce
  <2> QED BY <2>1, <2>2 DEF QueuedExactlyOnce
<1>5. SlotsMatchRunning' /\ NoFutureGeneration'
  BY <1>1 DEF IInv, SlotsMatchRunning, NoFutureGeneration, InLane
<1>6. NoStrandedWork'
  BY <1>1, <1>2 DEF IInv, NoStrandedWork
<1>7. CapStep /\ FifoStep
  <2>1. \A k \in Lanes : \A i \in 1..Len(queue[k]) :
          status[queue[k][i]] = "queued" /\ queue[k][i] \in Tasks
    BY ElementOfSeq DEF IInv, QueuedExactlyOnce, TypeOK
  <2>2. \A k \in Lanes : \A i \in 1..Len(queue[k]) : status'[queue[k][i]] # "running"
    BY <1>1, <2>1
  <2> QED BY <1>1, <2>2 DEF CapStep, FifoStep
<1> QED BY <1>3, <1>4, <1>5, <1>6, <1>7 DEF IInv

LEMMA ResetStep ==
  ASSUME IInv, ResetAllLanes
  PROVE  IInv' /\ CapStep /\ FifoStep
<1> DEFINE L == {l \in Lanes : queue[l] # <<>>}
           a == [l \in Lanes |-> {}]
           g == [l \in Lanes |-> generation[l] + 1]
<1>1. StateType(queue, a, maxConcurrent, g, status)
  BY InvParts DEF StateType
<1>2. ActiveMatches(a, g, status)
  <2>1. \A t \in Tasks : status[t] = "running" =>
          /\ LaneOf[t] \in Lanes
          /\ taskGeneration[t] \in Nat /\ generation[LaneOf[t]] \in Nat
          /\ taskGeneration[t] <= generation[LaneOf[t]]
    BY ConstantsAssumption, InvParts DEF ActiveMatches, StateType
  <2> QED BY <2>1 DEF ActiveMatches, InLane
<1>3. \A l \in Lanes \ L : AtCap(l, queue, a, maxConcurrent)
  BY DEF AtCap
<1>4. /\ DrainLanes(L, queue, a, maxConcurrent, g, status)
      /\ gatewayDraining' \in BOOLEAN
  BY DEF ResetAllLanes
<1>5. L \in SUBSET Lanes
  OBVIOUS
<1>6. \A l \in Lanes : a[l] \subseteq activeTaskIds[l]
  OBVIOUS
<1> HIDE DEF L, a, g
<1> QED BY <1>1, <1>2, <1>3, <1>4, <1>5, <1>6, InvParts, DrainStep

LEMMA InitIInv == Init => IInv
<1> SUFFICES ASSUME Init PROVE IInv
  OBVIOUS
<1>1. TypeOK
  <2>1. <<>> \in Seq(Tasks)
    BY EmptySeq
  <2>2. queue \in [Lanes -> Seq(Tasks)]
    BY <2>1 DEF Init
  <2>3. status \in [Tasks -> Statuses]
    BY DEF Init, Statuses
  <2>4. activeTaskIds \in [Lanes -> SUBSET Tasks] /\ gatewayDraining \in BOOLEAN
    BY DEF Init
  <2>5. /\ maxConcurrent \in [Lanes -> Nat \ {0}] /\ generation \in [Lanes -> Nat]
        /\ taskGeneration \in [Tasks -> Nat]
    BY DEF Init
  <2> QED BY <2>2, <2>3, <2>4, <2>5 DEF TypeOK
<1>2. QueuedExactlyOnce /\ NoStrandedWork
  BY EmptySeq DEF Init, QueuedExactlyOnce, NoStrandedWork
<1>3. SlotsMatchRunning /\ NoFutureGeneration
  BY DEF Init, SlotsMatchRunning, NoFutureGeneration, InLane
<1> QED BY <1>1, <1>2, <1>3 DEF IInv

(* Steps that leave the lanes alone and turn no entry into a running one.  *)
LEMMA LanesUntouched ==
  ASSUME IInv, UNCHANGED <<queue, activeTaskIds>>,
         \A l \in Lanes : \A i \in 1..Len(queue[l]) : status'[queue[l][i]] = status[queue[l][i]]
  PROVE  CapStep /\ FifoStep
BY DEF IInv, QueuedExactlyOnce, CapStep, FifoStep

LEMMA RefuseStep ==
  ASSUME IInv, NEW t \in Tasks, RefuseWhileDraining(t)
  PROVE  IInv' /\ CapStep /\ FifoStep
<1>1. IInv'
  BY DEF RefuseWhileDraining, IInv, TypeOK, Statuses, QueuedExactlyOnce,
         SlotsMatchRunning, NoFutureGeneration, NoStrandedWork, InLane
<1>2. \A l \in Lanes : \A i \in 1..Len(queue[l]) :
        queue[l][i] \in Tasks /\ status[queue[l][i]] = "queued"
  BY ElementOfSeq DEF IInv, QueuedExactlyOnce, TypeOK
<1>3. \A l \in Lanes : \A i \in 1..Len(queue[l]) : status'[queue[l][i]] = status[queue[l][i]]
  BY <1>2 DEF RefuseWhileDraining
<1>4. UNCHANGED <<queue, activeTaskIds>>
  BY DEF RefuseWhileDraining
<1> QED BY <1>1, <1>3, <1>4, LanesUntouched

(* Every step preserves the invariant, the caps and the order of the lanes. *)
LEMMA NextIInv ==
  ASSUME IInv, [Next]_laneVars
  PROVE  IInv' /\ CapStep /\ FifoStep
<1>1. ASSUME NEW t \in Tasks, EnqueueCommandInLane(t) PROVE IInv' /\ CapStep /\ FifoStep
  BY <1>1, EnqueueStep
<1>2. ASSUME NEW t \in Tasks, RefuseWhileDraining(t) PROVE IInv' /\ CapStep /\ FifoStep
  BY <1>2, RefuseStep
<1>3. ASSUME NEW t \in Tasks, NEW o \in {"resolved", "rejected"}, Settle(t, o)
      PROVE  IInv' /\ CapStep /\ FifoStep
  BY <1>3, SettleStep
<1>4. ASSUME NEW l \in Lanes, NEW n \in ConcurrencyInputs, SetCommandLaneConcurrency(l, n)
      PROVE  IInv' /\ CapStep /\ FifoStep
  BY <1>4, SetConcurrencyStep
<1>5. ASSUME NEW l \in Lanes, ClearCommandLane(l) PROVE IInv' /\ CapStep /\ FifoStep
  BY <1>5, ClearStep
<1>6. ASSUME MarkGatewayDraining PROVE IInv' /\ CapStep /\ FifoStep
  <2>1. UNCHANGED <<queue, activeTaskIds, maxConcurrent, generation, taskGeneration, status>>
        /\ gatewayDraining' \in BOOLEAN
    BY <1>6 DEF MarkGatewayDraining
  <2>2. IInv'
    BY <2>1 DEF IInv, TypeOK, QueuedExactlyOnce, SlotsMatchRunning, NoFutureGeneration,
                NoStrandedWork, InLane
  <2> QED BY <2>1, <2>2, LanesUntouched
<1>7. ASSUME ResetAllLanes PROVE IInv' /\ CapStep /\ FifoStep
  BY <1>7, ResetStep
<1>8. ASSUME UNCHANGED laneVars PROVE IInv' /\ CapStep /\ FifoStep
  BY <1>8, SameLanes, LanesUntouched DEF laneVars
<1> QED BY <1>1, <1>2, <1>3, <1>4, <1>5, <1>6, <1>7, <1>8 DEF Next

(* The inductive invariant holds in every reachable state.                 *)
THEOREM Invariance == Spec => []IInv
<1>1. IInv /\ [Next]_laneVars => IInv'
  BY NextIInv
<1> QED BY <1>1, InitIInv, PTL DEF Spec

(* The lane records and the promises keep their types, whatever caps are   *)
(* configured and however often the process restarts in place.             *)
THEOREM TypeCorrect == Spec => []TypeOK
<1>1. IInv => TypeOK
  BY DEF IInv
<1> QED BY <1>1, Invariance, PTL

(* No call is lost or started twice: the queues hold exactly the pending   *)
(* promises, each once (enqueueCommandInLane, clearCommandLane, drainLane). *)
THEOREM NothingLostOrDuplicated == Spec => []QueuedExactlyOnce
<1>1. IInv => QueuedExactlyOnce
  BY DEF IInv
<1> QED BY <1>1, Invariance, PTL

(* Slot accounting is exact: completeTask's generation check neither leaks *)
(* a slot nor frees one of a later generation.                             *)
THEOREM SlotAccounting == Spec => []SlotsMatchRunning
<1>1. IInv => SlotsMatchRunning
  BY DEF IInv
<1> QED BY <1>1, Invariance, PTL

(* No lost wake-up: a lane with queued entries is at its cap, so the state *)
(* "draining=true active=0 queue>0" the code warns about is not reached.   *)
THEOREM NoLostWakeup == Spec => []NoStrandedWork
<1>1. IInv => NoStrandedWork
  BY DEF IInv
<1> QED BY <1>1, Invariance, PTL

(* The pump never starts work beyond the cap, also after the cap was       *)
(* lowered below what runs or the lane was reset.                          *)
THEOREM CapRespected == Spec => StartsWithinCap
<1>1. IInv /\ [Next]_laneVars => [CapStep]_laneVars
  BY NextIInv
<1> QED BY <1>1, Invariance, PTL DEF Spec, StartsWithinCap

(* Lanes are FIFO: state.queue.push and shift never let a later entry of a *)
(* lane start before an earlier one.                                       *)
THEOREM LanesAreFifo == Spec => NoOvertaking
<1>1. IInv /\ [Next]_laneVars => [FifoStep]_laneVars
  BY NextIInv
<1> QED BY <1>1, Invariance, PTL DEF Spec, NoOvertaking

-----------------------------------------------------------------------------
(***************************************************************************)
(* The run loop.                                                           *)
(***************************************************************************)
LEMMA LaneStepIsNext == LaneStep => Next
BY DEF LaneStep, Next

LEMMA FinishIsNext == FinishRestart => Next \/ UNCHANGED laneVars
BY DEF FinishRestart, Next

(* Each step of the gateway is a step of the command queue or leaves it    *)
(* alone.                                                                  *)
LEMMA GatewayStepRefines ==
  ASSUME IInv, [GatewayNext]_vars
  PROVE  [Next]_laneVars
<1>1. CASE LaneStep
  BY <1>1, LaneStepIsNext
<1>2. CASE LoopStep
  BY <1>2 DEF LoopStep, StartSucceeds, StartFails, AwaitRestartAfterFailure, ExitProcess, laneVars
<1>3. CASE RequestRestart
  <2>1. gatewayDraining \in BOOLEAN
    BY InvParts
  <2>2. CASE gatewayDraining
    BY <1>3, <2>2 DEF RequestRestart, laneVars
  <2>3. CASE ~gatewayDraining
    <3>1. MarkGatewayDraining
      BY <1>3, <2>3 DEF RequestRestart, MarkGatewayDraining
    <3> QED BY <3>1 DEF Next
  <2> QED BY <2>2, <2>3
<1>4. CASE RequestStop
  BY <1>4 DEF RequestStop, laneVars
<1>5. CASE ShutdownStep
  <2>1. CASE DrainEnds \/ CloseServer \/ ForceExit \/ ReleaseLockAndExit \/ ReacquireFails
    BY <2>1 DEF DrainEnds, CloseServer, ForceExit, ReleaseLockAndExit, ReacquireFails,
                ExitProcess, laneVars
  <2>2. CASE ReleaseLockAndRestartInProcess \/ ReacquireLock
    BY <2>2, FinishIsNext DEF ReleaseLockAndRestartInProcess, ReacquireLock
  <2> QED BY <1>5, <2>1, <2>2 DEF ShutdownStep
<1>6. CASE UNCHANGED vars
  BY <1>6 DEF vars, laneVars
<1> QED BY <1>1, <1>2, <1>3, <1>4, <1>5, <1>6 DEF GatewayNext

(* The invariant of the lanes holds under the run loop.                    *)
THEOREM GatewayLaneInvariance == GatewaySpec => []IInv
<1>1. GatewayInit => IInv
  BY InitIInv DEF GatewayInit
<1>2. IInv /\ [GatewayNext]_vars => IInv'
  BY GatewayStepRefines, NextIInv
<1> QED BY <1>1, <1>2, PTL DEF GatewaySpec

(* The run loop implements the command queue: no signal, timeout or        *)
(* restart does to the lanes what their operations do not allow.           *)
THEOREM GatewayImplementsLanes == GatewaySpec => Spec
<1>1. GatewayInit => Init
  BY DEF GatewayInit
<1>2. IInv /\ [GatewayNext]_vars => [Next]_laneVars
  BY GatewayStepRefines
<1> QED BY <1>1, <1>2, GatewayLaneInvariance, PTL DEF GatewaySpec, Spec

-----------------------------------------------------------------------------
(* The inductive strengthening of ServingAcceptsWork: a shutdown is served *)
(* only while the loop waits on an armed resolver, so its end always       *)
(* reaches resetAllLanes.                                                  *)
LoopInv ==
  /\ ~shuttingDown => ~gatewayDraining
  /\ shuttingDown => loop \in {"waiting", "exited"}
  /\ loop = "waiting" => resolverArmed

LEMMA LaneStepDraining == LaneStep => UNCHANGED <<gatewayDraining, restartVars>>
BY DEF LaneStep, EnqueueCommandInLane, RefuseWhileDraining, Settle, SettleCurrent,
       SettleStale, SetCommandLaneConcurrency, ClearCommandLane

LEMMA LoopInvStep ==
  ASSUME ~SignalsWhileStarting, LoopInv, [GatewayNext]_vars
  PROVE  LoopInv'
<1>1. CASE LaneStep
  BY <1>1, LaneStepDraining DEF restartVars, LoopInv, shuttingDown
<1>2. CASE LoopStep
  BY <1>2 DEF LoopStep, StartSucceeds, StartFails, AwaitRestartAfterFailure, ExitProcess,
              laneVars, LoopInv, shuttingDown
<1>3. CASE RequestRestart
  BY <1>3 DEF RequestRestart, SignalArrives, LoopInv, shuttingDown
<1>4. CASE RequestStop
  BY <1>4 DEF RequestStop, SignalArrives, AfterDrain, laneVars, LoopInv, shuttingDown
<1>5. ASSUME FinishRestart, shuttingDown, Alive PROVE LoopInv'
  BY <1>5 DEF FinishRestart, ResetAllLanes, Alive, LoopInv, shuttingDown
<1>6. CASE ShutdownStep
  <2>1. CASE DrainEnds \/ CloseServer
    BY <2>1 DEF DrainEnds, CloseServer, AfterDrain, laneVars, LoopInv, shuttingDown
  <2>2. CASE ForceExit \/ ReleaseLockAndExit \/ ReacquireFails
    BY <2>2 DEF ForceExit, ReleaseLockAndExit, ReacquireFails, ExitProcess, laneVars,
                LoopInv, shuttingDown
  <2>3. CASE ReleaseLockAndRestartInProcess
    <3>1. CASE lock
      BY <2>3, <3>1 DEF ReleaseLockAndRestartInProcess, laneVars, LoopInv, shuttingDown
    <3>2. CASE ~lock
      BY <1>5, <2>3, <3>2 DEF ReleaseLockAndRestartInProcess, shuttingDown
    <3> QED BY <3>1, <3>2
  <2>4. CASE ReacquireLock
    BY <1>5, <2>4 DEF ReacquireLock, shuttingDown
  <2> QED BY <1>6, <2>1, <2>2, <2>3, <2>4 DEF ShutdownStep
<1>7. CASE UNCHANGED vars
  BY <1>7 DEF vars, laneVars, restartVars, LoopInv, shuttingDown
<1> QED BY <1>1, <1>2, <1>3, <1>4, <1>6, <1>7 DEF GatewayNext

(* When no signal arrives while start() is pending, the drain flag never   *)
(* outlives the restart that set it.  The hypothesis is needed: see the    *)
(* run that drops it.                                                      *)
THEOREM ServingGatewayAccepts ==
  ASSUME ~SignalsWhileStarting
  PROVE  GatewaySpec => []ServingAcceptsWork
<1>1. GatewayInit => LoopInv
  BY DEF GatewayInit, Init, LoopInv, shuttingDown
<1>2. LoopInv /\ [GatewayNext]_vars => LoopInv'
  BY LoopInvStep
<1>3. LoopInv => ServingAcceptsWork
  BY DEF LoopInv, ServingAcceptsWork
<1> QED BY <1>1, <1>2, <1>3, PTL DEF GatewaySpec

-----------------------------------------------------------------------------
(* The inductive strengthening of DrainedMeansDone.  A task of the snapshot *)
(* never runs without its slot during the drain (lanes are not reset), and *)
(* having left the queue it never returns to it.                           *)
DrainInv ==
  /\ activeAtStart \in SUBSET Tasks
  /\ \A t \in activeAtStart : status[t] \notin {"idle", "queued"}
  /\ shutdown = "draining" => \A t \in activeAtStart : status[t] = "running" => t \in ActiveTasks
  /\ drained = "yes" => \A t \in activeAtStart : status[t] # "running"
  /\ drained # "none" => shutdown \notin {"none", "draining"}

LEMMA ActiveMeansRunning ==
  ASSUME IInv, NEW t \in Tasks
  PROVE  t \in ActiveTasks <=> /\ status[t] = "running"
                              /\ taskGeneration[t] = generation[LaneOf[t]]
BY ConstantsAssumption DEF IInv, SlotsMatchRunning, ActiveTasks, InLane

(* A call that has left the queue only settles: it is neither queued nor   *)
(* started again, and while it runs it keeps its generation.               *)
LEMMA NotStarted ==
  ASSUME NEW q \in Seq(Tasks), NEW a \in SUBSET Tasks, NEW cap \in Nat \ {0},
         NEW t, \A i \in 1..Len(q) : q[i] # t
  PROVE  t \notin Started(q, a, cap)
<1>1. PumpCount(q, a, cap) \in 0..Len(q) /\ Len(q) \in Nat
  BY PumpCountFacts, LenProperties
<1> QED BY <1>1 DEF Started

LEMMA LaneStepKeeps ==
  ASSUME IInv, LaneStep, NEW t \in Tasks, status[t] \notin {"idle", "queued"}
  PROVE  /\ status'[t] \notin {"idle", "queued"}
         /\ status'[t] = "running" => status[t] = "running" /\ taskGeneration'[t] = taskGeneration[t]
         /\ generation' = generation
<1>1. /\ \A l \in Lanes : \A i \in 1..Len(queue[l]) : queue[l][i] # t
      /\ queue \in [Lanes -> Seq(Tasks)] /\ activeTaskIds \in [Lanes -> SUBSET Tasks]
      /\ maxConcurrent \in [Lanes -> Nat \ {0}] /\ status \in [Tasks -> Statuses]
  BY DEF IInv, TypeOK, QueuedExactlyOnce
<1>2. ASSUME NEW u \in Tasks, EnqueueCommandInLane(u)
      PROVE  status'[t] = status[t] /\ taskGeneration'[t] = taskGeneration[t] /\ generation' = generation
  <2> DEFINE q == [queue EXCEPT ![LaneOf[u]] = Append(@, u)]
             s == [status EXCEPT ![u] = "queued"]
  <2>1. u # t /\ LaneOf[u] \in Lanes
    BY <1>2, ConstantsAssumption DEF EnqueueCommandInLane
  <2>2. q \in [Lanes -> Seq(Tasks)]
    BY <1>1, <2>1, AppendProperties
  <2>3. \A l \in Lanes : \A i \in 1..Len(q[l]) : q[l][i] # t
    <3> SUFFICES ASSUME NEW l \in Lanes, NEW i \in 1..Len(q[l]) PROVE q[l][i] # t
      OBVIOUS
    <3>1. CASE l # LaneOf[u]
      BY <1>1, <3>1
    <3>2. CASE l = LaneOf[u]
      <4>1. q[l] = Append(queue[l], u) /\ queue[l] \in Seq(Tasks)
        BY <1>1, <2>1, <3>2
      <4> HIDE DEF q
      <4> QED BY <1>1, <2>1, <4>1, AppendProperties, LenProperties
    <3> QED BY <3>1, <3>2
  <2>4. DrainLanes({LaneOf[u]}, q, activeTaskIds, maxConcurrent, generation, s)
    BY <1>2 DEF EnqueueCommandInLane
  <2>5. s[t] = status[t]
    BY <1>1, <2>1
  <2>6. generation' = generation
    BY <2>4 DEF DrainLanes
  <2> HIDE DEF q, s
  <2>7. \A l \in Lanes : t \notin Started(q[l], activeTaskIds[l], maxConcurrent[l])
    BY <1>1, <2>2, <2>3, NotStarted
  <2>8. status'[t] = s[t] /\ taskGeneration'[t] = taskGeneration[t]
    BY <2>4, <2>7, ConstantsAssumption DEF DrainLanes
  <2> QED BY <2>5, <2>6, <2>8
<1>3. ASSUME NEW u \in Tasks, RefuseWhileDraining(u)
      PROVE  status'[t] = status[t] /\ taskGeneration'[t] = taskGeneration[t] /\ generation' = generation
  BY <1>1, <1>3 DEF RefuseWhileDraining
<1>4. ASSUME NEW u \in Tasks, NEW o \in {"resolved", "rejected"}, Settle(u, o)
      PROVE  /\ status'[t] \in {status[t], o} /\ taskGeneration'[t] = taskGeneration[t]
             /\ generation' = generation
  <2>1. CASE SettleStale(u, o)
    BY <1>1, <2>1 DEF SettleStale
  <2>2. CASE SettleCurrent(u, o)
    <3> DEFINE a == [activeTaskIds EXCEPT ![LaneOf[u]] = @ \ {u}]
               s == [status EXCEPT ![u] = o]
    <3>1. DrainLanes({LaneOf[u]}, queue, a, maxConcurrent, generation, s)
      BY <2>2 DEF SettleCurrent
    <3>2. a \in [Lanes -> SUBSET Tasks] /\ s[t] \in {status[t], o}
      BY <1>1
    <3>3. generation' = generation
      BY <3>1 DEF DrainLanes
    <3> HIDE DEF a, s
    <3>4. \A l \in Lanes : t \notin Started(queue[l], a[l], maxConcurrent[l])
      BY <1>1, <3>2, NotStarted
    <3>5. status'[t] = s[t] /\ taskGeneration'[t] = taskGeneration[t]
      BY <3>1, <3>4, ConstantsAssumption DEF DrainLanes
    <3> QED BY <3>2, <3>3, <3>5
  <2> QED BY <1>4, <2>1, <2>2 DEF Settle
<1>5. ASSUME NEW l \in Lanes, NEW n \in ConcurrencyInputs, SetCommandLaneConcurrency(l, n)
      PROVE  status'[t] = status[t] /\ taskGeneration'[t] = taskGeneration[t] /\ generation' = generation
  <2> DEFINE m == [maxConcurrent EXCEPT ![l] = CapOf(n)]
  <2>1. m \in [Lanes -> Nat \ {0}]
    BY <1>1, ConstantsAssumption DEF CapOf
  <2>2. DrainLanes({l}, queue, activeTaskIds, m, generation, status)
    BY <1>5 DEF SetCommandLaneConcurrency
  <2>3. generation' = generation
    BY <2>2 DEF DrainLanes
  <2> HIDE DEF m
  <2>4. \A k \in Lanes : t \notin Started(queue[k], activeTaskIds[k], m[k])
    BY <1>1, <2>1, NotStarted
  <2>5. status'[t] = status[t] /\ taskGeneration'[t] = taskGeneration[t]
    BY <2>2, <2>4, ConstantsAssumption DEF DrainLanes
  <2> QED BY <2>3, <2>5
<1>6. ASSUME NEW l \in Lanes, ClearCommandLane(l)
      PROVE  status'[t] = status[t] /\ taskGeneration'[t] = taskGeneration[t] /\ generation' = generation
  BY <1>1, <1>6 DEF ClearCommandLane
<1> QED BY <1>2, <1>3, <1>4, <1>5, <1>6 DEF LaneStep

LEMMA DrainInvStep ==
  ASSUME IInv, DrainInv, [GatewayNext]_vars
  PROVE  DrainInv'
<1>1. CASE LaneStep
  <2>1. IInv' /\ UNCHANGED restartVars
    BY <1>1, GatewayStepRefines, NextIInv DEF GatewayNext, LaneStep
  <2>2. ASSUME NEW t \in activeAtStart
        PROVE  /\ status'[t] \notin {"idle", "queued"}
               /\ status'[t] = "running" => status[t] = "running" /\ (t \in ActiveTasks => t \in ActiveTasks')
    <3>1. t \in Tasks /\ status[t] \notin {"idle", "queued"}
      BY DEF DrainInv
    <3>2. t \in ActiveTasks' <=> status'[t] = "running" /\ taskGeneration'[t] = generation'[LaneOf[t]]
      BY <2>1, <3>1, ConstantsAssumption DEF IInv, SlotsMatchRunning, ActiveTasks, InLane
    <3> QED BY <1>1, <3>1, <3>2, LaneStepKeeps, ActiveMeansRunning
  <2> QED BY <2>1, <2>2 DEF DrainInv, restartVars
<1>2. CASE LoopStep
  BY <1>2 DEF LoopStep, StartSucceeds, StartFails, AwaitRestartAfterFailure, ExitProcess,
              laneVars, DrainInv, ActiveTasks
<1>3. CASE RequestRestart
  <2>1. ActiveTasks \in SUBSET Tasks
    BY DEF IInv, TypeOK, ActiveTasks
  <2>2. \A t \in ActiveTasks : status[t] = "running"
    BY <2>1, ActiveMeansRunning
  <2>3. /\ activeAtStart' = ActiveTasks /\ ActiveTasks' = ActiveTasks
        /\ status' = status /\ drained' = drained /\ shutdown' = "draining" /\ shutdown = "none"
    BY <1>3 DEF RequestRestart, SignalArrives, shuttingDown, ActiveTasks
  <2> QED BY <2>1, <2>2, <2>3 DEF DrainInv
<1>4. CASE RequestStop
  BY <1>4 DEF RequestStop, SignalArrives, shuttingDown, AfterDrain, laneVars, DrainInv, ActiveTasks
<1>5. ASSUME FinishRestart PROVE DrainInv'
  BY <1>5 DEF FinishRestart, DrainInv
<1>6. CASE ShutdownStep
  <2>1. CASE DrainEnds
    BY <2>1 DEF DrainEnds, AfterDrain, laneVars, DrainInv, ActiveTasks
  <2>2. CASE CloseServer
    BY <2>2 DEF CloseServer, laneVars, DrainInv, ActiveTasks
  <2>3. CASE ForceExit \/ ReleaseLockAndExit \/ ReacquireFails
    BY <2>3 DEF ForceExit, ReleaseLockAndExit, ReacquireFails, ExitProcess, laneVars,
                DrainInv, ActiveTasks
  <2>4. CASE ReleaseLockAndRestartInProcess
    <3>1. CASE lock
      BY <2>4, <3>1 DEF ReleaseLockAndRestartInProcess, laneVars, DrainInv, ActiveTasks
    <3>2. CASE ~lock
      BY <1>5, <2>4, <3>2 DEF ReleaseLockAndRestartInProcess
    <3> QED BY <3>1, <3>2
  <2>5. CASE ReacquireLock
    BY <1>5, <2>5 DEF ReacquireLock
  <2> QED BY <1>6, <2>1, <2>2, <2>3, <2>4, <2>5 DEF ShutdownStep
<1>7. CASE UNCHANGED vars
  BY <1>7 DEF vars, laneVars, restartVars, DrainInv, ActiveTasks
<1> QED BY <1>1, <1>2, <1>3, <1>4, <1>6, <1>7 DEF GatewayNext

(* When waitForActiveTasks answers drained, every task that was running    *)
(* when the restart was requested has settled.                             *)
THEOREM DrainIsComplete == GatewaySpec => []DrainedMeansDone
<1>1. GatewayInit => DrainInv
  BY DEF GatewayInit, DrainInv
<1>2. IInv /\ DrainInv /\ [GatewayNext]_vars => DrainInv'
  BY DrainInvStep
<1>3. DrainInv => DrainedMeansDone
  BY DEF DrainInv, DrainedMeansDone
<1> QED BY <1>1, <1>2, <1>3, GatewayLaneInvariance, PTL DEF GatewaySpec

-----------------------------------------------------------------------------
(* While the drain flag is set, a call that has not been made yet can only *)
(* be refused: the steps of the lanes start nothing that is not queued.    *)
LEMMA IdleIsRefused ==
  ASSUME IInv, gatewayDraining, LaneStep, NEW t \in Tasks, status[t] = "idle"
  PROVE  status'[t] \in {"idle", "refused"}
<1>1. /\ \A l \in Lanes : \A i \in 1..Len(queue[l]) : queue[l][i] # t
      /\ queue \in [Lanes -> Seq(Tasks)] /\ activeTaskIds \in [Lanes -> SUBSET Tasks]
      /\ maxConcurrent \in [Lanes -> Nat \ {0}] /\ status \in [Tasks -> Statuses]
  BY DEF IInv, TypeOK, QueuedExactlyOnce
<1>2. ASSUME NEW u \in Tasks, EnqueueCommandInLane(u) PROVE FALSE
  BY <1>2 DEF EnqueueCommandInLane
<1>3. ASSUME NEW u \in Tasks, RefuseWhileDraining(u) PROVE status'[t] \in {"idle", "refused"}
  BY <1>1, <1>3 DEF RefuseWhileDraining
<1>4. ASSUME NEW u \in Tasks, NEW o \in {"resolved", "rejected"}, Settle(u, o)
      PROVE  status'[t] = "idle"
  <2>1. CASE SettleStale(u, o)
    BY <1>1, <2>1 DEF SettleStale
  <2>2. CASE SettleCurrent(u, o)
    <3> DEFINE a == [activeTaskIds EXCEPT ![LaneOf[u]] = @ \ {u}]
               s == [status EXCEPT ![u] = o]
    <3>1. DrainLanes({LaneOf[u]}, queue, a, maxConcurrent, generation, s)
      BY <2>2 DEF SettleCurrent
    <3>2. a \in [Lanes -> SUBSET Tasks] /\ s[t] = "idle"
      BY <1>1, <2>2 DEF SettleCurrent
    <3> HIDE DEF a, s
    <3>3. \A l \in Lanes : t \notin Started(queue[l], a[l], maxConcurrent[l])
      BY <1>1, <3>2, NotStarted
    <3> QED BY <3>1, <3>2, <3>3, ConstantsAssumption DEF DrainLanes
  <2> QED BY <1>4, <2>1, <2>2 DEF Settle
<1>5. ASSUME NEW l \in Lanes, NEW n \in ConcurrencyInputs, SetCommandLaneConcurrency(l, n)
      PROVE  status'[t] = "idle"
  <2> DEFINE m == [maxConcurrent EXCEPT ![l] = CapOf(n)]
  <2>1. m \in [Lanes -> Nat \ {0}]
    BY <1>1, ConstantsAssumption DEF CapOf
  <2>2. DrainLanes({l}, queue, activeTaskIds, m, generation, status)
    BY <1>5 DEF SetCommandLaneConcurrency
  <2> HIDE DEF m
  <2>3. \A k \in Lanes : t \notin Started(queue[k], activeTaskIds[k], m[k])
    BY <1>1, <2>1, NotStarted
  <2> QED BY <2>2, <2>3, ConstantsAssumption DEF DrainLanes
<1>6. ASSUME NEW l \in Lanes, ClearCommandLane(l) PROVE status'[t] = "idle"
  BY <1>1, <1>6 DEF ClearCommandLane
<1> QED BY <1>2, <1>3, <1>4, <1>5, <1>6 DEF LaneStep

(* A restart that is being served has set the drain flag, and takes it     *)
(* back only in the step that ends it.                                     *)
RestartDrains == action = "restart" => gatewayDraining

LEMMA RestartDrainsStep ==
  ASSUME IInv, RestartDrains, [GatewayNext]_vars
  PROVE  /\ RestartDrains'
         /\ (action = "restart" /\ action' = "restart") =>
              \A t \in Tasks : status[t] = "idle" => status'[t] \in {"idle", "refused"}
<1>1. CASE LaneStep
  BY <1>1, LaneStepDraining, IdleIsRefused DEF RestartDrains, restartVars
<1>2. CASE LoopStep
  BY <1>2 DEF LoopStep, StartSucceeds, StartFails, AwaitRestartAfterFailure, ExitProcess,
              laneVars, RestartDrains
<1>3. CASE RequestRestart
  BY <1>3 DEF RequestRestart, RestartDrains
<1>4. CASE RequestStop
  BY <1>4 DEF RequestStop, laneVars, RestartDrains
<1>5. CASE ShutdownStep
  <2>1. CASE FinishRestart
    BY <2>1 DEF FinishRestart, RestartDrains
  <2>2. CASE ~FinishRestart
    BY <1>5, <2>2 DEF ShutdownStep, DrainEnds, CloseServer, ForceExit, ReleaseLockAndExit,
       ReleaseLockAndRestartInProcess, ReacquireLock, ReacquireFails, ExitProcess,
       laneVars, RestartDrains
  <2> QED BY <2>1, <2>2
<1>6. CASE UNCHANGED vars
  BY <1>6 DEF vars, laneVars, restartVars, RestartDrains
<1> QED BY <1>1, <1>2, <1>3, <1>4, <1>5, <1>6 DEF GatewayNext

(* Between the request and the end of a restart every new call is refused, *)
(* so the exit of the process loses no call it had accepted meanwhile.     *)
THEOREM DrainRefusesWork == GatewaySpec => NothingAcceptedWhileDraining
<1>1. GatewayInit => RestartDrains
  BY DEF GatewayInit, RestartDrains
<1>2. IInv /\ RestartDrains /\ [GatewayNext]_vars =>
        /\ RestartDrains'
        /\ [(action = "restart" /\ action' = "restart") =>
              \A t \in Tasks : status[t] = "idle" => status'[t] \in {"idle", "refused"}]_vars
  BY RestartDrainsStep
<1> QED BY <1>1, <1>2, GatewayLaneInvariance, PTL DEF GatewaySpec, NothingAcceptedWhileDraining

-----------------------------------------------------------------------------
(* As long as no close() has thrown, a server listens only while the loop  *)
(* waits, and not past the close of a shutdown: the lanes, reset by the    *)
(* step that ends one, find no client.                                     *)
ListenInv ==
  /\ LoopInv
  /\ closeFailed \/ (listening => server /\ loop \in {"waiting", "exited"})
  /\ closeFailed \/ (shutdown \in {"releasing", "reacquiring"} => ~listening)
  /\ loop = "exited" \/ loop \in {"starting", "failed", "waiting"}

LEMMA LaneStepGenerations == IInv /\ LaneStep => generation' = generation
BY DEF LaneStep, EnqueueCommandInLane, RefuseWhileDraining, Settle, SettleCurrent,
       SettleStale, SetCommandLaneConcurrency, ClearCommandLane, DrainLanes

LEMMA ListenInvStep ==
  ASSUME ~SignalsWhileStarting, IInv, ListenInv, [GatewayNext]_vars
  PROVE  ListenInv' /\ (generation' # generation =>
                           (~listening /\ ~listening') \/ closeFailed)
<1>0. LoopInv'
  BY LoopInvStep DEF ListenInv
<1> USE DEF ListenInv
<1>1. CASE LaneStep
  BY <1>0, <1>1, LaneStepDraining, LaneStepGenerations DEF restartVars
<1>2. CASE LoopStep
  BY <1>0, <1>2 DEF LoopStep, StartSucceeds, StartFails, AwaitRestartAfterFailure, ExitProcess,
              laneVars, LoopInv, shuttingDown
<1>3. CASE RequestRestart \/ RequestStop
  BY <1>0, <1>3 DEF RequestRestart, RequestStop, SignalArrives, AfterDrain, laneVars, shuttingDown
<1>4. CASE ShutdownStep
  <2>1. CASE ReleaseLockAndRestartInProcess \/ ReacquireLock
    <3>1. (~listening \/ closeFailed) /\ UNCHANGED <<listening, closeFailed>>
      BY <2>1 DEF ReleaseLockAndRestartInProcess, ReacquireLock
    <3>2. loop' \in {loop, "starting"}
      BY <2>1 DEF ReleaseLockAndRestartInProcess, ReacquireLock, FinishRestart
    <3> QED BY <1>0, <3>1, <3>2
  <2>2. CASE DrainEnds \/ CloseServer \/ ForceExit \/ ReleaseLockAndExit \/ ReacquireFails
    BY <1>0, <2>2 DEF DrainEnds, CloseServer, ForceExit, ReleaseLockAndExit, ReacquireFails,
       ExitProcess, AfterDrain, laneVars
  <2> QED BY <1>4, <2>1, <2>2 DEF ShutdownStep
<1>5. CASE UNCHANGED vars
  BY <1>0, <1>5 DEF vars, laneVars, restartVars
<1> QED BY <1>1, <1>2, <1>3, <1>4, <1>5 DEF GatewayNext

(* The lanes forget what runs only between two servers, whether the drain  *)
(* was complete or timed out, unless a close() has thrown.                 *)
THEOREM LanesResetBetweenServers ==
  ASSUME ~SignalsWhileStarting
  PROVE  GatewaySpec => ResetBetweenServers
<1>1. GatewayInit => ListenInv
  BY DEF GatewayInit, Init, LoopInv, ListenInv, shuttingDown
<1>2. IInv /\ ListenInv /\ [GatewayNext]_vars =>
        ListenInv' /\ [generation' # generation =>
                          (~listening /\ ~listening') \/ closeFailed]_vars
  BY ListenInvStep
<1> QED BY <1>1, <1>2, GatewayLaneInvariance, PTL DEF GatewaySpec, ResetBetweenServers

(***************************************************************************)
(* Nested runs.                                                            *)
(***************************************************************************)
(* An entry a body enqueued is waiting or running only while that body     *)
(* awaits it.                                                              *)
BodiesAwait ==
  \A t \in Tasks :
    (Child[t] # NoTask /\ status[Child[t]] \in {"queued", "running"})
      => status[t] = "running"

(* A lane nobody configures never counts more than one entry.              *)
OneSlot ==
  \A l \in Lanes \ ConfiguredLanes :
    maxConcurrent[l] = 1 /\ Cardinality(activeTaskIds[l]) <= 1

RunInv == IInv /\ BodiesAwait /\ OneSlot

-----------------------------------------------------------------------------
(* Every step of nested runs is a step of the command queue.               *)
LEMMA RunNextIsNext == RunNext => Next
<1>1. ASSUME NEW t \in Tasks, StartBody(t) PROVE Next
  <2>1. Child[t] \in Tasks
    BY <1>1, RunLanesAssumption DEF StartBody, Owed
  <2> QED BY <1>1, <2>1 DEF StartBody, Next
<1>2. ASSUME NEW t \in Tasks, Call(t) PROVE Next
  BY <1>2 DEF Call, Next
<1>3. ASSUME NEW t \in Tasks, BodyEnds(t) PROVE Next
  <2>1. PICK o \in Outcome(t) : Settle(t, o)
    BY <1>3 DEF BodyEnds
  <2>2. o \in {"resolved", "rejected"}
    BY DEF Outcome
  <2> QED BY <2>1, <2>2 DEF Next
<1>4. ASSUME Environment PROVE Next
  BY <1>4 DEF Environment, Next
<1> QED BY <1>1, <1>2, <1>3, <1>4 DEF RunNext

(* A pump makes no entry wait and starts only entries that waited.         *)
LEMMA PumpStatus ==
  ASSUME NEW q, NEW a, NEW m, NEW g, NEW s, StateType(q, a, m, g, s),
         QueueMatches(q, s), NEW L \in SUBSET Lanes,
         DrainLanes(L, q, a, m, g, s), NEW t \in Tasks
  PROVE  status'[t] = s[t] \/ (s[t] = "queued" /\ status'[t] = "running")
<1> DEFINE l == LaneOf[t]
<1>1. l \in Lanes
  BY ConstantsAssumption
<1>2. q[l] \in Seq(Tasks) /\ a[l] \in SUBSET Tasks /\ m[l] \in Nat \ {0}
  BY <1>1 DEF StateType
<1>3. PumpCount(q[l], a[l], m[l]) \in 0..Len(q[l]) /\ Len(q[l]) \in Nat
  BY <1>2, PumpCountFacts, LenProperties
<1>4. \A u \in Started(q[l], a[l], m[l]) : s[u] = "queued"
  BY <1>1, <1>3 DEF Started, QueueMatches
<1> QED BY <1>1, <1>4 DEF DrainLanes

(* What each operation of the queue does to the promise of each entry.     *)
LEMMA EnqueueStatus ==
  ASSUME IInv, NEW t \in Tasks, EnqueueCommandInLane(t) \/ RefuseWhileDraining(t),
         NEW u \in Tasks
  PROVE  \/ u = t
         \/ status'[u] = status[u]
         \/ status[u] = "queued" /\ status'[u] = "running"
<1>1. CASE RefuseWhileDraining(t)
  BY <1>1 DEF RefuseWhileDraining, IInv, TypeOK
<1>2. CASE EnqueueCommandInLane(t)
  <2> DEFINE l == LaneOf[t]
             q == [queue EXCEPT ![l] = Append(@, t)]
             s == [status EXCEPT ![t] = "queued"]
  <2>1. /\ status \in [Tasks -> Statuses] /\ s \in [Tasks -> Statuses]
        /\ l \in Lanes /\ queue \in [Lanes -> Seq(Tasks)]
    BY ConstantsAssumption DEF IInv, TypeOK, Statuses
  <2>2. /\ Len(queue[l]) \in Nat /\ Len(q[l]) = Len(queue[l]) + 1
        /\ \A i \in 1..Len(queue[l]) : q[l][i] = queue[l][i]
        /\ q[l][Len(queue[l]) + 1] = t
        /\ \A k \in Lanes \ {l} : q[k] = queue[k]
        /\ q \in [Lanes -> Seq(Tasks)]
    BY <2>1, AppendProperties, LenProperties
  <2>3. \A k \in Lanes : \A i \in 1..PumpCount(q[k], activeTaskIds[k], maxConcurrent[k]) :
          s[q[k][i]] = "queued"
    <3>1. SUFFICES ASSUME NEW k \in Lanes,
                          NEW i \in 1..PumpCount(q[k], activeTaskIds[k], maxConcurrent[k])
                   PROVE  s[q[k][i]] = "queued"
      OBVIOUS
    <3>2. /\ q[k] \in Seq(Tasks) /\ Len(q[k]) \in Nat
          /\ activeTaskIds[k] \in SUBSET Tasks /\ maxConcurrent[k] \in Nat \ {0}
      BY <2>2, LenProperties DEF IInv, TypeOK
    <3> HIDE DEF q
    <3>6. PumpCount(q[k], activeTaskIds[k], maxConcurrent[k]) \in 0..Len(q[k])
      BY <3>2, PumpCountFacts
    <3>3. i \in 1..Len(q[k])
      BY <3>2, <3>6
    <3>4. \A j \in 1..Len(queue[k]) : queue[k][j] \in Tasks /\ status[queue[k][j]] = "queued"
      BY <2>1, ElementOfSeq DEF IInv, QueuedExactlyOnce
    <3>5. q[k][i] = t \/ \E j \in 1..Len(queue[k]) : q[k][i] = queue[k][j]
      BY <2>2, <3>3
    <3> QED BY <2>1, <3>4, <3>5
  <2>4. status' = [x \in Tasks |->
          IF x \in Started(q[LaneOf[x]], activeTaskIds[LaneOf[x]], maxConcurrent[LaneOf[x]])
             /\ LaneOf[x] \in {l}
          THEN "running" ELSE s[x]]
    BY <1>2, ConstantsAssumption DEF EnqueueCommandInLane, DrainLanes
  <2>5. u # t => s[u] = status[u]
    BY <2>1
  <2>6. LaneOf[u] \in Lanes
    BY ConstantsAssumption
  <2> HIDE DEF q, s
  <2> QED BY <2>3, <2>4, <2>5, <2>6 DEF Started
<1> QED BY <1>1, <1>2

LEMMA SettleStatus ==
  ASSUME IInv, NEW t \in Tasks, NEW o \in {"resolved", "rejected"}, Settle(t, o)
  PROVE  /\ status[t] = "running" /\ status'[t] = o
         /\ \A u \in Tasks \ {t} :
              status'[u] = status[u] \/ (status[u] = "queued" /\ status'[u] = "running")
<1> DEFINE l == LaneOf[t]
           a == [activeTaskIds EXCEPT ![l] = @ \ {t}]
           s == [status EXCEPT ![t] = o]
<1>1. /\ status \in [Tasks -> Statuses] /\ s[t] = o
      /\ s \in [Tasks -> Statuses] /\ status[t] = "running"
      /\ \A u \in Tasks \ {t} : s[u] = status[u]
  BY DEF IInv, TypeOK, Statuses, Settle, SettleCurrent, SettleStale
<1>2. CASE SettleStale(t, o)
  BY <1>1, <1>2 DEF SettleStale
<1>3. CASE SettleCurrent(t, o)
  <2>1. l \in Lanes /\ a \in [Lanes -> SUBSET Tasks]
    BY ConstantsAssumption DEF IInv, TypeOK
  <2>2. StateType(queue, a, maxConcurrent, generation, s)
    BY <1>1, <2>1 DEF IInv, TypeOK, StateType
  <2>3. QueueMatches(queue, s)
    <3>1. \A k \in Lanes : \A i \in 1..Len(queue[k]) :
            /\ queue[k][i] \in Tasks \ {t}
            /\ status[queue[k][i]] = "queued"
      BY <1>1, ElementOfSeq DEF IInv, TypeOK, QueuedExactlyOnce
    <3> QED BY <1>1, <3>1 DEF IInv, QueuedExactlyOnce, QueueMatches
  <2>4. DrainLanes({l}, queue, a, maxConcurrent, generation, s)
    BY <1>3 DEF SettleCurrent
  <2> HIDE DEF a, s
  <2>5. \A u \in Tasks : status'[u] = s[u] \/ (s[u] = "queued" /\ status'[u] = "running")
    BY <2>1, <2>2, <2>3, <2>4, PumpStatus
  <2> QED BY <1>1, <2>5
<1> QED BY <1>2, <1>3 DEF Settle

LEMMA EnvironmentStatus ==
  ASSUME IInv, Environment, NEW u \in Tasks
  PROVE  \/ status'[u] = status[u]
         \/ status[u] = "queued" /\ status'[u] \in {"running", "cleared"}
<1>1. ASSUME NEW l \in Lanes, NEW n \in ConcurrencyInputs, SetCommandLaneConcurrency(l, n)
      PROVE  status'[u] = status[u] \/ (status[u] = "queued" /\ status'[u] = "running")
  <2> DEFINE m == [maxConcurrent EXCEPT ![l] = CapOf(n)]
  <2>1. StateType(queue, activeTaskIds, m, generation, status)
    BY ConstantsAssumption DEF IInv, TypeOK, StateType, CapOf
  <2>2. QueueMatches(queue, status)
    BY InvParts
  <2>3. DrainLanes({l}, queue, activeTaskIds, m, generation, status)
    BY <1>1 DEF SetCommandLaneConcurrency
  <2> HIDE DEF m
  <2> QED BY <2>1, <2>2, <2>3, PumpStatus
<1>2. ASSUME NEW l \in Lanes, ClearCommandLane(l)
      PROVE  status'[u] = status[u] \/ (status[u] = "queued" /\ status'[u] = "cleared")
  BY <1>2 DEF ClearCommandLane
<1>3. ASSUME MarkGatewayDraining PROVE status'[u] = status[u]
  BY <1>3 DEF MarkGatewayDraining
<1>4. ASSUME ResetAllLanes
      PROVE  status'[u] = status[u] \/ (status[u] = "queued" /\ status'[u] = "running")
  <2> DEFINE a == [l \in Lanes |-> {}]
             g == [l \in Lanes |-> generation[l] + 1]
  <2>1. StateType(queue, a, maxConcurrent, g, status)
    BY DEF IInv, TypeOK, StateType
  <2>2. QueueMatches(queue, status)
    BY InvParts
  <2>3. DrainLanes({l \in Lanes : queue[l] # <<>>}, queue, a, maxConcurrent, g, status)
    BY <1>4 DEF ResetAllLanes
  <2> HIDE DEF a, g
  <2> QED BY <2>1, <2>2, <2>3, PumpStatus
<1> QED BY <1>1, <1>2, <1>3, <1>4 DEF Environment

LEMMA InitRunInv == Init => RunInv
<1> SUFFICES ASSUME Init PROVE RunInv
  OBVIOUS
<1>1. IInv
  BY InitIInv
<1>2. BodiesAwait
  BY RunLanesAssumption DEF Init, BodiesAwait
<1>3. OneSlot
  BY FS_EmptySet DEF Init, OneSlot
<1> QED BY <1>1, <1>2, <1>3 DEF RunInv

(* Only a running body makes the entry it awaits wait, and it does not end *)
(* before that entry has.                                                  *)
LEMMA BodiesAwaitStep ==
  ASSUME RunInv, RunNext
  PROVE  BodiesAwait'
<1> SUFFICES ASSUME NEW p \in Tasks, Child[p] # NoTask,
                    status'[Child[p]] \in {"queued", "running"}
             PROVE  status'[p] = "running"
  BY DEF BodiesAwait
<1> DEFINE c == Child[p]
<1>0. IInv /\ c \in Tasks /\ (status[c] \in {"queued", "running"} => status[p] = "running")
  BY RunLanesAssumption DEF RunInv, BodiesAwait
<1>1. ASSUME NEW t \in Tasks, StartBody(t) PROVE status'[p] = "running"
  <2>1. /\ Child[t] \in Tasks /\ Child[t] # NoTask /\ status[Child[t]] = "idle"
        /\ status[t] = "running"
        /\ EnqueueCommandInLane(Child[t]) \/ RefuseWhileDraining(Child[t])
    BY <1>1, RunLanesAssumption DEF StartBody, Owed
  <2>2. \A u \in Tasks : u # Child[t] =>
          \/ status'[u] = status[u]
          \/ status[u] = "queued" /\ status'[u] = "running"
    BY <1>0, <2>1, EnqueueStatus
  <2>3. status[p] = "running"
    <3>1. CASE c = Child[t]
      BY <2>1, <3>1, RunLanesAssumption
    <3>2. CASE c # Child[t]
      BY <1>0, <2>2, <3>2
    <3> QED BY <3>1, <3>2
  <2>4. p # Child[t]
    BY <2>1, <2>3
  <2> QED BY <2>2, <2>3, <2>4
<1>2. ASSUME NEW t \in Tasks, Call(t) PROVE status'[p] = "running"
  <2>1. c # t /\ (EnqueueCommandInLane(t) \/ RefuseWhileDraining(t)) /\ status[t] = "idle"
    BY <1>2 DEF Call, TopLevel, EnqueueCommandInLane, RefuseWhileDraining
  <2>2. \A u \in Tasks : u # t =>
          \/ status'[u] = status[u]
          \/ status[u] = "queued" /\ status'[u] = "running"
    BY <1>0, <2>1, EnqueueStatus
  <2>3. status[p] = "running"
    BY <1>0, <2>1, <2>2
  <2> QED BY <2>1, <2>2, <2>3
<1>3. ASSUME NEW t \in Tasks, BodyEnds(t) PROVE status'[p] = "running"
  <2>1. PICK o \in {"resolved", "rejected"} : Settle(t, o)
    BY <1>3 DEF BodyEnds, Outcome
  <2>2. /\ status[t] = "running" /\ status'[t] = o
        /\ \A u \in Tasks \ {t} :
             status'[u] = status[u] \/ (status[u] = "queued" /\ status'[u] = "running")
    BY <1>0, <2>1, SettleStatus
  <2>3. c # t /\ status[c] \in {"queued", "running"}
    BY <1>0, <2>2
  <2>4. status[p] = "running"
    BY <1>0, <2>3
  <2>5. p # t
    BY <1>3, <2>3 DEF BodyEnds, Settled, Owed
  <2> QED BY <2>2, <2>4, <2>5
<1>4. ASSUME Environment PROVE status'[p] = "running"
  <2>1. status[c] \in {"queued", "running"}
    BY <1>0, <1>4, EnvironmentStatus
  <2> QED BY <1>0, <1>4, <2>1, EnvironmentStatus
<1> QED BY <1>1, <1>2, <1>3, <1>4 DEF RunNext

(* The cap of a lane nobody configures stays one, and the pump keeps to it. *)
LEMMA OneSlotStep ==
  ASSUME RunInv, RunNext
  PROVE  OneSlot'
<1>1. IInv /\ IInv' /\ CapStep
  BY RunNextIsNext, NextIInv DEF RunInv
<1>2. ASSUME NEW k \in Lanes \ ConfiguredLanes PROVE maxConcurrent'[k] = maxConcurrent[k]
  <2>1. maxConcurrent \in [Lanes -> Nat \ {0}]
    BY <1>1 DEF IInv, TypeOK
  <2>2. ASSUME NEW t \in Tasks, StartBody(t) \/ Call(t) PROVE maxConcurrent' = maxConcurrent
    BY <2>2 DEF StartBody, Call, EnqueueCommandInLane, RefuseWhileDraining, DrainLanes
  <2>3. ASSUME NEW t \in Tasks, BodyEnds(t) PROVE maxConcurrent' = maxConcurrent
    BY <2>3 DEF BodyEnds, Settle, SettleCurrent, SettleStale, DrainLanes
  <2>4. ASSUME NEW l \in ConfiguredLanes \cap Lanes, NEW n \in ConcurrencyInputs,
               SetCommandLaneConcurrency(l, n)
        PROVE  maxConcurrent'[k] = maxConcurrent[k]
    BY <2>1, <2>4 DEF SetCommandLaneConcurrency, DrainLanes
  <2>5. ASSUME \/ \E l \in Lanes : ClearCommandLane(l)
               \/ MarkGatewayDraining \/ ResetAllLanes
        PROVE  maxConcurrent' = maxConcurrent
    BY <2>5 DEF ClearCommandLane, MarkGatewayDraining, ResetAllLanes, DrainLanes
  <2> QED BY <2>2, <2>3, <2>4, <2>5 DEF RunNext, Environment
<1>3. ASSUME NEW k \in Lanes \ ConfiguredLanes
      PROVE  maxConcurrent'[k] = 1 /\ Cardinality(activeTaskIds'[k]) <= 1
  <2>1. /\ maxConcurrent[k] = 1 /\ Cardinality(activeTaskIds[k]) <= 1
        /\ maxConcurrent'[k] = 1
    BY <1>2 DEF RunInv, OneSlot
  <2>2. CASE activeTaskIds'[k] \subseteq activeTaskIds[k]
    <3>1. IsFiniteSet(activeTaskIds[k])
      BY <1>1, ConstantsAssumption, FS_Subset DEF IInv, TypeOK
    <3>2. /\ Cardinality(activeTaskIds'[k]) <= Cardinality(activeTaskIds[k])
          /\ IsFiniteSet(activeTaskIds'[k])
      BY <2>2, <3>1, FS_Subset
    <3>3. Cardinality(activeTaskIds'[k]) \in Nat /\ Cardinality(activeTaskIds[k]) \in Nat
      BY <3>1, <3>2, FS_CardinalityType
    <3> QED BY <2>1, <3>2, <3>3
  <2>3. CASE ~(activeTaskIds'[k] \subseteq activeTaskIds[k])
    BY <1>1, <2>1, <2>3 DEF CapStep
  <2> QED BY <2>1, <2>2, <2>3
<1> QED BY <1>3 DEF OneSlot

-----------------------------------------------------------------------------
(* Runs, compactions and queued cron runs use the lanes only through the   *)
(* operations of the command queue, so what is proved of it holds of them. *)
THEOREM RunsImplementLanes == RunSpec => Spec
<1>1. [RunNext]_laneVars => [Next]_laneVars
  BY RunNextIsNext
<1> QED BY <1>1, PTL DEF RunSpec, Spec

THEOREM RunInvariance == RunSpec => []RunInv
<1>1. RunInv /\ [RunNext]_laneVars => RunInv'
  <2>1. ASSUME RunInv, RunNext PROVE RunInv'
    BY <2>1, RunNextIsNext, NextIInv, BodiesAwaitStep, OneSlotStep DEF RunInv
  <2>2. ASSUME RunInv, UNCHANGED laneVars PROVE RunInv'
    <3>1. IInv'
      BY <2>2, SameLanes DEF RunInv
    <3> QED BY <2>2, <3>1 DEF RunInv, BodiesAwait, OneSlot, laneVars
  <2> QED BY <2>1, <2>2
<1> QED BY <1>1, InitRunInv, PTL DEF RunSpec

(* Of the runs queued through one session lane since the last restart in   *)
(* place, at most one is past it (runEmbeddedPiAgent's nesting): two such  *)
(* runs would both hold the lane's only slot.                              *)
THEOREM SessionsAreSerial == RunSpec => []OneRunPerSession
<1>1. RunInv => OneRunPerSession
  <2>1. SUFFICES ASSUME RunInv, NEW s \in Tasks, NEW r \in Tasks, s # r,
                        LaneOf[s] = LaneOf[r], LaneOf[s] \notin ConfiguredLanes,
                        Child[s] # NoTask, Child[r] # NoTask,
                        status[Child[s]] \in {"queued", "running"},
                        status[Child[r]] \in {"queued", "running"},
                        taskGeneration[s] = generation[LaneOf[s]],
                        taskGeneration[r] = generation[LaneOf[r]]
                 PROVE  FALSE
    BY DEF OneRunPerSession
  <2> DEFINE l == LaneOf[s]
  <2>2. l \in Lanes \ ConfiguredLanes
    BY <2>1, ConstantsAssumption
  <2>3. status[s] = "running" /\ status[r] = "running"
    BY <2>1 DEF RunInv, BodiesAwait
  <2>4. s \in activeTaskIds[l] /\ r \in activeTaskIds[l]
    BY <2>1, <2>2, <2>3 DEF RunInv, IInv, SlotsMatchRunning, InLane
  <2>5. IsFiniteSet(activeTaskIds[l]) /\ Cardinality(activeTaskIds[l]) <= 1
    BY <2>1, <2>2, ConstantsAssumption, FS_Subset DEF RunInv, IInv, TypeOK, OneSlot
  <2>6. Cardinality(activeTaskIds[l]) \in Nat
    BY <2>5, FS_CardinalityType
  <2>7. Cardinality({s, r}) = 2
    <3>1. IsFiniteSet({s}) /\ Cardinality({s}) = 1
      BY FS_Singleton
    <3>2. Cardinality({s} \cup {r}) = IF r \in {s} THEN Cardinality({s}) ELSE Cardinality({s}) + 1
      BY <3>1, FS_AddElement, Zenon
    <3>3. {s} \cup {r} = {s, r}
      OBVIOUS
    <3>4. r \notin {s}
      BY <2>1
    <3> QED BY <3>1, <3>2, <3>3, <3>4
  <2>8. Cardinality({s, r}) <= Cardinality(activeTaskIds[l])
    BY <2>4, <2>5, FS_Subset
  <2> QED BY <2>5, <2>6, <2>7, <2>8
<1> QED BY <1>1, RunInvariance, PTL
=============================================================================
