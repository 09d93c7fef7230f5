------------------------ MODULE FollowupQueue_proofs ------------------------
(***************************************************************************)
(* Proofs about FollowupQueue, for any messages, settings and queues: a    *)
(* collected prompt keeps its routing, but for what arrives between the    *)
(* check and the copy; as long as nothing falls out while a followup run   *)
(* is in flight, the line of a dropped message is kept, and every accepted *)
(* message ends in one prompt or in one drop.                              *)
(***************************************************************************)
EXTENDS FollowupQueue, FiniteSetTheorems, TLAPS

-----------------------------------------------------------------------------
(* Counting the places of a message.                                       *)

Places(s, m) == {i \in 1..Len(s) : s[i] = m}

LEMMA PlacesAreFinite ==
  ASSUME NEW S, NEW s \in Seq(S), NEW m
  PROVE  /\ IsFiniteSet(Places(s, m)) /\ CountIn(s, m) = Cardinality(Places(s, m))
         /\ CountIn(s, m) \in Nat
<1>1. IsFiniteSet(1..Len(s))
  BY FS_Interval
<1>2. IsFiniteSet(Places(s, m))
  BY <1>1, FS_Subset DEF Places
<1>3. CountIn(s, m) = Cardinality(Places(s, m))
  BY DEF CountIn, Places
<1> QED BY <1>2, <1>3, FS_CardinalityType

LEMMA CountInNothing == \A m : CountIn(<<>>, m) = 0
<1>1. \A m : {i \in 1..Len(<<>>) : <<>>[i] = m} = {}
  OBVIOUS
<1> QED BY <1>1, FS_EmptySet DEF CountIn

LEMMA CountAppend ==
  ASSUME NEW S, NEW s \in Seq(S), NEW x \in S, NEW m
  PROVE  CountIn(Append(s, x), m) = CountIn(s, m) + (IF x = m THEN 1 ELSE 0)
<1> DEFINE t == Append(s, x)
<1>1. t \in Seq(S) /\ Len(t) = Len(s) + 1 /\ Len(s) \in Nat /\ t[Len(s) + 1] = x
      /\ \A i \in 1..Len(s) : t[i] = s[i]
  OBVIOUS
<1> HIDE DEF t
<1>2. /\ IsFiniteSet(Places(s, m)) /\ CountIn(s, m) = Cardinality(Places(s, m))
      /\ CountIn(s, m) \in Nat /\ CountIn(t, m) = Cardinality(Places(t, m))
  BY <1>1, PlacesAreFinite
<1>3. CASE x = m
  <2>1. Places(t, m) = Places(s, m) \cup {Len(s) + 1} /\ Len(s) + 1 \notin Places(s, m)
    BY <1>1, <1>3 DEF Places
  <2>2. Cardinality(Places(t, m)) = Cardinality(Places(s, m)) + 1
    BY <1>2, <2>1, FS_AddElement
  <2> QED BY <1>2, <1>3, <2>2 DEF t
<1>4. CASE x # m
  <2>1. Places(t, m) = Places(s, m)
    BY <1>1, <1>4 DEF Places
  <2> QED BY <1>2, <1>4, <2>1 DEF t
<1> QED BY <1>3, <1>4

LEMMA CountSplit ==
  ASSUME NEW S, NEW s \in Seq(S), NEW n \in 0..Len(s), NEW m
  PROVE  CountIn(s, m) = CountIn(SubSeq(s, 1, n), m) + CountIn(SubSeq(s, n + 1, Len(s)), m)
<1> DEFINE a == SubSeq(s, 1, n)
<1> DEFINE b == SubSeq(s, n + 1, Len(s))
<1>1. /\ a \in Seq(S) /\ Len(a) = n /\ \A i \in 1..n : a[i] = s[i]
      /\ b \in Seq(S) /\ Len(b) = Len(s) - n /\ \A i \in 1..Len(b) : b[i] = s[n + i]
      /\ Len(s) \in Nat /\ n \in Nat /\ n <= Len(s)
  OBVIOUS
<1> HIDE DEF a, b
<1>2. /\ IsFiniteSet(Places(a, m)) /\ CountIn(a, m) = Cardinality(Places(a, m))
      /\ IsFiniteSet(Places(b, m)) /\ CountIn(b, m) = Cardinality(Places(b, m))
      /\ CountIn(s, m) = Cardinality(Places(s, m))
      /\ CountIn(a, m) \in Nat /\ CountIn(b, m) \in Nat
  BY <1>1, PlacesAreFinite
<1> DEFINE later == {i \in (n + 1)..Len(s) : s[i] = m}
<1> DEFINE shift == [i \in Places(b, m) |-> n + i]
<1>3. shift \in Bijection(Places(b, m), later)
  <2>1. shift \in [Places(b, m) -> later]
    <3>1. ASSUME NEW i \in Places(b, m) PROVE n + i \in later
      <4>1. i \in 1..Len(b) /\ s[n + i] = m
        BY <1>1 DEF Places
      <4> QED BY <1>1, <4>1
    <3> HIDE DEF later
    <3> QED BY <3>1
  <2>2. \A i, j \in Places(b, m) : shift[i] = shift[j] => i = j
    BY <1>1 DEF Places
  <2>3. \A k \in later : \E i \in Places(b, m) : shift[i] = k
    <3> TAKE k \in later
    <3>1. k - n \in Places(b, m) /\ n + (k - n) = k
      BY <1>1 DEF Places
    <3> QED BY <3>1
  <2> HIDE DEF shift, later
  <2> QED BY <2>1, <2>2, <2>3 DEF Bijection, Injection, Surjection, IsInjective
<1>4. IsFiniteSet(later) /\ Cardinality(later) = Cardinality(Places(b, m))
  BY <1>2, <1>3, FS_Bijection DEF ExistsBijection
<1>5. Places(s, m) = Places(a, m) \cup later /\ Places(a, m) \cap later = {}
  BY <1>1 DEF Places
<1> HIDE DEF later, shift
<1>6. Cardinality(Places(s, m)) = Cardinality(Places(a, m)) + Cardinality(later) - Cardinality({})
  BY <1>2, <1>4, <1>5, FS_Union
<1> QED BY <1>2, <1>4, <1>6, FS_EmptySet DEF a, b

(* The sum over one queue, and over none. *)
LEMMA PendingOfOne ==
  ASSUME NEW m, NEW c \in Queues, {i \in Queues : Live(i)} = {c},
         CountIn(queue[c].items, m) \in Nat
  PROVE  Pending(m) = CountIn(queue[c].items, m)
<1> DEFINE n == CountIn(queue[c].items, m)
<1> DEFINE F(f) == [s \in SUBSET {c} |->
        IF s = {} THEN 0
        ELSE LET x == CHOOSE x \in s : TRUE
             IN  CountIn(queue[x].items, m) + f[s \ {x}]]
<1> DEFINE sum == CHOOSE f : f = F(f)
<1>1. Pending(m) = sum[{c}]
  BY DEF Pending, MapThenSumSet, MapThenFoldSet
<1>2. \A f : F(f)[{}] = 0 /\ F(f)[{c}] = n + f[{}]
  <2> TAKE f
  <2>1. F(f)[{}] = 0
    OBVIOUS
  <2>2. (CHOOSE x \in {c} : TRUE) = c /\ {c} \ {c} = {} /\ {c} # {}
    OBVIOUS
  <2>3. F(f)[{c}] = n + f[{}]
    BY <2>2
  <2> QED BY <2>1, <2>3
<1>3. \E f : f = F(f)
  <2> DEFINE g == [s \in SUBSET {c} |-> IF s = {} THEN 0 ELSE n]
  <2>1. F(g) = [s \in SUBSET {c} |-> F(g)[s]]
    OBVIOUS
  <2>2. g[{}] = 0 /\ g[{c}] = n /\ n + g[{}] = n
    OBVIOUS
  <2>3. \A s \in SUBSET {c} : s = {} \/ s = {c}
    OBVIOUS
  <2>4. g = [s \in SUBSET {c} |-> g[s]]
    OBVIOUS
  <2>5. F(g)[{}] = 0 /\ F(g)[{c}] = n + g[{}]
    BY <1>2
  <2> HIDE DEF F, g, n
  <2>6. \A s \in SUBSET {c} : F(g)[s] = g[s]
    BY <2>2, <2>3, <2>5
  <2>7. g = F(g)
    BY <2>1, <2>4, <2>6
  <2> QED BY <2>7
<1> HIDE DEF F
<1>4. sum = F(sum)
  BY <1>3
<1> HIDE DEF sum
<1>5. sum[{}] = 0 /\ sum[{c}] = n + sum[{}]
  BY <1>2, <1>4
<1> QED BY <1>1, <1>5

LEMMA PendingOfNone ==
  ASSUME NEW m, {i \in Queues : Live(i)} = {}
  PROVE  Pending(m) = 0
<1> DEFINE F(f) == [s \in SUBSET {} |->
        IF s = {} THEN 0
        ELSE LET x == CHOOSE x \in s : TRUE
             IN  CountIn(queue[x].items, m) + f[s \ {x}]]
<1> DEFINE sum == CHOOSE f : f = F(f)
<1>1. Pending(m) = sum[{}]
  BY DEF Pending, MapThenSumSet, MapThenFoldSet
<1>2. \A f : F(f) = [s \in {{}} |-> 0]
  OBVIOUS
<1> HIDE DEF F
<1>3. sum = F(sum)
  BY <1>2
<1> QED BY <1>1, <1>2, <1>3

-----------------------------------------------------------------------------
(* The operators on queue objects.                                         *)

(* What a setting of a regime is sure to have. *)
IsSetting(s) == s.mode \in {"collect", "followup"} /\ s.dropPolicy \in {"summarize", "old", "new"}
                /\ s.cap \in Nat

LEMMA SettingsAre == ASSUME regime \in Regimes, NEW s \in regime.settings PROVE IsSetting(s)
BY FollowupAssumption DEF IsSetting

(* The changes of fields, named so that the facts about them can be cited. *)
WithItems(q, x) == [q EXCEPT !.items = x]
WithSummary(q, n, y) == [q EXCEPT !.droppedCount = n, !.summaryLines = y]
WithLastRun(q) == [q EXCEPT !.lastRun = TRUE]
WithMessages(q, x) == [q EXCEPT !.items = x, !.lastRun = TRUE]
WithSettings(q, m, d, c) == [q EXCEPT !.mode = m, !.dropPolicy = d, !.cap = c]
Emptied(q, x, n) ==
  [q EXCEPT !.items = x, !.droppedCount = n, !.summaryLines = x, !.lastRun = FALSE]

LEMMA ItemsSet ==
  ASSUME NEW q \in QueueRecords, NEW x \in Seq(Messages)
  PROVE  /\ WithItems(q, x) \in QueueRecords
         /\ WithItems(q, x).items = x
         /\ WithItems(q, x).summaryLines = q.summaryLines
         /\ WithItems(q, x).droppedCount = q.droppedCount
         /\ WithItems(q, x).mode = q.mode /\ WithItems(q, x).dropPolicy = q.dropPolicy
BY DEF QueueRecords, WithItems

LEMMA SummarySet ==
  ASSUME NEW q \in QueueRecords, NEW n \in Nat, NEW y \in Seq(Messages)
  PROVE  /\ WithSummary(q, n, y) \in QueueRecords
         /\ WithSummary(q, n, y).items = q.items
         /\ WithSummary(q, n, y).summaryLines = y
         /\ WithSummary(q, n, y).droppedCount = n
         /\ WithSummary(q, n, y).mode = q.mode /\ WithSummary(q, n, y).dropPolicy = q.dropPolicy
BY DEF QueueRecords, WithSummary

LEMMA LastRunSet ==
  ASSUME NEW q \in QueueRecords
  PROVE  /\ WithLastRun(q) \in QueueRecords
         /\ WithLastRun(q).items = q.items
         /\ WithLastRun(q).summaryLines = q.summaryLines
         /\ WithLastRun(q).droppedCount = q.droppedCount
         /\ WithLastRun(q).mode = q.mode /\ WithLastRun(q).dropPolicy = q.dropPolicy
BY DEF QueueRecords, WithLastRun

LEMMA MessagesSet ==
  ASSUME NEW q \in QueueRecords, NEW x \in Seq(Messages)
  PROVE  /\ WithMessages(q, x) \in QueueRecords
         /\ WithMessages(q, x).items = x
         /\ WithMessages(q, x).summaryLines = q.summaryLines
         /\ WithMessages(q, x).droppedCount = q.droppedCount
         /\ WithMessages(q, x).mode = q.mode /\ WithMessages(q, x).dropPolicy = q.dropPolicy
BY DEF QueueRecords, WithMessages

LEMMA SettingsSet ==
  ASSUME NEW q \in QueueRecords, NEW m \in {"collect", "followup"},
         NEW d \in {"summarize", "old", "new"}, NEW c \in Nat \ {0}
  PROVE  /\ WithSettings(q, m, d, c) \in QueueRecords
         /\ WithSettings(q, m, d, c).items = q.items
         /\ WithSettings(q, m, d, c).summaryLines = q.summaryLines
         /\ WithSettings(q, m, d, c).droppedCount = q.droppedCount
BY DEF QueueRecords, WithSettings

LEMMA SettingsStyle ==
  ASSUME NEW q \in QueueRecords, NEW m, NEW d, NEW c
  PROVE  WithSettings(q, m, d, c).mode = m /\ WithSettings(q, m, d, c).dropPolicy = d
BY DEF QueueRecords, WithSettings

LEMMA AllCleared ==
  ASSUME NEW q \in QueueRecords, NEW x \in Seq(Messages), NEW n \in Nat
  PROVE  /\ Emptied(q, x, n) \in QueueRecords
         /\ Emptied(q, x, n).items = x /\ Emptied(q, x, n).summaryLines = x
         /\ Emptied(q, x, n).mode = q.mode /\ Emptied(q, x, n).dropPolicy = q.dropPolicy
BY DEF QueueRecords, Emptied

LEMMA ConfiguredIs ==
  ASSUME NEW q \in QueueRecords, NEW s, IsSetting(s)
  PROVE  /\ Configured(q, s) \in QueueRecords
         /\ Configured(q, s).items = q.items
         /\ Configured(q, s).summaryLines = q.summaryLines
         /\ Configured(q, s).droppedCount = q.droppedCount
         /\ Configured(q, s).mode = s.mode /\ Configured(q, s).dropPolicy = s.dropPolicy
<1> DEFINE c == IF s.cap > 0 THEN s.cap ELSE q.cap
<1>1. c \in Nat \ {0}
  BY DEF IsSetting, QueueRecords
<1>2. Configured(q, s) = WithSettings(q, s.mode, s.dropPolicy, c)
  BY DEF Configured, WithSettings
<1> DEFINE m == s.mode
<1> DEFINE d == s.dropPolicy
<1>3. m \in {"collect", "followup"} /\ d \in {"summarize", "old", "new"}
  BY DEF IsSetting
<1>4. Configured(q, s) = WithSettings(q, m, d, c) /\ m = s.mode /\ d = s.dropPolicy
  BY <1>2
<1> HIDE DEF c, m, d
<1>5. /\ WithSettings(q, m, d, c) \in QueueRecords
      /\ WithSettings(q, m, d, c).items = q.items
      /\ WithSettings(q, m, d, c).summaryLines = q.summaryLines
      /\ WithSettings(q, m, d, c).droppedCount = q.droppedCount
  BY <1>1, <1>3, SettingsSet
<1>6. WithSettings(q, m, d, c).mode = m /\ WithSettings(q, m, d, c).dropPolicy = d
  BY SettingsStyle
<1> QED BY <1>4, <1>5, <1>6

LEMMA NewQueueIs ==
  ASSUME NEW s, IsSetting(s)
  PROVE  /\ NewQueue(s) \in QueueRecords
         /\ NewQueue(s).items = <<>>
         /\ NewQueue(s).summaryLines = <<>>
         /\ NewQueue(s).droppedCount = 0
         /\ NewQueue(s).mode = s.mode /\ NewQueue(s).dropPolicy = s.dropPolicy
<1> DEFINE q == [items |-> <<>>, mode |-> s.mode, dropPolicy |-> s.dropPolicy,
                 cap |-> DefaultCap, droppedCount |-> 0, summaryLines |-> <<>>,
                 lastRun |-> FALSE]
<1>1. q \in QueueRecords /\ q.items = <<>> /\ q.summaryLines = <<>> /\ q.droppedCount = 0
  BY DEF QueueRecords, IsSetting, DefaultCap
<1>2. NewQueue(s) = Configured(q, s)
  BY DEF NewQueue
<1> HIDE DEF q
<1> QED BY <1>1, <1>2, ConfiguredIs

LEMMA ClearedIs ==
  ASSUME NEW q \in QueueRecords
  PROVE  /\ Cleared(q) \in QueueRecords
         /\ Cleared(q).items = <<>> /\ Cleared(q).summaryLines = <<>>
         /\ Cleared(q).mode = q.mode /\ Cleared(q).dropPolicy = q.dropPolicy
<1> DEFINE none == <<>>
<1>1. none \in Seq(Messages)
  OBVIOUS
<1>2. Cleared(q) = Emptied(q, none, 0)
  BY DEF Cleared, Emptied
<1> HIDE DEF none
<1>3. /\ Cleared(q) \in QueueRecords
      /\ Cleared(q).items = none /\ Cleared(q).summaryLines = none
      /\ Cleared(q).mode = q.mode /\ Cleared(q).dropPolicy = q.dropPolicy
  BY <1>1, <1>2, AllCleared
<1> QED BY <1>3 DEF none

LEMMA SubSeqIs ==
  ASSUME NEW S, NEW s \in Seq(S), NEW a \in Nat \ {0}, NEW b \in Nat, b <= Len(s)
  PROVE  SubSeq(s, a, b) \in Seq(S)
OBVIOUS

LEMMA OverflowIs ==
  ASSUME NEW q \in QueueRecords
  PROVE  /\ Overflow(q) \in Seq(Messages)
         /\ Len(Overflow(q)) <= Len(q.items)
         /\ SubSeq(q.items, Len(Overflow(q)) + 1, Len(q.items)) \in Seq(Messages)
<1>1. q.items \in Seq(Messages) /\ Len(q.items) \in Nat /\ q.cap \in Nat \ {0}
  BY DEF QueueRecords
<1>2. CASE Len(q.items) < q.cap
  BY <1>1, <1>2, SubSeqIs DEF Overflow
<1>3. CASE ~(Len(q.items) < q.cap)
  <2> DEFINE n == Len(q.items) - q.cap + 1
  <2>1. n \in Nat /\ n <= Len(q.items)
    BY <1>1, <1>3
  <2>2. Overflow(q) = SubSeq(q.items, 1, n)
    BY <1>3 DEF Overflow
  <2>3. SubSeq(q.items, 1, n) \in Seq(Messages) /\ Len(SubSeq(q.items, 1, n)) = n
    BY <1>1, <2>1
  <2> HIDE DEF n
  <2>4. SubSeq(q.items, n + 1, Len(q.items)) \in Seq(Messages)
    BY <1>1, <2>1, SubSeqIs
  <2> QED BY <2>1, <2>2, <2>3, <2>4
<1> QED BY <1>2, <1>3

LEMMA KeptLinesAre ==
  ASSUME NEW q \in QueueRecords
  PROVE  AllLines(q) \in Seq(Messages) /\ KeptLines(q) \in Seq(Messages)
<1>1. AllLines(q) \in Seq(Messages) /\ q.cap \in Nat \ {0}
  BY OverflowIs DEF AllLines, QueueRecords
<1>2. CASE Len(AllLines(q)) <= q.cap
  BY <1>1, <1>2 DEF KeptLines
<1>3. CASE ~(Len(AllLines(q)) <= q.cap)
  <2> DEFINE n == Len(AllLines(q)) - q.cap + 1
  <2>1. n \in Nat \ {0} /\ Len(AllLines(q)) \in Nat
    BY <1>1, <1>3
  <2>2. KeptLines(q) = SubSeq(AllLines(q), n, Len(AllLines(q)))
    BY <1>3 DEF KeptLines
  <2> HIDE DEF n
  <2> QED BY <1>1, <2>1, <2>2, SubSeqIs
<1> QED BY <1>2, <1>3

LEMMA WithoutOverflowIs ==
  ASSUME NEW q \in QueueRecords
  PROVE  /\ WithoutOverflow(q) \in QueueRecords
         /\ WithoutOverflow(q).items = SubSeq(q.items, Len(Overflow(q)) + 1, Len(q.items))
         /\ WithoutOverflow(q).mode = q.mode /\ WithoutOverflow(q).dropPolicy = q.dropPolicy
         /\ q.dropPolicy # "summarize" =>
              /\ WithoutOverflow(q).summaryLines = q.summaryLines
              /\ WithoutOverflow(q).droppedCount = q.droppedCount
         /\ q.dropPolicy = "summarize" =>
              /\ WithoutOverflow(q).summaryLines = KeptLines(q)
              /\ WithoutOverflow(q).droppedCount = q.droppedCount + Len(Overflow(q))
<1> DEFINE left == SubSeq(q.items, Len(Overflow(q)) + 1, Len(q.items))
<1> DEFINE rest == WithItems(q, left)
<1>1. Len(Overflow(q)) \in Nat
  BY OverflowIs
<1>2. /\ rest \in QueueRecords /\ rest.items = left
      /\ rest.mode = q.mode /\ rest.dropPolicy = q.dropPolicy
      /\ rest.summaryLines = q.summaryLines /\ rest.droppedCount = q.droppedCount
  BY OverflowIs, ItemsSet
<1>3. CASE q.dropPolicy # "summarize"
  <2>1. WithoutOverflow(q) = rest
    BY <1>3 DEF WithoutOverflow, WithItems
  <2> HIDE DEF rest
  <2> QED BY <1>2, <1>3, <2>1
<1>4. CASE q.dropPolicy = "summarize"
  <2> DEFINE n == rest.droppedCount + Len(Overflow(q))
  <2>1. WithoutOverflow(q) = WithSummary(rest, n, KeptLines(q))
    BY <1>4 DEF WithoutOverflow, WithItems, WithSummary
  <2>2. n \in Nat /\ n = q.droppedCount + Len(Overflow(q))
    BY <1>1, <1>2 DEF QueueRecords
  <2> HIDE DEF left, rest, n
  <2>3. /\ WithSummary(rest, n, KeptLines(q)) \in QueueRecords
        /\ WithSummary(rest, n, KeptLines(q)).summaryLines = KeptLines(q)
        /\ WithSummary(rest, n, KeptLines(q)).droppedCount = n
    BY <1>2, <2>2, KeptLinesAre, SummarySet
  <2>4. WithSummary(rest, n, KeptLines(q)).items = rest.items
    BY <1>2, <2>2, KeptLinesAre, SummarySet
  <2>5. /\ WithSummary(rest, n, KeptLines(q)).mode = rest.mode
        /\ WithSummary(rest, n, KeptLines(q)).dropPolicy = rest.dropPolicy
    BY <1>2, <2>2, KeptLinesAre, SummarySet
  <2> QED BY <1>2, <1>4, <2>1, <2>2, <2>3, <2>4, <2>5 DEF left
<1> QED BY <1>3, <1>4

LEMMA AfterRunIs ==
  ASSUME NEW q \in QueueRecords, NEW d \in DrainRecords
  PROVE  /\ AfterRun(q, d) \in QueueRecords
         /\ AfterRun(q, d).items = SubSeq(q.items, d.taken + 1, Len(q.items))
         /\ AfterRun(q, d).mode = q.mode /\ AfterRun(q, d).dropPolicy = q.dropPolicy
         /\ ~d.summary => /\ AfterRun(q, d).summaryLines = q.summaryLines
                          /\ AfterRun(q, d).droppedCount = q.droppedCount
         /\ d.summary => /\ AfterRun(q, d).summaryLines = <<>>
                         /\ AfterRun(q, d).droppedCount = 0
<1> DEFINE left == SubSeq(q.items, d.taken + 1, Len(q.items))
<1> DEFINE rest == WithItems(q, left)
<1>1. SubSeq(q.items, d.taken + 1, Len(q.items)) \in Seq(Messages)
  BY SubSeqIs DEF QueueRecords, DrainRecords
<1>2. /\ rest \in QueueRecords /\ rest.items = left
      /\ rest.mode = q.mode /\ rest.dropPolicy = q.dropPolicy
      /\ rest.summaryLines = q.summaryLines /\ rest.droppedCount = q.droppedCount
  BY <1>1, ItemsSet
<1>3. d.summary \in BOOLEAN
  BY DEF DrainRecords
<1>4. CASE d.summary
  <2> DEFINE none == <<>>
  <2>1. none \in Seq(Messages)
    OBVIOUS
  <2>2. AfterRun(q, d) = WithSummary(rest, 0, none)
    BY <1>4 DEF AfterRun, WithItems, WithSummary
  <2> HIDE DEF left, rest, none
  <2>3. /\ AfterRun(q, d) \in QueueRecords /\ AfterRun(q, d).items = rest.items
        /\ AfterRun(q, d).mode = rest.mode /\ AfterRun(q, d).dropPolicy = rest.dropPolicy
        /\ AfterRun(q, d).summaryLines = none /\ AfterRun(q, d).droppedCount = 0
    BY <1>2, <2>1, <2>2, SummarySet
  <2>4. AfterRun(q, d).items = left
    BY <1>2, <2>3
  <2> QED BY <1>2, <1>4, <2>3, <2>4 DEF none, left
<1>5. CASE ~d.summary
  <2>1. AfterRun(q, d) = rest
    BY <1>5 DEF AfterRun, WithItems
  <2> HIDE DEF rest
  <2> QED BY <1>2, <1>5, <2>1
<1> QED BY <1>3, <1>4, <1>5

-----------------------------------------------------------------------------
(* Types of the queue objects and of the loops that drain them.            *)

QueueTypes ==
  /\ regime \in Regimes
  /\ current \in Queues \cup {None}
  /\ queue \in [Queues -> QueueRecords]
  /\ drain \in [Queues -> DrainRecords]

CountTypes ==
  /\ late \in [Queues -> SUBSET Messages]
  /\ recent \in SUBSET Messages
  /\ replyRun \in {"none", "running", "finishing"}
  /\ accepted \in [Messages -> Nat] /\ delivered \in [Messages -> Nat]
  /\ discarded \in [Messages -> Nat]
  /\ unreported \in SUBSET Messages

LEMMA NoneIsNoQueue == None \notin Queues
BY FollowupAssumption DEF None, Queues

LEMMA LoopsStart == /\ Resting \in DrainRecords /\ Resting.at = "idle"
                    /\ Debouncing \in DrainRecords /\ Debouncing.at = "debounce"
<1>1. Resting \in DrainRecords /\ Resting.at = "idle"
  BY DEF Resting, DrainRecords, Phases
<1>2. \A d \in DrainRecords : [d EXCEPT !.at = "debounce"] \in DrainRecords
  BY DEF DrainRecords, Phases
<1>3. \A d \in DrainRecords : [d EXCEPT !.at = "debounce"].at = "debounce"
  BY DEF DrainRecords
<1> QED BY <1>1, <1>2, <1>3, Zenon DEF Debouncing

IndividualLoop(d, b) == [d EXCEPT !.individually = b]
LEMMA LoopsGoOn ==
  ASSUME NEW d \in DrainRecords, NEW b \in BOOLEAN
  PROVE  IndividualLoop(d, b) \in DrainRecords /\ IndividualLoop(d, b).at = d.at
<1>1. IndividualLoop(d, b) \in DrainRecords
  BY DEF IndividualLoop, DrainRecords
<1>2. IndividualLoop(d, b).at = d.at
  BY DEF IndividualLoop, DrainRecords
<1> QED BY <1>1, <1>2

CheckedLoop(d) == [d EXCEPT !.at = "checked"]
LEMMA LoopsCheck ==
  ASSUME NEW d \in DrainRecords
  PROVE  CheckedLoop(d) \in DrainRecords /\ CheckedLoop(d).at = "checked"
<1>1. CheckedLoop(d) \in DrainRecords
  BY DEF CheckedLoop, DrainRecords, Phases
<1>2. CheckedLoop(d).at = "checked"
  BY DEF CheckedLoop, DrainRecords
<1> QED BY <1>1, <1>2

RunningLoop(p, n, b, c, l) ==
  [at |-> "running", prompt |-> p, taken |-> n, summary |-> b, shown |-> l, individually |-> c]
LEMMA LoopsRun ==
  ASSUME NEW p \in Seq(Messages), NEW n \in Nat, NEW b \in BOOLEAN, NEW c \in BOOLEAN,
         NEW l \in Seq(Messages)
  PROVE  /\ RunningLoop(p, n, b, c, l) \in DrainRecords
         /\ RunningLoop(p, n, b, c, l).at = "running"
         /\ RunningLoop(p, n, b, c, l).prompt = p
         /\ RunningLoop(p, n, b, c, l).taken = n
         /\ RunningLoop(p, n, b, c, l).shown = l
         /\ RunningLoop(p, n, b, c, l).summary = b
BY DEF RunningLoop, DrainRecords, Phases

(* What scheduleFollowupDrain does. *)
LEMMA ScheduleEffect ==
  ASSUME current \in Queues \cup {None}, NEW ds \in [Queues -> DrainRecords], NEW qs,
         ScheduleFollowupDrain(ds, qs)
  PROVE  /\ drain' \in [Queues -> DrainRecords]
         /\ \A j \in Queues : j # current => drain'[j] = ds[j]
         /\ current = None => current' = None
         /\ current # None /\ ds[current].at # "idle" =>
              current' = current /\ drain'[current] = ds[current]
         /\ current # None /\ ds[current].at = "idle" /\ HasWork(qs[current]) =>
              current' = current /\ drain'[current] = Debouncing
         /\ current # None /\ ds[current].at = "idle" /\ ~HasWork(qs[current]) =>
              current' = None /\ drain'[current] = ds[current]
<1>1. CASE current = None
  BY <1>1, NoneIsNoQueue DEF ScheduleFollowupDrain
<1>2. CASE current # None /\ ds[current].at # "idle"
  BY <1>2 DEF ScheduleFollowupDrain
<1>3. CASE current # None /\ ds[current].at = "idle" /\ HasWork(qs[current])
  BY <1>3, LoopsStart DEF ScheduleFollowupDrain
<1>4. CASE current # None /\ ds[current].at = "idle" /\ ~HasWork(qs[current])
  BY <1>4 DEF ScheduleFollowupDrain
<1> QED BY <1>1, <1>2, <1>3, <1>4

(* What the finally block of a loop does. *)
LEMMA FinishEffect ==
  ASSUME QueueTypes, NEW i \in Queues, NEW qs, FinishDrain(i, qs)
  PROVE  /\ queue' = qs
         /\ current' \in {current, None}
         /\ drain' \in [Queues -> DrainRecords]
         /\ \A j \in Queues : drain'[j] \in {drain[j], Resting, Debouncing}
         /\ drain'[i] \in {Resting, Debouncing}
         /\ current = i => /\ \A j \in Queues : j # i => drain'[j] = drain[j]
                           /\ HasWork(qs[i]) => current' = i
                           /\ ~HasWork(qs[i]) => current' = None /\ drain'[i] = Resting
<1> DEFINE ds == [drain EXCEPT ![i] = Resting]
<1>1. /\ ds \in [Queues -> DrainRecords] /\ ds[i] = Resting
      /\ \A j \in Queues : j # i => ds[j] = drain[j]
  BY LoopsStart DEF QueueTypes
<1>2. queue' = qs /\ current \in Queues \cup {None}
  BY DEF FinishDrain, QueueTypes
<1>3. CASE HasWork(qs[i])
  <2>1. ScheduleFollowupDrain(ds, qs)
    BY <1>3 DEF FinishDrain
  <2> HIDE DEF ds
  <2>2. /\ drain' \in [Queues -> DrainRecords]
        /\ current' \in {current, None}
        /\ \A j \in Queues : drain'[j] \in {ds[j], Debouncing}
        /\ current = i => current' = i /\ \A j \in Queues : j # i => drain'[j] = ds[j]
    BY <1>1, <1>2, <1>3, <2>1, ScheduleEffect, LoopsStart, NoneIsNoQueue
  <2> QED BY <1>1, <1>2, <1>3, <2>2
<1>4. CASE ~HasWork(qs[i])
  <2>1. drain' = ds /\ current' = None
    BY <1>4 DEF FinishDrain
  <2> HIDE DEF ds
  <2> QED BY <1>1, <1>2, <1>4, <2>1
<1> QED BY <1>3, <1>4

(* What a step of loop i does to the loops and to the session's queue: when *)
(* i drains the current queue, the others are left alone, and the queue     *)
(* stays current as long as the loop goes on.                               *)
LoopMoves(i) ==
  /\ QueueTypes'
  /\ current' \in {current, None}
  /\ \A j \in Queues : j # i => queue'[j] = queue[j]
  /\ \A j \in Queues : j # i => drain'[j] \in {drain[j], Resting, Debouncing}
  /\ current = i => /\ \A j \in Queues : j # i => drain'[j] = drain[j]
                    /\ drain'[i].at # "idle" => current' = i

LEMMA FinishMoves ==
  ASSUME QueueTypes, NEW i \in Queues, NEW q \in QueueRecords, regime' = regime,
         FinishDrain(i, [queue EXCEPT ![i] = q])
  PROVE  /\ LoopMoves(i)
         /\ queue'[i] = q
         /\ drain'[i].at \in {"idle", "debounce"}
         /\ current = i /\ HasWork(q) => current' = i
<1> DEFINE qs == [queue EXCEPT ![i] = q]
<1>1. qs \in [Queues -> QueueRecords] /\ qs[i] = q /\ \A j \in Queues : j # i => qs[j] = queue[j]
  BY DEF QueueTypes
<1> HIDE DEF qs
<1>2. /\ queue' = qs /\ current' \in {current, None} /\ drain' \in [Queues -> DrainRecords]
      /\ \A j \in Queues : drain'[j] \in {drain[j], Resting, Debouncing}
      /\ drain'[i] \in {Resting, Debouncing}
      /\ current = i => /\ \A j \in Queues : j # i => drain'[j] = drain[j]
                        /\ HasWork(qs[i]) => current' = i
                        /\ ~HasWork(qs[i]) => current' = None /\ drain'[i] = Resting
  BY FinishEffect DEF qs
<1>3. QueueTypes'
  BY <1>1, <1>2 DEF QueueTypes
<1>4. drain'[i].at \in {"idle", "debounce"} /\ (drain'[i] = Resting => drain'[i].at = "idle")
  BY <1>2, LoopsStart
<1> QED BY <1>1, <1>2, <1>3, <1>4 DEF LoopMoves

LEMMA StartMoves ==
  ASSUME QueueTypes, NEW i \in Queues, regime' = regime,
         NEW p \in Seq(Messages), NEW n \in Nat, NEW b \in BOOLEAN, NEW c \in BOOLEAN,
         StartRun(i, p, n, b, c)
  PROVE  /\ LoopMoves(i)
         /\ queue' = queue /\ current' = current
         /\ drain'[i].at = "running" /\ drain'[i].prompt = p /\ drain'[i].taken = n
         /\ drain'[i].summary => drain'[i].shown = queue[i].summaryLines
<1> DEFINE l == IF b THEN queue[i].summaryLines ELSE <<>>
<1>1. l \in Seq(Messages) /\ (b => l = queue[i].summaryLines)
  BY DEF QueueTypes, QueueRecords
<1>2. drain' = [drain EXCEPT ![i] = RunningLoop(p, n, b, c, l)] /\ queue' = queue /\ current' = current
  BY DEF StartRun, RunningLoop
<1> HIDE DEF l
<1>3. /\ RunningLoop(p, n, b, c, l) \in DrainRecords
      /\ RunningLoop(p, n, b, c, l).at = "running"
      /\ RunningLoop(p, n, b, c, l).prompt = p
      /\ RunningLoop(p, n, b, c, l).taken = n
      /\ RunningLoop(p, n, b, c, l).shown = l
      /\ RunningLoop(p, n, b, c, l).summary = b
  BY <1>1, LoopsRun
<1>4. /\ drain' \in [Queues -> DrainRecords]
      /\ drain'[i] = RunningLoop(p, n, b, c, l)
      /\ \A j \in Queues : j # i => drain'[j] = drain[j]
  BY <1>2, <1>3 DEF QueueTypes
<1>5. QueueTypes'
  BY <1>2, <1>4 DEF QueueTypes
<1> QED BY <1>1, <1>2, <1>3, <1>4, <1>5 DEF LoopMoves

(* The prompt of a run shows the items it stands for, at the front of the   *)
(* queue, or none of them: a summary in the stead of the head item.         *)
Taken(q, d) == d.taken <= Len(q.items)
Shown(q, d) == d.prompt = SubSeq(q.items, 1, d.taken)
TakesShown(q, d) == Taken(q, d) /\ (d.prompt = <<>> \/ Shown(q, d))

LEMMA NextMoves ==
  ASSUME QueueTypes, NEW i \in Queues, regime' = regime, NEW b \in BOOLEAN, NEW c \in BOOLEAN,
         DrainNext(i, b, c)
  PROVE  /\ LoopMoves(i)
         /\ queue' = queue
         /\ drain'[i].at \in {"idle", "debounce", "running"}
         /\ current = i /\ HasWork(queue[i]) => current' = i
         /\ drain'[i].at = "running" =>
              /\ Len(drain'[i].prompt) <= 1
              /\ TakesShown(queue[i], drain'[i])
              /\ ~b => Shown(queue[i], drain'[i])
              /\ drain'[i].summary => drain'[i].shown = queue[i].summaryLines
<1>1. CASE queue[i].items = <<>>
  <2>1. queue = [queue EXCEPT ![i] = queue[i]] /\ queue[i] \in QueueRecords
    BY DEF QueueTypes
  <2>2. FinishDrain(i, queue)
    BY <1>1 DEF DrainNext
  <2>3. queue' = queue
    BY <2>2 DEF FinishDrain
  <2> QED BY <2>1, <2>2, <2>3, FinishMoves
<1>2. CASE queue[i].items # <<>>
  <2> DEFINE p == IF b THEN <<>> ELSE <<Head(queue[i].items)>>
  <2>1. StartRun(i, p, 1, b, c)
    BY <1>2 DEF DrainNext
  <2>2. queue[i].items \in Seq(Messages)
    BY DEF QueueTypes, QueueRecords
  <2>3. /\ p \in Seq(Messages) /\ Len(p) <= 1
        /\ Len(queue[i].items) \in Nat /\ 1 <= Len(queue[i].items)
    BY <1>2, <2>2
  <2>4. p = <<>> \/ p = SubSeq(queue[i].items, 1, 1)
    BY <1>2, <2>2
  <2>5. ~b => p = SubSeq(queue[i].items, 1, 1)
    BY <1>2, <2>2
  <2> HIDE DEF p
  <2>6. /\ LoopMoves(i)
        /\ queue' = queue /\ current' = current
        /\ drain'[i].at = "running" /\ drain'[i].prompt = p /\ drain'[i].taken = 1
        /\ drain'[i].summary => drain'[i].shown = queue[i].summaryLines
    BY <2>1, <2>3, StartMoves
  <2> QED BY <2>3, <2>4, <2>5, <2>6 DEF TakesShown, Taken, Shown
<1> QED BY <1>1, <1>2

LEMMA DueIsBoolean == ASSUME NEW q \in QueueRecords PROVE SummaryDue(q) \in BOOLEAN
BY DEF SummaryDue

(* Only collected batches are summarized: no single item gives its place to *)
(* a summary.                                                               *)
SummarizesBatches(q) == q.mode = "collect" \/ q.dropPolicy # "summarize"

(* The three steps a loop makes between its awaits. *)
LEMMA DebounceMoves ==
  ASSUME QueueTypes, NEW i \in Queues, DebounceEnds(i)
  PROVE  /\ LoopMoves(i)
         /\ queue' = queue /\ UNCHANGED ghosts
         /\ drain[i].at = "debounce"
         /\ current = i /\ HasWork(queue[i]) => current' = i
         /\ drain'[i].at = "checked" => ~HasCrossChannelItems(Elements(queue[i].items))
         /\ drain'[i].at = "running" =>
              /\ Len(drain'[i].prompt) <= 1
              /\ TakesShown(queue[i], drain'[i])
              /\ SummarizesBatches(queue[i]) => Shown(queue[i], drain'[i])
              /\ drain'[i].summary => drain'[i].shown = queue[i].summaryLines
<1>1. regime' = regime /\ UNCHANGED ghosts /\ drain[i].at = "debounce"
  BY DEF DebounceEnds, ghosts
<1>2. queue[i] \in QueueRecords /\ drain[i] \in DrainRecords /\ drain[i].individually \in BOOLEAN
  BY DEF QueueTypes, DrainRecords
<1>3. CASE DrainNext(i, FALSE, TRUE)
  BY <1>1, <1>3, NextMoves
<1>4. CASE queue[i].mode # "collect" /\ DrainNext(i, SummaryDue(queue[i]), drain[i].individually)
  <2>1. SummarizesBatches(queue[i]) => ~SummaryDue(queue[i])
    BY <1>4 DEF SummarizesBatches, SummaryDue
  <2> QED BY <1>1, <1>2, <1>4, <2>1, DueIsBoolean, NextMoves
<1>5. CASE /\ ~HasCrossChannelItems(Elements(queue[i].items))
           /\ drain' = [drain EXCEPT ![i].at = "checked"]
           /\ UNCHANGED <<queue, current>>
  <2>1. drain' = [drain EXCEPT ![i] = CheckedLoop(drain[i])]
    BY <1>5 DEF CheckedLoop
  <2>2. CheckedLoop(drain[i]) \in DrainRecords /\ CheckedLoop(drain[i]).at = "checked"
    BY <1>2, LoopsCheck
  <2>3. /\ drain' \in [Queues -> DrainRecords] /\ drain'[i] = CheckedLoop(drain[i])
        /\ \A j \in Queues : j # i => drain'[j] = drain[j]
    BY <2>1, <2>2 DEF QueueTypes
  <2>4. QueueTypes'
    BY <1>1, <1>5, <2>3 DEF QueueTypes
  <2> QED BY <1>1, <1>5, <2>2, <2>3, <2>4 DEF LoopMoves
<1> QED BY <1>3, <1>4, <1>5 DEF DebounceEnds

LEMMA CollectMoves ==
  ASSUME QueueTypes, NEW i \in Queues, CollectItems(i)
  PROVE  /\ LoopMoves(i)
         /\ queue' = queue /\ UNCHANGED ghosts
         /\ drain[i].at = "checked"
         /\ drain'[i].at \in {"idle", "debounce", "running"}
         /\ current = i /\ HasWork(queue[i]) => current' = i
         /\ drain'[i].at = "running" =>
              /\ drain'[i].prompt = queue[i].items
              /\ Taken(queue[i], drain'[i]) /\ Shown(queue[i], drain'[i])
              /\ drain'[i].summary => drain'[i].shown = queue[i].summaryLines
<1>1. regime' = regime /\ UNCHANGED ghosts /\ drain[i].at = "checked"
  BY DEF CollectItems, ghosts
<1>2. /\ queue[i] \in QueueRecords /\ queue[i].items \in Seq(Messages)
      /\ Len(queue[i].items) \in Nat /\ SummaryDue(queue[i]) \in BOOLEAN
  BY DueIsBoolean DEF QueueTypes, QueueRecords
<1>3. CASE FinishDrain(i, queue)
  <2>1. queue = [queue EXCEPT ![i] = queue[i]] /\ queue' = queue
    BY <1>3 DEF QueueTypes, FinishDrain
  <2> QED BY <1>1, <1>2, <1>3, <2>1, FinishMoves
<1>4. CASE StartRun(i, queue[i].items, Len(queue[i].items), SummaryDue(queue[i]), FALSE)
  <2> DEFINE p == queue[i].items
  <2> DEFINE n == Len(queue[i].items)
  <2> DEFINE b == SummaryDue(queue[i])
  <2> DEFINE c == FALSE
  <2>1. /\ p \in Seq(Messages) /\ n \in Nat /\ b \in BOOLEAN /\ c \in BOOLEAN
        /\ StartRun(i, p, n, b, c)
    BY <1>2, <1>4
  <2> HIDE DEF p, n, b, c
  <2>2. /\ LoopMoves(i)
        /\ queue' = queue /\ current' = current
        /\ drain'[i].at = "running" /\ drain'[i].prompt = p
        /\ drain'[i].summary => drain'[i].shown = queue[i].summaryLines
    BY <1>1, <2>1, StartMoves
  <2>3. drain'[i].taken = n
    BY <1>1, <2>1, StartMoves
  <2>4. /\ n \in Nat /\ n <= Len(queue[i].items)
        /\ queue[i].items = SubSeq(queue[i].items, 1, n)
    <3>1. \A x \in Seq(Messages) : Len(x) \in Nat /\ x = SubSeq(x, 1, Len(x))
      OBVIOUS
    <3> QED BY <1>2, <3>1 DEF n
  <2>5. p = queue[i].items
    BY DEF p
  <2>6. Taken(queue[i], drain'[i]) /\ Shown(queue[i], drain'[i])
    BY <2>2, <2>3, <2>4, <2>5 DEF Taken, Shown
  <2> QED BY <1>1, <2>2, <2>5, <2>6
<1> QED BY <1>3, <1>4 DEF CollectItems

LEMMA FailMoves ==
  ASSUME QueueTypes, NEW i \in Queues, RunFails(i)
  PROVE  /\ LoopMoves(i)
         /\ queue' = queue /\ UNCHANGED ghosts
         /\ drain[i].at = "running"
         /\ drain'[i].at \in {"idle", "debounce"}
         /\ current = i /\ HasWork(queue[i]) => current' = i
<1>1. regime' = regime /\ UNCHANGED ghosts /\ drain[i].at = "running" /\ FinishDrain(i, queue)
  BY DEF RunFails, ghosts
<1>2. /\ queue = [queue EXCEPT ![i] = queue[i]] /\ queue' = queue
      /\ queue[i] \in QueueRecords
  BY <1>1 DEF QueueTypes, FinishDrain
<1> QED BY <1>1, <1>2, FinishMoves

LEMMA SuccessMoves ==
  ASSUME QueueTypes, NEW i \in Queues, RunSucceeds(i)
  PROVE  /\ LoopMoves(i)
         /\ queue'[i] = AfterRun(queue[i], drain[i])
         /\ unreported' = unreported \ Elements(drain[i].shown)
         /\ drain[i].at = "running"
         /\ drain'[i].at \in {"idle", "debounce"}
         /\ current = i /\ HasWork(queue'[i]) => current' = i
<1> DEFINE q == AfterRun(queue[i], drain[i])
<1>1. /\ regime' = regime /\ drain[i].at = "running"
      /\ unreported' = unreported \ Elements(drain[i].shown)
  BY DEF RunSucceeds
<1>2. /\ drain[i] \in DrainRecords /\ drain[i].individually \in BOOLEAN
      /\ queue[i] \in QueueRecords
  BY DEF QueueTypes, DrainRecords
<1>3. q \in QueueRecords
  BY <1>2, AfterRunIs
<1>4. CASE HasWork(q)
  <2>1. /\ queue' = [queue EXCEPT ![i] = q] /\ current' = current
        /\ drain' = [drain EXCEPT ![i] = IndividualLoop(Debouncing, drain[i].individually)]
    BY <1>4 DEF RunSucceeds, IndividualLoop
  <2>2. /\ IndividualLoop(Debouncing, drain[i].individually) \in DrainRecords
        /\ IndividualLoop(Debouncing, drain[i].individually).at = "debounce"
    BY <1>2, LoopsStart, LoopsGoOn
  <2> HIDE DEF q
  <2>3. /\ drain' \in [Queues -> DrainRecords] /\ drain'[i].at = "debounce"
        /\ \A j \in Queues : j # i => drain'[j] = drain[j]
        /\ queue' \in [Queues -> QueueRecords] /\ queue'[i] = q
        /\ \A j \in Queues : j # i => queue'[j] = queue[j]
    BY <1>3, <2>1, <2>2 DEF QueueTypes
  <2>4. QueueTypes'
    BY <1>1, <2>1, <2>3 DEF QueueTypes
  <2>5. LoopMoves(i)
    BY <2>1, <2>3, <2>4 DEF LoopMoves
  <2> QED BY <1>1, <2>1, <2>3, <2>5 DEF q
<1>5. CASE ~HasWork(q)
  <2>1. FinishDrain(i, [queue EXCEPT ![i] = q])
    BY <1>5 DEF RunSucceeds
  <2> HIDE DEF q
  <2>2. /\ LoopMoves(i) /\ queue'[i] = q /\ drain'[i].at \in {"idle", "debounce"}
        /\ current = i /\ HasWork(q) => current' = i
    BY <1>1, <1>3, <2>1, FinishMoves
  <2> QED BY <1>1, <2>2 DEF q
<1> QED BY <1>4, <1>5

(* What an enqueue works on: the session's queue, or a free object. *)
LEMMA TargetIs ==
  ASSUME QueueTypes, MayEnqueue
  PROVE  /\ Target \in Queues
         /\ current # None => Target = current
         /\ current = None => drain[Target].at = "idle"
<1>1. CASE current # None
  BY <1>1 DEF Target, QueueTypes
<1>2. CASE current = None
  BY <1>2 DEF Target, MayEnqueue, FreeQueues
<1> QED BY <1>1, <1>2

LEMMA TargetQueueIs ==
  ASSUME QueueTypes, NEW s \in regime.settings
  PROVE  /\ TargetQueue(s) \in QueueRecords
         /\ TargetQueue(s).mode = s.mode /\ TargetQueue(s).dropPolicy = s.dropPolicy
         /\ current # None =>
              /\ TargetQueue(s).items = queue[current].items
              /\ TargetQueue(s).summaryLines = queue[current].summaryLines
              /\ TargetQueue(s).droppedCount = queue[current].droppedCount
         /\ current = None =>
              /\ TargetQueue(s).items = <<>>
              /\ TargetQueue(s).summaryLines = <<>>
              /\ TargetQueue(s).droppedCount = 0
<1>1. IsSetting(s)
  BY SettingsAre DEF QueueTypes
<1>2. CASE current # None
  <2>1. queue[current] \in QueueRecords /\ TargetQueue(s) = Configured(queue[current], s)
    BY <1>2 DEF QueueTypes, TargetQueue
  <2> QED BY <1>1, <1>2, <2>1, ConfiguredIs
<1>3. CASE current = None
  <2>1. TargetQueue(s) = NewQueue(s)
    BY <1>3 DEF TargetQueue
  <2> QED BY <1>1, <1>3, <2>1, NewQueueIs
<1> QED BY <1>2, <1>3

LEMMA KeepMoves ==
  ASSUME QueueTypes, MayEnqueue, NEW q \in QueueRecords, NEW active, Keep(q, active)
  PROVE  /\ QueueTypes'
         /\ queue'[Target] = q
         /\ \A j \in Queues : j # Target => queue'[j] = queue[j] /\ drain'[j] = drain[j]
         /\ drain'[Target] \in {drain[Target], Debouncing}
         /\ current' \in {Target, None}
         /\ HasWork(q) \/ drain'[Target].at # "idle" => current' = Target
<1>1. Target \in Queues
  BY TargetIs
<1>2. regime' = regime /\ queue' = [queue EXCEPT ![Target] = q]
  BY DEF Keep
<1>3. /\ queue' \in [Queues -> QueueRecords] /\ queue'[Target] = q
      /\ \A j \in Queues : j # Target => queue'[j] = queue[j]
  BY <1>1, <1>2 DEF QueueTypes
<1>4. /\ drain' \in [Queues -> DrainRecords]
      /\ \A j \in Queues : j # Target => drain'[j] = drain[j]
      /\ drain'[Target] \in {drain[Target], Debouncing}
      /\ current' \in {Target, None}
      /\ HasWork(q) \/ drain'[Target].at # "idle" => current' = Target
  <2>1. CASE active \/ drain[Target].at # "idle"
    BY <1>1, <2>1 DEF Keep, QueueTypes
  <2>2. CASE ~(active \/ drain[Target].at # "idle") /\ HasWork(q)
    BY <1>1, <2>2, LoopsStart DEF Keep, QueueTypes
  <2>3. CASE ~(active \/ drain[Target].at # "idle") /\ ~HasWork(q)
    BY <1>1, <2>3 DEF Keep, QueueTypes
  <2> QED BY <2>1, <2>2, <2>3
<1>5. QueueTypes'
  BY <1>1, <1>2, <1>3, <1>4 DEF QueueTypes
<1> QED BY <1>3, <1>4, <1>5

(* The queue after a message was accepted. *)
Grown(q, m) == [WithoutOverflow(q) EXCEPT !.items = Append(@, m), !.lastRun = TRUE]

LEMMA GrownIs ==
  ASSUME NEW q \in QueueRecords, NEW m \in Messages
  PROVE  /\ Grown(q, m) \in QueueRecords
         /\ HasWork(Grown(q, m))
         /\ Grown(q, m).summaryLines = WithoutOverflow(q).summaryLines
         /\ Grown(q, m).droppedCount = WithoutOverflow(q).droppedCount
         /\ Grown(q, m).items = Append(WithoutOverflow(q).items, m)
         /\ Grown(q, m).mode = q.mode /\ Grown(q, m).dropPolicy = q.dropPolicy
<1> DEFINE w == WithoutOverflow(q)
<1> DEFINE x == Append(w.items, m)
<1>1. w \in QueueRecords /\ w.mode = q.mode /\ w.dropPolicy = q.dropPolicy
  BY WithoutOverflowIs
<1>2. w.items \in Seq(Messages)
  BY <1>1 DEF QueueRecords
<1>3. x \in Seq(Messages) /\ x # <<>>
  BY <1>2
<1>4. Grown(q, m) = WithMessages(w, x)
  BY DEF Grown, WithMessages
<1> HIDE DEF w, x
<1>5. /\ Grown(q, m) \in QueueRecords /\ Grown(q, m).items = x
      /\ Grown(q, m).summaryLines = w.summaryLines
      /\ Grown(q, m).droppedCount = w.droppedCount
      /\ Grown(q, m).mode = w.mode /\ Grown(q, m).dropPolicy = w.dropPolicy
  BY <1>1, <1>3, <1>4, MessagesSet
<1>6. x = Append(w.items, m)
  BY DEF x
<1> QED BY <1>1, <1>3, <1>5, <1>6 DEF HasWork, w

LEMMA EnqueueMoves ==
  ASSUME QueueTypes, NEW m \in Messages, NEW s \in regime.settings, NEW active,
         EnqueueFollowupRun(m, s, active)
  PROVE  /\ QueueTypes'
         /\ queue'[Target] = Grown(TargetQueue(s), m)
         /\ queue'[Target].summaryLines = WithoutOverflow(TargetQueue(s)).summaryLines
         /\ queue'[Target].droppedCount = WithoutOverflow(TargetQueue(s)).droppedCount
         /\ \A j \in Queues : j # Target => queue'[j] = queue[j] /\ drain'[j] = drain[j]
         /\ drain'[Target] \in {drain[Target], Debouncing}
         /\ current' = Target
<1>1. TargetQueue(s) \in QueueRecords /\ MayEnqueue
  BY TargetQueueIs DEF EnqueueFollowupRun
<1>2. Keep(Grown(TargetQueue(s), m), active)
  BY DEF EnqueueFollowupRun, Grown
<1> QED BY <1>1, <1>2, GrownIs, KeepMoves

LEMMA SkipMoves ==
  ASSUME QueueTypes, NEW m \in Messages, NEW s \in regime.settings, NEW active,
         EnqueueSkipped(m, s, active)
  PROVE  /\ QueueTypes'
         /\ queue'[Target].items = TargetQueue(s).items
         /\ queue'[Target].mode = s.mode /\ queue'[Target].dropPolicy = s.dropPolicy
         /\ TargetQueue(s).items # <<>> => current' = Target
         /\ queue'[Target].summaryLines = TargetQueue(s).summaryLines
         /\ queue'[Target].droppedCount = TargetQueue(s).droppedCount
         /\ \A j \in Queues : j # Target => queue'[j] = queue[j] /\ drain'[j] = drain[j]
         /\ drain'[Target] \in {drain[Target], Debouncing}
         /\ current' \in {Target, None}
         /\ TargetQueue(s).droppedCount > 0 \/ drain'[Target].at # "idle" => current' = Target
<1>1. /\ TargetQueue(s) \in QueueRecords /\ MayEnqueue
      /\ TargetQueue(s).mode = s.mode /\ TargetQueue(s).dropPolicy = s.dropPolicy
  BY TargetQueueIs DEF EnqueueSkipped
<1>2. \/ Keep(TargetQueue(s), active)
      \/ Keep(WithLastRun(TargetQueue(s)), active)
  BY DEF EnqueueSkipped, WithLastRun
<1>3. CASE Keep(TargetQueue(s), active)
  BY <1>1, <1>3, KeepMoves DEF HasWork
<1>4. CASE Keep(WithLastRun(TargetQueue(s)), active)
  <2>1. /\ WithLastRun(TargetQueue(s)) \in QueueRecords
        /\ WithLastRun(TargetQueue(s)).summaryLines = TargetQueue(s).summaryLines
        /\ WithLastRun(TargetQueue(s)).droppedCount = TargetQueue(s).droppedCount
        /\ WithLastRun(TargetQueue(s)).items = TargetQueue(s).items
        /\ WithLastRun(TargetQueue(s)).mode = TargetQueue(s).mode
        /\ WithLastRun(TargetQueue(s)).dropPolicy = TargetQueue(s).dropPolicy
    BY <1>1, LastRunSet
  <2> QED BY <1>1, <1>4, <2>1, KeepMoves DEF HasWork
<1> QED BY <1>2, <1>3, <1>4

LEMMA ClearMoves ==
  ASSUME QueueTypes, ClearFollowupQueue
  PROVE  /\ QueueTypes'
         /\ current \in Queues /\ current' = None /\ drain' = drain
         /\ \A j \in Queues : j # current => queue'[j] = queue[j]
         /\ queue'[current].items = <<>> /\ queue'[current].summaryLines = <<>>
         /\ queue'[current].mode = queue[current].mode
         /\ queue'[current].dropPolicy = queue[current].dropPolicy
<1>1. /\ current \in Queues /\ current' = None /\ drain' = drain /\ regime' = regime
      /\ queue' = [queue EXCEPT ![current] = Cleared(queue[current])]
  BY DEF ClearFollowupQueue, QueueTypes
<1>2. /\ Cleared(queue[current]) \in QueueRecords
      /\ Cleared(queue[current]).items = <<>> /\ Cleared(queue[current]).summaryLines = <<>>
      /\ Cleared(queue[current]).mode = queue[current].mode
      /\ Cleared(queue[current]).dropPolicy = queue[current].dropPolicy
  BY <1>1, ClearedIs DEF QueueTypes
<1> QED BY <1>1, <1>2 DEF QueueTypes

LEMMA QueueTypesInit ==
  Init => QueueTypes /\ \A i \in Queues : drain[i].at = "idle" /\ queue[i].summaryLines = <<>>
<1> SUFFICES ASSUME Init
             PROVE  /\ QueueTypes
                    /\ \A i \in Queues : drain[i].at = "idle" /\ queue[i].summaryLines = <<>>
  OBVIOUS
<1>1. PICK s \in regime.settings : queue = [i \in Queues |-> NewQueue(s)]
  BY DEF Init
<1>2. regime \in Regimes /\ current = None /\ drain = [i \in Queues |-> Resting]
  BY DEF Init
<1>3. NewQueue(s) \in QueueRecords /\ NewQueue(s).summaryLines = <<>>
  BY <1>2, SettingsAre, NewQueueIs
<1> QED BY <1>1, <1>2, <1>3, LoopsStart DEF QueueTypes

LEMMA FinalizeMoves ==
  ASSUME QueueTypes, FinalizeWithFollowup
  PROVE  /\ QueueTypes'
         /\ queue' = queue /\ UNCHANGED ghosts
         /\ \A j \in Queues : drain'[j] \in {drain[j], Debouncing}
         /\ \A j \in Queues : j # current => drain'[j] = drain[j]
         /\ current' \in {current, None}
         /\ current # None /\ (HasWork(queue[current]) \/ drain'[current].at # "idle") =>
              current' = current
<1>1. ScheduleFollowupDrain(drain, queue) /\ queue' = queue /\ UNCHANGED ghosts
  BY DEF FinalizeWithFollowup
<1>2. regime' = regime
  BY <1>1 DEF ghosts
<1>3. drain \in [Queues -> DrainRecords] /\ current \in Queues \cup {None}
  BY DEF QueueTypes
<1>4. /\ drain' \in [Queues -> DrainRecords]
      /\ \A j \in Queues : j # current => drain'[j] = drain[j]
      /\ current = None => current' = None
      /\ current # None /\ drain[current].at # "idle" =>
           current' = current /\ drain'[current] = drain[current]
      /\ current # None /\ drain[current].at = "idle" /\ HasWork(queue[current]) =>
           current' = current /\ drain'[current] = Debouncing
      /\ current # None /\ drain[current].at = "idle" /\ ~HasWork(queue[current]) =>
           current' = None /\ drain'[current] = drain[current]
  BY <1>1, <1>3, ScheduleEffect
<1>5. QueueTypes'
  BY <1>1, <1>2, <1>3, <1>4 DEF QueueTypes
<1>6. CASE current = None
  BY <1>1, <1>4, <1>5, <1>6, NoneIsNoQueue
<1>7. CASE current # None
  <2>1. \A j \in Queues : drain'[j] \in {drain[j], Debouncing}
    BY <1>4, <1>7
  <2> QED BY <1>1, <1>4, <1>5, <1>7, <2>1
<1> QED BY <1>6, <1>7

(* Steps that leave the queue objects and the loops alone. *)
LEMMA QuietMoves ==
  ASSUME \/ ReplyRunStarts \/ ReplyRunEnds \/ UNCHANGED vars
         \/ \E m \in Messages : ForgetMessageId(m)
  PROVE  UNCHANGED <<regime, current, queue, drain, unreported>>
BY DEF ReplyRunStarts, ReplyRunEnds, ForgetMessageId, vars, ghosts

LEMMA QueueTypesStep == QueueTypes /\ [Next]_vars => QueueTypes'
<1> SUFFICES ASSUME QueueTypes, [Next]_vars PROVE QueueTypes'
  OBVIOUS
<1>1. CASE \/ ReplyRunStarts \/ ReplyRunEnds \/ UNCHANGED vars
           \/ \E m \in Messages : ForgetMessageId(m)
  BY <1>1, QuietMoves DEF QueueTypes
<1>2. CASE FinalizeWithFollowup \/ ClearFollowupQueue
  BY <1>2, FinalizeMoves, ClearMoves
<1>3. ASSUME NEW m \in Messages, NEW s \in regime.settings, NEW active \in RunActive,
             EnqueueFollowupRun(m, s, active) \/ EnqueueSkipped(m, s, active)
      PROVE  QueueTypes'
  BY <1>3, EnqueueMoves, SkipMoves
<1>4. ASSUME NEW i \in Queues, DrainStep(i) PROVE QueueTypes'
  BY <1>4, DebounceMoves, CollectMoves, SuccessMoves, FailMoves DEF DrainStep, LoopMoves
<1> QED BY <1>1, <1>2, <1>3, <1>4 DEF Next

LEMMA ElementsAre == ASSUME NEW S, NEW s \in Seq(S) PROVE Elements(s) \subseteq S
BY DEF Elements

LEMMA CountTypesStep ==
  ASSUME QueueTypes, CountTypes, [Next]_vars
  PROVE  CountTypes'
<1>1. CASE \/ ReplyRunStarts \/ ReplyRunEnds \/ FinalizeWithFollowup \/ UNCHANGED vars
           \/ \E m \in Messages : ForgetMessageId(m)
  BY <1>1 DEF ReplyRunStarts, ReplyRunEnds, FinalizeWithFollowup, ForgetMessageId, vars, ghosts,
              CountTypes
<1>2. CASE ClearFollowupQueue
  <2>1. current \in Queues /\ queue[current].items \in Seq(Messages)
    BY <1>2 DEF ClearFollowupQueue, QueueTypes, QueueRecords
  <2>2. \A m \in Messages : CountIn(queue[current].items, m) \in Nat
    BY <2>1, PlacesAreFinite
  <2>3. discarded' \in [Messages -> Nat]
    BY <1>2, <2>2 DEF ClearFollowupQueue, CountTypes
  <2> QED BY <1>2, <2>3 DEF ClearFollowupQueue, CountTypes
<1>3. ASSUME NEW m \in Messages, NEW s \in regime.settings, NEW active \in RunActive,
             EnqueueFollowupRun(m, s, active)
      PROVE  CountTypes'
  <2> DEFINE q == TargetQueue(s)
  <2>1. q \in QueueRecords
    BY TargetQueueIs
  <2>2. /\ discarded' = [x \in Messages |-> discarded[x] + CountIn(Overflow(q), x)]
        /\ unreported' \subseteq unreported \cup Elements(KeptLines(q))
        /\ recent' = recent \cup {m}
        /\ accepted' = [accepted EXCEPT ![m] = accepted[m] + 1]
        /\ delivered' = delivered /\ replyRun' = replyRun
    BY <1>3 DEF EnqueueFollowupRun, Keep
  <2>6. late' \in [Queues -> SUBSET Messages]
    BY <1>3 DEF EnqueueFollowupRun, CountTypes
  <2> HIDE DEF q
  <2>3. Elements(KeptLines(q)) \subseteq Messages
    BY <2>1, KeptLinesAre, ElementsAre
  <2>4. \A x \in Messages : CountIn(Overflow(q), x) \in Nat
    BY <2>1, OverflowIs, PlacesAreFinite
  <2>5. discarded' \in [Messages -> Nat]
    BY <2>2, <2>4 DEF CountTypes
  <2> QED BY <2>2, <2>3, <2>5, <2>6 DEF CountTypes
<1>4. ASSUME NEW m \in Messages, NEW s \in regime.settings, NEW active \in RunActive,
             EnqueueSkipped(m, s, active)
      PROVE  CountTypes'
  BY <1>4 DEF EnqueueSkipped, Keep, CountTypes
<1>5. ASSUME NEW i \in Queues, DebounceEnds(i) \/ CollectItems(i) \/ RunFails(i)
      PROVE  CountTypes'
  BY <1>5 DEF DebounceEnds, CollectItems, RunFails, ghosts, CountTypes
<1>6. ASSUME NEW i \in Queues, RunSucceeds(i) PROVE CountTypes'
  <2>1. drain[i].prompt \in Seq(Messages)
    BY DEF QueueTypes, DrainRecords
  <2>2. \A m \in Messages : CountIn(drain[i].prompt, m) \in Nat
    BY <2>1, PlacesAreFinite
  <2>3. /\ delivered' = [m \in Messages |-> delivered[m] + CountIn(drain[i].prompt, m)]
        /\ unreported' = unreported \ Elements(drain[i].shown)
        /\ UNCHANGED <<recent, replyRun, accepted, discarded>>
        /\ late' = [late EXCEPT ![i] = {}]
    BY <1>6 DEF RunSucceeds
  <2>4. delivered' \in [Messages -> Nat]
    BY <2>2, <2>3 DEF CountTypes
  <2> QED BY <2>3, <2>4 DEF CountTypes
<1> QED BY <1>1, <1>2, <1>3, <1>4, <1>5, <1>6 DEF Next, DrainStep

(* Queue objects, loops and counters keep their types: whatever is cut from *)
(* the front of a queue that has changed meanwhile, what is left is one.    *)
THEOREM TypeCorrect == Spec => []TypeOK
<1>1. Init => QueueTypes /\ CountTypes
  <2>1. Init => CountTypes
    BY DEF Init, CountTypes
  <2> QED BY <2>1, QueueTypesInit
<1>2. QueueTypes /\ CountTypes /\ [Next]_vars => (QueueTypes /\ CountTypes)'
  BY QueueTypesStep, CountTypesStep
<1>3. QueueTypes /\ CountTypes => TypeOK
  BY DEF QueueTypes, CountTypes, TypeOK
<1> QED BY <1>1, <1>2, <1>3, PTL DEF Spec

-----------------------------------------------------------------------------
(* Routing *)

(* A batch that was found to have one target still has, when it is copied,  *)
(* but for what was queued meanwhile.                                       *)
RoutingInv ==
  \A i \in Queues :
    /\ drain[i].at = "checked" =>
         ~HasCrossChannelItems(Elements(queue[i].items) \ late[i])
    /\ drain[i].at = "running" /\ Len(drain[i].prompt) > 1 =>
         ~HasCrossChannelItems(Elements(drain[i].prompt) \ late[i])

LEMMA NothingIsMixed == \A S : ~HasCrossChannelItems(Elements(<<>>) \ S)
<1>1. \A S : Elements(<<>>) \ S = {}
  BY DEF Elements
<1>2. ~HasCrossChannelItems({})
  BY DEF HasCrossChannelItems
<1> QED BY <1>1, <1>2

LEMMA ElementsAreFinite == ASSUME NEW s \in Seq(Messages) PROVE IsFiniteSet(Elements(s))
<1> DEFINE f == [i \in 1..Len(s) |-> s[i]]
<1>1. IsFiniteSet(1..Len(s))
  BY FS_Interval
<1>2. f \in Surjection(1..Len(s), Elements(s))
  BY DEF Surjection, Elements
<1> HIDE DEF f
<1> QED BY <1>1, <1>2, FS_Surjection

(* What is part of a batch with one target has one target. *)
LEMMA PartIsNotMixed ==
  ASSUME NEW B, IsFiniteSet(B), NEW A \in SUBSET B, ~HasCrossChannelItems(B)
  PROVE  ~HasCrossChannelItems(A)
<1> DEFINE RA == {Route[m] : m \in A}
<1> DEFINE RB == {Route[m] : m \in B}
<1> DEFINE f == [m \in B |-> Route[m]]
<1>0. f \in Surjection(B, RB)
  BY DEF Surjection
<1>1. RA \subseteq RB /\ IsFiniteSet(RB)
  <2>1. IsFiniteSet(RB)
    <3> HIDE DEF f, RB
    <3> QED BY <1>0, FS_Surjection
  <2> QED BY <2>1
<1>2. /\ "cross" \notin RB \ {"none"}
      /\ RB \ {"none"} # {} => ~(Cardinality(RB) > 1)
  BY DEF HasCrossChannelItems
<1> HIDE DEF RA, RB
<1>3. Cardinality(RA) <= Cardinality(RB) /\ Cardinality(RA) \in Nat /\ Cardinality(RB) \in Nat
  BY <1>1, FS_Subset, FS_CardinalityType
<1>4. "cross" \notin RA \ {"none"} /\ (RA \ {"none"} # {} => ~(Cardinality(RA) > 1))
  BY <1>1, <1>2, <1>3
<1> QED BY <1>4 DEF HasCrossChannelItems, RA

LEMMA SuffixElements ==
  ASSUME NEW S, NEW s \in Seq(S), NEW n \in Nat, n <= Len(s)
  PROVE  Elements(SubSeq(s, n + 1, Len(s))) \subseteq Elements(s)
<1> DEFINE r == SubSeq(s, n + 1, Len(s))
<1>1. Len(s) \in Nat /\ Len(r) = Len(s) - n
  OBVIOUS
<1>2. \A k \in 1..Len(r) : r[k] = s[n + k] /\ n + k \in 1..Len(s)
  BY <1>1
<1> HIDE DEF r
<1>3. Elements(r) \subseteq Elements(s)
  BY <1>2 DEF Elements
<1> QED BY <1>3 DEF r

LEMMA AppendElements ==
  ASSUME NEW S, NEW s \in Seq(S), NEW m \in S
  PROVE  Elements(Append(s, m)) \subseteq Elements(s) \cup {m}
<1>1. Len(Append(s, m)) = Len(s) + 1 /\ Len(s) \in Nat
  OBVIOUS
<1>2. \A k \in 1..(Len(s) + 1) :
        Append(s, m)[k] = m \/ (k \in 1..Len(s) /\ Append(s, m)[k] = s[k])
  OBVIOUS
<1> QED BY <1>1, <1>2 DEF Elements

(* What one arrival does to the rest of a batch that was checked: some of   *)
(* it may fall out.                                                         *)
LEMMA ArrivalLeaves ==
  ASSUME NEW q \in QueueRecords, NEW m \in Messages, NEW S
  PROVE  Elements(Grown(q, m).items) \ (S \cup {m}) \subseteq Elements(q.items) \ S
<1> DEFINE w == WithoutOverflow(q).items
<1>1. Grown(q, m).items = Append(w, m)
  BY GrownIs
<1>2. WithoutOverflow(q) \in QueueRecords
  BY WithoutOverflowIs
<1>3. w = SubSeq(q.items, Len(Overflow(q)) + 1, Len(q.items))
  BY WithoutOverflowIs
<1>4. /\ w \in Seq(Messages) /\ q.items \in Seq(Messages)
      /\ Len(Overflow(q)) \in Nat /\ Len(Overflow(q)) <= Len(q.items)
  BY <1>2, OverflowIs DEF QueueRecords
<1> HIDE DEF w
<1>5. Elements(w) \subseteq Elements(q.items)
  BY <1>3, <1>4, SuffixElements
<1>6. Elements(Append(w, m)) \subseteq Elements(w) \cup {m}
  BY <1>4, AppendElements
<1> QED BY <1>1, <1>5, <1>6

LEMMA RoutingStep ==
  ASSUME QueueTypes, CountTypes, RoutingInv, [Next]_vars
  PROVE  RoutingInv'
<1>1. CASE \/ ReplyRunStarts \/ ReplyRunEnds \/ UNCHANGED vars
           \/ \E m \in Messages : ForgetMessageId(m)
  <2>1. late' = late
    BY <1>1 DEF ReplyRunStarts, ReplyRunEnds, ForgetMessageId, vars
  <2> QED BY <1>1, <2>1, QuietMoves DEF RoutingInv
<1>2. CASE FinalizeWithFollowup
  <2>1. /\ queue' = queue /\ late' = late
        /\ \A j \in Queues : drain'[j] \in {drain[j], Debouncing}
    BY <1>2, FinalizeMoves DEF FinalizeWithFollowup
  <2> QED BY <2>1, LoopsStart DEF RoutingInv
<1>3. CASE ClearFollowupQueue
  <2>1. /\ drain' = drain /\ late' = late /\ queue'[current].items = <<>>
        /\ \A j \in Queues : j # current => queue'[j] = queue[j]
    BY <1>3, ClearMoves DEF ClearFollowupQueue
  <2> QED BY <2>1, NothingIsMixed DEF RoutingInv
<1>4. ASSUME NEW m \in Messages, NEW s \in regime.settings, NEW active \in RunActive,
             EnqueueFollowupRun(m, s, active)
      PROVE  RoutingInv'
  <2>1. /\ queue'[Target] = Grown(TargetQueue(s), m)
        /\ \A j \in Queues : j # Target => queue'[j] = queue[j] /\ drain'[j] = drain[j]
        /\ drain'[Target] \in {drain[Target], Debouncing}
    BY <1>4, EnqueueMoves
  <2>2. MayEnqueue /\ late' = IF drain[Target].at = "checked"
                              THEN [late EXCEPT ![Target] = late[Target] \cup {m}] ELSE late
    BY <1>4 DEF EnqueueFollowupRun
  <2>3. Target \in Queues /\ (current = None => drain[Target].at = "idle")
        /\ (current # None => Target = current)
    BY <2>2, TargetIs
  <2>4. \A j \in Queues : j # Target => late'[j] = late[j]
    BY <2>2, <2>3 DEF CountTypes
  <2>5. CASE drain[Target].at = "checked"
    <3>1. late'[Target] = late[Target] \cup {m}
      BY <2>2, <2>3, <2>5 DEF CountTypes
    <3>2. /\ TargetQueue(s) \in QueueRecords
          /\ TargetQueue(s).items = queue[Target].items
          /\ queue[Target].items \in Seq(Messages)
      BY <2>3, <2>5, TargetQueueIs DEF QueueTypes, QueueRecords
    <3>3. Elements(queue'[Target].items) \ late'[Target]
            \subseteq Elements(queue[Target].items) \ late[Target]
      BY <2>1, <3>1, <3>2, ArrivalLeaves
    <3>4. /\ IsFiniteSet(Elements(queue[Target].items) \ late[Target])
          /\ ~HasCrossChannelItems(Elements(queue[Target].items) \ late[Target])
      BY <2>3, <2>5, <3>2, ElementsAreFinite, FS_Subset DEF RoutingInv
    <3>5. ~HasCrossChannelItems(Elements(queue'[Target].items) \ late'[Target])
      BY <3>3, <3>4, PartIsNotMixed
    <3> QED BY <2>1, <2>3, <2>4, <2>5, <3>5, LoopsStart DEF RoutingInv
  <2>6. CASE drain[Target].at # "checked"
    <3>1. late' = late
      BY <2>2, <2>6
    <3> QED BY <2>1, <2>6, <3>1, LoopsStart DEF RoutingInv
  <2> QED BY <2>5, <2>6
<1>6. ASSUME NEW m \in Messages, NEW s \in regime.settings, NEW active \in RunActive,
             EnqueueSkipped(m, s, active)
      PROVE  RoutingInv'
  <2>1. /\ queue'[Target].items = TargetQueue(s).items
        /\ \A j \in Queues : j # Target => queue'[j] = queue[j] /\ drain'[j] = drain[j]
        /\ drain'[Target] \in {drain[Target], Debouncing}
    BY <1>6, SkipMoves
  <2>2. MayEnqueue /\ late' = late
    BY <1>6 DEF EnqueueSkipped
  <2>3. Target \in Queues /\ (current = None => drain[Target].at = "idle")
        /\ (current # None => Target = current)
    BY <2>2, TargetIs
  <2>4. drain[Target].at = "checked" => queue'[Target].items = queue[Target].items
    BY <2>1, <2>3, TargetQueueIs
  <2> QED BY <2>1, <2>2, <2>4, LoopsStart DEF RoutingInv
<1>5. ASSUME NEW i \in Queues, DrainStep(i) PROVE RoutingInv'
  <2>1. LoopMoves(i)
    BY <1>5, DebounceMoves, CollectMoves, SuccessMoves, FailMoves DEF DrainStep
  <2>4. late' \in {late, [late EXCEPT ![i] = {}]}
    BY <1>5 DEF DrainStep, DebounceEnds, CollectItems, RunSucceeds, RunFails
  <2>5. \A j \in Queues : j # i => late'[j] = late[j]
    BY <2>4 DEF CountTypes
  <2>2. /\ drain'[i].at = "checked" =>
             ~HasCrossChannelItems(Elements(queue'[i].items) \ late'[i])
        /\ drain'[i].at = "running" /\ Len(drain'[i].prompt) > 1 =>
             ~HasCrossChannelItems(Elements(drain'[i].prompt) \ late'[i])
    <3>1. CASE DebounceEnds(i)
      <4>1. drain'[i].at = "running" => Len(drain'[i].prompt) \in Nat
        BY <2>1 DEF LoopMoves, QueueTypes, DrainRecords
      <4>2. late'[i] = {}
        BY <3>1 DEF DebounceEnds, CountTypes
      <4>4. /\ queue' = queue
            /\ drain'[i].at = "checked" => ~HasCrossChannelItems(Elements(queue[i].items))
            /\ drain'[i].at = "running" => Len(drain'[i].prompt) <= 1
        BY <3>1, DebounceMoves
      <4>5. drain'[i].at = "checked" =>
              ~HasCrossChannelItems(Elements(queue'[i].items) \ late'[i])
        <5>1. Elements(queue'[i].items) \ late'[i] = Elements(queue[i].items)
          BY <4>2, <4>4
        <5> QED BY <4>4, <5>1
      <4>6. ~(drain'[i].at = "running" /\ Len(drain'[i].prompt) > 1)
        BY <4>1, <4>4
      <4> QED BY <4>5, <4>6
    <3>2. CASE CollectItems(i)
      <4>1. /\ ~HasCrossChannelItems(Elements(queue[i].items) \ late[i])
            /\ drain'[i].at = "running" => drain'[i].prompt = queue[i].items
            /\ drain'[i].at # "checked"
        BY <3>2, CollectMoves DEF RoutingInv
      <4>2. late' = late
        BY <3>2 DEF CollectItems
      <4> QED BY <4>1, <4>2
    <3>3. CASE RunSucceeds(i) \/ RunFails(i)
      BY <3>3, SuccessMoves, FailMoves
    <3> QED BY <1>5, <3>1, <3>2, <3>3 DEF DrainStep
  <2>3. \A j \in Queues : j # i => queue'[j] = queue[j] /\ drain'[j] \in {drain[j], Resting, Debouncing}
    BY <2>1 DEF LoopMoves
  <2> QED BY <2>2, <2>3, <2>5, LoopsStart DEF RoutingInv
<1> QED BY <1>1, <1>2, <1>3, <1>4, <1>5, <1>6 DEF Next

(* A collected prompt never mixes messages with different targets, but for  *)
(* those that came between the routing check and the copy of the batch:     *)
(* for any messages, settings, queues, and arrivals, overflows and clears   *)
(* at any time.                                                             *)
THEOREM RoutingIsKept == Spec => []CollectKeepsRouting
<1>1. Init => QueueTypes /\ CountTypes /\ RoutingInv
  BY QueueTypesInit DEF RoutingInv, Init, CountTypes
<1>2. QueueTypes /\ CountTypes /\ RoutingInv /\ [Next]_vars
        => (QueueTypes /\ CountTypes /\ RoutingInv)'
  BY QueueTypesStep, CountTypesStep, RoutingStep
<1>3. RoutingInv => CollectKeepsRouting
  BY DEF RoutingInv, CollectKeepsRouting
<1> QED BY <1>1, <1>2, <1>3, PTL DEF Spec

-----------------------------------------------------------------------------
(* The summary of dropped messages *)

Busy(i) == drain[i].at # "idle"

(* Only the session's queue is drained and holds lines that are owed, lines *)
(* count as work, and a run that shows the summary shows all that is owed.  *)
SummaryInv ==
  /\ \A i \in Queues : Busy(i) => current = i
  /\ unreported # {} => current # None
  /\ current # None => unreported \subseteq Elements(queue[current].summaryLines)
  /\ \A i \in Queues : queue[i].summaryLines # <<>> => queue[i].droppedCount > 0
  /\ \A i \in Queues : drain[i].at = "running" /\ drain[i].summary =>
       unreported \subseteq Elements(drain[i].shown)

LEMMA NoLines == Elements(<<>>) = {}
BY DEF Elements

(* A loop that goes on without a run, or runs and shows what there is. *)
LEMMA SummaryLoop ==
  ASSUME QueueTypes, SummaryInv, NEW i \in Queues, Busy(i), LoopMoves(i),
         queue' = queue, unreported' = unreported,
         HasWork(queue[i]) => current' = i,
         drain'[i].at = "running" /\ drain'[i].summary =>
           drain'[i].shown = queue[i].summaryLines
  PROVE  SummaryInv'
<1>1. current = i /\ i # None
  BY NoneIsNoQueue DEF SummaryInv
<1>2. /\ \A j \in Queues : j # i => drain'[j] = drain[j] /\ ~Busy(j)
      /\ drain'[i].at # "idle" => current' = i
      /\ current' \in {i, None}
  BY <1>1 DEF LoopMoves, SummaryInv
<1>3. unreported # {} => current' = i
  <2>1. queue[i].droppedCount > 0 => HasWork(queue[i])
    BY DEF HasWork
  <2> QED BY <1>1, <2>1, NoLines DEF SummaryInv
<1>4. unreported \subseteq Elements(queue[i].summaryLines)
  BY <1>1 DEF SummaryInv
<1> QED BY <1>1, <1>2, <1>3, <1>4 DEF SummaryInv, Busy

LEMMA LinesKept ==
  ASSUME NEW q \in QueueRecords
  PROVE  Elements(q.summaryLines) \subseteq Elements(AllLines(q))
<1> DEFINE s == q.summaryLines
<1> DEFINE o == Overflow(q)
<1>1. s \in Seq(Messages) /\ o \in Seq(Messages) /\ AllLines(q) = s \o o
  BY OverflowIs DEF AllLines, QueueRecords
<1> HIDE DEF s, o
<1>2. Elements(s) \subseteq Elements(s \o o)
  BY <1>1 DEF Elements
<1> QED BY <1>1, <1>2 DEF s

LEMMA NoOverflowNoLines ==
  ASSUME NEW q \in QueueRecords, q.summaryLines = <<>>, Overflow(q) = <<>>
  PROVE  KeptLines(q) = <<>>
<1>1. AllLines(q) = <<>>
  BY DEF AllLines
<1>2. q.cap \in Nat /\ Len(<<>>) = 0
  BY DEF QueueRecords
<1> QED BY <1>1, <1>2 DEF KeptLines

(* A message that is queued, with those that fall out of the queue. *)
LEMMA SummaryEnqueue ==
  ASSUME "running" \notin OverflowPhases, QueueTypes, SummaryInv,
         NEW m \in Messages, NEW s \in regime.settings, NEW active,
         EnqueueFollowupRun(m, s, active)
  PROVE  SummaryInv'
<1> DEFINE q == TargetQueue(s)
<1>1. /\ queue'[Target].summaryLines = WithoutOverflow(q).summaryLines
      /\ queue'[Target].droppedCount = WithoutOverflow(q).droppedCount
      /\ \A j \in Queues : j # Target => queue'[j] = queue[j] /\ drain'[j] = drain[j]
      /\ drain'[Target] \in {drain[Target], Debouncing}
      /\ current' = Target
  BY EnqueueMoves
<1>2. /\ q.dropPolicy # "summarize" => unreported' = unreported
      /\ q.dropPolicy = "summarize" =>
           unreported' = (unreported \ Elements(AllLines(q))) \cup
               {x \in Elements(KeptLines(q)) : x \in unreported \cup Elements(Overflow(q))}
      /\ Overflow(q) = <<>> \/ \A i \in Queues : drain[i].at \in OverflowPhases
      /\ MayEnqueue
  BY DEF EnqueueFollowupRun
<1>3. /\ q \in QueueRecords
      /\ current # None => /\ q.summaryLines = queue[current].summaryLines
                           /\ q.droppedCount = queue[current].droppedCount
      /\ current = None => q.summaryLines = <<>> /\ q.droppedCount = 0
  BY TargetQueueIs
<1> HIDE DEF q
<1>4. /\ Target \in Queues
      /\ current # None => Target = current
      /\ current = None => drain[Target].at = "idle"
  BY <1>2, TargetIs
<1>5. unreported \subseteq Elements(q.summaryLines)
  BY <1>3 DEF SummaryInv
<1>6. q.droppedCount \in Nat /\ (q.summaryLines # <<>> => q.droppedCount > 0)
  <2>1. current # None => current \in Queues
    BY DEF QueueTypes
  <2> QED BY <1>3, <2>1 DEF SummaryInv, QueueRecords
<1>7. unreported' \subseteq Elements(WithoutOverflow(q).summaryLines)
  <2>1. CASE q.dropPolicy # "summarize"
    BY <1>2, <1>3, <1>5, <2>1, WithoutOverflowIs
  <2>2. CASE q.dropPolicy = "summarize"
    <3>1. unreported \subseteq Elements(AllLines(q))
      BY <1>3, <1>5, LinesKept
    <3>2. WithoutOverflow(q).summaryLines = KeptLines(q)
      BY <1>3, <2>2, WithoutOverflowIs
    <3> QED BY <1>2, <2>2, <3>1, <3>2
  <2> QED BY <2>1, <2>2
<1>8. WithoutOverflow(q).summaryLines # <<>> => WithoutOverflow(q).droppedCount > 0
  <2>1. CASE q.dropPolicy # "summarize"
    BY <1>3, <1>6, <2>1, WithoutOverflowIs
  <2>2. CASE q.dropPolicy = "summarize"
    <3>1. /\ WithoutOverflow(q).summaryLines = KeptLines(q)
          /\ WithoutOverflow(q).droppedCount = q.droppedCount + Len(Overflow(q))
      BY <1>3, <2>2, WithoutOverflowIs
    <3>2. Overflow(q) \in Seq(Messages) /\ Len(Overflow(q)) \in Nat
          /\ (Len(Overflow(q)) = 0 => Overflow(q) = <<>>)
      BY <1>3, OverflowIs
    <3>3. CASE Overflow(q) = <<>>
      BY <1>3, <1>6, <3>1, <3>2, <3>3, NoOverflowNoLines
    <3>4. CASE Overflow(q) # <<>>
      BY <1>6, <3>1, <3>2, <3>4
    <3> QED BY <3>3, <3>4
  <2> QED BY <2>1, <2>2
<1>9. \A j \in Queues : drain'[j].at # "idle" => j = Target
  BY <1>1, <1>4, NoneIsNoQueue DEF SummaryInv, Busy
<1>10. ASSUME NEW j \in Queues, drain'[j].at = "running", drain'[j].summary
       PROVE  unreported' \subseteq Elements(drain'[j].shown)
  <2>1. drain'[j] = drain[j]
    BY <1>1, <1>10, LoopsStart
  <2>2. Overflow(q) = <<>>
    BY <1>2, <1>10, <2>1
  <2>3. unreported' \subseteq unreported \cup Elements(Overflow(q))
    BY <1>2
  <2> QED BY <1>10, <2>1, <2>2, <2>3, NoLines DEF SummaryInv
<1>11. Target # None
  BY <1>4, NoneIsNoQueue
<1> QED BY <1>1, <1>4, <1>7, <1>8, <1>9, <1>10, <1>11 DEF SummaryInv, Busy

(* A message that is refused, or was queued before. *)
LEMMA SummarySkip ==
  ASSUME QueueTypes, SummaryInv,
         NEW m \in Messages, NEW s \in regime.settings, NEW active,
         EnqueueSkipped(m, s, active)
  PROVE  SummaryInv'
<1> DEFINE q == TargetQueue(s)
<1>1. /\ queue'[Target].summaryLines = q.summaryLines
      /\ queue'[Target].droppedCount = q.droppedCount
      /\ \A j \in Queues : j # Target => queue'[j] = queue[j] /\ drain'[j] = drain[j]
      /\ drain'[Target] \in {drain[Target], Debouncing}
      /\ current' \in {Target, None}
      /\ q.droppedCount > 0 \/ drain'[Target].at # "idle" => current' = Target
  BY SkipMoves
<1>2. unreported' = unreported /\ MayEnqueue
  BY DEF EnqueueSkipped
<1>3. /\ current # None => /\ q.summaryLines = queue[current].summaryLines
                           /\ q.droppedCount = queue[current].droppedCount
      /\ current = None => q.summaryLines = <<>> /\ q.droppedCount = 0
  BY TargetQueueIs
<1> HIDE DEF q
<1>4. /\ Target \in Queues
      /\ current # None => Target = current
      /\ current = None => drain[Target].at = "idle"
  BY <1>2, TargetIs
<1>5. unreported \subseteq Elements(q.summaryLines)
  BY <1>3 DEF SummaryInv
<1>6. q.summaryLines # <<>> => q.droppedCount > 0
  <2>1. current # None => current \in Queues
    BY DEF QueueTypes
  <2> QED BY <1>3, <2>1 DEF SummaryInv
<1>7. unreported # {} => current' = Target
  BY <1>1, <1>5, <1>6, NoLines
<1>8. \A j \in Queues : drain'[j].at # "idle" => j = Target
  BY <1>1, <1>4, NoneIsNoQueue DEF SummaryInv, Busy
<1>9. \A j \in Queues : drain'[j].at = "running" => drain'[j] = drain[j]
  BY <1>1, LoopsStart
<1>10. Target # None
  BY <1>4, NoneIsNoQueue
<1> QED BY <1>1, <1>2, <1>4, <1>5, <1>6, <1>7, <1>8, <1>9, <1>10 DEF SummaryInv, Busy

LEMMA SummaryStep ==
  ASSUME "running" \notin OverflowPhases, ClearPhases \subseteq {"idle"},
         QueueTypes, SummaryInv, [Next]_vars
  PROVE  SummaryInv'
<1>1. CASE \/ ReplyRunStarts \/ ReplyRunEnds \/ UNCHANGED vars
           \/ \E m \in Messages : ForgetMessageId(m)
  BY <1>1, QuietMoves DEF SummaryInv, Busy
<1>2. CASE FinalizeWithFollowup
  <2>1. /\ queue' = queue /\ unreported' = unreported
        /\ \A j \in Queues : drain'[j] \in {drain[j], Debouncing}
        /\ \A j \in Queues : j # current => drain'[j] = drain[j]
        /\ current' \in {current, None}
        /\ current # None /\ (HasWork(queue[current]) \/ drain'[current].at # "idle") =>
              current' = current
    BY <1>2, FinalizeMoves DEF ghosts
  <2>2. unreported # {} => current # None /\ current' = current
    <3>1. current # None => current \in Queues
      BY DEF QueueTypes
    <3> QED BY <2>1, <3>1, NoLines DEF SummaryInv, HasWork
  <2>3. \A j \in Queues : drain'[j].at # "idle" => current' = j
    BY <2>1, NoneIsNoQueue DEF SummaryInv, Busy
  <2>4. \A j \in Queues : drain'[j].at = "running" => drain'[j] = drain[j]
    BY <2>1, LoopsStart
  <2>5. current' # None => unreported \subseteq Elements(queue[current'].summaryLines)
    BY <2>1 DEF SummaryInv
  <2> QED BY <2>1, <2>2, <2>3, <2>4, <2>5 DEF SummaryInv, Busy
<1>3. CASE ClearFollowupQueue
  <2>1. /\ current \in Queues /\ current' = None /\ drain' = drain
        /\ \A j \in Queues : j # current => queue'[j] = queue[j]
        /\ queue'[current].summaryLines = <<>>
    BY <1>3, ClearMoves
  <2>2. \A j \in Queues : drain[j].at = "idle"
    BY <1>3 DEF ClearFollowupQueue
  <2>3. unreported' = unreported \ Elements(queue[current].summaryLines) /\ current # None
    BY <1>3 DEF ClearFollowupQueue
  <2>4. unreported' = {}
    BY <2>3 DEF SummaryInv
  <2> QED BY <2>1, <2>2, <2>4 DEF SummaryInv, Busy
<1>4. ASSUME NEW i \in Queues, DrainStep(i) PROVE SummaryInv'
  <2>1. CASE DebounceEnds(i)
    BY <2>1, DebounceMoves, SummaryLoop DEF SummaryInv, Busy, ghosts
  <2>2. CASE CollectItems(i)
    BY <2>2, CollectMoves, SummaryLoop DEF SummaryInv, Busy, ghosts
  <2>3. CASE RunFails(i)
    BY <2>3, FailMoves, SummaryLoop DEF SummaryInv, Busy, ghosts
  <2>4. CASE RunSucceeds(i)
    <3>1. /\ LoopMoves(i)
          /\ queue'[i] = AfterRun(queue[i], drain[i])
          /\ unreported' = unreported \ Elements(drain[i].shown)
          /\ drain[i].at = "running"
          /\ drain'[i].at \in {"idle", "debounce"}
          /\ current = i /\ HasWork(queue'[i]) => current' = i
      BY <2>4, SuccessMoves
    <3>2. current = i /\ i # None
      BY <3>1, NoneIsNoQueue DEF SummaryInv, Busy
    <3>3. /\ \A j \in Queues : j # i => drain'[j] = drain[j] /\ ~Busy(j) /\ queue'[j] = queue[j]
          /\ drain'[i].at # "idle" => current' = i
          /\ current' \in {i, None}
      BY <3>1, <3>2 DEF LoopMoves, SummaryInv
    <3>4. /\ queue[i] \in QueueRecords /\ drain[i] \in DrainRecords
          /\ drain[i].summary \in BOOLEAN
      BY DEF QueueTypes, DrainRecords
    <3>5. CASE drain[i].summary
      <4>1. unreported' = {}
        BY <3>1, <3>5 DEF SummaryInv
      <4>2. queue'[i].summaryLines = <<>>
        BY <3>1, <3>4, <3>5, AfterRunIs
      <4> QED BY <3>1, <3>2, <3>3, <4>1, <4>2 DEF SummaryInv, Busy
    <3>6. CASE ~drain[i].summary
      <4>1. /\ queue'[i].summaryLines = queue[i].summaryLines
            /\ queue'[i].droppedCount = queue[i].droppedCount
        BY <3>1, <3>4, <3>6, AfterRunIs
      <4>2. unreported' \subseteq unreported
        BY <3>1
      <4>3. unreported' # {} => current' = i
        <5>1. queue'[i].droppedCount > 0 => HasWork(queue'[i])
          BY DEF HasWork
        <5> QED BY <3>1, <3>2, <4>1, <4>2, <5>1, NoLines DEF SummaryInv
      <4> QED BY <3>1, <3>2, <3>3, <4>1, <4>2, <4>3 DEF SummaryInv, Busy
    <3> QED BY <3>4, <3>5, <3>6
  <2> QED BY <1>4, <2>1, <2>2, <2>3, <2>4 DEF DrainStep
<1>5. ASSUME NEW m \in Messages, NEW s \in regime.settings, NEW active \in RunActive,
             EnqueueFollowupRun(m, s, active) \/ EnqueueSkipped(m, s, active)
      PROVE  SummaryInv'
  BY <1>5, SummaryEnqueue, SummarySkip
<1> QED BY <1>1, <1>2, <1>3, <1>4, <1>5 DEF Next

(* As long as nothing falls out of the queue while a followup run is in     *)
(* flight, and a queue is cleared only while it is not drained, the line of *)
(* a dropped message stays in a live queue until a run has shown it, for    *)
(* any messages, changes of settings and failing runs.                      *)
THEOREM LinesAreKept ==
  ASSUME "running" \notin OverflowPhases, ClearPhases \subseteq {"idle"}
  PROVE  Spec => []DroppedAreKept
<1>1. Init => QueueTypes /\ SummaryInv
  <2>1. Init => unreported = {} /\ current = None
    BY DEF Init
  <2> QED BY <2>1, QueueTypesInit DEF SummaryInv, Busy
<1>2. QueueTypes /\ SummaryInv /\ [Next]_vars => (QueueTypes /\ SummaryInv)'
  BY QueueTypesStep, SummaryStep
<1>3. QueueTypes /\ SummaryInv => DroppedAreKept
  <2> SUFFICES ASSUME QueueTypes, SummaryInv, NEW m \in unreported
               PROVE  \E i \in Queues : Live(i) /\ m \in Elements(queue[i].summaryLines)
    BY DEF DroppedAreKept
  <2>1. current # None /\ m \in Elements(queue[current].summaryLines)
    BY DEF SummaryInv
  <2>2. current \in Queues
    BY <2>1 DEF QueueTypes
  <2> QED BY <2>1, <2>2 DEF Live
<1> QED BY <1>1, <1>2, <1>3, PTL DEF Spec

-----------------------------------------------------------------------------
(* What became of every accepted message *)

(* The messages the session's queue holds; no other queue is live. *)
Held(m) == IF current = None THEN 0 ELSE CountIn(queue[current].items, m)

(* The acceptances of a message that are accounted for. *)
Accounted(m) == delivered[m] + Held(m) + discarded[m]

(* The prompt of a run in flight is the front of its queue as it is now,    *)
(* with what has arrived since behind it.                                   *)
PromptsFit == \A i \in Queues : drain[i].at = "running" => TakesShown(queue[i], drain[i])
PromptsShow == \A i \in Queues : drain[i].at = "running" => Shown(queue[i], drain[i])

LEMMA HeldIs ==
  ASSUME QueueTypes, NEW m
  PROVE  /\ Held(m) \in Nat
         /\ \A c \in Queues : current = c => Held(m) = CountIn(queue[c].items, m)
         /\ current = None => Held(m) = 0
<1>1. \A c \in Queues : queue[c].items \in Seq(Messages)
  BY DEF QueueTypes, QueueRecords
<1>2. \A c \in Queues : CountIn(queue[c].items, m) \in Nat
  BY <1>1, PlacesAreFinite
<1> QED BY <1>2, NoneIsNoQueue DEF Held, QueueTypes

(* After a step: a queue is taken off the session only when it is empty. *)
LEMMA HeldNext ==
  ASSUME NEW c \in Queues, NEW m,
         current' \in {c, None}, queue'[c].items # <<>> => current' = c
  PROVE  Held(m)' = CountIn(queue'[c].items, m)
<1>1. CASE current' = c
  BY <1>1, NoneIsNoQueue DEF Held
<1>2. CASE current' = None
  BY <1>2, CountInNothing, NoneIsNoQueue DEF Held
<1> QED BY <1>1, <1>2

LEMMA WorkIs == \A q : q.items # <<>> => HasWork(q)
BY DEF HasWork

(* A loop that takes nothing from its queue. *)
LEMMA LoopHolds ==
  ASSUME QueueTypes, SummaryInv, NEW i \in Queues, Busy(i), LoopMoves(i), queue' = queue,
         HasWork(queue[i]) => current' = i, NEW m
  PROVE  Held(m)' = Held(m)
<1>1. current = i /\ current' \in {i, None}
  BY DEF SummaryInv, LoopMoves
<1>2. queue'[i].items # <<>> => current' = i
  BY WorkIs
<1>3. Held(m)' = CountIn(queue'[i].items, m)
  BY <1>1, <1>2, HeldNext
<1> QED BY <1>1, <1>3, HeldIs

(* The front a run stood for leaves the queue. *)
LEMMA SuccessHolds ==
  ASSUME QueueTypes, SummaryInv, PromptsFit, NEW i \in Queues, RunSucceeds(i), NEW m
  PROVE  /\ CountIn(drain[i].prompt, m) \in Nat
         /\ CountIn(drain[i].prompt, m) + Held(m)' <= Held(m)
         /\ Shown(queue[i], drain[i]) => CountIn(drain[i].prompt, m) + Held(m)' = Held(m)
<1> DEFINE s == queue[i].items
<1> DEFINE n == drain[i].taken
<1>1. /\ LoopMoves(i) /\ queue'[i] = AfterRun(queue[i], drain[i])
      /\ drain[i].at = "running" /\ (current = i /\ HasWork(queue'[i]) => current' = i)
  BY SuccessMoves
<1>2. current = i /\ current' \in {i, None}
  BY <1>1 DEF SummaryInv, Busy, LoopMoves
<1>3. Held(m)' = CountIn(queue'[i].items, m)
  BY <1>1, <1>2, WorkIs, HeldNext
<1>4. queue[i] \in QueueRecords /\ drain[i] \in DrainRecords
  BY DEF QueueTypes
<1>5. queue'[i].items = SubSeq(s, n + 1, Len(s))
  BY <1>1, <1>4, AfterRunIs
<1>6. /\ s \in Seq(Messages) /\ n \in 0..Len(s) /\ drain[i].prompt \in Seq(Messages)
      /\ drain[i].prompt = <<>> \/ Shown(queue[i], drain[i])
  BY <1>1, <1>4 DEF PromptsFit, TakesShown, Taken, QueueRecords, DrainRecords
<1>7. Shown(queue[i], drain[i]) => drain[i].prompt = SubSeq(s, 1, n)
  BY DEF Shown
<1>8. Held(m) = CountIn(s, m)
  BY <1>2, HeldIs
<1> HIDE DEF s, n
<1> DEFINE a == SubSeq(s, 1, n)
<1> DEFINE b == SubSeq(s, n + 1, Len(s))
<1>9. a \in Seq(Messages) /\ b \in Seq(Messages)
  BY <1>6
<1>10. CountIn(s, m) = CountIn(a, m) + CountIn(b, m)
  BY <1>6, CountSplit
<1> HIDE DEF a, b
<1>11. CountIn(a, m) \in Nat /\ CountIn(b, m) \in Nat /\ CountIn(drain[i].prompt, m) \in Nat
  BY <1>6, <1>9, PlacesAreFinite
<1>12. Held(m)' = CountIn(b, m)
  BY <1>3, <1>5 DEF b
<1>13. Shown(queue[i], drain[i]) => drain[i].prompt = a
  BY <1>7 DEF a
<1>14. CASE Shown(queue[i], drain[i])
  BY <1>8, <1>10, <1>11, <1>12, <1>13, <1>14
<1>15. CASE drain[i].prompt = <<>>
  BY <1>8, <1>10, <1>11, <1>12, <1>13, <1>15, CountInNothing
<1> QED BY <1>6, <1>14, <1>15

(* A message is put behind the others, those that fall out are discarded. *)
LEMMA GrownCounts ==
  ASSUME NEW q \in QueueRecords, NEW x \in Messages, NEW m
  PROVE  /\ CountIn(Overflow(q), m) \in Nat /\ CountIn(q.items, m) \in Nat
         /\ CountIn(Grown(q, x).items, m) + CountIn(Overflow(q), m)
              = CountIn(q.items, m) + (IF x = m THEN 1 ELSE 0)
<1> DEFINE s == q.items
<1> DEFINE o == Overflow(q)
<1> DEFINE n == Len(o)
<1> DEFINE b == SubSeq(s, n + 1, Len(s))
<1>1. s \in Seq(Messages) /\ o \in Seq(Messages) /\ b \in Seq(Messages) /\ n \in 0..Len(s)
  BY OverflowIs DEF QueueRecords
<1>2. o = SubSeq(s, 1, n)
  <2>1. Len(s) \in Nat /\ q.cap \in Nat \ {0}
    BY DEF QueueRecords
  <2>2. CASE Len(s) < q.cap
    <3>1. o = <<>> /\ n = 0
      BY <2>2 DEF Overflow
    <3>2. SubSeq(s, 1, 0) = <<>>
      BY <1>1
    <3> QED BY <3>1, <3>2
  <2>3. CASE ~(Len(s) < q.cap)
    <3> DEFINE k == Len(s) - q.cap + 1
    <3>1. k \in Nat /\ k <= Len(s) /\ o = SubSeq(s, 1, k)
      BY <2>1, <2>3 DEF Overflow
    <3> HIDE DEF k
    <3>2. Len(SubSeq(s, 1, k)) = k
      BY <1>1, <3>1
    <3> QED BY <3>1, <3>2
  <2> QED BY <2>2, <2>3
<1>3. Grown(q, x).items = Append(b, x)
  <2>1. Grown(q, x).items = Append(WithoutOverflow(q).items, x)
    BY GrownIs
  <2>2. WithoutOverflow(q).items = b
    BY WithoutOverflowIs
  <2> QED BY <2>1, <2>2
<1> HIDE DEF s, n, b
<1>4. CountIn(s, m) = CountIn(o, m) + CountIn(b, m)
  BY <1>1, <1>2, CountSplit DEF b
<1> HIDE DEF o
<1>5. CountIn(Append(b, x), m) = CountIn(b, m) + (IF x = m THEN 1 ELSE 0)
  BY <1>1, CountAppend
<1>6. CountIn(s, m) \in Nat /\ CountIn(o, m) \in Nat /\ CountIn(b, m) \in Nat
  BY <1>1, PlacesAreFinite
<1>7. CountIn(Grown(q, x).items, m) + CountIn(o, m) = CountIn(s, m) + (IF x = m THEN 1 ELSE 0)
  BY <1>3, <1>4, <1>5, <1>6
<1> QED BY <1>6, <1>7 DEF s, o

LEMMA EnqueueAccounts ==
  ASSUME QueueTypes, CountTypes, NEW x \in Messages, NEW s \in regime.settings, NEW active,
         EnqueueFollowupRun(x, s, active), NEW m \in Messages
  PROVE  accepted'[m] - Accounted(m)' = accepted[m] - Accounted(m)
<1> DEFINE q == TargetQueue(s)
<1>1. /\ q \in QueueRecords
      /\ current # None => q.items = queue[current].items
      /\ current = None => q.items = <<>>
  BY TargetQueueIs
<1>2. queue'[Target] = Grown(q, x) /\ current' = Target
  BY EnqueueMoves
<1>3. Target \in Queues
  BY TargetIs DEF EnqueueFollowupRun
<1>4. /\ discarded' = [y \in Messages |-> discarded[y] + CountIn(Overflow(q), y)]
      /\ accepted' = [accepted EXCEPT ![x] = accepted[x] + 1] /\ delivered' = delivered
  BY DEF EnqueueFollowupRun, Keep
<1> HIDE DEF q
<1>5. Held(m) = CountIn(q.items, m)
  <2>1. CASE current = None
    BY <1>1, <2>1, HeldIs, CountInNothing
  <2>2. CASE current # None
    <3>1. current \in Queues
      BY <2>2 DEF QueueTypes
    <3> QED BY <1>1, <2>2, <3>1, HeldIs
  <2> QED BY <2>1, <2>2
<1>6. Held(m)' = CountIn(Grown(q, x).items, m)
  BY <1>2, <1>3, HeldNext
<1>7. /\ CountIn(Overflow(q), m) \in Nat /\ Held(m) \in Nat
      /\ Held(m)' + CountIn(Overflow(q), m) = Held(m) + (IF x = m THEN 1 ELSE 0)
  BY <1>1, <1>5, <1>6, GrownCounts
<1>8. Held(m)' \in Nat
  <2>1. QueueTypes'
    BY EnqueueMoves
  <2>2. queue'[Target].items \in Seq(Messages)
    BY <1>3, <2>1 DEF QueueTypes, QueueRecords
  <2> QED BY <1>2, <1>6, <2>2, PlacesAreFinite
<1>9. /\ discarded'[m] = discarded[m] + CountIn(Overflow(q), m)
      /\ accepted'[m] = accepted[m] + (IF x = m THEN 1 ELSE 0)
      /\ delivered'[m] = delivered[m]
      /\ accepted[m] \in Nat /\ discarded[m] \in Nat /\ delivered[m] \in Nat
  BY <1>4 DEF CountTypes
<1>10. Accounted(m)' = delivered'[m] + Held(m)' + discarded'[m]
  BY DEF Accounted
<1> HIDE DEF Held
<1> QED BY <1>7, <1>8, <1>9, <1>10 DEF Accounted

(* Steps that leave the counters alone keep what the queue holds. *)
LEMMA OthersHold ==
  ASSUME QueueTypes, SummaryInv, NEW m,
         \/ ReplyRunStarts \/ ReplyRunEnds \/ UNCHANGED vars \/ FinalizeWithFollowup
         \/ \E x \in Messages : ForgetMessageId(x)
         \/ \E x \in Messages, s \in regime.settings, active \in RunActive :
              EnqueueSkipped(x, s, active)
         \/ \E i \in Queues : DebounceEnds(i) \/ CollectItems(i) \/ RunFails(i)
  PROVE  UNCHANGED <<accepted, delivered, discarded>> /\ Held(m)' = Held(m)
<1>1. CASE \/ ReplyRunStarts \/ ReplyRunEnds \/ UNCHANGED vars
           \/ \E x \in Messages : ForgetMessageId(x)
  BY <1>1 DEF ReplyRunStarts, ReplyRunEnds, ForgetMessageId, vars, ghosts, Held
<1>2. CASE FinalizeWithFollowup
  <2>1. /\ queue' = queue /\ UNCHANGED ghosts /\ current' \in {current, None}
        /\ current # None /\ HasWork(queue[current]) => current' = current
    BY <1>2, FinalizeMoves
  <2>2. CASE current = None
    BY <2>1, <2>2 DEF Held, ghosts
  <2>3. CASE current # None
    <3>1. current \in Queues
      BY <2>3 DEF QueueTypes
    <3>2. Held(m)' = CountIn(queue'[current].items, m)
      BY <2>1, <2>3, <3>1, WorkIs, HeldNext
    <3> QED BY <2>1, <3>1, <3>2, HeldIs DEF ghosts
  <2> QED BY <2>2, <2>3
<1>3. ASSUME NEW x \in Messages, NEW s \in regime.settings, NEW active \in RunActive,
             EnqueueSkipped(x, s, active)
      PROVE  UNCHANGED <<accepted, delivered, discarded>> /\ Held(m)' = Held(m)
  <2>1. /\ queue'[Target].items = TargetQueue(s).items
        /\ current' \in {Target, None}
        /\ TargetQueue(s).items # <<>> => current' = Target
    BY <1>3, SkipMoves
  <2>2. Target \in Queues /\ (current # None => Target = current)
    BY <1>3, TargetIs DEF EnqueueSkipped
  <2>3. Held(m)' = CountIn(TargetQueue(s).items, m)
    BY <2>1, <2>2, HeldNext
  <2>4. Held(m) = CountIn(TargetQueue(s).items, m)
    <3>1. CASE current = None
      BY <3>1, TargetQueueIs, HeldIs, CountInNothing
    <3>2. CASE current # None
      <4>1. TargetQueue(s).items = queue[current].items
        BY <3>2, TargetQueueIs
      <4> QED BY <2>2, <3>2, <4>1, HeldIs
    <3> QED BY <3>1, <3>2
  <2>5. UNCHANGED <<accepted, delivered, discarded>>
    BY <1>3 DEF EnqueueSkipped, Keep
  <2> QED BY <2>3, <2>4, <2>5
<1>4. ASSUME NEW i \in Queues, DebounceEnds(i) \/ CollectItems(i) \/ RunFails(i)
      PROVE  UNCHANGED <<accepted, delivered, discarded>> /\ Held(m)' = Held(m)
  <2>1. /\ LoopMoves(i) /\ queue' = queue /\ UNCHANGED ghosts /\ Busy(i)
        /\ current = i /\ HasWork(queue[i]) => current' = i
    BY <1>4, DebounceMoves, CollectMoves, FailMoves DEF Busy
  <2>2. current = i
    BY <2>1 DEF SummaryInv
  <2>3. Held(m)' = Held(m)
    BY <2>1, <2>2, LoopHolds
  <2> QED BY <2>1, <2>3 DEF ghosts
<1> QED BY <1>1, <1>2, <1>3, <1>4

(* No step accounts for more than was accepted, and none for less when the *)
(* runs show what they take.                                               *)
LEMMA AccountStep ==
  ASSUME ClearPhases \subseteq {"idle"}, QueueTypes, CountTypes, SummaryInv, PromptsFit,
         [Next]_vars, NEW m \in Messages
  PROVE  /\ accepted'[m] - Accounted(m)' >= accepted[m] - Accounted(m)
         /\ PromptsShow => accepted'[m] - Accounted(m)' = accepted[m] - Accounted(m)
<1>1. /\ accepted[m] \in Nat /\ delivered[m] \in Nat /\ discarded[m] \in Nat /\ Held(m) \in Nat
      /\ Accounted(m)' = delivered'[m] + Held(m)' + discarded'[m]
  BY HeldIs DEF CountTypes, Accounted
<1>2. CASE UNCHANGED <<accepted, delivered, discarded>> /\ Held(m)' = Held(m)
  <2> HIDE DEF Held
  <2> QED BY <1>1, <1>2 DEF Accounted
<1>3. CASE ClearFollowupQueue
  <2>1. /\ current \in Queues /\ current' = None
        /\ discarded' = [x \in Messages |-> discarded[x] + CountIn(queue[current].items, x)]
        /\ UNCHANGED <<accepted, delivered>>
    BY <1>3 DEF ClearFollowupQueue, QueueTypes
  <2>2. Held(m)' = 0 /\ Held(m) = CountIn(queue[current].items, m)
    BY <2>1, HeldIs DEF Held
  <2>3. discarded'[m] = discarded[m] + Held(m) /\ accepted'[m] = accepted[m]
        /\ delivered'[m] = delivered[m]
    BY <2>1, <2>2
  <2> HIDE DEF Held
  <2> QED BY <1>1, <2>2, <2>3 DEF Accounted
<1>4. ASSUME NEW i \in Queues, RunSucceeds(i)
      PROVE  /\ accepted'[m] - Accounted(m)' >= accepted[m] - Accounted(m)
             /\ PromptsShow => accepted'[m] - Accounted(m)' = accepted[m] - Accounted(m)
  <2> DEFINE n == CountIn(drain[i].prompt, m)
  <2>1. /\ delivered' = [x \in Messages |-> delivered[x] + CountIn(drain[i].prompt, x)]
        /\ UNCHANGED <<accepted, discarded>> /\ drain[i].at = "running"
    BY <1>4 DEF RunSucceeds
  <2>2. n \in Nat /\ n + Held(m)' <= Held(m) /\ (PromptsShow => n + Held(m)' = Held(m))
    BY <1>4, <2>1, SuccessHolds DEF PromptsShow
  <2>3. delivered'[m] = delivered[m] + n /\ accepted'[m] = accepted[m]
        /\ discarded'[m] = discarded[m]
    BY <2>1
  <2>4. QueueTypes'
    BY <1>4, SuccessMoves DEF LoopMoves
  <2>5. Held(m)' \in Nat
    <3>1. \A c \in Queues : queue'[c].items \in Seq(Messages)
      BY <2>4 DEF QueueTypes, QueueRecords
    <3>2. \A c \in Queues : CountIn(queue'[c].items, m) \in Nat
      BY <3>1, PlacesAreFinite
    <3> QED BY <2>4, <3>2 DEF Held, QueueTypes
  <2> HIDE DEF n, Held
  <2> QED BY <1>1, <2>2, <2>3, <2>5 DEF Accounted
<1>5. ASSUME NEW x \in Messages, NEW s \in regime.settings, NEW active \in RunActive,
             EnqueueFollowupRun(x, s, active)
      PROVE  /\ accepted'[m] - Accounted(m)' >= accepted[m] - Accounted(m)
             /\ PromptsShow => accepted'[m] - Accounted(m)' = accepted[m] - Accounted(m)
  <2>1. accepted'[m] - Accounted(m)' = accepted[m] - Accounted(m)
    BY <1>5, EnqueueAccounts
  <2>2. accepted[m] - Accounted(m) \in Int
    <3> HIDE DEF Held
    <3> QED BY <1>1 DEF Accounted
  <2> QED BY <2>1, <2>2
<1> QED BY <1>2, <1>3, <1>4, <1>5, OthersHold DEF Next, DrainStep

(* A message that arrives during a run goes behind what the run stands for. *)
LEMMA PromptsFitStep ==
  ASSUME "running" \notin OverflowPhases, ClearPhases \subseteq {"idle"},
         QueueTypes, SummaryInv, PromptsFit, [Next]_vars
  PROVE  /\ PromptsFit'
         /\ PromptsShow /\ (\A i \in Queues : SummarizesBatches(queue[i])) => PromptsShow'
<1> DEFINE Kept(j) == drain'[j].at = "running" =>
             /\ TakesShown(queue'[j], drain'[j])
             /\ PromptsShow /\ (\A i \in Queues : SummarizesBatches(queue[i])) =>
                  Shown(queue'[j], drain'[j])
<1>1. SUFFICES ASSUME NEW j \in Queues PROVE Kept(j)
  BY DEF PromptsFit, PromptsShow
<1>2. ASSUME drain'[j] = drain[j], queue'[j].items = queue[j].items PROVE Kept(j)
  BY <1>2 DEF PromptsFit, PromptsShow, TakesShown, Taken, Shown
<1>3. CASE drain'[j] \in {Resting, Debouncing}
  BY <1>3, LoopsStart
<1>4. CASE \/ ReplyRunStarts \/ ReplyRunEnds \/ UNCHANGED vars
           \/ \E x \in Messages : ForgetMessageId(x)
  BY <1>2, <1>4, QuietMoves
<1>5. CASE FinalizeWithFollowup
  BY <1>2, <1>3, <1>5, FinalizeMoves
<1>6. CASE ClearFollowupQueue
  <2>1. drain' = drain /\ drain[j].at = "idle"
    BY <1>6, ClearMoves DEF ClearFollowupQueue
  <2> QED BY <2>1
<1>7. ASSUME NEW x \in Messages, NEW s \in regime.settings, NEW active \in RunActive,
             EnqueueSkipped(x, s, active)
      PROVE  Kept(j)
  <2>1. /\ queue'[Target].items = TargetQueue(s).items
        /\ \A i \in Queues : i # Target => queue'[i] = queue[i] /\ drain'[i] = drain[i]
        /\ drain'[Target] \in {drain[Target], Debouncing}
    BY <1>7, SkipMoves
  <2>2. /\ current # None => Target = current
        /\ current = None => drain[Target].at = "idle"
    BY <1>7, TargetIs DEF EnqueueSkipped
  <2>3. current # None => TargetQueue(s).items = queue[current].items
    BY TargetQueueIs
  <2>4. CASE j # Target
    BY <1>2, <2>1, <2>4
  <2>5. CASE j = Target /\ current # None
    BY <1>2, <1>3, <2>1, <2>2, <2>3, <2>5
  <2>6. CASE j = Target /\ current = None
    BY <1>3, <2>1, <2>2, <2>6
  <2> QED BY <2>4, <2>5, <2>6
<1>8. ASSUME NEW x \in Messages, NEW s \in regime.settings, NEW active \in RunActive,
             EnqueueFollowupRun(x, s, active)
      PROVE  Kept(j)
  <2> DEFINE q == TargetQueue(s)
  <2>1. /\ queue'[Target] = Grown(q, x)
        /\ \A i \in Queues : i # Target => queue'[i] = queue[i] /\ drain'[i] = drain[i]
        /\ drain'[Target] \in {drain[Target], Debouncing}
    BY <1>8, EnqueueMoves
  <2>2. /\ current # None => Target = current
        /\ current = None => drain[Target].at = "idle"
    BY <1>8, TargetIs DEF EnqueueFollowupRun
  <2>3. /\ q \in QueueRecords
        /\ current # None => q.items = queue[current].items
    BY TargetQueueIs
  <2>4. Overflow(q) = <<>> \/ \A i \in Queues : drain[i].at \in OverflowPhases
    BY <1>8 DEF EnqueueFollowupRun
  <2> HIDE DEF q
  <2>5. CASE j # Target
    BY <1>2, <2>1, <2>5
  <2>6. CASE j = Target /\ current = None
    BY <1>3, <2>1, <2>2, <2>6
  <2>7. CASE j = Target /\ drain[j].at # "running"
    BY <2>1, <2>7, LoopsStart
  <2>8. CASE j = Target /\ current # None /\ drain[j].at = "running"
    <3>1. /\ j = current /\ Overflow(q) = <<>> /\ q.items = queue[j].items
          /\ drain'[j] \in {drain[j], Debouncing}
      BY <2>1, <2>2, <2>3, <2>4, <2>8
    <3> DEFINE t == queue[j].items
    <3> DEFINE n == drain[j].taken
    <3>2. t \in Seq(Messages) /\ n \in Nat
      BY DEF QueueTypes, QueueRecords, DrainRecords
    <3>3. queue'[j].items = Append(t, x)
      <4>1. Grown(q, x).items = Append(WithoutOverflow(q).items, x)
        BY <2>3, GrownIs
      <4>2. WithoutOverflow(q).items = SubSeq(q.items, Len(Overflow(q)) + 1, Len(q.items))
        BY <2>3, WithoutOverflowIs
      <4>3. SubSeq(t, Len(<<>>) + 1, Len(t)) = t
        BY <3>2
      <4> QED BY <2>1, <2>8, <3>1, <4>1, <4>2, <4>3
    <3>4. n <= Len(t)
      BY <2>8 DEF PromptsFit, TakesShown, Taken
    <3> HIDE DEF t, n
    <3>5. n <= Len(Append(t, x)) /\ SubSeq(Append(t, x), 1, n) = SubSeq(t, 1, n)
      BY <3>2, <3>4
    <3>6. CASE drain'[j] = drain[j]
      BY <2>8, <3>3, <3>5, <3>6 DEF PromptsFit, PromptsShow, TakesShown, Taken, Shown, t, n
    <3> QED BY <1>3, <3>1, <3>6
  <2> QED BY <2>5, <2>6, <2>7, <2>8
<1>9. ASSUME NEW i \in Queues, DrainStep(i) PROVE Kept(j)
  <2>1. LoopMoves(i)
    BY <1>9, DebounceMoves, CollectMoves, SuccessMoves, FailMoves DEF DrainStep
  <2>2. CASE j # i
    BY <1>2, <1>3, <2>1, <2>2 DEF LoopMoves
  <2>3. CASE j = i
    BY <1>9, <2>3, DebounceMoves, CollectMoves, SuccessMoves, FailMoves
       DEF DrainStep, TakesShown
  <2> QED BY <2>2, <2>3
<1> QED BY <1>4, <1>5, <1>6, <1>7, <1>8, <1>9 DEF Next

(* With such settings alone, no single item gives its place to a summary. *)
OnlyBatchesSummarized == \A r \in Regimes : \A s \in r.settings : SummarizesBatches(s)

LEMMA StylesStep ==
  ASSUME OnlyBatchesSummarized, QueueTypes, \A i \in Queues : SummarizesBatches(queue[i]),
         [Next]_vars
  PROVE  \A i \in Queues : SummarizesBatches(queue'[i])
<1>1. ASSUME NEW i \in Queues, queue'[i] = queue[i] PROVE SummarizesBatches(queue'[i])
  BY <1>1
<1>2. CASE \/ ReplyRunStarts \/ ReplyRunEnds \/ UNCHANGED vars \/ FinalizeWithFollowup
           \/ \E x \in Messages : ForgetMessageId(x)
  BY <1>1, <1>2, QuietMoves, FinalizeMoves
<1>3. CASE ClearFollowupQueue
  <2>1. /\ current \in Queues /\ \A i \in Queues : i # current => queue'[i] = queue[i]
        /\ queue'[current].mode = queue[current].mode
        /\ queue'[current].dropPolicy = queue[current].dropPolicy
    BY <1>3, ClearMoves
  <2> QED BY <1>1, <2>1 DEF SummarizesBatches
<1>4. ASSUME NEW x \in Messages, NEW s \in regime.settings, NEW active \in RunActive,
             EnqueueFollowupRun(x, s, active) \/ EnqueueSkipped(x, s, active)
      PROVE  \A i \in Queues : SummarizesBatches(queue'[i])
  <2>1. SummarizesBatches(s)
    BY DEF OnlyBatchesSummarized, QueueTypes
  <2>2. \A i \in Queues : i # Target => queue'[i] = queue[i]
    BY <1>4, EnqueueMoves, SkipMoves
  <2>3. queue'[Target].mode = s.mode /\ queue'[Target].dropPolicy = s.dropPolicy
    <3>1. CASE EnqueueSkipped(x, s, active)
      BY <3>1, SkipMoves
    <3>2. CASE EnqueueFollowupRun(x, s, active)
      <4>1. queue'[Target] = Grown(TargetQueue(s), x)
        BY <3>2, EnqueueMoves
      <4>2. /\ TargetQueue(s) \in QueueRecords
            /\ TargetQueue(s).mode = s.mode /\ TargetQueue(s).dropPolicy = s.dropPolicy
        BY TargetQueueIs
      <4>3. /\ Grown(TargetQueue(s), x).mode = TargetQueue(s).mode
            /\ Grown(TargetQueue(s), x).dropPolicy = TargetQueue(s).dropPolicy
        BY <4>2, GrownIs
      <4> QED BY <4>1, <4>2, <4>3
    <3> QED BY <1>4, <3>1, <3>2
  <2>4. SummarizesBatches(queue'[Target])
    BY <2>1, <2>3 DEF SummarizesBatches
  <2> QED BY <1>1, <2>2, <2>4
<1>5. ASSUME NEW i \in Queues, DrainStep(i)
      PROVE  \A j \in Queues : SummarizesBatches(queue'[j])
  <2>1. \A j \in Queues : j # i => queue'[j] = queue[j]
    BY <1>5, DebounceMoves, CollectMoves, SuccessMoves, FailMoves DEF DrainStep, LoopMoves
  <2>2. CASE RunSucceeds(i)
    <3>1. queue'[i] = AfterRun(queue[i], drain[i])
      BY <2>2, SuccessMoves
    <3>2. queue[i] \in QueueRecords /\ drain[i] \in DrainRecords
      BY DEF QueueTypes
    <3>3. queue'[i].mode = queue[i].mode /\ queue'[i].dropPolicy = queue[i].dropPolicy
      BY <3>1, <3>2, AfterRunIs
    <3> QED BY <1>1, <2>1, <3>3 DEF SummarizesBatches
  <2>3. CASE ~RunSucceeds(i)
    BY <1>1, <1>5, <2>1, <2>3, DebounceMoves, CollectMoves, FailMoves DEF DrainStep
  <2> QED BY <2>2, <2>3
<1> QED BY <1>2, <1>3, <1>4, <1>5 DEF Next

LEMMA PendingIsHeld ==
  ASSUME QueueTypes, SummaryInv, NEW m
  PROVE  Pending(m) = Held(m)
<1>1. CASE current = None
  <2>1. {i \in Queues : Live(i)} = {}
    BY <1>1, NoneIsNoQueue DEF SummaryInv, Busy, Live
  <2> QED BY <1>1, <2>1, PendingOfNone, HeldIs
<1>2. CASE current # None
  <2>1. current \in Queues
    BY <1>2 DEF QueueTypes
  <2>2. {i \in Queues : Live(i)} = {current}
    BY <2>1 DEF SummaryInv, Busy, Live
  <2>3. Held(m) = CountIn(queue[current].items, m) /\ Held(m) \in Nat
    BY <2>1, HeldIs
  <2> QED BY <2>1, <2>2, <2>3, PendingOfOne
<1> QED BY <1>1, <1>2

(* What is accounted for was accepted, and the other way round. *)
OnceInv ==
  /\ QueueTypes /\ CountTypes /\ SummaryInv /\ PromptsFit
  /\ \A m \in Messages : Accounted(m) <= accepted[m]
LossInv ==
  /\ PromptsShow /\ \A i \in Queues : SummarizesBatches(queue[i])
  /\ \A m \in Messages : accepted[m] <= Accounted(m)

LEMMA AccountedAreInts ==
  ASSUME QueueTypes, CountTypes, NEW m \in Messages
  PROVE  accepted[m] \in Int /\ Accounted(m) \in Int
<1> HIDE DEF Held
<1> QED BY HeldIs DEF Accounted, CountTypes

LEMMA OnceInvInit == Init => OnceInv /\ (OnlyBatchesSummarized => LossInv)
<1> SUFFICES ASSUME Init PROVE OnceInv /\ (OnlyBatchesSummarized => LossInv)
  OBVIOUS
<1>1. /\ QueueTypes /\ \A i \in Queues : drain[i].at = "idle" /\ queue[i].summaryLines = <<>>
  BY QueueTypesInit
<1>2. CountTypes /\ current = None /\ unreported = {}
  BY DEF Init, CountTypes
<1>3. SummaryInv /\ PromptsFit /\ PromptsShow
  BY <1>1, <1>2 DEF SummaryInv, Busy, PromptsFit, PromptsShow
<1>4. \A m \in Messages : Accounted(m) = accepted[m] /\ accepted[m] = 0
  <2> TAKE m \in Messages
  <2>1. accepted[m] = 0 /\ delivered[m] = 0 /\ discarded[m] = 0
    BY DEF Init
  <2>2. Held(m) = 0
    BY <1>1, <1>2, HeldIs
  <2> QED BY <2>1, <2>2 DEF Accounted
<1>5. ASSUME OnlyBatchesSummarized, NEW i \in Queues PROVE SummarizesBatches(queue[i])
  <2>1. PICK s \in regime.settings : queue = [j \in Queues |-> NewQueue(s)]
    BY DEF Init
  <2>2. SummarizesBatches(s) /\ IsSetting(s)
    BY <1>1, <1>5, SettingsAre DEF OnlyBatchesSummarized, QueueTypes
  <2>3. queue[i].mode = s.mode /\ queue[i].dropPolicy = s.dropPolicy
    BY <2>1, <2>2, NewQueueIs
  <2> QED BY <2>2, <2>3 DEF SummarizesBatches
<1> QED BY <1>1, <1>2, <1>3, <1>4, <1>5 DEF OnceInv, LossInv

LEMMA OnceInvStep ==
  ASSUME "running" \notin OverflowPhases, ClearPhases \subseteq {"idle"}, OnceInv, [Next]_vars
  PROVE  OnceInv'
<1>1. (QueueTypes /\ CountTypes /\ SummaryInv /\ PromptsFit)'
  BY QueueTypesStep, CountTypesStep, SummaryStep, PromptsFitStep DEF OnceInv
<1>2. ASSUME NEW m \in Messages PROVE Accounted(m)' <= accepted'[m]
  <2>1. accepted'[m] - Accounted(m)' >= accepted[m] - Accounted(m) /\ Accounted(m) <= accepted[m]
    BY AccountStep DEF OnceInv
  <2>2. accepted[m] \in Int /\ Accounted(m) \in Int
    BY AccountedAreInts DEF OnceInv
  <2>3. (accepted[m] \in Int /\ Accounted(m) \in Int)'
    BY <1>1, AccountedAreInts, PTL
  <2> HIDE DEF Accounted
  <2> QED BY <2>1, <2>2, <2>3
<1> QED BY <1>1, <1>2 DEF OnceInv

LEMMA LossInvStep ==
  ASSUME "running" \notin OverflowPhases, ClearPhases \subseteq {"idle"},
         OnlyBatchesSummarized, OnceInv, LossInv, [Next]_vars
  PROVE  LossInv'
<1>1. PromptsShow' /\ \A i \in Queues : SummarizesBatches(queue'[i])
  BY PromptsFitStep, StylesStep DEF OnceInv, LossInv
<1>2. (QueueTypes /\ CountTypes)'
  BY OnceInvStep DEF OnceInv
<1>3. ASSUME NEW m \in Messages PROVE accepted'[m] <= Accounted(m)'
  <2>1. accepted'[m] - Accounted(m)' = accepted[m] - Accounted(m) /\ accepted[m] <= Accounted(m)
    BY AccountStep DEF OnceInv, LossInv
  <2>2. accepted[m] \in Int /\ Accounted(m) \in Int
    BY AccountedAreInts DEF OnceInv
  <2>3. (accepted[m] \in Int /\ Accounted(m) \in Int)'
    BY <1>2, AccountedAreInts, PTL
  <2> HIDE DEF Accounted
  <2> QED BY <2>1, <2>2, <2>3
<1> QED BY <1>1, <1>3 DEF LossInv

(* As long as nothing falls out of the queue while a followup run is in     *)
(* flight, and a queue is cleared only while it is not drained, every       *)
(* acceptance of a message ends in at most one prompt or one drop, with     *)
(* runs that fail, retries, and messages that arrive during runs.           *)
THEOREM NoMessageAnsweredTwice ==
  ASSUME "running" \notin OverflowPhases, ClearPhases \subseteq {"idle"}
  PROVE  Spec => []AnsweredOnce
<1>1. Init => OnceInv
  BY OnceInvInit
<1>2. OnceInv /\ [Next]_vars => OnceInv'
  BY OnceInvStep
<1>3. OnceInv => AnsweredOnce
  BY PendingIsHeld DEF OnceInv, AnsweredOnce, Accounted
<1> QED BY <1>1, <1>2, <1>3, PTL DEF Spec

(* Under the same conditions, and when only collected batches are           *)
(* summarized, no accepted message vanishes: without the last condition a   *)
(* summary takes the place of the head item, which leaves the queue unsaid. *)
THEOREM NoMessageLost ==
  ASSUME "running" \notin OverflowPhases, ClearPhases \subseteq {"idle"}, OnlyBatchesSummarized
  PROVE  Spec => []NothingLost
<1>1. Init => OnceInv /\ LossInv
  BY OnceInvInit
<1>2. OnceInv /\ LossInv /\ [Next]_vars => (OnceInv /\ LossInv)'
  BY OnceInvStep, LossInvStep
<1>3. OnceInv /\ LossInv => NothingLost
  BY PendingIsHeld DEF OnceInv, LossInv, NothingLost, Accounted
<1> QED BY <1>1, <1>2, <1>3, PTL DEF Spec

=============================================================================
