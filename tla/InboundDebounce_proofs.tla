----------------------- MODULE InboundDebounce_proofs -----------------------
(***************************************************************************)
(* Proofs about InboundDebounce: for any messages, keys and maxTrackedKeys *)
(* the chains of tasks implement KeyedFifo, that is, each step of the      *)
(* debouncer is the arrival of a message, the hand-over of the first ones  *)
(* that wait, the passing of one when none waits, or none of these.        *)
(*                                                                         *)
(* What waits for a key is the concatenation of what its slots hold.       *)
(* FlattenSeq is a recursive function, which the lemmas unfold once, by an *)
(* induction over the length that SetInduction makes a matter of sets: the *)
(* least number outside a set that is closed under + 1 has a predecessor.  *)
(***************************************************************************)
EXTENDS InboundDebounce, SequenceTheorems, WellFoundedInduction, TLAPS

-----------------------------------------------------------------------------
(* Induction, for sets of numbers.                                         *)

LEMMA SetInduction ==
  ASSUME NEW T \in SUBSET Nat, 0 \in T, \A n \in T : n + 1 \in T
  PROVE  T = Nat
<1> DEFINE rest == Nat \ T
<1> SUFFICES ASSUME rest # {} PROVE FALSE
  OBVIOUS
<1>1. PICK x \in rest : \A y \in rest : ~ (<<y, x>> \in OpToRel(<, Nat))
  <2>1. rest \subseteq Nat
    OBVIOUS
  <2> HIDE DEF rest
  <2> QED BY <2>1, NatLessThanWellFounded, WFMin
<1>2. \A y \in rest : ~ (y < x)
  BY <1>1 DEF OpToRel
<1>3. x # 0 /\ x \in Nat
  OBVIOUS
<1>4. x - 1 \in T
  BY <1>2, <1>3
<1> QED BY <1>3, <1>4

(* The concatenation of a sequence of sequences, up to each place.         *)
IsFlat(s, f) ==
  /\ f \in [1..Len(s) -> Seq(Items)]
  /\ \A i \in 1..Len(s) : f[i] = IF i = 1 THEN s[i] ELSE f[i-1] \o s[i]

LEMMA FlatExists ==
  ASSUME NEW s \in Seq(Seq(Items))
  PROVE  \E f : IsFlat(s, f)
<1> DEFINE Part(n, f) == /\ f \in [1..n -> Seq(Items)]
                         /\ \A i \in 1..n : f[i] = IF i = 1 THEN s[i] ELSE f[i-1] \o s[i]
<1> DEFINE T == {n \in Nat : n <= Len(s) => \E f : Part(n, f)}
<1>1. \E f : Part(0, f)
  <2>1. Part(0, [i \in 1..0 |-> s[i]])
    OBVIOUS
  <2> QED BY <2>1
<1>2. ASSUME NEW n \in Nat, n + 1 <= Len(s), \E f : Part(n, f)
      PROVE  \E f : Part(n + 1, f)
  <2>1. Len(s) \in Nat /\ n <= Len(s)
    BY <1>2
  <2>2. PICK g : Part(n, g)
    BY <1>2
  <2> DEFINE last == IF n = 0 THEN s[n + 1] ELSE g[n] \o s[n + 1]
  <2> DEFINE f == [i \in 1..(n + 1) |-> IF i <= n THEN g[i] ELSE last]
  <2>3. /\ last \in Seq(Items) /\ f[n + 1] = last
        /\ \A i \in 1..n : f[i] = g[i] /\ g[i] \in Seq(Items)
    <3>1. n + 1 \in 1..Len(s)
      BY <1>2, <2>1
    <3>2. s[n + 1] \in Seq(Items)
      BY <3>1
    <3>3. n # 0 => g[n] \in Seq(Items)
      BY <2>2
    <3>4. last \in Seq(Items)
      BY <3>2, <3>3
    <3> HIDE DEF last
    <3> QED BY <2>2, <3>4
  <2>4. f = [i \in 1..(n + 1) |-> f[i]]
    OBVIOUS
  <2>5. n = 0 => last = s[n + 1]
    OBVIOUS
  <2>6. n # 0 => last = g[n] \o s[n + 1]
    OBVIOUS
  <2> HIDE DEF f, last
  <2>7. ASSUME NEW i \in 1..(n + 1)
        PROVE  f[i] \in Seq(Items) /\ f[i] = IF i = 1 THEN s[i] ELSE f[i-1] \o s[i]
    <3>1. CASE i <= n
      <4>1. i \in 1..n /\ f[i] = g[i] /\ (i # 1 => i - 1 \in 1..n /\ f[i-1] = g[i-1])
        BY <2>3, <2>7, <3>1
      <4> QED BY <2>2, <2>3, <4>1
    <3>2. CASE i = n + 1 /\ n = 0
      BY <2>3, <2>5, <3>2
    <3>3. CASE i = n + 1 /\ n # 0
      <4>1. i - 1 = n /\ f[n] = g[n] /\ i # 1
        BY <2>3, <3>3
      <4>2. f[i-1] \o s[i] = g[n] \o s[n + 1]
        BY <3>3, <4>1
      <4> QED BY <2>3, <2>6, <3>3, <4>1, <4>2
    <3> QED BY <2>7, <3>1, <3>2, <3>3
  <2>8. Part(n + 1, f)
    BY <2>4, <2>7
  <2> QED BY <2>8
<1>3. T = Nat
  <2> HIDE DEF Part
  <2>1. T \in SUBSET Nat /\ 0 \in T
    BY <1>1
  <2>2. \A n \in T : n + 1 \in T
    <3> TAKE n \in T
    <3>1. n \in Nat /\ (n <= Len(s) => \E f : Part(n, f)) /\ Len(s) \in Nat
      OBVIOUS
    <3>2. n + 1 <= Len(s) => \E f : Part(n + 1, f)
      BY <1>2, <3>1
    <3> QED BY <3>1, <3>2
  <2> HIDE DEF T
  <2> QED BY <2>1, <2>2, SetInduction
<1>4. \E f : Part(Len(s), f)
  <2> HIDE DEF Part
  <2>1. Len(s) \in Nat
    OBVIOUS
  <2>2. \A n \in T : n <= Len(s) => \E f : Part(n, f)
    OBVIOUS
  <2> HIDE DEF T
  <2> QED BY <1>3, <2>1, <2>2
<1> QED BY <1>4 DEF IsFlat

(* There is one way to concatenate the first n of them. *)
Concatenates(s, f, n) ==
  \A i \in 1..n : f[i] = IF i = 1 THEN s[i] ELSE f[i-1] \o s[i]

LEMMA OneWay ==
  ASSUME NEW s, NEW n \in Nat, NEW f, Concatenates(s, f, n), NEW g, Concatenates(s, g, n),
         NEW j \in 1..n
  PROVE  g[j] = f[j]
<1> DEFINE T == {i \in Nat : i + 1 <= n => g[i + 1] = f[i + 1]}
<1>1. 0 \in T
  BY DEF Concatenates
<1>2. ASSUME NEW i \in T PROVE i + 1 \in T
  <2>1. i \in Nat /\ (i + 1 <= n => g[i + 1] = f[i + 1])
    OBVIOUS
  <2>2. ASSUME i + 2 <= n PROVE g[i + 2] = f[i + 2]
    <3>1. i + 2 \in 1..n /\ i + 2 # 1 /\ (i + 2) - 1 = i + 1 /\ i + 1 <= n
      BY <2>1, <2>2
    <3>2. f[i + 2] = f[(i + 2) - 1] \o s[i + 2]
      BY <3>1 DEF Concatenates
    <3>3. g[i + 2] = g[(i + 2) - 1] \o s[i + 2]
      BY <3>1 DEF Concatenates
    <3> QED BY <2>1, <3>1, <3>2, <3>3
  <2>3. (i + 1) + 1 = i + 2 /\ i + 1 \in Nat
    BY <2>1
  <2> QED BY <2>2, <2>3
<1>3. T = Nat
  <2>1. T \in SUBSET Nat
    OBVIOUS
  <2> HIDE DEF T
  <2> QED BY <1>1, <1>2, <2>1, SetInduction
<1>4. \A i \in T : i + 1 <= n => g[i + 1] = f[i + 1]
  OBVIOUS
<1> HIDE DEF T
<1>5. j - 1 \in T /\ (j - 1) + 1 = j /\ j <= n
  BY <1>3
<1>6. g[(j - 1) + 1] = f[(j - 1) + 1]
  BY <1>4, <1>5
<1> QED BY <1>5, <1>6

LEMMA FlattenIs ==
  ASSUME NEW s \in Seq(Seq(Items)), s # <<>>, NEW f, IsFlat(s, f)
  PROVE  FlattenSeq(s) = f[Len(s)]
<1> DEFINE Step(g) == [i \in 1..Len(s) |-> IF i = 1 THEN s[i] ELSE g[i-1] \o s[i]]
<1> DEFINE flatten == CHOOSE g : g = Step(g)
<1>1. Len(s) \in Nat /\ Len(s) # 0
  OBVIOUS
<1>2. FlattenSeq(s) = flatten[Len(s)]
  BY <1>1 DEF FlattenSeq
<1>3. f = Step(f)
  BY DEF IsFlat
<1>4. \A g : g = Step(g) => Concatenates(s, g, Len(s))
  <2> SUFFICES ASSUME NEW g, g = Step(g), NEW i \in 1..Len(s)
               PROVE  g[i] = IF i = 1 THEN s[i] ELSE g[i-1] \o s[i]
    BY DEF Concatenates
  <2>1. Step(g)[i] = IF i = 1 THEN s[i] ELSE g[i-1] \o s[i]
    OBVIOUS
  <2> HIDE DEF Step
  <2> QED BY <2>1
<1> HIDE DEF Step
<1>5. flatten = Step(flatten)
  BY <1>3
<1> HIDE DEF flatten
<1>6. Len(s) \in 1..Len(s)
  BY <1>1
<1>7. Concatenates(s, f, Len(s))
  BY <1>3, <1>4
<1>8. Concatenates(s, flatten, Len(s))
  BY <1>4, <1>5
<1>9. flatten[Len(s)] = f[Len(s)]
  BY <1>1, <1>6, <1>7, <1>8, OneWay
<1> QED BY <1>2, <1>9

LEMMA FlattenNothing == FlattenSeq(<<>>) = <<>>
BY DEF FlattenSeq

LEMMA FlattenType == ASSUME NEW s \in Seq(Seq(Items)) PROVE FlattenSeq(s) \in Seq(Items)
<1>1. CASE s = <<>>
  <2>1. <<>> \in Seq(Items)
    OBVIOUS
  <2> QED BY <1>1, <2>1, FlattenNothing
<1>2. CASE s # <<>>
  <2>1. PICK f : IsFlat(s, f)
    BY FlatExists
  <2>2. Len(s) \in 1..Len(s)
    BY <1>2
  <2>3. f[Len(s)] \in Seq(Items)
    BY <2>1, <2>2 DEF IsFlat
  <2> QED BY <1>2, <2>1, <2>3, FlattenIs
<1> QED BY <1>1, <1>2

(* What is appended comes last. *)
LEMMA FlattenAppend ==
  ASSUME NEW s \in Seq(Seq(Items)), NEW x \in Seq(Items)
  PROVE  FlattenSeq(Append(s, x)) = FlattenSeq(s) \o x
<1> DEFINE t == Append(s, x)
<1>1. /\ t \in Seq(Seq(Items)) /\ t # <<>> /\ Len(s) \in Nat /\ Len(t) = Len(s) + 1
      /\ t[Len(s) + 1] = x
  BY AppendProperties, LenProperties
<1>2. \A i \in 1..Len(s) : t[i] = s[i]
  BY AppendProperties
<1> HIDE DEF t
<1>3. PICK g : IsFlat(t, g)
  BY <1>1, FlatExists
<1>4. FlattenSeq(t) = g[Len(s) + 1]
  BY <1>1, <1>3, FlattenIs
<1>5. CASE s = <<>>
  <2>1. Len(s) = 0 /\ Len(t) = 1
    BY <1>1, <1>5
  <2>2. g[1] = t[1]
    BY <1>3, <2>1 DEF IsFlat
  <2>3. FlattenSeq(s) \o x = x
    BY <1>5, FlattenNothing
  <2> QED BY <1>1, <1>4, <2>1, <2>2, <2>3 DEF t
<1>6. CASE s # <<>>
  <2>1. PICK f : IsFlat(s, f)
    BY FlatExists
  <2>2. /\ Len(s) \in 1..Len(s) /\ Len(s) + 1 \in 1..Len(t) /\ Len(s) + 1 # 1
        /\ (Len(s) + 1) - 1 = Len(s)
    BY <1>1, <1>6
  <2>3. Concatenates(s, f, Len(s))
    BY <2>1 DEF IsFlat, Concatenates
  <2>4. Concatenates(t, g, Len(t))
    BY <1>3 DEF IsFlat, Concatenates
  <2>5. Concatenates(s, g, Len(s))
    <3> SUFFICES ASSUME NEW i \in 1..Len(s)
                 PROVE  g[i] = IF i = 1 THEN s[i] ELSE g[i-1] \o s[i]
      BY DEF Concatenates
    <3>1. i \in 1..Len(t) /\ t[i] = s[i]
      BY <1>1, <1>2
    <3> QED BY <2>4, <3>1 DEF Concatenates
  <2>6. g[Len(s)] = f[Len(s)]
    BY <1>1, <2>2, <2>3, <2>5, OneWay
  <2>7. g[Len(s) + 1] = g[(Len(s) + 1) - 1] \o t[Len(s) + 1]
    BY <2>2, <2>4 DEF Concatenates
  <2>8. FlattenSeq(s) = f[Len(s)]
    BY <1>6, <2>1, FlattenIs
  <2> QED BY <1>1, <1>4, <2>2, <2>6, <2>7, <2>8 DEF t
<1> QED BY <1>5, <1>6

(* What the first sequence holds comes first. *)
LEMMA FlattenHead ==
  ASSUME NEW s \in Seq(Seq(Items)), s # <<>>
  PROVE  FlattenSeq(s) = Head(s) \o FlattenSeq(Tail(s))
<1> DEFINE t == Tail(s)
<1>1. /\ Len(s) \in Nat \ {0} /\ t \in Seq(Seq(Items)) /\ Len(t) = Len(s) - 1
      /\ Head(s) = s[1] /\ Head(s) \in Seq(Items)
  BY HeadTailProperties, LenProperties
<1>2. \A i \in 1..Len(t) : t[i] = s[i + 1]
  BY HeadTailProperties
<1> HIDE DEF t
<1>3. PICK f : IsFlat(s, f)
  BY FlatExists
<1>4. FlattenSeq(s) = f[Len(s)]
  BY <1>3, FlattenIs
<1>f. Concatenates(s, f, Len(s))
  BY <1>3 DEF IsFlat, Concatenates
<1>5. f[1] = s[1]
  <2>1. 1 \in 1..Len(s)
    BY <1>1
  <2> QED BY <1>f, <2>1 DEF Concatenates
<1>6. CASE t = <<>>
  <2>1. Len(s) = 1
    BY <1>1, <1>6
  <2>2. Head(s) \o FlattenSeq(t) = Head(s)
    BY <1>1, <1>6, FlattenNothing
  <2> QED BY <1>1, <1>4, <1>5, <2>1, <2>2 DEF t
<1>7. CASE t # <<>>
  <2>1. PICK g : IsFlat(t, g)
    BY <1>1, FlatExists
  <2>2. FlattenSeq(t) = g[Len(t)]
    BY <1>1, <1>7, <2>1, FlattenIs
  <2>3. Len(t) \in Nat \ {0}
    BY <1>1, <1>7
  <2>g. Concatenates(t, g, Len(t))
    BY <2>1 DEF IsFlat, Concatenates
  <2>4. f[2] = s[1] \o g[1]
    <3>1. 2 \in 1..Len(s) /\ 1 \in 1..Len(t)
      BY <1>1, <2>3
    <3>2. \A i \in 1..Len(s) : i = 2 => f[i] = f[1] \o s[i]
      <4>1. \A i \in 1..Len(s) : i = 2 => i # 1 /\ i - 1 = 1
        OBVIOUS
      <4>2. \A i \in 1..Len(s) : i # 1 => f[i] = f[i-1] \o s[i]
        BY <1>f DEF Concatenates
      <4> QED BY <4>1, <4>2
    <3>3. g[1] = t[1]
      BY <2>g, <3>1 DEF Concatenates
    <3>4. \A i \in 1..Len(t) : i = 1 => t[i] = s[2]
      <4>1. \A i \in 1..Len(t) : i = 1 => i + 1 = 2
        OBVIOUS
      <4> QED BY <1>2, <4>1
    <3>5. f[2] = f[1] \o s[2] /\ t[1] = s[2]
      BY <3>1, <3>2, <3>4
    <3> QED BY <1>5, <3>3, <3>5
  <2>5. ASSUME NEW i \in Nat, i + 2 <= Len(t), f[i + 2] = s[1] \o g[i + 1]
        PROVE  f[i + 3] = s[1] \o g[i + 2]
    <3>1. /\ i + 3 \in 1..Len(s) /\ i + 3 # 1 /\ (i + 3) - 1 = i + 2
          /\ i + 2 \in 1..Len(t) /\ i + 2 # 1 /\ (i + 2) - 1 = i + 1
          /\ i + 1 \in 1..Len(t) /\ (i + 2) + 1 = i + 3
      BY <1>1, <2>3, <2>5
    <3>2. f[i + 3] = f[(i + 3) - 1] \o s[i + 3]
      BY <1>f, <3>1 DEF Concatenates
    <3>3. g[i + 2] = g[(i + 2) - 1] \o t[i + 2]
      BY <2>g, <3>1 DEF Concatenates
    <3>4. t[i + 2] = s[(i + 2) + 1]
      BY <1>2, <3>1
    <3> DEFINE a == s[1] b == g[i + 1] c == t[i + 2]
    <3>5. a \in Seq(Items) /\ b \in Seq(Items) /\ c \in Seq(Items)
      <4>1. a \in Seq(Items)
        BY <1>1
      <4>2. g \in [1..Len(t) -> Seq(Items)]
        BY <2>1 DEF IsFlat
      <4>3. b \in Seq(Items)
        BY <3>1, <4>2
      <4>4. c \in Seq(Items)
        BY <1>1, <3>1, ElementOfSeq
      <4> QED BY <4>1, <4>3, <4>4
    <3>6. f[i + 3] = (a \o b) \o c
      BY <2>5, <3>1, <3>2, <3>4
    <3>7. g[i + 2] = b \o c
      BY <3>1, <3>3
    <3> HIDE DEF a, b, c
    <3>8. (a \o b) \o c = a \o (b \o c)
      BY <3>5, ConcatAssociative
    <3>9. f[i + 3] = a \o g[i + 2]
      BY <3>6, <3>7, <3>8
    <3> QED BY <3>9 DEF a
  <2> DEFINE T == {i \in Nat : i + 1 <= Len(t) => f[i + 2] = s[1] \o g[i + 1]}
  <2>6. 0 \in T
    <3>1. 0 + 2 = 2 /\ 0 + 1 = 1
      OBVIOUS
    <3> QED BY <2>4, <3>1
  <2>7. ASSUME NEW i \in T PROVE i + 1 \in T
    <3>1. i \in Nat /\ (i + 1 <= Len(t) => f[i + 2] = s[1] \o g[i + 1])
      OBVIOUS
    <3>2. i + 2 <= Len(t) => i + 1 <= Len(t)
      BY <2>3, <3>1
    <3>3. i + 2 <= Len(t) => f[i + 3] = s[1] \o g[i + 2]
      BY <2>5, <3>1, <3>2
    <3>4. (i + 1) + 1 = i + 2 /\ (i + 1) + 2 = i + 3 /\ i + 1 \in Nat
      BY <3>1
    <3> QED BY <3>3, <3>4
  <2>8. \A i \in T : i + 1 <= Len(t) => f[i + 2] = s[1] \o g[i + 1]
    OBVIOUS
  <2>9. T \in SUBSET Nat
    OBVIOUS
  <2> HIDE DEF T
  <2>10. T = Nat
    BY <2>6, <2>7, <2>9, SetInduction
  <2> DEFINE j == Len(t) - 1
  <2>11. j \in T /\ j + 1 = Len(t) /\ j + 2 = Len(s)
    BY <1>1, <2>3, <2>10
  <2> HIDE DEF j
  <2>12. f[j + 2] = s[1] \o g[j + 1]
    <3>1. j + 1 <= Len(t)
      BY <2>3, <2>11
    <3>2. j + 1 <= Len(t) => f[j + 2] = s[1] \o g[j + 1]
      BY <2>8, <2>11, Zenon
    <3> QED BY <3>1, <3>2
  <2> QED BY <1>1, <1>4, <2>2, <2>11, <2>12 DEF t
<1> QED BY <1>6, <1>7 DEF t

-----------------------------------------------------------------------------
(* What the slots of a chain hold.                                         *)

Slots == [items : Seq(Items) \ {<<>>}, ready : BOOLEAN]

ItemsOf(c) == [i \in 1..Len(c) |-> c[i].items]
Content(c) == FlattenSeq(ItemsOf(c))

LEMMA ItemsFacts ==
  ASSUME NEW c \in Seq(Slots)
  PROVE  /\ Len(c) \in Nat
         /\ ItemsOf(c) \in Seq(Seq(Items))
         /\ Len(ItemsOf(c)) = Len(c)
         /\ \A i \in 1..Len(c) : ItemsOf(c)[i] = c[i].items
<1>1. Len(c) \in Nat
  OBVIOUS
<1>2. \A i \in 1..Len(c) : c[i].items \in Seq(Items)
  <2> TAKE i \in 1..Len(c)
  <2>1. c[i] \in Slots
    BY ElementOfSeq
  <2> QED BY <2>1 DEF Slots
<1>3. ItemsOf(c) \in [1..Len(c) -> Seq(Items)]
  BY <1>2 DEF ItemsOf
<1>4. ItemsOf(c) \in Seq(Seq(Items))
  BY <1>1, <1>3
<1>5. Len(ItemsOf(c)) = Len(c)
  BY <1>1, <1>3
<1> QED BY <1>1, <1>4, <1>5 DEF ItemsOf

LEMMA ContentType == ASSUME NEW c \in Seq(Slots) PROVE Content(c) \in Seq(Items)
BY ItemsFacts, FlattenType DEF Content

LEMMA ContentNothing == Content(<<>>) = <<>>
<1>1. ItemsOf(<<>>) = <<>>
  BY DEF ItemsOf
<1> QED BY <1>1, FlattenNothing DEF Content

(* Slots that hold the same, hold the same together. *)
LEMMA SameContent ==
  ASSUME NEW c \in Seq(Slots), NEW d \in Seq(Slots), Len(c) = Len(d),
         \A i \in 1..Len(c) : c[i].items = d[i].items
  PROVE  Content(c) = Content(d)
<1>1. ItemsOf(c) = ItemsOf(d)
  BY DEF ItemsOf
<1> QED BY <1>1 DEF Content

LEMMA ContentAppend ==
  ASSUME NEW c \in Seq(Slots), NEW s \in Slots
  PROVE  Content(Append(c, s)) = Content(c) \o s.items
<1> DEFINE d == Append(c, s)
<1> DEFINE x == s.items
<1> DEFINE a == ItemsOf(c)
<1> DEFINE b == ItemsOf(d)
<1>1. d \in Seq(Slots) /\ Len(d) = Len(c) + 1 /\ d[Len(c) + 1] = s
  BY AppendProperties
<1>2. \A i \in 1..Len(c) : d[i] = c[i]
  BY AppendProperties
<1>3. x \in Seq(Items)
  BY DEF Slots
<1>4. a \in Seq(Seq(Items)) /\ Len(a) = Len(c) /\ \A i \in 1..Len(c) : a[i] = c[i].items
  BY ItemsFacts
<1> HIDE DEF d
<1>5. b \in Seq(Seq(Items)) /\ Len(b) = Len(d) /\ \A i \in 1..Len(d) : b[i] = d[i].items
  BY <1>1, ItemsFacts
<1>6. b[Len(c) + 1] = x /\ Len(c) \in Nat
  <2>1. Len(c) \in Nat
    BY LenProperties
  <2>2. Len(c) + 1 \in 1..Len(d)
    BY <1>1, <2>1
  <2> QED BY <1>1, <1>5, <2>1, <2>2
<1>7. \A i \in 1..Len(c) : b[i] = a[i]
  <2> TAKE i \in 1..Len(c)
  <2>1. i \in 1..Len(d)
    BY <1>1, <1>6
  <2> QED BY <1>2, <1>4, <1>5, <2>1
<1> HIDE DEF a, b, x
<1> DEFINE e == Append(a, x)
<1>8. /\ e \in Seq(Seq(Items)) /\ Len(e) = Len(a) + 1 /\ e[Len(a) + 1] = x
      /\ \A i \in 1..Len(a) : e[i] = a[i]
  BY <1>3, <1>4, AppendProperties
<1> HIDE DEF e
<1>9. \A i \in 1..Len(b) : b[i] = e[i]
  <2> TAKE i \in 1..Len(b)
  <2>1. i \in 1..Len(c) \/ i = Len(c) + 1
    BY <1>1, <1>5, <1>6
  <2> QED BY <1>4, <1>6, <1>7, <1>8, <2>1
<1>10. b = e
  <2>1. Len(b) = Len(e)
    BY <1>1, <1>4, <1>5, <1>8
  <2> QED BY <1>5, <1>8, <1>9, <2>1, SeqEqual
<1>11. FlattenSeq(e) = FlattenSeq(a) \o x
  BY <1>3, <1>4, FlattenAppend DEF e
<1> QED BY <1>10, <1>11 DEF Content, a, b, d, x

LEMMA ContentHead ==
  ASSUME NEW c \in Seq(Slots), c # <<>>
  PROVE  Content(c) = Head(c).items \o Content(Tail(c))
<1> DEFINE d == Tail(c)
<1> DEFINE a == ItemsOf(c)
<1> DEFINE b == ItemsOf(d)
<1>1. Len(c) \in Nat \ {0} /\ d \in Seq(Slots) /\ Len(d) = Len(c) - 1 /\ Head(c) = c[1]
  BY HeadTailProperties, LenProperties
<1>2. \A i \in 1..Len(d) : d[i] = c[i + 1]
  BY HeadTailProperties
<1>3. a \in Seq(Seq(Items)) /\ Len(a) = Len(c) /\ \A i \in 1..Len(c) : a[i] = c[i].items
  BY ItemsFacts
<1> HIDE DEF d
<1>4. b \in Seq(Seq(Items)) /\ Len(b) = Len(d) /\ \A i \in 1..Len(d) : b[i] = d[i].items
  BY <1>1, ItemsFacts
<1> HIDE DEF a, b
<1>5. a # <<>>
  BY <1>1, <1>3
<1>6. Head(a) = Head(c).items
  BY <1>1, <1>3, <1>5
<1>7. Tail(a) \in Seq(Seq(Items)) /\ Len(Tail(a)) = Len(a) - 1
  BY <1>3, <1>5, HeadTailProperties
<1>8. \A i \in 1..Len(Tail(a)) : Tail(a)[i] = a[i + 1]
  BY <1>3, <1>5, HeadTailProperties
<1>9. \A i \in 1..Len(b) : b[i] = Tail(a)[i]
  <2> TAKE i \in 1..Len(b)
  <2>1. i \in 1..Len(d) /\ i \in 1..Len(Tail(a)) /\ i + 1 \in 1..Len(c)
    BY <1>1, <1>3, <1>4, <1>7
  <2>2. b[i] = c[i + 1].items
    BY <1>2, <1>4, <2>1
  <2>3. Tail(a)[i] = c[i + 1].items
    BY <1>3, <1>8, <2>1
  <2> QED BY <2>2, <2>3
<1>10. b = Tail(a)
  <2>1. Len(b) = Len(Tail(a))
    BY <1>1, <1>3, <1>4, <1>7
  <2> QED BY <1>4, <1>7, <1>9, <2>1, SeqEqual
<1>11. FlattenSeq(a) = Head(a) \o FlattenSeq(Tail(a))
  BY <1>3, <1>5, FlattenHead
<1> QED BY <1>6, <1>10, <1>11 DEF Content, a, b, d

(* The last slot takes one more message. *)
LEMMA LastGrows ==
  ASSUME NEW c \in Seq(Slots), NEW d \in Seq(Slots), c # <<>>, Len(d) = Len(c),
         \A i \in 1..Len(c) : i # Len(c) => d[i].items = c[i].items,
         NEW m \in Items, d[Len(c)].items = Append(c[Len(c)].items, m)
  PROVE  Content(d) = Append(Content(c), m)
<1> DEFINE n == Len(c)
<1> DEFINE front == SubSeq(c, 1, n - 1)
<1>1. n \in Nat \ {0} /\ c[n] \in Slots /\ d[n] \in Slots
  BY ElementOfSeq, LenProperties
<1>2. front \in Seq(Slots) /\ Len(front) = n - 1 /\ \A i \in 1..n-1 : front[i] = c[i]
  <2>1. \A i \in 1..n-1 : c[i] \in Slots
    BY <1>1, ElementOfSeq
  <2>2. 1 \in Int /\ n - 1 \in Int
    BY <1>1
  <2>3. front \in Seq(Slots) /\ Len(front) = IF 1 <= n - 1 THEN (n - 1) - 1 + 1 ELSE 0
    BY <2>1, <2>2, SubSeqProperties
  <2>4. \A i \in 1..((n - 1) - 1 + 1) : front[i] = c[1 + i - 1]
    BY <2>1, <2>2, SubSeqProperties
  <2> HIDE DEF front
  <2>5. Len(front) = n - 1
    BY <1>1, <2>3
  <2>6. \A i \in 1..n-1 : front[i] = c[i]
    BY <1>1, <2>4
  <2> QED BY <2>3, <2>5, <2>6
<1> HIDE DEF front
<1> DEFINE x == c[n].items
<1>3. x \in Seq(Items) /\ d[n].items = Append(x, m) /\ Append(x, m) \in Seq(Items)
  BY <1>1 DEF Slots
<1>4. ASSUME NEW e \in Seq(Slots), Len(e) = n,
             \A i \in 1..n : i # n => e[i].items = c[i].items
      PROVE  Content(e) = Content(front) \o e[n].items
  <2> DEFINE g == Append(front, e[n])
  <2>1. e[n] \in Slots
    BY <1>1, <1>4, ElementOfSeq
  <2>2. g \in Seq(Slots) /\ Len(g) = n /\ g[n] = e[n]
    BY <1>1, <1>2, <2>1, AppendProperties
  <2>3. \A i \in 1..n-1 : g[i] = front[i]
    BY <1>1, <1>2, <2>1, AppendProperties
  <2>4. Content(g) = Content(front) \o e[n].items
    BY <1>2, <2>1, ContentAppend
  <2> HIDE DEF g
  <2>5. \A i \in 1..Len(e) : e[i].items = g[i].items
    <3> TAKE i \in 1..Len(e)
    <3>1. i \in 1..n /\ (i # n => i \in 1..n-1)
      BY <1>1, <1>4
    <3>2. CASE i = n
      BY <2>2, <3>2
    <3>3. CASE i # n
      BY <1>2, <1>4, <2>3, <3>1, <3>3
    <3> QED BY <3>2, <3>3
  <2>6. Len(e) = Len(g)
    BY <1>4, <2>2
  <2>7. Content(e) = Content(g)
    BY <1>4, <2>2, <2>5, <2>6, SameContent
  <2> QED BY <2>4, <2>7
<1>5. Content(c) = Content(front) \o x
  BY <1>4
<1>6. Content(d) = Content(front) \o Append(x, m)
  BY <1>3, <1>4
<1>7. Content(front) \in Seq(Items)
  BY <1>2, ContentType
<1> HIDE DEF x, n
<1> QED
  <2> DEFINE y == Content(front)
  <2>1. y \in Seq(Items)
    BY <1>7
  <2> HIDE DEF y
  <2>2. y \o Append(x, m) = Append(y \o x, m)
    BY <1>3, <2>1
  <2> QED BY <1>5, <1>6, <2>2 DEF y

-----------------------------------------------------------------------------
(* What still waits behind the first n slots, of which at most one runs.   *)

Rest(c, n) == IF n = 1 THEN Tail(c) ELSE c

LEMMA RestFacts ==
  ASSUME NEW c \in Seq(Slots), NEW n \in {0, 1}, n <= Len(c)
  PROVE  /\ Rest(c, n) \in Seq(Slots)
         /\ Len(c) \in Nat
         /\ Len(Rest(c, n)) = Len(c) - n
         /\ \A i \in 1..(Len(c) - n) : Rest(c, n)[i] = c[i + n]
<1>1. Len(c) \in Nat
  OBVIOUS
<1>2. CASE n = 0
  <2>1. Rest(c, n) = c /\ Len(c) - n = Len(c)
    BY <1>1, <1>2 DEF Rest
  <2>2. \A i \in 1..Len(c) : i + n = i
    BY <1>1, <1>2
  <2> QED BY <1>1, <2>1, <2>2
<1>3. CASE n = 1
  <2>1. c # <<>>
    BY <1>1, <1>3
  <2>2. Tail(c) \in Seq(Slots) /\ Len(Tail(c)) = Len(c) - 1
    BY <2>1, HeadTailProperties
  <2>3. \A i \in 1..Len(Tail(c)) : Tail(c)[i] = c[i + 1]
    BY <2>1, HeadTailProperties
  <2> QED BY <1>1, <1>3, <2>2, <2>3 DEF Rest
<1> QED BY <1>2, <1>3

LEMMA RestSame ==
  ASSUME NEW c \in Seq(Slots), NEW n \in {0, 1}, n <= Len(c),
         NEW d \in Seq(Slots), Len(d) = Len(c),
         \A i \in 1..Len(c) : d[i].items = c[i].items
  PROVE  Content(Rest(d, n)) = Content(Rest(c, n))
<1> DEFINE x == Rest(c, n)
<1> DEFINE y == Rest(d, n)
<1>1. /\ x \in Seq(Slots) /\ Len(c) \in Nat /\ Len(x) = Len(c) - n
      /\ \A i \in 1..(Len(c) - n) : x[i] = c[i + n]
  BY RestFacts
<1>2. /\ y \in Seq(Slots) /\ Len(y) = Len(d) - n
      /\ \A i \in 1..(Len(d) - n) : y[i] = d[i + n]
  BY RestFacts
<1> HIDE DEF x, y
<1>3. \A i \in 1..Len(y) : y[i].items = x[i].items
  <2> TAKE i \in 1..Len(y)
  <2>1. i + n \in 1..Len(c) /\ i \in 1..(Len(c) - n)
    BY <1>1, <1>2
  <2> QED BY <1>1, <1>2, <2>1
<1>4. Len(y) = Len(x)
  BY <1>1, <1>2
<1>5. Content(y) = Content(x)
  BY <1>1, <1>2, <1>3, <1>4, SameContent
<1> QED BY <1>5 DEF x, y

LEMMA RestAppend ==
  ASSUME NEW c \in Seq(Slots), NEW n \in {0, 1}, n <= Len(c), NEW m \in Items,
         NEW d \in Seq(Slots), Len(d) = Len(c) + 1, d[Len(c) + 1].items = <<m>>,
         \A i \in 1..Len(c) : d[i].items = c[i].items
  PROVE  Content(Rest(d, n)) = Append(Content(Rest(c, n)), m)
<1> DEFINE x == Rest(c, n)
<1> DEFINE y == Rest(d, n)
<1>1. /\ x \in Seq(Slots) /\ Len(c) \in Nat /\ Len(x) = Len(c) - n
      /\ \A i \in 1..(Len(c) - n) : x[i] = c[i + n]
  BY RestFacts
<1>2. /\ y \in Seq(Slots) /\ Len(y) = Len(d) - n
      /\ \A i \in 1..(Len(d) - n) : y[i] = d[i + n]
  <2>1. n <= Len(d)
    BY <1>1
  <2> QED BY <2>1, RestFacts
<1> HIDE DEF x, y
<1> DEFINE s == d[Len(c) + 1]
<1>3. s \in Slots /\ s.items = <<m>>
  <2>1. Len(c) + 1 \in 1..Len(d)
    BY <1>1
  <2> QED BY <2>1, ElementOfSeq
<1> HIDE DEF s
<1> DEFINE z == Append(x, s)
<1>4. /\ z \in Seq(Slots) /\ Len(z) = Len(x) + 1 /\ z[Len(x) + 1] = s
      /\ \A i \in 1..Len(x) : z[i] = x[i]
  BY <1>1, <1>3, AppendProperties
<1>5. Content(z) = Content(x) \o s.items
  BY <1>1, <1>3, ContentAppend
<1> HIDE DEF z
<1>6. \A i \in 1..Len(y) : y[i].items = z[i].items
  <2> TAKE i \in 1..Len(y)
  <2>1. CASE i = Len(y)
    <3>1. i = Len(x) + 1 /\ i + n = Len(c) + 1 /\ i \in 1..(Len(d) - n)
      BY <1>1, <1>2, <2>1
    <3> QED BY <1>2, <1>4, <3>1 DEF s
  <2>2. CASE i # Len(y)
    <3>1. /\ i \in 1..Len(x) /\ i \in 1..(Len(c) - n) /\ i \in 1..(Len(d) - n)
          /\ i + n \in 1..Len(c)
      BY <1>1, <1>2, <2>2
    <3> QED BY <1>1, <1>2, <1>4, <3>1
  <2> QED BY <2>1, <2>2
<1>7. Len(y) = Len(z)
  BY <1>1, <1>2, <1>4
<1>8. Content(y) = Content(z)
  BY <1>2, <1>4, <1>6, <1>7, SameContent
<1>9. Content(x) \in Seq(Items)
  BY <1>1, ContentType
<1> QED
  <2> DEFINE a == Content(x)
  <2>1. a \in Seq(Items)
    BY <1>9
  <2> HIDE DEF a
  <2>2. a \o <<m>> = Append(a, m)
    BY <2>1
  <2> QED BY <1>3, <1>5, <1>8, <2>2 DEF a, x, y

LEMMA RestGrows ==
  ASSUME NEW c \in Seq(Slots), NEW n \in {0, 1}, n < Len(c), NEW m \in Items,
         NEW d \in Seq(Slots), Len(d) = Len(c), d[Len(c)].items = Append(c[Len(c)].items, m),
         \A i \in 1..Len(c) : i # Len(c) => d[i].items = c[i].items
  PROVE  Content(Rest(d, n)) = Append(Content(Rest(c, n)), m)
<1> DEFINE x == Rest(c, n)
<1> DEFINE y == Rest(d, n)
<1>0. Len(c) \in Nat
  OBVIOUS
<1>1. /\ x \in Seq(Slots) /\ Len(x) = Len(c) - n
      /\ \A i \in 1..(Len(c) - n) : x[i] = c[i + n]
  <2>1. n <= Len(c)
    BY <1>0
  <2> QED BY <2>1, RestFacts
<1>2. /\ y \in Seq(Slots) /\ Len(y) = Len(d) - n
      /\ \A i \in 1..(Len(d) - n) : y[i] = d[i + n]
  <2>1. n <= Len(d)
    BY <1>0
  <2> QED BY <2>1, RestFacts
<1> HIDE DEF x, y
<1>3. Len(y) = Len(x) /\ Len(x) \in 1..(Len(c) - n) /\ Len(x) + n = Len(c)
  BY <1>0, <1>1, <1>2
<1>4. x[Len(x)] = c[Len(c)] /\ y[Len(x)] = d[Len(c)]
  BY <1>1, <1>2, <1>3
<1>5. \A i \in 1..Len(x) : i # Len(x) => y[i].items = x[i].items
  <2> SUFFICES ASSUME NEW i \in 1..Len(x), i # Len(x) PROVE y[i].items = x[i].items
    OBVIOUS
  <2>1. i \in 1..(Len(c) - n) /\ i + n \in 1..Len(c) /\ i + n # Len(c)
    BY <1>0, <1>1
  <2> QED BY <1>1, <1>2, <2>1
<1>6. x # <<>>
  BY <1>0, <1>3
<1>7. Content(y) = Append(Content(x), m)
  BY <1>1, <1>2, <1>3, <1>4, <1>5, <1>6, LastGrows
<1> QED BY <1>7 DEF x, y

(* The same, as the refinement mapping of InboundDebounce puts it.         *)
LEMMA RestIs ==
  ASSUME NEW c \in Seq(Slots), NEW n \in {0, 1}, n <= Len(c)
  PROVE  FlattenSeq([i \in 1..(Len(c) - n) |-> c[i + n].items]) = Content(Rest(c, n))
<1> DEFINE x == Rest(c, n)
<1>1. /\ x \in Seq(Slots) /\ Len(x) = Len(c) - n
      /\ \A i \in 1..(Len(c) - n) : x[i] = c[i + n]
  BY RestFacts
<1> HIDE DEF x
<1>2. [i \in 1..(Len(c) - n) |-> c[i + n].items] = ItemsOf(x)
  BY <1>1 DEF ItemsOf
<1> QED BY <1>2 DEF Content, x

-----------------------------------------------------------------------------
(* A change of one slot.                                                   *)

ReadyAt(c, n) == [c EXCEPT ![n].ready = TRUE]
Extended(c, m) == [c EXCEPT ![Len(c)].items = Append(@, m)]

LEMMA ReadyFacts ==
  ASSUME NEW c \in Seq(Slots), NEW n \in 1..Len(c)
  PROVE  /\ ReadyAt(c, n) \in Seq(Slots)
         /\ Len(ReadyAt(c, n)) = Len(c)
         /\ \A i \in 1..Len(c) : ReadyAt(c, n)[i].items = c[i].items
         /\ ReadyAt(c, n)[n].ready = TRUE
         /\ \A i \in 1..Len(c) : i # n => ReadyAt(c, n)[i] = c[i]
<1> DEFINE s == [c[n] EXCEPT !.ready = TRUE]
<1>1. c[n] \in Slots
  BY ElementOfSeq
<1>2. s \in Slots /\ s.items = c[n].items /\ s.ready = TRUE
  BY <1>1 DEF Slots
<1>3. ReadyAt(c, n) = [c EXCEPT ![n] = s]
  BY DEF ReadyAt
<1> HIDE DEF s
<1> DEFINE d == [c EXCEPT ![n] = s]
<1>4. d \in Seq(Slots) /\ Len(d) = Len(c)
  BY <1>2, ExceptSeq
<1>5. \A i \in 1..Len(c) : d[i] = IF i = n THEN s ELSE c[i]
  BY <1>2, ExceptSeq
<1> HIDE DEF d
<1> QED BY <1>2, <1>3, <1>4, <1>5 DEF d

LEMMA SlotWith ==
  ASSUME NEW q \in Slots, NEW y
  PROVE  [q EXCEPT !.items = y] = [items |-> y, ready |-> q.ready]
BY DEF Slots

LEMMA ExtendedFacts ==
  ASSUME NEW c \in Seq(Slots), c # <<>>, NEW m \in Items
  PROVE  /\ Extended(c, m) \in Seq(Slots)
         /\ Len(Extended(c, m)) = Len(c)
         /\ Extended(c, m)[Len(c)].items = Append(c[Len(c)].items, m)
         /\ Extended(c, m)[Len(c)].ready = c[Len(c)].ready
         /\ \A i \in 1..Len(c) : i # Len(c) => Extended(c, m)[i] = c[i]
<1> DEFINE n == Len(c)
<1> DEFINE s == [c[n] EXCEPT !.items = Append(@, m)]
<1>0. n \in 1..Len(c)
  OBVIOUS
<1>1. c[n] \in Slots
  BY <1>0, ElementOfSeq
<1>2. s \in Slots /\ s.items = Append(c[n].items, m) /\ s.ready = c[n].ready
  <2> DEFINE x == c[n].items
  <2>1. x \in Seq(Items) /\ c[n].ready \in BOOLEAN
    BY <1>1 DEF Slots
  <2>2. Append(x, m) \in Seq(Items) \ {<<>>}
    BY <2>1, AppendProperties
  <2>3. s = [items |-> Append(x, m), ready |-> c[n].ready]
    BY <1>1, SlotWith
  <2> HIDE DEF s, x
  <2>4. s.items = Append(x, m) /\ s.ready = c[n].ready
    BY <2>3
  <2>5. s \in Slots
    BY <2>1, <2>2, <2>3 DEF Slots
  <2> QED BY <2>4, <2>5 DEF x
<1>3. Extended(c, m) = [c EXCEPT ![n] = s]
  BY DEF Extended
<1> HIDE DEF s
<1> DEFINE d == [c EXCEPT ![n] = s]
<1>4. d \in Seq(Slots) /\ Len(d) = Len(c)
  BY <1>0, <1>2, ExceptSeq
<1>5. \A i \in 1..Len(c) : d[i] = IF i = n THEN s ELSE c[i]
  BY <1>0, <1>2, ExceptSeq
<1> HIDE DEF d
<1> QED BY <1>0, <1>2, <1>3, <1>4, <1>5 DEF d

-----------------------------------------------------------------------------
(* The inductive invariant *)

Types ==
  /\ chain \in [Keys -> Seq(Slots)]
  /\ running \in SUBSET Keys
  /\ buffered \in SUBSET Keys
  /\ keyChains \in SUBSET Keys
  /\ handed \in [Keys -> Seq(Items)]

(* What runs is ready, and comes first; what still takes messages is not,   *)
(* and comes last; and keyChains knows of every key that has tasks.         *)
RunningIsFirst(k) == k \in running => chain[k] # <<>> /\ chain[k][1].ready = TRUE
BufferIsLast(k) == k \in buffered => chain[k] # <<>> /\ chain[k][Len(chain[k])].ready = FALSE
ChainIsKnown(k) == chain[k] # <<>> => k \in keyChains

ChainsInv ==
  /\ Types
  /\ \A k \in Keys : RunningIsFirst(k) /\ BufferIsLast(k) /\ ChainIsKnown(k)

LEMMA ChainsInit == Init => ChainsInv
<1> SUFFICES ASSUME Init PROVE ChainsInv
  OBVIOUS
<1>1. Types
  BY DEF Init, Types
<1>2. \A k \in Keys : chain[k] = <<>> /\ k \notin running /\ k \notin buffered
  BY DEF Init
<1> QED BY <1>1, <1>2 DEF ChainsInv, RunningIsFirst, BufferIsLast, ChainIsKnown

(* A step that gives one key another chain.                                 *)
ChangesChain(k, d) == chain' = [chain EXCEPT ![k] = d]

LEMMA ChangedFacts ==
  ASSUME ChainsInv, NEW k \in Keys, NEW d \in Seq(Slots), ChangesChain(k, d)
  PROVE  /\ chain' \in [Keys -> Seq(Slots)]
         /\ chain'[k] = d
         /\ \A j \in Keys : j # k => chain'[j] = chain[j]
BY DEF ChangesChain, ChainsInv, Types

LEMMA OfOneKey ==
  ASSUME ChainsInv, NEW k \in Keys, NEW d \in Seq(Slots), ChangesChain(k, d),
         NEW r \in SUBSET Keys, NEW b \in SUBSET Keys, NEW t \in SUBSET Keys,
         running' = r, buffered' = b, keyChains' = t, handed' \in [Keys -> Seq(Items)],
         r \ {k} = running \ {k}, b \ {k} = buffered \ {k}, t \ {k} = keyChains \ {k},
         k \in r => d # <<>> /\ d[1].ready = TRUE,
         k \in b => d # <<>> /\ d[Len(d)].ready = FALSE,
         d # <<>> => k \in t
  PROVE  ChainsInv'
<1>1. chain' \in [Keys -> Seq(Slots)]
  BY ChangedFacts
<1>2. chain'[k] = d /\ \A j \in Keys : j # k => chain'[j] = chain[j]
  BY ChangedFacts
<1>3. Types'
  BY <1>1 DEF Types
<1>4. RunningIsFirst(k)' /\ BufferIsLast(k)' /\ ChainIsKnown(k)'
  BY <1>2 DEF RunningIsFirst, BufferIsLast, ChainIsKnown
<1>5. ASSUME NEW j \in Keys, j # k
      PROVE  RunningIsFirst(j)' /\ BufferIsLast(j)' /\ ChainIsKnown(j)'
  <2>1. chain'[j] = chain[j]
    BY <1>2, <1>5
  <2>2. (j \in r <=> j \in running) /\ (j \in b <=> j \in buffered) /\ (j \in t <=> j \in keyChains)
    BY <1>5
  <2>3. RunningIsFirst(j) /\ BufferIsLast(j) /\ ChainIsKnown(j)
    BY DEF ChainsInv
  <2> QED BY <2>1, <2>2, <2>3 DEF RunningIsFirst, BufferIsLast, ChainIsKnown
<1> QED BY <1>3, <1>4, <1>5 DEF ChainsInv

(* The chain after each step that changes it.                               *)
Forced(c, m) == Append(Released(c), Slot(<<m>>, FALSE))
Joined(c, m, ready) == Append(c, Slot(<<m>>, ready))

LEMMA SlotOfOne ==
  ASSUME NEW m \in Items, NEW ready \in BOOLEAN
  PROVE  /\ Slot(<<m>>, ready) \in Slots
         /\ Slot(<<m>>, ready).items = <<m>>
         /\ Slot(<<m>>, ready).ready = ready
<1>1. <<m>> \in Seq(Items)
  OBVIOUS
<1> QED BY <1>1 DEF Slot, Slots

LEMMA JoinedFacts ==
  ASSUME NEW c \in Seq(Slots), NEW m \in Items, NEW ready \in BOOLEAN
  PROVE  /\ Joined(c, m, ready) \in Seq(Slots)
         /\ Joined(c, m, ready) # <<>>
         /\ Len(Joined(c, m, ready)) = Len(c) + 1
         /\ Joined(c, m, ready)[Len(c) + 1].items = <<m>>
         /\ Joined(c, m, ready)[Len(c) + 1].ready = ready
         /\ \A i \in 1..Len(c) : Joined(c, m, ready)[i] = c[i]
<1> DEFINE s == Slot(<<m>>, ready)
<1>1. s \in Slots /\ s.items = <<m>> /\ s.ready = ready
  BY SlotOfOne
<1> HIDE DEF s
<1> DEFINE d == Append(c, s)
<1>2. d \in Seq(Slots) /\ d # <<>> /\ Len(d) = Len(c) + 1 /\ d[Len(c) + 1] = s
  BY <1>1, AppendProperties
<1>3. \A i \in 1..Len(c) : d[i] = c[i]
  BY <1>1, AppendProperties
<1> HIDE DEF d
<1>4. Joined(c, m, ready) = d
  BY DEF Joined, d, s
<1> QED BY <1>1, <1>2, <1>3, <1>4

LEMMA ForcedFacts ==
  ASSUME NEW c \in Seq(Slots), c # <<>>, NEW m \in Items
  PROVE  /\ Forced(c, m) \in Seq(Slots)
         /\ Forced(c, m) # <<>>
         /\ Len(Forced(c, m)) = Len(c) + 1
         /\ Forced(c, m)[Len(c) + 1].items = <<m>>
         /\ \A i \in 1..Len(c) : Forced(c, m)[i].items = c[i].items
         /\ c[1].ready = TRUE => Forced(c, m)[1].ready = TRUE
<1> DEFINE r == ReadyAt(c, Len(c))
<1>0. Len(c) \in 1..Len(c) /\ 1 \in 1..Len(c)
  OBVIOUS
<1>1. r \in Seq(Slots) /\ Len(r) = Len(c) /\ r[Len(c)].ready = TRUE
  BY <1>0, ReadyFacts
<1>2. \A i \in 1..Len(c) : r[i].items = c[i].items
  BY <1>0, ReadyFacts
<1>3. \A i \in 1..Len(c) : i # Len(c) => r[i] = c[i]
  BY <1>0, ReadyFacts
<1>4. Forced(c, m) = Joined(r, m, FALSE)
  BY DEF Forced, Joined, Released, ReadyAt
<1> HIDE DEF r
<1> DEFINE n == FALSE
<1> DEFINE d == Joined(r, m, n)
<1>5. n \in BOOLEAN /\ Forced(c, m) = d
  BY <1>4
<1> HIDE DEF n
<1>6. d \in Seq(Slots) /\ d # <<>> /\ Len(d) = Len(r) + 1 /\ d[Len(r) + 1].items = <<m>>
  BY <1>1, <1>5, JoinedFacts
<1>7. \A i \in 1..Len(r) : d[i] = r[i]
  BY <1>1, <1>5, JoinedFacts
<1> HIDE DEF d
<1>8. c[1].ready = TRUE => d[1].ready = TRUE
  BY <1>0, <1>1, <1>3, <1>7
<1>9. \A i \in 1..Len(c) : d[i].items = c[i].items
  BY <1>1, <1>2, <1>7
<1> QED BY <1>1, <1>5, <1>6, <1>8, <1>9

-----------------------------------------------------------------------------
(* What waits, as KeyedFifo sees it *)

Ahead(k) == IF k \in running THEN 1 ELSE 0
Waiting(k) == Content(Rest(chain[k], Ahead(k)))

LEMMA AheadFacts ==
  ASSUME ChainsInv, NEW k \in Keys
  PROVE  chain[k] \in Seq(Slots) /\ Ahead(k) \in {0, 1} /\ Ahead(k) <= Len(chain[k])
<1>1. chain[k] \in Seq(Slots)
  BY DEF ChainsInv, Types
<1>2. Len(chain[k]) \in Nat /\ (chain[k] # <<>> => Len(chain[k]) # 0)
  BY <1>1
<1>3. k \in running => chain[k] # <<>>
  BY DEF ChainsInv, RunningIsFirst
<1> QED BY <1>1, <1>2, <1>3 DEF Ahead

LEMMA WaitingIs ==
  ASSUME ChainsInv, NEW k \in Keys
  PROVE  StillWaiting(k) = Waiting(k)
<1> DEFINE c == chain[k]
<1> DEFINE n == Ahead(k)
<1>1. c \in Seq(Slots) /\ n \in {0, 1} /\ n <= Len(c)
  BY AheadFacts
<1>2. StillWaiting(k) = FlattenSeq([i \in 1..(Len(c) - n) |-> c[i + n].items])
  BY DEF StillWaiting, Ahead
<1>3. Waiting(k) = Content(Rest(c, n))
  BY DEF Waiting
<1> HIDE DEF c, n
<1> QED BY <1>1, <1>2, <1>3, RestIs

LEMMA AheadFactsNext ==
  ASSUME ChainsInv', NEW k \in Keys
  PROVE  chain'[k] \in Seq(Slots) /\ Ahead(k)' \in {0, 1} /\ Ahead(k)' <= Len(chain'[k])
<1>1. chain'[k] \in Seq(Slots)
  BY DEF ChainsInv, Types
<1>2. Len(chain'[k]) \in Nat /\ (chain'[k] # <<>> => Len(chain'[k]) # 0)
  BY <1>1
<1>3. k \in running' => chain'[k] # <<>>
  BY DEF ChainsInv, RunningIsFirst
<1> QED BY <1>1, <1>2, <1>3 DEF Ahead

LEMMA WaitingIsNext ==
  ASSUME ChainsInv', NEW k \in Keys
  PROVE  StillWaiting(k)' = Waiting(k)'
<1> DEFINE c == chain'[k]
<1> DEFINE n == Ahead(k)'
<1>1. c \in Seq(Slots) /\ n \in {0, 1} /\ n <= Len(c)
  BY AheadFactsNext
<1>2. StillWaiting(k)' = FlattenSeq([i \in 1..(Len(c) - n) |-> c[i + n].items])
  BY DEF StillWaiting, Ahead
<1>3. Waiting(k)' = Content(Rest(c, n))
  BY DEF Waiting
<1> HIDE DEF c, n
<1> QED BY <1>1, <1>2, <1>3, RestIs

(* Only the key whose chain changes waits for something else.               *)
LEMMA OthersWait ==
  ASSUME ChainsInv, NEW k \in Keys, NEW d \in Seq(Slots), ChangesChain(k, d),
         running' \ {k} = running \ {k}
  PROVE  /\ \A j \in Keys : j # k => Waiting(j)' = Waiting(j)
         /\ Waiting(k)' = Content(Rest(d, Ahead(k)'))
<1>1. chain'[k] = d /\ \A j \in Keys : j # k => chain'[j] = chain[j]
  BY ChangedFacts
<1>2. ASSUME NEW j \in Keys, j # k PROVE Waiting(j)' = Waiting(j)
  <2>1. j \in running' <=> j \in running
    BY <1>2
  <2> QED BY <1>1, <1>2, <2>1 DEF Waiting, Ahead
<1>3. Waiting(k)' = Content(Rest(d, Ahead(k)'))
  BY <1>1 DEF Waiting
<1> QED BY <1>2, <1>3

AllWaiting == [k \in Keys |-> StillWaiting(k)]

LEMMA ArrivesAt ==
  ASSUME ChainsInv, ChainsInv', NEW m \in Items, NEW d \in Seq(Slots),
         ChangesChain(KeyOf[m], d), running' = running, handed' = handed,
         Content(Rest(d, Ahead(KeyOf[m]))) = Append(Waiting(KeyOf[m]), m)
  PROVE  Fifo!Arrive(m)
<1> DEFINE k == KeyOf[m]
<1>1. k \in Keys
  BY DebounceAssumption
<1>2. ChangesChain(k, d) /\ Content(Rest(d, Ahead(k))) = Append(Waiting(k), m)
  OBVIOUS
<1>3. Fifo!Arrive(m) <=> /\ AllWaiting' = [AllWaiting EXCEPT ![k] = Append(@, m)]
                         /\ handed' = handed
  BY DEF Fifo!Arrive, AllWaiting
<1> HIDE DEF k
<1>4. Ahead(k)' = Ahead(k)
  BY DEF Ahead
<1>5. Waiting(k)' = Append(Waiting(k), m)
  BY <1>1, <1>2, <1>4, OthersWait
<1>6. \A j \in Keys : j # k => Waiting(j)' = Waiting(j)
  BY <1>1, <1>2, OthersWait
<1>7. \A j \in Keys : StillWaiting(j) = Waiting(j)
  BY WaitingIs
<1>8. \A j \in Keys : StillWaiting(j)' = Waiting(j)'
  BY WaitingIsNext
<1>9. AllWaiting' = [j \in Keys |-> StillWaiting(j)']
  BY DEF AllWaiting
<1>10. AllWaiting' = [AllWaiting EXCEPT ![k] = Append(@, m)]
  BY <1>1, <1>5, <1>6, <1>7, <1>8, <1>9 DEF AllWaiting
<1> QED BY <1>3, <1>10

LEMMA StaysWaiting ==
  ASSUME ChainsInv, ChainsInv', \A k \in Keys : Waiting(k)' = Waiting(k)
  PROVE  AllWaiting' = AllWaiting
<1>1. \A j \in Keys : StillWaiting(j) = Waiting(j)
  BY WaitingIs
<1>2. \A j \in Keys : StillWaiting(j)' = Waiting(j)'
  BY WaitingIsNext
<1>3. AllWaiting' = [j \in Keys |-> StillWaiting(j)']
  BY DEF AllWaiting
<1> QED BY <1>1, <1>2, <1>3 DEF AllWaiting

LEMMA SlotsChange ==
  ASSUME ChainsInv, ChainsInv', NEW k \in Keys, NEW d \in Seq(Slots), ChangesChain(k, d),
         running' \ {k} = running \ {k}, Content(Rest(d, Ahead(k)')) = Waiting(k)
  PROVE  AllWaiting' = AllWaiting
<1>1. \A j \in Keys : j # k => Waiting(j)' = Waiting(j)
  BY OthersWait
<1>2. Waiting(k)' = Waiting(k)
  BY OthersWait
<1>3. \A j \in Keys : Waiting(j)' = Waiting(j)
  BY <1>1, <1>2
<1> QED BY <1>3, StaysWaiting

-----------------------------------------------------------------------------
(* The steps: each keeps the invariant, and is a step of KeyedFifo or none *)

Implements == [Fifo!Next]_<<AllWaiting, handed>>

LEMMA ArriveImplements ==
  ASSUME NEW m \in Items, Fifo!Arrive(m) PROVE Implements
<1>1. Fifo!Next
  BY DEF Fifo!Next
<1> QED BY <1>1 DEF Implements

(* A message that gets a slot of its own, whatever becomes of the buffer.   *)
LEMMA TakesSlot ==
  ASSUME ChainsInv, NEW m \in Items, NEW d \in Seq(Slots), ChangesChain(KeyOf[m], d),
         Len(d) = Len(chain[KeyOf[m]]) + 1, d[Len(chain[KeyOf[m]]) + 1].items = <<m>>,
         \A i \in 1..Len(chain[KeyOf[m]]) : d[i].items = chain[KeyOf[m]][i].items,
         chain[KeyOf[m]] # <<>> /\ chain[KeyOf[m]][1].ready = TRUE => d[1].ready = TRUE,
         KeyOf[m] \in buffered' => d[Len(d)].ready = FALSE,
         running' = running, handed' = handed, keyChains' = keyChains \cup {KeyOf[m]},
         buffered' \in SUBSET Keys, buffered' \ {KeyOf[m]} = buffered \ {KeyOf[m]}
  PROVE  ChainsInv' /\ Implements
<1> DEFINE k == KeyOf[m]
<1> DEFINE c == chain[k]
<1>1. k \in Keys
  BY DebounceAssumption
<1>2. /\ ChangesChain(k, d) /\ Len(d) = Len(c) + 1 /\ d[Len(c) + 1].items = <<m>>
      /\ \A i \in 1..Len(c) : d[i].items = c[i].items
      /\ c # <<>> /\ c[1].ready = TRUE => d[1].ready = TRUE
      /\ k \in buffered' => d[Len(d)].ready = FALSE
      /\ keyChains' = keyChains \cup {k} /\ buffered' \ {k} = buffered \ {k}
  OBVIOUS
<1>3. c \in Seq(Slots) /\ Ahead(k) \in {0, 1} /\ Ahead(k) <= Len(c)
  BY <1>1, AheadFacts
<1>4. Waiting(k) = Content(Rest(c, Ahead(k)))
  BY DEF Waiting
<1>5. k \in running => c # <<>> /\ c[1].ready = TRUE
  BY <1>1 DEF ChainsInv, RunningIsFirst
<1> HIDE DEF c
<1>7. Content(Rest(d, Ahead(k))) = Append(Waiting(k), m)
  <2> DEFINE n == Ahead(k)
  <2>1. c \in Seq(Slots) /\ n \in {0, 1} /\ n <= Len(c)
    BY <1>3
  <2> HIDE DEF n, k
  <2>2. Content(Rest(d, n)) = Append(Content(Rest(c, n)), m)
    <3>1. Len(d) = Len(c) + 1 /\ d[Len(c) + 1].items = <<m>>
      BY <1>2
    <3>2. \A i \in 1..Len(c) : d[i].items = c[i].items
      BY <1>2
    <3> QED BY <2>1, <3>1, <3>2, RestAppend
  <2> QED BY <1>4, <2>2 DEF n
<1>8. d # <<>>
  BY <1>2, <1>3
<1>9. ChainsInv'
  <2> HIDE DEF k
  <2>1. running \in SUBSET Keys /\ keyChains' \in SUBSET Keys /\ handed' \in [Keys -> Seq(Items)]
    BY <1>1, <1>2 DEF ChainsInv, Types
  <2>2. keyChains' \ {k} = keyChains \ {k} /\ k \in keyChains'
    BY <1>2
  <2> QED BY <1>1, <1>2, <1>5, <1>8, <2>1, <2>2, OfOneKey
<1>10. Fifo!Arrive(m)
  BY <1>7, <1>9, ArrivesAt
<1> QED BY <1>9, <1>10, ArriveImplements

LEMMA ForceFlushStep ==
  ASSUME ChainsInv, NEW m \in Items, Immediate(m), ForceFlush(m)
  PROVE  ChainsInv' /\ Implements
<1> DEFINE k == KeyOf[m]
<1> DEFINE c == chain[k]
<1> DEFINE d == Forced(c, m)
<1>1. k \in Keys
  BY DebounceAssumption
<1>2. c \in Seq(Slots)
  BY <1>1, AheadFacts
<1>3. k \in buffered /\ c # <<>>
  BY <1>1 DEF ForceFlush, ChainsInv, BufferIsLast
<1>4. /\ ChangesChain(k, d) /\ keyChains' = keyChains \cup {k} /\ buffered' = buffered \ {k}
      /\ running' = running /\ handed' = handed
  BY DEF Immediate, ForceFlush, EnqueueKeyTask, ChangesChain, Forced
<1> HIDE DEF c
<1>5. d \in Seq(Slots) /\ Len(d) = Len(c) + 1 /\ d[Len(c) + 1].items = <<m>>
  BY <1>2, <1>3, ForcedFacts
<1>6. \A i \in 1..Len(c) : d[i].items = c[i].items
  BY <1>2, <1>3, ForcedFacts
<1>7. c[1].ready = TRUE => d[1].ready = TRUE
  BY <1>2, <1>3, ForcedFacts
<1> HIDE DEF d
<1>8. /\ buffered' \in SUBSET Keys /\ buffered' \ {k} = buffered \ {k} /\ k \notin buffered'
  BY <1>4 DEF ChainsInv, Types
<1> QED BY <1>4, <1>5, <1>6, <1>7, <1>8, TakesSlot DEF c

(* A message behind what is queued, that is ready or opens a buffer.        *)
LEMMA JoinStep ==
  ASSUME ChainsInv, NEW m \in Items, NEW ready \in BOOLEAN,
         ChangesChain(KeyOf[m], Joined(chain[KeyOf[m]], m, ready)),
         keyChains' = keyChains \cup {KeyOf[m]}, running' = running, handed' = handed,
         buffered' \in SUBSET Keys, buffered' \ {KeyOf[m]} = buffered \ {KeyOf[m]},
         KeyOf[m] \in buffered' => ready = FALSE
  PROVE  ChainsInv' /\ Implements
<1> DEFINE k == KeyOf[m]
<1> DEFINE c == chain[k]
<1> DEFINE d == Joined(c, m, ready)
<1>1. k \in Keys
  BY DebounceAssumption
<1>2. c \in Seq(Slots)
  BY <1>1, AheadFacts
<1>3. /\ ChangesChain(k, d) /\ keyChains' = keyChains \cup {k}
      /\ buffered' \ {k} = buffered \ {k} /\ k \in buffered' => ready = FALSE
  OBVIOUS
<1> HIDE DEF c
<1>4. d \in Seq(Slots) /\ Len(d) = Len(c) + 1 /\ d[Len(c) + 1].items = <<m>>
  BY <1>2, JoinedFacts
<1>5. d[Len(c) + 1].ready = ready
  BY <1>2, JoinedFacts
<1>6. \A i \in 1..Len(c) : d[i] = c[i]
  BY <1>2, JoinedFacts
<1> HIDE DEF d
<1>7. \A i \in 1..Len(c) : d[i].items = c[i].items
  BY <1>6
<1>8. c # <<>> /\ c[1].ready = TRUE => d[1].ready = TRUE
  BY <1>2, <1>6
<1>9. k \in buffered' => d[Len(d)].ready = FALSE
  BY <1>3, <1>4, <1>5
<1> QED BY <1>3, <1>4, <1>7, <1>8, <1>9, TakesSlot DEF c

LEMMA ImmediateStep ==
  ASSUME ChainsInv, NEW m \in Items, Immediate(m)
  PROVE  ChainsInv' /\ Implements
<1> DEFINE k == KeyOf[m]
<1>1. k \in Keys
  BY DebounceAssumption
<1>2. CASE ForceFlush(m)
  BY <1>2, ForceFlushStep
<1>3. CASE JoinChain(m)
  <2> DEFINE r == TRUE
  <2>1. /\ ChangesChain(k, Joined(chain[k], m, r)) /\ keyChains' = keyChains \cup {k}
        /\ running' = running /\ handed' = handed /\ buffered' = buffered /\ k \notin buffered
    BY <1>3 DEF Immediate, JoinChain, EnqueueKeyTask, ChangesChain, Joined
  <2>2. r \in BOOLEAN /\ buffered' \in SUBSET Keys
    BY <2>1 DEF ChainsInv, Types
  <2> HIDE DEF r
  <2> QED BY <2>1, <2>2, JoinStep
<1>4. CASE RunAtOnce(m)
  <2>1. /\ k \notin keyChains /\ handed' = [handed EXCEPT ![k] = Append(@, m)]
        /\ UNCHANGED <<chain, running, buffered, keyChains>>
    BY <1>4 DEF Immediate, RunAtOnce
  <2>2. chain[k] = <<>> /\ k \notin running
    BY <1>1, <2>1 DEF ChainsInv, ChainIsKnown, RunningIsFirst
  <2>3. Waiting(k) = <<>>
    BY <2>2, ContentNothing DEF Waiting, Ahead, Rest
  <2>4. handed' \in [Keys -> Seq(Items)]
    <3>1. handed \in [Keys -> Seq(Items)]
      BY DEF ChainsInv, Types
    <3> DEFINE x == handed[k]
    <3>2. x \in Seq(Items)
      BY <1>1, <3>1
    <3>3. Append(x, m) \in Seq(Items)
      BY <3>2, AppendProperties
    <3> QED BY <1>1, <2>1, <3>1, <3>3
  <2>5. Types'
    BY <2>1, <2>4 DEF ChainsInv, Types
  <2>6. ChainsInv'
    BY <2>1, <2>5 DEF ChainsInv, RunningIsFirst, BufferIsLast, ChainIsKnown
  <2>7. \A j \in Keys : Waiting(j)' = Waiting(j)
    BY <2>1 DEF Waiting, Ahead
  <2>8. AllWaiting' = AllWaiting
    BY <2>6, <2>7, StaysWaiting
  <2>9. AllWaiting[k] = <<>>
    BY <1>1, <2>3, WaitingIs DEF AllWaiting
  <2>10. Fifo!Pass(m)
    BY <2>1, <2>8, <2>9 DEF Fifo!Pass, AllWaiting
  <2>11. Fifo!Next
    BY <2>10 DEF Fifo!Next
  <2> QED BY <2>6, <2>11 DEF Implements
<1> QED BY <1>2, <1>3, <1>4 DEF Immediate

LEMMA DebouncedStep ==
  ASSUME ChainsInv, NEW m \in Items, Debounced(m)
  PROVE  ChainsInv' /\ Implements
<1> DEFINE k == KeyOf[m]
<1>1. k \in Keys
  BY DebounceAssumption
<1>2. CASE Extend(m)
  <2> DEFINE c == chain[k]
  <2> DEFINE n == Ahead(k)
  <2> DEFINE d == Extended(c, m)
  <2>1. /\ ChangesChain(k, d) /\ running' = running /\ handed' = handed
        /\ buffered' = buffered /\ keyChains' = keyChains /\ k \in buffered
    BY <1>2 DEF Debounced, Extend, ChangesChain, Extended
  <2>2. c \in Seq(Slots) /\ n \in {0, 1} /\ n <= Len(c)
    BY <1>1, AheadFacts
  <2>3. c # <<>> /\ c[Len(c)].ready = FALSE
    BY <1>1, <2>1 DEF ChainsInv, BufferIsLast
  <2>4. k \in running => c[1].ready = TRUE
    BY <1>1 DEF ChainsInv, RunningIsFirst
  <2>5. k \in keyChains
    BY <1>1, <2>3 DEF ChainsInv, ChainIsKnown
  <2>6. n # 0 => k \in running
    BY DEF Ahead
  <2>7. Waiting(k) = Content(Rest(c, n))
    BY DEF Waiting
  <2>8. running \in SUBSET Keys /\ buffered \in SUBSET Keys /\ keyChains \in SUBSET Keys
        /\ handed' \in [Keys -> Seq(Items)]
    BY <2>1 DEF ChainsInv, Types
  <2> HIDE DEF c, n
  <2>9. d \in Seq(Slots) /\ Len(d) = Len(c)
    BY <2>2, <2>3, ExtendedFacts
  <2>10. d[Len(c)].items = Append(c[Len(c)].items, m)
    BY <2>2, <2>3, ExtendedFacts
  <2>11. d[Len(c)].ready = c[Len(c)].ready
    BY <2>2, <2>3, ExtendedFacts
  <2>12. \A i \in 1..Len(c) : i # Len(c) => d[i] = c[i]
    BY <2>2, <2>3, ExtendedFacts
  <2> HIDE DEF d
  <2>13. n < Len(c) /\ d # <<>> /\ (k \in running => d[1].ready = TRUE)
    <3>1. Len(c) \in Nat \ {0}
      BY <2>2, <2>3
    <3>2. CASE k \in running
      <4>1. Len(c) # 1
        BY <2>3, <2>4, <3>2
      <4>2. 1 \in 1..Len(c)
        BY <3>1
      <4> QED BY <2>2, <2>4, <2>9, <2>12, <3>1, <4>1, <4>2
    <3>3. CASE k \notin running
      BY <2>2, <2>6, <2>9, <3>1, <3>3
    <3> QED BY <3>2, <3>3
  <2>14. \A i \in 1..Len(c) : i # Len(c) => d[i].items = c[i].items
    BY <2>12
  <2>15. Content(Rest(d, n)) = Append(Content(Rest(c, n)), m)
    BY <2>2, <2>9, <2>10, <2>13, <2>14, RestGrows
  <2>16. d[Len(d)].ready = FALSE
    BY <2>3, <2>9, <2>11
  <2>17. ChainsInv'
    BY <1>1, <2>1, <2>5, <2>8, <2>9, <2>13, <2>16, OfOneKey
  <2>18. Content(Rest(d, Ahead(k))) = Append(Waiting(k), m)
    BY <2>7, <2>15 DEF n
  <2>19. Fifo!Arrive(m)
    BY <2>1, <2>9, <2>17, <2>18, ArrivesAt
  <2> QED BY <2>17, <2>19, ArriveImplements
<1>3. CASE Saturated(m)
  <2> DEFINE r == TRUE
  <2>1. /\ ChangesChain(k, Joined(chain[k], m, r)) /\ keyChains' = keyChains \cup {k}
        /\ running' = running /\ handed' = handed /\ buffered' = buffered /\ k \notin buffered
    BY <1>3 DEF Debounced, Saturated, EnqueueKeyTask, ChangesChain, Joined
  <2>2. r \in BOOLEAN /\ buffered' \in SUBSET Keys
    BY <2>1 DEF ChainsInv, Types
  <2> HIDE DEF r
  <2> QED BY <2>1, <2>2, JoinStep
<1>4. CASE NewBuffer(m)
  <2> DEFINE r == FALSE
  <2>1. /\ ChangesChain(k, Joined(chain[k], m, r)) /\ keyChains' = keyChains \cup {k}
        /\ running' = running /\ handed' = handed /\ buffered' = buffered \cup {k}
    BY <1>4 DEF Debounced, NewBuffer, EnqueueKeyTask, ChangesChain, Joined
  <2>2. r \in BOOLEAN /\ r = FALSE /\ buffered' \in SUBSET Keys
    BY <1>1, <2>1 DEF ChainsInv, Types
  <2> HIDE DEF r
  <2>3. buffered' \ {k} = buffered \ {k}
    BY <2>1
  <2> QED BY <2>1, <2>2, <2>3, JoinStep
<1> QED BY <1>2, <1>3, <1>4 DEF Debounced

(* A chain whose slots hold what they held, wherever they got ready.        *)
LEMMA GetsReady ==
  ASSUME ChainsInv, NEW k \in Keys, NEW n \in 1..Len(chain[k]),
         ChangesChain(k, ReadyAt(chain[k], n)), running' = running, keyChains' = keyChains,
         handed' = handed, buffered' \in SUBSET Keys, buffered' \ {k} = buffered \ {k},
         k \in buffered' => k \in buffered /\ n # Len(chain[k])
  PROVE  ChainsInv' /\ Implements
<1> DEFINE c == chain[k]
<1> DEFINE d == ReadyAt(c, n)
<1> DEFINE a == Ahead(k)
<1>1. c \in Seq(Slots) /\ a \in {0, 1} /\ a <= Len(c) /\ n \in 1..Len(c) /\ ChangesChain(k, d)
  BY AheadFacts
<1>2. Waiting(k) = Content(Rest(c, a)) /\ Ahead(k)' = a
  BY DEF Waiting, Ahead
<1>3. k \in running => c[1].ready = TRUE
  BY DEF ChainsInv, RunningIsFirst
<1>4. k \in buffered' => c[Len(c)].ready = FALSE /\ n # Len(c)
  BY DEF ChainsInv, BufferIsLast
<1>5. c # <<>> => k \in keyChains
  BY DEF ChainsInv, ChainIsKnown
<1>6. running \in SUBSET Keys /\ keyChains \in SUBSET Keys /\ handed' \in [Keys -> Seq(Items)]
  BY DEF ChainsInv, Types
<1> HIDE DEF c, a
<1>7. d \in Seq(Slots) /\ Len(d) = Len(c)
  BY <1>1, ReadyFacts
<1>8. \A i \in 1..Len(c) : d[i].items = c[i].items
  BY <1>1, ReadyFacts
<1>9. d[n].ready = TRUE
  BY <1>1, ReadyFacts
<1>10. \A i \in 1..Len(c) : i # n => d[i] = c[i]
  BY <1>1, ReadyFacts
<1> HIDE DEF d
<1>11. c # <<>> /\ d # <<>> /\ 1 \in 1..Len(c) /\ Len(c) \in 1..Len(c)
  <2>1. Len(c) \in Nat
    BY <1>1
  <2> QED BY <1>1, <1>7, <2>1
<1>12. k \in running => d[1].ready = TRUE
  BY <1>3, <1>9, <1>10, <1>11
<1>13. k \in buffered' => d[Len(d)].ready = FALSE
  BY <1>4, <1>7, <1>10, <1>11
<1>14. k \in keyChains
  BY <1>5, <1>11
<1>15. ChainsInv'
  BY <1>1, <1>6, <1>7, <1>11, <1>12, <1>13, <1>14, OfOneKey
<1>16. Content(Rest(d, a)) = Content(Rest(c, a))
  BY <1>1, <1>7, <1>8, RestSame
<1>17. Content(Rest(d, Ahead(k)')) = Waiting(k)
  BY <1>2, <1>16
<1>18. AllWaiting' = AllWaiting
  BY <1>1, <1>7, <1>15, <1>17, SlotsChange
<1> QED BY <1>15, <1>18 DEF Implements

LEMMA FlushStep ==
  ASSUME ChainsInv, NEW k \in Keys, Flush(k)
  PROVE  ChainsInv' /\ Implements
<1> DEFINE n == Len(chain[k])
<1>1. chain[k] \in Seq(Slots) /\ chain[k] # <<>>
  BY DEF Flush, ChainsInv, Types, BufferIsLast
<1>2. n \in 1..Len(chain[k])
  BY <1>1
<1>3. /\ ChangesChain(k, ReadyAt(chain[k], n)) /\ running' = running
      /\ keyChains' = keyChains /\ handed' = handed /\ buffered' = buffered \ {k}
  BY DEF Flush, ChangesChain, ReadyAt, Released
<1>4. buffered' \in SUBSET Keys /\ buffered' \ {k} = buffered \ {k} /\ k \notin buffered'
  BY <1>3 DEF ChainsInv, Types
<1> HIDE DEF n
<1> QED BY <1>2, <1>3, <1>4, GetsReady

LEMMA ReleaseReservedStep ==
  ASSUME ChainsInv, NEW k \in Keys, ReleaseReserved(k)
  PROVE  ChainsInv' /\ Implements
<1> DEFINE n == 1
<1>1. chain[k] \in Seq(Slots) /\ chain[k] # <<>>
  BY DEF ReleaseReserved, ChainsInv, Types
<1>2. n \in 1..Len(chain[k])
  BY <1>1
<1>3. /\ ChangesChain(k, ReadyAt(chain[k], n)) /\ running' = running
      /\ keyChains' = keyChains /\ handed' = handed /\ buffered' = buffered
      /\ k \in buffered => n # Len(chain[k])
  BY DEF ReleaseReserved, ChangesChain, ReadyAt
<1>4. buffered' \in SUBSET Keys
  BY <1>3 DEF ChainsInv, Types
<1> HIDE DEF n
<1> QED BY <1>2, <1>3, <1>4, GetsReady

(* A prefix that is handed over. *)
LEMMA HandsOver ==
  ASSUME NEW a \in Seq(Items), NEW b \in Seq(Items)
  PROVE  /\ SubSeq(a \o b, 1, Len(a)) = a
         /\ SubSeq(a \o b, Len(a) + 1, Len(a \o b)) = b
<1> DEFINE c == a \o b
<1>1. c \in Seq(Items) /\ Len(c) = Len(a) + Len(b) /\ Len(a) \in Nat /\ Len(b) \in Nat
  BY ConcatProperties, LenProperties
<1>2. \A i \in 1..(Len(a) + Len(b)) : c[i] = IF i <= Len(a) THEN a[i] ELSE b[i - Len(a)]
  BY ConcatProperties
<1> HIDE DEF c
<1> DEFINE x == SubSeq(c, 1, Len(a))
<1> DEFINE y == SubSeq(c, Len(a) + 1, Len(c))
<1>3. x = a
  <2>1. x \in Seq(Items) /\ Len(x) = Len(a) /\ \A i \in 1..Len(a) : x[i] = c[i]
    BY <1>1
  <2> HIDE DEF x
  <2>2. \A i \in 1..Len(x) : x[i] = a[i]
    BY <1>1, <1>2, <2>1
  <2> QED BY <2>1, <2>2, SeqEqual
<1>4. y = b
  <2>1. y \in Seq(Items) /\ Len(y) = Len(b) /\ \A i \in 1..Len(b) : y[i] = c[Len(a) + i]
    BY <1>1
  <2> HIDE DEF y
  <2>2. \A i \in 1..Len(y) : y[i] = b[i]
    <3> TAKE i \in 1..Len(y)
    <3>1. Len(a) + i \in 1..(Len(a) + Len(b)) /\ ~(Len(a) + i <= Len(a)) /\ (Len(a) + i) - Len(a) = i
      BY <1>1, <2>1
    <3> QED BY <1>2, <2>1, <3>1
  <2> QED BY <2>1, <2>2, SeqEqual
<1> QED BY <1>3, <1>4 DEF c

LEMMA EndStep ==
  ASSUME ChainsInv, NEW k \in Keys, End(k)
  PROVE  ChainsInv' /\ Implements
<1> DEFINE c == chain[k]
<1> DEFINE d == Tail(c)
<1>1. /\ k \in running /\ running' = running \ {k} /\ ChangesChain(k, d)
      /\ buffered' = buffered /\ keyChains' = keyChains /\ handed' = handed
  BY DEF End, ChangesChain
<1>2. c \in Seq(Slots) /\ c # <<>> /\ c[1].ready = TRUE
  BY <1>1 DEF ChainsInv, Types, RunningIsFirst
<1>3. k \in buffered => c[Len(c)].ready = FALSE
  BY DEF ChainsInv, BufferIsLast
<1>4. k \in keyChains
  BY <1>2 DEF ChainsInv, ChainIsKnown
<1>5. /\ running' \in SUBSET Keys /\ buffered \in SUBSET Keys /\ keyChains \in SUBSET Keys
      /\ handed' \in [Keys -> Seq(Items)]
  BY <1>1 DEF ChainsInv, Types
<1>6. Waiting(k) = Content(d) /\ Content(Rest(d, Ahead(k)')) = Content(d)
  BY <1>1 DEF Waiting, Ahead, Rest
<1> HIDE DEF c
<1>7. d \in Seq(Slots) /\ Len(d) = Len(c) - 1 /\ Len(c) \in Nat \ {0}
  BY <1>2, HeadTailProperties, LenProperties
<1>8. \A i \in 1..Len(d) : d[i] = c[i + 1]
  BY <1>2, HeadTailProperties
<1> HIDE DEF d
<1>9. k \in buffered => d # <<>> /\ d[Len(d)].ready = FALSE
  <2> SUFFICES ASSUME k \in buffered PROVE d # <<>> /\ d[Len(d)].ready = FALSE
    OBVIOUS
  <2>1. Len(c) # 1
    BY <1>2, <1>3
  <2>2. Len(d) \in 1..Len(d) /\ Len(d) + 1 = Len(c)
    BY <1>7, <2>1
  <2>3. d[Len(d)] = c[Len(c)]
    BY <1>8, <2>2
  <2>4. d # <<>>
    BY <1>7, <2>2
  <2> QED BY <1>3, <2>3, <2>4
<1>10. k \notin running' /\ running' \ {k} = running \ {k}
  BY <1>1
<1>11. ChainsInv'
  <2> DEFINE r == running \ {k}
  <2>1. /\ r \in SUBSET Keys /\ running' = r /\ k \notin r /\ r \ {k} = running \ {k}
        /\ buffered' = buffered /\ keyChains' = keyChains /\ ChangesChain(k, d)
    BY <1>1, <1>5
  <2> HIDE DEF r
  <2> QED BY <1>4, <1>5, <1>7, <1>9, <2>1, OfOneKey
<1>12. Content(Rest(d, Ahead(k)')) = Waiting(k)
  BY <1>6
<1>13. AllWaiting' = AllWaiting
  BY <1>1, <1>7, <1>10, <1>11, <1>12, SlotsChange
<1> QED BY <1>1, <1>11, <1>13 DEF Implements

LEMMA StartStep ==
  ASSUME ChainsInv, NEW k \in Keys, Start(k)
  PROVE  ChainsInv' /\ Implements
<1> DEFINE c == chain[k]
<1> DEFINE a == Head(c).items
<1> DEFINE b == Content(Tail(c))
<1>1. /\ k \notin running /\ running' = running \cup {k} /\ c # <<>>
      /\ handed' = [handed EXCEPT ![k] = @ \o a]
      /\ UNCHANGED <<chain, buffered, keyChains>>
  BY DEF Start
<1>2. c \in Seq(Slots) /\ handed[k] \in Seq(Items) /\ handed \in [Keys -> Seq(Items)]
  BY DEF ChainsInv, Types
<1>3. Head(c) = c[1] /\ c[1] \in Slots /\ Tail(c) \in Seq(Slots) /\ 1 \in 1..Len(c)
  BY <1>1, <1>2
<1>4. c[1].ready = TRUE
  BY <1>3 DEF Start, Slots
<1>5. a \in Seq(Items) /\ a # <<>> /\ b \in Seq(Items)
  BY <1>3, ContentType DEF Slots
<1>6. Content(c) = a \o b
  BY <1>1, <1>2, ContentHead
<1>7. Waiting(k) = Content(c) /\ Waiting(k)' = b
  BY <1>1 DEF Waiting, Ahead, Rest
<1>8. \A j \in Keys : j # k => Waiting(j)' = Waiting(j)
  BY <1>1 DEF Waiting, Ahead
<1>9. ChainsInv'
  <2>1. handed' \in [Keys -> Seq(Items)]
    <3> DEFINE x == handed[k] \o a
    <3>1. x \in Seq(Items)
      BY <1>2, <1>5, ConcatProperties
    <3>2. handed' = [handed EXCEPT ![k] = x]
      BY <1>1
    <3> HIDE DEF x
    <3> QED BY <1>2, <3>1, <3>2
  <2>2. Types'
    BY <1>1, <2>1 DEF ChainsInv, Types
  <2> QED BY <1>1, <1>4, <2>2 DEF ChainsInv, RunningIsFirst, BufferIsLast, ChainIsKnown
<1> HIDE DEF a, b, c
<1> DEFINE n == Len(a)
<1>10. AllWaiting[k] = a \o b
  BY <1>6, <1>7, WaitingIs DEF AllWaiting
<1>11. n \in 1..Len(AllWaiting[k])
  <2>1. Len(a \o b) = Len(a) + Len(b) /\ Len(a) \in Nat \ {0} /\ Len(b) \in Nat
    BY <1>5, ConcatProperties, LenProperties
  <2> QED BY <1>10, <2>1
<1>12. SubSeq(AllWaiting[k], 1, n) = a
  BY <1>5, <1>10, HandsOver
<1>13. SubSeq(AllWaiting[k], n + 1, Len(AllWaiting[k])) = b
  BY <1>5, <1>10, HandsOver
<1> HIDE DEF n
<1>14. AllWaiting' = [AllWaiting EXCEPT ![k] = b]
  <2>1. \A j \in Keys : StillWaiting(j) = Waiting(j)
    BY WaitingIs
  <2>2. \A j \in Keys : StillWaiting(j)' = Waiting(j)'
    BY <1>9, WaitingIsNext
  <2>3. AllWaiting' = [j \in Keys |-> StillWaiting(j)']
    BY DEF AllWaiting
  <2> QED BY <1>7, <1>8, <2>1, <2>2, <2>3 DEF AllWaiting
<1>15. /\ handed' = [handed EXCEPT ![k] = @ \o SubSeq(AllWaiting[k], 1, n)]
       /\ AllWaiting' = [AllWaiting EXCEPT ![k] = SubSeq(@, n + 1, Len(@))]
  BY <1>1, <1>12, <1>13, <1>14
<1>16. Fifo!HandOver(k)
  BY <1>11, <1>15 DEF Fifo!HandOver, AllWaiting
<1>17. Fifo!Next
  BY <1>16 DEF Fifo!Next
<1> QED BY <1>9, <1>17 DEF Implements

(* What changes neither a chain nor what runs is no step of KeyedFifo.      *)
LEMMA FinallyStep ==
  ASSUME ChainsInv, NEW k \in Keys, Finally(k)
  PROVE  ChainsInv' /\ Implements
<1>1. /\ UNCHANGED <<chain, running, buffered, handed>>
      /\ keyChains' = keyChains \/ (chain[k] = <<>> /\ keyChains' = keyChains \ {k})
  BY DEF Finally
<1>2. Types'
  BY <1>1 DEF ChainsInv, Types
<1>3. ChainsInv'
  BY <1>1, <1>2 DEF ChainsInv, RunningIsFirst, BufferIsLast, ChainIsKnown
<1>4. \A j \in Keys : Waiting(j)' = Waiting(j)
  BY <1>1 DEF Waiting, Ahead
<1>5. AllWaiting' = AllWaiting
  BY <1>3, <1>4, StaysWaiting
<1> QED BY <1>1, <1>3, <1>5 DEF Implements

LEMMA StandsStill ==
  ASSUME ChainsInv, UNCHANGED <<chain, running, buffered, keyChains, handed>>
  PROVE  ChainsInv' /\ Implements
<1>1. Types'
  BY DEF ChainsInv, Types
<1>2. ChainsInv'
  BY <1>1 DEF ChainsInv, RunningIsFirst, BufferIsLast, ChainIsKnown
<1>3. \A j \in Keys : Waiting(j)' = Waiting(j)
  BY DEF Waiting, Ahead
<1>4. AllWaiting' = AllWaiting
  BY <1>2, <1>3, StaysWaiting
<1> QED BY <1>2, <1>4 DEF Implements

LEMMA DebounceStep ==
  ASSUME ChainsInv, [Next]_vars
  PROVE  ChainsInv' /\ Implements
<1>1. ASSUME NEW m \in Items, Immediate(m) PROVE ChainsInv' /\ Implements
  BY <1>1, ImmediateStep
<1>2. ASSUME NEW m \in Items, Debounced(m) PROVE ChainsInv' /\ Implements
  BY <1>2, DebouncedStep
<1>3. ASSUME NEW m \in Items, EndDirect(m) PROVE ChainsInv' /\ Implements
  <2>1. UNCHANGED <<chain, running, buffered, keyChains, handed>>
    BY <1>3 DEF EndDirect
  <2> QED BY <2>1, StandsStill
<1>4. ASSUME NEW k \in Keys, Callbacks(k) PROVE ChainsInv' /\ Implements
  BY <1>4, FlushStep, ReleaseReservedStep, StartStep, EndStep, FinallyStep DEF Callbacks
<1>5. ASSUME UNCHANGED vars PROVE ChainsInv' /\ Implements
  <2>1. UNCHANGED <<chain, running, buffered, keyChains, handed>>
    BY <1>5 DEF vars
  <2> QED BY <2>1, StandsStill
<1> QED BY <1>1, <1>2, <1>3, <1>4, <1>5 DEF Next

-----------------------------------------------------------------------------
(* The chains, the buffers and keyChains agree, whatever arrives when.      *)
THEOREM ChainsStayInOrder == Spec => []ChainsInv
<1>1. ChainsInv /\ [Next]_vars => ChainsInv'
  BY DebounceStep
<1> QED BY <1>1, ChainsInit, PTL DEF Spec

(* enqueue, the timers and the chain of tasks hand the messages of each key *)
(* to onFlush in the order of their arrival, each once.                     *)
THEOREM KeysAreFifo == Spec => IsKeyedFifo
<1>1. Init => Fifo!Init
  <2> SUFFICES ASSUME Init PROVE Fifo!Init
    OBVIOUS
  <2>1. ChainsInv
    BY ChainsInit
  <2>2. \A k \in Keys : StillWaiting(k) = <<>>
    <3> TAKE k \in Keys
    <3>1. chain[k] = <<>> /\ k \notin running
      BY DEF Init
    <3>2. Waiting(k) = <<>>
      BY <3>1, ContentNothing DEF Waiting, Ahead, Rest
    <3> QED BY <2>1, <3>2, WaitingIs
  <2> QED BY <2>2 DEF Fifo!Init, Init
<1>2. ChainsInv /\ [Next]_vars => [Fifo!Next]_<<AllWaiting, handed>>
  BY DebounceStep DEF Implements
<1> QED BY <1>1, <1>2, ChainsStayInOrder, PTL DEF Spec, IsKeyedFifo, Fifo!Spec, AllWaiting
===============================================================================
