--------------------------- MODULE TriggerProofs ---------------------------
(***************************************************************************)
(* Proofs about Trigger: what a trigger answers is the OR of ANDs of the    *)
(* sampled and held edges of its conditions over their whole past, although *)
(* the state of a condition is one raw value and a pruned history.          *)
(***************************************************************************)
EXTENDS Trigger, InductionFacts, FiniteSetTheorems, SequenceTheorems

Sample == [time : Nat, raw : BOOLEAN, again : BOOLEAN]
Kept == [time : Nat, value : BOOLEAN]
ConditionState == [hasPrevious : BOOLEAN, previousRaw : BOOLEAN, history : Seq(Kept)]

TypeOK ==
  /\ now \in Nat
  /\ raw \in [Conds -> BOOLEAN]
  /\ cond \in [Conds -> ConditionState]
  /\ todo \in [Sites -> 0 .. 2]
  /\ answer \in [Sites -> BOOLEAN]
  /\ past \in [Conds -> Seq(Sample)]

\* The history h keeps the edges of the latest evaluations in p, in order.
Mirrors(c, p, h) ==
  /\ Len(h) <= Len(p)
  /\ \A i \in 1 .. Len(h) :
       /\ h[i].time = p[i + (Len(p) - Len(h))].time
       /\ h[i].value <=> EdgeAt(c, p, DOMAIN p, i + (Len(p) - Len(h)))

\* What the state r of condition c retains at time t of its evaluations p: the
\* last raw value and, of a delayed condition, the edges from the one that is
\* held at t - delay on.
Stands(c, p, r, t) ==
  /\ \A i, j \in 1 .. Len(p) : i <= j => p[i].time <= p[j].time
  /\ \A i \in 1 .. Len(p) : p[i].time <= t
  /\ r.hasPrevious <=> Len(p) # 0
  /\ Len(p) # 0 => (r.previousRaw <=> p[Len(p)].raw)
  /\ Delay[c] = 0 => r.history = <<>>
  /\ Delay[c] # 0 =>
       /\ Mirrors(c, p, r.history)
       /\ Len(r.history) < Len(p) =>
            /\ Len(r.history) # 0
            /\ r.history[1].time + Delay[c] <= t

Faithful == \A c \in Conds : Stands(c, past[c], cond[c], now)

---------------------------------------------------------------------------
(* The edge of an evaluation depends on it and the one before.              *)

LEMMA EdgeOfFirst ==
  ASSUME NEW c \in Conds, NEW p \in Seq(Sample), Len(p) # 0
  PROVE  EdgeAt(c, p, DOMAIN p, 1) <=> Edge[c] = "None" /\ p[1].raw
<1>1. Earlier(DOMAIN p, 1) = {}
  BY DEF Earlier
<1>2. Edge[c] \in Edges
  BY TriggerAssumption
<1> QED
  BY <1>1, <1>2 DEF EdgeAt, Edges

\* The edge of value over before, where both count.
EdgeOver(c, before, value) ==
  CASE Edge[c] = "None" -> value
    [] Edge[c] = "Rising" -> value /\ ~before
    [] Edge[c] = "Falling" -> ~value /\ before
    [] OTHER -> value # before

LEMMA EdgeOfLater ==
  ASSUME NEW c \in Conds, NEW p \in Seq(Sample), NEW i \in 2 .. Len(p)
  PROVE  EdgeAt(c, p, DOMAIN p, i) <=> EdgeOver(c, p[i - 1].raw, p[i].raw)
<1>1. Earlier(DOMAIN p, i) = 1 .. i - 1
  BY DEF Earlier
<1>2. Latest(1 .. i - 1) = i - 1
  <2>1. i - 1 \in 1 .. i - 1 /\ \A k \in 1 .. i - 1 : k <= i - 1
    OBVIOUS
  <2>2. \A j \in 1 .. i - 1 : (\A k \in 1 .. i - 1 : k <= j) => j = i - 1
    BY <2>1
  <2> QED
    BY <2>1, <2>2 DEF Latest
<1>3. Edge[c] \in Edges
  BY TriggerAssumption
<1>4. 1 .. i - 1 # {}
  <2>1. 1 \in 1 .. i - 1
    OBVIOUS
  <2> QED
    BY <2>1
<1> QED
  BY <1>1, <1>2, <1>3, <1>4 DEF EdgeAt, EdgeOver, Edges

LEMMA EdgeIsLocal ==
  ASSUME NEW c \in Conds, NEW p \in Seq(Sample), NEW s \in Sample,
         NEW i \in 1 .. Len(p)
  PROVE  EdgeAt(c, Append(p, s), DOMAIN Append(p, s), i) <=> EdgeAt(c, p, DOMAIN p, i)
<1> DEFINE q == Append(p, s)
<1>1. q \in Seq(Sample) /\ Len(q) = Len(p) + 1
  OBVIOUS
<1>2. \A k \in 1 .. Len(p) : q[k] = p[k]
  OBVIOUS
<1> HIDE DEF q
<1>3. CASE i = 1
  <2>1. Len(p) # 0 /\ Len(q) # 0 /\ q[1] = p[1]
    BY <1>3, <1>1, <1>2
  <2> QED
    BY <2>1, <1>3, <1>1, EdgeOfFirst DEF q
<1>4. CASE i # 1
  <2>1. i \in 2 .. Len(p) /\ i \in 2 .. Len(q) /\ i - 1 \in 1 .. Len(p)
    BY <1>4, <1>1
  <2>2. q[i] = p[i] /\ q[i - 1] = p[i - 1]
    BY <2>1, <1>2
  <2>3. EdgeAt(c, q, DOMAIN q, i) <=> EdgeOver(c, q[i - 1].raw, q[i].raw)
    BY <2>1, <1>1, EdgeOfLater
  <2>4. EdgeAt(c, p, DOMAIN p, i) <=> EdgeOver(c, p[i - 1].raw, p[i].raw)
    BY <2>1, EdgeOfLater
  <2> QED
    BY <2>2, <2>3, <2>4 DEF q
<1> QED
  BY <1>3, <1>4

LEMMA EdgeIsKept ==
  ASSUME NEW c \in Conds, NEW p \in Seq(Sample), NEW r \in ConditionState,
         NEW t, Stands(c, p, r, t), NEW s \in Sample
  PROVE  EdgeAt(c, Append(p, s), DOMAIN Append(p, s), Len(p) + 1)
           <=> EdgeValue(c, r, s.raw)
<1> DEFINE q == Append(p, s)
<1>1. q \in Seq(Sample) /\ Len(q) = Len(p) + 1 /\ q[Len(p) + 1] = s
  OBVIOUS
<1>2. \A k \in 1 .. Len(p) : q[k] = p[k]
  OBVIOUS
<1>3. Edge[c] \in Edges /\ s.raw \in BOOLEAN /\ r.hasPrevious \in BOOLEAN
        /\ r.previousRaw \in BOOLEAN /\ Len(p) \in Nat
  BY TriggerAssumption DEF ConditionState, Sample
<1> HIDE DEF q
<1>4. CASE Len(p) = 0
  <2>1. ~ r.hasPrevious
    BY <1>4 DEF Stands
  <2>2. EdgeAt(c, q, DOMAIN q, 1) <=> Edge[c] = "None" /\ s.raw
    BY <1>1, <1>4, EdgeOfFirst
  <2>3. EdgeValue(c, r, s.raw) <=> Edge[c] = "None" /\ s.raw
    BY <2>1, <1>3 DEF EdgeValue, Edges
  <2> QED
    BY <2>2, <2>3, <1>4, <1>1 DEF q
<1>5. CASE Len(p) # 0
  <2>1. r.hasPrevious /\ (r.previousRaw <=> p[Len(p)].raw)
    BY <1>5 DEF Stands
  <2>2. Len(p) + 1 \in 2 .. Len(q) /\ Len(p) \in 1 .. Len(p) /\ (Len(p) + 1) - 1 = Len(p)
    BY <1>5, <1>3, <1>1
  <2>3. EdgeAt(c, q, DOMAIN q, Len(p) + 1) <=> EdgeOver(c, q[Len(p)].raw, q[Len(p) + 1].raw)
    BY <2>2, <1>1, EdgeOfLater
  <2>4. p[Len(p)] \in Sample
    BY <2>2
  <2>5. EdgeOver(c, q[Len(p)].raw, q[Len(p) + 1].raw) <=> EdgeOver(c, p[Len(p)].raw, s.raw)
    BY <1>1, <1>2, <2>2
  <2>6. r.previousRaw = p[Len(p)].raw
    BY <2>1, <2>4, <1>3 DEF Sample
  <2>7. EdgeOver(c, p[Len(p)].raw, s.raw) <=> EdgeValue(c, r, s.raw)
    BY <2>1, <2>6, <1>3 DEF EdgeOver, EdgeValue, Edges
  <2> QED
    BY <2>3, <2>5, <2>7 DEF q
<1> QED
  BY <1>4, <1>5

---------------------------------------------------------------------------
(* upper_bound over the times of a history: the samples at or before        *)
(* t - delay are its first Selected(c, h, t).                               *)

Ordered(h) == \A i, j \in 1 .. Len(h) : i <= j => h[i].time <= h[j].time

LEMMA SelectedIsUpperBound ==
  ASSUME NEW c \in Conds, NEW h \in Seq(Kept), Ordered(h), NEW t \in Nat
  PROVE  /\ Selected(c, h, t) \in 0 .. Len(h)
         /\ \A i \in 1 .. Len(h) : i <= Selected(c, h, t) <=> h[i].time + Delay[c] <= t
<1> DEFINE S == {i \in DOMAIN h : h[i].time + Delay[c] <= t}
<1>1. Selected(c, h, t) = Cardinality(S)
  BY DEF Selected
<1>2. DOMAIN h = 1 .. Len(h) /\ Len(h) \in Nat /\ Delay[c] \in Nat
  BY TriggerAssumption
<1>3. \A i \in 1 .. Len(h) : h[i].time \in Nat
  <2>1. \A i \in 1 .. Len(h) : h[i] \in Kept
    OBVIOUS
  <2> QED
    BY <2>1 DEF Kept
<1>4. CASE S = {}
  <2>1. Selected(c, h, t) = 0
    BY <1>4, <1>1, FS_EmptySet
  <2>2. \A i \in 1 .. Len(h) : ~ (h[i].time + Delay[c] <= t)
    BY <1>4, <1>2
  <2> QED
    BY <2>1, <2>2, <1>2
<1>5. CASE S # {}
  <2>1. S \subseteq 0 .. Len(h)
    BY <1>2
  <2>2. PICK m \in S : \A i \in S : i <= m
    BY <2>1, <1>5, <1>2, GreatestNatural
  <2>3. m \in 1 .. Len(h) /\ h[m].time + Delay[c] <= t
    BY <2>2, <1>2
  <2>4. ASSUME NEW i \in 1 .. Len(h)
        PROVE  i <= m <=> h[i].time + Delay[c] <= t
    <3>1. i <= m => h[i].time <= h[m].time
      BY <2>3 DEF Ordered
    <3>2. i <= m => h[i].time + Delay[c] <= t
      BY <3>1, <2>3, <1>2, <1>3
    <3>3. h[i].time + Delay[c] <= t => i \in S
      BY <1>2
    <3> QED
      BY <3>2, <3>3, <2>2
  <2>5. S = 1 .. m
    BY <2>3, <2>4, <1>2
  <2>6. Cardinality(1 .. m) = m
    <3>1. 1 \in Int /\ m \in Int /\ ~ (1 > m)
      BY <2>3
    <3>2. Cardinality(1 .. m) = m - 1 + 1
      BY <3>1, FS_Interval
    <3> QED
      BY <3>1, <3>2
  <2> HIDE DEF S
  <2> QED
    BY <1>1, <2>5, <2>6, <2>3, <2>4
<1> QED
  BY <1>4, <1>5

---------------------------------------------------------------------------
(* One evaluation: the state of the condition goes on standing for its      *)
(* evaluations, and its value is the held edge.                             *)

LEMMA RecordedMirrors ==
  ASSUME NEW c \in Conds, NEW p \in Seq(Sample), NEW r \in ConditionState,
         NEW u \in Nat, Stands(c, p, r, u), NEW s \in Sample, Delay[c] # 0
  PROVE  /\ Recorded(c, r, s.raw, s.time) \in Seq(Kept)
         /\ Len(Recorded(c, r, s.raw, s.time)) = Len(r.history) + 1
         /\ \A i \in 1 .. Len(r.history) : Recorded(c, r, s.raw, s.time)[i] = r.history[i]
         /\ Mirrors(c, Append(p, s), Recorded(c, r, s.raw, s.time))
<1> DEFINE h == r.history
           e == [time |-> s.time, value |-> EdgeValue(c, r, s.raw)]
           g == Append(h, e)
           q == Append(p, s)
<1>1. Recorded(c, r, s.raw, s.time) = g
  BY DEF Recorded
<1>2. h \in Seq(Kept) /\ Len(h) \in Nat /\ Len(p) \in Nat
  BY DEF ConditionState
<1>3. EdgeValue(c, r, s.raw) \in BOOLEAN
  <2>1. Edge[c] \in Edges /\ s.raw \in BOOLEAN
    BY TriggerAssumption DEF Sample
  <2>2. CASE Edge[c] = "None"
    BY <2>1, <2>2 DEF EdgeValue
  <2>3. CASE Edge[c] = "Rising"
    BY <2>3 DEF EdgeValue
  <2>4. CASE Edge[c] = "Falling"
    BY <2>4 DEF EdgeValue
  <2>5. CASE Edge[c] = "RisingOrFalling"
    BY <2>5 DEF EdgeValue
  <2> QED
    BY <2>1, <2>2, <2>3, <2>4, <2>5 DEF Edges
<1>4. e \in Kept /\ e.time = s.time /\ (e.value <=> EdgeValue(c, r, s.raw))
  BY <1>3 DEF Kept, Sample
<1>5. g \in Seq(Kept) /\ Len(g) = Len(h) + 1 /\ g[Len(h) + 1] = e
        /\ \A i \in 1 .. Len(h) : g[i] = h[i]
  BY <1>2, <1>4
<1>6. q \in Seq(Sample) /\ Len(q) = Len(p) + 1 /\ q[Len(p) + 1] = s
        /\ \A i \in 1 .. Len(p) : q[i] = p[i]
  OBVIOUS
<1>7. Mirrors(c, p, h)
  BY DEF Stands
<1>8. Len(h) <= Len(p)
  BY <1>7 DEF Mirrors
<1> HIDE DEF h, e, g, q
<1>9. ASSUME NEW i \in 1 .. Len(g)
      PROVE  /\ g[i].time = q[i + (Len(q) - Len(g))].time
             /\ g[i].value <=> EdgeAt(c, q, DOMAIN q, i + (Len(q) - Len(g)))
  <2>1. Len(q) - Len(g) = Len(p) - Len(h)
    BY <1>5, <1>6, <1>2
  <2>2. CASE i = Len(h) + 1
    <3>1. i + (Len(q) - Len(g)) = Len(p) + 1
      BY <2>1, <2>2, <1>2
    <3>2. EdgeAt(c, q, DOMAIN q, Len(p) + 1) <=> EdgeValue(c, r, s.raw)
      BY EdgeIsKept DEF q
    <3> QED
      BY <3>1, <3>2, <2>2, <1>4, <1>5, <1>6
  <2>3. CASE i # Len(h) + 1
    <3>1. i \in 1 .. Len(h)
      BY <2>3, <1>5, <1>2
    <3> DEFINE k == i + (Len(p) - Len(h))
    <3>2. k \in 1 .. Len(p) /\ i + (Len(q) - Len(g)) = k
      BY <3>1, <2>1, <1>2, <1>8
    <3>3. h[i].time = p[k].time /\ (h[i].value <=> EdgeAt(c, p, DOMAIN p, k))
      BY <3>1, <1>7 DEF Mirrors
    <3> HIDE DEF k
    <3>4. EdgeAt(c, q, DOMAIN q, k) <=> EdgeAt(c, p, DOMAIN p, k)
      BY <3>2, EdgeIsLocal DEF q
    <3> QED
      BY <3>1, <3>2, <3>3, <3>4, <1>5, <1>6
  <2> QED
    BY <2>2, <2>3
<1>10. Len(g) <= Len(q)
  BY <1>5, <1>6, <1>8, <1>2
<1>11. Mirrors(c, q, g)
  BY <1>9, <1>10 DEF Mirrors
<1> QED
  BY <1>1, <1>5, <1>11 DEF q, h

LEMMA PastStaysOrdered ==
  ASSUME NEW c \in Conds, NEW p \in Seq(Sample), NEW r \in ConditionState,
         NEW u \in Nat, Stands(c, p, r, u), NEW s \in Sample, u <= s.time
  PROVE  /\ Append(p, s) \in Seq(Sample)
         /\ Len(Append(p, s)) = Len(p) + 1
         /\ Append(p, s)[Len(p) + 1] = s
         /\ \A i \in 1 .. Len(p) : Append(p, s)[i] = p[i]
         /\ \A i, j \in 1 .. Len(p) + 1 :
              i <= j => Append(p, s)[i].time <= Append(p, s)[j].time
         /\ \A i \in 1 .. Len(p) + 1 : Append(p, s)[i].time <= s.time
<1> DEFINE q == Append(p, s)
<1>1. q \in Seq(Sample) /\ Len(q) = Len(p) + 1 /\ q[Len(p) + 1] = s
        /\ \A i \in 1 .. Len(p) : q[i] = p[i]
  OBVIOUS
<1>2. s.time \in Nat /\ Len(p) \in Nat
  BY DEF Sample
<1>3. \A i \in 1 .. Len(p) : p[i].time \in Nat
  <2>1. \A i \in 1 .. Len(p) : p[i] \in Sample
    OBVIOUS
  <2> QED
    BY <2>1 DEF Sample
<1> HIDE DEF q
<1>4. ASSUME NEW i \in 1 .. Len(p) + 1
      PROVE  q[i].time <= s.time
  <2>1. CASE i = Len(p) + 1
    BY <2>1, <1>1, <1>2
  <2>2. CASE i # Len(p) + 1
    <3>1. i \in 1 .. Len(p)
      BY <2>2, <1>2
    <3>2. p[i].time <= u
      BY <3>1 DEF Stands
    <3> QED
      BY <3>1, <3>2, <1>1, <1>2, <1>3
  <2> QED
    BY <2>1, <2>2
<1>5. ASSUME NEW i \in 1 .. Len(p) + 1, NEW j \in 1 .. Len(p) + 1, i <= j
      PROVE  q[i].time <= q[j].time
  <2>1. CASE j = Len(p) + 1
    BY <2>1, <1>1, <1>4
  <2>2. CASE j # Len(p) + 1
    <3>1. i \in 1 .. Len(p) /\ j \in 1 .. Len(p)
      BY <2>2, <1>5, <1>2
    <3> QED
      BY <3>1, <1>5, <1>1 DEF Stands
  <2> QED
    BY <2>1, <2>2
<1> QED
  BY <1>1, <1>4, <1>5 DEF q

\* What is selected in the recorded history of a delayed condition.
LEMMA RecordedSelection ==
  ASSUME NEW c \in Conds, NEW p \in Seq(Sample), NEW r \in ConditionState,
         NEW u \in Nat, Stands(c, p, r, u), NEW s \in Sample, u <= s.time,
         Delay[c] # 0
  PROVE  LET g == Recorded(c, r, s.raw, s.time)
             m == Selected(c, g, s.time)
         IN  /\ m \in 0 .. Len(g)
             /\ \A i \in 1 .. Len(g) : i <= m <=> g[i].time + Delay[c] <= s.time
             /\ Len(g) < Len(p) + 1 => m # 0
<1> DEFINE g == Recorded(c, r, s.raw, s.time)
           q == Append(p, s)
           m == Selected(c, g, s.time)
<1>1. g \in Seq(Kept) /\ Len(g) = Len(r.history) + 1 /\ Mirrors(c, q, g)
        /\ \A i \in 1 .. Len(r.history) : g[i] = r.history[i]
  BY RecordedMirrors
<1>2. q \in Seq(Sample) /\ Len(q) = Len(p) + 1
        /\ \A i, j \in 1 .. Len(q) : i <= j => q[i].time <= q[j].time
  BY PastStaysOrdered
<1>3. Len(g) \in Nat /\ Len(q) \in Nat /\ s.time \in Nat /\ Delay[c] \in Nat /\ Len(r.history) \in Nat
  BY <1>1, <1>2, TriggerAssumption DEF Sample, ConditionState
<1> HIDE DEF g, q, m
<1>4. Ordered(g)
  <2> SUFFICES ASSUME NEW i \in 1 .. Len(g), NEW j \in 1 .. Len(g), i <= j
               PROVE  g[i].time <= g[j].time
    BY DEF Ordered
  <2> DEFINE d == Len(q) - Len(g)
  <2>1. Len(g) <= Len(q)
    BY <1>1 DEF Mirrors
  <2>2. d \in Nat /\ Len(g) + d = Len(q)
    BY <2>1, <1>3
  <2>3. g[i].time = q[i + d].time /\ g[j].time = q[j + d].time
    BY <1>1 DEF Mirrors
  <2> HIDE DEF d
  <2>4. i + d \in 1 .. Len(q) /\ j + d \in 1 .. Len(q) /\ i + d <= j + d
    BY <2>2, <1>3
  <2> QED
    BY <2>3, <2>4, <1>2
<1>5. /\ m \in 0 .. Len(g)
      /\ \A i \in 1 .. Len(g) : i <= m <=> g[i].time + Delay[c] <= s.time
  BY <1>1, <1>3, <1>4, SelectedIsUpperBound DEF m
<1>6. ASSUME Len(g) < Len(p) + 1
      PROVE  m # 0
  <2>1. Len(r.history) < Len(p)
    BY <1>6, <1>1, <1>2, <1>3
  <2>2. Len(r.history) # 0 /\ r.history[1].time + Delay[c] <= u
    BY <2>1 DEF Stands
  <2>3. 1 \in 1 .. Len(r.history) /\ 1 \in 1 .. Len(g)
    BY <2>2, <1>1, <1>3
  <2>4. g[1] = r.history[1] /\ g[1] \in Kept
    BY <2>3, <1>1
  <2>5. g[1].time + Delay[c] <= s.time
    BY <2>2, <2>4, <1>3 DEF Kept
  <2> QED
    BY <2>3, <2>5, <1>5, <1>3
<1> QED
  BY <1>5, <1>6 DEF g, m

\* The value of a condition is the edge of its last evaluation at or before
\* t - delay.
LEMMA ValueIsHeld ==
  ASSUME NEW c \in Conds, NEW p \in Seq(Sample), NEW r \in ConditionState,
         NEW u \in Nat, Stands(c, p, r, u), NEW s \in Sample, u <= s.time
  PROVE  ConditionValue(c, r, s.raw, s.time)
           <=> Held(c, Append(p, s), DOMAIN Append(p, s), s.time)
<1> DEFINE q == Append(p, s)
           n == Len(p) + 1
<1>1. /\ q \in Seq(Sample) /\ Len(q) = n /\ q[n] = s
      /\ \A i \in 1 .. Len(p) : q[i] = p[i]
      /\ \A i, j \in 1 .. n : i <= j => q[i].time <= q[j].time
      /\ \A i \in 1 .. n : q[i].time <= s.time
  BY PastStaysOrdered
<1>2. s.time \in Nat /\ Len(p) \in Nat /\ n \in 1 .. n /\ n \in Nat /\ Delay[c] \in Nat
  BY TriggerAssumption DEF Sample
<1>3. DOMAIN q = 1 .. n
  BY <1>1
<1>4. EdgeAt(c, q, DOMAIN q, n) <=> EdgeValue(c, r, s.raw)
  BY EdgeIsKept
<1> HIDE DEF q, n
<1>5. CASE Delay[c] = 0
  <2>1. ASSUME NEW i \in 1 .. n
        PROVE  (\A j \in 1 .. n : j > i => q[j].time + Delay[c] > s.time) => i = n
    <3> SUFFICES ASSUME \A j \in 1 .. n : j > i => q[j].time + Delay[c] > s.time, i # n
                 PROVE  FALSE
      OBVIOUS
    <3>1. n > i
      BY <1>2
    <3>2. s.time + 0 > s.time
      BY <3>1, <1>1, <1>2, <1>5
    <3> QED
      BY <3>2, <1>2
  <2>2. /\ q[n].time + Delay[c] <= s.time
        /\ \A j \in 1 .. n : j > n => q[j].time + Delay[c] > s.time
    BY <1>1, <1>2, <1>5
  <2>3. Held(c, q, DOMAIN q, s.time) <=> EdgeAt(c, q, DOMAIN q, n)
    BY <2>1, <2>2, <1>2, <1>3 DEF Held
  <2>4. ConditionValue(c, r, s.raw, s.time) <=> EdgeValue(c, r, s.raw)
    BY <1>5 DEF ConditionValue
  <2> QED
    BY <2>3, <2>4, <1>4 DEF q
<1>6. CASE Delay[c] # 0
  <2> DEFINE g == Recorded(c, r, s.raw, s.time)
             m == Selected(c, g, s.time)
             d == n - Len(g)
  <2>1. g \in Seq(Kept) /\ Mirrors(c, q, g)
    BY <1>6, RecordedMirrors DEF q
  <2>2. /\ m \in 0 .. Len(g)
        /\ \A i \in 1 .. Len(g) : i <= m <=> g[i].time + Delay[c] <= s.time
        /\ Len(g) < n => m # 0
    <3>1. /\ m \in 0 .. Len(g)
          /\ \A i \in 1 .. Len(g) : i <= m <=> g[i].time + Delay[c] <= s.time
          /\ Len(g) < Len(p) + 1 => m # 0
      BY <1>6, RecordedSelection
    <3> QED
      BY <3>1 DEF n
  <2>3. Len(g) \in Nat /\ d \in Nat
    BY <2>1, <1>1, <1>2 DEF Mirrors
  <2>4. ConditionValue(c, r, s.raw, s.time) <=> m # 0 /\ g[m].value
    BY <1>6 DEF ConditionValue
  <2>5. \A i \in 1 .. Len(g) : /\ g[i].time = q[i + d].time
                               /\ g[i].value <=> EdgeAt(c, q, DOMAIN q, i + d)
    BY <2>1, <1>1 DEF Mirrors
  <2> HIDE DEF g, m, d
  <2>6. \A i \in 1 .. Len(g) : i + d \in 1 .. n
    BY <2>3, <1>2 DEF d
  <2>7. CASE m = 0
    <3>1. Len(g) = n
      BY <2>1, <2>2, <2>7, <1>1, <1>2, <2>3 DEF Mirrors
    <3>2. d = 0
      BY <3>1, <1>2 DEF d
    <3>3. \A i \in 1 .. n : ~ (q[i].time + Delay[c] <= s.time)
      <4> SUFFICES ASSUME NEW i \in 1 .. n
                   PROVE  ~ (q[i].time + Delay[c] <= s.time)
        OBVIOUS
      <4>1. i \in 1 .. Len(g) /\ ~ (i <= m)
        BY <3>1, <2>7
      <4>2. g[i].time = q[i + d].time /\ i + d = i
        BY <4>1, <2>5, <3>2
      <4> QED
        BY <4>1, <4>2, <2>2
    <3>4. ~ Held(c, q, DOMAIN q, s.time)
      BY <3>3, <1>3 DEF Held
    <3> QED
      BY <3>4, <2>4, <2>7 DEF q
  <2>8. CASE m # 0
    <3>1. m \in 1 .. Len(g) /\ m + d \in 1 .. n
      BY <2>2, <2>3, <2>6, <2>8
    <3>2. q[m + d].time + Delay[c] <= s.time
      <4>1. g[m].time + Delay[c] <= s.time
        BY <3>1, <2>2
      <4> QED
        BY <4>1, <3>1, <2>5
    <3>3. \A j \in 1 .. n : j > m + d => q[j].time + Delay[c] > s.time
      <4> SUFFICES ASSUME NEW j \in 1 .. n, j > m + d
                   PROVE  q[j].time + Delay[c] > s.time
        OBVIOUS
      <4>1. j - d \in 1 .. Len(g) /\ j - d > m /\ (j - d) + d = j
        BY <2>3, <3>1, <1>2 DEF d
      <4>2. g[j - d].time = q[j].time /\ ~ (g[j - d].time + Delay[c] <= s.time)
        <5>1. ~ (j - d <= m)
          BY <4>1, <3>1, <2>3
        <5> QED
          BY <4>1, <5>1, <2>2, <2>5
      <4>3. q[j] \in Sample
        BY <1>1
      <4>4. q[j].time \in Nat
        BY <4>3 DEF Sample
      <4> QED
        BY <4>2, <4>4, <1>2
    <3>4. ASSUME NEW i \in 1 .. n, q[i].time + Delay[c] <= s.time,
                 \A j \in 1 .. n : j > i => q[j].time + Delay[c] > s.time
          PROVE  i = m + d
      <4>1. ~ (i > m + d)
        <5>1. q[i] \in Sample
          BY <1>1
        <5>2. q[i].time \in Nat
          BY <5>1 DEF Sample
        <5> QED
          BY <3>3, <3>4, <5>2, <1>2
      <4>2. ~ (m + d > i)
        <5>1. q[m + d] \in Sample
          BY <1>1, <3>1
        <5>2. q[m + d].time \in Nat
          BY <5>1 DEF Sample
        <5> QED
          BY <3>1, <3>2, <3>4, <5>2, <1>2
      <4> QED
        BY <4>1, <4>2, <3>1
    <3>5. Held(c, q, DOMAIN q, s.time) <=> EdgeAt(c, q, DOMAIN q, m + d)
      BY <3>1, <3>2, <3>3, <3>4, <1>3 DEF Held
    <3>6. g[m].value <=> EdgeAt(c, q, DOMAIN q, m + d)
      BY <3>1, <2>5
    <3> QED
      BY <3>5, <3>6, <2>4, <2>8 DEF q
  <2> QED
    BY <2>7, <2>8
<1> QED
  BY <1>5, <1>6

LEMMA NextStands ==
  ASSUME NEW c \in Conds, NEW p \in Seq(Sample), NEW r \in ConditionState,
         NEW u \in Nat, Stands(c, p, r, u), NEW s \in Sample, u <= s.time
  PROVE  /\ NextCondition(c, r, s.raw, s.time) \in ConditionState
         /\ Stands(c, Append(p, s), NextCondition(c, r, s.raw, s.time), s.time)
<1> DEFINE q == Append(p, s)
           n == Len(p) + 1
           g == Recorded(c, r, s.raw, s.time)
           f == Pruned(c, g, s.time)
           x == NextCondition(c, r, s.raw, s.time)
<1>1. /\ q \in Seq(Sample) /\ Len(q) = n /\ q[n] = s
      /\ \A i, j \in 1 .. n : i <= j => q[i].time <= q[j].time
      /\ \A i \in 1 .. n : q[i].time <= s.time
  BY PastStaysOrdered
<1>2. s.time \in Nat /\ s.raw \in BOOLEAN /\ Len(p) \in Nat /\ n # 0 /\ n \in Nat
  BY DEF Sample
<1>3. x.hasPrevious = TRUE /\ x.previousRaw = s.raw /\ x.history = f
  BY DEF NextCondition
<1>4. f \in Seq(Kept) => x \in ConditionState
  BY <1>2 DEF NextCondition, ConditionState
<1>5. CASE Delay[c] = 0
  <2>1. g = <<>>
    BY <1>5 DEF Recorded, Stands
  <2>2. Selected(c, <<>>, s.time) = 0
    <3>1. {i \in DOMAIN <<>> : <<>>[i].time + Delay[c] <= s.time} = {}
      OBVIOUS
    <3> QED
      BY <3>1, FS_EmptySet DEF Selected
  <2>3. f = <<>>
    BY <2>1, <2>2 DEF Pruned
  <2> HIDE DEF q, n, g, f, x
  <2>4. Stands(c, q, x, s.time)
    BY <1>1, <1>2, <1>3, <1>5, <2>3 DEF Stands
  <2>5. f \in Seq(Kept)
    BY <2>3
  <2> QED
    BY <2>4, <2>5, <1>4 DEF q, x
<1>6. CASE Delay[c] # 0
  <2> DEFINE m == Selected(c, g, s.time)
             d == n - Len(g)
  <2>1. g \in Seq(Kept) /\ Mirrors(c, q, g)
    BY <1>6, RecordedMirrors
  <2>2. /\ m \in 0 .. Len(g)
        /\ \A i \in 1 .. Len(g) : i <= m <=> g[i].time + Delay[c] <= s.time
        /\ Len(g) < n => m # 0
    BY <1>6, RecordedSelection
  <2>3. Len(g) \in Nat /\ d \in Nat /\ Len(g) <= n
    BY <2>1, <1>1, <1>2 DEF Mirrors
  <2>4. f = IF m = 0 THEN g ELSE SubSeq(g, m, Len(g))
    BY DEF Pruned
  <2>5. \A i \in 1 .. Len(g) : /\ g[i].time = q[i + d].time
                               /\ g[i].value <=> EdgeAt(c, q, DOMAIN q, i + d)
    BY <2>1, <1>1 DEF Mirrors
  <2> HIDE DEF q, g, f, x, m, n
  <2>6. CASE m = 0
    <3>1. f = g /\ Len(f) = n
      BY <2>2, <2>3, <2>4, <2>6, <1>2
    <3>2. Stands(c, q, x, s.time)
      BY <3>1, <2>1, <1>1, <1>2, <1>3, <1>6 DEF Stands
    <3> QED
      BY <3>1, <3>2, <2>1, <1>4 DEF q, x
  <2>7. CASE m # 0
    <3>1. m \in 1 .. Len(g)
      BY <2>2, <2>7, <2>3
    <3>2. /\ f \in Seq(Kept) /\ Len(f) = Len(g) - m + 1
          /\ \A i \in 1 .. Len(f) : f[i] = g[i + (m - 1)]
      <4>1. f = SubSeq(g, m, Len(g))
        BY <2>4, <2>7
      <4> QED
        BY <4>1, <3>1, <2>1, <2>3, SubSeqProperties
    <3>3. Len(f) <= n
      BY <3>1, <3>2, <2>3, <1>2
    <3>4. ASSUME NEW i \in 1 .. Len(f)
          PROVE  /\ f[i].time = q[i + (n - Len(f))].time
                 /\ f[i].value <=> EdgeAt(c, q, DOMAIN q, i + (n - Len(f)))
      <4> DEFINE k == i + (m - 1)
      <4>1. k \in 1 .. Len(g) /\ k + d = i + (n - Len(f))
        BY <3>1, <3>2, <2>3, <1>2
      <4>2. f[i] = g[k]
        BY <3>2
      <4> HIDE DEF k, d
      <4>3. g[k].time = q[k + d].time /\ (g[k].value <=> EdgeAt(c, q, DOMAIN q, k + d))
        BY <4>1, <2>5
      <4> QED
        BY <4>1, <4>2, <4>3
    <3>5. Mirrors(c, q, f)
      BY <3>3, <3>4, <1>1 DEF Mirrors
    <3>6. Len(f) # 0 /\ f[1].time + Delay[c] <= s.time
      <4>1. Len(f) # 0 /\ 1 \in 1 .. Len(f)
        BY <3>1, <3>2, <2>3
      <4>2. f[1] = g[m]
        BY <4>1, <3>1, <3>2
      <4> QED
        BY <4>1, <4>2, <3>1, <2>2
    <3>7. Stands(c, q, x, s.time)
      BY <3>5, <3>6, <1>1, <1>2, <1>3, <1>6 DEF Stands
    <3> QED
      BY <3>2, <3>7, <1>4 DEF q, x
  <2> QED
    BY <2>6, <2>7
<1> QED
  BY <1>5, <1>6

LEMMA StandsLater ==
  ASSUME NEW c \in Conds, NEW p \in Seq(Sample), NEW r \in ConditionState,
         NEW t \in Nat, Stands(c, p, r, t), NEW u \in Nat, t <= u
  PROVE  Stands(c, p, r, u)
<1>1. \A i \in 1 .. Len(p) : p[i].time \in Nat
  <2>1. \A i \in 1 .. Len(p) : p[i] \in Sample
    OBVIOUS
  <2> QED
    BY <2>1 DEF Sample
<1>2. \A i \in 1 .. Len(p) : p[i].time <= u
  BY <1>1 DEF Stands
<1>3. ASSUME Delay[c] # 0, Len(r.history) < Len(p)
      PROVE  r.history[1].time + Delay[c] <= u
  <2>1. Len(r.history) # 0 /\ r.history[1].time + Delay[c] <= t
    BY <1>3 DEF Stands
  <2>2. r.history \in Seq(Kept)
    BY DEF ConditionState
  <2>3. r.history[1] \in Kept
    BY <2>1, <2>2
  <2>4. r.history[1].time \in Nat /\ Delay[c] \in Nat
    BY <2>3, TriggerAssumption DEF Kept
  <2> QED
    BY <2>1, <2>4
<1> QED
  BY <1>2, <1>3 DEF Stands

LEMMA FreshStands ==
  ASSUME NEW c \in Conds, NEW t \in Nat
  PROVE  FreshCondition \in ConditionState /\ Stands(c, <<>>, FreshCondition, t)
BY DEF FreshCondition, ConditionState, Stands, Mirrors

---------------------------------------------------------------------------
LEMMA TypingOfStep == TypeOK /\ Faithful /\ [Next]_vars => TypeOK'
<1> SUFFICES ASSUME TypeOK, Faithful, [Next]_vars
             PROVE  TypeOK'
  OBVIOUS
<1> USE DEF TypeOK
<1>1. CASE BeginStep
  <2>1. now' \in Nat
    BY <1>1, TriggerAssumption DEF BeginStep
  <2>2. todo' \in [Sites -> 0 .. 2]
    BY <1>1 DEF BeginStep
  <2> QED
    BY <2>1, <2>2, <1>1 DEF BeginStep
<1>2. ASSUME NEW s \in Sites, Evaluate(s)
      PROVE  TypeOK'
  <2>1. answer' \in [Sites -> BOOLEAN]
    <3>1. TriggerValue(s) \in BOOLEAN
      BY DEF TriggerValue
    <3> QED
      BY <3>1, <1>2 DEF Evaluate
  <2>2. todo' \in [Sites -> 0 .. 2]
    BY <1>2 DEF Evaluate
  <2>3. past' \in [Conds -> Seq(Sample)]
    <3>1. \A c \in Conds : [time |-> now, raw |-> raw[c], again |-> s \in Twice /\ todo[s] = 1] \in Sample
      BY DEF Sample
    <3> QED
      BY <3>1, <1>2 DEF Evaluate
  <2>4. cond' \in [Conds -> ConditionState]
    <3>1. ASSUME NEW c \in Conds
          PROVE  NextCondition(c, cond[c], raw[c], now) \in ConditionState
      <4> DEFINE e == [time |-> now, raw |-> raw[c], again |-> TRUE]
      <4>1. e \in Sample /\ e.time = now /\ e.raw = raw[c] /\ now <= e.time
        BY DEF Sample
      <4>2. Stands(c, past[c], cond[c], now) /\ past[c] \in Seq(Sample) /\ cond[c] \in ConditionState
        BY DEF Faithful
      <4> HIDE DEF e
      <4> QED
        BY <4>1, <4>2, NextStands
    <3> QED
      BY <3>1, <1>2 DEF Evaluate
  <2> QED
    BY <2>1, <2>2, <2>3, <2>4, <1>2 DEF Evaluate
<1>3. ASSUME NEW s \in Sites, ResetTrigger(s)
      PROVE  TypeOK'
  BY <1>3, FreshStands DEF ResetTrigger
<1>4. CASE UNCHANGED vars
  BY <1>4 DEF vars
<1> QED
  BY <1>1, <1>2, <1>3, <1>4 DEF Next

\* What an evaluation does to the past and the state of one condition.
LEMMA EvaluatedStands ==
  ASSUME TypeOK, Faithful, NEW s \in Sites, Evaluate(s), NEW c \in Conds
  PROVE  Stands(c, past'[c], cond'[c], now')
<1>1. Stands(c, past[c], cond[c], now) /\ past[c] \in Seq(Sample) /\ cond[c] \in ConditionState
  BY DEF Faithful, TypeOK
<1>2. CASE c \in SiteConds(s)
  <2> DEFINE e == [time |-> now, raw |-> raw[c], again |-> s \in Twice /\ todo[s] = 1]
  <2>1. e \in Sample /\ e.time = now /\ e.raw = raw[c] /\ now <= e.time
    BY DEF Sample, TypeOK
  <2>2. past'[c] = Append(past[c], e) /\ now' = now
    BY <1>2 DEF Evaluate
  <2>3. cond'[c] = NextCondition(c, cond[c], raw[c], now)
    BY <1>2 DEF Evaluate, Advanced
  <2>4. now \in Nat
    BY DEF TypeOK
  <2> HIDE DEF e
  <2> QED
    BY <2>1, <2>2, <2>3, <2>4, <1>1, NextStands
<1>3. CASE c \notin SiteConds(s)
  BY <1>1, <1>3 DEF Evaluate, Advanced
<1> QED
  BY <1>2, <1>3

LEMMA FaithfulStep == TypeOK /\ Faithful /\ [Next]_vars => Faithful'
<1> SUFFICES ASSUME TypeOK, Faithful, [Next]_vars, NEW c \in Conds
             PROVE  Stands(c, past'[c], cond'[c], now')
  BY DEF Faithful
<1>0. /\ Stands(c, past[c], cond[c], now) /\ past[c] \in Seq(Sample)
      /\ cond[c] \in ConditionState /\ now \in Nat
  BY DEF Faithful, TypeOK
<1>1. CASE BeginStep
  <2>1. now' \in Nat /\ now <= now'
    BY <1>0, <1>1, TriggerAssumption DEF BeginStep
  <2> QED
    BY <2>1, <1>0, <1>1, StandsLater DEF BeginStep
<1>2. ASSUME NEW s \in Sites, Evaluate(s)
      PROVE  Stands(c, past'[c], cond'[c], now')
  BY <1>2, EvaluatedStands
<1>3. ASSUME NEW s \in Sites, ResetTrigger(s)
      PROVE  Stands(c, past'[c], cond'[c], now')
  BY <1>0, <1>3, FreshStands DEF ResetTrigger
<1>4. CASE UNCHANGED vars
  BY <1>0, <1>4 DEF vars
<1> QED
  BY <1>1, <1>2, <1>3, <1>4 DEF Next

LEMMA InitialTrigger == Init => TypeOK /\ Faithful
BY FreshStands DEF Init, TypeOK, Faithful

\* Every reachable state: the states of the conditions stand for their pasts.
THEOREM HistoryIsFaithful == Spec => [](TypeOK /\ Faithful)
<1>1. TypeOK /\ Faithful /\ [Next]_vars => (TypeOK /\ Faithful)'
  BY TypingOfStep, FaithfulStep
<1> QED
  BY <1>1, InitialTrigger, PTL DEF Spec

---------------------------------------------------------------------------
(* The answers of an evaluation.                                            *)

LEMMA AnswerOfEvaluation ==
  ASSUME TypeOK, Faithful, NEW s \in Sites, Evaluate(s)
  PROVE  answer'[s] <=> Answers(s, past', Every(past'))
<1>1. answer'[s] <=> TriggerValue(s)
  BY DEF Evaluate, TypeOK
<1>2. ASSUME NEW c \in SiteConds(s), c \in Conds
      PROVE  /\ past'[c] # <<>>
             /\ ConditionValue(c, cond[c], raw[c], now)
                  <=> Held(c, past'[c], DOMAIN past'[c], past'[c][Len(past'[c])].time)
  <2> DEFINE e == [time |-> now, raw |-> raw[c], again |-> s \in Twice /\ todo[s] = 1]
  <2>1. e \in Sample /\ e.time = now /\ e.raw = raw[c] /\ now <= e.time
    BY <1>2 DEF Sample, TypeOK
  <2>2. /\ past[c] \in Seq(Sample) /\ cond[c] \in ConditionState /\ now \in Nat
        /\ Stands(c, past[c], cond[c], now)
    BY <1>2 DEF Faithful, TypeOK
  <2>3. past'[c] = Append(past[c], e)
    BY <1>2 DEF Evaluate
  <2> HIDE DEF e
  <2>4. /\ past'[c] # <<>>
        /\ past'[c][Len(past'[c])] = e
    BY <2>1, <2>2, <2>3
  <2>5. ConditionValue(c, cond[c], e.raw, e.time)
          <=> Held(c, Append(past[c], e), DOMAIN Append(past[c], e), e.time)
    BY <1>2, <2>1, <2>2, ValueIsHeld
  <2> QED
    BY <2>1, <2>3, <2>4, <2>5
<1>3. \A g \in Groups[s] : \A c \in g : c \in SiteConds(s) /\ c \in Conds
  BY TriggerAssumption DEF SiteConds
<1>4. \A c \in Conds : Every(past')[c] = DOMAIN past'[c]
  BY DEF Every
<1>5. TriggerValue(s) <=> \E g \in Groups[s] : \A c \in g :
                             ConditionValue(c, cond[c], raw[c], now)
  BY DEF TriggerValue, GroupValue
<1>6. Answers(s, past', Every(past')) <=>
        \E g \in Groups[s] : \A c \in g :
          past'[c] # <<>> /\ Held(c, past'[c], Every(past')[c], past'[c][Len(past'[c])].time)
  BY DEF Answers
<1> QED
  BY <1>1, <1>2, <1>3, <1>4, <1>5, <1>6

LEMMA OnlyEvaluationsCount ==
  ASSUME TypeOK, [Next]_vars, NEW s \in Sites, todo'[s] < todo[s]
  PROVE  Evaluate(s)
<1> USE DEF TypeOK
<1>1. CASE BeginStep
  <2>1. todo[s] = 0 /\ todo'[s] \in 0 .. 2
    BY <1>1 DEF BeginStep, Quiet
  <2> QED
    BY <2>1
<1>2. ASSUME NEW u \in Sites, Evaluate(u), u # s
      PROVE  FALSE
  <2>1. todo'[s] = todo[s] /\ todo[s] \in 0 .. 2
    BY <1>2 DEF Evaluate
  <2> QED
    BY <2>1
<1>3. ASSUME NEW u \in Sites, ResetTrigger(u)
      PROVE  FALSE
  BY <1>3 DEF ResetTrigger
<1>4. CASE UNCHANGED vars
  BY <1>4 DEF vars
<1> QED
  BY <1>1, <1>2, <1>3, <1>4 DEF Next

\* Every evaluation of a trigger answers the OR of ANDs of edge-then-delay over
\* all evaluations of its conditions since they were reset: one raw value and a
\* history pruned at every evaluation lose nothing.
THEOREM TriggerAnswerIsSampleAndHold == Spec => AnswerIsSampleAndHold
<1>1. TypeOK /\ Faithful /\ [Next]_vars =>
        \A s \in Sites : todo'[s] < todo[s] => (answer'[s] <=> Answers(s, past', Every(past')))
  BY AnswerOfEvaluation, OnlyEvaluationsCount
<1> QED
  BY <1>1, HistoryIsFaithful, PTL DEF Spec, AnswerIsSampleAndHold

---------------------------------------------------------------------------
(* The storyboard's stop trigger, evaluated twice a step.                   *)

\* A second evaluation repeats the one before it.
Paired(p) ==
  \A i \in 1 .. Len(p) : p[i].again =>
    /\ i - 1 \in 1 .. Len(p)
    /\ ~ p[i - 1].again
    /\ p[i - 1].time = p[i].time
    /\ p[i - 1].raw = p[i].raw

\* Between the two evaluations of a step, the last one is the first of the step.
Halfway(s) ==
  /\ ~ answer[s]
  /\ \A c \in SiteConds(s) :
       /\ Len(past[c]) # 0
       /\ past[c][Len(past[c])].time = now
       /\ past[c][Len(past[c])].raw = raw[c]
       /\ ~ past[c][Len(past[c])].again

EvaluatedInPairs ==
  /\ \A c \in Conds : Paired(past[c])
  /\ \A s \in Twice : todo[s] = 1 => Halfway(s)

FirstsOf(p) == {i \in DOMAIN p : ~ p[i].again}

LEMMA ConditionsOfSite ==
  /\ \A s \in Sites : SiteConds(s) \subseteq Conds
  /\ \A s, u \in Sites : s # u => \A c \in SiteConds(s) : c \notin SiteConds(u)
<1>1. ASSUME NEW s \in Sites
      PROVE  SiteConds(s) \subseteq Conds
  BY TriggerAssumption DEF SiteConds
<1>2. ASSUME NEW s \in Sites, NEW u \in Sites, s # u, NEW c \in SiteConds(s)
      PROVE  c \notin SiteConds(u)
  <2>1. SiteConds(s) \cap SiteConds(u) = {}
    BY <1>2, TriggerAssumption
  <2> QED
    BY <2>1
<1> QED
  BY <1>1, <1>2

\* The edge of a first evaluation is the same whether repetitions count or not.
LEMMA EdgeOfFirsts ==
  ASSUME NEW c \in Conds, NEW p \in Seq(Sample), Paired(p), NEW i \in FirstsOf(p)
  PROVE  EdgeAt(c, p, FirstsOf(p), i) <=> EdgeAt(c, p, DOMAIN p, i)
<1> DEFINE F == FirstsOf(p)
           B == Earlier(F, i)
<1>1. i \in 1 .. Len(p) /\ F \subseteq 1 .. Len(p) /\ Len(p) \in Nat /\ Edge[c] \in Edges
  BY TriggerAssumption DEF FirstsOf
<1>2. CASE i = 1
  <2>1. B = {}
    BY <1>1, <1>2 DEF Earlier
  <2>2. EdgeAt(c, p, F, i) <=> Edge[c] = "None" /\ p[i].raw
    BY <2>1, <1>1 DEF EdgeAt, Edges
  <2> QED
    BY <2>2, <1>1, <1>2, EdgeOfFirst
<1>3. CASE i # 1
  <2>1. i \in 2 .. Len(p) /\ i - 1 \in 1 .. Len(p)
    BY <1>1, <1>3
  <2>2. PICK k \in B : /\ \A j \in B : j <= k
                       /\ p[k].raw = p[i - 1].raw
    <3>1. CASE ~ p[i - 1].again
      <4>1. i - 1 \in B
        BY <2>1, <3>1 DEF Earlier, FirstsOf
      <4>2. \A j \in B : j <= i - 1
        BY <1>1 DEF Earlier
      <4> QED
        BY <4>1, <4>2
    <3>2. CASE p[i - 1].again
      <4>1. /\ (i - 1) - 1 \in 1 .. Len(p) /\ ~ p[(i - 1) - 1].again
            /\ p[(i - 1) - 1].raw = p[i - 1].raw
        BY <2>1, <3>2 DEF Paired
      <4>2. (i - 1) - 1 \in B
        BY <2>1, <4>1 DEF Earlier, FirstsOf
      <4>3. \A j \in B : j <= (i - 1) - 1
        BY <1>1, <3>2 DEF Earlier, FirstsOf
      <4> QED
        BY <4>1, <4>2, <4>3
    <3> QED
      BY <3>1, <3>2
  <2>3. Latest(B) = k
    <3>1. \A j \in B : (\A l \in B : l <= j) => j = k
      BY <2>2, <1>1 DEF Earlier
    <3> QED
      BY <3>1, <2>2 DEF Latest
  <2>4. B # {}
    BY <2>2
  <2>5. EdgeAt(c, p, F, i) <=> EdgeOver(c, p[k].raw, p[i].raw)
    BY <2>3, <2>4, <1>1 DEF EdgeAt, EdgeOver, Edges
  <2>6. EdgeAt(c, p, DOMAIN p, i) <=> EdgeOver(c, p[i - 1].raw, p[i].raw)
    BY <2>1, EdgeOfLater
  <2> QED
    BY <2>2, <2>5, <2>6
<1> QED
  BY <1>2, <1>3

\* The edge of a repetition is only that of an expression without an edge.
LEMMA EdgeOfRepetition ==
  ASSUME NEW c \in Conds, NEW p \in Seq(Sample), Paired(p), NEW i \in 1 .. Len(p),
         p[i].again
  PROVE  /\ i - 1 \in FirstsOf(p)
         /\ p[i - 1].time = p[i].time
         /\ EdgeAt(c, p, DOMAIN p, i) <=> Edge[c] = "None" /\ p[i].raw
         /\ Edge[c] = "None" =>
              (EdgeAt(c, p, DOMAIN p, i) <=> EdgeAt(c, p, FirstsOf(p), i - 1))
<1>1. /\ i - 1 \in 1 .. Len(p) /\ ~ p[i - 1].again
      /\ p[i - 1].time = p[i].time /\ p[i - 1].raw = p[i].raw
  BY DEF Paired
<1>2. i - 1 \in FirstsOf(p)
  BY <1>1 DEF FirstsOf
<1>3. i \in 2 .. Len(p) /\ Edge[c] \in Edges
  BY <1>1, TriggerAssumption
<1>4. p[i] \in Sample
  OBVIOUS
<1>5. EdgeAt(c, p, DOMAIN p, i) <=> EdgeOver(c, p[i - 1].raw, p[i].raw)
  BY <1>3, EdgeOfLater
<1>6. EdgeOver(c, p[i - 1].raw, p[i].raw) <=> Edge[c] = "None" /\ p[i].raw
  BY <1>1, <1>3, <1>4 DEF EdgeOver, Edges, Sample
<1>7. Edge[c] = "None" => (EdgeAt(c, p, FirstsOf(p), i - 1) <=> p[i - 1].raw)
  BY DEF EdgeAt
<1> QED
  BY <1>1, <1>2, <1>5, <1>6, <1>7

\* A repetition never makes a condition hold that would not.
LEMMA HeldOnce ==
  ASSUME NEW c \in Conds, NEW p \in Seq(Sample), Paired(p), NEW t \in Nat,
         Held(c, p, DOMAIN p, t)
  PROVE  Held(c, p, FirstsOf(p), t)
<1>1. PICK i \in 1 .. Len(p) :
        /\ p[i].time + Delay[c] <= t
        /\ \A j \in 1 .. Len(p) : j > i => p[j].time + Delay[c] > t
        /\ EdgeAt(c, p, DOMAIN p, i)
  BY DEF Held
<1>2. FirstsOf(p) \subseteq 1 .. Len(p)
  BY DEF FirstsOf
<1>3. CASE ~ p[i].again
  <2>1. i \in FirstsOf(p)
    BY <1>3 DEF FirstsOf
  <2>2. EdgeAt(c, p, FirstsOf(p), i)
    BY <2>1, <1>1, EdgeOfFirsts
  <2> QED
    BY <2>1, <2>2, <1>1, <1>2 DEF Held
<1>4. CASE p[i].again
  <2>1. /\ i - 1 \in FirstsOf(p) /\ p[i - 1].time = p[i].time
        /\ EdgeAt(c, p, FirstsOf(p), i - 1)
    BY <1>1, <1>4, EdgeOfRepetition
  <2>2. \A j \in FirstsOf(p) : j > i - 1 => j > i
    <3>1. i \notin FirstsOf(p)
      BY <1>4 DEF FirstsOf
    <3> QED
      BY <3>1, <1>2
  <2> QED
    BY <2>1, <2>2, <1>1, <1>2 DEF Held
<1> QED
  BY <1>3, <1>4

\* Nor does it make one fail that is not delayed or has no edge.
LEMMA HeldAsOften ==
  ASSUME NEW c \in Conds, NEW p \in Seq(Sample), Paired(p), Len(p) # 0,
         ~ p[Len(p)].again, Edge[c] = "None" \/ Delay[c] = 0,
         Held(c, p, FirstsOf(p), p[Len(p)].time)
  PROVE  Held(c, p, DOMAIN p, p[Len(p)].time)
<1> DEFINE n == Len(p)
           t == p[n].time
<1>1. FirstsOf(p) \subseteq 1 .. n /\ n \in FirstsOf(p) /\ n \in 1 .. n /\ n \in Nat
  BY DEF FirstsOf
<1>2. p[n] \in Sample /\ Delay[c] \in Nat
  BY <1>1, TriggerAssumption
<1>3. t \in Nat
  BY <1>2 DEF Sample
<1> HIDE DEF n, t
<1>4. PICK i \in FirstsOf(p) :
        /\ p[i].time + Delay[c] <= t
        /\ \A j \in FirstsOf(p) : j > i => p[j].time + Delay[c] > t
        /\ EdgeAt(c, p, FirstsOf(p), i)
  BY DEF Held, n, t
<1>5. EdgeAt(c, p, DOMAIN p, i)
  BY <1>4, EdgeOfFirsts
<1>6. CASE i = n
  BY <1>1, <1>4, <1>5, <1>6 DEF Held, n, t
<1>7. CASE i # n
  <2>1. i < n /\ i + 1 \in 1 .. n /\ i \in 1 .. n /\ (i + 1) - 1 = i
    BY <1>1, <1>7
  <2>2. Delay[c] # 0
    <3>1. p[n].time + Delay[c] > t
      BY <2>1, <1>1, <1>4
    <3> QED
      BY <3>1, <1>3 DEF t
  <2>3. CASE p[i + 1].again
    <3>1. p[i].time = p[i + 1].time
      BY <2>1, <2>3 DEF Paired, n
    <3>2. EdgeAt(c, p, DOMAIN p, i + 1)
      BY <2>1, <2>2, <2>3, <1>4, EdgeOfRepetition DEF n
    <3>3. ASSUME NEW j \in 1 .. n, j > i + 1
          PROVE  p[j].time + Delay[c] > t
      <4>1. CASE ~ p[j].again
        <5>1. j \in FirstsOf(p) /\ j > i
          BY <4>1, <3>3, <2>1 DEF FirstsOf, n
        <5> QED
          BY <5>1, <1>4
      <4>2. CASE p[j].again
        <5>1. j - 1 \in FirstsOf(p) /\ p[j - 1].time = p[j].time
          BY <4>2, EdgeOfRepetition DEF n
        <5>2. j - 1 > i
          BY <3>3, <2>1
        <5> QED
          BY <5>1, <5>2, <1>4
      <4> QED
        BY <4>1, <4>2
    <3> QED
      BY <3>1, <3>2, <3>3, <2>1, <1>4 DEF Held, n, t
  <2>4. CASE ~ p[i + 1].again
    <3>1. ASSUME NEW j \in 1 .. n, j > i
          PROVE  p[j].time + Delay[c] > t
      <4>1. CASE ~ p[j].again
        <5>1. j \in FirstsOf(p)
          BY <4>1 DEF FirstsOf, n
        <5> QED
          BY <5>1, <3>1, <1>4
      <4>2. CASE p[j].again
        <5>1. j - 1 \in FirstsOf(p) /\ p[j - 1].time = p[j].time
          BY <4>2, EdgeOfRepetition DEF n
        <5>2. j # i + 1
          BY <4>2, <2>4
        <5>3. j - 1 > i
          BY <5>2, <3>1, <2>1
        <5> QED
          BY <5>1, <5>3, <1>4
      <4> QED
        BY <4>1, <4>2
    <3> QED
      BY <3>1, <2>1, <1>4, <1>5 DEF Held, n, t
  <2> QED
    BY <2>3, <2>4
<1> QED
  BY <1>6, <1>7

LEMMA PairsStep ==
  TypeOK /\ EvaluatedInPairs /\ [Next]_vars => EvaluatedInPairs'
<1> SUFFICES ASSUME TypeOK, EvaluatedInPairs, [Next]_vars
             PROVE  EvaluatedInPairs'
  OBVIOUS
<1>0. /\ now \in Nat /\ raw \in [Conds -> BOOLEAN] /\ todo \in [Sites -> 0 .. 2]
      /\ answer \in [Sites -> BOOLEAN] /\ \A c \in Conds : past[c] \in Seq(Sample)
      /\ Twice \subseteq Sites
  BY TriggerAssumption DEF TypeOK
<1>1. CASE BeginStep
  <2>1. \A s \in Twice : todo'[s] # 1
    BY <1>0, <1>1 DEF BeginStep
  <2>2. past' = past
    BY <1>1 DEF BeginStep
  <2> QED
    BY <2>1, <2>2 DEF EvaluatedInPairs
<1>2. ASSUME NEW s \in Sites, Evaluate(s)
      PROVE  EvaluatedInPairs'
  <2> DEFINE second == s \in Twice /\ todo[s] = 1
             E(c) == [time |-> now, raw |-> raw[c], again |-> second]
  <2>1. \A c \in Conds : /\ E(c) \in Sample /\ E(c).time = now /\ E(c).raw = raw[c]
                         /\ E(c).again = second
    BY <1>0 DEF Sample
  <2>2. \A c \in Conds : past'[c] = IF c \in SiteConds(s) THEN Append(past[c], E(c)) ELSE past[c]
    BY <1>2 DEF Evaluate
  <2>3. second => Halfway(s)
    BY DEF EvaluatedInPairs
  <2>4. now' = now /\ raw' = raw
    BY <1>2 DEF Evaluate
  <2> HIDE DEF E, second
  <2>5. ASSUME NEW c \in Conds
        PROVE  Paired(past'[c])
    <3>1. CASE c \notin SiteConds(s)
      BY <2>2, <3>1 DEF EvaluatedInPairs
    <3>2. CASE c \in SiteConds(s)
      <4> DEFINE p == past[c]
                 q == past'[c]
                 n == Len(p)
      <4>1. /\ q = Append(p, E(c)) /\ p \in Seq(Sample) /\ n \in Nat /\ Paired(p)
        <5>1. Paired(past[c])
          BY DEF EvaluatedInPairs
        <5>2. past'[c] = Append(past[c], E(c))
          BY <2>2, <3>2
        <5>3. past[c] \in Seq(Sample)
          BY <1>0
        <5>4. Len(past[c]) \in Nat
          BY <5>3
        <5> QED
          BY <5>1, <5>2, <5>3, <5>4, Zenon
      <4>2. Len(q) = n + 1 /\ q[n + 1] = E(c) /\ \A i \in 1 .. n : q[i] = p[i]
        BY <4>1, <2>1
      <4>3. second => n # 0 /\ p[n].time = now /\ p[n].raw = raw[c] /\ ~ p[n].again
        BY <2>3, <3>2 DEF Halfway
      <4> HIDE DEF p, q, n
      <4>4. ASSUME NEW i \in 1 .. Len(q), q[i].again
            PROVE  /\ i - 1 \in 1 .. Len(q) /\ ~ q[i - 1].again
                   /\ q[i - 1].time = q[i].time /\ q[i - 1].raw = q[i].raw
        <5>1. CASE i = n + 1
          <6>1. second
            BY <4>2, <4>4, <5>1, <2>1
          <6>2. n \in 1 .. n /\ i - 1 = n /\ q[n] = p[n]
            BY <6>1, <4>1, <4>2, <4>3, <5>1
          <6>3. i - 1 \in 1 .. Len(q)
            BY <6>2, <4>1, <4>2
          <6> QED
            BY <6>1, <6>2, <6>3, <4>2, <4>3, <5>1, <2>1
        <5>2. CASE i # n + 1
          <6>1. i \in 1 .. n
            BY <5>2, <4>1, <4>2
          <6>2. p[i].again
            BY <6>1, <4>2, <4>4
          <6>3. /\ i - 1 \in 1 .. n /\ ~ p[i - 1].again
                /\ p[i - 1].time = p[i].time /\ p[i - 1].raw = p[i].raw
            BY <6>1, <6>2, <4>1 DEF Paired, n
          <6> QED
            BY <6>1, <6>3, <4>1, <4>2
        <5> QED
          BY <5>1, <5>2
      <4>5. Paired(q)
        BY <4>4 DEF Paired
      <4> QED
        BY <4>5 DEF q
    <3> QED
      BY <3>1, <3>2
  <2>6. ASSUME NEW u \in Twice, todo'[u] = 1
        PROVE  Halfway(u)'
    <3>1. CASE u = s
      <4>1. todo[s] = 2 /\ ~ answer'[s]
        BY <3>1, <2>6, <1>0, <1>2 DEF Evaluate
      <4>2. ~ second
        BY <4>1 DEF second
      <4>3. ASSUME NEW c \in SiteConds(s)
            PROVE  /\ Len(past'[c]) # 0
                   /\ past'[c][Len(past'[c])] = E(c)
                   /\ c \in Conds
        <5>1. c \in Conds
          BY ConditionsOfSite
        <5>2. past'[c] = Append(past[c], E(c)) /\ past[c] \in Seq(Sample) /\ E(c) \in Sample
          BY <5>1, <1>0, <2>1, <2>2
        <5> QED
          BY <5>1, <5>2
      <4> QED
        BY <3>1, <4>1, <4>2, <4>3, <2>1, <2>4 DEF Halfway
    <3>2. CASE u # s
      <4>1. todo[u] = 1 /\ answer'[u] = answer[u]
        BY <3>2, <2>6, <1>0, <1>2 DEF Evaluate
      <4>2. Halfway(u)
        BY <4>1 DEF EvaluatedInPairs
      <4>3. \A c \in SiteConds(u) : c \in Conds /\ past'[c] = past[c]
        BY <3>2, <1>0, <2>2, ConditionsOfSite
      <4> QED
        BY <4>1, <4>2, <4>3, <2>4 DEF Halfway
    <3> QED
      BY <3>1, <3>2
  <2> QED
    BY <2>5, <2>6 DEF EvaluatedInPairs
<1>3. ASSUME NEW s \in Sites, ResetTrigger(s)
      PROVE  EvaluatedInPairs'
  <2>1. \A u \in Twice : todo'[u] # 1
    BY <1>0, <1>3 DEF ResetTrigger, Quiet
  <2>2. \A c \in Conds : past'[c] = past[c] \/ past'[c] = <<>>
    BY <1>3 DEF ResetTrigger
  <2>3. Paired(<<>>)
    BY DEF Paired
  <2> QED
    BY <2>1, <2>2, <2>3 DEF EvaluatedInPairs
<1>4. CASE UNCHANGED vars
  BY <1>4 DEF vars, EvaluatedInPairs, Halfway
<1> QED
  BY <1>1, <1>2, <1>3, <1>4 DEF Next

\* The storyboard's stop trigger never holds where one evaluation a step would
\* not let it hold.
StopNeverEarly ==
  \A s \in Twice : answer[s] => Answers(s, past, Firsts(past))

\* The stop triggers' conditions are undelayed or have no edge.
StopIsSteady ==
  \A s \in Twice : \A c \in SiteConds(s) : Edge[c] = "None" \/ Delay[c] = 0

LEMMA FirstsIsFirstsOf ==
  \A c \in Conds : Firsts(past)[c] = FirstsOf(past[c]) /\ Every(past)[c] = DOMAIN past[c]
BY DEF Firsts, FirstsOf, Every

LEMMA OnceFollows ==
  ASSUME TypeOK, EvaluatedInPairs, NEW s \in Sites, Answers(s, past, Every(past))
  PROVE  Answers(s, past, Firsts(past))
<1>1. PICK g \in Groups[s] : \A c \in g :
        past[c] # <<>> /\ Held(c, past[c], Every(past)[c], past[c][Len(past[c])].time)
  BY DEF Answers
<1>2. ASSUME NEW c \in g
      PROVE  past[c] # <<>> /\ Held(c, past[c], Firsts(past)[c], past[c][Len(past[c])].time)
  <2>1. c \in Conds
    BY ConditionsOfSite DEF SiteConds
  <2>2. past[c] \in Seq(Sample) /\ Paired(past[c]) /\ past[c] # <<>>
    BY <2>1, <1>1 DEF TypeOK, EvaluatedInPairs
  <2>3. past[c][Len(past[c])] \in Sample
    BY <2>2
  <2>4. past[c][Len(past[c])].time \in Nat
    BY <2>3 DEF Sample
  <2>5. Held(c, past[c], DOMAIN past[c], past[c][Len(past[c])].time)
    BY <1>1, <2>1, FirstsIsFirstsOf
  <2>6. Held(c, past[c], FirstsOf(past[c]), past[c][Len(past[c])].time)
    BY <2>1, <2>2, <2>4, <2>5, HeldOnce
  <2> QED
    BY <2>1, <2>2, <2>6, FirstsIsFirstsOf
<1> QED
  BY <1>1, <1>2 DEF Answers

LEMMA OnceSuffices ==
  ASSUME TypeOK, EvaluatedInPairs, StopIsSteady, NEW s \in Twice, todo[s] = 1,
         Answers(s, past, Firsts(past))
  PROVE  Answers(s, past, Every(past))
<1>0. s \in Sites /\ Halfway(s)
  BY TriggerAssumption DEF EvaluatedInPairs
<1>1. PICK g \in Groups[s] : \A c \in g :
        past[c] # <<>> /\ Held(c, past[c], Firsts(past)[c], past[c][Len(past[c])].time)
  BY DEF Answers
<1>2. ASSUME NEW c \in g
      PROVE  past[c] # <<>> /\ Held(c, past[c], Every(past)[c], past[c][Len(past[c])].time)
  <2>1. c \in SiteConds(s)
    BY DEF SiteConds
  <2>2. c \in Conds
    BY <2>1, <1>0, ConditionsOfSite
  <2>3. past[c] \in Seq(Sample) /\ Paired(past[c])
    BY <2>2 DEF TypeOK, EvaluatedInPairs
  <2>4. Len(past[c]) # 0 /\ ~ past[c][Len(past[c])].again
    BY <2>1, <1>0 DEF Halfway
  <2>5. Edge[c] = "None" \/ Delay[c] = 0
    BY <2>1 DEF StopIsSteady
  <2>6. Held(c, past[c], FirstsOf(past[c]), past[c][Len(past[c])].time)
    BY <1>1, <2>2, FirstsIsFirstsOf
  <2>7. Held(c, past[c], DOMAIN past[c], past[c][Len(past[c])].time)
    BY <2>2, <2>3, <2>4, <2>5, <2>6, HeldAsOften
  <2> QED
    BY <1>1, <2>2, <2>7, FirstsIsFirstsOf
<1> QED
  BY <1>1, <1>2 DEF Answers

---------------------------------------------------------------------------
\* The last answers are those of the reference, and the first evaluation of a
\* step that is to be repeated did not fire.
AnswersStand ==
  \A s \in Sites :
    /\ answer[s] => Answers(s, past, Every(past))
    /\ s \in Twice /\ todo[s] = 1 => ~ Answers(s, past, Every(past))

LEMMA AnswersAreLocal ==
  ASSUME NEW s \in Sites, \A c \in SiteConds(s) : past'[c] = past[c]
  PROVE  Answers(s, past', Every(past')) <=> Answers(s, past, Every(past))
<1>1. \A g \in Groups[s] : \A c \in g : c \in SiteConds(s) /\ c \in Conds
  BY ConditionsOfSite DEF SiteConds
<1>2. \A c \in Conds : Every(past')[c] = DOMAIN past'[c] /\ Every(past)[c] = DOMAIN past[c]
  BY DEF Every
<1>3. \A g \in Groups[s] : \A c \in g :
        past'[c] = past[c] /\ Every(past')[c] = Every(past)[c]
  BY <1>1, <1>2
<1> QED
  BY <1>3 DEF Answers

LEMMA AnswersStandStep ==
  TypeOK /\ Faithful /\ EvaluatedInPairs /\ AnswersStand /\ [Next]_vars => AnswersStand'
<1> SUFFICES ASSUME TypeOK, Faithful, AnswersStand, [Next]_vars, NEW s \in Sites
             PROVE  /\ answer'[s] => Answers(s, past', Every(past'))
                    /\ s \in Twice /\ todo'[s] = 1 => ~ Answers(s, past', Every(past'))
  BY DEF AnswersStand
<1>0. /\ todo \in [Sites -> 0 .. 2] /\ answer \in [Sites -> BOOLEAN]
      /\ answer[s] => Answers(s, past, Every(past))
      /\ s \in Twice /\ todo[s] = 1 => ~ Answers(s, past, Every(past))
  BY DEF TypeOK, AnswersStand
<1>1. CASE BeginStep
  <2>1. past' = past /\ answer' = answer
    BY <1>1 DEF BeginStep
  <2>2. s \in Twice => todo'[s] # 1
    BY <1>1 DEF BeginStep
  <2>3. Answers(s, past', Every(past')) <=> Answers(s, past, Every(past))
    BY <2>1, AnswersAreLocal
  <2> QED
    BY <1>0, <2>1, <2>2, <2>3
<1>2. CASE Evaluate(s)
  <2>1. answer'[s] <=> Answers(s, past', Every(past'))
    BY <1>2, AnswerOfEvaluation
  <2>2. todo'[s] = 1 => ~ answer'[s]
    BY <1>0, <1>2 DEF Evaluate
  <2> QED
    BY <2>1, <2>2
<1>3. ASSUME NEW u \in Sites, Evaluate(u), u # s
      PROVE  /\ answer'[s] => Answers(s, past', Every(past'))
             /\ s \in Twice /\ todo'[s] = 1 => ~ Answers(s, past', Every(past'))
  <2>1. \A c \in SiteConds(s) : past'[c] = past[c]
    BY <1>3, ConditionsOfSite DEF Evaluate
  <2>2. Answers(s, past', Every(past')) <=> Answers(s, past, Every(past))
    BY <2>1, AnswersAreLocal
  <2>3. answer'[s] = answer[s] /\ todo'[s] = todo[s]
    BY <1>0, <1>3 DEF Evaluate
  <2> QED
    BY <1>0, <2>2, <2>3
<1>4. ASSUME NEW u \in Sites, ResetTrigger(u)
      PROVE  /\ answer'[s] => Answers(s, past', Every(past'))
             /\ s \in Twice /\ todo'[s] = 1 => ~ Answers(s, past', Every(past'))
  <2>1. s \in Twice => todo'[s] # 1
    BY <1>0, <1>4 DEF ResetTrigger, Quiet
  <2>2. CASE u = s
    <3>1. ~ answer'[s]
      BY <2>2, <1>0, <1>4 DEF ResetTrigger
    <3> QED
      BY <2>1, <3>1
  <2>3. CASE u # s
    <3>1. \A c \in SiteConds(s) : past'[c] = past[c]
      BY <1>4, <2>3, ConditionsOfSite DEF ResetTrigger
    <3>2. Answers(s, past', Every(past')) <=> Answers(s, past, Every(past))
      BY <3>1, AnswersAreLocal
    <3>3. answer'[s] = answer[s]
      BY <1>0, <1>4, <2>3 DEF ResetTrigger
    <3> QED
      BY <2>1, <3>2, <3>3, <1>0
  <2> QED
    BY <2>2, <2>3
<1>5. CASE UNCHANGED vars
  <2>1. past' = past /\ answer' = answer /\ todo' = todo
    BY <1>5 DEF vars
  <2>2. Answers(s, past', Every(past')) <=> Answers(s, past, Every(past))
    BY <2>1, AnswersAreLocal
  <2> QED
    BY <1>0, <2>1, <2>2
<1> QED
  BY <1>1, <1>2, <1>3, <1>4, <1>5 DEF Next

LEMMA InitialPairs == Init => EvaluatedInPairs /\ AnswersStand
<1> SUFFICES ASSUME Init
             PROVE  EvaluatedInPairs /\ AnswersStand
  OBVIOUS
<1>1. \A c \in Conds : Paired(past[c])
  BY DEF Init, Paired
<1>2. \A s \in Sites : todo[s] = 0 /\ ~ answer[s]
  BY DEF Init
<1> QED
  BY <1>1, <1>2, TriggerAssumption DEF EvaluatedInPairs, AnswersStand

\* Every reachable state: evaluations come in pairs, and the answers stand.
THEOREM PairsAlways == Spec => [](TypeOK /\ EvaluatedInPairs /\ AnswersStand)
<1>1. TypeOK /\ Faithful /\ EvaluatedInPairs /\ AnswersStand /\ [Next]_vars
        => (EvaluatedInPairs /\ AnswersStand)'
  BY PairsStep, AnswersStandStep
<1> QED
  BY <1>1, InitialPairs, HistoryIsFaithful, PTL DEF Spec

\* The storyboard's stop trigger never stops the storyboard at a step at which
\* it would not, were it evaluated once a step, whatever its edges and delays.
THEOREM StopIsNeverEarly == Spec => []StopNeverEarly
<1>1. TypeOK /\ EvaluatedInPairs /\ AnswersStand => StopNeverEarly
  BY OnceFollows, TriggerAssumption DEF AnswersStand, StopNeverEarly
<1> QED
  BY <1>1, PairsAlways, PTL

\* With undelayed or edgeless conditions, it answers at every step just what
\* it would if it were evaluated once.
THEOREM StopCountsOnce ==
  ASSUME StopIsSteady
  PROVE  Spec => []StopAnswersAsIfOnce
<1>1. TypeOK /\ EvaluatedInPairs /\ AnswersStand => StopAnswersAsIfOnce
  <2> SUFFICES ASSUME TypeOK, EvaluatedInPairs, AnswersStand, NEW s \in Twice
               PROVE  /\ answer[s] => Answers(s, past, Firsts(past))
                      /\ todo[s] = 1 => ~ Answers(s, past, Firsts(past))
    BY DEF StopAnswersAsIfOnce
  <2>1. s \in Sites
    BY TriggerAssumption
  <2>2. answer[s] => Answers(s, past, Firsts(past))
    BY <2>1, OnceFollows DEF AnswersStand
  <2>3. todo[s] = 1 => ~ Answers(s, past, Firsts(past))
    BY <2>1, OnceSuffices DEF AnswersStand
  <2> QED
    BY <2>2, <2>3
<1> QED
  BY <1>1, PairsAlways, PTL
=============================================================================
