--------------------------- MODULE InductionFacts ---------------------------
(***************************************************************************)
(* Induction over the naturals with a set in the place of the predicate, so  *)
(* that its instances are facts of first-order logic, the least and the      *)
(* greatest element of a set of naturals, and functions defined by recursion *)
(* over an interval, with a function in the place of the step.               *)
(***************************************************************************)
EXTENDS Integers, WellFoundedInduction, TLAPS

Below == {p \in Nat \X Nat : p[1] < p[2]}

\* A set of naturals that is not empty has a least element.
LEMMA LeastNatural ==
  ASSUME NEW T, T \subseteq Nat, T # {}
  PROVE  \E x \in T : \A y \in T : x <= y
<1>1. IsWellFoundedOn(Below, Nat)
  BY NatLessThanWellFounded, Zenon DEF OpToRel, Below
<1>2. PICK x \in T : \A y \in T : ~ (<<y, x>> \in Below)
  BY <1>1, WFMin
<1>3. ASSUME NEW y \in T
      PROVE  x <= y
  <2>1. x \in Nat /\ y \in Nat
    OBVIOUS
  <2>2. <<y, x>> \in Nat \X Nat /\ <<y, x>>[1] = y /\ <<y, x>>[2] = x
    BY <2>1
  <2>3. ~ (y < x)
    BY <1>2, <2>2 DEF Below
  <2> QED
    BY <2>3, <2>1
<1> QED
  BY <1>3

\* A set that holds 0 and the successors of what it holds holds every natural.
LEMMA NaturalInduction ==
  ASSUME NEW S, 0 \in S, \A n \in Nat : n \in S => n + 1 \in S
  PROVE  \A n \in Nat : n \in S
<1> SUFFICES ASSUME Nat \ S # {}
             PROVE  FALSE
  OBVIOUS
<1>1. PICK x \in Nat \ S : \A y \in Nat \ S : x <= y
  BY LeastNatural
<1>2. x # 0 /\ x - 1 \in Nat
  BY <1>1
<1>3. x - 1 \in S
  BY <1>1, <1>2
<1> QED
  BY <1>1, <1>2, <1>3

\* A bounded set of naturals that is not empty has a greatest element.
LEMMA GreatestNatural ==
  ASSUME NEW T, NEW b \in Nat, T \subseteq 0 .. b, T # {}
  PROVE  \E x \in T : \A y \in T : y <= x
<1> DEFINE D == {d \in Nat : b - d \in T}
<1>1. D # {}
  <2>1. PICK y \in T : TRUE
    OBVIOUS
  <2>2. b - y \in Nat /\ b - (b - y) = y
    BY <2>1
  <2> QED
    BY <2>1, <2>2
<1>2. PICK d \in D : \A e \in D : d <= e
  BY <1>1, LeastNatural
<1>3. d \in Nat /\ b - d \in T
  BY <1>2
<1>4. ASSUME NEW y \in T
      PROVE  y <= b - d
  <2>1. y \in Nat /\ y <= b
    OBVIOUS
  <2>2. b - y \in Nat /\ b - (b - y) = y
    BY <2>1
  <2>3. b - y \in D
    BY <2>2
  <2>4. d <= b - y
    BY <2>3, <1>2
  <2> HIDE DEF D
  <2> QED
    BY <2>1, <2>4, <1>3
<1> QED
  BY <1>3, <1>4

\* Induction over an interval.
LEMMA IntervalInduction ==
  ASSUME NEW S, NEW n \in Nat, 0 \in S, \A i \in 1 .. n : i - 1 \in S => i \in S
  PROVE  \A i \in 0 .. n : i \in S
<1> DEFINE T == {i \in Nat : i <= n => i \in S}
<1>1. 0 \in T
  OBVIOUS
<1>2. ASSUME NEW i \in Nat, i \in T
      PROVE  i + 1 \in T
  <2>1. CASE i + 1 <= n
    <3>1. i \in S /\ i + 1 \in 1 .. n /\ (i + 1) - 1 = i
      BY <1>2, <2>1
    <3> QED
      BY <3>1
  <2>2. CASE ~ (i + 1 <= n)
    BY <2>2
  <2> QED
    BY <2>1, <2>2
<1>3. \A i \in Nat : i \in T
  <2> HIDE DEF T
  <2> QED
    BY <1>1, <1>2, NaturalInduction
<1> QED
  BY <1>3

\* The function over 0 .. n with a first value and a step from each to the next.
Recursive(f, n, V, first, next) ==
  /\ f \in [0 .. n -> V] /\ f[0] = first
  /\ \A i \in 1 .. n : f[i] = next[<<i, f[i - 1]>>]

LEMMA IntervalRecursion ==
  ASSUME NEW n \in Nat, NEW V, NEW first \in V, NEW next \in [(1 .. n) \X V -> V]
  PROVE  \E f : Recursive(f, n, V, first, next)
<1> DEFINE Defines(f, k) ==
             f = [i \in 0 .. k |-> IF i = 0 THEN first ELSE next[<<i, f[i - 1]>>]]
           K == {k \in 0 .. n : \E f \in [0 .. k -> V] : Defines(f, k)}
<1>1. 0 \in K
  <2> DEFINE f == [i \in 0 .. 0 |-> first]
  <2>1. Defines(f, 0) /\ f \in [0 .. 0 -> V]
    OBVIOUS
  <2> HIDE DEF f, Defines
  <2>2. 0 \in 0 .. n /\ \E any \in [0 .. 0 -> V] : Defines(any, 0)
    BY <2>1
  <2> QED
    BY <2>2
<1>2. ASSUME NEW k \in 1 .. n, k - 1 \in K
      PROVE  k \in K
  <2>1. PICK f \in [0 .. k - 1 -> V] : Defines(f, k - 1)
    BY <1>2
  <2> DEFINE g == [i \in 0 .. k |-> IF i \in 0 .. k - 1 THEN f[i] ELSE next[<<k, f[k - 1]>>]]
  <2>2. k - 1 \in 0 .. k - 1 /\ f[k - 1] \in V
    OBVIOUS
  <2>3. next[<<k, f[k - 1]>>] \in V
    BY <2>2
  <2>4. g \in [0 .. k -> V]
    BY <2>3
  <2>5. \A i \in 0 .. k : g[i] = IF i = 0 THEN first ELSE next[<<i, g[i - 1]>>]
    <3> SUFFICES ASSUME NEW i \in 0 .. k
                 PROVE  g[i] = IF i = 0 THEN first ELSE next[<<i, g[i - 1]>>]
      OBVIOUS
    <3>1. CASE i \in 0 .. k - 1
      <4>1. g[i] = f[i] /\ (i = 0 \/ g[i - 1] = f[i - 1])
        BY <3>1
      <4>2. f[i] = IF i = 0 THEN first ELSE next[<<i, f[i - 1]>>]
        BY <2>1, <3>1
      <4> HIDE DEF g
      <4> QED
        BY <4>1, <4>2
    <3>2. CASE i = k
      <4>1. g[i] = next[<<k, f[k - 1]>>] /\ g[i - 1] = f[k - 1] /\ i # 0
        BY <3>2
      <4> HIDE DEF g
      <4> QED
        BY <4>1, <3>2
    <3> QED
      BY <3>1, <3>2
  <2>6. Defines(g, k)
    <3>1. g = [i \in 0 .. k |-> g[i]]
      OBVIOUS
    <3> HIDE DEF g
    <3> QED
      BY <3>1, <2>5
  <2> HIDE DEF g, Defines
  <2>7. \E any \in [0 .. k -> V] : Defines(any, k)
    BY <2>4, <2>6
  <2> QED
    BY <2>7
<1>3. n \in K
  <2> HIDE DEF K
  <2>1. n \in 0 .. n
    OBVIOUS
  <2> QED
    BY <1>1, <1>2, <2>1, IntervalInduction
<1>4. PICK f \in [0 .. n -> V] : Defines(f, n)
  BY <1>3
<1>5. f[0] = first /\ \A i \in 1 .. n : f[i] = next[<<i, f[i - 1]>>]
  BY <1>4
<1> QED
  BY <1>5 DEF Recursive

\* Of every set of these that is not empty, its greatest element.
Tops(S, top) == \A s \in S : s # {} => top[s] \in s /\ \A y \in s : y <= top[s]
\* What folding each of them comes to, the greatest element taken last.
Folds(g, S, V, base, step, top) ==
  /\ g \in [S -> V]
  /\ \A s \in S : g[s] = IF s = {} THEN base ELSE step[<<top[s], g[s \ {top[s]}]>>]

\* Every step over an interval can be folded.
LEMMA FoldRecursion ==
  ASSUME NEW n \in Nat, NEW V, NEW base \in V, NEW step \in [(1 .. n) \X V -> V],
         NEW S, NEW top, S = SUBSET (1 .. n), Tops(S, top)
  PROVE  \E g : Folds(g, S, V, base, step, top)
<1>0. \A s \in S : s # {} => top[s] \in s /\ \A y \in s : y <= top[s]
  BY DEF Tops
<1> DEFINE W == [S -> V]
           first == [s \in S |-> base]
           taken(i, h) == [s \in S |-> IF i \in s THEN step[<<i, h[s]>>] ELSE h[s]]
           next == [a \in (1 .. n) \X W |-> taken(a[1], a[2])]
<1>1. first \in W
  OBVIOUS
<1>2. next \in [(1 .. n) \X W -> W]
  <2> SUFFICES ASSUME NEW i \in 1 .. n, NEW h \in W
               PROVE  taken(i, h) \in W
    <3> HIDE DEF W, taken
    <3> QED
      OBVIOUS
  <2>1. ASSUME NEW s \in S
        PROVE  (IF i \in s THEN step[<<i, h[s]>>] ELSE h[s]) \in V
    <3>1. h[s] \in V
      BY <2>1
    <3>2. <<i, h[s]>> \in (1 .. n) \X V
      BY <3>1
    <3>3. step[<<i, h[s]>>] \in V
      BY <3>2
    <3> QED
      BY <3>1, <3>3
  <2> QED
    BY <2>1
<1>3. PICK f : Recursive(f, n, W, first, next)
  <2> HIDE DEF W, first, next
  <2> QED
    BY <1>1, <1>2, IntervalRecursion
<1>4. /\ f \in [0 .. n -> W] /\ f[0] = first
      /\ \A i \in 1 .. n : f[i - 1] \in W /\ f[i] = taken(i, f[i - 1])
  <2>1. f \in [0 .. n -> W] /\ f[0] = first /\ \A i \in 1 .. n : f[i] = next[<<i, f[i - 1]>>]
    BY <1>3 DEF Recursive
  <2>2. ASSUME NEW i \in 1 .. n
        PROVE  f[i - 1] \in W /\ f[i] = taken(i, f[i - 1])
    <3>1. i - 1 \in 0 .. n
      OBVIOUS
    <3>2. f[i - 1] \in W
      BY <2>1, <3>1
    <3>3. <<i, f[i - 1]>> \in (1 .. n) \X W
      BY <3>2
    <3>4. next[<<i, f[i - 1]>>] = taken(i, f[i - 1])
      <4> HIDE DEF W, taken
      <4> QED
        BY <3>3
    <3> HIDE DEF taken, W, next
    <3> QED
      BY <2>1, <3>2, <3>4
  <2> HIDE DEF taken, W, next, first
  <2> QED
    BY <2>1, <2>2
<1>5. \A i \in 1 .. n, s \in S :
        /\ f[i - 1][s] \in V
        /\ f[i][s] = IF i \in s THEN step[<<i, f[i - 1][s]>>] ELSE f[i - 1][s]
  <2> SUFFICES ASSUME NEW i \in 1 .. n, NEW s \in S
               PROVE  /\ f[i - 1][s] \in V
                      /\ f[i][s] = IF i \in s THEN step[<<i, f[i - 1][s]>>] ELSE f[i - 1][s]
    OBVIOUS
  <2>1. f[i - 1] \in W /\ f[i] = taken(i, f[i - 1])
    BY <1>4
  <2> QED
    BY <2>1
<1> HIDE DEF W, first, next, taken
<1>6. \A s \in S : f[0][s] = base
  BY <1>4 DEF first
\* What lies above the elements of a set makes no difference to it.
<1>7. ASSUME NEW s \in S, NEW k \in 0 .. n, \A y \in s : y <= k
      PROVE  f[n][s] = f[k][s]
  <2> DEFINE T == {i \in 0 .. n : i >= k => f[i][s] = f[k][s]}
  <2>1. 0 \in T
    BY <1>4
  <2>2. ASSUME NEW i \in 1 .. n, i - 1 \in T
        PROVE  i \in T
    <3>1. CASE i = k
      BY <3>1
    <3>2. CASE i > k
      <4>1. f[i - 1][s] = f[k][s] /\ i \notin s
        BY <2>2, <3>2, <1>7
      <4>2. f[i][s] = f[i - 1][s]
        BY <4>1, <1>5
      <4> QED
        BY <4>1, <4>2
    <3>3. CASE i < k
      BY <3>3
    <3> QED
      BY <3>1, <3>2, <3>3
  <2> HIDE DEF T
  <2>3. n \in T
    BY <2>1, <2>2, IntervalInduction
  <2> QED
    BY <2>3 DEF T
\* Sets that agree up to a place are folded alike up to there.
<1>8. ASSUME NEW s \in S, NEW t \in S, NEW k \in 0 .. n, \A y \in 1 .. k : y \in s <=> y \in t
      PROVE  f[k][s] = f[k][t]
  <2> DEFINE T == {i \in 0 .. n : i <= k => f[i][s] = f[i][t]}
  <2>1. 0 \in T
    <3>1. f[0][s] = base /\ f[0][t] = base
      BY <1>6
    <3> QED
      BY <3>1
  <2>2. ASSUME NEW i \in 1 .. n, i - 1 \in T
        PROVE  i \in T
    <3>1. CASE i <= k
      <4>1. f[i - 1][s] = f[i - 1][t] /\ (i \in s <=> i \in t)
        BY <2>2, <3>1, <1>8
      <4>2. /\ f[i][s] = IF i \in s THEN step[<<i, f[i - 1][s]>>] ELSE f[i - 1][s]
            /\ f[i][t] = IF i \in t THEN step[<<i, f[i - 1][t]>>] ELSE f[i - 1][t]
        BY <1>5
      <4>3. f[i][s] = f[i][t]
        BY <4>1, <4>2
      <4> QED
        BY <4>3
    <3> QED
      BY <3>1
  <2> HIDE DEF T
  <2>3. k \in T
    <3>1. \A i \in 0 .. n : i \in T
      BY <2>1, <2>2, IntervalInduction
    <3> QED
      BY <3>1
  <2> QED
    BY <2>3 DEF T
<1> DEFINE g == [s \in S |-> f[n][s]]
<1>9. g \in [S -> V]
  <2>1. f[n] \in W
    BY <1>4
  <2>2. \A s \in S : f[n][s] \in V
    BY <2>1 DEF W
  <2> QED
    BY <2>2
<1>10. ASSUME NEW s \in S
       PROVE  g[s] = IF s = {} THEN base ELSE step[<<top[s], g[s \ {top[s]}]>>]
  <2>1. CASE s = {}
    <3>1. f[n][s] = f[0][s]
      BY <1>7, <2>1
    <3> QED
      BY <3>1, <1>6, <2>1
  <2>2. CASE s # {}
    <3>1. top[s] \in 1 .. n /\ top[s] \in s /\ \A y \in s : y <= top[s]
      BY <2>2, <1>0
    <3> DEFINE m == top[s]
               t == s \ {m}
    <3>2. t \in S /\ m \in 1 .. n /\ m - 1 \in 0 .. n /\ m \in 0 .. n
      <4>1. m \in 1 .. n /\ m - 1 \in 0 .. n /\ m \in 0 .. n
        <5> HIDE DEF m
        <5> QED
          BY <3>1 DEF m
      <4>2. t \in S
        <5> HIDE DEF m
        <5> QED
          OBVIOUS
      <4> QED
        BY <4>1, <4>2
    <3>3. f[n][s] = f[m][s]
      BY <1>7, <3>1, <3>2
    <3>4. f[m][s] = step[<<m, f[m - 1][s]>>]
      BY <1>5, <3>1
    <3>5. f[m - 1][s] = f[m - 1][t]
      <4>1. \A y \in 1 .. m - 1 : y \in s <=> y \in t
        BY <3>1
      <4> HIDE DEF t
      <4> QED
        BY <4>1, <3>2, <1>8
    <3>6. f[n][t] = f[m - 1][t]
      <4>1. \A y \in t : y <= m - 1
        BY <3>1
      <4> HIDE DEF t
      <4> QED
        BY <4>1, <3>2, <1>7
    <3>7. g[s] = f[n][s] /\ g[t] = f[n][t]
      BY <3>2
    <3> HIDE DEF g, t
    <3>8. g[s] = step[<<m, g[t]>>]
      BY <3>3, <3>4, <3>5, <3>6, <3>7
    <3> QED
      BY <3>8, <2>2 DEF t
  <2> QED
    BY <2>1, <2>2
<1> QED
  <2> HIDE DEF g
  <2> QED
    BY <1>9, <1>10 DEF Folds

\* A function that folds so where its values are in V.
FoldsIn(V, g, S, base, step, top) ==
  /\ g[{}] = base
  /\ \A s \in S : s # {} /\ g[s \ {top[s]}] \in V => g[s] = step[<<top[s], g[s \ {top[s]}]>>]

\* A function that folds so has been through every interval from the first on.
LEMMA FoldSteps ==
  ASSUME NEW n \in Nat, NEW V, NEW base \in V, NEW step \in [(1 .. n) \X V -> V],
         NEW S, NEW top, NEW g, NEW run, S = SUBSET (1 .. n), Tops(S, top), FoldsIn(V, g, S, base, step, top),
         run = [k \in 0 .. n |-> g[1 .. k]]
  PROVE  Recursive(run, n, V, base, step)
<1>0. /\ g[{}] = base
      /\ \A s \in S : s # {} /\ g[s \ {top[s]}] \in V => g[s] = step[<<top[s], g[s \ {top[s]}]>>]
  BY DEF FoldsIn
<1> DEFINE T == {k \in 0 .. n : g[1 .. k] \in V}
<1>1. 1 .. 0 = {}
  OBVIOUS
<1>2. \A k \in 1 .. n : g[1 .. k - 1] \in V => g[1 .. k] = step[<<k, g[1 .. k - 1]>>]
  <2> SUFFICES ASSUME NEW k \in 1 .. n, g[1 .. k - 1] \in V
               PROVE  g[1 .. k] = step[<<k, g[1 .. k - 1]>>]
    OBVIOUS
  <2> DEFINE s == 1 .. k
  <2>1. s \in S /\ k \in s
    OBVIOUS
  <2>2. top[s] \in s /\ \A y \in s : y <= top[s]
    <3> HIDE DEF s
    <3> QED
      BY <2>1 DEF Tops
  <2>3. top[s] = k
    <3>1. top[s] \in 1 .. k /\ k <= top[s]
      BY <2>2, <2>1
    <3> HIDE DEF s
    <3> QED
      BY <3>1
  <2>4. s \ {k} = 1 .. k - 1
    OBVIOUS
  <2> HIDE DEF s
  <2>5. g[s] = step[<<k, g[1 .. k - 1]>>]
    BY <2>1, <2>3, <2>4, <1>0
  <2> QED
    BY <2>5 DEF s
<1>3. \A k \in 0 .. n : g[1 .. k] \in V
  <2>1. 0 \in T
    BY <1>1, <1>0
  <2>2. ASSUME NEW k \in 1 .. n, k - 1 \in T
        PROVE  k \in T
    <3>1. g[1 .. k - 1] \in V
      BY <2>2
    <3>2. <<k, g[1 .. k - 1]>> \in (1 .. n) \X V
      BY <3>1
    <3>3. step[<<k, g[1 .. k - 1]>>] \in V
      BY <3>2
    <3>4. g[1 .. k] \in V
      BY <3>1, <3>3, <1>2
    <3> QED
      BY <3>4
  <2> HIDE DEF T
  <2>3. \A k \in 0 .. n : k \in T
    BY <2>1, <2>2, IntervalInduction
  <2> QED
    BY <2>3 DEF T
<1>4. run \in [0 .. n -> V]
  BY <1>3
<1>5. run[0] = base
  BY <1>1, <1>0
<1>6. \A k \in 1 .. n : run[k] = step[<<k, run[k - 1]>>]
  <2> SUFFICES ASSUME NEW k \in 1 .. n
               PROVE  run[k] = step[<<k, run[k - 1]>>]
    OBVIOUS
  <2>1. k \in 0 .. n /\ k - 1 \in 0 .. n
    OBVIOUS
  <2>2. run[k] = g[1 .. k] /\ run[k - 1] = g[1 .. k - 1]
    BY <2>1
  <2>3. g[1 .. k - 1] \in V
    BY <2>1, <1>3
  <2> QED
    BY <2>2, <2>3, <1>2
<1> QED
  BY <1>4, <1>5, <1>6 DEF Recursive
=============================================================================
