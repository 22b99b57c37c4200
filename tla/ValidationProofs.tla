-------------------------- MODULE ValidationProofs --------------------------
(***************************************************************************)
(* Proofs about the checks init makes, for every scenario: they report a      *)
(* semantic error exactly when a reference leads nowhere (Resolves), and a    *)
(* scenario in which they find no error can be run, with no look-up of a     *)
(* name, a path or a reference that can fail (Runnable).                      *)
(***************************************************************************)
EXTENDS Validation, InductionFacts, FiniteSetTheorems

---------------------------------------------------------------------------
(* Findings: those of a list of parts have no finding of a kind when those of   *)
(* no part have one.                                                            *)

\* A finding that something does not exist is an error.
Finding == {d \in Diagnostic : d.code = "SemanticError" => d.severity = "error"}
Findings == Seq(Finding)
Free(found, kind) == \A i \in 1 .. Len(found) : found[i] \notin kind

Faults == {d \in Finding : d.severity = "error"}
Dangling == {d \in Finding : d.code = "SemanticError"}
Faultless(found) == Free(found, Faults)
Resolved(found) == Free(found, Dangling)

LEMMA FaultlessHasNoErrors ==
  ASSUME NEW found \in Findings
  PROVE  has_errors(found) <=> ~ Faultless(found)
<1>1. Len(found) \in Nat /\ DOMAIN found = 1 .. Len(found) /\ \A i \in DOMAIN found : found[i] \in Finding
  BY DEF Findings
<1> QED
  BY <1>1 DEF has_errors, errors, Faultless, Free, Faults

LEMMA DanglingIsReported ==
  ASSUME NEW found \in Findings
  PROVE  (\E i \in DOMAIN found : found[i].code = "SemanticError") <=> ~ Resolved(found)
<1>1. Len(found) \in Nat /\ DOMAIN found = 1 .. Len(found) /\ \A i \in DOMAIN found : found[i] \in Finding
  BY DEF Findings
<1> QED
  BY <1>1 DEF Resolved, Free, Dangling

LEMMA FaultlessIsResolved ==
  ASSUME NEW found \in Findings, Faultless(found)
  PROVE  Resolved(found)
BY DEF Findings, Faultless, Resolved, Free, Faults, Dangling, Finding

LEMMA ErrorFound ==
  ASSUME NEW code \in Status
  PROVE  /\ <<Error(code)>> \in Findings /\ ~ Faultless(<<Error(code)>>)
         /\ Resolved(<<Error(code)>>) <=> code # "SemanticError"
<1> DEFINE d == Error(code)
<1>1. d \in Finding /\ d.severity = "error" /\ d.code = code
  BY DEF Error, Diagnostic, Severity, Finding
<1> HIDE DEF d
<1>2. Len(<<d>>) = 1 /\ <<d>>[1] = d
  OBVIOUS
<1> QED
  BY <1>1, <1>2 DEF Findings, Faultless, Resolved, Free, Faults, Dangling, d

LEMMA WarningFound ==
  ASSUME NEW code \in Status \ {"SemanticError"}
  PROVE  <<Warning(code)>> \in Findings /\ Faultless(<<Warning(code)>>) /\ Resolved(<<Warning(code)>>)
<1> DEFINE d == Warning(code)
<1>1. d \in Finding /\ d.severity # "error" /\ d.code = code
  BY DEF Warning, Diagnostic, Severity, Finding
<1> HIDE DEF d
<1>2. Len(<<d>>) = 1 /\ <<d>>[1] = d
  OBVIOUS
<1> QED
  BY <1>1, <1>2 DEF Findings, Faultless, Resolved, Free, Faults, Dangling, d

LEMMA NothingFound == <<>> \in Findings /\ \A kind : Free(<<>>, kind)
BY DEF Findings, Free

LEMMA FreeOfBoth ==
  ASSUME NEW a \in Findings, NEW b \in Findings
  PROVE  a \o b \in Findings /\ \A kind : Free(a \o b, kind) <=> Free(a, kind) /\ Free(b, kind)
<1>1. a \o b \in Findings /\ Len(a \o b) = Len(a) + Len(b)
      /\ Len(a) \in Nat /\ Len(b) \in Nat
  BY DEF Findings
<1>2. \A i \in 1 .. Len(a) : (a \o b)[i] = a[i] /\ i \in 1 .. Len(a \o b)
  BY <1>1 DEF Findings
<1>3. \A i \in 1 .. Len(b) : (a \o b)[Len(a) + i] = b[i] /\ Len(a) + i \in 1 .. Len(a \o b)
  BY <1>1 DEF Findings
<1>4. \A i \in 1 .. Len(a \o b) :
        i \in 1 .. Len(a) \/ (i - Len(a) \in 1 .. Len(b) /\ i = Len(a) + (i - Len(a)))
  BY <1>1
<1>5. ASSUME NEW kind, Free(a \o b, kind)
      PROVE  Free(a, kind) /\ Free(b, kind)
  BY <1>2, <1>3, <1>5 DEF Free
<1>6. ASSUME NEW kind, Free(a, kind), Free(b, kind)
      PROVE  Free(a \o b, kind)
  BY <1>2, <1>3, <1>4, <1>6 DEF Free
<1> QED
  BY <1>1, <1>5, <1>6

\* The findings of each of several parts, one after the other.
LEMMA Flattened ==
  ASSUME NEW seqs, NEW n \in Nat, DOMAIN seqs = 1 .. n, seqs = [i \in 1 .. n |-> seqs[i]],
         \A i \in 1 .. n : seqs[i] \in Findings
  PROVE  /\ FlattenSeq(seqs) \in Findings
         /\ \A kind : Free(FlattenSeq(seqs), kind) <=> \A i \in 1 .. n : Free(seqs[i], kind)
<1> DEFINE V == Findings
           next == [p \in (1 .. n) \X V |-> p[2] \o seqs[p[1]]]
           Sums(f) == f = [i \in 1 .. n |-> IF i = 1 THEN seqs[i] ELSE f[i - 1] \o seqs[i]]
<1>1. seqs \in Seq(V) /\ Len(seqs) = n
  OBVIOUS
<1>2. CASE n = 0
  <2>1. seqs = <<>>
    BY <1>1, <1>2
  <2>2. FlattenSeq(seqs) = <<>>
    BY <2>1 DEF FlattenSeq
  <2>3. \A i \in 1 .. n : FALSE
    BY <1>2
  <2> QED
    BY <2>2, <2>3, NothingFound
<1>3. CASE n # 0
  <2>1. next \in [(1 .. n) \X V -> V]
    <3>1. ASSUME NEW p \in (1 .. n) \X V
          PROVE  p[2] \o seqs[p[1]] \in V
      BY FreeOfBoth
    <3> QED
      BY <3>1
  <2>2. <<>> \in V
    BY NothingFound
  <2>3. PICK f : Recursive(f, n, V, <<>>, next)
    <3> HIDE DEF next, V
    <3> QED
      BY <2>1, <2>2, IntervalRecursion
  <2>4. f \in [0 .. n -> V] /\ f[0] = <<>> /\ \A i \in 1 .. n : f[i] = next[<<i, f[i - 1]>>]
    <3> HIDE DEF next, V
    <3> QED
      BY <2>3 DEF Recursive
  <2>5. \A i \in 1 .. n : f[i - 1] \in V /\ f[i] = f[i - 1] \o seqs[i]
    <3> SUFFICES ASSUME NEW i \in 1 .. n
                 PROVE  f[i - 1] \in V /\ f[i] = f[i - 1] \o seqs[i]
      OBVIOUS
    <3>1. i - 1 \in 0 .. n
      OBVIOUS
    <3>2. f[i - 1] \in V
      <4> HIDE DEF next, V
      <4> QED
        BY <2>4, <3>1
    <3>3. <<i, f[i - 1]>> \in (1 .. n) \X V
      BY <3>2
    <3>4. next[<<i, f[i - 1]>>] = f[i - 1] \o seqs[i]
      BY <3>3
    <3> HIDE DEF next
    <3> QED
      BY <2>4, <3>2, <3>4
  <2> DEFINE g == [i \in 1 .. n |-> f[i]]
  <2>6. Sums(g)
    <3>1. ASSUME NEW i \in 1 .. n
          PROVE  g[i] = IF i = 1 THEN seqs[i] ELSE g[i - 1] \o seqs[i]
      <4>1. CASE i = 1
        <5> HIDE DEF g, next
        <5>0. i - 1 = 0
          BY <4>1
        <5>1. f[i] = f[i - 1] \o seqs[i] /\ i - 1 = 0
          BY <2>5, <5>0
        <5>2. f[i] = <<>> \o seqs[i]
          BY <5>1, <2>4
        <5>3. <<>> \o seqs[i] = seqs[i]
          OBVIOUS
        <5>4. g[i] = seqs[i]
          <6> USE DEF g
          <6> QED
            BY <5>2, <5>3
        <5> QED
          BY <4>1, <5>4
      <4>2. CASE i # 1
        BY <2>5, <4>2, SMTT(30)
      <4> QED
        BY <4>1, <4>2
    <3> QED
      BY <3>1
  <2> HIDE DEF g, next
  <2> DEFINE flat == CHOOSE h : Sums(h)
  <2>7. Sums(flat)
    BY <2>6
  <2>8. FlattenSeq(seqs) = flat[n]
    BY <1>1, <1>3 DEF FlattenSeq
  <2> HIDE DEF flat
  <2>9. \A i \in 1 .. n : flat[i] = IF i = 1 THEN seqs[i] ELSE flat[i - 1] \o seqs[i]
    BY <2>7
  <2> DEFINE S == {i \in 0 .. n : i # 0 =>
                     flat[i] \in Findings
                     /\ \A kind : Free(flat[i], kind) <=> \A j \in 1 .. i : Free(seqs[j], kind)}
  <2>10. 0 \in S
    OBVIOUS
  <2>11. ASSUME NEW i \in 1 .. n, i - 1 \in S
         PROVE  i \in S
    <3>0. i \in 0 .. n
      OBVIOUS
    <3>1. CASE i = 1
      <4>1. flat[i] = seqs[i]
        BY <2>9, <3>1
      <4>2. 1 \in 1 .. i /\ \A j \in 1 .. i : j = i
        BY <3>1
      <4>3. flat[i] \in Findings
        BY <4>1
      <4>4. \A kind : Free(flat[i], kind) <=> \A j \in 1 .. i : Free(seqs[j], kind)
        BY <3>1, <4>1, <4>2
      <4> QED
        BY <3>0, <4>3, <4>4
    <3>2. CASE i # 1
      <4>0. i - 1 # 0
        BY <3>2
      <4>1. /\ flat[i - 1] \in Findings
            /\ \A kind : Free(flat[i - 1], kind) <=> \A j \in 1 .. i - 1 : Free(seqs[j], kind)
        BY <2>11, <4>0
      <4>2. flat[i] = flat[i - 1] \o seqs[i]
        BY <2>9, <3>2
      <4>3. /\ flat[i] \in Findings
            /\ \A kind : Free(flat[i], kind) <=> Free(flat[i - 1], kind) /\ Free(seqs[i], kind)
        BY <4>1, <4>2, FreeOfBoth
      <4>4. \A j : j \in 1 .. i <=> (j = i \/ j \in 1 .. i - 1)
        OBVIOUS
      <4>5. \A kind : Free(flat[i], kind) <=> \A j \in 1 .. i : Free(seqs[j], kind)
        BY <4>1, <4>3, <4>4
      <4> QED
        BY <3>0, <4>3, <4>5
    <3> QED
      BY <3>1, <3>2
  <2>12. n \in S
    <3> HIDE DEF S
    <3>1. n \in 0 .. n
      OBVIOUS
    <3> QED
      BY <2>10, <2>11, <3>1, IntervalInduction
  <2> QED
    BY <1>3, <2>8, <2>12
<1> QED
  BY <1>2, <1>3

\* What a sink collects in one place.
LEMMA Parts ==
  /\ <<>> \in Findings /\ Faultless(<<>>) /\ Resolved(<<>>)
  /\ \A code \in Status :
       <<Error(code)>> \in Findings /\ ~ Faultless(<<Error(code)>>)
  /\ ~ Resolved(<<Error("SemanticError")>>)
  /\ \A code \in Status \ {"SemanticError"} :
       /\ Resolved(<<Error(code)>>)
       /\ <<Warning(code)>> \in Findings
       /\ Faultless(<<Warning(code)>>) /\ Resolved(<<Warning(code)>>)
BY NothingFound, ErrorFound, WarningFound DEF Faultless, Resolved, Status

\* Two, three and four parts.
LEMMA Two ==
  ASSUME NEW a \in Findings, NEW b \in Findings
  PROVE  /\ a \o b \in Findings
         /\ Faultless(a \o b) <=> Faultless(a) /\ Faultless(b)
         /\ Resolved(a \o b) <=> Resolved(a) /\ Resolved(b)
BY FreeOfBoth DEF Faultless, Resolved

LEMMA Three ==
  ASSUME NEW a \in Findings, NEW b \in Findings, NEW c \in Findings
  PROVE  /\ (a \o b) \o c \in Findings
         /\ Faultless((a \o b) \o c) <=> Faultless(a) /\ Faultless(b) /\ Faultless(c)
         /\ Resolved((a \o b) \o c) <=> Resolved(a) /\ Resolved(b) /\ Resolved(c)
<1>1. /\ a \o b \in Findings
      /\ Faultless(a \o b) <=> Faultless(a) /\ Faultless(b)
      /\ Resolved(a \o b) <=> Resolved(a) /\ Resolved(b)
  BY Two
<1> QED
  BY <1>1, Two

LEMMA Four ==
  ASSUME NEW a \in Findings, NEW b \in Findings, NEW c \in Findings, NEW d \in Findings
  PROVE  /\ ((a \o b) \o c) \o d \in Findings
         /\ Faultless(((a \o b) \o c) \o d)
              <=> Faultless(a) /\ Faultless(b) /\ Faultless(c) /\ Faultless(d)
         /\ Resolved(((a \o b) \o c) \o d)
              <=> Resolved(a) /\ Resolved(b) /\ Resolved(c) /\ Resolved(d)
<1>1. /\ (a \o b) \o c \in Findings
      /\ Faultless((a \o b) \o c) <=> Faultless(a) /\ Faultless(b) /\ Faultless(c)
      /\ Resolved((a \o b) \o c) <=> Resolved(a) /\ Resolved(b) /\ Resolved(c)
  BY Three
<1> QED
  BY <1>1, Two

---------------------------------------------------------------------------
(* Actions: what is found of each is resolved exactly when what it refers to is  *)
(* there.                                                                        *)

LEMMA PositionChecked ==
  ASSUME NEW scn, NEW p
  PROVE  /\ validate_position(scn, p) \in Findings
         /\ Resolved(validate_position(scn, p))
              <=> (p.frame \notin {"road", "world"} => p.ref \in ids(scn))
<1> DEFINE named == When(unknown(scn, {p.ref}), Error("SemanticError"))
           ill == When(p.ill, Error("ValidationError"))
<1>1. ill \in Findings /\ Resolved(ill)
  BY Parts DEF When, Status
<1>2. named \in Findings /\ (Resolved(named) <=> p.ref \in ids(scn))
  BY Parts DEF When, Status, unknown
<1>3. named \o ill \in Findings /\ (Resolved(named \o ill) <=> p.ref \in ids(scn))
  BY <1>1, <1>2, Two
<1> QED
  BY <1>1, <1>3, Parts DEF validate_position

LEMMA ValueChecked ==
  ASSUME NEW scn, NEW a
  PROVE  /\ validate_value(scn, a) \in Findings
         /\ Resolved(validate_value(scn, a)) <=>
              a.name \in IF a.kind \in {"setVariable", "modifyVariable"}
                         THEN DOMAIN scn.variables ELSE DOMAIN scn.parameters
<1> DEFINE declared == IF a.kind \in {"setVariable", "modifyVariable"}
                       THEN DOMAIN scn.variables ELSE DOMAIN scn.parameters
           named == When(a.name \notin declared, Error("SemanticError"))
           ill == When(a.ill, Error("ValidationError"))
<1>1. ill \in Findings /\ Resolved(ill)
  BY Parts DEF When, Status
<1>2. named \in Findings /\ (Resolved(named) <=> a.name \in declared)
  BY Parts DEF When, Status
<1>3. validate_value(scn, a) = named \o ill
  BY DEF validate_value
<1> QED
  BY <1>1, <1>2, <1>3, Two

\* The entity an action is relative to is one of the scenario.
Related(scn, a) == a.ref # None \/ a.kind \in Keeping => a.ref \in ids(scn)

LEMMA ReferenceChecked ==
  ASSUME NEW scn, NEW a
  PROVE  LET sought == When(unknown(scn, {a.ref}), Error("SemanticError"))
             given == When(a.ref # None /\ unknown(scn, {a.ref}), Error("SemanticError"))
         IN /\ sought \in Findings
            /\ a.ref # None \/ a.kind \in Keeping => (Resolved(sought) <=> Related(scn, a))
            /\ given \in Findings
            /\ a.kind \notin Keeping => (Resolved(given) <=> Related(scn, a))
BY Parts DEF When, Status, Related, unknown

LEMMA SpeedChecked ==
  ASSUME NEW scn, NEW a, a.kind \notin Keeping
  PROVE  /\ validate_speed(scn, a) \in Findings
         /\ Resolved(validate_speed(scn, a)) <=> Related(scn, a)
<1> DEFINE w1 == When(a.dynamics = "ill", Error("ValidationError"))
           w2 == When(a.follow /\ a.above, Warning("ValidationError"))
           w3 == When(unknown(scn, {a.ref}), Error("SemanticError"))
           w4 == When(a.ill, Error("ValidationError"))
           w5 == When(a.continuous /\ a.dynamics = "timed", Error("ValidationError"))
<1>1. /\ w1 \in Findings /\ w2 \in Findings /\ w4 \in Findings /\ w5 \in Findings
      /\ Resolved(w1) /\ Resolved(w2) /\ Resolved(w4) /\ Resolved(w5)
  BY Parts DEF When, Status
<1>2. w3 \in Findings /\ (a.ref # None => (Resolved(w3) <=> Related(scn, a)))
  BY ReferenceChecked
<1>3. validate_speed(scn, a) = w1 \o (IF a.ref = None THEN w2 ELSE w3 \o w4 \o w5)
  BY DEF validate_speed
<1> HIDE DEF w1, w2, w3, w4, w5
<1>4. CASE a.ref = None
  BY <1>1, <1>3, <1>4, Two DEF Related
<1>5. CASE a.ref # None
  <2>1. validate_speed(scn, a) = w1 \o ((w3 \o w4) \o w5)
    BY <1>3, <1>5
  <2>2. (w3 \o w4) \o w5 \in Findings /\ (Resolved((w3 \o w4) \o w5) <=> Resolved(w3))
    BY <1>1, <1>2, Three
  <2> QED
    BY <1>1, <1>2, <1>5, <2>1, <2>2, Two
<1> QED
  BY <1>4, <1>5

LEMMA SpeedProfileChecked ==
  ASSUME NEW scn, NEW a, a.kind \notin Keeping
  PROVE  /\ validate_speed_profile(scn, a) \in Findings
         /\ Resolved(validate_speed_profile(scn, a)) <=> Related(scn, a)
<1> DEFINE w1 == When(a.entries = 0, Error("ValidationError"))
           w2 == When(a.ref # None /\ unknown(scn, {a.ref}), Error("SemanticError"))
           w3 == When(a.ill, Error("ValidationError"))
           w4 == When(a.ref = None /\ a.follow /\ a.above, Warning("ValidationError"))
<1>1. /\ w1 \in Findings /\ w3 \in Findings /\ w4 \in Findings
      /\ Resolved(w1) /\ Resolved(w3) /\ Resolved(w4)
  BY Parts DEF When, Status
<1>2. w2 \in Findings /\ (Resolved(w2) <=> Related(scn, a))
  BY ReferenceChecked
<1>3. validate_speed_profile(scn, a) = ((w1 \o w2) \o w3) \o w4
  BY DEF validate_speed_profile
<1> HIDE DEF w1, w2, w3, w4
<1> QED
  BY <1>1, <1>2, <1>3, Four

LEMMA GapChecked ==
  ASSUME NEW scn, NEW a, a.kind \in Keeping
  PROVE  /\ validate_longitudinal_distance(scn, a) \in Findings
         /\ Resolved(validate_longitudinal_distance(scn, a)) <=> Related(scn, a)
<1> DEFINE w1 == When(unknown(scn, {a.ref}), Error("SemanticError"))
           w2 == When(a.distance = a.timeGap, Error("ValidationError"))
           w3 == When(a.ill, Error("ValidationError"))
           w4 == When(a.frame \in {"lane", "road", "trajectory"}, Warning("UnsupportedFeature"))
<1>1. /\ w2 \in Findings /\ w3 \in Findings /\ w4 \in Findings
      /\ Resolved(w2) /\ Resolved(w3) /\ Resolved(w4)
  BY Parts DEF When, Status
<1>2. w1 \in Findings /\ (Resolved(w1) <=> Related(scn, a))
  BY ReferenceChecked
<1>3. validate_longitudinal_distance(scn, a) = ((w1 \o w2) \o w3) \o w4
  BY DEF validate_longitudinal_distance
<1> HIDE DEF w1, w2, w3, w4
<1> QED
  BY <1>1, <1>2, <1>3, Four

LEMMA LateralDistanceChecked ==
  ASSUME NEW scn, NEW a, a.kind \in Keeping
  PROVE  /\ validate_lateral_distance(scn, a) \in Findings
         /\ Resolved(validate_lateral_distance(scn, a)) <=> Related(scn, a)
<1> DEFINE w1 == When(unknown(scn, {a.ref}), Error("SemanticError"))
           w2 == When(a.ill, Error("ValidationError"))
           w3 == When(a.frame \in {"lane", "road", "trajectory"}, Warning("UnsupportedFeature"))
<1>1. w2 \in Findings /\ w3 \in Findings /\ Resolved(w2) /\ Resolved(w3)
  BY Parts DEF When, Status
<1>2. w1 \in Findings /\ (Resolved(w1) <=> Related(scn, a))
  BY ReferenceChecked
<1>3. validate_lateral_distance(scn, a) = (w1 \o w2) \o w3
  BY DEF validate_lateral_distance
<1> HIDE DEF w1, w2, w3
<1> QED
  BY <1>1, <1>2, <1>3, Three

LEMMA LaneChangeChecked ==
  ASSUME NEW scn, NEW a, a.kind \notin Keeping
  PROVE  /\ validate_lane_change(scn, a) \in Findings
         /\ Resolved(validate_lane_change(scn, a)) <=> Related(scn, a)
<1> DEFINE w1 == When(a.dynamics = "ill", Error("ValidationError"))
           w2 == When(a.step /\ a.dynamics # "none", Error("ValidationError"))
           w3 == When(a.ill, Error("ValidationError"))
           w4 == When(unknown(scn, {a.ref}), Error("SemanticError"))
           w5 == When(a.lane = None, Error("ValidationError"))
           last == IF a.ref # None THEN w4 ELSE w5
<1>1. /\ w1 \in Findings /\ w2 \in Findings /\ w3 \in Findings /\ w5 \in Findings
      /\ Resolved(w1) /\ Resolved(w2) /\ Resolved(w3) /\ Resolved(w5)
  BY Parts DEF When, Status
<1>2. w4 \in Findings /\ (a.ref # None => (Resolved(w4) <=> Related(scn, a)))
  BY ReferenceChecked
<1>3. last \in Findings /\ (Resolved(last) <=> Related(scn, a))
  BY <1>1, <1>2 DEF Related
<1>4. validate_lane_change(scn, a) = ((w1 \o w2) \o w3) \o last
  BY DEF validate_lane_change
<1> HIDE DEF w1, w2, w3, last
<1> QED
  BY <1>1, <1>3, <1>4, Four

LEMMA LaneOffsetChecked ==
  ASSUME NEW scn, NEW a, a.kind \notin Keeping
  PROVE  /\ validate_lane_offset(scn, a) \in Findings
         /\ Resolved(validate_lane_offset(scn, a)) <=> Related(scn, a)
<1> DEFINE w1 == When(a.ref # None /\ unknown(scn, {a.ref}), Error("SemanticError"))
           w2 == When(a.ill, Error("ValidationError"))
<1>1. w2 \in Findings /\ Resolved(w2)
  BY Parts DEF When, Status
<1>2. w1 \in Findings /\ (Resolved(w1) <=> Related(scn, a))
  BY ReferenceChecked
<1>3. validate_lane_offset(scn, a) = w1 \o w2
  BY DEF validate_lane_offset
<1> HIDE DEF w1, w2
<1> QED
  BY <1>1, <1>2, <1>3, Two

LEMMA TrajectoryChecked ==
  ASSUME NEW a
  PROVE  validate_trajectory(a) \in Findings /\ Resolved(validate_trajectory(a))
<1> DEFINE w1 == When(a.ill, Error("ValidationError"))
           w2 == When(a.timing = "untimed" /\ ~IllCurve(a), Error("ValidationError"))
           w3 == When(a.offset = "beyond" /\ ~IllCurve(a), Error("ValidationError"))
           w4 == When(a.closed, Warning("UnsupportedFeature"))
           w5 == When(a.follow, Warning("UnsupportedFeature"))
           four == ((w1 \o w2) \o w3) \o w4
<1>1. /\ w1 \in Findings /\ w2 \in Findings /\ w3 \in Findings
      /\ Resolved(w1) /\ Resolved(w2) /\ Resolved(w3)
  BY Parts DEF When, Status
<1>2. w4 \in Findings /\ w5 \in Findings /\ Resolved(w4) /\ Resolved(w5)
  BY Parts DEF When, Status
<1>3. <<Error("ValidationError")>> \in Findings /\ Resolved(<<Error("ValidationError")>>)
  BY Parts DEF Status
<1>4. four \o w5 \in Findings /\ Resolved(four \o w5)
  <2> HIDE DEF w1, w2, w3, w4, w5
  <2>1. four \in Findings /\ Resolved(four)
    BY <1>1, <1>2, Four
  <2> HIDE DEF four
  <2> QED
    BY <1>2, <2>1, Two
<1> QED
  BY <1>3, <1>4 DEF validate_trajectory

LEMMA ControllerChecked ==
  ASSUME NEW a
  PROVE  validate_controller(a) \in Findings /\ Resolved(validate_controller(a))
<1> DEFINE w1 == When(a.lateral /\ "lateral" \notin a.domains, Error("ValidationError"))
           w2 == When(a.longitudinal /\ "longitudinal" \notin a.domains, Error("ValidationError"))
<1>1. w1 \in Findings /\ w2 \in Findings /\ Resolved(w1) /\ Resolved(w2)
  BY Parts DEF When, Status
<1>2. validate_controller(a) = w1 \o w2
  BY DEF validate_controller
<1> QED
  BY <1>1, <1>2, Two

\* The controllers of a scenario, and the phases of each, are lists.
Signalled(scn) ==
  /\ Listed(scn.controllers)
  /\ \A c \in Range(scn.controllers) : Listed(c.phases)

\* A phase of a name is one of the first controller of another.
PhaseThere(scn, name, phase) ==
  \E i \in DOMAIN scn.controllers :
    /\ scn.controllers[i].name = name
    /\ \A j \in 1 .. i - 1 : scn.controllers[j].name # name
    /\ phase \in {p.name : p \in Range(scn.controllers[i].phases)}

LEMMA PhaseChecked ==
  ASSUME NEW scn, Signalled(scn), NEW name, NEW phase
  PROVE  /\ validate_phase(scn, name, phase) \in Findings
         /\ Resolved(validate_phase(scn, name, phase)) <=> PhaseThere(scn, name, phase)
<1> DEFINE found == controller_at(scn.controllers, name)
           first == CHOOSE i \in found : \A j \in found : i <= j
           phases == scn.controllers[first].phases
           sought == found = {} \/ \A p \in DOMAIN phases : phases[p].name # phase
<1>1. validate_phase(scn, name, phase) = When(sought, Error("SemanticError"))
  BY DEF validate_phase
<1>2. /\ validate_phase(scn, name, phase) \in Findings
      /\ Resolved(validate_phase(scn, name, phase)) <=> ~ sought
  <2> HIDE DEF sought
  <2> QED
    BY <1>1, Parts DEF When, Status
<1>3. /\ Len(scn.controllers) \in Nat /\ DOMAIN scn.controllers = 1 .. Len(scn.controllers)
      /\ \A i \in found : i \in DOMAIN scn.controllers /\ scn.controllers[i].name = name
      /\ \A i \in DOMAIN scn.controllers : scn.controllers[i].name = name => i \in found
  BY DEF controller_at, Signalled, Listed
<1>4. ASSUME found # {}
      PROVE  first \in found /\ \A j \in found : first <= j
  <2>1. found \subseteq Nat
    BY <1>3
  <2>2. \E i \in found : \A j \in found : i <= j
    <3> HIDE DEF found
    <3> QED
      BY <1>4, <2>1, LeastNatural
  <2> QED
    BY <2>2
<1>5. ASSUME ~ sought
      PROVE  PhaseThere(scn, name, phase)
  <2>1. found # {} /\ \E p \in DOMAIN phases : phases[p].name = phase
    BY <1>5
  <2>2. first \in found /\ \A j \in found : first <= j
    BY <1>4, <2>1
  <2>3. PICK p \in DOMAIN phases : phases[p].name = phase
    BY <2>1
  <2>4. phase \in {q.name : q \in Range(phases)}
    BY <2>3 DEF Range
  <2> HIDE DEF first, found
  <2>5. first \in DOMAIN scn.controllers /\ scn.controllers[first].name = name
    BY <1>3, <2>2
  <2>6. \A j \in 1 .. first - 1 : scn.controllers[j].name # name
    BY <1>3, <2>2, <2>5
  <2> QED
    BY <2>4, <2>5, <2>6 DEF PhaseThere
<1>6. ASSUME PhaseThere(scn, name, phase)
      PROVE  ~ sought
  <2>1. PICK i \in DOMAIN scn.controllers :
          /\ scn.controllers[i].name = name
          /\ \A j \in 1 .. i - 1 : scn.controllers[j].name # name
          /\ phase \in {p.name : p \in Range(scn.controllers[i].phases)}
    BY <1>6 DEF PhaseThere
  <2>2. i \in found
    BY <1>3, <2>1
  <2>3. first \in found /\ \A j \in found : first <= j
    BY <1>4, <2>2
  <2>4. i = first
    <3> HIDE DEF first, found
    <3> QED
      BY <1>3, <2>1, <2>2, <2>3
  <2>5. \E p \in DOMAIN phases : phases[p].name = phase
    BY <2>1, <2>4 DEF Range
  <2> QED
    BY <2>2, <2>5
<1> QED
  BY <1>2, <1>5, <1>6

\* What an action refers to is there, but for the entity a private one is for.
Grounded(scn, a) ==
  /\ a.kind \in {"add", "delete"} => a.who \in ids(scn)
  /\ "ref" \in DOMAIN a => Related(scn, a)
  /\ Moves(a) => a.position.ref \in ids(scn)
  /\ NamesValue(scn, a) /\ NamesPhase(scn, a)

\* What the kind of an action alone tells.
LEMMA KindGrounds ==
  ASSUME NEW scn, NEW a, TypedAction(a)
  PROVE  /\ a.kind \notin {"setVariable", "modifyVariable", "setParameter", "modifyParameter"}
              => NamesValue(scn, a)
         /\ a.kind # "phase" => NamesPhase(scn, a)
         /\ "ref" \in DOMAIN a <=> a.kind \in Referring
         /\ Moves(a) => a.kind \in {"teleport", "acquire", "add"}
         /\ a.kind \in {"teleport", "acquire", "add"}
              => (Moves(a) <=> a.position.frame \notin {"road", "world"})
BY DEF TypedAction, NamesValue, NamesPhase, Moves

LEMMA WhoChecked ==
  ASSUME NEW scn, NEW a
  PROVE  LET sought == When(unknown(scn, {a.who}), Error("SemanticError"))
         IN sought \in Findings /\ (Resolved(sought) <=> a.who \in ids(scn))
BY Parts DEF When, Status, unknown

LEMMA ContentChecked ==
  ASSUME NEW scn, Signalled(scn), NEW a, TypedAction(a)
  PROVE  /\ validate_action_content(scn, a) \in Findings
         /\ Resolved(validate_action_content(scn, a)) <=> Grounded(scn, a)
<1> DEFINE content == validate_action_content(scn, a)
           ill == When(a.ill, Error("ValidationError"))
           who == When(unknown(scn, {a.who}), Error("SemanticError"))
           Goal == content \in Findings /\ (Resolved(content) <=> Grounded(scn, a))
<1>0. ill \in Findings /\ Resolved(ill)
  BY Parts DEF When, Status
<1>1. CASE a.kind = "phase"
  <2>1. content = validate_phase(scn, a.name, a.value)
    BY <1>1 DEF validate_action_content
  <2>2. content \in Findings /\ (Resolved(content) <=> NamesPhase(scn, a))
    BY <1>1, <2>1, PhaseChecked DEF NamesPhase, PhaseThere
  <2> QED
    BY <1>1, <2>2, KindGrounds DEF Grounded, Referring, Keeping
<1>2. CASE a.kind = "environment"
  <2>1. content = ill
    BY <1>2 DEF validate_action_content
  <2> QED
    BY <1>0, <1>2, <2>1, KindGrounds DEF Grounded, Referring, Keeping
<1>3. CASE a.kind = "add"
  <2>1. content = who \o validate_position(scn, a.position)
    BY <1>3 DEF validate_action_content
  <2> DEFINE place == validate_position(scn, a.position)
  <2>2. who \in Findings /\ (Resolved(who) <=> a.who \in ids(scn))
    BY WhoChecked
  <2>3. place \in Findings /\ (Resolved(place) <=> (Moves(a) => a.position.ref \in ids(scn)))
    BY <1>3, PositionChecked, KindGrounds
  <2>4. /\ who \o place \in Findings
        /\ Resolved(who \o place) <=>
             (a.who \in ids(scn) /\ (Moves(a) => a.position.ref \in ids(scn)))
    <3> HIDE DEF who, place
    <3> QED
      BY <2>2, <2>3, Two
  <2> QED
    BY <1>3, <2>1, <2>4, KindGrounds DEF Grounded, Referring, Keeping
<1>4. CASE a.kind = "delete"
  <2>1. content = who
    BY <1>4 DEF validate_action_content
  <2> QED
    BY <1>4, <2>1, WhoChecked, KindGrounds DEF Grounded, Referring, Keeping
<1>5. CASE a.kind \in {"setVariable", "modifyVariable", "setParameter", "modifyParameter"}
  <2>1. content = validate_value(scn, a)
    BY <1>5 DEF validate_action_content
  <2>2. content \in Findings /\ (Resolved(content) <=> NamesValue(scn, a))
    BY <1>5, <2>1, ValueChecked DEF NamesValue
  <2> QED
    BY <1>5, <2>2, KindGrounds DEF Grounded, Referring, Keeping
<1>6. CASE a.kind \in Referring
  <2>1. /\ a.kind = "setSpeed" => content = validate_speed(scn, a)
        /\ a.kind = "speedProfile" => content = validate_speed_profile(scn, a)
        /\ a.kind = "keepGap" => content = validate_longitudinal_distance(scn, a)
        /\ a.kind = "keepLateral" => content = validate_lateral_distance(scn, a)
        /\ a.kind = "laneChange" => content = validate_lane_change(scn, a)
        /\ a.kind = "laneOffset" => content = validate_lane_offset(scn, a)
    BY DEF validate_action_content
  <2>2. content \in Findings /\ (Resolved(content) <=> Related(scn, a))
    <3> HIDE DEF content
    <3>1. CASE a.kind \in Keeping
      BY <2>1, <3>1, GapChecked, LateralDistanceChecked DEF Keeping
    <3>2. CASE a.kind \notin Keeping
      BY <1>6, <2>1, <3>2, SpeedChecked, SpeedProfileChecked, LaneChangeChecked,
         LaneOffsetChecked DEF Referring
    <3> QED
      BY <3>1, <3>2
  <2>3. /\ a.kind # "phase"
        /\ a.kind \notin {"setVariable", "modifyVariable", "setParameter", "modifyParameter"}
        /\ a.kind \notin {"teleport", "acquire", "add", "delete"}
    BY <1>6 DEF Referring, Keeping
  <2> QED
    BY <1>6, <2>2, <2>3, KindGrounds DEF Grounded
<1>7. CASE a.kind \in {"teleport", "acquire"}
  <2>1. content = validate_position(scn, a.position)
    BY <1>7 DEF validate_action_content
  <2>2. content \in Findings /\ (Resolved(content) <=> (Moves(a) => a.position.ref \in ids(scn)))
    BY <1>7, <2>1, PositionChecked, KindGrounds
  <2> QED
    BY <1>7, <2>2, KindGrounds DEF Grounded, Referring, Keeping
<1> DEFINE Spoken == {"phase", "environment", "add", "delete", "setVariable", "modifyVariable",
                      "setParameter", "modifyParameter", "teleport", "acquire"} \cup Referring
<1>8. CASE a.kind \notin Spoken
  <2> DEFINE way == When(a.waypoints < 2, Error("ValidationError"))
  <2>1. way \in Findings /\ Resolved(way)
    BY Parts DEF When, Status
  <2>2. \/ content = way \o ill \/ content = validate_trajectory(a)
        \/ content = validate_controller(a) \/ content = <<>>
    BY <1>8 DEF validate_action_content, Referring, Keeping
  <2>3. content \in Findings /\ Resolved(content)
    <3>1. way \o ill \in Findings /\ Resolved(way \o ill)
      <4> HIDE DEF way, ill
      <4> QED
        BY <1>0, <2>1, Two
    <3>2. \A found \in {way \o ill, validate_trajectory(a), validate_controller(a), <<>>} :
            found \in Findings /\ Resolved(found)
      <4> HIDE DEF way, ill
      <4> QED
        BY <3>1, Parts, TrajectoryChecked, ControllerChecked
    <3> QED
      BY <2>2, <3>2
  <2> QED
    BY <1>8, <2>3, KindGrounds DEF Grounded
<1> QED
  BY <1>1, <1>2, <1>3, <1>4, <1>5, <1>6, <1>7, <1>8

\* What an action refers to is there, the entity of a private one with it.
ActionStands(scn, a) ==
  a # None => Grounded(scn, a) /\ (Private(a) => a.who \in ids(scn))

LEMMA ActionChecked ==
  ASSUME NEW scn, Signalled(scn), NEW a, a # None => TypedAction(a)
  PROVE  /\ validate_action(scn, a) \in Findings
         /\ Resolved(validate_action(scn, a)) <=> ActionStands(scn, a)
         /\ Faultless(validate_action(scn, a)) => a # None
<1>1. CASE a = None
  BY <1>1, Parts DEF validate_action, Status, ActionStands
<1>2. CASE a # None
  <2> DEFINE who == When(a.kind \notin GlobalKinds /\ unknown(scn, {a.who}), Error("SemanticError"))
  <2>1. who \in Findings /\ (Resolved(who) <=> (Private(a) => a.who \in ids(scn)))
    BY Parts DEF When, Status, unknown, Private
  <2>2. validate_action(scn, a) = who \o validate_action_content(scn, a)
    BY <1>2 DEF validate_action
  <2> HIDE DEF who
  <2> QED
    BY <1>2, <2>1, <2>2, ContentChecked, Two DEF ActionStands
<1> QED
  BY <1>1, <1>2

---------------------------------------------------------------------------
(* Conditions.                                                                 *)

LEMMA ElementChecked ==
  ASSUME NEW scn, Listed(scn.elements), NEW c, c.kind = "element"
  PROVE  /\ validate_element_ref(scn, c) \in Findings
         /\ Resolved(validate_element_ref(scn, c)) <=> NamesElement(scn, c)
<1> DEFINE found == matching(scn, c.type, c.segments)
           skip == When(c.state = "skipTransition" /\ c.type # "event", Warning("UnsupportedFeature"))
           one == When(Cardinality(found) # 1, Error("SemanticError"))
<1>1. CASE c.type = "action"
  <2>1. validate_element_ref(scn, c) = <<Warning("UnsupportedFeature")>>
    BY <1>1 DEF validate_element_ref
  <2> QED
    BY <1>1, <2>1, Parts DEF NamesElement, Status
<1>2. CASE c.type # "action"
  <2>1. skip \in Findings /\ Resolved(skip)
    BY Parts DEF When, Status
  <2>2. one \in Findings /\ (Resolved(one) <=> Cardinality(found) = 1)
    BY Parts DEF When, Status
  <2>3. validate_element_ref(scn, c) = skip \o one
    BY <1>2 DEF validate_element_ref
  <2>4. found \subseteq DOMAIN scn.elements
    BY DEF matching
  <2>5. IsFiniteSet(found)
    <3>1. Len(scn.elements) \in Nat /\ DOMAIN scn.elements = 1 .. Len(scn.elements)
      BY DEF Listed
    <3> DEFINE many == Len(scn.elements)
    <3>2. many \in Int
      BY <3>1
    <3> HIDE DEF many
    <3>3. IsFiniteSet(1 .. many)
      BY <3>2, FS_Interval
    <3>4. IsFiniteSet(DOMAIN scn.elements)
      BY <3>1, <3>3, Zenon DEF many
    <3> HIDE DEF found
    <3> QED
      BY <2>4, <3>4, FS_Subset
  <2>6. Cardinality(found) = 1 <=> \E n \in DOMAIN scn.elements : found = {n}
    <3> HIDE DEF found
    <3>1. ASSUME Cardinality(found) = 1
          PROVE  \E n \in DOMAIN scn.elements : found = {n}
      BY <2>4, <2>5, <3>1, FS_Singleton
    <3>2. ASSUME NEW n \in DOMAIN scn.elements, found = {n}
          PROVE  Cardinality(found) = 1
      BY <3>2, FS_Singleton
    <3> QED
      BY <3>1, <3>2
  <2>7. NamesElement(scn, c) <=> \E n \in DOMAIN scn.elements : found = {n}
    BY <1>2 DEF NamesElement
  <2> HIDE DEF skip, one, found
  <2> QED
    BY <2>1, <2>2, <2>3, <2>6, <2>7, Two
<1> QED
  BY <1>1, <1>2

LEMMA OrderingChecked ==
  ASSUME NEW c, NEW stored
  PROVE  /\ warn_if_ordering_non_numeric(c, stored) \in Findings
         /\ Resolved(warn_if_ordering_non_numeric(c, stored))
BY Parts DEF warn_if_ordering_non_numeric, When, Status

LEMMA ByValueChecked ==
  ASSUME NEW scn, Signalled(scn), Listed(scn.elements),
         NEW c, c.by = "value", TypedCondition(c)
  PROVE  /\ validate_by_value(scn, c) \in Findings
         /\ Resolved(validate_by_value(scn, c)) <=>
              NamesValue(scn, c) /\ NamesPhase(scn, c) /\ NamesElement(scn, c)
<1> DEFINE found == validate_by_value(scn, c)
<1>0. c.kind \notin {"setVariable", "modifyVariable", "setParameter", "modifyParameter"}
  BY DEF TypedCondition
<1>1. CASE c.kind = "parameter"
  <2>1. found = IF c.name \notin DOMAIN scn.parameters THEN <<Error("SemanticError")>>
                ELSE warn_if_ordering_non_numeric(c, scn.parameters[c.name])
    BY <1>1 DEF validate_by_value
  <2>2. found \in Findings /\ (Resolved(found) <=> c.name \in DOMAIN scn.parameters)
    BY <2>1, OrderingChecked, Parts DEF Status
  <2> QED
    BY <1>1, <2>2 DEF NamesValue, NamesPhase, NamesElement
<1>2. CASE c.kind = "variable"
  <2>1. found = IF c.name \notin DOMAIN scn.variables THEN <<Error("SemanticError")>>
                ELSE warn_if_ordering_non_numeric(c, scn.variables[c.name])
    BY <1>2 DEF validate_by_value
  <2>2. found \in Findings /\ (Resolved(found) <=> c.name \in DOMAIN scn.variables)
    BY <2>1, OrderingChecked, Parts DEF Status
  <2> QED
    BY <1>2, <2>2 DEF NamesValue, NamesPhase, NamesElement
<1>3. CASE c.kind = "phase"
  <2>1. found = validate_phase(scn, c.name, c.value)
    BY <1>3 DEF validate_by_value
  <2>2. found \in Findings /\ (Resolved(found) <=> NamesPhase(scn, c))
    BY <1>3, <2>1, PhaseChecked DEF NamesPhase, PhaseThere
  <2> QED
    BY <1>3, <2>2 DEF NamesValue, NamesElement
<1>4. CASE c.kind = "element"
  <2>1. found = validate_element_ref(scn, c)
    BY <1>4 DEF validate_by_value
  <2>2. found \in Findings /\ (Resolved(found) <=> NamesElement(scn, c))
    BY <1>4, <2>1, ElementChecked
  <2> QED
    BY <1>4, <2>2 DEF NamesValue, NamesPhase
<1>5. CASE c.kind \notin {"parameter", "variable", "phase", "element"}
  <2> DEFINE ill == When(c.ill, Error("ValidationError"))
  <2>1. ill \in Findings /\ Resolved(ill)
    BY Parts DEF When, Status
  <2>2. \/ found = warn_if_ordering_non_numeric(c, 0) \/ found = ill \/ found = <<>>
    BY <1>5 DEF validate_by_value
  <2>3. found \in Findings /\ Resolved(found)
    <3> HIDE DEF found, ill
    <3> QED
      BY <2>1, <2>2, OrderingChecked, Parts
  <2> QED
    BY <1>0, <1>5, <2>3 DEF NamesValue, NamesPhase, NamesElement
<1> QED
  BY <1>1, <1>2, <1>3, <1>4, <1>5

LEMMA ModesChecked ==
  ASSUME NEW c
  PROVE  warn_interaction_modes(c) \in Findings /\ Resolved(warn_interaction_modes(c))
<1> DEFINE w1 == When("alongRoute" \in c.modes, Warning("DeprecatedFeature"))
           w2 == When("cartesian" \in c.modes, Warning("DeprecatedFeature"))
           w3 == When("road" \in c.modes, Warning("UnsupportedFeature"))
<1>1. /\ w1 \in Findings /\ w2 \in Findings /\ w3 \in Findings
      /\ Resolved(w1) /\ Resolved(w2) /\ Resolved(w3)
  BY Parts DEF When, Status
<1>2. warn_interaction_modes(c) = (w1 \o w2) \o w3
  BY DEF warn_interaction_modes
<1> HIDE DEF w1, w2, w3
<1> QED
  BY <1>1, <1>2, Three

LEMMA ByEntityChecked ==
  ASSUME NEW scn, NEW c
  PROVE  /\ validate_by_entity(scn, c) \in Findings
         /\ Resolved(validate_by_entity(scn, c)) <=> c.triggering \cup c.refs \subseteq ids(scn)
<1> DEFINE w1 == When(c.triggering = {}, Error("ValidationError"))
           w2 == When(unknown(scn, c.triggering), Error("SemanticError"))
           referred == When(unknown(scn, c.refs), Error("SemanticError"))
           ranged == When(c.ill, Error("ValidationError"))
           w3 == IF c.kind = "relativeSpeed" THEN referred \o ranged ELSE ranged \o referred
           w4 == When(c.kind = "reachPosition", Warning("DeprecatedFeature"))
           w5 == When(c.kind \in RoadBound, Warning("UnsupportedFeature"))
<1>1. /\ w1 \in Findings /\ w4 \in Findings /\ w5 \in Findings /\ ranged \in Findings
      /\ Resolved(w1) /\ Resolved(w4) /\ Resolved(w5) /\ Resolved(ranged)
  BY Parts DEF When, Status
<1>2. w2 \in Findings /\ (Resolved(w2) <=> c.triggering \subseteq ids(scn))
  BY Parts DEF When, Status, unknown
<1>3. referred \in Findings /\ (Resolved(referred) <=> c.refs \subseteq ids(scn))
  BY Parts DEF When, Status, unknown
<1>4. w3 \in Findings /\ (Resolved(w3) <=> c.refs \subseteq ids(scn))
  <2> HIDE DEF referred, ranged
  <2>1. /\ referred \o ranged \in Findings /\ ranged \o referred \in Findings
        /\ Resolved(referred \o ranged) <=> c.refs \subseteq ids(scn)
        /\ Resolved(ranged \o referred) <=> c.refs \subseteq ids(scn)
    BY <1>1, <1>3, Two
  <2> QED
    BY <2>1
<1>5. validate_by_entity(scn, c) = ((((w1 \o w2) \o w3) \o w4) \o warn_interaction_modes(c)) \o w5
  BY DEF validate_by_entity
<1> HIDE DEF w1, w2, w3, w4, w5
<1> DEFINE four == ((w1 \o w2) \o w3) \o w4
<1>6. four \in Findings /\ (Resolved(four) <=> Resolved(w2) /\ Resolved(w3))
  BY <1>1, <1>2, <1>4, Four
<1> HIDE DEF four
<1>7. validate_by_entity(scn, c) = (four \o warn_interaction_modes(c)) \o w5
  BY <1>5 DEF four
<1>8. validate_by_entity(scn, c) \in Findings
      /\ (Resolved(validate_by_entity(scn, c)) <=> Resolved(four))
  BY <1>1, <1>6, <1>7, ModesChecked, Three
<1> QED
  BY <1>2, <1>4, <1>6, <1>8

ConditionStands(scn, c) ==
  /\ c.by = "entity" => c.triggering \cup c.refs \subseteq ids(scn)
  /\ c.by = "value" => NamesValue(scn, c) /\ NamesPhase(scn, c) /\ NamesElement(scn, c)

LEMMA ExpressionChecked ==
  ASSUME NEW scn, Signalled(scn), Listed(scn.elements), NEW c, TypedCondition(c)
  PROVE  /\ validate_condition_expression(scn, c) \in Findings
         /\ Resolved(validate_condition_expression(scn, c)) <=> ConditionStands(scn, c)
<1>1. CASE c.by = "value"
  BY <1>1, ByValueChecked DEF validate_condition_expression, ConditionStands
<1>2. CASE c.by = "entity"
  BY <1>2, ByEntityChecked DEF validate_condition_expression, ConditionStands
<1> QED
  BY <1>1, <1>2 DEF TypedCondition

\* What is found of a condition, and of a group of a trigger.
OfCondition(scn, c) ==
  When(c.expression = None, Error("ValidationError"))
  \o When(c.delay < 0, Error("ValidationError"))
  \o (IF c.expression = None THEN <<>> ELSE validate_condition_expression(scn, c.expression))
OfGroup(scn, group) ==
  IF group = <<>> THEN <<Error("ValidationError")>>
  ELSE FlattenSeq([i \in DOMAIN group |-> OfCondition(scn, group[i])])

ConditionIsStanding(scn, c) ==
  c.expression # None => ConditionStands(scn, c.expression)

LEMMA ConditionChecked ==
  ASSUME NEW scn, Signalled(scn), Listed(scn.elements),
         NEW c, c.expression # None => TypedCondition(c.expression)
  PROVE  /\ OfCondition(scn, c) \in Findings
         /\ Resolved(OfCondition(scn, c)) <=> ConditionIsStanding(scn, c)
<1> DEFINE w1 == When(c.expression = None, Error("ValidationError"))
           w2 == When(c.delay < 0, Error("ValidationError"))
           w3 == IF c.expression = None THEN <<>>
                 ELSE validate_condition_expression(scn, c.expression)
<1>1. w1 \in Findings /\ w2 \in Findings /\ Resolved(w1) /\ Resolved(w2)
  BY Parts DEF When, Status
<1>2. w3 \in Findings /\ (Resolved(w3) <=> ConditionIsStanding(scn, c))
  BY Parts, ExpressionChecked DEF ConditionIsStanding
<1>3. OfCondition(scn, c) = (w1 \o w2) \o w3
  BY DEF OfCondition
<1> HIDE DEF w1, w2, w3
<1> QED
  BY <1>1, <1>2, <1>3, Three

\* A list of parts, each resolved when one of a list of things stands.
LEMMA EachResolved ==
  ASSUME NEW seq, Listed(seq), NEW parts, NEW Fine,
         parts = [i \in DOMAIN seq |-> parts[i]],
         \A i \in DOMAIN seq : parts[i] \in Findings /\ (Resolved(parts[i]) <=> seq[i] \in Fine)
  PROVE  /\ FlattenSeq(parts) \in Findings
         /\ Resolved(FlattenSeq(parts)) <=> \A x \in Range(seq) : x \in Fine
         /\ Faultless(FlattenSeq(parts)) <=> \A i \in DOMAIN seq : Faultless(parts[i])
<1>1. Len(seq) \in Nat /\ DOMAIN seq = 1 .. Len(seq)
  BY DEF Listed
<1>2. /\ DOMAIN parts = 1 .. Len(seq) /\ parts = [i \in 1 .. Len(seq) |-> parts[i]]
      /\ \A i \in 1 .. Len(seq) : parts[i] \in Findings
  BY <1>1
<1>3. /\ FlattenSeq(parts) \in Findings
      /\ \A kind : Free(FlattenSeq(parts), kind) <=> \A i \in 1 .. Len(seq) : Free(parts[i], kind)
  BY <1>1, <1>2, Flattened
<1>4. /\ Resolved(FlattenSeq(parts)) <=> \A i \in DOMAIN seq : Resolved(parts[i])
      /\ Faultless(FlattenSeq(parts)) <=> \A i \in DOMAIN seq : Faultless(parts[i])
  BY <1>1, <1>3 DEF Resolved, Faultless
<1>5. (\A x \in Range(seq) : x \in Fine) <=> \A i \in DOMAIN seq : seq[i] \in Fine
  BY DEF Range
<1> QED
  BY <1>3, <1>4, <1>5

LEMMA GroupChecked ==
  ASSUME NEW scn, Signalled(scn), Listed(scn.elements), NEW group, Listed(group),
         \A c \in Range(group) : c.expression # None => TypedCondition(c.expression)
  PROVE  /\ OfGroup(scn, group) \in Findings
         /\ Resolved(OfGroup(scn, group)) <=>
              \A c \in Range(group) : ConditionIsStanding(scn, c)
<1>1. CASE group = <<>>
  <2>1. Range(group) = {}
    BY <1>1 DEF Range
  <2> QED
    BY <1>1, <2>1, Parts DEF OfGroup, Status
<1>2. CASE group # <<>>
  <2> DEFINE parts == [i \in DOMAIN group |-> OfCondition(scn, group[i])]
             Fine == {c \in Range(group) : ConditionIsStanding(scn, c)}
  <2>1. \A i \in DOMAIN group : group[i] \in Range(group)
    BY DEF Range
  <2>2. \A i \in DOMAIN group :
          parts[i] \in Findings /\ (Resolved(parts[i]) <=> group[i] \in Fine)
    BY <2>1, ConditionChecked
  <2>3. parts = [i \in DOMAIN group |-> parts[i]]
    OBVIOUS
  <2>4. OfGroup(scn, group) = FlattenSeq(parts)
    BY <1>2 DEF OfGroup
  <2>5. (\A c \in Range(group) : c \in Fine) <=> \A c \in Range(group) : ConditionIsStanding(scn, c)
    OBVIOUS
  <2> HIDE DEF parts, Fine
  <2> QED
    BY <2>2, <2>3, <2>4, <2>5, EachResolved
<1> QED
  BY <1>1, <1>2

\* Every condition of a trigger refers to what is there.
TriggerStands(scn, trigger) ==
  \A group \in Range(trigger) : \A c \in Range(group) : ConditionIsStanding(scn, c)

LEMMA TriggerChecked ==
  ASSUME NEW scn, Signalled(scn), Listed(scn.elements), NEW trigger, Listed(trigger),
         \A group \in Range(trigger) : Listed(group),
         \A group \in Range(trigger) : \A c \in Range(group) :
           c.expression # None => TypedCondition(c.expression)
  PROVE  /\ validate_trigger(scn, trigger) \in Findings
         /\ Resolved(validate_trigger(scn, trigger)) <=> TriggerStands(scn, trigger)
<1> DEFINE parts == [i \in DOMAIN trigger |-> OfGroup(scn, trigger[i])]
           Fine == {group \in Range(trigger) : \A c \in Range(group) : ConditionIsStanding(scn, c)}
<1>1. \A i \in DOMAIN trigger : trigger[i] \in Range(trigger)
  BY DEF Range
<1>2. \A i \in DOMAIN trigger :
        parts[i] \in Findings /\ (Resolved(parts[i]) <=> trigger[i] \in Fine)
  BY <1>1, GroupChecked
<1>3. parts = [i \in DOMAIN trigger |-> parts[i]]
  OBVIOUS
<1>4. validate_trigger(scn, trigger) = FlattenSeq(parts)
  BY DEF validate_trigger, EachOf, OfGroup, OfCondition
<1>5. (\A group \in Range(trigger) : group \in Fine) <=> TriggerStands(scn, trigger)
  BY DEF TriggerStands
<1> HIDE DEF parts, Fine
<1> QED
  BY <1>2, <1>3, <1>4, <1>5, EachResolved

---------------------------------------------------------------------------
(* Elements, controllers and entities.                                         *)

\* The names of the children of an element are there and apart.
SiblingsApart(scn, n) ==
  \A m \in Children(scn, n) :
    /\ scn.elements[m].name # None
    /\ \A k \in Children(scn, n) : k < m => scn.elements[k].name # scn.elements[m].name

OfSibling(scn, n, m) ==
  When(/\ m \in Children(scn, n)
       /\ \/ scn.elements[m].name = None
          \/ \E k \in Children(scn, n) :
               k < m /\ scn.elements[k].name = scn.elements[m].name,
       Error("ValidationError"))

LEMMA SiblingsChecked ==
  ASSUME NEW scn, Listed(scn.elements), NEW n
  PROVE  /\ check_sibling_names(scn, n) \in Findings /\ Resolved(check_sibling_names(scn, n))
         /\ Faultless(check_sibling_names(scn, n)) => SiblingsApart(scn, n)
<1> DEFINE places == [m \in DOMAIN scn.elements |-> m]
           parts == [i \in DOMAIN places |-> OfSibling(scn, n, places[i])]
           many == Len(scn.elements)
<1>1. many \in Nat /\ DOMAIN scn.elements = 1 .. many
  BY DEF Listed
<1>2. /\ DOMAIN parts = 1 .. many /\ parts = [i \in 1 .. many |-> parts[i]]
      /\ \A m \in 1 .. many : parts[m] = OfSibling(scn, n, m)
  BY <1>1
<1>3. check_sibling_names(scn, n) = FlattenSeq(parts)
  BY DEF check_sibling_names, EachOf, OfSibling
<1> HIDE DEF parts, many
<1>4. ASSUME NEW m \in 1 .. many
      PROVE  /\ OfSibling(scn, n, m) \in Findings /\ Resolved(OfSibling(scn, n, m))
             /\ Faultless(OfSibling(scn, n, m)) =>
                  (m \in Children(scn, n) =>
                     /\ scn.elements[m].name # None
                     /\ \A k \in Children(scn, n) : k < m => scn.elements[k].name # scn.elements[m].name)
  BY Parts, ErrorFound DEF OfSibling, When, Status
<1>5. \A m \in 1 .. many : parts[m] \in Findings /\ Resolved(parts[m])
  BY <1>2, <1>4
<1>6. /\ FlattenSeq(parts) \in Findings
      /\ \A kind : Free(FlattenSeq(parts), kind) <=> \A m \in 1 .. many : Free(parts[m], kind)
  BY <1>1, <1>2, <1>5, Flattened
<1>7. Resolved(FlattenSeq(parts))
      /\ (Faultless(FlattenSeq(parts)) => \A m \in 1 .. many : Faultless(parts[m]))
  BY <1>5, <1>6 DEF Faultless, Resolved
<1>8. Children(scn, n) \subseteq 1 .. many
  BY <1>1 DEF Children
<1> QED
  BY <1>2, <1>3, <1>4, <1>6, <1>7, <1>8 DEF SiblingsApart

\* What an element refers to, itself or in its triggers and actions, is there.
ElementRefers(scn, n) ==
  /\ Range(scn.elements[n].actors) \subseteq ids(scn)
  /\ \A trigger \in Range(scn.elements[n].triggers) : TriggerStands(scn, trigger)
  /\ \A a \in Range(scn.elements[n].actions) : ActionStands(scn, a)

LEMMA TriggersChecked ==
  ASSUME NEW scn, Formed(scn), NEW n \in DOMAIN scn.elements
  PROVE  LET triggers == scn.elements[n].triggers
             found == FlattenSeq([i \in DOMAIN triggers |-> validate_trigger(scn, triggers[i])])
         IN /\ found \in Findings
            /\ Resolved(found) <=> \A trigger \in Range(triggers) : TriggerStands(scn, trigger)
<1> DEFINE triggers == scn.elements[n].triggers
           parts == [i \in DOMAIN triggers |-> validate_trigger(scn, triggers[i])]
           Fine == {trigger \in Range(triggers) : TriggerStands(scn, trigger)}
<1>1. scn.elements[n] \in Range(scn.elements)
  BY DEF Range
<1>2. /\ Listed(triggers)
      /\ \A trigger \in Range(triggers) :
           Listed(trigger) /\ \A group \in Range(trigger) : Listed(group)
  BY DEF Formed, TypedElement
<1>3. \A trigger \in Range(triggers) : \A group \in Range(trigger) : \A c \in Range(group) :
        c.expression # None => TypedCondition(c.expression)
  BY <1>1 DEF Formed, AllConditions
<1>4. Signalled(scn) /\ Listed(scn.elements)
  BY DEF Formed, Signalled
<1>5. \A i \in DOMAIN triggers : triggers[i] \in Range(triggers)
  BY DEF Range
<1>6. /\ parts = [i \in DOMAIN triggers |-> parts[i]]
      /\ \A i \in DOMAIN triggers : parts[i] = validate_trigger(scn, triggers[i])
  OBVIOUS
<1> HIDE DEF parts, triggers
<1>7. \A i \in DOMAIN triggers :
        parts[i] \in Findings /\ (Resolved(parts[i]) <=> triggers[i] \in Fine)
  BY <1>2, <1>3, <1>4, <1>5, <1>6, TriggerChecked
<1>8. /\ FlattenSeq(parts) \in Findings
      /\ Resolved(FlattenSeq(parts)) <=> \A trigger \in Range(triggers) : trigger \in Fine
  <2> HIDE DEF Fine
  <2> QED
    BY <1>2, <1>6, <1>7, EachResolved
<1>9. Resolved(FlattenSeq(parts)) <=> \A trigger \in Range(triggers) : TriggerStands(scn, trigger)
  BY <1>8
<1> USE DEF parts, triggers
<1> QED
  BY <1>8, <1>9

LEMMA ActorsChecked ==
  ASSUME NEW scn, NEW actors, Listed(actors)
  PROVE  LET found == FlattenSeq([i \in DOMAIN actors |->
                        When(unknown(scn, {actors[i]}), Error("SemanticError"))])
         IN found \in Findings /\ (Resolved(found) <=> Range(actors) \subseteq ids(scn))
<1> DEFINE parts == [i \in DOMAIN actors |->
                       When(unknown(scn, {actors[i]}), Error("SemanticError"))]
           Fine == ids(scn)
<1>1. /\ parts = [i \in DOMAIN actors |-> parts[i]]
      /\ \A i \in DOMAIN actors :
           parts[i] = When(unknown(scn, {actors[i]}), Error("SemanticError"))
  OBVIOUS
<1> HIDE DEF parts
<1>2. \A i \in DOMAIN actors :
        parts[i] \in Findings /\ (Resolved(parts[i]) <=> actors[i] \in Fine)
  BY <1>1, Parts DEF When, Status, unknown
<1> HIDE DEF Fine
<1>3. /\ FlattenSeq(parts) \in Findings
      /\ Resolved(FlattenSeq(parts)) <=> \A who \in Range(actors) : who \in Fine
  BY <1>1, <1>2, EachResolved
<1> USE DEF parts, Fine
<1> QED
  BY <1>3

LEMMA ActionsChecked ==
  ASSUME NEW scn, Signalled(scn), NEW actions, Listed(actions),
         \A a \in Range(actions) : a # None => TypedAction(a)
  PROVE  LET found == FlattenSeq([i \in DOMAIN actions |-> validate_action(scn, actions[i])])
         IN /\ found \in Findings
            /\ Resolved(found) <=> \A a \in Range(actions) : ActionStands(scn, a)
            /\ Faultless(found) => None \notin Range(actions)
<1> DEFINE parts == [i \in DOMAIN actions |-> validate_action(scn, actions[i])]
           Fine == {a \in Range(actions) : ActionStands(scn, a)}
<1>1. \A i \in DOMAIN actions : actions[i] \in Range(actions)
  BY DEF Range
<1>2. /\ parts = [i \in DOMAIN actions |-> parts[i]]
      /\ \A i \in DOMAIN actions : parts[i] = validate_action(scn, actions[i])
  OBVIOUS
<1> HIDE DEF parts
<1>3. \A i \in DOMAIN actions :
        /\ parts[i] \in Findings /\ (Resolved(parts[i]) <=> actions[i] \in Fine)
        /\ Faultless(parts[i]) => actions[i] # None
  BY <1>1, <1>2, ActionChecked
<1>4. /\ FlattenSeq(parts) \in Findings
      /\ Resolved(FlattenSeq(parts)) <=> \A a \in Range(actions) : a \in Fine
      /\ Faultless(FlattenSeq(parts)) <=> \A i \in DOMAIN actions : Faultless(parts[i])
  <2> HIDE DEF Fine
  <2> QED
    BY <1>2, <1>3, EachResolved
<1>5. Resolved(FlattenSeq(parts)) <=> \A a \in Range(actions) : ActionStands(scn, a)
  BY <1>4
<1>6. Faultless(FlattenSeq(parts)) => None \notin Range(actions)
  BY <1>3, <1>4 DEF Range
<1> USE DEF parts
<1> QED
  BY <1>4, <1>5, <1>6

LEMMA StoryElementChecked ==
  ASSUME NEW scn, Formed(scn), NEW n \in DOMAIN scn.elements
  PROVE  /\ validate_element(scn, n) \in Findings
         /\ Resolved(validate_element(scn, n)) <=> ElementRefers(scn, n)
         /\ Faultless(validate_element(scn, n)) =>
              SiblingsApart(scn, n) /\ None \notin Range(scn.elements[n].actions)
<1> DEFINE element == scn.elements[n]
           w1 == check_sibling_names(scn, n)
           w2 == FlattenSeq([i \in DOMAIN element.triggers |->
                              validate_trigger(scn, element.triggers[i])])
           w3 == When(element.count < 0, Error("ValidationError"))
           w4 == FlattenSeq([i \in DOMAIN element.actors |->
                   When(unknown(scn, {element.actors[i]}), Error("SemanticError"))])
           empty == When(element.actions = <<>>, Error("ValidationError"))
           done == FlattenSeq([i \in DOMAIN element.actions |->
                                validate_action(scn, element.actions[i])])
           w5 == IF element.type # "event" THEN <<>> ELSE empty \o done
<1>1. /\ Listed(scn.elements) /\ Signalled(scn) /\ TypedElement(scn, n)
      /\ element \in Range(scn.elements)
  BY DEF Formed, Signalled, Range
<1>2. Listed(element.actors) /\ Listed(element.actions)
      /\ (element.type # "event" => element.actions = <<>>)
  BY <1>1 DEF TypedElement
<1>3. \A a \in Range(element.actions) : a # None => TypedAction(a)
  BY <1>1 DEF Formed, AllActions
<1>4. w1 \in Findings /\ Resolved(w1) /\ (Faultless(w1) => SiblingsApart(scn, n))
  BY <1>1, SiblingsChecked
<1>5. /\ w2 \in Findings
      /\ Resolved(w2) <=> \A trigger \in Range(element.triggers) : TriggerStands(scn, trigger)
  BY TriggersChecked
<1>6. w3 \in Findings /\ empty \in Findings /\ Resolved(w3) /\ Resolved(empty)
  BY Parts DEF When, Status
<1>7. w4 \in Findings /\ (Resolved(w4) <=> Range(element.actors) \subseteq ids(scn))
  BY <1>2, ActorsChecked
<1>8. /\ done \in Findings
      /\ Resolved(done) <=> \A a \in Range(element.actions) : ActionStands(scn, a)
      /\ Faultless(done) => None \notin Range(element.actions)
  BY <1>1, <1>2, <1>3, ActionsChecked
<1>9. validate_element(scn, n) = (((w1 \o w2) \o w3) \o w4) \o w5
  BY DEF validate_element, EachOf
<1> HIDE DEF w1, w2, w3, w4, empty, done
<1>10. /\ w5 \in Findings
       /\ Resolved(w5) <=> \A a \in Range(element.actions) : ActionStands(scn, a)
       /\ Faultless(w5) => None \notin Range(element.actions)
  <2>1. CASE element.type # "event"
    <3>1. Range(element.actions) = {}
      BY <1>2, <2>1 DEF Range
    <3> QED
      BY <2>1, <3>1, Parts
  <2>2. CASE element.type = "event"
    <3>1. w5 = empty \o done
      BY <2>2
    <3> HIDE DEF w5
    <3> QED
      BY <1>6, <1>8, <3>1, Two
  <2> QED
    BY <2>1, <2>2
<1> DEFINE four == ((w1 \o w2) \o w3) \o w4
<1>11. /\ four \in Findings
       /\ Resolved(four) <=> Resolved(w2) /\ Resolved(w4)
       /\ Faultless(four) => Faultless(w1)
  BY <1>4, <1>5, <1>6, <1>7, Four
<1> HIDE DEF four, w5
<1>12. validate_element(scn, n) = four \o w5
  BY <1>9 DEF four
<1>13. /\ validate_element(scn, n) \in Findings
       /\ Resolved(validate_element(scn, n)) <=> Resolved(four) /\ Resolved(w5)
       /\ Faultless(validate_element(scn, n)) => Faultless(four) /\ Faultless(w5)
  BY <1>10, <1>11, <1>12, Two
<1> QED
  BY <1>4, <1>5, <1>7, <1>10, <1>11, <1>13 DEF ElementRefers

LEMMA StoryboardChecked ==
  ASSUME NEW scn, Formed(scn)
  PROVE  /\ validate_storyboard(scn) \in Findings
         /\ Resolved(validate_storyboard(scn)) <=>
              \A n \in DOMAIN scn.elements : ElementRefers(scn, n)
         /\ Faultless(validate_storyboard(scn)) =>
              \A n \in DOMAIN scn.elements :
                SiblingsApart(scn, n) /\ None \notin Range(scn.elements[n].actions)
<1> DEFINE places == [n \in DOMAIN scn.elements |-> n]
           parts == [i \in DOMAIN places |-> validate_element(scn, places[i])]
           many == Len(scn.elements)
<1>1. many \in Nat /\ DOMAIN scn.elements = 1 .. many
  BY DEF Formed, Listed
<1>2. /\ DOMAIN parts = 1 .. many /\ parts = [i \in 1 .. many |-> parts[i]]
      /\ \A n \in 1 .. many : parts[n] = validate_element(scn, n)
  BY <1>1
<1>3. validate_storyboard(scn) = FlattenSeq(parts)
  BY DEF validate_storyboard, EachOf
<1> HIDE DEF parts, many
<1>4. \A n \in 1 .. many :
        /\ parts[n] \in Findings /\ (Resolved(parts[n]) <=> ElementRefers(scn, n))
        /\ Faultless(parts[n]) =>
             SiblingsApart(scn, n) /\ None \notin Range(scn.elements[n].actions)
  BY <1>1, <1>2, StoryElementChecked
<1>5. /\ FlattenSeq(parts) \in Findings
      /\ \A kind : Free(FlattenSeq(parts), kind) <=> \A n \in 1 .. many : Free(parts[n], kind)
  BY <1>1, <1>2, <1>4, Flattened
<1>6. /\ Resolved(FlattenSeq(parts)) <=> \A n \in 1 .. many : Resolved(parts[n])
      /\ Faultless(FlattenSeq(parts)) <=> \A n \in 1 .. many : Faultless(parts[n])
  BY <1>5 DEF Faultless, Resolved
<1> QED
  BY <1>1, <1>3, <1>4, <1>5, <1>6

LEMMA NamedApart ==
  ASSUME NEW names, NEW i
  PROVE  /\ named_apart(names, i) \in Findings /\ Resolved(named_apart(names, i))
         /\ Faultless(named_apart(names, i)) =>
              names[i] # None /\ \A j \in 1 .. i - 1 : names[j] # names[i]
BY Parts DEF named_apart, When, Status

LEMMA PhasesChecked ==
  ASSUME NEW phases, Listed(phases)
  PROVE  validate_phases(phases) \in Findings /\ Resolved(validate_phases(phases))
<1> DEFINE apart(i) == named_apart([j \in DOMAIN phases |-> phases[j].name], i)
           short(i) == When(phases[i].duration < 0, Error("ValidationError"))
           blank(i) == When(None \in DOMAIN phases[i].states, Error("ValidationError"))
           parts == [i \in DOMAIN phases |-> (apart(i) \o short(i)) \o blank(i)]
           Fine == Range(phases)
<1>1. \A i : apart(i) \in Findings /\ Resolved(apart(i))
  BY NamedApart
<1>2. \A i : short(i) \in Findings /\ Resolved(short(i))
  BY Parts DEF When, Status
<1>3. \A i : blank(i) \in Findings /\ Resolved(blank(i))
  BY Parts DEF When, Status
<1>4. validate_phases(phases) = FlattenSeq(parts)
  BY DEF validate_phases
<1> HIDE DEF apart, short, blank
<1>5. \A i \in DOMAIN phases :
        parts[i] \in Findings /\ (Resolved(parts[i]) <=> phases[i] \in Fine)
  BY <1>1, <1>2, <1>3, Three DEF Range
<1>6. parts = [i \in DOMAIN phases |-> parts[i]] /\ \A p \in Range(phases) : p \in Fine
  OBVIOUS
<1> HIDE DEF parts, Fine
<1> QED
  BY <1>4, <1>5, <1>6, EachResolved

LEMMA EntitiesChecked ==
  ASSUME NEW entities, Listed(entities)
  PROVE  validate_entities(entities) \in Findings /\ Resolved(validate_entities(entities))
<1> DEFINE repeated(i) == \E j \in 1 .. i - 1 : entities[j].id = entities[i].id
           box(i) == When(entities[i].object # None /\ entities[i].box = "ill", Error("ValidationError"))
           limits(i) == When(entities[i].object = "vehicle" /\ entities[i].limits = "ill",
                             Error("ValidationError"))
           part(i) == IF entities[i].id = None \/ repeated(i) THEN <<Error("ValidationError")>>
                      ELSE box(i) \o limits(i)
           parts == [i \in DOMAIN entities |-> part(i)]
           Fine == Range(entities)
<1>1. \A i : box(i) \in Findings /\ Resolved(box(i))
  BY Parts DEF When, Status
<1>2. \A i : limits(i) \in Findings /\ Resolved(limits(i))
  BY Parts DEF When, Status
<1>3. <<Error("ValidationError")>> \in Findings /\ Resolved(<<Error("ValidationError")>>)
  BY Parts DEF Status
<1>4. validate_entities(entities) = FlattenSeq(parts)
  BY DEF validate_entities
<1> HIDE DEF box, limits, repeated
<1>5. \A i : box(i) \o limits(i) \in Findings /\ Resolved(box(i) \o limits(i))
  BY <1>1, <1>2, Two
<1>6. \A i : part(i) \in Findings /\ Resolved(part(i))
  BY <1>3, <1>5
<1> HIDE DEF part
<1>7. \A i \in DOMAIN entities :
        parts[i] \in Findings /\ (Resolved(parts[i]) <=> entities[i] \in Fine)
  BY <1>6 DEF Range
<1>8. parts = [i \in DOMAIN entities |-> parts[i]] /\ \A e \in Range(entities) : e \in Fine
  OBVIOUS
<1> HIDE DEF parts, Fine
<1> QED
  BY <1>4, <1>7, <1>8, EachResolved

\* A controller that refers to another refers to one that is there.
ControllerRefers(controllers, i) ==
  controllers[i].reference # None => controller_at(controllers, controllers[i].reference) # {}

\* A controller has a name of its own, and follows another on no ring.
ControllerStands(controllers, i) ==
  LET c == controllers[i]
  IN /\ c.name # None /\ \A j \in 1 .. i - 1 : controllers[j].name # c.name
     /\ c.reference # None =>
          /\ c.reference # c.name /\ controller_at(controllers, c.reference) # {}
          /\ ~ reference_cyclic(controllers, i)

LEMMA SignalsChecked ==
  ASSUME NEW controllers, Listed(controllers),
         \A c \in Range(controllers) : Listed(c.phases)
  PROVE  /\ validate_traffic_signals(controllers) \in Findings
         /\ Resolved(validate_traffic_signals(controllers)) <=>
              \A i \in DOMAIN controllers : ControllerRefers(controllers, i)
         /\ Faultless(validate_traffic_signals(controllers)) =>
              \A i \in DOMAIN controllers : ControllerStands(controllers, i)
<1> DEFINE c(i) == controllers[i]
           names == [j \in DOMAIN controllers |-> controllers[j].name]
           length(i) == FoldLeft(LAMBDA sum, p : IF p.duration > 0 THEN sum + p.duration ELSE sum,
                                 0, c(i).phases)
           w2(i) == When(c(i).delay # None /\ c(i).reference = None, Error("ValidationError"))
           w3(i) == When(c(i).delay = -1, Error("ValidationError"))
           w4(i) == IF c(i).reference = None THEN <<>>
                    ELSE IF c(i).reference = c(i).name THEN <<Error("ValidationError")>>
                    ELSE IF controller_at(controllers, c(i).reference) = {}
                         THEN <<Error("SemanticError")>>
                    ELSE When(reference_cyclic(controllers, i), Error("ValidationError"))
           w6(i) == When(c(i).phases # <<>> /\ length(i) = 0, Warning("UnsupportedFeature"))
           part(i) == ((((named_apart(names, i) \o w2(i)) \o w3(i)) \o w4(i))
                       \o validate_phases(c(i).phases)) \o w6(i)
           parts == [i \in DOMAIN controllers |-> part(i)]
<1>1. Len(controllers) \in Nat /\ DOMAIN controllers = 1 .. Len(controllers)
  BY DEF Listed
<1>2. validate_traffic_signals(controllers) = FlattenSeq(parts)
  BY DEF validate_traffic_signals
<1>3. ASSUME NEW i \in 1 .. Len(controllers)
      PROVE  /\ part(i) \in Findings /\ (Resolved(part(i)) <=> ControllerRefers(controllers, i))
             /\ Faultless(part(i)) => ControllerStands(controllers, i)
  <2>1. /\ named_apart(names, i) \in Findings /\ Resolved(named_apart(names, i))
        /\ Faultless(named_apart(names, i)) =>
             names[i] # None /\ \A j \in 1 .. i - 1 : names[j] # names[i]
    BY NamedApart
  <2>2. \A j \in 1 .. i : names[j] = controllers[j].name
    BY <1>1
  <2>3. w2(i) \in Findings /\ w3(i) \in Findings /\ Resolved(w2(i)) /\ Resolved(w3(i))
    BY Parts DEF When, Status
  <2>4. w6(i) \in Findings /\ Resolved(w6(i))
    <3> HIDE DEF length
    <3> QED
      BY Parts DEF When, Status
  <2>5. /\ w4(i) \in Findings
        /\ Faultless(w4(i)) => (c(i).reference # None =>
             /\ c(i).reference # c(i).name /\ controller_at(controllers, c(i).reference) # {}
             /\ ~ reference_cyclic(controllers, i))
    BY Parts DEF When, Status
  <2>6. Resolved(w4(i)) <=> ControllerRefers(controllers, i)
    <3>1. CASE c(i).reference = None
      BY <3>1, Parts DEF ControllerRefers
    <3>2. CASE c(i).reference # None /\ c(i).reference = c(i).name
      <4>1. i \in controller_at(controllers, c(i).reference)
        BY <1>1, <3>2 DEF controller_at
      <4> QED
        BY <3>2, <4>1, Parts DEF ControllerRefers, Status
    <3>3. CASE c(i).reference # None /\ c(i).reference # c(i).name
      BY <3>3, Parts DEF ControllerRefers, When, Status
    <3> QED
      BY <3>1, <3>2, <3>3
  <2>7. validate_phases(c(i).phases) \in Findings /\ Resolved(validate_phases(c(i).phases))
    BY <1>1, PhasesChecked DEF Range
  <2> DEFINE four == ((named_apart(names, i) \o w2(i)) \o w3(i)) \o w4(i)
  <2> HIDE DEF names, w2, w3, w4, w6
  <2>8. /\ four \in Findings /\ (Resolved(four) <=> Resolved(w4(i)))
        /\ Faultless(four) => Faultless(named_apart(names, i)) /\ Faultless(w4(i))
    BY <2>1, <2>3, <2>5, Four
  <2>9. part(i) = (four \o validate_phases(c(i).phases)) \o w6(i)
    OBVIOUS
  <2> HIDE DEF four, part
  <2>10. /\ part(i) \in Findings /\ (Resolved(part(i)) <=> Resolved(four))
         /\ Faultless(part(i)) => Faultless(four)
    BY <2>4, <2>7, <2>8, <2>9, Three
  <2>11. (\A j \in 1 .. i - 1 : j \in 1 .. i) /\ i \in 1 .. i
    OBVIOUS
  <2>12. Faultless(part(i)) => ControllerStands(controllers, i)
    BY <2>1, <2>2, <2>5, <2>8, <2>10, <2>11 DEF ControllerStands
  <2> QED
    BY <2>6, <2>8, <2>10, <2>12
<1> HIDE DEF part
<1>4. /\ DOMAIN parts = 1 .. Len(controllers) /\ parts = [i \in 1 .. Len(controllers) |-> parts[i]]
      /\ \A i \in 1 .. Len(controllers) : parts[i] = part(i)
  BY <1>1
<1> HIDE DEF parts
<1>5. \A i \in 1 .. Len(controllers) :
        /\ parts[i] \in Findings /\ (Resolved(parts[i]) <=> ControllerRefers(controllers, i))
        /\ Faultless(parts[i]) => ControllerStands(controllers, i)
  BY <1>3, <1>4
<1>6. /\ FlattenSeq(parts) \in Findings
      /\ \A kind : Free(FlattenSeq(parts), kind)
                     <=> \A i \in 1 .. Len(controllers) : Free(parts[i], kind)
  BY <1>1, <1>4, <1>5, Flattened
<1>7. /\ Resolved(FlattenSeq(parts)) <=> \A i \in 1 .. Len(controllers) : Resolved(parts[i])
      /\ Faultless(FlattenSeq(parts)) <=> \A i \in 1 .. Len(controllers) : Faultless(parts[i])
  BY <1>6 DEF Faultless, Resolved
<1> QED
  BY <1>1, <1>2, <1>5, <1>6, <1>7

---------------------------------------------------------------------------
(* The scenario: what the checks found, and what a scenario without faults is.  *)

\* What a scenario refers to is there, part by part.
Refers(scn) ==
  /\ \A a \in Range(scn.init) : ActionStands(scn, a)
  /\ \A i \in DOMAIN scn.controllers : ControllerRefers(scn.controllers, i)
  /\ \A n \in DOMAIN scn.elements : ElementRefers(scn, n)

\* What a scenario without faults has beside.
Stands(scn) ==
  /\ None \notin Range(scn.init)
  /\ \A i \in DOMAIN scn.controllers : ControllerStands(scn.controllers, i)
  /\ \A n \in DOMAIN scn.elements :
       SiblingsApart(scn, n) /\ None \notin Range(scn.elements[n].actions)

LEMMA ScenarioChecked ==
  ASSUME NEW scn, Formed(scn)
  PROVE  /\ findings(scn) \in Findings
         /\ Resolved(findings(scn)) <=> Refers(scn)
         /\ Faultless(findings(scn)) => Stands(scn)
<1> DEFINE w1 == validate_entities(scn.entities)
           w2 == FlattenSeq([i \in DOMAIN scn.init |-> validate_action(scn, scn.init[i])])
           w3 == validate_traffic_signals(scn.controllers)
           w4 == validate_storyboard(scn)
<1>1. Signalled(scn) /\ Listed(scn.init) /\ Listed(scn.entities)
  BY DEF Formed, Signalled
<1>2. \A a \in Range(scn.init) : a # None => TypedAction(a)
  BY DEF Formed, AllActions
<1>3. w1 \in Findings /\ Resolved(w1)
  BY <1>1, EntitiesChecked
<1>4. /\ w2 \in Findings /\ (Resolved(w2) <=> \A a \in Range(scn.init) : ActionStands(scn, a))
      /\ Faultless(w2) => None \notin Range(scn.init)
  BY <1>1, <1>2, ActionsChecked
<1>5. /\ w3 \in Findings
      /\ Resolved(w3) <=> \A i \in DOMAIN scn.controllers : ControllerRefers(scn.controllers, i)
      /\ Faultless(w3) => \A i \in DOMAIN scn.controllers : ControllerStands(scn.controllers, i)
  BY <1>1, SignalsChecked DEF Signalled
<1>6. /\ w4 \in Findings
      /\ Resolved(w4) <=> \A n \in DOMAIN scn.elements : ElementRefers(scn, n)
      /\ Faultless(w4) => \A n \in DOMAIN scn.elements :
                            SiblingsApart(scn, n) /\ None \notin Range(scn.elements[n].actions)
  BY StoryboardChecked
<1>7. findings(scn) = ((w1 \o w2) \o w3) \o w4
  BY DEF findings, EachOf
<1> HIDE DEF w1, w2, w3, w4
<1>8. /\ findings(scn) \in Findings
      /\ Resolved(findings(scn)) <=> Resolved(w2) /\ Resolved(w3) /\ Resolved(w4)
      /\ Faultless(findings(scn)) => Faultless(w2) /\ Faultless(w3) /\ Faultless(w4)
  BY <1>3, <1>4, <1>5, <1>6, <1>7, Four
<1> QED
  BY <1>4, <1>5, <1>6, <1>8 DEF Stands, Refers

\* The references of the parts are those of the scenario.
LEMMA AllReferencesResolve ==
  ASSUME NEW scn, Formed(scn)
  PROVE  Refers(scn) <=> Resolves(scn)
<1> DEFINE Acts(a) == Entities(a) \subseteq ids(scn) /\ NamesValue(scn, a) /\ NamesPhase(scn, a)
           Controlled == {c.reference : c \in Range(scn.controllers)} \ {None}
                           \subseteq {c.name : c \in Range(scn.controllers)}
<1>1. ASSUME NEW a \in AllActions(scn) \ {None}
      PROVE  ActionStands(scn, a) <=> Acts(a)
  <2> DEFINE beside == IF a.kind \in Keeping THEN {a.ref} ELSE Fields(a, {"ref"})
  <2>0. "ref" \in DOMAIN a <=> a.kind \in Referring
    BY DEF Formed, TypedAction
  <2>1. Fields(a, {"ref"}) = IF "ref" \in DOMAIN a THEN {a.ref} \ {None} ELSE {}
    BY DEF Fields
  <2>2. beside \subseteq ids(scn) <=> ("ref" \in DOMAIN a => Related(scn, a))
    BY <2>0, <2>1 DEF Related, Referring
  <2>3. Entities(a) \subseteq ids(scn)
           <=> /\ (Private(a) \/ a.kind \in {"add", "delete"}) => a.who \in ids(scn)
               /\ beside \subseteq ids(scn)
               /\ Moves(a) => a.position.ref \in ids(scn)
    BY DEF Entities
  <2>4. ActionStands(scn, a) <=> Grounded(scn, a) /\ (Private(a) => a.who \in ids(scn))
    BY DEF ActionStands
  <2> QED
    BY <2>2, <2>3, <2>4 DEF Grounded
<1>2. (\A a \in AllActions(scn) : ActionStands(scn, a))
        <=> \A a \in AllActions(scn) \ {None} : Acts(a)
  BY <1>1 DEF ActionStands
<1>3. (\A a \in AllActions(scn) : ActionStands(scn, a)) <=>
        /\ \A a \in Range(scn.init) : ActionStands(scn, a)
        /\ \A n \in DOMAIN scn.elements :
             \A a \in Range(scn.elements[n].actions) : ActionStands(scn, a)
  BY DEF AllActions, Range
<1>4. Actors(scn) \subseteq ids(scn)
        <=> \A n \in DOMAIN scn.elements : Range(scn.elements[n].actors) \subseteq ids(scn)
  BY DEF Actors, Range
<1>5. (\A c \in AllConditions(scn) : ConditionStands(scn, c)) <=>
        \A n \in DOMAIN scn.elements : \A trigger \in Range(scn.elements[n].triggers) :
          TriggerStands(scn, trigger)
  <2>1. ASSUME \A c \in AllConditions(scn) : ConditionStands(scn, c),
               NEW n \in DOMAIN scn.elements, NEW trigger \in Range(scn.elements[n].triggers),
               NEW group \in Range(trigger), NEW c \in Range(group), c.expression # None
        PROVE  ConditionStands(scn, c.expression)
    <3>1. scn.elements[n] \in Range(scn.elements)
      BY DEF Range
    <3>2. c.expression \in AllConditions(scn)
      BY <2>1, <3>1 DEF AllConditions
    <3> QED
      BY <2>1, <3>2
  <2>2. ASSUME \A n \in DOMAIN scn.elements : \A trigger \in Range(scn.elements[n].triggers) :
                 TriggerStands(scn, trigger),
               NEW c \in AllConditions(scn)
        PROVE  ConditionStands(scn, c)
    <3>1. PICK element \in Range(scn.elements) : \E trigger \in Range(element.triggers) :
            \E group \in Range(trigger) : \E h \in Range(group) : c = h.expression /\ c # None
      BY DEF AllConditions
    <3>2. \E n \in DOMAIN scn.elements : element = scn.elements[n]
      BY DEF Range
    <3> QED
      BY <2>2, <3>1, <3>2 DEF TriggerStands, ConditionIsStanding
  <2> QED
    BY <2>1, <2>2 DEF TriggerStands, ConditionIsStanding
<1>6. Controlled <=> \A i \in DOMAIN scn.controllers : ControllerRefers(scn.controllers, i)
  <2>1. \A i \in DOMAIN scn.controllers :
          ControllerRefers(scn.controllers, i) <=>
            (scn.controllers[i].reference # None =>
               \E j \in DOMAIN scn.controllers : scn.controllers[j].name = scn.controllers[i].reference)
    BY DEF ControllerRefers, controller_at
  <2>2. Controlled <=>
          \A i \in DOMAIN scn.controllers : scn.controllers[i].reference # None =>
            \E j \in DOMAIN scn.controllers : scn.controllers[j].name = scn.controllers[i].reference
    BY DEF Range
  <2> QED
    BY <2>1, <2>2
<1>7. Refers(scn) <=>
        /\ \A a \in AllActions(scn) : ActionStands(scn, a)
        /\ \A i \in DOMAIN scn.controllers : ControllerRefers(scn.controllers, i)
        /\ Actors(scn) \subseteq ids(scn)
        /\ \A c \in AllConditions(scn) : ConditionStands(scn, c)
  BY <1>3, <1>4, <1>5 DEF Refers, ElementRefers
<1>8. Resolves(scn) <=>
        /\ Actors(scn) \subseteq ids(scn)
        /\ \A a \in AllActions(scn) \ {None} : Acts(a)
        /\ \A c \in AllConditions(scn) : ConditionStands(scn, c)
        /\ Controlled
  BY DEF Resolves, ConditionStands
<1> HIDE DEF Acts, Controlled
<1> QED
  BY <1>2, <1>6, <1>7, <1>8

LEMMA NoControllersInARing ==
  ASSUME NEW controllers, Listed(controllers),
         \A i \in DOMAIN controllers : ControllerStands(controllers, i),
         NEW ring \in SUBSET DOMAIN controllers, ring # {}
  PROVE  \E i \in ring : \A j \in ring : controllers[i].reference # controllers[j].name
<1> SUFFICES ASSUME \A i \in ring : \E j \in ring : controllers[i].reference = controllers[j].name
             PROVE  FALSE
  OBVIOUS
<1> DEFINE named(i) == controller_at(controllers, controllers[i].reference)
           leads(i) == controllers[i].reference # None /\ named(i) # {}
           next(i) == CHOOSE j \in named(i) : \A k \in named(i) : j <= k
           after(i) == IF i # 0 /\ leads(i) THEN next(i) ELSE 0
           many == Len(controllers) + 1
<1>1. Len(controllers) \in Nat /\ DOMAIN controllers = 1 .. Len(controllers)
  BY DEF Listed
<1>2. PICK c \in ring : TRUE
  OBVIOUS
<1>3. \A i, j \in DOMAIN controllers :
        controllers[i].name = controllers[j].name => i = j
  <2> HIDE DEF named, leads, next, after, many
  <2>1. ASSUME NEW i \in DOMAIN controllers, NEW j \in DOMAIN controllers, j < i
        PROVE  controllers[j].name # controllers[i].name
    <3>1. j \in 1 .. i - 1
      BY <1>1, <2>1
    <3> QED
      BY <3>1 DEF ControllerStands
  <2>2. \A i, j \in DOMAIN controllers : i < j \/ j < i \/ i = j
    BY <1>1
  <2> QED
    BY <2>1, <2>2
<1>4. ASSUME NEW i \in ring
      PROVE  after(i) \in ring /\ controllers[i].reference # None
  <2>1. PICK j \in ring : controllers[i].reference = controllers[j].name
    OBVIOUS
  <2>2. controllers[i].reference # None /\ named(i) = {j}
    BY <1>3, <2>1 DEF ControllerStands, controller_at
  <2>3. \A k \in named(i) : j <= k
    BY <1>1, <2>2
  <2>4. next(i) = j
    BY <2>2, <2>3
  <2>5. i # 0
    BY <1>1
  <2> QED
    BY <2>2, <2>4, <2>5
<1> DEFINE Walks(f) == f = [hops \in 0 .. many |-> IF hops = 0 THEN c ELSE after(f[hops - 1])]
           step == [p \in (1 .. many) \X ring |-> after(p[2])]
           walk == CHOOSE f : Walks(f)
<1>5. reference_cyclic(controllers, c) <=> walk[many] # 0
  BY DEF reference_cyclic
<1> HIDE DEF named, leads, next, after
<1>6. \E f : Walks(f)
  <2>1. step \in [(1 .. many) \X ring -> ring]
    BY <1>4
  <2>0. many \in Nat /\ c \in ring
    BY <1>1
  <2> HIDE DEF step, many
  <2>2. PICK f : Recursive(f, many, ring, c, step)
    BY <2>0, <2>1, IntervalRecursion
  <2>3. f \in [0 .. many -> ring] /\ f[0] = c /\ \A i \in 1 .. many : f[i] = step[<<i, f[i - 1]>>]
    BY <2>2 DEF Recursive
  <2>4. ASSUME NEW i \in 1 .. many
        PROVE  f[i] = after(f[i - 1])
    <3>1. i - 1 \in 0 .. many
      BY <2>0
    <3>2. f[i - 1] \in ring
      BY <2>3, <3>1
    <3>3. step[<<i, f[i - 1]>>] = after(f[i - 1])
      BY <3>2 DEF step
    <3> QED
      BY <2>3, <3>3
  <2>5. ASSUME NEW hops \in 0 .. many
        PROVE  f[hops] = IF hops = 0 THEN c ELSE after(f[hops - 1])
    <3>1. hops = 0 \/ (hops # 0 /\ hops \in 1 .. many)
      BY <2>0
    <3> QED
      BY <2>3, <2>4, <3>1
  <2>6. Walks(f)
    <3>1. f = [hops \in 0 .. many |-> f[hops]]
      BY <2>3
    <3> QED
      BY <2>5, <3>1
  <2> QED
    BY <2>6, Zenon
<1>7. Walks(walk)
  BY <1>6
<1> HIDE DEF walk
<1>8. \A hops \in 0 .. many : walk[hops] = IF hops = 0 THEN c ELSE after(walk[hops - 1])
  BY <1>7
<1> DEFINE S == {hops \in 0 .. many : walk[hops] \in ring}
<1>9. many \in Nat /\ 0 \in S
  BY <1>1, <1>2, <1>8, SMTT(30)
<1>10. ASSUME NEW hops \in 1 .. many, hops - 1 \in S
       PROVE  hops \in S
  <2>1. hops \in 0 .. many /\ hops # 0
    BY <1>9
  <2>2. walk[hops] = after(walk[hops - 1])
    BY <1>8, <2>1
  <2> QED
    BY <1>4, <1>10, <2>1, <2>2
<1>11. many \in S
  <2>1. many \in 0 .. many
    BY <1>9
  <2> HIDE DEF S
  <2> QED
    BY <1>9, <1>10, <2>1, IntervalInduction
<1>12. walk[many] # 0
  BY <1>1, <1>11, SMTT(30)
<1>13. reference_cyclic(controllers, c)
  BY <1>5, <1>12
<1> QED
  BY <1>4, <1>13, <1>2 DEF ControllerStands

---------------------------------------------------------------------------
(* Paths.                                                                      *)

\* The elements of a scenario are the nodes of a tree, each before its children.
Rooted(scn) ==
  /\ Len(scn.elements) \in Nat /\ DOMAIN scn.elements = 1 .. Len(scn.elements)
  /\ \A n \in DOMAIN scn.elements : n # 1 => scn.elements[n].parent \in 1 .. n - 1

Names(scn) == {scn.elements[n].name : n \in DOMAIN scn.elements}

\* The path of an element starts with its name and goes on as its parent's.
LEMMA ChainIsBuilt ==
  ASSUME NEW scn, Rooted(scn)
  PROVE  \A n \in DOMAIN scn.elements :
           /\ Chain(scn, n) \in Seq(Names(scn))
           /\ n = 1 => Chain(scn, n) = <<>>
           /\ n # 1 => /\ scn.elements[n].parent \in DOMAIN scn.elements
                      /\ Chain(scn, n) = <<scn.elements[n].name>> \o Chain(scn, scn.elements[n].parent)
<1> DEFINE many == Len(scn.elements)
           name(n) == scn.elements[n].name
           up(n) == scn.elements[n].parent
           V == Seq(Names(scn))
           Built(f, k) == f = [m \in 1 .. k |-> IF m = 1 THEN <<>> ELSE <<name(m)>> \o f[up(m)]]
           S == {k \in 0 .. many : \E f : Built(f, k)}
<1>1. many \in Nat /\ DOMAIN scn.elements = 1 .. many
      /\ \A n \in 1 .. many : name(n) \in Names(scn) /\ (n # 1 => up(n) \in 1 .. n - 1)
  BY DEF Rooted, Names
<1> HIDE DEF many, name, up
<1>2. \A x \in Names(scn), s \in V : <<x>> \o s \in V
  OBVIOUS
<1>3. <<>> \in V
  OBVIOUS
<1> HIDE DEF V
<1>4. 0 \in S
  <2>1. Built([m \in 1 .. 0 |-> IF m = 1 THEN <<>> ELSE <<name(m)>> \o <<>>], 0)
    OBVIOUS
  <2> HIDE DEF Built
  <2>2. \E f : Built(f, 0)
    BY <2>1
  <2> QED
    BY <1>1, <2>2
<1>5. ASSUME NEW k \in 1 .. many, k - 1 \in S
      PROVE  k \in S
  <2>1. PICK f : Built(f, k - 1)
    BY <1>5
  <2> DEFINE last == IF k = 1 THEN <<>> ELSE <<name(k)>> \o f[up(k)]
             g == [m \in 1 .. k |-> IF m = k THEN last ELSE f[m]]
  <2>3. k \in 1 .. k /\ \A m \in 1 .. k : m = k \/ m \in 1 .. k - 1
    BY <1>1
  <2>5. ASSUME NEW m \in 1 .. k
        PROVE  g[m] = IF m = 1 THEN <<>> ELSE <<name(m)>> \o g[up(m)]
    <3>1. m \in 1 .. many
      BY <1>1
    <3>2. m # 1 => up(m) \in 1 .. k /\ up(m) # k /\ g[up(m)] = f[up(m)]
      BY <1>1, <3>1
    <3>3. CASE m = k
      BY <3>2, <3>3
    <3>4. CASE m # k
      <4>1. m \in 1 .. k - 1 /\ g[m] = f[m]
        BY <2>3, <3>4
      <4>2. f[m] = IF m = 1 THEN <<>> ELSE <<name(m)>> \o f[up(m)]
        BY <2>1, <4>1
      <4> QED
        BY <3>2, <4>1, <4>2
    <3> QED
      BY <3>3, <3>4
  <2>6. Built(g, k)
    <3>1. g = [m \in 1 .. k |-> g[m]]
      OBVIOUS
    <3> HIDE DEF g
    <3> QED
      BY <2>5, <3>1
  <2> HIDE DEF g, Built
  <2>7. k \in 0 .. many /\ \E any : Built(any, k)
    BY <1>1, <2>6
  <2> QED
    BY <2>7
<1>6. \E f : Built(f, many)
  <2>1. many \in 0 .. many
    BY <1>1
  <2>2. many \in S
    <3> HIDE DEF S
    <3> QED
      BY <1>1, <1>4, <1>5, <2>1, IntervalInduction
  <2> QED
    BY <2>2
<1> DEFINE names == CHOOSE f : Built(f, many)
<1>7. \A n : Chain(scn, n) = names[n]
  BY <1>1 DEF Chain, name, up, many
<1>8. Built(names, many)
  BY <1>6
<1> HIDE DEF names
<1>9. \A m \in 1 .. many : names[m] = IF m = 1 THEN <<>> ELSE <<name(m)>> \o names[up(m)]
  BY <1>8
<1> DEFINE T == {k \in 0 .. many : \A m \in 1 .. k : names[m] \in V}
<1>10. 0 \in T
  BY <1>1
<1>11. ASSUME NEW k \in 1 .. many, k - 1 \in T
       PROVE  k \in T
  <2>1. k \in 0 .. many /\ \A m \in 1 .. k : m = k \/ m \in 1 .. k - 1
    BY <1>1
  <2>2. \A m \in 1 .. k - 1 : names[m] \in V
    BY <1>11
  <2>3. names[k] \in V
    BY <1>1, <1>2, <1>3, <1>9, <2>2
  <2>4. \A m \in 1 .. k : names[m] \in V
    BY <2>1, <2>2, <2>3
  <2> QED
    BY <2>1, <2>4
<1>12. \A m \in 1 .. many : names[m] \in V
  <2>1. many \in 0 .. many
    BY <1>1
  <2>2. many \in T
    <3> HIDE DEF T
    <3> QED
      BY <1>1, <1>10, <1>11, <2>1, IntervalInduction
  <2> QED
    BY <2>2
<1> SUFFICES ASSUME NEW n \in 1 .. many
             PROVE  /\ Chain(scn, n) \in V
                    /\ n = 1 => Chain(scn, n) = <<>>
                    /\ n # 1 => /\ up(n) \in 1 .. many
                               /\ Chain(scn, n) = <<name(n)>> \o Chain(scn, up(n))
  BY <1>1 DEF V, name, up
<1>13. n # 1 => up(n) \in 1 .. many
  BY <1>1
<1> QED
  BY <1>7, <1>9, <1>12, <1>13

LEMMA PathsAreApart ==
  ASSUME NEW scn, Rooted(scn), \A n \in DOMAIN scn.elements : SiblingsApart(scn, n)
  PROVE  \A m, n \in DOMAIN scn.elements \ {1} : m # n => Chain(scn, m) # Chain(scn, n)
<1> DEFINE nodes == DOMAIN scn.elements \ {1}
           name(n) == scn.elements[n].name
           up(n) == scn.elements[n].parent
           T == {m \in nodes : \E n \in nodes : m # n /\ Chain(scn, m) = Chain(scn, n)}
<1>1. SUFFICES ASSUME T # {}
               PROVE  FALSE
  OBVIOUS
<1>2. T \subseteq Nat /\ nodes \subseteq Nat
  BY DEF Rooted
<1>3. PICK m \in T : \A k \in T : m <= k
  <2> HIDE DEF T
  <2> QED
    BY <1>1, <1>2, LeastNatural
<1>4. PICK n \in nodes : m # n /\ Chain(scn, m) = Chain(scn, n)
  BY <1>3
<1>5. m \in nodes
  BY <1>3
<1>6. \A k \in nodes :
        /\ up(k) \in DOMAIN scn.elements /\ up(k) < k /\ k \in Children(scn, up(k))
        /\ Chain(scn, k) = <<name(k)>> \o Chain(scn, up(k))
        /\ Chain(scn, up(k)) \in Seq(Names(scn)) /\ name(k) \in Names(scn)
  <2> SUFFICES ASSUME NEW k \in nodes
               PROVE  /\ up(k) \in DOMAIN scn.elements /\ up(k) < k /\ k \in Children(scn, up(k))
                      /\ Chain(scn, k) = <<name(k)>> \o Chain(scn, up(k))
                      /\ Chain(scn, up(k)) \in Seq(Names(scn)) /\ name(k) \in Names(scn)
    OBVIOUS
  <2>1. k \in DOMAIN scn.elements /\ k # 1
    OBVIOUS
  <2>2. up(k) \in DOMAIN scn.elements /\ Chain(scn, k) = <<name(k)>> \o Chain(scn, up(k))
    BY <2>1, ChainIsBuilt
  <2>3. Chain(scn, up(k)) \in Seq(Names(scn))
    BY <2>2, ChainIsBuilt
  <2>4. up(k) < k
    BY <2>1 DEF Rooted
  <2> QED
    BY <2>1, <2>2, <2>3, <2>4 DEF Children, Names
<1>7. name(m) = name(n) /\ Chain(scn, up(m)) = Chain(scn, up(n))
  <2> DEFINE a == Chain(scn, up(m))
             b == Chain(scn, up(n))
  <2>1. /\ a \in Seq(Names(scn)) /\ b \in Seq(Names(scn))
        /\ name(m) \in Names(scn) /\ name(n) \in Names(scn)
    BY <1>4, <1>5, <1>6
  <2>2. <<name(m)>> \o a = <<name(n)>> \o b
    BY <1>4, <1>5, <1>6
  <2> HIDE DEF a, b, name
  <2>3. (<<name(m)>> \o a)[1] = name(m) /\ (<<name(n)>> \o b)[1] = name(n)
    BY <2>1
  <2>4. Tail(<<name(m)>> \o a) = a /\ Tail(<<name(n)>> \o b) = b
    BY <2>1
  <2> QED
    BY <2>2, <2>3, <2>4 DEF a, b
<1>8. CASE up(m) = up(n)
  <2>1. m < n \/ n < m
    BY <1>2, <1>4, <1>5
  <2> QED
    BY <1>4, <1>5, <1>6, <1>7, <1>8, <2>1 DEF SiblingsApart
<1>9. CASE up(m) # up(n)
  <2>1. ASSUME NEW k \in nodes
        PROVE  Chain(scn, k) # <<>>
    <3> DEFINE rest == Chain(scn, up(k))
    <3>1. rest \in Seq(Names(scn)) /\ name(k) \in Names(scn) /\ Chain(scn, k) = <<name(k)>> \o rest
      BY <1>6
    <3> HIDE DEF rest, name
    <3>2. Len(<<name(k)>> \o rest) = 1 + Len(rest) /\ Len(rest) \in Nat
      BY <3>1
    <3>3. <<name(k)>> \o rest # <<>>
      BY <3>2
    <3> QED
      BY <3>1, <3>3
  <2>2. Chain(scn, 1) = <<>> \/ 1 \notin DOMAIN scn.elements
    BY ChainIsBuilt
  <2>3. up(m) \in nodes /\ up(n) \in nodes
    BY <1>4, <1>5, <1>6, <1>7, <1>9, <2>1, <2>2
  <2>4. up(m) \in T /\ up(m) < m
    BY <1>5, <1>6, <1>7, <1>9, <2>3
  <2> QED
    BY <1>2, <1>3, <2>4
<1> QED
  BY <1>8, <1>9

\* What init lets pass can be run: for every scenario its types allow, when the
\* checks find no error, no look-up of a name, a path or a reference can fail,
\* no action is missing, no chain of controllers leads back to its start and the
\* path of every element is its own (Engine::init).
THEOREM SoundScenariosRun ==
  ASSUME NEW scn, Formed(scn), ~ has_errors(findings(scn))
  PROVE  Runnable(scn)
<1>1. findings(scn) \in Findings
  BY ScenarioChecked
<1>2. Faultless(findings(scn)) /\ Resolved(findings(scn))
  BY <1>1, FaultlessHasNoErrors, FaultlessIsResolved
<1>3. Stands(scn)
  BY <1>2, ScenarioChecked
<1>4. Resolves(scn)
  BY <1>2, ScenarioChecked, AllReferencesResolve
<1>5. None \notin AllActions(scn)
  BY <1>3 DEF Stands, AllActions, Range
<1>6. \A ring \in (SUBSET DOMAIN scn.controllers) \ {{}} :
        \E i \in ring : \A j \in ring : scn.controllers[i].reference # scn.controllers[j].name
  <2>1. /\ Listed(scn.controllers)
        /\ \A i \in DOMAIN scn.controllers : ControllerStands(scn.controllers, i)
    BY <1>3 DEF Formed, Stands
  <2> QED
    BY <2>1, NoControllersInARing
<1>7. Rooted(scn)
  BY DEF Rooted, Formed, Listed, TypedElement
<1>8. \A n \in DOMAIN scn.elements : SiblingsApart(scn, n)
  BY <1>3 DEF Stands
<1>9. \A m, n \in DOMAIN scn.elements \ {1} : m # n => Chain(scn, m) # Chain(scn, n)
  BY <1>7, <1>8, PathsAreApart
<1> QED
  BY <1>4, <1>5, <1>6, <1>9 DEF Runnable

\* A reference that leads nowhere is what init calls a semantic error, and nothing
\* else is: for every scenario its types allow, the checks report that code exactly
\* when an entity, a named value, a phase, an element or a controller that is
\* referred to is not there (ADR-0005; Engine::init).
THEOREM DanglingReferencesReport ==
  ASSUME NEW scn, Formed(scn)
  PROVE  (\E i \in DOMAIN findings(scn) : findings(scn)[i].code = "SemanticError") <=> ~ Resolves(scn)
BY ScenarioChecked, AllReferencesResolve, DanglingIsReported
=============================================================================
