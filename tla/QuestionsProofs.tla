--------------------------- MODULE QuestionsProofs ---------------------------
(***************************************************************************)
(* Proofs about the parts that answer one question at a time, for every      *)
(* question that may be put: what init accepts can be run, and what it calls *)
(* a semantic error is a reference that leads nowhere; a distance is the room *)
(* between two boxes, a time to collision the time that is left, one number   *)
(* stands behind the answers to a condition, a speed profile keeps its limits, *)
(* and nothing written of a map is dropped without a finding.                  *)
(***************************************************************************)
EXTENDS Questions, ValidationProofs

---------------------------------------------------------------------------
(* Questions are among those that may be put, and answers are to them.           *)

Put ==
  /\ part \in DOMAIN Asked /\ \E i \in DOMAIN Asked[part] : asked \in Asked[part][i]
  /\ answered => answer = Answer(asked)

LEMMA PutInit == Init => Put
BY DEF Init, Put

LEMMA PutNext == Put /\ [Reply]_questionVars => Put'
<1> SUFFICES ASSUME Put, [Reply]_questionVars
             PROVE  Put'
  OBVIOUS
<1>1. CASE Reply
  <2>1. part' = part /\ asked' = asked /\ answer' = Answer(asked)
    BY <1>1 DEF Reply
  <2>2. Answer(asked)' = Answer(asked)
    BY <2>1 DEF Answer
  <2> QED
    BY <2>1, <2>2 DEF Put
<1>2. CASE UNCHANGED questionVars
  <2>1. part' = part /\ asked' = asked /\ answer' = answer /\ answered' = answered
    BY <1>2 DEF questionVars
  <2>2. Answer(asked)' = Answer(asked)
    BY <2>1 DEF Answer
  <2> QED
    BY <2>1, <2>2 DEF Put
<1> QED
  BY <1>1, <1>2

LEMMA AlwaysPut == Spec => []Put
BY PutInit, PutNext, PTL DEF Spec

---------------------------------------------------------------------------
(* Scenarios.                                                                  *)

LEMMA FormedIsAsked ==
  ASSUME Put, Answered("scenario")
  PROVE  Formed(asked) /\ answer = findings(asked)
<1>1. part = "scenario" /\ answer = Answer(asked)
  BY DEF Put, Answered
<1>2. Formed(asked)
  BY <1>1, ScenariosAssumption DEF Put
<1>3. Answer(asked) = findings(asked)
  BY <1>1 DEF Answer
<1> QED
  BY <1>1, <1>2, <1>3

\* What init accepts can be run, whatever scenario it is asked about (Engine::init).
THEOREM AcceptedStaysRunnable == Spec => []AcceptedIsRunnable
<1>1. Put => AcceptedIsRunnable
  BY FormedIsAsked, SoundScenariosRun DEF AcceptedIsRunnable
<1> QED
  BY <1>1, AlwaysPut, PTL

\* "Scenario content references something that does not exist" (status.h:39): the
\* code of it is reported when a reference does not resolve, and only then,
\* whatever scenario init is asked about.
THEOREM DanglingStaysSemantic == Spec => []DanglingIsSemantic
<1>1. Put => DanglingIsSemantic
  <2> SUFFICES ASSUME Put, Answered("scenario")
               PROVE  (\E i \in DOMAIN answer : answer[i].code = "SemanticError") = ~ Resolves(asked)
    BY DEF DanglingIsSemantic
  <2>1. (\E i \in DOMAIN answer : answer[i].code = "SemanticError") <=> ~ Resolves(asked)
    BY FormedIsAsked, DanglingReferencesReport
  <2> QED
    BY <2>1
<1> QED
  BY <1>1, AlwaysPut, PTL

---------------------------------------------------------------------------
(* Lines of a road.                                                             *)

LEMMA LengthsFold ==
  ASSUME NEW seq, NEW n \in Nat, DOMAIN seq = 1 .. n, \A i \in 1 .. n : seq[i].length \in Nat
  PROVE  FoldLeft(LAMBDA sum, piece : sum + piece.length, 0, seq) \in Nat
<1> DEFINE S == SUBSET (1 .. n)
           top == [s \in S |-> Max(s)]
           step == [a \in (1 .. n) \X Nat |-> a[2] + seq[a[1]].length]
           Is(h) == h = [s \in S |-> IF s = {} THEN 0 ELSE h[s \ {Max(s)}] + seq[Max(s)].length]
           iter == CHOOSE h : Is(h)
<1>1. Tops(S, top)
  <2> SUFFICES ASSUME NEW s \in S, s # {}
               PROVE  Max(s) \in s /\ \A y \in s : y <= Max(s)
    BY DEF Tops
  <2>1. \E x \in s : \A y \in s : y <= x
    <3>1. s \subseteq 0 .. n
      OBVIOUS
    <3> QED
      BY <3>1, GreatestNatural
  <2>2. \E x \in s : \A y \in s : x >= y
    BY <2>1
  <2>3. Max(s) \in s /\ \A y \in s : Max(s) >= y
    BY <2>2 DEF Max
  <2> QED
    BY <2>3
<1>2. step \in [(1 .. n) \X Nat -> Nat]
  OBVIOUS
<1> DEFINE V == Nat
           base == 0
<1>3. PICK g : Folds(g, S, V, base, step, top)
  <2>1. base \in V /\ step \in [(1 .. n) \X V -> V]
    BY <1>2
  <2>2. S = SUBSET (1 .. n)
    OBVIOUS
  <2> HIDE DEF top, step, Is, V, base, S
  <2> QED
    BY <1>1, <2>1, <2>2, FoldRecursion
<1>4. ASSUME NEW s \in S, s # {}
      PROVE  top[s] = Max(s) /\ top[s] \in 1 .. n /\ s \ {top[s]} \in S
  BY <1>1, <1>4 DEF Tops
<1>5. ASSUME NEW i \in 1 .. n, NEW v \in Nat
      PROVE  step[<<i, v>>] = v + seq[i].length
  BY <1>5
<1> HIDE DEF top, step
<1>6. Is(g)
  <2>1. \A s \in S : g[s] = IF s = {} THEN 0 ELSE g[s \ {Max(s)}] + seq[Max(s)].length
    BY <1>3, <1>4, <1>5 DEF Folds
  <2>2. g = [s \in S |-> g[s]]
    BY <1>3 DEF Folds
  <2> QED
    BY <2>1, <2>2
<1>7. Is(iter)
  <2> HIDE DEF Is
  <2> QED
    BY <1>6
<1> HIDE DEF iter
<1>8. iter[{}] = 0 /\ \A s \in S : s # {} => iter[s] = iter[s \ {top[s]}] + seq[top[s]].length
  BY <1>7, <1>4
<1> DEFINE run == [k \in 0 .. n |-> iter[1 .. k]]
<1>9. Recursive(run, n, V, base, step)
  <2>1. FoldsIn(V, iter, S, base, step, top)
    BY <1>8, <1>4, <1>5 DEF FoldsIn
  <2>2. base \in V /\ step \in [(1 .. n) \X V -> V]
    BY <1>2
  <2>3. S = SUBSET (1 .. n)
    OBVIOUS
  <2>4. run = [k \in 0 .. n |-> iter[1 .. k]]
    OBVIOUS
  <2> HIDE DEF Is, V, base, S, run
  <2> QED
    BY <1>1, <2>1, <2>2, <2>3, <2>4, FoldSteps
<1>10. iter[1 .. n] \in Nat
  BY <1>9 DEF Recursive
<1>11. FoldLeft(LAMBDA sum, piece : sum + piece.length, 0, seq) = iter[1 .. n]
  BY DEF FoldLeft, MapThenFoldSet, iter, Is
<1> QED
  BY <1>10, <1>11

---------------------------------------------------------------------------
(* Quarter turns, and the least of something.                                    *)

LEMMA Quarters ==
  ASSUME NEW h \in Int
  PROVE  \/ Cos(h) = 1 /\ Sin(h) = 0
         \/ Cos(h) = 0 /\ Sin(h) = 1
         \/ Cos(h) = -1 /\ Sin(h) = 0
         \/ Cos(h) = 0 /\ Sin(h) = -1
<1>1. h % 4 \in 0 .. 3
  OBVIOUS
<1>2. h % 4 \in {0, 1, 2, 3}
  BY <1>1
<1> DEFINE r == h % 4
<1>3. Cos(h) = <<1, 0, -1, 0>>[r + 1] /\ Sin(h) = <<0, 1, 0, -1>>[r + 1]
  BY DEF Cos, Sin
<1>4. r = 0 \/ r = 1 \/ r = 2 \/ r = 3
  BY <1>2
<1> HIDE DEF r
<1>5. CASE r = 0
  BY <1>3, <1>5
<1>6. CASE r = 1
  BY <1>3, <1>6
<1>7. CASE r = 2
  BY <1>3, <1>7
<1>8. CASE r = 3
  BY <1>3, <1>8
<1> QED
  BY <1>4, <1>5, <1>6, <1>7, <1>8

LEMMA NextQuarter ==
  ASSUME NEW h \in Int
  PROVE  Cos(h + 1) = -Sin(h) /\ Sin(h + 1) = Cos(h)
<1> DEFINE r == h % 4  q == (h + 1) % 4
<1>1. r = 0 \/ r = 1 \/ r = 2 \/ r = 3
  OBVIOUS
<1>2. q = IF r = 3 THEN 0 ELSE r + 1
  OBVIOUS
<1>3. Cos(h) = <<1, 0, -1, 0>>[r + 1] /\ Sin(h) = <<0, 1, 0, -1>>[r + 1]
  BY DEF Cos, Sin
<1>4. Cos(h + 1) = <<1, 0, -1, 0>>[q + 1] /\ Sin(h + 1) = <<0, 1, 0, -1>>[q + 1]
  BY DEF Cos, Sin
<1> HIDE DEF r, q
<1>5. CASE r = 0
  BY <1>2, <1>3, <1>4, <1>5
<1>6. CASE r = 1
  BY <1>2, <1>3, <1>4, <1>6
<1>7. CASE r = 2
  BY <1>2, <1>3, <1>4, <1>7
<1>8. CASE r = 3
  BY <1>2, <1>3, <1>4, <1>8
<1> QED
  BY <1>1, <1>5, <1>6, <1>7, <1>8

LEMMA LeastIsThere ==
  ASSUME NEW T, T \subseteq Nat, T # {}
  PROVE  Least(T) \in T /\ \A y \in T : Least(T) <= y
<1>1. \E x \in T : \A y \in T : x <= y
  BY LeastNatural
<1> QED
  BY <1>1 DEF Least

LEMMA NearestIsThere ==
  ASSUME NEW n \in Nat, NEW far \in [0 .. n -> Nat]
  PROVE  Nearest(far) \in 0 .. n
<1> DEFINE T == {far[s] : s \in 0 .. n}
           N == {s \in DOMAIN far : \A r \in DOMAIN far : far[s] <= far[r]}
<1>1. 0 \in 0 .. n /\ T \subseteq Nat /\ T # {}
  OBVIOUS
<1>2. PICK m \in T : \A y \in T : m <= y
  BY <1>1, LeastNatural
<1>3. N # {} /\ N \subseteq Nat /\ N \subseteq 0 .. n
  <2>1. PICK s \in 0 .. n : far[s] = m
    BY <1>2
  <2>2. DOMAIN far = 0 .. n /\ \A r \in 0 .. n : far[r] \in T
    OBVIOUS
  <2>3. s \in N
    BY <1>2, <2>1, <2>2
  <2>4. N \subseteq 0 .. n
    BY <2>2
  <2> HIDE DEF N
  <2> QED
    BY <2>3, <2>4
<1>4. Least(N) \in N
  <2> HIDE DEF N
  <2> QED
    BY <1>3, LeastIsThere
<1> QED
  BY <1>3, <1>4 DEF Nearest

---------------------------------------------------------------------------
(* The road queries on a network that a query takes.                             *)

LEMMA LinesMeasure ==
  ASSUME NEW net, Mapped(net), NEW id \in DOMAIN net.roads
  PROVE  LET road == net.roads[id]
         IN /\ \A i \in 1 .. Len(road.plan_view) + 1 : start_s(road, i) \in Nat
            /\ length(road) \in Nat
            /\ DOMAIN road.plan_view = 1 .. Len(road.plan_view) /\ Len(road.plan_view) \in Nat \ {0}
<1> DEFINE road == net.roads[id]  line == road.plan_view  n == Len(line)
<1>1. line # <<>> /\ line \in Seq(Range(line)) /\ \A i \in DOMAIN line : line[i].length \in Nat \ {0}
  BY DEF Mapped, Listed
<1> HIDE DEF line
<1>2. n \in Nat \ {0} /\ DOMAIN line = 1 .. n
  BY <1>1
<1>3. ASSUME NEW i \in 1 .. n + 1
      PROVE  start_s(road, i) \in Nat
  <2> DEFINE seq == SubSeq(line, 1, i - 1)  k == i - 1
  <2>1. k \in Nat /\ DOMAIN seq = 1 .. k /\ \A j \in 1 .. k : seq[j] = line[j] /\ j \in DOMAIN line
    BY <1>1, <1>2
  <2>2. \A j \in 1 .. k : seq[j].length \in Nat
    BY <2>1, <1>1
  <2> HIDE DEF seq, k
  <2>3. FoldLeft(LAMBDA sum, piece : sum + piece.length, 0, seq) \in Nat
    BY <2>1, <2>2, LengthsFold
  <2> QED
    BY <2>3 DEF start_s, seq, k, line
<1>4. length(road) \in Nat
  <2>1. length(road) = start_s(road, n + 1) /\ n + 1 \in 1 .. n + 1
    BY <1>2 DEF length, line
  <2> QED
    BY <2>1, <1>3
<1> QED
  BY <1>2, <1>3, <1>4 DEF line

LEMMA PosesAreWhole ==
  ASSUME NEW net, Mapped(net), NEW id \in DOMAIN net.roads, NEW s \in Int
  PROVE  LET pose == pose_at(net.roads[id], s)
         IN pose.x \in Int /\ pose.y \in Int /\ pose.heading \in Int
<1> DEFINE road == net.roads[id]  n == Len(road.plan_view)  at == Clamped(s, 0, length(road))
           Ends == {i \in DOMAIN road.plan_view : i = n \/ at < start_s(road, i + 1)}
<1>1. /\ \A i \in 1 .. n + 1 : start_s(road, i) \in Nat
      /\ length(road) \in Nat /\ DOMAIN road.plan_view = 1 .. n /\ n \in Nat \ {0}
  BY LinesMeasure
<1>2. at \in Int
  BY <1>1 DEF Clamped
<1>3. n \in Ends /\ Ends \subseteq Nat /\ Ends \subseteq 1 .. n
  BY <1>1
<1>4. Least(Ends) \in 1 .. n
  <2> HIDE DEF Ends
  <2> QED
    BY <1>3, LeastIsThere
<1> DEFINE i == Least(Ends)  piece == road.plan_view[i]  along == at - start_s(road, i)
<1>5. PieceAt(road, at) = i
  BY DEF PieceAt
<1>6. pose_at(road, s) = PoseOn(piece, along)
  BY <1>5 DEF pose_at, PoseWithin, PoseOf
<1>7. i \in DOMAIN road.plan_view /\ i \in 1 .. n + 1
  <2> HIDE DEF i
  <2> QED
    BY <1>1, <1>4 DEF i
<1>8. along \in Int
  <2> HIDE DEF i, at
  <2> QED
    BY <1>1, <1>2, <1>7
<1>9. piece.x \in Int /\ piece.y \in Int /\ piece.hdg \in Int
  <2> HIDE DEF i
  <2> QED
    BY <1>7 DEF Mapped
<1> HIDE DEF piece, along
<1>10. Cos(piece.hdg) \in Int /\ Sin(piece.hdg) \in Int
  BY <1>9, Quarters
<1> QED
  BY <1>6, <1>8, <1>9, <1>10 DEF PoseOn

\* A point is beside the foot of its perpendicular on a road of the network.
Projected(net, p, at) ==
  /\ at.road \in DOMAIN net.roads
  /\ at.s \in 0 .. length(net.roads[at.road])
  /\ at.t = BesideAt(net.roads[at.road], at.s, p).t
  /\ at.t \in Int
  /\ Dist2(pose_at(net.roads[at.road], at.s), p) <= at.t * at.t

LEMMA ProjectionsStand ==
  ASSUME NEW net, Mapped(net), NEW id \in DOMAIN net.roads, NEW p, p.x \in Int, p.y \in Int
  PROVE  LET road == net.roads[id] track == project(road, p)
         IN /\ track.s \in 0 .. length(road) /\ track.t \in Int
            /\ track = BesideAt(road, track.s, p)
<1> DEFINE road == net.roads[id]
           far == [s \in 0 .. length(road) |-> Dist2(pose_at(road, s), p)]
           s == Nearest(far)
<1>1. length(road) \in Nat
  BY LinesMeasure
<1>2. ASSUME NEW r \in 0 .. length(road)
      PROVE  Dist2(pose_at(road, r), p) \in Nat
  <2> DEFINE pose == pose_at(road, r)  dx == pose.x - p.x  dy == pose.y - p.y
  <2>1. pose.x \in Int /\ pose.y \in Int
    <3>1. r \in Int
      BY <1>1
    <3> QED
      BY <3>1, PosesAreWhole
  <2>2. dx \in Int /\ dy \in Int
    <3> HIDE DEF pose
    <3> QED
      BY <2>1
  <2>3. Dist2(pose, p) = dx * dx + dy * dy
    BY DEF Dist2
  <2> HIDE DEF dx, dy, pose
  <2>4. dx * dx \in Nat /\ dy * dy \in Nat
    BY <2>2
  <2> QED
    BY <2>3, <2>4 DEF pose
<1>3. far \in [0 .. length(road) -> Nat]
  BY <1>2
<1>4. s \in 0 .. length(road)
  <2> HIDE DEF far
  <2> QED
    BY <1>1, <1>3, NearestIsThere
<1> DEFINE pose == pose_at(road, s)
<1>5. pose.x \in Int /\ pose.y \in Int /\ pose.heading \in Int
  <2>1. s \in Int
    <3> HIDE DEF s
    <3> QED
      BY <1>1, <1>4
  <2> HIDE DEF s
  <2> QED
    BY <2>1, PosesAreWhole
<1>6. project(road, p) = BesideAt(road, s, p)
  BY DEF project
<1>7. /\ BesideAt(road, s, p).s = s
      /\ BesideAt(road, s, p).t = (p.y - pose.y) * Cos(pose.heading) - (p.x - pose.x) * Sin(pose.heading)
  BY DEF BesideAt, Beside
<1> HIDE DEF pose, s, far
<1>8. BesideAt(road, s, p).t \in Int
  BY <1>5, <1>7, Quarters
<1> QED
  BY <1>4, <1>6, <1>7, <1>8

LEMMA LanePlacesStand ==
  ASSUME NEW net, Mapped(net), NEW p, p.x \in Int, p.y \in Int
  PROVE  to_lane_position(net, p) = None \/ Projected(net, p, to_lane_position(net, p))
<1> DEFINE places == [id \in DOMAIN net.roads |-> on_road(net.roads[id], p)]
           found == {id \in DOMAIN places : places[id] # None}
           size(id) == Magnitude(places[id].t)
           nearest == {id \in found : \A other \in found : size(id) <= size(other)}
<1>1. to_lane_position(net, p) = 
         IF found = {} THEN None
         ELSE [road |-> Least(nearest), s |-> places[Least(nearest)].s, t |-> places[Least(nearest)].t,
               lane |-> places[Least(nearest)].lane]
  BY DEF to_lane_position, Found, Closest
<1>2. ASSUME NEW id \in found
      PROVE  LET road == net.roads[id] track == project(road, p)
             IN /\ id \in Nat /\ id \in DOMAIN net.roads
                /\ track.s \in 0 .. length(road) /\ track.t \in Int
                /\ track = BesideAt(road, track.s, p)
                /\ Dist2(track.foot, p) <= track.t * track.t
                /\ \E lane : places[id] = [s |-> track.s, t |-> track.t, lane |-> lane]
  <2>1. id \in DOMAIN net.roads /\ places[id] = on_road(net.roads[id], p) /\ on_road(net.roads[id], p) # None
    OBVIOUS
  <2> HIDE DEF places, found
  <2> DEFINE road == net.roads[id]  track == project(road, p)
  <2>2. id \in Nat
    BY <2>1 DEF Mapped
  <2>3. track.s \in 0 .. length(road) /\ track.t \in Int /\ track = BesideAt(road, track.s, p)
    BY <2>1, ProjectionsStand
  <2> HIDE DEF track
  <2> DEFINE section == road.sections[section_at(road, track.s)]
  <2>4. on_road(road, p) = InSection(section, track, p)
    BY <2>1 DEF on_road, AtTrack, OnTrack, track
  <2>5. /\ ~ (Dist2(track.foot, p) > track.t * track.t)
        /\ InSection(section, track, p)
             = [s |-> track.s, t |-> track.t, lane |-> lane_under(section, track.t, track.s - section.s)]
    <3> HIDE DEF section
    <3> QED
      BY <2>1, <2>4 DEF InSection
  <2>6. Dist2(track.foot, p) \in Int /\ track.t * track.t \in Int
    <3>1. track.foot = pose_at(road, track.s)
      BY <2>3 DEF BesideAt, Beside
    <3>2. track.s \in Int
      BY <2>1, <2>3, LinesMeasure
    <3>3. track.foot.x \in Int /\ track.foot.y \in Int
      BY <2>1, <3>1, <3>2, PosesAreWhole
    <3> QED
      BY <3>3, <2>3 DEF Dist2
  <2>7. Dist2(track.foot, p) <= track.t * track.t
    BY <2>5, <2>6
  <2> QED
    BY <2>1, <2>2, <2>3, <2>4, <2>5, <2>7 DEF track
<1> SUFFICES ASSUME found # {}
             PROVE  Projected(net, p, to_lane_position(net, p))
  <2> HIDE DEF found
  <2> QED
    BY <1>1
<1>3. Least(nearest) \in found
  <2> DEFINE Sizes == {size(id) : id \in found}
  <2>1. \A id \in found : size(id) \in Nat
    <3> SUFFICES ASSUME NEW id \in found
                 PROVE  Magnitude(places[id].t) \in Nat
      OBVIOUS
    <3>1. places[id].t \in Int
      <4> HIDE DEF places, found
      <4>1. PICK lane :
              /\ project(net.roads[id], p).t \in Int
              /\ places[id] = [s |-> project(net.roads[id], p).s, t |-> project(net.roads[id], p).t, lane |-> lane]
        BY <1>2
      <4> QED
        BY <4>1
    <3> HIDE DEF places, found
    <3> QED
      BY <3>1 DEF Magnitude
  <2> HIDE DEF size
  <2>2. Sizes \subseteq Nat /\ Sizes # {}
    <3> HIDE DEF found
    <3> QED
      BY <2>1
  <2>3. PICK m \in Sizes : \A y \in Sizes : m <= y
    <3> HIDE DEF Sizes
    <3> QED
      BY <2>2, LeastNatural
  <2>4. nearest # {} /\ nearest \subseteq Nat /\ nearest \subseteq found
    <3>1. found \subseteq Nat
      <4> HIDE DEF found, places
      <4> QED
        BY <1>2
    <3> HIDE DEF found
    <3>2. PICK id \in found : m = size(id)
      OBVIOUS
    <3>3. \A other \in found : size(other) \in Sizes
      OBVIOUS
    <3> HIDE DEF Sizes
    <3>4. \A other \in found : size(id) <= size(other)
      BY <2>3, <3>2, <3>3
    <3>5. id \in nearest
      BY <3>4
    <3>6. nearest \subseteq found
      OBVIOUS
    <3> QED
      BY <3>1, <3>5, <3>6
  <2> HIDE DEF nearest
  <2>5. Least(nearest) \in nearest
    BY <2>4, LeastIsThere
  <2> QED
    BY <2>4, <2>5
<1> DEFINE best == Least(nearest)  road == net.roads[best]  track == project(road, p)
<1>4. best \in found
  BY <1>3
<1> HIDE DEF best
<1>5. /\ best \in DOMAIN net.roads
      /\ track.s \in 0 .. length(road) /\ track.t \in Int
      /\ track = BesideAt(road, track.s, p)
      /\ Dist2(track.foot, p) <= track.t * track.t
  <2> HIDE DEF found, places
  <2> QED
    BY <1>4, <1>2
<1>6. PICK lane : places[best] = [s |-> track.s, t |-> track.t, lane |-> lane]
  <2> HIDE DEF found, places
  <2> QED
    BY <1>4, <1>2
<1> DEFINE at == to_lane_position(net, p)
<1>7. at = [road |-> best, s |-> places[best].s, t |-> places[best].t, lane |-> places[best].lane]
  <2> HIDE DEF found, places
  <2> QED
    BY <1>1, <1>4 DEF best
<1> HIDE DEF places, found, track, at, road
<1>8. at.road = best /\ at.s = track.s /\ at.t = track.t
  BY <1>6, <1>7
<1>9. track.foot = pose_at(road, track.s)
  BY <1>5 DEF BesideAt, Beside
<1> QED
  BY <1>5, <1>8, <1>9 DEF Projected, at, road

---------------------------------------------------------------------------
(* Boxes that are turned by quarters.                                            *)

\* A direction of the world, as its cosine and its sine.
Unit(c, s) ==
  \/ c = 1 /\ s = 0
  \/ c = 0 /\ s = 1
  \/ c = -1 /\ s = 0
  \/ c = 0 /\ s = -1

LEMMA UnitQuarters ==
  ASSUME NEW h \in Int
  PROVE  /\ Unit(Cos(h), Sin(h)) /\ Cos(h) \in Int /\ Sin(h) \in Int
         /\ Unit(-Sin(h), Cos(h)) /\ Unit(Cos(h + 1), Sin(h + 1))
<1>1. /\ Cos(h + 1) = -Sin(h) /\ Sin(h + 1) = Cos(h)
  BY NextQuarter
<1> QED
  BY <1>1, Quarters DEF Unit

LEMMA LargerIs ==
  ASSUME NEW x \in Int, NEW y \in Int
  PROVE  Larger(x, y) \in {x, y} /\ x <= Larger(x, y) /\ y <= Larger(x, y) /\ Larger(x, y) \in Int
BY DEF Larger

LEMMA SquareIs ==
  ASSUME NEW x \in Int
  PROVE  Square(x) \in Nat /\ (Square(x) = 0 <=> x = 0)
<1>1. x * x \in Nat
  OBVIOUS
<1>2. x * x = 0 <=> x = 0
  OBVIOUS
<1> QED
  BY <1>1, <1>2 DEF Square

LEMMA BoxesStand ==
  ASSUME NEW e, Placed(e), e.entity, e.box # None
  PROVE  LET obb == make_obb(e.state, e.box)
         IN /\ obb.x \in Int /\ obb.y \in Int /\ obb.hx \in Nat /\ obb.hy \in Nat
            /\ obb.hx = e.box.hx /\ obb.hy = e.box.hy
            /\ obb.c = Cos(e.state.heading) /\ obb.s = Sin(e.state.heading)
            /\ Unit(obb.c, obb.s) /\ obb.c \in Int /\ obb.s \in Int
            /\ obb.x = e.state.x + e.box.cx * obb.c - e.box.cy * obb.s
            /\ obb.y = e.state.y + e.box.cx * obb.s + e.box.cy * obb.c
<1>1. /\ e.state.x \in Int /\ e.state.y \in Int /\ e.state.heading \in Int
      /\ e.box.cx \in Int /\ e.box.cy \in Int /\ e.box.hx \in Nat /\ e.box.hy \in Nat
  BY DEF Placed
<1>2. /\ Unit(Cos(e.state.heading), Sin(e.state.heading))
      /\ Cos(e.state.heading) \in Int /\ Sin(e.state.heading) \in Int
  BY <1>1, UnitQuarters
<1> QED
  BY <1>1, <1>2 DEF make_obb

LEMMA ProjectionsHold ==
  ASSUME NEW e, Placed(e), e.entity, e.box # None, NEW u, u.x \in Int, u.y \in Int, Unit(u.x, u.y)
  PROVE  LET reach == obb_project(make_obb(e.state, e.box), u)
             at == e.state.x * u.x + e.state.y * u.y
         IN /\ at \in Int /\ reach.lo \in Int /\ reach.hi \in Int /\ reach.lo <= reach.hi
            /\ Straddles(e.box) => reach.lo <= at /\ at <= reach.hi
<1> DEFINE obb == make_obb(e.state, e.box)
           x == e.state.x  y == e.state.y  cx == e.box.cx  cy == e.box.cy
           centre == obb.x * u.x + obb.y * u.y
           radius == projected_radius(obb, u)
<1>1. /\ x \in Int /\ y \in Int /\ cx \in Int /\ cy \in Int
  BY DEF Placed
<1>2. /\ obb.x \in Int /\ obb.y \in Int /\ obb.hx \in Nat /\ obb.hy \in Nat
      /\ obb.hx = e.box.hx /\ obb.hy = e.box.hy
      /\ Unit(obb.c, obb.s) /\ obb.c \in Int /\ obb.s \in Int
      /\ obb.x = x + cx * obb.c - cy * obb.s
      /\ obb.y = y + cx * obb.s + cy * obb.c
  BY BoxesStand
<1>3. obb_project(obb, u).lo = centre - radius /\ obb_project(obb, u).hi = centre + radius
  BY DEF obb_project
<1>4. radius = obb.hx * Magnitude(obb.c * u.x + obb.s * u.y) + obb.hy * Magnitude(obb.c * u.y - obb.s * u.x)
  BY DEF projected_radius
<1> DEFINE hx == obb.hx  hy == obb.hy  c == obb.c  s == obb.s
<1>5. Straddles(e.box) <=> Magnitude(cx) <= hx /\ Magnitude(cy) <= hy
  BY <1>2 DEF Straddles
<1>6. centre = x * u.x + y * u.y + cx * (c * u.x + s * u.y) + cy * (c * u.y - s * u.x)
  <2> DEFINE ox == obb.x oy == obb.y
  <2> HIDE DEF obb, x, y, cx, cy, c, s, ox, oy
  <2>1. ox = x + cx * c - cy * s /\ oy = y + cx * s + cy * c /\ c \in Int /\ s \in Int
    BY <1>2 DEF c, s, ox, oy
  <2>2. ox * u.x + oy * u.y = x * u.x + y * u.y + cx * (c * u.x + s * u.y) + cy * (c * u.y - s * u.x)
    <3>1. u.x \in Int /\ u.y \in Int /\ x \in Int /\ y \in Int /\ cx \in Int /\ cy \in Int
      BY <1>1
    <3> QED
      BY <2>1, <3>1
  <2> QED
    BY <2>2 DEF ox, oy
<1>7. \/ c * u.x + s * u.y \in {1, -1} /\ c * u.y - s * u.x = 0
      \/ c * u.x + s * u.y = 0 /\ c * u.y - s * u.x \in {1, -1}
  <2> DEFINE ux == u.x  uy == u.y
  <2>1. Unit(c, s) /\ Unit(ux, uy)
    BY <1>2
  <2> HIDE DEF obb, c, s, ux, uy
  <2>2. \/ c * ux + s * uy \in {1, -1} /\ c * uy - s * ux = 0
        \/ c * ux + s * uy = 0 /\ c * uy - s * ux \in {1, -1}
    BY <2>1 DEF Unit
  <2> QED
    BY <2>2 DEF ux, uy
<1>8. hx \in Nat /\ hy \in Nat /\ centre \in Int /\ x * u.x + y * u.y \in Int
  BY <1>1, <1>2
<1> DEFINE p == c * u.x + s * u.y  q == c * u.y - s * u.x  at == x * u.x + y * u.y
<1> HIDE DEF centre, radius, obb, x, y, cx, cy, hx, hy, c, s
<1>9. radius = hx * Magnitude(p) + hy * Magnitude(q)
  BY <1>4 DEF c, s, hx, hy
<1>10. centre = at + cx * p + cy * q /\ at \in Int
  BY <1>6, <1>8
<1> HIDE DEF p, q, at
<1>11. (p \in {1, -1} /\ q = 0) \/ (p = 0 /\ q \in {1, -1})
  BY <1>7 DEF p, q
<1>12. CASE p \in {1, -1} /\ q = 0
  <2>1. radius = hx /\ (centre = at + cx \/ centre = at - cx)
    BY <1>8, <1>9, <1>10, <1>12, <1>1 DEF Magnitude
  <2>2. radius \in Nat /\ (Straddles(e.box) => centre - radius <= at /\ at <= centre + radius)
    BY <2>1, <1>1, <1>5, <1>8, <1>10 DEF Magnitude
  <2>3. centre - radius \in Int /\ centre + radius \in Int /\ centre - radius <= centre + radius
    BY <2>2, <1>8
  <2> QED
    BY <2>2, <2>3, <1>3, <1>10 DEF at, x, y, obb
<1>13. CASE p = 0 /\ q \in {1, -1}
  <2>1. radius = hy /\ (centre = at + cy \/ centre = at - cy)
    BY <1>8, <1>9, <1>10, <1>13, <1>1 DEF Magnitude
  <2>2. radius \in Nat /\ (Straddles(e.box) => centre - radius <= at /\ at <= centre + radius)
    BY <2>1, <1>1, <1>5, <1>8, <1>10 DEF Magnitude
  <2>3. centre - radius \in Int /\ centre + radius \in Int /\ centre - radius <= centre + radius
    BY <2>2, <1>8
  <2> QED
    BY <2>2, <2>3, <1>3, <1>10 DEF at, x, y, obb
<1> QED
  BY <1>11, <1>12, <1>13

---------------------------------------------------------------------------
(* Measurements are whole numbers, or there are none.                            *)

LEMMA AxesAreUnits ==
  ASSUME NEW spec, NEW heading \in Int
  PROVE  LET u == projection_axis(spec, heading)
         IN u.x \in Int /\ u.y \in Int /\ Unit(u.x, u.y)
<1> DEFINE along == IF spec.cs = "world" THEN 0 ELSE heading
           quarters == IF spec.type = "lateral" THEN along + 1 ELSE along
<1>1. quarters \in Int
  OBVIOUS
<1>2. projection_axis(spec, heading) = [x |-> Cos(quarters), y |-> Sin(quarters)]
  BY DEF projection_axis
<1> HIDE DEF quarters
<1> QED
  BY <1>1, <1>2, UnitQuarters

\* The foot of a point beside the road is where its perpendicular meets it.
LEMMA FootIsBelow ==
  ASSUME NEW dx \in Int, NEW dy \in Int, NEW c \in Int, NEW s \in Int, Unit(c, s),
         dx * dx + dy * dy <= (dy * c - dx * s) * (dy * c - dx * s)
  PROVE  dx * c + dy * s = 0
<1> DEFINE a == dx * c + dy * s  t == dy * c - dx * s
<1>1. a * a + t * t = dx * dx + dy * dy
  <2>1. CASE c = 1 /\ s = 0
    BY <2>1
  <2>2. CASE c = 0 /\ s = 1
    BY <2>2
  <2>3. CASE c = -1 /\ s = 0
    BY <2>3
  <2>4. CASE c = 0 /\ s = -1
    BY <2>4
  <2> QED
    BY <2>1, <2>2, <2>3, <2>4 DEF Unit
<1>2. a \in Int /\ t \in Int
  OBVIOUS
<1> HIDE DEF a, t
<1>3. a * a <= 0
  <2>1. a * a \in Int /\ t * t \in Int /\ dx * dx + dy * dy \in Int
    BY <1>2
  <2> QED
    BY <2>1, <1>1 DEF t
<1> QED
  <2>1. a = 0
    BY <1>2, <1>3
  <2> QED
    BY <2>1 DEF a

\* What an entity covers of its road reaches from one side of it to the other.
Lies(reach) ==
  /\ {reach.along.lo, reach.along.hi, reach.across.lo, reach.across.hi} \subseteq Int
  /\ reach.along.lo <= reach.along.hi /\ reach.across.lo <= reach.across.hi
Astride(reach) ==
  /\ reach.along.lo <= reach.at.s /\ reach.at.s <= reach.along.hi
  /\ reach.across.lo <= reach.at.t /\ reach.at.t <= reach.across.hi

LEMMA ExtentsStand ==
  ASSUME NEW net, Mapped(net), NEW e, Placed(e), NEW box, box = None \/ (box = e.box /\ e.entity)
  PROVE  LET ext == road_extent(net, e, box)
         IN \/ ext = None
            \/ /\ ext.at = to_lane_position(net, e.state) /\ Projected(net, e.state, ext.at)
               /\ ext.at.s \in Int /\ ext.at.t \in Int
               /\ Lies(ext) /\ (box = None \/ Straddles(box) => Astride(ext))
<1> DEFINE at == to_lane_position(net, e.state)  ext == road_extent(net, e, box)
           road == net.roads[at.road]  pose == pose_at(road, at.s)
<1>1. e.state.x \in Int /\ e.state.y \in Int
  BY DEF Placed
<1>2. at = None \/ Projected(net, e.state, at)
  BY <1>1, LanePlacesStand
<1>3. ext = ExtentAt(net, at, e.state, box)
  BY DEF road_extent
<1> HIDE DEF at, ext
<1>4. CASE at = None
  BY <1>3, <1>4 DEF ExtentAt, ext
<1>5. ASSUME at # None
      PROVE  /\ Projected(net, e.state, at) /\ at.road \in DOMAIN net.roads
             /\ at.s \in Int /\ 0 <= at.s /\ at.s <= length(road)
             /\ at.t \in Int /\ length(road) \in Nat
             /\ pose.x \in Int /\ pose.y \in Int /\ pose.heading \in Int
             /\ at.t = (e.state.y - pose.y) * Cos(pose.heading) - (e.state.x - pose.x) * Sin(pose.heading)
             /\ (pose.x - e.state.x) * (pose.x - e.state.x) + (pose.y - e.state.y) * (pose.y - e.state.y)
                  <= at.t * at.t
  <2>1. /\ at.road \in DOMAIN net.roads
        /\ at.s \in 0 .. length(road) /\ at.t \in Int
        /\ at.t = BesideAt(road, at.s, e.state).t
        /\ Dist2(pose, e.state) <= at.t * at.t
    BY <1>2, <1>5 DEF Projected
  <2>2. length(road) \in Nat
    BY <2>1, LinesMeasure
  <2>3. at.s \in Int /\ 0 <= at.s /\ at.s <= length(road)
    BY <2>1, <2>2
  <2>4. pose.x \in Int /\ pose.y \in Int /\ pose.heading \in Int
    BY <2>1, <2>3, PosesAreWhole
  <2>5. BesideAt(road, at.s, e.state).t
          = (e.state.y - pose.y) * Cos(pose.heading) - (e.state.x - pose.x) * Sin(pose.heading)
    BY DEF BesideAt, Beside
  <2> QED
    BY <1>2, <1>5, <2>1, <2>2, <2>3, <2>4, <2>5 DEF Dist2
<1>6. CASE at # None /\ box = None
  <2>1. ext = [at |-> at, along |-> [lo |-> at.s + 0, hi |-> at.s + 0], across |-> [lo |-> at.t, hi |-> at.t]]
    BY <1>3, <1>6 DEF ExtentAt, Reach
  <2>2. at.s \in Int /\ at.t \in Int /\ Projected(net, e.state, at)
    BY <1>5, <1>6
  <2> QED
    BY <2>1, <2>2 DEF Lies, Astride, ext, at
<1>7. CASE at # None /\ box # None
  <2> DEFINE h == pose.heading  c == Cos(h)  s == Sin(h)  obb == make_obb(e.state, box)
             foot == to_world_position(net, CentreLine(at))
             u == [x |-> c, y |-> s]  v == [x |-> -s, y |-> c]
  <2>1. road_heading(net, at.road, at.s) = h
    BY <1>5, <1>7 DEF road_heading, On
  <2>2. foot = None \/ foot = Offset(pose, 0)
    <3> DEFINE centre == CentreLine(at)  i == section_at(road, at.s)
    <3>1. centre.road = at.road /\ centre.s = at.s /\ centre.t = 0
      BY DEF CentreLine
    <3>2. foot = PointIn(road, i, centre)
      BY <1>5, <1>7, <3>1 DEF to_world_position, On
    <3> HIDE DEF centre, i, foot
    <3> QED
      BY <3>1, <3>2 DEF PointIn
  <2>3. ext = IF foot = None THEN None
              ELSE BoxReach(at, obb, foot, [x |-> Cos(h), y |-> Sin(h)], [x |-> -Sin(h), y |-> Cos(h)])
    BY <1>3, <1>7, <2>1 DEF ExtentAt, BoxOnRoad
  <2>4. CASE foot = None
    BY <2>3, <2>4 DEF ext
  <2>5. CASE foot # None
    <3>1. /\ Unit(c, s) /\ c \in Int /\ s \in Int /\ Unit(-s, c) /\ -s \in Int
      BY <1>5, <1>7, UnitQuarters
    <3>2. foot.x = pose.x /\ foot.y = pose.y
      <4>1. foot.x = pose.x - 0 * s /\ foot.y = pose.y + 0 * c
        BY <2>2, <2>5 DEF Offset
      <4> QED
        BY <4>1, <3>1, <1>5, <1>7
    <3>3. /\ ext.at = at
          /\ ext.along.lo = at.s + (obb_project(obb, u).lo - (foot.x * u.x + foot.y * u.y))
          /\ ext.along.hi = at.s + (obb_project(obb, u).hi - (foot.x * u.x + foot.y * u.y))
          /\ ext.across.lo = obb_project(obb, v).lo - (foot.x * v.x + foot.y * v.y)
          /\ ext.across.hi = obb_project(obb, v).hi - (foot.x * v.x + foot.y * v.y)
      <4> HIDE DEF foot, obb
      <4> QED
        BY <2>3, <2>5 DEF BoxReach, Reach, FromFoot
    <3>4. box = e.box /\ e.entity /\ e.box # None
      BY <1>7
    <3> DEFINE ru == obb_project(obb, u)  rv == obb_project(obb, v)
               x == e.state.x  y == e.state.y
    <3>5. /\ ru.lo \in Int /\ ru.hi \in Int /\ ru.lo <= ru.hi
          /\ Straddles(box) => ru.lo <= x * c + y * s /\ x * c + y * s <= ru.hi
      <4>1. u.x = c /\ u.y = s
        OBVIOUS
      <4> HIDE DEF u, c, s
      <4> QED
        BY <3>1, <3>4, <4>1, ProjectionsHold
    <3>6. /\ rv.lo \in Int /\ rv.hi \in Int /\ rv.lo <= rv.hi
          /\ Straddles(box) => rv.lo <= x * (-s) + y * c /\ x * (-s) + y * c <= rv.hi
      <4>1. v.x = -s /\ v.y = c
        OBVIOUS
      <4> HIDE DEF v, c, s
      <4> QED
        BY <3>1, <3>4, <4>1, ProjectionsHold
    <3> DEFINE px == pose.x  py == pose.y  t == at.t  fu == px * c + py * s  fv == px * (-s) + py * c
    <3>7. px \in Int /\ py \in Int /\ t \in Int /\ fu \in Int /\ fv \in Int
      BY <1>5, <1>7, <3>1
    <3>8. /\ ext.along.lo = at.s + (ru.lo - fu) /\ ext.along.hi = at.s + (ru.hi - fu)
          /\ ext.across.lo = rv.lo - fv /\ ext.across.hi = rv.hi - fv
      <4>1. u.x = c /\ u.y = s /\ v.x = -s /\ v.y = c
        OBVIOUS
      <4> HIDE DEF u, v, c, s, foot, pose, obb
      <4> QED
        BY <3>2, <3>3, <4>1
    <3>9. /\ t = (y - py) * c - (x - px) * s
          /\ (px - x) * (px - x) + (py - y) * (py - y) <= t * t
      BY <1>5, <1>7
    <3> HIDE DEF c, s, px, py, t, ru, rv, foot, pose, obb, u, v, road, h
    <3> HIDE DEF x, y
    <3>10. x \in Int /\ y \in Int /\ at.s \in Int
      BY <1>1, <1>5, <1>7 DEF x, y
    <3> DEFINE xu == x * c + y * s  xv == x * (-s) + y * c
    <3>11. xu - fu = 0 /\ xv - fv = t
      <4> DEFINE dx == x - px  dy == y - py
      <4>1. dx \in Int /\ dy \in Int
        BY <3>10, <3>7
      <4>2. dx * dx + dy * dy = (px - x) * (px - x) + (py - y) * (py - y)
        BY <3>10, <3>7
      <4>3. xu - fu = dx * c + dy * s /\ xv - fv = dy * c - dx * s
        BY <3>10, <3>7, <3>1
      <4>4. t = dy * c - dx * s
        BY <3>9
      <4>5. dx * dx + dy * dy <= (dy * c - dx * s) * (dy * c - dx * s)
        BY <4>2, <4>4, <3>9
      <4> HIDE DEF dx, dy, fu, fv, xu, xv
      <4>6. dx * c + dy * s = 0
        BY <4>1, <4>5, <3>1, FootIsBelow
      <4> QED
        BY <4>3, <4>4, <4>6
    <3>12. xu \in Int /\ xv \in Int
      BY <3>1, <3>10
    <3>13. Straddles(box) => ru.lo <= xu /\ xu <= ru.hi /\ rv.lo <= xv /\ xv <= rv.hi
      BY <3>5, <3>6
    <3> HIDE DEF xu, xv, fu, fv
    <3>15. Lies(ext)
      BY <3>5, <3>6, <3>7, <3>8, <3>10 DEF Lies
    <3>16. Straddles(box) => Astride(ext)
      BY <3>3, <3>5, <3>6, <3>7, <3>8, <3>10, <3>11, <3>12, <3>13 DEF Astride, t
    <3>17. Projected(net, e.state, at) /\ at.s \in Int /\ at.t \in Int
      BY <1>5, <1>7
    <3> QED
      BY <3>3, <3>15, <3>16, <3>17, <1>7 DEF ext, at
  <2> QED
    BY <2>4, <2>5
<1> QED
  BY <1>4, <1>6, <1>7

\* A box of whole size that stands at whole coordinates.
Boxed(o) == {o.x, o.y, o.c, o.s} \subseteq Int /\ {o.hx, o.hy} \subseteq Nat

LEMMA PointsAreApart ==
  ASSUME NEW p, p.x \in Int, p.y \in Int, NEW o, Boxed(o)
  PROVE  point_obb_distance(p, o) \in Nat
<1> DEFINE rx == p.x - o.x  ry == p.y - o.y
           lx == rx * o.c + ry * o.s  ly == ry * o.c - rx * o.s
           dx == lx - Clamped(lx, -o.hx, o.hx)  dy == ly - Clamped(ly, -o.hy, o.hy)
<1>1. rx \in Int /\ ry \in Int /\ o.c \in Int /\ o.s \in Int /\ o.hx \in Int /\ o.hy \in Int
  BY DEF Boxed
<1>2. lx \in Int /\ ly \in Int
  BY <1>1
<1>3. point_obb_distance(p, o) = Square(dx) + Square(dy)
  BY DEF point_obb_distance
<1> HIDE DEF lx, ly
<1>4. dx \in Int /\ dy \in Int
  BY <1>1, <1>2 DEF Clamped
<1> HIDE DEF dx, dy
<1>5. Square(dx) \in Nat /\ Square(dy) \in Nat
  BY <1>4, SquareIs
<1> QED
  BY <1>3, <1>5

LEMMA CornersAreWhole ==
  ASSUME NEW o, Boxed(o)
  PROVE  world_corners(o) # {} /\ \A p \in world_corners(o) : p.x \in Int /\ p.y \in Int
<1>1. /\ o.x \in Int /\ o.y \in Int /\ o.c \in Int /\ o.s \in Int
      /\ o.hx \in Int /\ o.hy \in Int /\ -o.hx \in Int /\ -o.hy \in Int
  BY DEF Boxed
<1> DEFINE K == [x : {o.hx, -o.hx}, y : {o.hy, -o.hy}]
           corner(k) == [x |-> o.x + k.x * o.c - k.y * o.s, y |-> o.y + k.x * o.s + k.y * o.c]
<1>2. world_corners(o) = {corner(k) : k \in K}
  BY DEF world_corners
<1>3. [x |-> o.hx, y |-> o.hy] \in K
  OBVIOUS
<1>4. ASSUME NEW k \in K
      PROVE  corner(k).x \in Int /\ corner(k).y \in Int
  <2>1. k.x \in {o.hx, -o.hx} /\ k.y \in {o.hy, -o.hy}
    OBVIOUS
  <2>2. k.x \in Int /\ k.y \in Int
    BY <2>1, <1>1
  <2>3. corner(k).x = o.x + k.x * o.c - k.y * o.s /\ corner(k).y = o.y + k.x * o.s + k.y * o.c
    OBVIOUS
  <2> HIDE DEF K, corner
  <2> QED
    BY <2>2, <2>3, <1>1
<1> HIDE DEF K, corner
<1> QED
  BY <1>2, <1>3, <1>4

LEMMA BoxesAreApart ==
  ASSUME NEW a, Boxed(a), NEW b, Boxed(b)
  PROVE  obb_distance(a, b) \in Nat
<1> DEFINE T == {point_obb_distance(p, b) : p \in world_corners(a)}
                \cup {point_obb_distance(p, a) : p \in world_corners(b)}
<1>1. T \subseteq Nat /\ T # {}
  BY PointsAreApart, CornersAreWhole
<1>2. obb_distance(a, b) = IF obb_intersects(a, b) THEN 0 ELSE Least(T)
  BY DEF obb_distance
<1>3. Least(T) \in Nat
  <2> HIDE DEF T
  <2> QED
    BY <1>1, LeastIsThere
<1> QED
  BY <1>2, <1>3

LEMMA RoomsAreWhole ==
  ASSUME NEW a, NEW b, {a.lo, a.hi, b.lo, b.hi} \subseteq Int
  PROVE  Between(a, b) \in Nat
<1>1. b.lo - a.hi \in Int /\ a.lo - b.hi \in Int
  OBVIOUS
<1>2. Larger(b.lo - a.hi, a.lo - b.hi) \in Int
  BY <1>1, LargerIs
<1>3. Larger(0, Larger(b.lo - a.hi, a.lo - b.hi)) \in Int
  BY <1>2, LargerIs
<1> QED
  BY <1>3, SquareIs DEF Between

\* What is asked of two entities, or of an entity and a point, over a network or none.
Measurable(a, b, spec) ==
  /\ Placed(a) /\ a.entity /\ Placed(b)
  /\ spec.freespace \in BOOLEAN /\ (spec.net = None \/ Mapped(spec.net))

LEMMA ExtentsOf ==
  ASSUME NEW a, NEW b, NEW spec, Measurable(a, b, spec), spec.net # None
  PROVE  LET extents == Extents(<<a, b>>, spec)
         IN \A i \in {1, 2} :
              LET e == <<a, b>>[i]
              IN \/ extents[i] = None
                 \/ /\ extents[i].at = to_lane_position(spec.net, e.state)
                    /\ Projected(spec.net, e.state, extents[i].at)
                    /\ extents[i].at.s \in Int /\ extents[i].at.t \in Int
                    /\ Lies(extents[i])
                    /\ BoxOf(spec, e) = None \/ Straddles(BoxOf(spec, e)) => Astride(extents[i])
<1> SUFFICES ASSUME NEW i \in {1, 2}
             PROVE  LET e == <<a, b>>[i]
                        ext == Extents(<<a, b>>, spec)[i]
                    IN \/ ext = None
                       \/ /\ ext.at = to_lane_position(spec.net, e.state)
                          /\ Projected(spec.net, e.state, ext.at)
                          /\ ext.at.s \in Int /\ ext.at.t \in Int
                          /\ Lies(ext)
                          /\ BoxOf(spec, e) = None \/ Straddles(BoxOf(spec, e)) => Astride(ext)
  OBVIOUS
<1> DEFINE e == <<a, b>>[i]  box == BoxOf(spec, e)
<1>1. Placed(e)
  BY DEF Measurable
<1>2. Extents(<<a, b>>, spec)[i] = road_extent(spec.net, e, box)
  BY DEF Extents
<1>3. box = None \/ (box = e.box /\ e.entity)
  <2> HIDE DEF e
  <2> QED
    BY DEF BoxOf
<1>4. Mapped(spec.net)
  BY DEF Measurable
<1> HIDE DEF e, box
<1>5. LET ext == road_extent(spec.net, e, box)
      IN \/ ext = None
         \/ /\ ext.at = to_lane_position(spec.net, e.state) /\ Projected(spec.net, e.state, ext.at)
            /\ ext.at.s \in Int /\ ext.at.t \in Int
            /\ Lies(ext) /\ (box = None \/ Straddles(box) => Astride(ext))
  BY <1>1, <1>3, <1>4, ExtentsStand
<1> QED
  BY <1>2, <1>5 DEF e, box

LEMMA RoadsMeasure ==
  ASSUME NEW a, NEW b, NEW spec, Measurable(a, b, spec)
  PROVE  measure_on_road(a, b, spec) \in Nat \cup {None}
<1> DEFINE extents == Extents(<<a, b>>, spec)  p == extents[1]  q == extents[2]
<1>1. CASE spec.net = None \/ Boxless(spec, a) \/ Boxless(spec, b)
  BY <1>1 DEF measure_on_road
<1>2. CASE ~ (spec.net = None \/ Boxless(spec, a) \/ Boxless(spec, b))
  <2>1. measure_on_road(a, b, spec) = Apart(p, q, spec)
    BY <1>2 DEF measure_on_road, ApartOf
  <2>2. /\ p = None \/ (p.at.s \in Int /\ p.at.t \in Int /\ Lies(p))
        /\ q = None \/ (q.at.s \in Int /\ q.at.t \in Int /\ Lies(q))
    <3> HIDE DEF extents
    <3>1. \A i \in {1, 2} : \/ extents[i] = None
                            \/ extents[i].at.s \in Int /\ extents[i].at.t \in Int /\ Lies(extents[i])
      BY <1>2, ExtentsOf DEF extents
    <3> QED
      BY <3>1
  <2> HIDE DEF extents, p, q
  <2>3. CASE None \in {p, q} \/ p.at.road # q.at.road
    BY <2>1, <2>3 DEF Apart
  <2>4. CASE ~ (None \in {p, q} \/ p.at.road # q.at.road)
    <3>1. q.at.s - p.at.s \in Int /\ q.at.t - p.at.t \in Int
      BY <2>2, <2>4
    <3>2. Square(q.at.s - p.at.s) \in Nat /\ Square(q.at.t - p.at.t) \in Nat
      BY <3>1, SquareIs
    <3>3. Between(p.along, q.along) \in Nat /\ Between(p.across, q.across) \in Nat
      BY <2>2, <2>4, RoomsAreWhole DEF Lies
    <3> QED
      BY <2>1, <2>4, <3>2, <3>3 DEF Apart
  <2> QED
    BY <2>3, <2>4
<1> QED
  BY <1>1, <1>2

LEMMA SpansAreWhole ==
  ASSUME NEW e, Placed(e), e.entity => e.box # None,
         NEW u, u.x \in Int, u.y \in Int, Unit(u.x, u.y)
  PROVE  /\ Span(e, u).lo \in Int /\ Span(e, u).hi \in Int /\ Span(e, u).lo <= Span(e, u).hi
         /\ e.state.x * u.x + e.state.y * u.y \in Int
         /\ (e.entity => Straddles(e.box)) =>
              Span(e, u).lo <= e.state.x * u.x + e.state.y * u.y
              /\ e.state.x * u.x + e.state.y * u.y <= Span(e, u).hi
<1> DEFINE at == e.state.x * u.x + e.state.y * u.y
<1>1. at \in Int
  BY DEF Placed
<1>2. CASE e.entity
  <2>1. Span(e, u) = obb_project(make_obb(e.state, e.box), u)
    BY <1>2 DEF Span
  <2> QED
    BY <2>1, <1>2, ProjectionsHold
<1>3. CASE ~ e.entity
  <2>1. Span(e, u) = [lo |-> at, hi |-> at]
    BY <1>3 DEF Span
  <2> HIDE DEF at
  <2>2. Span(e, u).lo = at /\ Span(e, u).hi = at
    BY <2>1
  <2>3. at <= at
    BY <1>1
  <2> QED
    BY <2>2, <2>3, <1>1, <1>3 DEF at
<1> QED
  BY <1>2, <1>3

LEMMA BoxesAreBoxed ==
  ASSUME NEW e, Placed(e), e.entity, e.box # None
  PROVE  Boxed(make_obb(e.state, e.box))
BY BoxesStand DEF Boxed

LEMMA DistancesAreWhole ==
  ASSUME NEW a, NEW b, NEW spec, Measurable(a, b, spec)
  PROVE  measure_distance(a, b, spec) \in Nat \cup {None}
<1> DEFINE s == a.state  t == b.state
           u == projection_axis(spec, s.heading)
           obb(e) == make_obb(e.state, e.box)
           at == t.x * u.x + t.y * u.y
           covered == IF b.entity THEN obb_project(obb(b), u) ELSE [lo |-> at, hi |-> at]
<1>1. /\ Placed(a) /\ a.entity /\ Placed(b) /\ s.heading \in Int
      /\ s.x \in Int /\ s.y \in Int /\ s.z \in Int /\ t.x \in Int /\ t.y \in Int /\ t.z \in Int
  BY DEF Measurable, Placed
<1>2. u.x \in Int /\ u.y \in Int /\ Unit(u.x, u.y)
  BY <1>1, AxesAreUnits
<1>3. CASE spec.cs = "trajectory"
  BY <1>3 DEF measure_distance
<1>4. CASE spec.cs # "trajectory" /\ ~ euclidean(spec) /\ by_road(spec)
  BY <1>4, RoadsMeasure DEF measure_distance
<1>5. CASE spec.cs # "trajectory" /\ ~ (~ euclidean(spec) /\ by_road(spec)) /\ ~ spec.freespace
  <2>1. measure_distance(a, b, spec)
          = IF euclidean(spec) THEN Dist2(s, t) + Square(t.z - s.z)
            ELSE Square((t.x - s.x) * u.x + (t.y - s.y) * u.y)
    BY <1>5 DEF measure_distance
  <2> DEFINE dx == s.x - t.x  dy == s.y - t.y  dz == t.z - s.z
             gap == (t.x - s.x) * u.x + (t.y - s.y) * u.y
  <2>2. dx \in Int /\ dy \in Int /\ dz \in Int /\ gap \in Int
    BY <1>1, <1>2
  <2>3. Dist2(s, t) = Square(dx) + Square(dy)
    BY DEF Dist2, Square
  <2> HIDE DEF dx, dy, dz, gap, u
  <2>4. Square(dx) \in Nat /\ Square(dy) \in Nat /\ Square(dz) \in Nat /\ Square(gap) \in Nat
    BY <2>2, SquareIs
  <2> QED
    BY <2>1, <2>3, <2>4 DEF dz, gap
<1>6. CASE spec.cs # "trajectory" /\ ~ (~ euclidean(spec) /\ by_road(spec)) /\ spec.freespace
  <2>1. CASE Boxless(spec, a) \/ Boxless(spec, b)
    BY <2>1, <1>6 DEF measure_distance
  <2>2. CASE ~ (Boxless(spec, a) \/ Boxless(spec, b))
    <3>1. a.box # None /\ (b.entity => b.box # None)
      BY <2>2, <1>1, <1>6 DEF Boxless
    <3>2. CASE ~ euclidean(spec)
      <4>1. measure_distance(a, b, spec) = Between(Span(a, u), Span(b, u))
        BY <3>2, <2>2, <1>1, <1>6 DEF measure_distance, Span
      <4> HIDE DEF u
      <4>2. /\ Span(a, u).lo \in Int /\ Span(a, u).hi \in Int
            /\ Span(b, u).lo \in Int /\ Span(b, u).hi \in Int
        BY <1>1, <1>2, <3>1, SpansAreWhole
      <4> QED
        BY <4>1, <4>2, RoomsAreWhole
    <3>3. CASE euclidean(spec) /\ b.entity
      <4>1. measure_distance(a, b, spec) = obb_distance(obb(a), obb(b))
        BY <3>3, <2>2, <1>6 DEF measure_distance
      <4>2. Boxed(obb(a)) /\ Boxed(obb(b))
        BY <1>1, <3>1, <3>3, BoxesAreBoxed
      <4> QED
        BY <4>1, <4>2, BoxesAreApart
    <3>4. CASE euclidean(spec) /\ ~ b.entity
      <4>1. measure_distance(a, b, spec) = point_obb_distance(t, obb(a))
        BY <3>4, <2>2, <1>6 DEF measure_distance
      <4>2. Boxed(obb(a))
        BY <1>1, <3>1, BoxesAreBoxed
      <4> QED
        BY <4>1, <4>2, <1>1, PointsAreApart
    <3> QED
      BY <3>2, <3>3, <3>4
  <2> QED
    BY <2>1, <2>2
<1>7. spec.freespace \in BOOLEAN
  BY DEF Measurable
<1> QED
  BY <1>3, <1>4, <1>5, <1>6, <1>7

---------------------------------------------------------------------------
(* A number that is behind the answers to a condition.                           *)

LEMMA ComparisonsAre ==
  ASSUME NEW l, NEW r
  PROVE  /\ compare(l, "equalTo", r) <=> l = r
         /\ compare(l, "greaterThan", r) <=> l > r
         /\ compare(l, "lessThan", r) <=> l < r
         /\ compare(l, "greaterOrEqual", r) <=> l >= r
         /\ compare(l, "lessOrEqual", r) <=> l <= r
         /\ compare(l, "notEqualTo", r) <=> l # r
BY DEF compare

\* Answers to values that ascend compare a number with each, as far as there is one.
Compares(table, D, there, l, r) ==
  /\ \A rule \in Rules, i \in D :
       table[rule][i] \in BOOLEAN /\ (table[rule][i] <=> there /\ compare(l[i], rule, r[i]))
  /\ there => /\ \A i \in D : l[i] \in Int /\ r[i] \in Int
              /\ \A i, j \in D : i < j /\ l[i] <= r[i] => l[j] < r[j]

LEMMA ComparisonsCohere ==
  ASSUME NEW table, NEW D, NEW there, NEW l, NEW r, Compares(table, D, there, l, r), there
  PROVE  OneNumber(table, D)
<1> SUFFICES ASSUME NEW i \in D
             PROVE  /\ Cardinality({rule \in {"lessThan", "equalTo", "greaterThan"} : table[rule][i]}) = 1
                    /\ table["lessOrEqual"][i] = ~ table["greaterThan"][i]
                    /\ table["greaterOrEqual"][i] = ~ table["lessThan"][i]
                    /\ table["notEqualTo"][i] = ~ table["equalTo"][i]
                    /\ \A j \in D : i < j /\ table["lessOrEqual"][i] => table["lessThan"][j]
  BY DEF OneNumber
<1>1. \A rule \in Rules, j \in D :
        table[rule][j] \in BOOLEAN /\ (table[rule][j] <=> compare(l[j], rule, r[j]))
  BY DEF Compares
<1>2. \A j \in D : /\ table["equalTo"][j] \in BOOLEAN /\ (table["equalTo"][j] <=> l[j] = r[j])
                   /\ table["greaterThan"][j] \in BOOLEAN /\ (table["greaterThan"][j] <=> l[j] > r[j])
                   /\ table["lessThan"][j] \in BOOLEAN /\ (table["lessThan"][j] <=> l[j] < r[j])
                   /\ table["greaterOrEqual"][j] \in BOOLEAN /\ (table["greaterOrEqual"][j] <=> l[j] >= r[j])
                   /\ table["lessOrEqual"][j] \in BOOLEAN /\ (table["lessOrEqual"][j] <=> l[j] <= r[j])
                   /\ table["notEqualTo"][j] \in BOOLEAN /\ (table["notEqualTo"][j] <=> l[j] # r[j])
  BY <1>1, ComparisonsAre DEF Rules
<1>3. l[i] \in Int /\ r[i] \in Int
  BY DEF Compares
<1>4. /\ table["lessOrEqual"][i] = ~ table["greaterThan"][i]
      /\ table["greaterOrEqual"][i] = ~ table["lessThan"][i]
      /\ table["notEqualTo"][i] = ~ table["equalTo"][i]
  BY <1>2, <1>3
<1>5. \A j \in D : i < j /\ table["lessOrEqual"][i] => table["lessThan"][j]
  BY <1>2 DEF Compares
<1> DEFINE S == {rule \in {"lessThan", "equalTo", "greaterThan"} : table[rule][i]}
<1>6. \E rule : S = {rule}
  <2>1. CASE l[i] < r[i]
    <3>1. S = {"lessThan"}
      BY <1>2, <1>3, <2>1
    <3> QED
      BY <3>1
  <2>2. CASE l[i] = r[i]
    <3>1. S = {"equalTo"}
      BY <1>2, <1>3, <2>2
    <3> QED
      BY <3>1
  <2>3. CASE l[i] > r[i]
    <3>1. S = {"greaterThan"}
      BY <1>2, <1>3, <2>3
    <3> QED
      BY <3>1
  <2>4. l[i] < r[i] \/ l[i] = r[i] \/ l[i] > r[i]
    BY <1>3
  <2> HIDE DEF S
  <2> QED
    BY <2>1, <2>2, <2>3, <2>4
<1>7. Cardinality(S) = 1
  <2> HIDE DEF S
  <2> QED
    BY <1>6, FS_Singleton
<1> QED
  BY <1>4, <1>5, <1>7

LEMMA AbsentCoheres ==
  ASSUME NEW table, NEW there, NEW l, NEW r, Compares(table, DOMAIN asked.values, there, l, r)
  PROVE  Nothing(table) \/ OneNumber(table, DOMAIN asked.values)
<1>1. CASE there
  BY <1>1, ComparisonsCohere
<1>2. CASE ~ there
  BY <1>2 DEF Compares, Nothing
<1> QED
  BY <1>1, <1>2

---------------------------------------------------------------------------
(* Conditions as they are asked about.                                           *)

As(kind, rule, value) == [asked.condition EXCEPT !.kind = kind, !.rule = rule, !.value = value]

LEMMA AskedAs ==
  ASSUME ConditionFields \subseteq DOMAIN asked.condition, NEW kind, NEW rule, NEW value
  PROVE  LET c == As(kind, rule, value) d == asked.condition
         IN /\ c.kind = kind /\ c.rule = rule /\ c.value = value
            /\ c.name = d.name /\ c.triggering = d.triggering /\ c.all = d.all /\ c.ref = d.ref
            /\ c.position = d.position /\ c.direction = d.direction /\ c.cs = d.cs /\ c.type = d.type
            /\ c.along_route = d.along_route /\ c.freespace = d.freespace
BY DEF As, ConditionFields

LEMMA TablesAnswer ==
  ASSUME NEW kinds, NEW kind \in kinds, NEW rule \in Rules, NEW i \in DOMAIN asked.values
  PROVE  Table(kinds)[kind][rule][i] = evaluate(asked.context, As(kind, rule, asked.values[i]))
BY DEF Table, As

ByOne == Ruled \ {"simulationTime", "timeOfDay"}

LEMMA ManyAnswer ==
  ASSUME NEW context, NEW c, c.kind \in ByOne \cup Lasting \cup {"reachPosition"}
  PROVE  evaluate(context, c)
           <=> Enough({id \in Range(c.triggering) : evaluate_for_entity(context, id, c)}, c)
BY DEF evaluate, ByOne, Ruled, Lasting, ByEntityHolds

LEMMA OneAnswers ==
  ASSUME NEW context, NEW c, c.kind \in ByOne, NEW id, Range(c.triggering) = {id}
  PROVE  evaluate(context, c) <=> evaluate_for_entity(context, id, c)
BY ManyAnswer DEF Enough

LEMMA NoneAnswers ==
  ASSUME NEW context, NEW c, c.kind \in ByOne, Range(c.triggering) = {}
  PROVE  ~ evaluate(context, c)
BY ManyAnswer DEF Enough

LEMMA ComparisonsAreTruths ==
  ASSUME NEW l \in Int, NEW rule \in Rules, NEW r \in Int
  PROVE  compare(l, rule, r) \in BOOLEAN
<1>1. \/ rule = "equalTo" \/ rule = "greaterThan" \/ rule = "lessThan" \/ rule = "greaterOrEqual"
      \/ rule = "lessOrEqual" \/ rule = "notEqualTo"
  BY DEF Rules
<1>2. CASE rule = "equalTo"
  <2>1. compare(l, rule, r) = (l = r)
    BY <1>2 DEF compare
  <2> QED
    BY <2>1
<1>3. CASE rule = "greaterThan"
  <2>1. compare(l, rule, r) = (l > r)
    BY <1>3 DEF compare
  <2> QED
    BY <2>1
<1>4. CASE rule = "lessThan"
  <2>1. compare(l, rule, r) = (l < r)
    BY <1>4 DEF compare
  <2> QED
    BY <2>1
<1>5. CASE rule = "greaterOrEqual"
  <2>1. compare(l, rule, r) = (l >= r)
    BY <1>5 DEF compare
  <2> QED
    BY <2>1
<1>6. CASE rule = "lessOrEqual"
  <2>1. compare(l, rule, r) = (l <= r)
    BY <1>6 DEF compare
  <2> QED
    BY <2>1
<1>7. CASE rule = "notEqualTo"
  <2>1. compare(l, rule, r) = (l # r)
    BY <1>7 DEF compare
  <2> QED
    BY <2>1
<1> QED
  BY <1>1, <1>2, <1>3, <1>4, <1>5, <1>6, <1>7

LEMMA AnswersAreTruths ==
  ASSUME NEW context, NEW c, c.kind \in Ruled \cup Texts \cup Lasting \cup {"reachPosition"},
         c.rule \in Rules, c.kind = "simulationTime" => context.time \in Int /\ c.value \in Int
  PROVE  evaluate(context, c) \in BOOLEAN
<1>1. CASE c.kind = "simulationTime"
  BY <1>1, ComparisonsAreTruths DEF evaluate, SimulationTimeHolds
<1>2. CASE c.kind \in Texts \cup {"timeOfDay"}
  BY <1>2 DEF evaluate, Texts, TimeOfDayHolds, ParameterHolds, VariableHolds,
     UserDefinedValueHolds, NamedValueHolds
<1>3. CASE c.kind \in ByOne \cup Lasting \cup {"reachPosition"}
  BY <1>3 DEF evaluate, ByOne, Ruled, Lasting, ByEntityHolds, Enough
<1> QED
  BY <1>1, <1>2, <1>3 DEF ByOne

\* Comparing with a root is comparing with the square, from nought on.
Squared(q, w) == IF w < 0 THEN 0 ELSE q
Power(w) == IF w < 0 THEN w ELSE Square(w)

LEMMA RootsCompare ==
  ASSUME NEW q, NEW rule, NEW w
  PROVE  CompareRoot(q, rule, w) <=> compare(Squared(q, w), rule, Power(w))
BY DEF CompareRoot, Squared, Power

LEMMA RootsAscend ==
  ASSUME NEW q \in Nat, NEW v \in Int, NEW w \in Int
  PROVE  /\ Squared(q, v) \in Int /\ Power(v) \in Int
         /\ v < w /\ Squared(q, v) <= Power(v) => Squared(q, w) < Power(w)
<1>1. Square(v) \in Nat /\ Square(w) \in Nat
  BY SquareIs
<1>2. ASSUME v < w, Squared(q, v) <= Power(v)
      PROVE  Squared(q, w) < Power(w)
  <2>1. ~ (v < 0)
    BY <1>2 DEF Squared, Power
  <2>2. q <= v * v
    BY <1>2, <2>1 DEF Squared, Power, Square
  <2>3. v * v < w * w
    BY <1>2, <2>1
  <2>4. q < w * w
    <3>1. v * v \in Int /\ w * w \in Int
      OBVIOUS
    <3> QED
      BY <2>2, <2>3, <3>1
  <2>5. ~ (w < 0)
    BY <1>2, <2>1
  <2> QED
    BY <2>4, <2>5 DEF Squared, Power, Square
<1> QED
  BY <1>1, <1>2 DEF Squared, Power

---------------------------------------------------------------------------
(* How fast entities come closer.                                                *)

LEMMA VelocitiesAreWhole ==
  ASSUME NEW e, e.entity => e.state.speed \in Int, NEW heading \in Int
  PROVE  Velocity(e, heading).x \in Int /\ Velocity(e, heading).y \in Int
<1>1. Cos(heading) \in Int /\ Sin(heading) \in Int
  BY UnitQuarters
<1>2. CASE e.entity
  <2>1. /\ Velocity(e, heading).x = e.state.speed * Cos(heading)
        /\ Velocity(e, heading).y = e.state.speed * Sin(heading)
    BY <1>2 DEF Velocity
  <2> QED
    BY <2>1, <1>1, <1>2
<1>3. CASE ~ e.entity
  BY <1>3 DEF Velocity
<1> QED
  BY <1>2, <1>3

\* A rate is a whole number over the root of a natural that is not nought.
Closes(closing) == closing = None \/ (closing.rate \in Int /\ closing.root \in Nat \ {0})

LEMMA ClosingIsWhole ==
  ASSUME NEW separation \in Int, NEW change \in Int
  PROVE  Closes(Closing(separation, change))
BY DEF Closing, Closes

LEMMA ClosingSpeedsAreWhole ==
  ASSUME NEW a, NEW b, NEW spec, Measurable(a, b, spec)
  PROVE  Closes(closing_speed(a, b, spec))
<1> DEFINE s == a.state  t == b.state
           va == Velocity(a, s.heading)
           vb == IF b.entity THEN Velocity(b, t.heading) ELSE [x |-> 0, y |-> 0]
           u == projection_axis(spec, s.heading)
           d2 == Dist2(s, t) + Square(t.z - s.z)
<1>1. /\ s.x \in Int /\ s.y \in Int /\ s.z \in Int /\ s.heading \in Int /\ s.speed \in Int
      /\ t.x \in Int /\ t.y \in Int /\ t.z \in Int /\ t.heading \in Int /\ t.speed \in Int
  BY DEF Measurable, Placed
<1>2. u.x \in Int /\ u.y \in Int
  BY <1>1, AxesAreUnits
<1>3. va.x \in Int /\ va.y \in Int /\ vb.x \in Int /\ vb.y \in Int
  BY <1>1, VelocitiesAreWhole
<1>4. d2 \in Nat
  <2> DEFINE dx == s.x - t.x  dy == s.y - t.y  dz == t.z - s.z
  <2>1. dx \in Int /\ dy \in Int /\ dz \in Int
    BY <1>1
  <2>2. d2 = Square(dx) + Square(dy) + Square(dz)
    BY DEF Dist2, Square
  <2> HIDE DEF dx, dy, dz
  <2>3. Square(dx) \in Nat /\ Square(dy) \in Nat /\ Square(dz) \in Nat
    BY <2>1, SquareIs
  <2> QED
    BY <2>2, <2>3
<1>5. CASE euclidean(spec)
  <2>1. CASE d2 = 0
    BY <1>5, <2>1 DEF closing_speed, Closes
  <2>2. CASE d2 # 0
    <3> DEFINE rate == (t.x - s.x) * (va.x - vb.x) + (t.y - s.y) * (va.y - vb.y)
    <3>1. closing_speed(a, b, spec) = [rate |-> rate, root |-> d2]
      BY <1>5, <2>2 DEF closing_speed
    <3>2. rate \in Int
      <4> HIDE DEF va, vb
      <4> QED
        BY <1>1, <1>3
    <3> HIDE DEF rate, d2
    <3> QED
      BY <1>4, <2>2, <3>1, <3>2 DEF Closes
  <2> QED
    BY <2>1, <2>2
<1>6. CASE ~ euclidean(spec) /\ spec.cs = "trajectory"
  BY <1>6 DEF closing_speed, Closes
<1>7. CASE ~ euclidean(spec) /\ spec.cs # "trajectory" /\ by_road(spec)
  <2> DEFINE pa == to_lane_position(spec.net, s)  pb == to_lane_position(spec.net, t)
             ua == OnRoadVelocity(spec.net, a, pa)  ub == OnRoadVelocity(spec.net, b, pb)
  <2>1. CASE spec.net = None
    BY <1>7, <2>1 DEF closing_speed, closing_on_road, Closes
  <2>2. CASE spec.net # None
    <3>1. closing_speed(a, b, spec) = ClosingAt(pa, pb, ua, ub, spec)
      BY <1>7, <2>2 DEF closing_speed, closing_on_road, ClosingBetween
    <3>2. Mapped(spec.net)
      BY <2>2 DEF Measurable
    <3>3. ASSUME NEW e, Placed(e), to_lane_position(spec.net, e.state) # None
          PROVE  LET p == to_lane_position(spec.net, e.state)
                     v == OnRoadVelocity(spec.net, e, p)
                 IN p.s \in Int /\ p.t \in Int /\ v.x \in Int /\ v.y \in Int
      <4> DEFINE p == to_lane_position(spec.net, e.state)  road == spec.net.roads[p.road]
                 pose == pose_at(road, p.s)
      <4>1. e.state.x \in Int /\ e.state.y \in Int /\ e.state.heading \in Int /\ e.state.speed \in Int
        BY <3>3 DEF Placed
      <4>2. Projected(spec.net, e.state, p)
        BY <3>2, <3>3, <4>1, LanePlacesStand
      <4> HIDE DEF p
      <4>3. p.road \in DOMAIN spec.net.roads /\ p.s \in 0 .. length(road) /\ p.t \in Int
        BY <4>2 DEF Projected
      <4>4. length(road) \in Nat
        BY <3>2, <4>3, LinesMeasure
      <4>5. p.s \in Int /\ On(spec.net, p.road, p.s)
        BY <4>3, <4>4 DEF On
      <4>6. pose.heading \in Int
        BY <3>2, <4>3, <4>5, PosesAreWhole
      <4>7. road_heading(spec.net, p.road, p.s) = pose.heading
        BY <4>5 DEF road_heading
      <4>8. OnRoadVelocity(spec.net, e, p) = Velocity(e, e.state.heading - pose.heading)
        BY <4>7 DEF OnRoadVelocity
      <4>9. e.state.heading - pose.heading \in Int
        <5> HIDE DEF pose
        <5> QED
          BY <4>1, <4>6
      <4> HIDE DEF pose
      <4>10. OnRoadVelocity(spec.net, e, p).x \in Int /\ OnRoadVelocity(spec.net, e, p).y \in Int
        BY <4>1, <4>8, <4>9, VelocitiesAreWhole
      <4> QED
        BY <4>3, <4>5, <4>10 DEF p
    <3>4. Placed(a) /\ Placed(b)
      BY DEF Measurable
    <3>5. /\ pa # None => pa.s \in Int /\ pa.t \in Int /\ ua.x \in Int /\ ua.y \in Int
          /\ pb # None => pb.s \in Int /\ pb.t \in Int /\ ub.x \in Int /\ ub.y \in Int
      BY <3>3, <3>4
    <3> HIDE DEF pa, pb, ua, ub
    <3>6. CASE None \in {pa, pb} \/ pa.road # pb.road
      BY <3>1, <3>6 DEF ClosingAt, Closes
    <3>7. CASE ~ (None \in {pa, pb} \/ pa.road # pb.road)
      <4>1. /\ pb.t - pa.t \in Int /\ ub.y - ua.y \in Int
            /\ pb.s - pa.s \in Int /\ ub.x - ua.x \in Int
        BY <3>5, <3>7
      <4>2. closing_speed(a, b, spec) = IF spec.type = "lateral" THEN Closing(pb.t - pa.t, ub.y - ua.y)
                                        ELSE Closing(pb.s - pa.s, ub.x - ua.x)
        BY <3>1, <3>7 DEF ClosingAt
      <4> QED
        BY <4>1, <4>2, ClosingIsWhole
    <3> QED
      BY <3>6, <3>7
  <2> QED
    BY <2>1, <2>2
<1>8. CASE ~ euclidean(spec) /\ spec.cs # "trajectory" /\ ~ by_road(spec)
  <2> DEFINE separation == (t.x - s.x) * u.x + (t.y - s.y) * u.y
             change == (vb.x - va.x) * u.x + (vb.y - va.y) * u.y
  <2>1. closing_speed(a, b, spec) = Closing(separation, change)
    BY <1>8 DEF closing_speed
  <2>2. separation \in Int /\ change \in Int
    <3> HIDE DEF u, va, vb
    <3> QED
      BY <1>1, <1>2, <1>3
  <2> HIDE DEF separation, change
  <2> QED
    BY <2>1, <2>2, ClosingIsWhole
<1> QED
  BY <1>5, <1>6, <1>7, <1>8

---------------------------------------------------------------------------
(* What is behind the answers to each kind of condition.                         *)

\* About one entity, by each rule and value.
Reads(k, id, there, l, r) ==
  /\ \A rule \in Rules, i \in DOMAIN asked.values :
       evaluate_for_entity(asked.context, id, As(k, rule, asked.values[i]))
         <=> there /\ compare(l[i], rule, r[i])
  /\ there => /\ \A i \in DOMAIN asked.values : l[i] \in Int /\ r[i] \in Int
              /\ \A i, j \in DOMAIN asked.values : i < j /\ l[i] <= r[i] => l[j] < r[j]

LEMMA NothingReads ==
  ASSUME NEW k, NEW id,
         \A rule \in Rules, i \in DOMAIN asked.values :
           ~ evaluate_for_entity(asked.context, id, As(k, rule, asked.values[i]))
  PROVE  \E there, l, r : Reads(k, id, there, l, r)
<1>1. Reads(k, id, FALSE, asked.values, asked.values)
  BY DEF Reads
<1> QED
  BY <1>1

\* Values to compare with, as they are for most kinds.
Numbered ==
  /\ \A i \in DOMAIN asked.values : asked.values[i] \in Int
  /\ \A i, j \in DOMAIN asked.values : i < j => asked.values[i] < asked.values[j]

LEMMA NumbersRead ==
  ASSUME NEW k, NEW id, NEW there, NEW n, there => n \in Int, Numbered,
         \A rule \in Rules, i \in DOMAIN asked.values :
           evaluate_for_entity(asked.context, id, As(k, rule, asked.values[i]))
             <=> there /\ compare(n, rule, asked.values[i])
  PROVE  \E any, l, r : Reads(k, id, any, l, r)
<1> DEFINE l == [i \in DOMAIN asked.values |-> n]
<1>1. \A i \in DOMAIN asked.values : l[i] = n
  OBVIOUS
<1> HIDE DEF l
<1>2. \A rule \in Rules, i \in DOMAIN asked.values :
           evaluate_for_entity(asked.context, id, As(k, rule, asked.values[i]))
             <=> there /\ compare(l[i], rule, asked.values[i])
  BY <1>1
<1>3. there => /\ \A i \in DOMAIN asked.values : l[i] \in Int /\ asked.values[i] \in Int
               /\ \A i, j \in DOMAIN asked.values : i < j /\ l[i] <= asked.values[i] => l[j] < asked.values[j]
  <2> SUFFICES ASSUME there
               PROVE  /\ \A i \in DOMAIN asked.values : l[i] \in Int /\ asked.values[i] \in Int
                      /\ \A i, j \in DOMAIN asked.values :
                           i < j /\ l[i] <= asked.values[i] => l[j] < asked.values[j]
    OBVIOUS
  <2>1. \A i, j \in DOMAIN asked.values : i < j /\ n <= asked.values[i] => n < asked.values[j]
    <3> SUFFICES ASSUME NEW i \in DOMAIN asked.values, NEW j \in DOMAIN asked.values,
                        i < j, n <= asked.values[i]
                 PROVE  n < asked.values[j]
      OBVIOUS
    <3>1. asked.values[i] < asked.values[j] /\ asked.values[i] \in Int /\ asked.values[j] \in Int
      BY DEF Numbered
    <3> QED
      BY <3>1
  <2> QED
    BY <1>1, <2>1 DEF Numbered
<1>4. Reads(k, id, there, l, asked.values)
  BY <1>2, <1>3 DEF Reads
<1> QED
  BY <1>4

LEMMA RootsRead ==
  ASSUME NEW k, NEW id, NEW there, NEW q, NEW f, there => q \in Nat /\ f \in Nat \ {0}, Numbered,
         \A rule \in Rules, i \in DOMAIN asked.values :
           evaluate_for_entity(asked.context, id, As(k, rule, asked.values[i]))
             <=> there /\ CompareRoot(q, rule, asked.values[i] * f)
  PROVE  \E any, l, r : Reads(k, id, any, l, r)
<1> DEFINE l == [i \in DOMAIN asked.values |-> Squared(q, asked.values[i] * f)]
           r == [i \in DOMAIN asked.values |-> Power(asked.values[i] * f)]
<1>1. \A i \in DOMAIN asked.values :
        l[i] = Squared(q, asked.values[i] * f) /\ r[i] = Power(asked.values[i] * f)
  OBVIOUS
<1> HIDE DEF l, r
<1>2. \A rule \in Rules, i \in DOMAIN asked.values :
           evaluate_for_entity(asked.context, id, As(k, rule, asked.values[i]))
             <=> there /\ compare(l[i], rule, r[i])
  BY <1>1, RootsCompare
<1>3. there => /\ \A i \in DOMAIN asked.values : l[i] \in Int /\ r[i] \in Int
               /\ \A i, j \in DOMAIN asked.values : i < j /\ l[i] <= r[i] => l[j] < r[j]
  <2> SUFFICES ASSUME there, NEW i \in DOMAIN asked.values, NEW j \in DOMAIN asked.values
               PROVE  l[i] \in Int /\ r[i] \in Int /\ (i < j /\ l[i] <= r[i] => l[j] < r[j])
    OBVIOUS
  <2> DEFINE v == asked.values[i]  w == asked.values[j]  fv == v * f  fw == w * f
  <2>1. v \in Int /\ w \in Int /\ (i < j => v < w)
    BY DEF Numbered
  <2>2. fv \in Int /\ fw \in Int /\ (i < j => fv < fw)
    <3> HIDE DEF v, w
    <3>1. v < w => v * f < w * f
      BY <2>1
    <3> QED
      BY <2>1, <3>1
  <2>3. l[i] = Squared(q, fv) /\ r[i] = Power(fv) /\ l[j] = Squared(q, fw) /\ r[j] = Power(fw)
    BY <1>1
  <2> HIDE DEF fv, fw
  <2> QED
    BY <2>2, <2>3, RootsAscend
<1>4. Reads(k, id, there, l, r)
  BY <1>2, <1>3 DEF Reads
<1> QED
  BY <1>4

LEMMA TargetsAreAsked ==
  ASSUME Sensible(asked), NEW kind, NEW rule, NEW value, NEW id
  PROVE  LET context == asked.context c == As(kind, rule, value) d == asked.condition
         IN /\ Target(context, c) = Target(context, d)
            /\ Measurement(context, c) = Measurement(context, d)
            /\ (c.ref = None \/ Known(c.ref, context.entities))
                 <=> (d.ref = None \/ d.ref \in DOMAIN context.entities)
            /\ kind \in AtTarget =>
                 (evaluate_for_entity(context, id, c)
                    <=> /\ id \in DOMAIN context.entities
                        /\ d.ref = None \/ d.ref \in DOMAIN context.entities
                        /\ OfTarget(context.entities[id], Target(context, d), c, Measurement(context, d)))
            /\ id \in DOMAIN context.entities /\ (d.ref = None \/ d.ref \in DOMAIN context.entities)
                 => Measurable(context.entities[id], Target(context, d), Measurement(context, d))
                    /\ Observed(context.entities[id])
<1> DEFINE context == asked.context  c == As(kind, rule, value)  d == asked.condition
<1>1. ConditionFields \subseteq DOMAIN d
  BY DEF Sensible
<1>2. /\ c.kind = kind /\ c.ref = d.ref /\ c.position = d.position /\ c.cs = d.cs /\ c.type = d.type
      /\ c.along_route = d.along_route /\ c.freespace = d.freespace
  BY <1>1, AskedAs
<1> HIDE DEF c
<1>3. Target(context, c) = Target(context, d)
  BY <1>2 DEF Target
<1>4. Measurement(context, c) = Measurement(context, d)
  BY <1>2 DEF Measurement, effective_coordinate_system, effective_relative_distance_type
<1>5. (c.ref = None \/ Known(c.ref, context.entities)) <=> (d.ref = None \/ d.ref \in DOMAIN context.entities)
  BY <1>2 DEF Known
<1>6. kind \in AtTarget =>
        (evaluate_for_entity(context, id, c)
           <=> /\ id \in DOMAIN context.entities
               /\ d.ref = None \/ d.ref \in DOMAIN context.entities
               /\ OfTarget(context.entities[id], Target(context, d), c, Measurement(context, d)))
  BY <1>2, <1>3, <1>4, <1>5 DEF evaluate_for_entity, Known
<1>7. ASSUME id \in DOMAIN context.entities, d.ref = None \/ d.ref \in DOMAIN context.entities
      PROVE  /\ Measurable(context.entities[id], Target(context, d), Measurement(context, d))
             /\ Observed(context.entities[id])
  <2>1. /\ \A other \in DOMAIN context.entities : Observed(context.entities[other])
        /\ context.net = None \/ Mapped(context.net)
        /\ Placed(d.position) /\ d.freespace \in BOOLEAN
    BY DEF Sensible, InContext
  <2>2. Placed(Target(context, d))
    BY <1>7, <2>1 DEF Target, Observed
  <2>3. Placed(context.entities[id]) /\ context.entities[id].entity
    BY <1>7, <2>1 DEF Observed
  <2>4. Measurement(context, d).net = context.net /\ Measurement(context, d).freespace = d.freespace
    BY DEF Measurement
  <2> QED
    BY <1>7, <2>1, <2>2, <2>3, <2>4 DEF Measurable
<1> QED
  BY <1>3, <1>4, <1>5, <1>6, <1>7 DEF c

LEMMA ValuesAreNumbers ==
  ASSUME Sensible(asked), asked.condition.kind \in (Ruled \cup Lasting) \ {"timeOfDay"}
  PROVE  Numbered
<1> DEFINE kind == asked.condition.kind
<1>1. kind \in Ruled \cup Texts \cup Lasting /\ kind \notin Texts /\ kind # "timeOfDay"
  BY DEF Ruled, Texts, Lasting
<1>2. /\ \A i \in DOMAIN asked.values : Comparable(kind, asked.values[i])
      /\ \A i, j \in DOMAIN asked.values : i < j => Ascends(kind, asked.values[i], asked.values[j])
  BY <1>1 DEF Sensible
<1> QED
  BY <1>1, <1>2 DEF Comparable, Ascends, Numbered

LEMMA MagnitudesAreWhole ==
  ASSUME NEW n \in Int
  PROVE  Magnitude(n) \in Nat
BY DEF Magnitude

LEMMA AloneReads ==
  ASSUME Sensible(asked), asked.condition.kind \in {"speed", "acceleration"}, NEW id
  PROVE  \E there, l, r : Reads(asked.condition.kind, id, there, l, r)
<1> DEFINE k == asked.condition.kind  d == asked.condition
           e == asked.context.entities[id]
<1>1. Numbered
  BY ValuesAreNumbers DEF Ruled
<1>2. ConditionFields \subseteq DOMAIN d
  BY DEF Sensible
<1>3. ASSUME NEW rule \in Rules, NEW i \in DOMAIN asked.values
      PROVE  LET c == As(k, rule, asked.values[i])
             IN /\ evaluate_for_entity(asked.context, id, c)
                     <=> id \in DOMAIN asked.context.entities /\ OfEntity(e, c)
                /\ c.kind = k /\ c.rule = rule /\ c.value = asked.values[i] /\ c.direction = d.direction
  <2> DEFINE c == As(k, rule, asked.values[i])
  <2>1. c.kind = k /\ c.rule = rule /\ c.value = asked.values[i] /\ c.direction = d.direction
    BY <1>2, AskedAs
  <2> HIDE DEF c
  <2>2. c.kind \notin AtTarget
    BY <2>1 DEF AtTarget, OverDistance
  <2> QED
    BY <2>1, <2>2 DEF evaluate_for_entity, Known, c
<1>4. CASE id \notin DOMAIN asked.context.entities
  <2>1. \A rule \in Rules, i \in DOMAIN asked.values :
          ~ evaluate_for_entity(asked.context, id, As(k, rule, asked.values[i]))
    BY <1>3, <1>4
  <2> QED
    BY <2>1, NothingReads
<1>5. CASE id \in DOMAIN asked.context.entities
  <2>1. Observed(e)
    BY <1>5 DEF Sensible, InContext
  <2>2. e.state.speed \in Int /\ e.acceleration \in Optional(Int)
    BY <2>1 DEF Observed, Placed
  <2> DEFINE there == k = "speed" \/ e.acceleration # None
             n == project_longitudinal(IF k = "speed" THEN e.state.speed ELSE e.acceleration, d.direction)
  <2>3. there => n \in Int
    <3> SUFFICES ASSUME there
                 PROVE  n \in Int
      OBVIOUS
    <3> DEFINE x == IF k = "speed" THEN e.state.speed ELSE e.acceleration
    <3>1. x \in Int
      BY <2>2 DEF Optional
    <3> HIDE DEF x
    <3>2. Magnitude(x) \in Int
      BY <3>1, MagnitudesAreWhole
    <3> QED
      BY <3>1, <3>2 DEF project_longitudinal, x
  <2>4. ASSUME NEW rule \in Rules, NEW i \in DOMAIN asked.values
        PROVE  evaluate_for_entity(asked.context, id, As(k, rule, asked.values[i]))
                 <=> there /\ compare(n, rule, asked.values[i])
    <3> DEFINE c == As(k, rule, asked.values[i])
    <3>1. /\ evaluate_for_entity(asked.context, id, c) <=> OfEntity(e, c)
          /\ c.kind = k /\ c.rule = rule /\ c.value = asked.values[i] /\ c.direction = d.direction
      BY <1>3, <1>5
    <3> HIDE DEF c
    <3>2. CASE k = "speed"
      <4>1. OfEntity(e, c) <=> SpeedHolds(e, c)
        BY <3>1, <3>2 DEF OfEntity
      <4> QED
        BY <3>1, <3>2, <4>1 DEF SpeedHolds, c
    <3>3. CASE k = "acceleration"
      <4>1. OfEntity(e, c) <=> AccelerationHolds(e, c)
        BY <3>1, <3>3 DEF OfEntity
      <4> QED
        BY <3>1, <3>3, <4>1 DEF AccelerationHolds, c
    <3> QED
      BY <3>2, <3>3
  <2> HIDE DEF there, n
  <2> QED
    BY <1>1, <2>3, <2>4, NumbersRead
<1> QED
  BY <1>4, <1>5

LEMMA SpeedsRead ==
  ASSUME Sensible(asked), asked.condition.kind = "relativeSpeed", NEW id
  PROVE  \E there, l, r : Reads(asked.condition.kind, id, there, l, r)
<1> DEFINE k == asked.condition.kind  context == asked.context  d == asked.condition
           e == context.entities[id]  target == Target(context, d)
           there == id \in DOMAIN context.entities /\ (d.ref = None \/ d.ref \in DOMAIN context.entities)
           along == e.state.heading + (IF d.direction = "lateral" THEN 1 ELSE 0)
           a == Velocity(e, e.state.heading)  b == Velocity(target, target.state.heading)
           n == IF d.direction = None THEN Magnitude(e.state.speed) - Magnitude(target.state.speed)
                ELSE IF d.direction = "vertical" THEN 0
                ELSE (a.x - b.x) * Cos(along) + (a.y - b.y) * Sin(along)
<1>1. Numbered
  BY ValuesAreNumbers DEF Ruled
<1>2. ConditionFields \subseteq DOMAIN d
  BY DEF Sensible
<1>3. there => n \in Int
  <2> SUFFICES ASSUME there
               PROVE  n \in Int
    OBVIOUS
  <2>1. Measurable(e, target, Measurement(context, d))
    BY TargetsAreAsked
  <2>2. /\ e.state.heading \in Int /\ e.state.speed \in Int
        /\ target.state.heading \in Int /\ target.state.speed \in Int
    BY <2>1 DEF Measurable, Placed
  <2>3. along \in Int
    BY <2>2
  <2>4. a.x \in Int /\ a.y \in Int /\ b.x \in Int /\ b.y \in Int
    BY <2>2, VelocitiesAreWhole
  <2> HIDE DEF along, a, b
  <2>5. Cos(along) \in Int /\ Sin(along) \in Int
    BY <2>3, UnitQuarters
  <2>6. (a.x - b.x) * Cos(along) + (a.y - b.y) * Sin(along) \in Int
    BY <2>4, <2>5
  <2>7. Magnitude(e.state.speed) - Magnitude(target.state.speed) \in Int
    <3> HIDE DEF e, target
    <3> QED
      BY <2>2, MagnitudesAreWhole
  <2> QED
    BY <2>6, <2>7
<1>4. ASSUME NEW rule \in Rules, NEW i \in DOMAIN asked.values
      PROVE  evaluate_for_entity(context, id, As(k, rule, asked.values[i]))
               <=> there /\ compare(n, rule, asked.values[i])
  <2> DEFINE c == As(k, rule, asked.values[i])
  <2>1. c.kind = k /\ c.rule = rule /\ c.value = asked.values[i] /\ c.direction = d.direction
    BY <1>2, AskedAs
  <2>2. evaluate_for_entity(context, id, c) <=> there /\ OfTarget(e, target, c, Measurement(context, d))
    <3>1. k \in AtTarget
      BY DEF AtTarget
    <3> QED
      BY <3>1, TargetsAreAsked
  <2> HIDE DEF c, there
  <2>3. OfTarget(e, target, c, Measurement(context, d)) <=> RelativeSpeedHolds(e, target, c)
    BY <2>1 DEF OfTarget
  <2>4. RelativeSpeedHolds(e, target, c) <=> compare(n, rule, asked.values[i])
    BY <2>1 DEF RelativeSpeedHolds
  <2> QED
    BY <2>2, <2>3, <2>4 DEF c
<1> HIDE DEF there, n
<1> QED
  BY <1>1, <1>3, <1>4, NumbersRead

LEMMA DistancesRead ==
  ASSUME Sensible(asked), asked.condition.kind \in OverDistance, NEW id
  PROVE  \E there, l, r : Reads(asked.condition.kind, id, there, l, r)
<1> DEFINE k == asked.condition.kind  context == asked.context  d == asked.condition
           m == Measurement(context, d)
           e == context.entities[id]  target == Target(context, d)
           known == id \in DOMAIN context.entities /\ (d.ref = None \/ d.ref \in DOMAIN context.entities)
           q == measure_distance(e, target, m)
           closing == closing_speed(e, target, m)
<1>1. Numbered
  BY ValuesAreNumbers DEF Ruled, OverDistance
<1>2. ConditionFields \subseteq DOMAIN d
  BY DEF Sensible
<1>3. known => /\ q \in Nat \cup {None} /\ Closes(closing) /\ e.state.speed \in Int
  <2> SUFFICES ASSUME known
               PROVE  q \in Nat \cup {None} /\ Closes(closing) /\ e.state.speed \in Int
    OBVIOUS
  <2>1. Measurable(e, target, m)
    BY TargetsAreAsked
  <2>2. e.state.speed \in Int
    BY <2>1 DEF Measurable, Placed
  <2> QED
    BY <2>1, <2>2, DistancesAreWhole, ClosingSpeedsAreWhole
<1>4. ASSUME NEW rule \in Rules, NEW i \in DOMAIN asked.values
      PROVE  LET c == As(k, rule, asked.values[i])
             IN /\ evaluate_for_entity(context, id, c) <=> known /\ OfDistance(q, e, target, c, m)
                /\ c.kind = k /\ c.rule = rule /\ c.value = asked.values[i]
  <2> DEFINE c == As(k, rule, asked.values[i])
  <2>1. c.kind = k /\ c.rule = rule /\ c.value = asked.values[i]
    BY <1>2, AskedAs
  <2>2. evaluate_for_entity(context, id, c) <=> known /\ OfTarget(e, target, c, m)
    <3>1. k \in AtTarget
      BY DEF AtTarget
    <3> QED
      BY <3>1, TargetsAreAsked
  <2> HIDE DEF c, known
  <2>3. OfTarget(e, target, c, m) <=> OfDistance(q, e, target, c, m)
    <3>1. c.kind # "relativeSpeed" /\ c.kind # "collision"
      BY <2>1 DEF OverDistance
    <3> QED
      BY <3>1 DEF OfTarget
  <2> QED
    BY <2>1, <2>2, <2>3 DEF c
<1> HIDE DEF known, q, closing, m, target, e
<1>5. ASSUME k \in {"distance", "relativeDistance"}
      PROVE  \E there, l, r : Reads(k, id, there, l, r)
  <2> DEFINE there == known /\ q # None
  <2>1. ASSUME NEW rule \in Rules, NEW i \in DOMAIN asked.values
        PROVE  evaluate_for_entity(context, id, As(k, rule, asked.values[i]))
                 <=> there /\ CompareRoot(q, rule, asked.values[i] * 1)
    <3> DEFINE c == As(k, rule, asked.values[i])
    <3>1. /\ evaluate_for_entity(context, id, c) <=> known /\ OfDistance(q, e, target, c, m)
          /\ c.kind = k /\ c.rule = rule /\ c.value = asked.values[i]
      BY <1>4
    <3>2. asked.values[i] * 1 = asked.values[i]
      BY <1>1 DEF Numbered
    <3> HIDE DEF c
    <3>3. OfDistance(q, e, target, c, m) <=> DistanceHolds(q, c)
      BY <1>5, <3>1 DEF OfDistance, RelativeDistanceHolds
    <3> QED
      BY <3>1, <3>2, <3>3 DEF DistanceHolds, c
  <2>2. there => q \in Nat /\ 1 \in Nat \ {0}
    BY <1>3
  <2> HIDE DEF there
  <2> QED
    BY <1>1, <2>1, <2>2, RootsRead
<1>6. ASSUME k = "timeHeadway"
      PROVE  \E there, l, r : Reads(k, id, there, l, r)
  <2> DEFINE there == known /\ q # None /\ e.state.speed > 0  f == e.state.speed
  <2>1. ASSUME NEW rule \in Rules, NEW i \in DOMAIN asked.values
        PROVE  evaluate_for_entity(context, id, As(k, rule, asked.values[i]))
                 <=> there /\ CompareRoot(q, rule, asked.values[i] * f)
    <3> DEFINE c == As(k, rule, asked.values[i])
    <3>1. /\ evaluate_for_entity(context, id, c) <=> known /\ OfDistance(q, e, target, c, m)
          /\ c.kind = k /\ c.rule = rule /\ c.value = asked.values[i]
      BY <1>4
    <3> HIDE DEF c
    <3>3. OfDistance(q, e, target, c, m) <=> TimeHeadwayHolds(q, e, c)
      BY <1>6, <3>1 DEF OfDistance
    <3> QED
      BY <3>1, <3>3 DEF TimeHeadwayHolds, c
  <2>2. there => q \in Nat /\ f \in Nat \ {0}
    BY <1>3
  <2> HIDE DEF there, f
  <2> QED
    BY <1>1, <2>1, <2>2, RootsRead
<1>7. ASSUME k = "timeToCollision"
      PROVE  \E there, l, r : Reads(k, id, there, l, r)
  <2> DEFINE there == known /\ q # None /\ closing # None /\ closing.rate > 0
             f == closing.rate  n == q * closing.root
  <2>1. ASSUME NEW rule \in Rules, NEW i \in DOMAIN asked.values
        PROVE  evaluate_for_entity(context, id, As(k, rule, asked.values[i]))
                 <=> there /\ CompareRoot(n, rule, asked.values[i] * f)
    <3> DEFINE c == As(k, rule, asked.values[i])
    <3>1. /\ evaluate_for_entity(context, id, c) <=> known /\ OfDistance(q, e, target, c, m)
          /\ c.kind = k /\ c.rule = rule /\ c.value = asked.values[i]
      BY <1>4
    <3> HIDE DEF c
    <3>3. OfDistance(q, e, target, c, m) <=> TimeToCollisionHolds(q, closing, c)
      BY <1>7, <3>1 DEF OfDistance, closing
    <3> QED
      BY <3>1, <3>3 DEF TimeToCollisionHolds, c
  <2>2. there => n \in Nat /\ f \in Nat \ {0}
    <3> SUFFICES ASSUME there
                 PROVE  n \in Nat /\ f \in Nat \ {0}
      OBVIOUS
    <3>1. q \in Nat /\ closing.rate \in Int /\ closing.root \in Nat
      BY <1>3 DEF Closes
    <3> QED
      BY <3>1
  <2> HIDE DEF there, f, n
  <2> QED
    BY <1>1, <2>1, <2>2, RootsRead
<1> QED
  BY <1>5, <1>6, <1>7 DEF OverDistance

---------------------------------------------------------------------------
(* Dates.                                                                        *)

LEMMA DaysAreWhole ==
  ASSUME NEW year \in Int, NEW month
  PROVE  DaysIn(year, month) \in Int
BY DEF DaysIn

LEMMA MonthsFold ==
  ASSUME NEW seq, NEW n \in Nat, DOMAIN seq = 1 .. n, \A i \in 1 .. n : seq[i] \in Int
  PROVE  FoldLeft(LAMBDA sum, month : sum + month, 0, seq) \in Int
<1> DEFINE S == SUBSET (1 .. n)
           top == [s \in S |-> Max(s)]
           step == [a \in (1 .. n) \X Int |-> a[2] + seq[a[1]]]
           Is(h) == h = [s \in S |-> IF s = {} THEN 0 ELSE h[s \ {Max(s)}] + seq[Max(s)]]
           iter == CHOOSE h : Is(h)
<1>1. Tops(S, top)
  <2> SUFFICES ASSUME NEW s \in S, s # {}
               PROVE  Max(s) \in s /\ \A y \in s : y <= Max(s)
    BY DEF Tops
  <2>1. \E x \in s : \A y \in s : y <= x
    <3>1. s \subseteq 0 .. n
      OBVIOUS
    <3> QED
      BY <3>1, GreatestNatural
  <2>2. \E x \in s : \A y \in s : x >= y
    BY <2>1
  <2>3. Max(s) \in s /\ \A y \in s : Max(s) >= y
    BY <2>2 DEF Max
  <2> QED
    BY <2>3
<1>2. step \in [(1 .. n) \X Int -> Int]
  OBVIOUS
<1> DEFINE V == Int
           base == 0
<1>3. PICK g : Folds(g, S, V, base, step, top)
  <2>1. base \in V /\ step \in [(1 .. n) \X V -> V]
    BY <1>2
  <2>2. S = SUBSET (1 .. n)
    OBVIOUS
  <2> HIDE DEF top, step, Is, V, base, S
  <2> QED
    BY <1>1, <2>1, <2>2, FoldRecursion
<1>4. ASSUME NEW s \in S, s # {}
      PROVE  top[s] = Max(s) /\ top[s] \in 1 .. n /\ s \ {top[s]} \in S
  BY <1>1, <1>4 DEF Tops
<1>5. ASSUME NEW i \in 1 .. n, NEW v \in Int
      PROVE  step[<<i, v>>] = v + seq[i]
  BY <1>5
<1> HIDE DEF top, step
<1>6. Is(g)
  <2>1. \A s \in S : g[s] = IF s = {} THEN 0 ELSE g[s \ {Max(s)}] + seq[Max(s)]
    BY <1>3, <1>4, <1>5 DEF Folds
  <2>2. g = [s \in S |-> g[s]]
    BY <1>3 DEF Folds
  <2> QED
    BY <2>1, <2>2
<1>7. Is(iter)
  <2> HIDE DEF Is
  <2> QED
    BY <1>6
<1> HIDE DEF iter
<1>8. iter[{}] = 0 /\ \A s \in S : s # {} => iter[s] = iter[s \ {top[s]}] + seq[top[s]]
  BY <1>7, <1>4
<1> DEFINE run == [k \in 0 .. n |-> iter[1 .. k]]
<1>9. Recursive(run, n, V, base, step)
  <2>1. FoldsIn(V, iter, S, base, step, top)
    BY <1>8, <1>4, <1>5 DEF FoldsIn
  <2>2. base \in V /\ step \in [(1 .. n) \X V -> V]
    BY <1>2
  <2>3. S = SUBSET (1 .. n)
    OBVIOUS
  <2>4. run = [k \in 0 .. n |-> iter[1 .. k]]
    OBVIOUS
  <2> HIDE DEF Is, V, base, S, run
  <2> QED
    BY <1>1, <2>1, <2>2, <2>3, <2>4, FoldSteps
<1>10. iter[1 .. n] \in Int
  BY <1>9 DEF Recursive
<1>11. FoldLeft(LAMBDA sum, month : sum + month, 0, seq) = iter[1 .. n]
  BY DEF FoldLeft, MapThenFoldSet, iter, Is
<1> QED
  BY <1>10, <1>11

LEMMA DatesAreWhole ==
  ASSUME NEW d, d.year \in Int, valid(d)
  PROVE  to_epoch_seconds(d) \in Int
<1> DEFINE months == [m \in 1 .. d.month - 1 |-> DaysIn(d.year, m)]
           days == DaysBefore(d.year - 1) - DaysBefore(1969) + DaysOfMonths(d) + d.day - 1
<1>1. d.month \in 1 .. 12 /\ d.day \in Int
  <2> DEFINE last == DaysIn(d.year, d.month)
  <2>1. last \in Int
    BY DaysAreWhole
  <2>2. d.month \in 1 .. 12 /\ d.day \in 1 .. last
    BY DEF valid
  <2> HIDE DEF last
  <2> QED
    BY <2>1, <2>2
<1>2. d.hour \in Int /\ d.minute \in Int /\ d.second \in Int /\ d.utc_offset_minutes \in Int
  <2>1. d.hour \in 0 .. 23 /\ d.minute \in 0 .. 59 /\ d.second \in 0 .. 59
    BY DEF valid
  <2> DEFINE offset == d.utc_offset_minutes
  <2>2. offset \in -840 .. 840
    BY DEF valid
  <2> HIDE DEF offset, days, months
  <2>3. offset \in Int
    BY <2>2
  <2> QED
    BY <2>1, <2>3 DEF offset
<1>3. DaysOfMonths(d) \in Int
  <2> DEFINE n == d.month - 1
  <2>1. n \in Nat
    BY <1>1
  <2>2. DOMAIN months = 1 .. n /\ \A i \in 1 .. n : months[i] \in Int
    BY DaysAreWhole
  <2> HIDE DEF n, months
  <2>3. FoldLeft(LAMBDA sum, month : sum + month, 0, months) \in Int
    BY <2>1, <2>2, MonthsFold
  <2> QED
    BY <2>3 DEF DaysOfMonths, months
<1>4. to_epoch_seconds(d)
        = days * 86400 + d.hour * 3600 + d.minute * 60 + d.second - d.utc_offset_minutes * 60
  BY DEF to_epoch_seconds
<1>5. DaysBefore(d.year - 1) \in Int /\ DaysBefore(1969) \in Int
  <2>1. \A year \in Int : DaysBefore(year) \in Int
    BY DEF DaysBefore
  <2> QED
    BY <2>1
<1>6. days \in Int
  BY <1>1, <1>3, <1>5
<1> HIDE DEF days
<1> QED
  BY <1>2, <1>4, <1>6

LEMMA TruthsAreTabled ==
  ASSUME Sensible(asked), asked.condition.kind \in Ruled \cup Texts \cup Lasting,
         NEW kinds, asked.condition.kind \in kinds, NEW rule \in Rules, NEW i \in DOMAIN asked.values
  PROVE  LET k == asked.condition.kind
             c == As(k, rule, asked.values[i])
         IN /\ Table(kinds)[k][rule][i] = evaluate(asked.context, c)
            /\ Table(kinds)[k][rule][i] \in BOOLEAN
            /\ c.kind = k /\ c.rule = rule /\ c.value = asked.values[i] /\ c.name = asked.condition.name
            /\ c.triggering = asked.condition.triggering /\ c.all = asked.condition.all
<1> DEFINE k == asked.condition.kind  c == As(k, rule, asked.values[i])
<1>1. Table(kinds)[k][rule][i] = evaluate(asked.context, c)
  BY TablesAnswer
<1>2. /\ c.kind = k /\ c.rule = rule /\ c.value = asked.values[i] /\ c.name = asked.condition.name
      /\ c.triggering = asked.condition.triggering /\ c.all = asked.condition.all
  BY AskedAs DEF Sensible
<1>3. k = "simulationTime" => asked.context.time \in Int /\ asked.values[i] \in Int
  <2> SUFFICES ASSUME k = "simulationTime"
               PROVE  asked.context.time \in Int /\ asked.values[i] \in Int
    OBVIOUS
  <2>1. Numbered
    BY ValuesAreNumbers DEF Ruled
  <2> QED
    BY <2>1 DEF Numbered, Sensible, InContext
<1> HIDE DEF c
<1>4. evaluate(asked.context, c) \in BOOLEAN
  BY <1>2, <1>3, AnswersAreTruths
<1> QED
  BY <1>1, <1>2, <1>4 DEF c

LEMMA TimesCohere ==
  ASSUME Sensible(asked), asked.condition.kind \in {"simulationTime", "timeOfDay"},
         NEW kinds, asked.condition.kind \in kinds
  PROVE  LET table == Table(kinds)[asked.condition.kind]
         IN Nothing(table) \/ OneNumber(table, DOMAIN asked.values)
<1> DEFINE k == asked.condition.kind  table == Table(kinds)[k]  D == DOMAIN asked.values
           context == asked.context
<1>1. ASSUME NEW rule \in Rules, NEW i \in D
      PROVE  LET c == As(k, rule, asked.values[i])
             IN /\ table[rule][i] \in BOOLEAN /\ table[rule][i] = evaluate(context, c)
                /\ c.kind = k /\ c.rule = rule /\ c.value = asked.values[i]
  <2>1. k \in Ruled
    BY DEF Ruled
  <2> QED
    BY <2>1, TruthsAreTabled
<1> HIDE DEF table
<1>2. CASE k = "simulationTime"
  <2> DEFINE n == context.time  l == [i \in D |-> n]
  <2>1. Numbered
    BY <1>2, ValuesAreNumbers DEF Ruled
  <2>2. n \in Int
    BY DEF Sensible, InContext
  <2>3. \A i \in D : l[i] = n
    OBVIOUS
  <2>4. ASSUME NEW rule \in Rules, NEW i \in D
        PROVE  table[rule][i] \in BOOLEAN /\ (table[rule][i] <=> TRUE /\ compare(l[i], rule, asked.values[i]))
    <3> DEFINE c == As(k, rule, asked.values[i])
    <3>1. /\ table[rule][i] \in BOOLEAN /\ table[rule][i] = evaluate(context, c)
          /\ c.kind = k /\ c.rule = rule /\ c.value = asked.values[i]
      BY <1>1
    <3> HIDE DEF c, l
    <3>2. evaluate(context, c) <=> compare(n, rule, asked.values[i])
      BY <1>2, <3>1 DEF evaluate, SimulationTimeHolds
    <3> QED
      BY <3>1, <3>2, <2>3
  <2>5. \A i, j \in D : i < j /\ n <= asked.values[i] => n < asked.values[j]
    <3> SUFFICES ASSUME NEW i \in D, NEW j \in D, i < j, n <= asked.values[i]
                 PROVE  n < asked.values[j]
      OBVIOUS
    <3>1. asked.values[i] < asked.values[j] /\ asked.values[i] \in Int /\ asked.values[j] \in Int
      BY <2>1 DEF Numbered
    <3> QED
      BY <3>1, <2>2
  <2>6. /\ \A i \in D : l[i] \in Int /\ asked.values[i] \in Int
        /\ \A i, j \in D : i < j /\ l[i] <= asked.values[i] => l[j] < asked.values[j]
    BY <2>1, <2>2, <2>3, <2>5 DEF Numbered
  <2> HIDE DEF l
  <2>7. Compares(table, D, TRUE, l, asked.values)
    BY <2>4, <2>6 DEF Compares
  <2> QED
    BY <2>7, AbsentCoheres DEF table
<1>3. CASE k = "timeOfDay"
  <2> DEFINE n == context.date  l == [i \in D |-> n]  there == n # None
             r == [i \in D |-> to_epoch_seconds(asked.values[i])]
  <2>1. n \in Optional(Int)
    BY DEF Sensible, InContext
  <2>2. \A i \in D : l[i] = n /\ r[i] = to_epoch_seconds(asked.values[i])
    OBVIOUS
  <2>3. k \in Ruled \cup Texts \cup Lasting /\ k \notin Texts
    BY <1>3 DEF Ruled, Texts
  <2>4. /\ \A i \in D : r[i] \in Int
        /\ \A i, j \in D : i < j => r[i] < r[j]
    <3>1. /\ \A i \in D : Comparable(k, asked.values[i])
          /\ \A i, j \in D : i < j => Ascends(k, asked.values[i], asked.values[j])
      BY <2>3 DEF Sensible
    <3>2. \A i \in D : asked.values[i].year \in Int /\ valid(asked.values[i])
      BY <3>1, <2>3, <1>3 DEF Comparable
    <3>3. \A i, j \in D : i < j => to_epoch_seconds(asked.values[i]) < to_epoch_seconds(asked.values[j])
      BY <3>1, <2>3, <1>3 DEF Ascends
    <3> QED
      BY <2>2, <3>2, <3>3, DatesAreWhole
  <2> HIDE DEF l, r
  <2>5. ASSUME NEW rule \in Rules, NEW i \in D
        PROVE  table[rule][i] \in BOOLEAN /\ (table[rule][i] <=> there /\ compare(l[i], rule, r[i]))
    <3> DEFINE c == As(k, rule, asked.values[i])
    <3>1. /\ table[rule][i] \in BOOLEAN /\ table[rule][i] = evaluate(context, c)
          /\ c.kind = k /\ c.rule = rule /\ c.value = asked.values[i]
      BY <1>1
    <3> HIDE DEF c
    <3>2. evaluate(context, c) <=> there /\ compare(n, rule, to_epoch_seconds(asked.values[i]))
      BY <1>3, <3>1 DEF evaluate, TimeOfDayHolds
    <3> QED
      BY <3>1, <3>2, <2>2
  <2>6. there => /\ \A i \in D : l[i] \in Int /\ r[i] \in Int
                 /\ \A i, j \in D : i < j /\ l[i] <= r[i] => l[j] < r[j]
    <3> SUFFICES ASSUME there, NEW i \in D, NEW j \in D
                 PROVE  l[i] \in Int /\ r[i] \in Int /\ (i < j /\ l[i] <= r[i] => l[j] < r[j])
      OBVIOUS
    <3>1. n \in Int
      BY <2>1 DEF Optional
    <3>2. /\ r[i] \in Int /\ r[j] \in Int /\ (i < j => r[i] < r[j])
          /\ l[i] = n /\ l[j] = n
      BY <2>2, <2>4
    <3> QED
      BY <3>1, <3>2
  <2> HIDE DEF there
  <2>7. Compares(table, D, there, l, r)
    BY <2>5, <2>6 DEF Compares
  <2> QED
    BY <2>7, AbsentCoheres DEF table
<1> QED
  BY <1>2, <1>3

LEMMA EntitiesRead ==
  ASSUME Sensible(asked), asked.condition.kind \in ByOne, NEW id
  PROVE  \E there, l, r : Reads(asked.condition.kind, id, there, l, r)
BY AloneReads, SpeedsRead, DistancesRead DEF ByOne, Ruled, OverDistance

LEMMA EntitiesCohere ==
  ASSUME Sensible(asked), asked.condition.kind \in ByOne, Single(asked.condition),
         NEW kinds, asked.condition.kind \in kinds
  PROVE  LET table == Table(kinds)[asked.condition.kind]
         IN Nothing(table) \/ OneNumber(table, DOMAIN asked.values)
<1> DEFINE k == asked.condition.kind  table == Table(kinds)[k]  D == DOMAIN asked.values
           context == asked.context  among == Range(asked.condition.triggering)
<1>1. ASSUME NEW rule \in Rules, NEW i \in D
      PROVE  LET c == As(k, rule, asked.values[i])
             IN /\ table[rule][i] \in BOOLEAN /\ table[rule][i] = evaluate(context, c)
                /\ c.kind = k /\ Range(c.triggering) = among
  <2>1. k \in Ruled
    BY DEF ByOne
  <2> QED
    BY <2>1, TruthsAreTabled
<1> HIDE DEF table
<1>2. CASE among = {}
  <2>1. ASSUME NEW rule \in Rules, NEW i \in D
        PROVE  ~ table[rule][i]
    <3> DEFINE c == As(k, rule, asked.values[i])
    <3>1. table[rule][i] = evaluate(context, c) /\ c.kind = k /\ Range(c.triggering) = {}
      BY <1>1, <1>2
    <3> HIDE DEF c
    <3> QED
      BY <3>1, NoneAnswers
  <2> QED
    BY <2>1 DEF Nothing, table
<1>3. CASE among # {}
  <2>1. PICK id : among = {id}
    BY <1>3 DEF Single, ByOne
  <2>2. PICK there, l, r : Reads(k, id, there, l, r)
    BY EntitiesRead
  <2>3. ASSUME NEW rule \in Rules, NEW i \in D
        PROVE  table[rule][i] \in BOOLEAN /\ (table[rule][i] <=> there /\ compare(l[i], rule, r[i]))
    <3> DEFINE c == As(k, rule, asked.values[i])
    <3>1. /\ table[rule][i] \in BOOLEAN /\ table[rule][i] = evaluate(context, c)
          /\ c.kind = k /\ Range(c.triggering) = {id}
      BY <1>1, <2>1
    <3> HIDE DEF c
    <3>2. evaluate(context, c) <=> evaluate_for_entity(context, id, c)
      BY <3>1, OneAnswers
    <3>3. evaluate_for_entity(context, id, c) <=> there /\ compare(l[i], rule, r[i])
      BY <2>2 DEF Reads, c
    <3> QED
      BY <3>1, <3>2, <3>3
  <2>4. Compares(table, D, there, l, r)
    BY <2>2, <2>3 DEF Compares, Reads
  <2> QED
    BY <2>4, AbsentCoheres DEF table
<1> QED
  BY <1>2, <1>3

LEMMA TextsCohere ==
  ASSUME Sensible(asked), asked.condition.kind \in Texts, NEW kinds, asked.condition.kind \in kinds
  PROVE  LET table == Table(kinds)[asked.condition.kind]
         IN \/ Nothing(table)
            \/ OneText(table, DOMAIN asked.values)
            \/ OneNumber(table, Numerals) /\ OneText(table, DOMAIN asked.values \ Numerals)
<1> DEFINE k == asked.condition.kind  table == Table(kinds)[k]  D == DOMAIN asked.values
           context == asked.context  name == asked.condition.name
           values == IF k = "parameter" THEN context.parameters
                     ELSE IF k = "variable" THEN context.variables ELSE context.user
           lhs == values[name]
<1>1. ASSUME NEW rule \in Rules, NEW i \in D
      PROVE  /\ table[rule][i] \in BOOLEAN
             /\ table[rule][i] <=> name \in DOMAIN values /\ compare_values(lhs, rule, asked.values[i])
  <2> DEFINE c == As(k, rule, asked.values[i])
  <2>1. /\ table[rule][i] \in BOOLEAN /\ table[rule][i] = evaluate(context, c)
        /\ c.kind = k /\ c.rule = rule /\ c.value = asked.values[i] /\ c.name = name
    BY TruthsAreTabled
  <2> HIDE DEF c, table
  <2>2. evaluate(context, c) <=> NamedValueHolds(values, c)
    BY <2>1 DEF evaluate, Texts, ParameterHolds, VariableHolds, UserDefinedValueHolds
  <2> HIDE DEF values
  <2> QED
    BY <2>1, <2>2 DEF NamedValueHolds, Known
<1>2. name \in DOMAIN values => lhs.scalar \in Optional(Int)
  BY DEF Sensible, InContext, Named
<1>3. /\ \A i \in D : asked.values[i].scalar \in Optional(Int)
      /\ \A i, j \in D : i < j => None \in {asked.values[i].scalar, asked.values[j].scalar}
                                  \/ asked.values[i].scalar < asked.values[j].scalar
  <2>1. /\ \A i \in D : Comparable(k, asked.values[i])
        /\ \A i, j \in D : i < j => Ascends(k, asked.values[i], asked.values[j])
    BY DEF Sensible
  <2> QED
    BY <2>1 DEF Comparable, Ascends
<1> HIDE DEF table, values, lhs
<1>4. CASE name \notin DOMAIN values
  BY <1>1, <1>4 DEF Nothing, table
<1> DEFINE words == {i \in D : None \in {lhs.scalar, asked.values[i].scalar}}
<1>5. ASSUME name \in DOMAIN values
      PROVE  OneText(table, words)
  <2> SUFFICES ASSUME NEW i \in words
               PROVE  /\ table["notEqualTo"][i] = ~ table["equalTo"][i]
                      /\ \A rule \in Rules \ {"equalTo", "notEqualTo"} : ~ table[rule][i]
    BY DEF OneText
  <2>1. \A rule \in Rules : /\ table[rule][i] \in BOOLEAN
                            /\ table[rule][i] <=> compare_values(lhs, rule, asked.values[i])
    BY <1>1, <1>5
  <2>2. \A rule \in Rules \ {"equalTo", "notEqualTo"} : ~ table[rule][i]
    BY <2>1 DEF compare_values
  <2>3. /\ table["equalTo"][i] <=> lhs.spelling = asked.values[i].spelling
        /\ table["notEqualTo"][i] <=> lhs.spelling # asked.values[i].spelling
        /\ table["equalTo"][i] \in BOOLEAN /\ table["notEqualTo"][i] \in BOOLEAN
    BY <2>1 DEF compare_values, compare, Rules
  <2> QED
    BY <2>2, <2>3
<1>6. CASE name \in DOMAIN values /\ lhs.scalar = None
  <2>1. words = D
    BY <1>6
  <2> QED
    BY <1>5, <1>6, <2>1 DEF table
<1>7. CASE name \in DOMAIN values /\ lhs.scalar # None
  <2>1. Numerals = D \ words /\ D \ Numerals = words
    BY <1>7 DEF Numerals
  <2> DEFINE n == lhs.scalar  l == [i \in D |-> n]  r == [i \in D |-> asked.values[i].scalar]
             N == Numerals
  <2>2. n \in Int
    BY <1>2, <1>7 DEF Optional
  <2>3. \A i \in N : i \in D /\ l[i] = n /\ r[i] = asked.values[i].scalar /\ r[i] \in Int /\ r[i] # None
    BY <1>3 DEF Numerals, Optional
  <2>4. \A i, j \in N : i < j => r[i] < r[j]
    BY <1>3, <2>3
  <2> HIDE DEF l, r, words
  <2>5. ASSUME NEW rule \in Rules, NEW i \in N
        PROVE  table[rule][i] \in BOOLEAN /\ (table[rule][i] <=> TRUE /\ compare(l[i], rule, r[i]))
    <3>1. table[rule][i] \in BOOLEAN /\ (table[rule][i] <=> compare_values(lhs, rule, asked.values[i]))
      BY <1>1, <1>7, <2>3
    <3>2. compare_values(lhs, rule, asked.values[i]) <=> compare(n, rule, r[i])
      BY <1>7, <2>3 DEF compare_values
    <3> QED
      BY <3>1, <3>2, <2>3
  <2>6. /\ \A i \in N : l[i] \in Int /\ r[i] \in Int
        /\ \A i, j \in N : i < j /\ l[i] <= r[i] => l[j] < r[j]
    <3> SUFFICES ASSUME NEW i \in N, NEW j \in N
                 PROVE  l[i] \in Int /\ r[i] \in Int /\ (i < j /\ l[i] <= r[i] => l[j] < r[j])
      OBVIOUS
    <3>1. l[i] = n /\ l[j] = n /\ r[i] \in Int /\ r[j] \in Int /\ (i < j => r[i] < r[j])
      BY <2>3, <2>4
    <3> QED
      BY <3>1, <2>2
  <2>7. Compares(table, N, TRUE, l, r)
    <3> HIDE DEF N
    <3> QED
      BY <2>5, <2>6 DEF Compares
  <2>8. OneNumber(table, Numerals)
    BY <2>7, ComparisonsCohere
  <2> QED
    BY <1>5, <1>7, <2>1, <2>8 DEF table
<1> QED
  BY <1>4, <1>6, <1>7

LEMMA EnoughMore ==
  ASSUME NEW c, NEW d, c.all = d.all, Range(c.triggering) = Range(d.triggering),
         NEW fewer, NEW more, fewer \subseteq more, more \subseteq Range(c.triggering), Enough(fewer, c)
  PROVE  Enough(more, d)
BY DEF Enough

LEMMA LastingCoheres ==
  ASSUME Sensible(asked), asked.condition.kind \in Lasting, NEW kinds, asked.condition.kind \in kinds,
         NEW i \in DOMAIN asked.values, NEW j \in DOMAIN asked.values, i < j,
         Table(kinds)[asked.condition.kind]["equalTo"][j]
  PROVE  Table(kinds)[asked.condition.kind]["equalTo"][i]
<1> DEFINE k == asked.condition.kind  context == asked.context
           c(n) == As(k, "equalTo", asked.values[n])
           holding(n) == {id \in Range(asked.condition.triggering) : evaluate_for_entity(context, id, c(n))}
<1>1. Numbered
  BY ValuesAreNumbers DEF Ruled, Lasting
<1>2. ASSUME NEW n \in {i, j}
      PROVE  /\ Table(kinds)[k]["equalTo"][n] <=> Enough(holding(n), c(n))
             /\ c(n).kind = k /\ c(n).value = asked.values[n]
             /\ c(n).triggering = asked.condition.triggering /\ c(n).all = asked.condition.all
  <2>1. /\ Table(kinds)[k]["equalTo"][n] = evaluate(context, c(n))
        /\ c(n).kind = k /\ c(n).value = asked.values[n]
        /\ c(n).triggering = asked.condition.triggering /\ c(n).all = asked.condition.all
    BY TruthsAreTabled DEF Rules
  <2> HIDE DEF c
  <2>2. evaluate(context, c(n)) <=> Enough(holding(n), c(n))
    BY <2>1, ManyAnswer
  <2> HIDE DEF holding
  <2> QED
    BY <2>1, <2>2
<1> HIDE DEF c
<1>3. holding(j) \subseteq holding(i)
  <2> SUFFICES ASSUME NEW id, evaluate_for_entity(context, id, c(j))
               PROVE  evaluate_for_entity(context, id, c(i))
    OBVIOUS
  <2> DEFINE e == context.entities[id]
  <2>1. ASSUME NEW n \in {i, j}
        PROVE  evaluate_for_entity(context, id, c(n)) <=> id \in DOMAIN context.entities /\ OfEntity(e, c(n))
    <3>1. c(n).kind \notin AtTarget
      BY <1>2 DEF Lasting, AtTarget, OverDistance
    <3> QED
      BY <3>1 DEF evaluate_for_entity, Known
  <2>2. id \in DOMAIN context.entities /\ OfEntity(e, c(j))
    BY <2>1
  <2>3. Observed(e)
    BY <2>2 DEF Sensible, InContext
  <2>4. e.standstill \in Int /\ e.traveled \in Int /\ e.end_of_road \in Int /\ e.offroad \in Int
    BY <2>3 DEF Observed
  <2>5. asked.values[i] < asked.values[j] /\ asked.values[i] \in Int /\ asked.values[j] \in Int
    BY <1>1 DEF Numbered
  <2> DEFINE ci == c(i)  cj == c(j)  v == asked.values[i]  w == asked.values[j]
  <2>6. ci.kind = k /\ cj.kind = k /\ ci.value = v /\ cj.value = w
    BY <1>2
  <2> HIDE DEF e, ci, cj, v, w
  <2>7. OfEntity(e, cj) /\ v < w /\ v \in Int /\ w \in Int
    BY <2>2, <2>5 DEF cj, v, w
  <2>8. k = "standStill" \/ k = "traveledDistance" \/ k = "endOfRoad" \/ k = "offroad"
    BY DEF Lasting
  <2>9. OfEntity(e, ci)
    <3>1. CASE k = "standStill"
      <4>1. e.standstill >= w
        BY <2>6, <2>7, <3>1 DEF OfEntity, StandStillHolds
      <4>2. e.standstill >= v
        BY <4>1, <2>4, <2>7
      <4> QED
        BY <2>6, <4>2, <3>1 DEF OfEntity, StandStillHolds
    <3>2. CASE k = "traveledDistance"
      <4>1. e.traveled >= w
        BY <2>6, <2>7, <3>2 DEF OfEntity, TraveledDistanceHolds
      <4>2. e.traveled >= v
        BY <4>1, <2>4, <2>7
      <4> QED
        BY <2>6, <4>2, <3>2 DEF OfEntity, TraveledDistanceHolds
    <3>3. CASE k = "endOfRoad"
      <4>1. e.end_of_road > 0 /\ e.end_of_road >= w
        BY <2>6, <2>7, <3>3 DEF OfEntity, EndOfRoadHolds
      <4>2. e.end_of_road >= v
        BY <4>1, <2>4, <2>7
      <4> QED
        BY <2>6, <4>1, <4>2, <3>3 DEF OfEntity, EndOfRoadHolds
    <3>4. CASE k = "offroad"
      <4>1. e.offroad > 0 /\ e.offroad >= w
        BY <2>6, <2>7, <3>4 DEF OfEntity, OffroadHolds
      <4>2. e.offroad >= v
        BY <4>1, <2>4, <2>7
      <4> QED
        BY <2>6, <4>1, <4>2, <3>4 DEF OfEntity, OffroadHolds
    <3> QED
      BY <2>8, <3>1, <3>2, <3>3, <3>4
  <2> QED
    BY <2>1, <2>2, <2>9 DEF ci
<1>4. Enough(holding(j), c(j))
  BY <1>2
<1>5. Enough(holding(i), c(i))
  <2>1. holding(i) \subseteq Range(asked.condition.triggering)
    OBVIOUS
  <2> HIDE DEF holding
  <2> QED
    BY <1>2, <1>3, <1>4, <2>1, EnoughMore
<1> QED
  BY <1>2, <1>5

---------------------------------------------------------------------------
(* Kinds that go by the same measurement.                                        *)

LEMMA ReachingIsAtMost ==
  ASSUME Sensible(asked), asked.condition.kind = "distance", asked.condition.ref = None,
         Level(asked.context, asked.condition), NEW i \in DOMAIN asked.values
  PROVE  evaluate(asked.context, As("reachPosition", "lessOrEqual", asked.values[i]))
           = evaluate(asked.context, As("distance", "lessOrEqual", asked.values[i]))
<1> DEFINE context == asked.context  d == asked.condition  v == asked.values[i]
           r == As("reachPosition", "lessOrEqual", v)  c == As("distance", "lessOrEqual", v)
           m == Measurement(context, d)
<1>1. /\ r.kind = "reachPosition" /\ r.rule = "lessOrEqual" /\ r.value = v /\ r.position = d.position
      /\ r.triggering = d.triggering /\ r.all = d.all
      /\ c.kind = "distance" /\ c.rule = "lessOrEqual" /\ c.value = v
      /\ c.triggering = d.triggering /\ c.all = d.all
  BY AskedAs DEF Sensible
<1>2. ASSUME NEW id \in Range(d.triggering)
      PROVE  evaluate_for_entity(context, id, r) <=> evaluate_for_entity(context, id, c)
  <2> DEFINE e == context.entities[id]  q == measure_distance(e, d.position, m)
  <2>1. Target(context, d) = d.position
    BY DEF Target
  <2>2. /\ evaluate_for_entity(context, id, c)
             <=> id \in DOMAIN context.entities /\ OfTarget(e, d.position, c, m)
        /\ id \in DOMAIN context.entities => Measurable(e, d.position, m)
    <3>1. "distance" \in AtTarget
      BY DEF AtTarget, OverDistance
    <3> QED
      BY <2>1, <3>1, TargetsAreAsked
  <2> HIDE DEF c
  <2>3. OfTarget(e, d.position, c, m) <=> q # None /\ CompareRoot(q, "lessOrEqual", v)
    <3>1. OfTarget(e, d.position, c, m) <=> OfDistance(q, e, d.position, c, m)
      BY <1>1 DEF OfTarget
    <3> HIDE DEF q
    <3>2. OfDistance(q, e, d.position, c, m) <=> DistanceHolds(q, c)
      BY <1>1 DEF OfDistance
    <3> QED
      BY <1>1, <3>1, <3>2 DEF DistanceHolds
  <2> HIDE DEF r
  <2>4. evaluate_for_entity(context, id, r)
          <=> id \in DOMAIN context.entities /\ CompareRoot(Dist2(e.state, d.position.state), "lessOrEqual", v)
    <3>1. r.kind \notin AtTarget
      BY <1>1 DEF AtTarget, OverDistance
    <3>2. OfEntity(e, r) <=> ReachPositionHolds(e, r)
      BY <1>1 DEF OfEntity
    <3> QED
      BY <1>1, <3>1, <3>2 DEF evaluate_for_entity, Known, ReachPositionHolds
  <2>5. ASSUME id \in DOMAIN context.entities
        PROVE  q = Dist2(e.state, d.position.state) /\ q # None
    <3>1. e \in Triggers(context, d)
      BY <2>5 DEF Triggers
    <3>2. euclidean(m) /\ ~ d.freespace /\ d.cs # "trajectory" /\ e.state.z = d.position.state.z
      BY <3>1 DEF Level
    <3>3. m.cs # "trajectory" /\ ~ m.freespace
      BY <3>2 DEF Measurement, effective_coordinate_system
    <3> HIDE DEF m, e
    <3>4. q = Dist2(e.state, d.position.state) + Square(d.position.state.z - e.state.z)
      BY <3>2, <3>3 DEF measure_distance
    <3>5. /\ e.state.x \in Int /\ e.state.y \in Int /\ e.state.z \in Int
          /\ d.position.state.x \in Int /\ d.position.state.y \in Int
      BY <2>2, <2>5 DEF Measurable, Placed
    <3>6. d.position.state.z - e.state.z = 0
      BY <3>2, <3>5
    <3>7. Dist2(e.state, d.position.state) \in Int
      BY <3>5 DEF Dist2
    <3>8. q = Dist2(e.state, d.position.state)
      BY <3>4, <3>6, <3>7 DEF Square
    <3> QED
      BY <3>7, <3>8, NoneAssumption
  <2> QED
    BY <2>2, <2>3, <2>4, <2>5
<1> HIDE DEF r, c
<1>3. /\ evaluate(context, r)
           <=> Enough({id \in Range(d.triggering) : evaluate_for_entity(context, id, r)}, r)
      /\ evaluate(context, c)
           <=> Enough({id \in Range(d.triggering) : evaluate_for_entity(context, id, c)}, c)
  <2>1. r.kind \in ByOne \cup Lasting \cup {"reachPosition"} /\ c.kind \in ByOne \cup Lasting \cup {"reachPosition"}
    BY <1>1 DEF ByOne, Ruled
  <2> QED
    BY <1>1, <2>1, ManyAnswer
<1>4. {id \in Range(d.triggering) : evaluate_for_entity(context, id, r)}
        = {id \in Range(d.triggering) : evaluate_for_entity(context, id, c)}
  BY <1>2
<1>5. evaluate(context, r) <=> evaluate(context, c)
  BY <1>1, <1>3, <1>4 DEF Enough
<1>6. evaluate(context, r) \in BOOLEAN /\ evaluate(context, c) \in BOOLEAN
  BY <1>1, AnswersAreTruths DEF Ruled, Rules
<1> QED
  BY <1>5, <1>6 DEF r, c

LEMMA ClosesNoFaster ==
  ASSUME NEW a, NEW b, NEW spec, Measurable(a, b, spec), ~ b.entity, spec.cs = "entity",
         closing_speed(a, b, spec) # None
  PROVE  LET closing == closing_speed(a, b, spec)
         IN closing.rate * closing.rate <= (a.state.speed * a.state.speed) * closing.root
<1> DEFINE s == a.state  t == b.state  h == s.heading  c == Cos(h)  sn == Sin(h)  w == s.speed
           u == projection_axis(spec, h)
           d2 == Dist2(s, t) + Square(t.z - s.z)
           closing == closing_speed(a, b, spec)
<1>1. /\ s.x \in Int /\ s.y \in Int /\ s.z \in Int /\ h \in Int /\ w \in Int
      /\ t.x \in Int /\ t.y \in Int /\ t.z \in Int /\ a.entity
  BY DEF Measurable, Placed
<1>2. /\ u.x \in Int /\ u.y \in Int /\ Unit(u.x, u.y)
      /\ Unit(c, sn) /\ c \in Int /\ sn \in Int
  BY <1>1, AxesAreUnits, UnitQuarters
<1>3. Velocity(a, h) = [x |-> w * c, y |-> w * sn]
  BY <1>1 DEF Velocity
<1>4. CASE euclidean(spec)
  <2> DEFINE dx == t.x - s.x  dy == t.y - s.y  dz == t.z - s.z  rate == dx * (w * c - 0) + dy * (w * sn - 0)
  <2>1. closing = IF d2 = 0 THEN None ELSE [rate |-> rate, root |-> d2]
    BY <1>3, <1>4 DEF closing_speed
  <2>2. closing.rate = rate /\ closing.root = d2
    <3> HIDE DEF rate, d2
    <3> QED
      BY <2>1
  <2>3. dx \in Int /\ dy \in Int /\ dz \in Int
    BY <1>1
  <2>4. d2 = dx * dx + dy * dy + dz * dz
    <3>1. d2 = (s.x - t.x) * (s.x - t.x) + (s.y - t.y) * (s.y - t.y) + dz * dz
      BY DEF Dist2, Square
    <3> DEFINE ex == s.x - t.x  ey == s.y - t.y
    <3>2. ex = -dx /\ ey = -dy /\ ex * ex = dx * dx /\ ey * ey = dy * dy
      BY <1>1
    <3> QED
      BY <3>1, <3>2
  <2>5. rate = w * (dx * c + dy * sn)
    <3> HIDE DEF dx, dy, c, sn, w
    <3> QED
      BY <1>1, <1>2, <2>3
  <2> DEFINE p == dx * c + dy * sn
  <2>6. p \in {dx, -dx, dy, -dy}
    <3> HIDE DEF dx, dy, c, sn
    <3> QED
      BY <1>2, <2>3 DEF Unit
  <2> HIDE DEF dx, dy, dz, d2, rate, p, closing, w
  <2>7. p * p <= d2 /\ p \in Int /\ d2 \in Int
    <3>1. p * p \in {dx * dx, dy * dy} /\ p \in Int
      BY <2>3, <2>6
    <3>2. dx * dx \in Nat /\ dy * dy \in Nat /\ dz * dz \in Nat
      BY <2>3
    <3> QED
      BY <2>4, <3>1, <3>2
  <2>8. rate * rate = (w * w) * (p * p)
    <3>1. rate = w * p
      BY <2>5 DEF p
    <3> QED
      BY <3>1, <1>1, <2>7
  <2>9. (w * w) * (p * p) <= (w * w) * d2
    <3>1. w * w \in Nat /\ p * p \in Int
      BY <1>1, <2>7
    <3> DEFINE ww == w * w  pp == p * p
    <3> HIDE DEF ww, pp
    <3>2. ww * pp <= ww * d2
      BY <3>1, <2>7 DEF ww, pp
    <3> QED
      BY <3>2 DEF ww, pp
  <2> QED
    BY <2>2, <2>8, <2>9 DEF closing, w
<1>5. CASE ~ euclidean(spec)
  <2> DEFINE separation == (t.x - s.x) * u.x + (t.y - s.y) * u.y
             change == (0 - w * c) * u.x + (0 - w * sn) * u.y
  <2>1. closing = Closing(separation, change)
    BY <1>3, <1>5 DEF closing_speed, by_road
  <2>2. separation \in Int /\ change \in Int
    <3> HIDE DEF u, c, sn, w
    <3> QED
      BY <1>1, <1>2
  <2>3. change \in {w, -w, 0}
    <3> DEFINE ux == u.x  uy == u.y
    <3>1. Unit(ux, uy)
      BY <1>2
    <3> HIDE DEF ux, uy, c, sn, w
    <3>2. (0 - w * c) * ux + (0 - w * sn) * uy \in {w, -w, 0}
      <4> DEFINE p == 0 - w * c  r == 0 - w * sn
      <4>1. \/ (p = w \/ p = -w) /\ r = 0
            \/ p = 0 /\ (r = w \/ r = -w)
        BY <1>1, <1>2 DEF Unit, w
      <4>2. p \in Int /\ r \in Int /\ w \in Int
        BY <1>1, <4>1 DEF w
      <4> HIDE DEF p, r
      <4>3. p * ux + r * uy \in {p, -p, r, -r}
        BY <3>1, <4>2 DEF Unit
      <4>4. p * ux + r * uy \in {w, -w, 0}
        BY <4>1, <4>2, <4>3
      <4> QED
        BY <4>4 DEF p, r
    <3> QED
      BY <3>2 DEF ux, uy
  <2> HIDE DEF separation, change, closing, w
  <2>4. closing.rate \in {change, -change} /\ closing.root = 1
    BY <2>1 DEF Closing, closing
  <2>5. closing.rate * closing.rate <= w * w
    <3>1. closing.rate = w \/ closing.rate = -w \/ closing.rate = 0
      BY <2>3, <2>4, <1>1
    <3>2. w * w \in Nat /\ (-w) * (-w) = w * w
      BY <1>1
    <3> QED
      BY <3>1, <3>2
  <2>6. (w * w) * closing.root = w * w
    BY <2>4, <1>1
  <2> QED
    BY <2>5, <2>6 DEF closing, w
<1> QED
  BY <1>4, <1>5

\* As far in so many seconds at a lower rate is as far at the speed.
LEMMA SlowerTakesLonger ==
  ASSUME NEW q \in Nat, NEW root \in Nat \ {0}, NEW rate \in Nat \ {0}, NEW w \in Nat \ {0}, NEW v \in Int,
         rate * rate <= (w * w) * root,
         CompareRoot(q * root, "lessOrEqual", v * rate)
  PROVE  CompareRoot(q, "lessOrEqual", v * w)
<1> DEFINE x == v * rate  y == v * w  n == q * root
<1>1. x \in Int /\ y \in Int /\ q * root \in Int
  OBVIOUS
<1>2. ~ (x < 0) /\ n <= x * x
  <2>1. x \in Int /\ n \in Int /\ CompareRoot(n, "lessOrEqual", x)
    BY <1>1
  <2> HIDE DEF x, n
  <2>2. CASE x < 0
    BY <2>1, <2>2, ComparisonsAre DEF CompareRoot
  <2>3. CASE ~ (x < 0)
    <3>1. Square(x) = x * x /\ x * x \in Int
      BY <2>1 DEF Square
    <3>2. compare(n, "lessOrEqual", Square(x))
      BY <2>1, <2>3 DEF CompareRoot
    <3> QED
      BY <2>1, <2>3, <3>1, <3>2, ComparisonsAre
  <2> QED
    BY <2>2, <2>3
<1>3. v >= 0
  BY <1>2
<1>4. y >= 0
  BY <1>3
<1>5. x * x = (v * v) * (rate * rate) /\ y * y = (v * v) * (w * w)
  OBVIOUS
<1> DEFINE vv == v * v  rr == rate * rate  ww == w * w
<1>6. vv \in Nat /\ rr \in Nat /\ ww \in Nat /\ rr <= ww * root
  BY <1>3
<1>7. n <= vv * rr /\ x * x = vv * rr /\ y * y = vv * ww
  BY <1>2, <1>5
<1> HIDE DEF x, y, vv, rr, ww
<1>8. vv * rr <= vv * (ww * root)
  <2> DEFINE z == ww * root
  <2>1. z \in Nat /\ rr <= z
    BY <1>6
  <2> HIDE DEF z
  <2>2. vv * rr <= vv * z
    BY <1>6, <2>1
  <2> QED
    BY <2>2 DEF z
<1>9. q * root <= (vv * ww) * root
  <2>1. vv * (ww * root) = (vv * ww) * root
    BY <1>6
  <2>2. vv * rr \in Nat /\ (vv * ww) * root \in Nat
    BY <1>6
  <2> QED
    BY <1>1, <1>7, <1>8, <2>1, <2>2
<1>10. q <= vv * ww
  <2> DEFINE z == vv * ww
  <2>1. z \in Nat /\ q * root <= z * root
    BY <1>6, <1>9
  <2> HIDE DEF z
  <2>2. q <= z
    <3>1. q > z => q * root > z * root
      BY <2>1
    <3> QED
      BY <2>1, <3>1
  <2> QED
    BY <2>2 DEF z
<1> QED
  <2>1. ~ (y < 0) /\ q <= y * y
    BY <1>1, <1>4, <1>7, <1>10
  <2> QED
    BY <2>1 DEF CompareRoot, compare, Square, y

LEMMA CollidingIsAhead ==
  ASSUME Sensible(asked), asked.condition.kind = "timeToCollision", asked.condition.ref = None,
         Ahead(asked.context, asked.condition), NEW i \in DOMAIN asked.values,
         evaluate(asked.context, As("timeToCollision", "lessOrEqual", asked.values[i]))
  PROVE  evaluate(asked.context, As("timeHeadway", "lessOrEqual", asked.values[i]))
<1> DEFINE context == asked.context  d == asked.condition  v == asked.values[i]
           r == As("timeToCollision", "lessOrEqual", v)  c == As("timeHeadway", "lessOrEqual", v)
           m == Measurement(context, d)
<1>1. /\ r.kind = "timeToCollision" /\ r.rule = "lessOrEqual" /\ r.value = v
      /\ r.triggering = d.triggering /\ r.all = d.all
      /\ c.kind = "timeHeadway" /\ c.rule = "lessOrEqual" /\ c.value = v
      /\ c.triggering = d.triggering /\ c.all = d.all
  BY AskedAs DEF Sensible
<1>2. v \in Int
  <2>1. Numbered
    BY ValuesAreNumbers DEF Ruled
  <2> QED
    BY <2>1 DEF Numbered
<1>3. ASSUME NEW id \in Range(d.triggering), evaluate_for_entity(context, id, r)
      PROVE  evaluate_for_entity(context, id, c)
  <2> DEFINE e == context.entities[id]  p == d.position
             q == measure_distance(e, p, m)  closing == closing_speed(e, p, m)
  <2>1. Target(context, d) = p
    BY DEF Target
  <2>2. /\ evaluate_for_entity(context, id, r) <=> id \in DOMAIN context.entities /\ OfTarget(e, p, r, m)
        /\ evaluate_for_entity(context, id, c) <=> id \in DOMAIN context.entities /\ OfTarget(e, p, c, m)
        /\ id \in DOMAIN context.entities => Measurable(e, p, m)
    <3>1. "timeToCollision" \in AtTarget /\ "timeHeadway" \in AtTarget
      BY DEF AtTarget, OverDistance
    <3> QED
      BY <2>1, <3>1, TargetsAreAsked
  <2> HIDE DEF r, c
  <2>3. OfTarget(e, p, r, m) <=> TimeToCollisionHolds(q, closing, r)
    <3>1. OfTarget(e, p, r, m) <=> OfDistance(q, e, p, r, m)
      BY <1>1 DEF OfTarget
    <3> HIDE DEF q
    <3> QED
      BY <1>1, <3>1 DEF OfDistance
  <2>4. OfTarget(e, p, c, m) <=> TimeHeadwayHolds(q, e, c)
    <3>1. OfTarget(e, p, c, m) <=> OfDistance(q, e, p, c, m)
      BY <1>1 DEF OfTarget
    <3> HIDE DEF q
    <3> QED
      BY <1>1, <3>1 DEF OfDistance
  <2>5. id \in DOMAIN context.entities /\ Measurable(e, p, m)
    BY <1>3, <2>2
  <2>6. /\ q # None /\ closing # None /\ closing.rate > 0
        /\ CompareRoot(q * closing.root, "lessOrEqual", v * closing.rate)
    <3>1. TimeToCollisionHolds(q, closing, r)
      BY <1>3, <2>2, <2>3
    <3> HIDE DEF q, closing
    <3> QED
      BY <1>1, <3>1 DEF TimeToCollisionHolds
  <2>7. q \in Nat /\ closing.rate \in Int /\ closing.root \in Nat \ {0}
    BY <2>5, <2>6, DistancesAreWhole, ClosingSpeedsAreWhole DEF Closes
  <2>8. e.state.speed > 0 /\ e.state.speed \in Int /\ m.cs = "entity"
    <3>1. e \in Triggers(context, d)
      BY <2>5 DEF Triggers
    <3> HIDE DEF m
    <3>2. e.state.speed > 0 /\ m.cs = "entity"
      BY <3>1 DEF Ahead, m
    <3>3. e.state.speed \in Int
      BY <2>5 DEF Measurable, Placed
    <3> QED
      BY <3>2, <3>3
  <2>9. ~ p.entity
    BY DEF Sensible
  <2>10. closing.rate * closing.rate <= (e.state.speed * e.state.speed) * closing.root
    <3> HIDE DEF m, e, p
    <3> QED
      BY <2>5, <2>6, <2>8, <2>9, ClosesNoFaster
  <2>11. CompareRoot(q, "lessOrEqual", v * e.state.speed)
    <3> DEFINE rate == closing.rate  root == closing.root  w == e.state.speed
    <3>1. rate \in Nat \ {0} /\ root \in Nat \ {0} /\ w \in Nat \ {0}
      BY <2>6, <2>7, <2>8
    <3> HIDE DEF q, closing, e
    <3>2. CompareRoot(q * root, "lessOrEqual", v * rate) /\ rate * rate <= (w * w) * root
      BY <2>6, <2>10
    <3> HIDE DEF rate, root, w
    <3>3. CompareRoot(q, "lessOrEqual", v * w)
      BY <1>2, <2>7, <3>1, <3>2, SlowerTakesLonger
    <3> QED
      BY <3>3 DEF w
  <2>12. TimeHeadwayHolds(q, e, c)
    <3> HIDE DEF q, e
    <3> QED
      BY <1>1, <2>6, <2>8, <2>11 DEF TimeHeadwayHolds
  <2> QED
    BY <2>2, <2>4, <2>5, <2>12
<1> HIDE DEF r, c
<1>4. /\ evaluate(context, r)
           <=> Enough({id \in Range(d.triggering) : evaluate_for_entity(context, id, r)}, r)
      /\ evaluate(context, c)
           <=> Enough({id \in Range(d.triggering) : evaluate_for_entity(context, id, c)}, c)
  <2>1. r.kind \in ByOne \cup Lasting \cup {"reachPosition"} /\ c.kind \in ByOne \cup Lasting \cup {"reachPosition"}
    BY <1>1 DEF ByOne, Ruled
  <2> QED
    BY <1>1, <2>1, ManyAnswer
<1>5. {id \in Range(d.triggering) : evaluate_for_entity(context, id, r)}
        \subseteq {id \in Range(d.triggering) : evaluate_for_entity(context, id, c)}
  BY <1>3
<1>6. evaluate(context, r)
  BY DEF r
<1>7. evaluate(context, c)
  <2> DEFINE fewer == {id \in Range(d.triggering) : evaluate_for_entity(context, id, r)}
             more == {id \in Range(d.triggering) : evaluate_for_entity(context, id, c)}
  <2>1. Enough(fewer, r) /\ fewer \subseteq more /\ more \subseteq Range(r.triggering)
    BY <1>1, <1>4, <1>5, <1>6
  <2> HIDE DEF fewer, more
  <2>2. Enough(more, c)
    BY <1>1, <2>1, EnoughMore
  <2> QED
    BY <1>4, <2>2 DEF more
<1> QED
  BY <1>7 DEF c

LEMMA TablesAgree ==
  ASSUME Sensible(asked)
  PROVE  Agree(Table({asked.condition.kind} \cup Alike(asked.context, asked.condition)))
<1> DEFINE d == asked.condition  kinds == {d.kind} \cup Alike(asked.context, d)  tables == Table(kinds)
           D == DOMAIN asked.values
<1>1. DOMAIN tables = kinds
  BY DEF Table
<1>2. \A kind \in kinds : tables[kind]["lessOrEqual"]
                            = [i \in D |-> evaluate(asked.context, As(kind, "lessOrEqual", asked.values[i]))]
  BY DEF Table, As, Rules
<1>3. CASE d.kind = "distance" /\ d.ref = None /\ Level(asked.context, d)
  <2>1. Alike(asked.context, d) = {"reachPosition"}
    BY <1>3 DEF Alike
  <2>2. \A i \in D : evaluate(asked.context, As("reachPosition", "lessOrEqual", asked.values[i]))
                       = evaluate(asked.context, As("distance", "lessOrEqual", asked.values[i]))
    BY <1>3, ReachingIsAtMost
  <2>3. tables["reachPosition"]["lessOrEqual"] = tables["distance"]["lessOrEqual"]
    <3> HIDE DEF tables
    <3> QED
      BY <1>2, <1>3, <2>1, <2>2
  <2> HIDE DEF tables
  <2> QED
    BY <1>1, <1>3, <2>1, <2>3 DEF Agree, AtMost, tables
<1>4. CASE d.kind = "timeToCollision" /\ d.ref = None /\ Ahead(asked.context, d)
  <2>1. Alike(asked.context, d) = {"timeHeadway"}
    BY <1>4 DEF Alike
  <2>2. \A i \in D : evaluate(asked.context, As("timeToCollision", "lessOrEqual", asked.values[i]))
                       => evaluate(asked.context, As("timeHeadway", "lessOrEqual", asked.values[i]))
    BY <1>4, CollidingIsAhead
  <2>3. \A i \in D : tables["timeToCollision"]["lessOrEqual"][i] => tables["timeHeadway"]["lessOrEqual"][i]
    <3> HIDE DEF tables
    <3> QED
      BY <1>2, <1>4, <2>1, <2>2
  <2> HIDE DEF tables
  <2> QED
    BY <1>1, <1>4, <2>1, <2>3 DEF Agree, AtMost, tables
<1>5. CASE ~ (d.kind = "distance" /\ d.ref = None /\ Level(asked.context, d))
           /\ ~ (d.kind = "timeToCollision" /\ d.ref = None /\ Ahead(asked.context, d))
  <2>1. kinds = {d.kind}
    BY <1>5 DEF Alike
  <2> HIDE DEF tables
  <2> QED
    BY <1>1, <2>1 DEF Agree, tables
<1> QED
  BY <1>3, <1>4, <1>5

\* One number stands behind the answers to a condition (rule.cpp:26-111), the kinds
\* that measure the same agree, whatever condition is asked about and wherever.
THEOREM AnswersStayCoherent == Spec => []AnswersAreCoherent
<1>1. Put => AnswersAreCoherent
  <2> SUFFICES ASSUME Put, Answered("condition")
               PROVE  AnswersAreCoherent
    BY DEF AnswersAreCoherent
  <2> DEFINE k == asked.condition.kind  kinds == {k} \cup Alike(asked.context, asked.condition)
             tables == Table(kinds)
  <2>1. Sensible(asked)
    BY ConditionsAssumption DEF Put, Answered
  <2>2. k \in kinds
    OBVIOUS
  <2>3. Agree(tables)
    BY <2>1, TablesAgree
  <2> HIDE DEF kinds
  <2>4. k \in Ruled /\ Single(asked.condition) => Nothing(tables[k]) \/ OneNumber(tables[k], DOMAIN asked.values)
    BY <2>1, <2>2, TimesCohere, EntitiesCohere DEF ByOne
  <2>5. k \in Texts => \/ Nothing(tables[k])
                       \/ OneText(tables[k], DOMAIN asked.values)
                       \/ OneNumber(tables[k], Numerals) /\ OneText(tables[k], DOMAIN asked.values \ Numerals)
    BY <2>1, <2>2, TextsCohere
  <2>6. k \in Lasting =>
          \A i, j \in DOMAIN asked.values : i < j /\ tables[k]["equalTo"][j] => tables[k]["equalTo"][i]
    BY <2>1, <2>2, LastingCoheres
  <2>7. Coherent(k, tables[k])
    BY <2>4, <2>5, <2>6 DEF Coherent
  <2>8. AreCoherent(tables, k)
    BY <2>3, <2>7 DEF AreCoherent
  <2> QED
    BY <2>8 DEF AnswersAreCoherent, kinds
<1> QED
  BY <1>1, AlwaysPut, PTL

---------------------------------------------------------------------------
(* Boxes that face along the axes of the world, as a width and a height.          *)

Wide(o) == IF o.s = 0 THEN o.hx ELSE o.hy
High(o) == IF o.s = 0 THEN o.hy ELSE o.hx
Faces(o) == Boxed(o) /\ Unit(o.c, o.s)
\* How far something is from the middle of a width, past its ends.
Past(p, x, w) == Larger(0, Magnitude(p - x) - w)
East == [x |-> Cos(0), y |-> Sin(0)]
North == [x |-> Cos(1), y |-> Sin(1)]

LEMMA WorldAxes == East = [x |-> 1, y |-> 0] /\ North = [x |-> 0, y |-> 1]
BY DEF East, North, Cos, Sin

LEMMA SizesAreWhole ==
  ASSUME NEW o, Faces(o)
  PROVE  Wide(o) \in Nat /\ High(o) \in Nat
BY DEF Faces, Boxed, Wide, High

LEMMA RadiiAre ==
  ASSUME NEW o, Faces(o)
  PROVE  /\ projected_radius(o, East) = Wide(o) /\ projected_radius(o, North) = High(o)
<1> DEFINE hx == o.hx  hy == o.hy
<1>1. hx \in Nat /\ hy \in Nat
  BY DEF Faces, Boxed
<1>2. /\ projected_radius(o, East) = hx * Magnitude(o.c * 1 + o.s * 0) + hy * Magnitude(o.c * 0 - o.s * 1)
      /\ projected_radius(o, North) = hx * Magnitude(o.c * 0 + o.s * 1) + hy * Magnitude(o.c * 1 - o.s * 0)
  BY WorldAxes DEF projected_radius
<1>3. /\ (o.c = 1 /\ o.s = 0) \/ (o.c = -1 /\ o.s = 0) => Wide(o) = hx /\ High(o) = hy
      /\ (o.c = 0 /\ o.s = 1) \/ (o.c = 0 /\ o.s = -1) => Wide(o) = hy /\ High(o) = hx
  BY DEF Wide, High
<1> HIDE DEF hx, hy
<1>4. CASE o.c = 1 /\ o.s = 0
  BY <1>1, <1>2, <1>3, <1>4 DEF Magnitude
<1>5. CASE o.c = -1 /\ o.s = 0
  BY <1>1, <1>2, <1>3, <1>5 DEF Magnitude
<1>6. CASE o.c = 0 /\ o.s = 1
  <2>1. /\ Magnitude(o.c * 1 + o.s * 0) = 0 /\ Magnitude(o.c * 0 - o.s * 1) = 1
        /\ Magnitude(o.c * 0 + o.s * 1) = 1 /\ Magnitude(o.c * 1 - o.s * 0) = 0
    <3>1. o.c * 1 + o.s * 0 = 0 /\ o.c * 0 - o.s * 1 = -1 /\ o.c * 0 + o.s * 1 = 1 /\ o.c * 1 - o.s * 0 = 0
      BY <1>6
    <3>2. \A x \in Int : Magnitude(x) = IF x < 0 THEN -x ELSE x
      BY DEF Magnitude
    <3> QED
      BY <3>1, <3>2
  <2>2. /\ projected_radius(o, East) = hx * 0 + hy * 1
        /\ projected_radius(o, North) = hx * 1 + hy * 0
    BY <1>2, <2>1
  <2>3. Wide(o) = hy /\ High(o) = hx
    BY <1>3, <1>6
  <2> QED
    BY <1>1, <2>2, <2>3
<1>7. CASE o.c = 0 /\ o.s = -1
  BY <1>1, <1>2, <1>3, <1>7 DEF Magnitude
<1> QED
  BY <1>4, <1>5, <1>6, <1>7 DEF Faces, Unit

LEMMA ShadowsAre ==
  ASSUME NEW o, Faces(o)
  PROVE  /\ obb_project(o, East).lo = o.x - Wide(o) /\ obb_project(o, East).hi = o.x + Wide(o)
         /\ obb_project(o, North).lo = o.y - High(o) /\ obb_project(o, North).hi = o.y + High(o)
<1>1. o.x * 1 + o.y * 0 = o.x /\ o.x * 0 + o.y * 1 = o.y
  BY DEF Faces, Boxed
<1> QED
  BY <1>1, RadiiAre, WorldAxes DEF obb_project

\* A box is apart along an axis of either as it is along the axes of the world.
LEMMA AxesAreTheWorlds ==
  ASSUME NEW a, Faces(a), NEW b, Faces(b)
  PROVE  obb_intersects(a, b) <=> /\ Magnitude(b.x - a.x) <= Wide(a) + Wide(b)
                                  /\ Magnitude(b.y - a.y) <= High(a) + High(b)
<1> DEFINE across == Magnitude(b.x - a.x) > Wide(a) + Wide(b)
           along == Magnitude(b.y - a.y) > High(a) + High(b)
           West == [x |-> -1, y |-> 0]  South == [x |-> 0, y |-> -1]
           dx == b.x - a.x  dy == b.y - a.y
<1>0. dx \in Int /\ dy \in Int
  BY DEF Faces, Boxed
<1>1. projected_radius(a, West) = Wide(a) /\ projected_radius(b, West) = Wide(b)
      /\ projected_radius(a, South) = High(a) /\ projected_radius(b, South) = High(b)
  <2>1. ASSUME NEW o, Faces(o)
        PROVE  projected_radius(o, West) = projected_radius(o, East)
               /\ projected_radius(o, South) = projected_radius(o, North)
    <3>1. /\ Magnitude(o.c * (-1) + o.s * 0) = Magnitude(o.c * 1 + o.s * 0)
          /\ Magnitude(o.c * 0 - o.s * (-1)) = Magnitude(o.c * 0 - o.s * 1)
          /\ Magnitude(o.c * 0 + o.s * (-1)) = Magnitude(o.c * 0 + o.s * 1)
          /\ Magnitude(o.c * (-1) - o.s * 0) = Magnitude(o.c * 1 - o.s * 0)
      BY <2>1 DEF Faces, Boxed, Magnitude
    <3> QED
      BY <3>1, WorldAxes DEF projected_radius
  <2> QED
    BY <2>1, RadiiAre
<1>2. /\ Magnitude(dx * 1 + dy * 0) = Magnitude(dx) /\ Magnitude(dx * (-1) + dy * 0) = Magnitude(dx)
      /\ Magnitude(dx * 0 + dy * 1) = Magnitude(dy) /\ Magnitude(dx * 0 + dy * (-1)) = Magnitude(dy)
  <2> HIDE DEF dx, dy
  <2> QED
    BY <1>0 DEF Magnitude
<1>3. /\ separated_on_axis(a, b, East) <=> across
      /\ separated_on_axis(a, b, West) <=> across
      /\ separated_on_axis(a, b, North) <=> along
      /\ separated_on_axis(a, b, South) <=> along
  BY <1>1, <1>2, RadiiAre, WorldAxes DEF separated_on_axis
<1>4. ASSUME NEW o, Faces(o)
      PROVE  /\ Axes(o) \subseteq {East, West, North, South}
             /\ \E u \in Axes(o) : u \in {East, West}
             /\ \E u \in Axes(o) : u \in {North, South}
  <2>1. CASE o.c = 1 /\ o.s = 0
    BY <2>1, WorldAxes DEF Axes
  <2>2. CASE o.c = -1 /\ o.s = 0
    BY <2>2, WorldAxes DEF Axes
  <2>3. CASE o.c = 0 /\ o.s = 1
    BY <2>3, WorldAxes DEF Axes
  <2>4. CASE o.c = 0 /\ o.s = -1
    BY <2>4, WorldAxes DEF Axes
  <2> QED
    BY <1>4, <2>1, <2>2, <2>3, <2>4 DEF Faces, Unit
<1> HIDE DEF across, along, West, South
<1>5. obb_intersects(a, b) <=> ~ across /\ ~ along
  <2>1. obb_intersects(a, b) <=> \A u \in Axes(a) \cup Axes(b) : ~ separated_on_axis(a, b, u)
    BY DEF obb_intersects
  <2> QED
    BY <1>3, <1>4, <2>1
<1>6. Magnitude(dx) \in Int /\ Magnitude(dy) \in Int
  <2> HIDE DEF dx, dy
  <2> QED
    BY <1>0 DEF Magnitude
<1>7. Wide(a) \in Nat /\ Wide(b) \in Nat /\ High(a) \in Nat /\ High(b) \in Nat
  BY SizesAreWhole
<1> QED
  BY <1>5, <1>6, <1>7 DEF across, along

LEMMA WithinOrPast ==
  ASSUME NEW l \in Int, NEW w \in Nat
  PROVE  Square(l - Clamped(l, -w, w)) = Square(Past(l, 0, w)) /\ Past(l, 0, w) \in Nat
<1>1. l - Clamped(l, -w, w) = Past(l, 0, w) \/ l - Clamped(l, -w, w) = - Past(l, 0, w)
  BY DEF Clamped, Past, Larger, Magnitude
<1>2. Past(l, 0, w) \in Nat
  BY DEF Past, Larger, Magnitude
<1> DEFINE p == Past(l, 0, w)
<1>3. Square(p) = Square(-p)
  <2> HIDE DEF p
  <2> QED
    BY <1>2 DEF Square, p
<1> QED
  BY <1>1, <1>2, <1>3

LEMMA PastEither ==
  ASSUME NEW p \in Int, NEW x \in Int, NEW w \in Nat
  PROVE  /\ Past(p - x, 0, w) = Past(p, x, w) /\ Past(x - p, 0, w) = Past(p, x, w)
         /\ Past(p, x, w) \in Nat
BY DEF Past, Larger, Magnitude

\* The distance of a point from a box is how far it is past its width and its height.
LEMMA PointsArePast ==
  ASSUME NEW p, p.x \in Int, p.y \in Int, NEW o, Faces(o)
  PROVE  point_obb_distance(p, o) = Square(Past(p.x, o.x, Wide(o))) + Square(Past(p.y, o.y, High(o)))
<1> DEFINE rx == p.x - o.x  ry == p.y - o.y
           lx == rx * o.c + ry * o.s  ly == ry * o.c - rx * o.s
           east == Square(Past(p.x, o.x, Wide(o)))  north == Square(Past(p.y, o.y, High(o)))
<1>0. o.x \in Int /\ o.y \in Int /\ rx \in Int /\ ry \in Int /\ o.hx \in Nat /\ o.hy \in Nat
  BY DEF Faces, Boxed
<1>1. point_obb_distance(p, o) = Square(lx - Clamped(lx, -o.hx, o.hx)) + Square(ly - Clamped(ly, -o.hy, o.hy))
  BY DEF point_obb_distance
<1>2. /\ Past(rx, 0, Wide(o)) = Past(p.x, o.x, Wide(o)) /\ Past(-rx, 0, Wide(o)) = Past(p.x, o.x, Wide(o))
      /\ Past(ry, 0, High(o)) = Past(p.y, o.y, High(o)) /\ Past(-ry, 0, High(o)) = Past(p.y, o.y, High(o))
      /\ Past(p.x, o.x, Wide(o)) \in Nat /\ Past(p.y, o.y, High(o)) \in Nat
  <2>1. -rx = o.x - p.x /\ -ry = o.y - p.y
    BY <1>0
  <2>2. p.x \in Int /\ p.y \in Int /\ Wide(o) \in Nat /\ High(o) \in Nat
    BY SizesAreWhole
  <2>3. Past(rx, 0, Wide(o)) = Past(p.x, o.x, Wide(o)) /\ Past(o.x - p.x, 0, Wide(o)) = Past(p.x, o.x, Wide(o))
        /\ Past(p.x, o.x, Wide(o)) \in Nat
    BY <1>0, <2>2, PastEither
  <2>4. Past(ry, 0, High(o)) = Past(p.y, o.y, High(o)) /\ Past(o.y - p.y, 0, High(o)) = Past(p.y, o.y, High(o))
        /\ Past(p.y, o.y, High(o)) \in Nat
    BY <1>0, <2>2, PastEither
  <2> QED
    BY <2>1, <2>3, <2>4
<1>3. lx \in Int /\ ly \in Int
  BY <1>0 DEF Faces, Boxed
<1>4. point_obb_distance(p, o) = Square(Past(lx, 0, o.hx)) + Square(Past(ly, 0, o.hy))
  <2> HIDE DEF lx, ly
  <2> QED
    BY <1>0, <1>1, <1>3, WithinOrPast
<1>5. /\ Past(rx, 0, Wide(o)) = Past(-rx, 0, Wide(o)) /\ Past(ry, 0, High(o)) = Past(-ry, 0, High(o))
  BY <1>2
<1>6. east \in Nat /\ north \in Nat
  BY <1>2, SquareIs
<1> HIDE DEF rx, ry
<1>7. /\ o.c = 1 /\ o.s = 0 => lx = rx /\ ly = ry /\ Wide(o) = o.hx /\ High(o) = o.hy
      /\ o.c = -1 /\ o.s = 0 => lx = -rx /\ ly = -ry /\ Wide(o) = o.hx /\ High(o) = o.hy
      /\ o.c = 0 /\ o.s = 1 => lx = ry /\ ly = -rx /\ Wide(o) = o.hy /\ High(o) = o.hx
      /\ o.c = 0 /\ o.s = -1 => lx = -ry /\ ly = rx /\ Wide(o) = o.hy /\ High(o) = o.hx
  BY <1>0 DEF Wide, High
<1> HIDE DEF lx, ly
<1>8. CASE (o.c = 1 /\ o.s = 0) \/ (o.c = -1 /\ o.s = 0)
  <2>1. Past(lx, 0, o.hx) = Past(p.x, o.x, Wide(o)) /\ Past(ly, 0, o.hy) = Past(p.y, o.y, High(o))
    BY <1>2, <1>7, <1>8
  <2> QED
    BY <1>4, <2>1
<1>9. CASE (o.c = 0 /\ o.s = 1) \/ (o.c = 0 /\ o.s = -1)
  <2>1. Past(lx, 0, o.hx) = Past(p.y, o.y, High(o)) /\ Past(ly, 0, o.hy) = Past(p.x, o.x, Wide(o))
    BY <1>2, <1>7, <1>9
  <2>2. point_obb_distance(p, o) = north + east
    BY <1>4, <2>1
  <2> HIDE DEF east, north
  <2>3. north + east = east + north
    BY <1>6
  <2> QED
    BY <2>2, <2>3 DEF east, north
<1> QED
  BY <1>8, <1>9 DEF Faces, Unit

Faced(o, p) == p.x \in {o.x + Wide(o), o.x - Wide(o)} /\ p.y \in {o.y + High(o), o.y - High(o)}

LEMMA CornersFace ==
  ASSUME NEW o, Faces(o)
  PROVE  /\ \A p \in world_corners(o) : Faced(o, p)
         /\ \A p : Faced(o, p) => \E q \in world_corners(o) : q.x = p.x /\ q.y = p.y
<1> DEFINE K == [x : {o.hx, -o.hx}, y : {o.hy, -o.hy}]
           corner(k) == [x |-> o.x + k.x * o.c - k.y * o.s, y |-> o.y + k.x * o.s + k.y * o.c]
<1>1. world_corners(o) = {corner(k) : k \in K}
  BY DEF world_corners
<1>2. o.x \in Int /\ o.y \in Int /\ o.hx \in Nat /\ o.hy \in Nat
  BY DEF Faces, Boxed
<1>3. /\ o.c = 1 /\ o.s = 0 => Wide(o) = o.hx /\ High(o) = o.hy
      /\ o.c = -1 /\ o.s = 0 => Wide(o) = o.hx /\ High(o) = o.hy
      /\ o.c = 0 /\ o.s = 1 => Wide(o) = o.hy /\ High(o) = o.hx
      /\ o.c = 0 /\ o.s = -1 => Wide(o) = o.hy /\ High(o) = o.hx
  BY DEF Wide, High
<1> DEFINE turned(kx, ky) == [x |-> o.x + kx * o.c - ky * o.s, y |-> o.y + kx * o.s + ky * o.c]
<1>4. ASSUME NEW kx \in Int, NEW ky \in Int
      PROVE  /\ o.c = 1 /\ o.s = 0 => turned(kx, ky).x = o.x + kx /\ turned(kx, ky).y = o.y + ky
             /\ o.c = -1 /\ o.s = 0 => turned(kx, ky).x = o.x - kx /\ turned(kx, ky).y = o.y - ky
             /\ o.c = 0 /\ o.s = 1 => turned(kx, ky).x = o.x - ky /\ turned(kx, ky).y = o.y + kx
             /\ o.c = 0 /\ o.s = -1 => turned(kx, ky).x = o.x + ky /\ turned(kx, ky).y = o.y - kx
  BY <1>2
<1>5. \A k \in K : corner(k) = turned(k.x, k.y)
  OBVIOUS
<1>6. \A kx \in {o.hx, -o.hx}, ky \in {o.hy, -o.hy} : turned(kx, ky) \in world_corners(o)
  <2> SUFFICES ASSUME NEW kx \in {o.hx, -o.hx}, NEW ky \in {o.hy, -o.hy}
               PROVE  turned(kx, ky) \in world_corners(o)
    OBVIOUS
  <2> DEFINE k == [x |-> kx, y |-> ky]
  <2>1. k \in K /\ k.x = kx /\ k.y = ky
    OBVIOUS
  <2>2. turned(kx, ky) = corner(k)
    BY <2>1
  <2> HIDE DEF turned, corner, k, K
  <2> QED
    BY <1>1, <2>1, <2>2
<1>7. \A q \in world_corners(o) : \E kx \in {o.hx, -o.hx}, ky \in {o.hy, -o.hy} : q = turned(kx, ky)
  <2>1. \A k \in K : k.x \in {o.hx, -o.hx} /\ k.y \in {o.hy, -o.hy}
    OBVIOUS
  <2> HIDE DEF turned, corner, K
  <2> QED
    BY <1>1, <1>5, <2>1
<1> HIDE DEF turned, corner, K
<1>8. \A p \in world_corners(o) : Faced(o, p)
  <2> SUFFICES ASSUME NEW kx \in {o.hx, -o.hx}, NEW ky \in {o.hy, -o.hy}
               PROVE  Faced(o, turned(kx, ky))
    BY <1>7
  <2>1. kx \in Int /\ ky \in Int
    BY <1>2
  <2>2. kx + -kx = 0 /\ ky + -ky = 0 /\ -kx \in {o.hx, -o.hx} /\ -ky \in {o.hy, -o.hy}
        /\ o.x - kx = o.x + -kx /\ o.y - ky = o.y + -ky /\ o.x - ky = o.x + -ky /\ o.y - kx = o.y + -kx
    BY <1>2
  <2> DEFINE t == turned(kx, ky)
  <2>3. /\ o.c = 1 /\ o.s = 0 => t.x = o.x + kx /\ t.y = o.y + ky
        /\ o.c = -1 /\ o.s = 0 => t.x = o.x + -kx /\ t.y = o.y + -ky
        /\ o.c = 0 /\ o.s = 1 => t.x = o.x + -ky /\ t.y = o.y + kx
        /\ o.c = 0 /\ o.s = -1 => t.x = o.x + ky /\ t.y = o.y + -kx
    BY <1>4, <2>1, <2>2
  <2>4. \A i : /\ i \in {o.hx, -o.hx} => o.x + i \in {o.x + o.hx, o.x - o.hx} /\ o.y + i \in {o.y + o.hx, o.y - o.hx}
             /\ i \in {o.hy, -o.hy} => o.x + i \in {o.x + o.hy, o.x - o.hy} /\ o.y + i \in {o.y + o.hy, o.y - o.hy}
    BY <1>2
  <2> HIDE DEF t
  <2>5. Faced(o, t)
    BY <1>3, <2>2, <2>3, <2>4 DEF Faced, Faces, Unit
  <2> QED
    BY <2>5 DEF t
<1>9. ASSUME NEW p, Faced(o, p)
      PROVE  \E q \in world_corners(o) : q.x = p.x /\ q.y = p.y
  <2> DEFINE i == p.x - o.x  j == p.y - o.y
  <2>1. /\ i \in {Wide(o), -Wide(o)} /\ j \in {High(o), -High(o)} /\ i \in Int /\ j \in Int
        /\ p.x = o.x + i /\ p.y = o.y + j /\ -(-i) = i /\ -(-j) = j /\ -i \in Int /\ -j \in Int
    BY <1>2, <1>9, SizesAreWhole DEF Faced
  <2>2. /\ o.x - -i = o.x + i /\ o.y - -j = o.y + j
    BY <1>2, <2>1
  <2> HIDE DEF i, j
  <2>3. CASE o.c = 1 /\ o.s = 0
    <3>1. i \in {o.hx, -o.hx} /\ j \in {o.hy, -o.hy}
      BY <1>3, <2>1, <2>3
    <3>2. turned(i, j).x = p.x /\ turned(i, j).y = p.y
      BY <1>4, <2>1, <2>3
    <3> QED
      BY <1>6, <3>1, <3>2
  <2>4. CASE o.c = -1 /\ o.s = 0
    <3>1. -i \in {o.hx, -o.hx} /\ -j \in {o.hy, -o.hy}
      BY <1>2, <1>3, <2>1, <2>4
    <3>2. turned(-i, -j).x = p.x /\ turned(-i, -j).y = p.y
      BY <1>4, <2>1, <2>2, <2>4
    <3> QED
      BY <1>6, <3>1, <3>2
  <2>5. CASE o.c = 0 /\ o.s = 1
    <3>1. j \in {o.hx, -o.hx} /\ -i \in {o.hy, -o.hy}
      BY <1>2, <1>3, <2>1, <2>5
    <3>2. turned(j, -i).x = p.x /\ turned(j, -i).y = p.y
      BY <1>4, <2>1, <2>2, <2>5
    <3> QED
      BY <1>6, <3>1, <3>2
  <2>6. CASE o.c = 0 /\ o.s = -1
    <3>1. -j \in {o.hx, -o.hx} /\ i \in {o.hy, -o.hy}
      BY <1>2, <1>3, <2>1, <2>6
    <3>2. turned(-j, i).x = p.x /\ turned(-j, i).y = p.y
      BY <1>4, <2>1, <2>2, <2>6
    <3> QED
      BY <1>6, <3>1, <3>2
  <2> QED
    BY <2>3, <2>4, <2>5, <2>6 DEF Faces, Unit
<1> QED
  BY <1>8, <1>9

\* The ends of one width from another: none is closer than the room, one of either
\* is as close, and one of each where there is room.
Ends(x, w, y, v) == {e \in {x + w, x - w} : Past(e, y, v) = Past(x, y, w + v)}
EndsFrom(x, w, y, v) ==
  /\ Past(x, y, w + v) \in Nat /\ Past(x, y, w + v) = Past(y, x, v + w)
  /\ \A e \in {x + w, x - w} : Past(x, y, w + v) <= Past(e, y, v) /\ Past(e, y, v) \in Nat
  /\ Ends(x, w, y, v) # {} \/ Ends(y, v, x, w) # {}
  /\ Past(x, y, w + v) > 0 => Ends(x, w, y, v) # {} /\ Ends(y, v, x, w) # {}

LEMMA EndsArePast ==
  ASSUME NEW x \in Int, NEW w \in Nat, NEW y \in Int, NEW v \in Nat
  PROVE  EndsFrom(x, w, y, v)
<1> DEFINE room == Past(x, y, w + v)
<1>1. room \in Nat /\ room = Past(y, x, v + w)
  BY DEF Past, Larger, Magnitude
<1>2. \A e \in {x + w, x - w} : room <= Past(e, y, v) /\ Past(e, y, v) \in Nat
  BY DEF Past, Larger, Magnitude
<1>4. room > 0 => /\ Past(x + w, y, v) = room \/ Past(x - w, y, v) = room
                  /\ Past(y + v, x, w) = room \/ Past(y - v, x, w) = room
  <2>1. CASE x >= y
    <3>1. room > 0 => Past(x - w, y, v) = room /\ Past(y + v, x, w) = room
      BY <2>1 DEF Past, Larger, Magnitude
    <3> QED
      BY <3>1
  <2>2. CASE x < y
    <3>1. room > 0 => Past(x + w, y, v) = room /\ Past(y - v, x, w) = room
      BY <2>2 DEF Past, Larger, Magnitude
    <3> QED
      BY <3>1
  <2> QED
    BY <2>1, <2>2
<1>5. \/ Past(x + w, y, v) = room \/ Past(x - w, y, v) = room
      \/ Past(y + v, x, w) = room \/ Past(y - v, x, w) = room
  <2>1. CASE x >= y
    <3>1. Past(x - w, y, v) = room \/ Past(y + v, x, w) = room
      BY <2>1 DEF Past, Larger, Magnitude
    <3> QED
      BY <3>1
  <2>2. CASE x < y
    <3>1. Past(x + w, y, v) = room \/ Past(y - v, x, w) = room
      BY <2>2 DEF Past, Larger, Magnitude
    <3> QED
      BY <3>1
  <2> QED
    BY <2>1, <2>2
<1>6. /\ Ends(x, w, y, v) # {} <=> Past(x + w, y, v) = room \/ Past(x - w, y, v) = room
      /\ Ends(y, v, x, w) # {} <=> Past(y + v, x, w) = room \/ Past(y - v, x, w) = room
  <2> HIDE DEF room
  <2>1. Ends(x, w, y, v) = {e \in {x + w, x - w} : Past(e, y, v) = room}
    BY DEF Ends, room
  <2>2. Ends(y, v, x, w) = {e \in {y + v, y - v} : Past(e, x, w) = room}
    BY <1>1 DEF Ends, room
  <2> QED
    BY <2>1, <2>2
<1> HIDE DEF room
<1> QED
  BY <1>1, <1>2, <1>4, <1>5, <1>6 DEF EndsFrom, room

LEMMA NoRoomIsClose ==
  ASSUME NEW x \in Int, NEW y \in Int, NEW w \in Nat
  PROVE  Past(x, y, w) = 0 <=> Magnitude(y - x) <= w
BY DEF Past, Larger, Magnitude

\* The room between two boxes in width and in height.
WideRoom(u, v) == Past(u.x, v.x, Wide(u) + Wide(v))
HighRoom(u, v) == Past(u.y, v.y, High(u) + High(v))
FarCorners(u, v) == {point_obb_distance(p, v) : p \in world_corners(u)}
WideEnds(u, v) == Ends(u.x, Wide(u), v.x, Wide(v))
HighEnds(u, v) == Ends(u.y, High(u), v.y, High(v))

LEMMA RoomsAre ==
  ASSUME NEW u, Faces(u), NEW v, Faces(v)
  PROVE  /\ WideRoom(u, v) \in Nat /\ HighRoom(u, v) \in Nat
         /\ WideRoom(u, v) = WideRoom(v, u) /\ HighRoom(u, v) = HighRoom(v, u)
         /\ WideEnds(u, v) # {} \/ WideEnds(v, u) # {}
         /\ HighEnds(u, v) # {} \/ HighEnds(v, u) # {}
         /\ WideRoom(u, v) > 0 => WideEnds(u, v) # {} /\ WideEnds(v, u) # {}
         /\ HighRoom(u, v) > 0 => HighEnds(u, v) # {} /\ HighEnds(v, u) # {}
         /\ \A e \in {u.x + Wide(u), u.x - Wide(u)} :
              WideRoom(u, v) <= Past(e, v.x, Wide(v)) /\ Past(e, v.x, Wide(v)) \in Nat
         /\ \A e \in {u.y + High(u), u.y - High(u)} :
              HighRoom(u, v) <= Past(e, v.y, High(v)) /\ Past(e, v.y, High(v)) \in Nat
<1>1. /\ u.x \in Int /\ u.y \in Int /\ v.x \in Int /\ v.y \in Int
      /\ Wide(u) \in Nat /\ Wide(v) \in Nat /\ High(u) \in Nat /\ High(v) \in Nat
  BY SizesAreWhole DEF Faces, Boxed
<1>2. EndsFrom(u.x, Wide(u), v.x, Wide(v)) /\ EndsFrom(u.y, High(u), v.y, High(v))
  BY <1>1, EndsArePast
<1> QED
  BY <1>2 DEF EndsFrom, WideRoom, HighRoom, WideEnds, HighEnds

LEMMA NoRoomIsTouching ==
  ASSUME NEW u, Faces(u), NEW v, Faces(v)
  PROVE  obb_intersects(u, v) <=> WideRoom(u, v) = 0 /\ HighRoom(u, v) = 0
<1>1. /\ u.x \in Int /\ u.y \in Int /\ v.x \in Int /\ v.y \in Int
      /\ Wide(u) + Wide(v) \in Nat /\ High(u) + High(v) \in Nat
  BY SizesAreWhole DEF Faces, Boxed
<1>2. /\ Past(u.x, v.x, Wide(u) + Wide(v)) = 0 <=> Magnitude(v.x - u.x) <= Wide(u) + Wide(v)
      /\ Past(u.y, v.y, High(u) + High(v)) = 0 <=> Magnitude(v.y - u.y) <= High(u) + High(v)
  BY <1>1, NoRoomIsClose
<1> QED
  BY <1>2, AxesAreTheWorlds DEF WideRoom, HighRoom

LEMMA SquaresAscend ==
  ASSUME NEW x \in Nat, NEW y \in Nat, x <= y
  PROVE  Square(x) \in Nat /\ Square(y) \in Nat /\ Square(x) <= Square(y)
<1>1. x * x <= x * y /\ x * y <= y * y /\ x * x \in Nat /\ x * y \in Nat /\ y * y \in Nat
  OBVIOUS
<1> QED
  BY <1>1 DEF Square

\* A corner of a box is as far from another as it is past its width and height.
LEMMA CornersArePast ==
  ASSUME NEW a, Faces(a), NEW b, Faces(b), NEW sum, sum = Square(WideRoom(a, b)) + Square(HighRoom(a, b))
  PROVE  /\ \A d \in FarCorners(a, b) : d \in Nat /\ sum <= d
         /\ WideEnds(a, b) # {} /\ HighEnds(a, b) # {} => sum \in FarCorners(a, b)
<1> DEFINE wide == WideRoom(a, b)  high == HighRoom(a, b)
<1>1. a.x \in Int /\ a.y \in Int /\ Wide(a) \in Nat /\ High(a) \in Nat
  BY SizesAreWhole DEF Faces, Boxed
<1>4. ASSUME NEW p \in world_corners(a)
      PROVE  point_obb_distance(p, b) \in Nat /\ sum <= point_obb_distance(p, b)
  <2>1. p.x \in {a.x + Wide(a), a.x - Wide(a)} /\ p.y \in {a.y + High(a), a.y - High(a)}
        /\ p.x \in Int /\ p.y \in Int
    BY <1>1, CornersFace DEF Faced
  <2> DEFINE i == Past(p.x, b.x, Wide(b))  j == Past(p.y, b.y, High(b))
  <2>2. wide <= i /\ i \in Nat /\ high <= j /\ j \in Nat /\ wide \in Nat /\ high \in Nat
    BY RoomsAre, <2>1
  <2>3. point_obb_distance(p, b) = Square(i) + Square(j)
    BY <2>1, PointsArePast
  <2> HIDE DEF i, j, wide, high
  <2>4. Square(wide) <= Square(i) /\ Square(high) <= Square(j)
        /\ Square(wide) \in Nat /\ Square(high) \in Nat /\ Square(i) \in Nat /\ Square(j) \in Nat
    BY <2>2, SquaresAscend
  <2>5. sum = Square(wide) + Square(high)
    BY DEF wide, high
  <2> QED
    BY <2>3, <2>4, <2>5
<1>5. ASSUME NEW e \in WideEnds(a, b), NEW f \in HighEnds(a, b)
      PROVE  sum \in FarCorners(a, b)
  <2> DEFINE p == [x |-> e, y |-> f]
  <2>1. /\ e \in {a.x + Wide(a), a.x - Wide(a)} /\ Past(e, b.x, Wide(b)) = wide
        /\ f \in {a.y + High(a), a.y - High(a)} /\ Past(f, b.y, High(b)) = high
    BY DEF WideEnds, HighEnds, Ends, WideRoom, HighRoom
  <2>2. Faced(a, p)
    BY <2>1 DEF Faced
  <2>3. PICK q \in world_corners(a) : q.x = e /\ q.y = f
    <3>1. \E q \in world_corners(a) : q.x = p.x /\ q.y = p.y
      <4> HIDE DEF p
      <4> QED
        BY <2>2, CornersFace
    <3> QED
      BY <3>1
  <2>4. q.x \in Int /\ q.y \in Int
    BY <1>1, <2>1, <2>3
  <2>5. point_obb_distance(q, b) = sum
    BY <2>1, <2>3, <2>4, PointsArePast
  <2> QED
    BY <2>3, <2>5 DEF FarCorners
<1> QED
  BY <1>4, <1>5 DEF FarCorners

\* The distance of two boxes is the room between their widths and their heights.
LEMMA BoxesAreApartBy ==
  ASSUME NEW a, Faces(a), NEW b, Faces(b)
  PROVE  obb_distance(a, b) = Square(WideRoom(a, b)) + Square(HighRoom(a, b))
<1> DEFINE T == FarCorners(a, b) \cup FarCorners(b, a)
           sum == Square(WideRoom(a, b)) + Square(HighRoom(a, b))
<1>1. sum = Square(WideRoom(b, a)) + Square(HighRoom(b, a))
  BY RoomsAre
<1>2. CASE obb_intersects(a, b)
  <2>1. obb_distance(a, b) = 0 /\ WideRoom(a, b) = 0 /\ HighRoom(a, b) = 0
    BY <1>2, NoRoomIsTouching DEF obb_distance
  <2>2. Square(0) = 0
    BY DEF Square
  <2> QED
    BY <2>1, <2>2
<1>3. CASE ~ obb_intersects(a, b)
  <2>1. obb_distance(a, b) = Least(T)
    BY <1>3 DEF obb_distance, FarCorners
  <2> HIDE DEF sum
  <2>2. /\ \A d \in FarCorners(a, b) : d \in Nat /\ sum <= d
        /\ WideEnds(a, b) # {} /\ HighEnds(a, b) # {} => sum \in FarCorners(a, b)
    BY CornersArePast DEF sum
  <2>3. /\ \A d \in FarCorners(b, a) : d \in Nat /\ sum <= d
        /\ WideEnds(b, a) # {} /\ HighEnds(b, a) # {} => sum \in FarCorners(b, a)
    BY <1>1, CornersArePast
  <2>4. WideRoom(a, b) > 0 \/ HighRoom(a, b) > 0
    BY <1>3, NoRoomIsTouching, RoomsAre
  <2>5. sum \in T
    BY <2>2, <2>3, <2>4, RoomsAre
  <2>6. (\A d \in T : d \in Nat) /\ (\A d \in T : sum <= d)
    BY <2>2, <2>3
  <2> HIDE DEF T
  <2>7. Least(T) \in T /\ (\A d \in T : Least(T) <= d)
    BY <2>5, <2>6, LeastIsThere
  <2>8. sum \in Nat /\ Least(T) \in Nat /\ sum <= Least(T) /\ Least(T) <= sum
    BY <2>5, <2>6, <2>7
  <2>9. Least(T) = sum
    BY <2>8
  <2> QED
    BY <2>1, <2>9 DEF sum
<1> QED
  BY <1>2, <1>3

LEMMA BoxesTouch ==
  ASSUME NEW a, Faces(a), NEW b, Faces(b)
  PROVE  /\ obb_distance(a, b) = 0 <=> obb_intersects(a, b)
         /\ obb_distance(b, a) = obb_distance(a, b)
<1>1. obb_distance(a, b) = Square(WideRoom(a, b)) + Square(HighRoom(a, b))
      /\ obb_distance(b, a) = Square(WideRoom(b, a)) + Square(HighRoom(b, a))
  BY BoxesAreApartBy
<1> DEFINE wide == WideRoom(a, b)  high == HighRoom(a, b)
<1>2. wide \in Nat /\ high \in Nat /\ wide = WideRoom(b, a) /\ high = HighRoom(b, a)
  BY RoomsAre
<1>3. obb_intersects(a, b) <=> wide = 0 /\ high = 0
  BY NoRoomIsTouching
<1> HIDE DEF wide, high
<1>4. /\ Square(wide) \in Nat /\ Square(high) \in Nat
      /\ Square(wide) = 0 <=> wide = 0
      /\ Square(high) = 0 <=> high = 0
  BY <1>2, SquareIs
<1>5. obb_distance(a, b) = Square(wide) + Square(high) /\ obb_distance(b, a) = Square(wide) + Square(high)
  BY <1>1, <1>2 DEF wide, high
<1> QED
  BY <1>3, <1>4, <1>5

---------------------------------------------------------------------------
(* The room between boxes, and the gaps kept between them.                        *)

LEMMA BoxesFace ==
  ASSUME NEW e, Placed(e), e.entity, e.box # None
  PROVE  Faces(make_obb(e.state, e.box))
BY BoxesStand, BoxesAreBoxed DEF Faces

\* Between two boxes the room is that between their widths and their heights.
LEMMA BoxesHaveRoom ==
  ASSUME NEW a, Placed(a), a.entity, a.box # None, NEW b, Placed(b), b.entity, b.box # None
  PROVE  LET o == make_obb(a.state, a.box) v == make_obb(b.state, b.box)
         IN Room(a, b, 0) = WideRoom(o, v) /\ Room(a, b, 1) = HighRoom(o, v)
<1> DEFINE o == make_obb(a.state, a.box)  v == make_obb(b.state, b.box)
<1>1. Faces(o) /\ Faces(v)
  BY BoxesFace
<1>2. /\ Span(a, East) = obb_project(o, East) /\ Span(b, East) = obb_project(v, East)
      /\ Span(a, North) = obb_project(o, North) /\ Span(b, North) = obb_project(v, North)
  BY DEF Span
<1>3. /\ Room(a, b, 0) = Larger(0, Larger(Span(b, East).lo - Span(a, East).hi, Span(a, East).lo - Span(b, East).hi))
      /\ Room(a, b, 1) = Larger(0, Larger(Span(b, North).lo - Span(a, North).hi,
                                          Span(a, North).lo - Span(b, North).hi))
  BY DEF Room, East, North
<1> HIDE DEF o, v
<1>4. /\ Span(a, East).lo = o.x - Wide(o) /\ Span(a, East).hi = o.x + Wide(o)
      /\ Span(b, East).lo = v.x - Wide(v) /\ Span(b, East).hi = v.x + Wide(v)
      /\ Span(a, North).lo = o.y - High(o) /\ Span(a, North).hi = o.y + High(o)
      /\ Span(b, North).lo = v.y - High(v) /\ Span(b, North).hi = v.y + High(v)
  BY <1>1, <1>2, ShadowsAre
<1>5. /\ o.x \in Int /\ o.y \in Int /\ v.x \in Int /\ v.y \in Int
      /\ Wide(o) \in Nat /\ Wide(v) \in Nat /\ High(o) \in Nat /\ High(v) \in Nat
  BY <1>1, SizesAreWhole DEF Faces, Boxed
<1> DEFINE same(x, w, y, h) == Larger(0, Larger((y - h) - (x + w), (x - w) - (y + h))) = Past(x, y, w + h)
<1>6. ASSUME NEW x \in Int, NEW w \in Nat, NEW y \in Int, NEW h \in Nat
      PROVE  same(x, w, y, h)
  BY DEF Larger, Past, Magnitude
<1> HIDE DEF same
<1>7. same(o.x, Wide(o), v.x, Wide(v)) /\ same(o.y, High(o), v.y, High(v))
  BY <1>5, <1>6
<1>8. Room(a, b, 0) = WideRoom(o, v) /\ Room(a, b, 1) = HighRoom(o, v)
  BY <1>3, <1>4, <1>7 DEF WideRoom, HighRoom, same
<1> QED
  BY <1>8 DEF o, v

\* To a point it is what the point is past the width and the height.
LEMMA PointsHaveRoom ==
  ASSUME NEW a, Placed(a), a.entity, a.box # None, NEW b, Placed(b), ~ b.entity
  PROVE  LET o == make_obb(a.state, a.box)
         IN point_obb_distance(b.state, o) = Square(Room(a, b, 0)) + Square(Room(a, b, 1))
<1> DEFINE o == make_obb(a.state, a.box)  p == b.state
<1>1. Faces(o) /\ p.x \in Int /\ p.y \in Int
  BY BoxesFace DEF Placed
<1>2. /\ Span(a, East) = obb_project(o, East) /\ Span(a, North) = obb_project(o, North)
      /\ Span(b, East).lo = p.x * East.x + p.y * East.y /\ Span(b, East).hi = p.x * East.x + p.y * East.y
      /\ Span(b, North).lo = p.x * North.x + p.y * North.y /\ Span(b, North).hi = p.x * North.x + p.y * North.y
  BY DEF Span
<1>3. /\ Room(a, b, 0) = Larger(0, Larger(Span(b, East).lo - Span(a, East).hi, Span(a, East).lo - Span(b, East).hi))
      /\ Room(a, b, 1) = Larger(0, Larger(Span(b, North).lo - Span(a, North).hi,
                                          Span(a, North).lo - Span(b, North).hi))
  BY DEF Room, East, North
<1> HIDE DEF o, p
<1>4. p.x * 1 + p.y * 0 = p.x /\ p.x * 0 + p.y * 1 = p.y
  BY <1>1
<1>5. /\ Span(a, East).lo = o.x - Wide(o) /\ Span(a, East).hi = o.x + Wide(o)
      /\ Span(b, East).lo = p.x /\ Span(b, East).hi = p.x
      /\ Span(a, North).lo = o.y - High(o) /\ Span(a, North).hi = o.y + High(o)
      /\ Span(b, North).lo = p.y /\ Span(b, North).hi = p.y
  BY <1>1, <1>2, <1>4, ShadowsAre, WorldAxes
<1>6. /\ o.x \in Int /\ o.y \in Int /\ Wide(o) \in Nat /\ High(o) \in Nat
  BY <1>1, SizesAreWhole DEF Faces, Boxed
<1>7. ASSUME NEW x \in Int, NEW w \in Nat, NEW y \in Int
      PROVE  Larger(0, Larger(y - (x + w), (x - w) - y)) = Past(y, x, w)
  BY DEF Larger, Past, Magnitude
<1>8. /\ Larger(0, Larger(p.x - (o.x + Wide(o)), (o.x - Wide(o)) - p.x)) = Past(p.x, o.x, Wide(o))
      /\ Larger(0, Larger(p.y - (o.y + High(o)), (o.y - High(o)) - p.y)) = Past(p.y, o.y, High(o))
  BY <1>1, <1>6, <1>7
<1>9. Room(a, b, 0) = Past(p.x, o.x, Wide(o)) /\ Room(a, b, 1) = Past(p.y, o.y, High(o))
  BY <1>3, <1>5, <1>8
<1>10. point_obb_distance(p, o) = Square(Past(p.x, o.x, Wide(o))) + Square(Past(p.y, o.y, High(o)))
  BY <1>1, PointsArePast
<1> QED
  BY <1>9, <1>10 DEF o, p

\* What lies around two points overlaps where the gap of the points tells.
LEMMA OverlapIsBetween ==
  ASSUME NEW a, NEW b, {a.lo, a.hi, b.lo, b.hi} \subseteq Int, a.lo <= a.hi, b.lo <= b.hi,
         NEW p \in Int, NEW q \in Int, a.lo <= p, p <= a.hi, b.lo <= q, q <= b.hi
  PROVE  /\ Overlap(q - p, a, b) \in Int
         /\ Between(a, b) # 0 => Square(Overlap(q - p, a, b)) = Between(a, b)
         /\ Flank(p - q, a, b) \in Int
         /\ Square(Flank(p - q, a, b)) = Between(a, b)
<1> DEFINE room == Larger(0, Larger(b.lo - a.hi, a.lo - b.hi))
<1>1. Between(a, b) = Square(room)
  BY DEF Between
<1>2. Overlap(q - p, a, b) \in Int /\ Flank(p - q, a, b) \in Int /\ room \in Nat
  BY DEF Overlap, Flank, Larger
<1>3. room # 0 => Overlap(q - p, a, b) \in {room, -room}
  BY DEF Overlap, Larger
<1>4. Flank(p - q, a, b) \in {room, -room}
  BY DEF Flank, Larger
<1> HIDE DEF room
<1>5. Square(-room) = Square(room) /\ (Square(room) = 0 <=> room = 0)
  BY <1>2, SquareIs DEF Square
<1> QED
  BY <1>1, <1>2, <1>3, <1>4, <1>5

\* What a distance action and a condition are asked to measure between two entities.
Measured(a, b, spec) ==
  /\ Measurable(a, b, spec) /\ b.entity
  /\ {"cs", "type"} \subseteq DOMAIN spec
  /\ \A e \in {a, b} : e.box # None => Straddles(e.box)

LEMMA GapsKeep ==
  ASSUME NEW gap \in Int, NEW distance \in Int, NEW spec,
         distance # 0 \/ ~ spec.freespace \/ spec.type = "lateral" => Square(gap) = distance
  PROVE  KeepsDistance(gap, distance, spec)
<1>1. gap # None /\ distance # None
  BY NoneAssumption
<1> QED
  BY <1>1 DEF KeepsDistance

LEMMA NothingKeeps ==
  ASSUME NEW spec
  PROVE  KeepsDistance(None, None, spec)
BY DEF KeepsDistance

\* The axis of a gap is the axis of the distance.
LEMMA AxesAgree ==
  ASSUME NEW spec, {"cs", "type"} \subseteq DOMAIN spec, NEW heading \in Int
  PROVE  /\ spec.type = "lateral" =>
              projection_axis([spec EXCEPT !.type = "lateral"], heading) = projection_axis(spec, heading)
         /\ spec.type # "lateral" =>
              projection_axis([spec EXCEPT !.type = "longitudinal"], heading) = projection_axis(spec, heading)
<1>1. /\ [spec EXCEPT !.type = "lateral"].cs = spec.cs /\ [spec EXCEPT !.type = "lateral"].type = "lateral"
      /\ [spec EXCEPT !.type = "longitudinal"].cs = spec.cs
      /\ [spec EXCEPT !.type = "longitudinal"].type = "longitudinal"
  OBVIOUS
<1> QED
  BY <1>1 DEF projection_axis

LEMMA StraightDistancesKeep ==
  ASSUME NEW a, NEW b, NEW spec, Measured(a, b, spec), ~ euclidean(spec), spec.cs # "trajectory", ~ by_road(spec)
  PROVE  KeepsDistance(GapTo(a, b, spec), measure_distance(a, b, spec), spec)
<1> DEFINE u == projection_axis(spec, a.state.heading)
           p == a.state.x * u.x + a.state.y * u.y  q == b.state.x * u.x + b.state.y * u.y
           forth == (b.state.x - a.state.x) * u.x + (b.state.y - a.state.y) * u.y
           back == (a.state.x - b.state.x) * u.x + (a.state.y - b.state.y) * u.y
           gap == GapTo(a, b, spec)  distance == measure_distance(a, b, spec)
           reach(e) == obb_project(make_obb(e.state, e.box), u)
<1>1. /\ Placed(a) /\ a.entity /\ Placed(b) /\ b.entity /\ spec.freespace \in BOOLEAN
      /\ a.state.x \in Int /\ a.state.y \in Int /\ b.state.x \in Int /\ b.state.y \in Int
      /\ a.state.heading \in Int
  BY DEF Measured, Measurable, Placed
<1>2. u.x \in Int /\ u.y \in Int /\ Unit(u.x, u.y)
  BY <1>1, AxesAreUnits
<1>3. gap = IF spec.type = "lateral" THEN signed_lateral_gap(a, b, spec, a.state.heading)
            ELSE signed_longitudinal_gap(a, b, spec)
  BY DEF GapTo
<1>4. /\ spec.type = "lateral" =>
           signed_lateral_gap(a, b, spec, a.state.heading)
             = IF ~ spec.freespace THEN back
               ELSE IF None \in {a.box, b.box} THEN None ELSE Flank(back, reach(a), reach(b))
      /\ spec.type # "lateral" =>
           signed_longitudinal_gap(a, b, spec)
             = IF ~ spec.freespace THEN forth
               ELSE IF None \in {a.box, b.box} THEN None ELSE Overlap(forth, reach(a), reach(b))
  <2>1. /\ spec.type = "lateral" => projection_axis([spec EXCEPT !.type = "lateral"], a.state.heading) = u
        /\ spec.type # "lateral" => projection_axis([spec EXCEPT !.type = "longitudinal"], a.state.heading) = u
    BY <1>1, AxesAgree DEF Measured
  <2> HIDE DEF u
  <2> QED
    BY <2>1 DEF signed_lateral_gap, signed_longitudinal_gap
<1>5. distance = IF ~ spec.freespace THEN Square(forth)
                 ELSE IF None \in {a.box, b.box} THEN None ELSE Between(reach(a), reach(b))
  <2> HIDE DEF u
  <2>1. None \in {a.box, b.box} /\ spec.freespace <=> Boxless(spec, a) \/ Boxless(spec, b)
    BY <1>1 DEF Boxless
  <2> QED
    BY <1>1, <2>1 DEF measure_distance, u
<1> HIDE DEF u
<1>6. forth \in Int /\ back \in Int /\ p \in Int /\ q \in Int /\ forth = q - p /\ back = p - q
  <2> DEFINE x == a.state.x  y == a.state.y  z == b.state.x  w == b.state.y  c == u.x  s == u.y
  <2>1. x \in Int /\ y \in Int /\ z \in Int /\ w \in Int /\ Unit(c, s)
    BY <1>1, <1>2
  <2> HIDE DEF x, y, z, w, c, s
  <2>2. /\ (z - x) * c + (w - y) * s = (z * c + w * s) - (x * c + y * s)
        /\ (x - z) * c + (y - w) * s = (x * c + y * s) - (z * c + w * s)
        /\ x * c + y * s \in Int /\ z * c + w * s \in Int
    <3>1. CASE c = 1 /\ s = 0
      BY <2>1, <3>1
    <3>2. CASE c = 0 /\ s = 1
      BY <2>1, <3>2
    <3>3. CASE c = -1 /\ s = 0
      BY <2>1, <3>3
    <3>4. CASE c = 0 /\ s = -1
      BY <2>1, <3>4
    <3> QED
      BY <2>1, <3>1, <3>2, <3>3, <3>4 DEF Unit
  <2>3. forth = q - p /\ back = p - q /\ p \in Int /\ q \in Int
    BY <2>2 DEF x, y, z, w, c, s
  <2> HIDE DEF forth, back, p, q
  <2> QED
    BY <2>3
<1> HIDE DEF forth, back, p, q, gap, distance, reach
<1>7. CASE ~ spec.freespace
  <2>1. gap \in {forth, back} /\ distance = Square(forth)
    BY <1>3, <1>4, <1>5, <1>7
  <2>2. Square(back) = Square(forth) /\ Square(forth) \in Int
    <3>1. back = -forth
      BY <1>6
    <3> QED
      BY <1>6, <3>1 DEF Square
  <2>3. KeepsDistance(gap, distance, spec)
    BY <1>6, <2>1, <2>2, GapsKeep
  <2> QED
    BY <2>3 DEF gap, distance
<1>8. CASE spec.freespace /\ None \in {a.box, b.box}
  <2>1. gap = None /\ distance = None
    BY <1>3, <1>4, <1>5, <1>8
  <2> QED
    BY <2>1, NothingKeeps DEF gap, distance
<1>9. CASE spec.freespace /\ None \notin {a.box, b.box}
  <2>1. a.box # None /\ b.box # None /\ Straddles(a.box) /\ Straddles(b.box)
    BY <1>9 DEF Measured
  <2>2. /\ reach(a).lo \in Int /\ reach(a).hi \in Int /\ reach(a).lo <= reach(a).hi
        /\ reach(a).lo <= p /\ p <= reach(a).hi
    BY <1>1, <1>2, <2>1, ProjectionsHold DEF reach, p
  <2>3. /\ reach(b).lo \in Int /\ reach(b).hi \in Int /\ reach(b).lo <= reach(b).hi
        /\ reach(b).lo <= q /\ q <= reach(b).hi
    BY <1>1, <1>2, <2>1, ProjectionsHold DEF reach, q
  <2> DEFINE ra == reach(a)  rb == reach(b)
  <2> HIDE DEF ra, rb
  <2>4. /\ ra.lo \in Int /\ ra.hi \in Int /\ ra.lo <= ra.hi /\ ra.lo <= p /\ p <= ra.hi
        /\ rb.lo \in Int /\ rb.hi \in Int /\ rb.lo <= rb.hi /\ rb.lo <= q /\ q <= rb.hi
    BY <2>2, <2>3 DEF ra, rb
  <2>5. /\ Overlap(q - p, ra, rb) \in Int
        /\ Between(ra, rb) # 0 => Square(Overlap(q - p, ra, rb)) = Between(ra, rb)
        /\ Flank(p - q, ra, rb) \in Int
        /\ Square(Flank(p - q, ra, rb)) = Between(ra, rb)
    BY <1>6, <2>4, OverlapIsBetween
  <2>6. Between(ra, rb) \in Int
    BY <2>4, RoomsAreWhole
  <2>7. distance = Between(ra, rb)
        /\ gap = IF spec.type = "lateral" THEN Flank(p - q, ra, rb) ELSE Overlap(q - p, ra, rb)
    BY <1>3, <1>4, <1>5, <1>6, <1>9 DEF ra, rb
  <2>8. KeepsDistance(gap, distance, spec)
    BY <1>9, <2>5, <2>6, <2>7, GapsKeep
  <2> QED
    BY <2>8 DEF gap, distance
<1> QED
  BY <1>1, <1>7, <1>8, <1>9

LEMMA RoadDistancesKeep ==
  ASSUME NEW a, NEW b, NEW spec, Measured(a, b, spec), ~ euclidean(spec), spec.cs # "trajectory", by_road(spec)
  PROVE  KeepsDistance(GapTo(a, b, spec), measure_distance(a, b, spec), spec)
<1> DEFINE ext == Extents(<<a, b>>, spec)  m == ext[1]  n == ext[2]
           gap == GapTo(a, b, spec)  distance == measure_distance(a, b, spec)
<1>1. /\ Placed(a) /\ a.entity /\ Placed(b) /\ b.entity /\ spec.freespace \in BOOLEAN
  BY DEF Measured, Measurable
<1>2. gap = IF NotOnRoads(a, b, spec) THEN None
            ELSE IF spec.type = "lateral" THEN AcrossRoad(ext, spec) ELSE AlongRoad(ext, spec)
  BY DEF GapTo, road_signed_lateral_gap, road_signed_longitudinal_gap
<1>3. distance = measure_on_road(a, b, spec)
  BY DEF measure_distance
<1>4. spec.freespace /\ None \in {a.box, b.box} <=> Boxless(spec, a) \/ Boxless(spec, b)
  BY <1>1 DEF Boxless
<1>5. CASE NotOnRoads(a, b, spec)
  <2>1. measure_on_road(a, b, spec) = None
    BY <1>4, <1>5 DEF NotOnRoads, measure_on_road
  <2>2. gap = None /\ distance = None
    BY <1>2, <1>3, <1>5, <2>1
  <2> QED
    BY <2>2, NothingKeeps
<1>6. CASE ~ NotOnRoads(a, b, spec)
  <2>1. distance = Apart(m, n, spec)
    BY <1>3, <1>4, <1>6 DEF NotOnRoads, measure_on_road, ApartOf
  <2>2. DOMAIN ext = {1, 2}
    BY DEF Extents
  <2>3. \A i \in {1, 2} :
          LET e == <<a, b>>[i]
          IN \/ ext[i] = None
             \/ /\ ext[i].at.s \in Int /\ ext[i].at.t \in Int
                /\ Lies(ext[i])
                /\ BoxOf(spec, e) = None \/ Straddles(BoxOf(spec, e)) => Astride(ext[i])
    BY <1>6, ExtentsOf DEF Measured, NotOnRoads
  <2>4. (BoxOf(spec, a) = None \/ Straddles(BoxOf(spec, a))) /\ (BoxOf(spec, b) = None \/ Straddles(BoxOf(spec, b)))
    BY DEF BoxOf, Measured
  <2>5. m = None \/ (m.at.s \in Int /\ m.at.t \in Int /\ Lies(m) /\ Astride(m))
    BY <2>3, <2>4
  <2>6. n = None \/ (n.at.s \in Int /\ n.at.t \in Int /\ Lies(n) /\ Astride(n))
    BY <2>3, <2>4
  <2>7. Together(ext) <=> m # None /\ n # None /\ m.at.road = n.at.road
    BY <2>2 DEF Together
  <2>10. gap = IF ~ Together(ext) THEN None
               ELSE IF spec.type = "lateral" THEN GapAcross(m, n, spec) ELSE GapAlong(m, n, spec)
    <3> HIDE DEF ext
    <3> QED
      BY <1>2, <1>6 DEF AcrossRoad, AlongRoad
  <2> HIDE DEF ext, m, n, gap, distance
  <2>8. CASE m = None \/ n = None \/ m.at.road # n.at.road
    <3>1. gap = None /\ distance = None
      BY <2>1, <2>7, <2>8, <2>10 DEF Apart
    <3> QED
      BY <3>1, NothingKeeps DEF gap, distance
  <2>9. CASE m # None /\ n # None /\ m.at.road = n.at.road
    <3> DEFINE ms == m.at.s  ns == n.at.s  mt == m.at.t  nt == n.at.t
    <3>1. /\ ms \in Int /\ mt \in Int /\ Lies(m) /\ Astride(m)
          /\ ns \in Int /\ nt \in Int /\ Lies(n) /\ Astride(n)
      BY <2>5, <2>6, <2>9
    <3>3. /\ distance = IF ~ spec.freespace
                        THEN Square(IF spec.type = "lateral" THEN nt - mt ELSE ns - ms)
                        ELSE IF spec.type = "lateral" THEN Between(m.across, n.across)
                        ELSE Between(m.along, n.along)
      BY <2>1, <2>9 DEF Apart
    <3>4. gap = IF spec.type = "lateral"
                THEN IF spec.freespace THEN Flank(mt - nt, m.across, n.across) ELSE mt - nt
                ELSE IF spec.freespace THEN Overlap(ns - ms, m.along, n.along) ELSE ns - ms
      BY <2>7, <2>9, <2>10 DEF GapAcross, GapAlong
    <3>5. /\ {m.along.lo, m.along.hi, m.across.lo, m.across.hi} \subseteq Int
          /\ m.along.lo <= m.along.hi /\ m.across.lo <= m.across.hi
          /\ m.along.lo <= ms /\ ms <= m.along.hi /\ m.across.lo <= mt /\ mt <= m.across.hi
          /\ {n.along.lo, n.along.hi, n.across.lo, n.across.hi} \subseteq Int
          /\ n.along.lo <= n.along.hi /\ n.across.lo <= n.across.hi
          /\ n.along.lo <= ns /\ ns <= n.along.hi /\ n.across.lo <= nt /\ nt <= n.across.hi
      BY <3>1 DEF Lies, Astride
    <3> HIDE DEF ms, ns, mt, nt
    <3>6. CASE ~ spec.freespace
      <4>1. \A x \in Int, y \in Int : /\ Square(x - y) = Square(y - x) /\ Square(x - y) \in Int /\ x - y \in Int
        BY DEF Square
      <4>2. gap \in Int /\ distance \in Int /\ Square(gap) = distance
        BY <3>1, <3>3, <3>4, <3>6, <4>1
      <4> QED
        BY <4>2, GapsKeep DEF gap, distance
    <3>7. CASE spec.freespace
      <4> DEFINE ma == m.along  na == n.along  mc == m.across  nc == n.across
      <4> HIDE DEF ma, na, mc, nc
      <4>1. /\ {ma.lo, ma.hi, na.lo, na.hi} \subseteq Int /\ ma.lo <= ma.hi /\ na.lo <= na.hi
            /\ ma.lo <= ms /\ ms <= ma.hi /\ na.lo <= ns /\ ns <= na.hi
            /\ {mc.lo, mc.hi, nc.lo, nc.hi} \subseteq Int /\ mc.lo <= mc.hi /\ nc.lo <= nc.hi
            /\ mc.lo <= mt /\ mt <= mc.hi /\ nc.lo <= nt /\ nt <= nc.hi
        BY <3>5 DEF ma, na, mc, nc
      <4>2. /\ Overlap(ns - ms, ma, na) \in Int
            /\ Between(ma, na) # 0 => Square(Overlap(ns - ms, ma, na)) = Between(ma, na)
        BY <3>1, <4>1, OverlapIsBetween
      <4>3. /\ Flank(mt - nt, mc, nc) \in Int
            /\ Square(Flank(mt - nt, mc, nc)) = Between(mc, nc)
        BY <3>1, <4>1, OverlapIsBetween
      <4>4. Between(ma, na) \in Int /\ Between(mc, nc) \in Int
        BY <4>1, RoomsAreWhole
      <4>5. distance = IF spec.type = "lateral" THEN Between(mc, nc) ELSE Between(ma, na)
        BY <3>3, <3>7 DEF ma, na, mc, nc
      <4>6. gap = IF spec.type = "lateral" THEN Flank(mt - nt, mc, nc) ELSE Overlap(ns - ms, ma, na)
        BY <3>4, <3>7 DEF ma, na, mc, nc
      <4>7. KeepsDistance(gap, distance, spec)
        BY <3>7, <4>2, <4>3, <4>4, <4>5, <4>6, GapsKeep
      <4> QED
        BY <4>7 DEF gap, distance
    <3> QED
      BY <1>1, <3>6, <3>7
  <2> QED
    BY <2>8, <2>9
<1> QED
  BY <1>5, <1>6

LEMMA RoomsKeep ==
  ASSUME NEW a, NEW b, NEW spec, Measurable(a, b, spec), euclidean(spec), spec.freespace,
         measure_distance(a, b, spec) # None
  PROVE  LET distance == measure_distance(a, b, spec)
         IN /\ distance = Square(Room(a, b, 0)) + Square(Room(a, b, 1))
            /\ b.entity => /\ distance = measure_distance(b, a, spec)
                           /\ (distance = 0) = CollisionHolds(a, b)
<1> DEFINE distance == measure_distance(a, b, spec)
           o == make_obb(a.state, a.box)  v == make_obb(b.state, b.box)
<1>1. Placed(a) /\ Placed(b) /\ a.entity /\ b.entity \in BOOLEAN
  BY DEF Measurable, Placed
<1>2. spec.cs # "trajectory" /\ ~ Boxless(spec, a) /\ ~ Boxless(spec, b)
  <2>1. spec.cs = "trajectory" \/ Boxless(spec, a) \/ Boxless(spec, b) => distance = None
    BY DEF measure_distance
  <2> QED
    BY <2>1
<1>3. a.box # None /\ (b.entity => b.box # None)
  BY <1>1, <1>2 DEF Boxless
<1>4. CASE b.entity
  <2>1. distance = obb_distance(o, v) /\ measure_distance(b, a, spec) = obb_distance(v, o)
    BY <1>1, <1>2, <1>4 DEF measure_distance
  <2>2. Faces(o) /\ Faces(v)
    BY <1>1, <1>3, <1>4, BoxesFace
  <2>3. Room(a, b, 0) = WideRoom(o, v) /\ Room(a, b, 1) = HighRoom(o, v)
    BY <1>1, <1>3, <1>4, BoxesHaveRoom
  <2>4. (CollisionHolds(a, b) <=> obb_intersects(o, v)) /\ CollisionHolds(a, b) \in BOOLEAN
    BY <1>3, <1>4 DEF CollisionHolds
  <2>5. obb_intersects(o, v) \in BOOLEAN
    BY DEF obb_intersects
  <2> HIDE DEF o, v, distance
  <2>6. /\ obb_distance(o, v) = Square(WideRoom(o, v)) + Square(HighRoom(o, v))
        /\ obb_distance(o, v) = 0 <=> obb_intersects(o, v)
        /\ obb_distance(v, o) = obb_distance(o, v)
    BY <2>2, BoxesAreApartBy, BoxesTouch
  <2>7. (distance = 0) = CollisionHolds(a, b)
    BY <2>1, <2>4, <2>5, <2>6
  <2> QED
    BY <2>1, <2>3, <2>6, <2>7 DEF distance
<1>5. CASE ~ b.entity
  <2>1. distance = point_obb_distance(b.state, o)
    BY <1>1, <1>2, <1>5 DEF measure_distance
  <2>2. point_obb_distance(b.state, o) = Square(Room(a, b, 0)) + Square(Room(a, b, 1))
    BY <1>1, <1>3, <1>5, PointsHaveRoom
  <2> QED
    BY <1>5, <2>1, <2>2
<1> QED
  BY <1>1, <1>4, <1>5

LEMMA TrajectoriesKeep ==
  ASSUME NEW a, NEW b, NEW spec, spec.cs = "trajectory"
  PROVE  KeepsDistance(GapTo(a, b, spec), measure_distance(a, b, spec), spec)
<1>1. GapTo(a, b, spec) = None /\ measure_distance(a, b, spec) = None
  BY DEF GapTo, measure_distance
<1> QED
  BY <1>1, NothingKeeps

\* In free space the distance of two boxes is the room between them, the same from
\* either side, and nothing exactly when they touch (obb2.cpp:83-122); the gap that
\* a distance action keeps is the distance that a condition measures
\* (distance_measure.cpp:343-401), wherever on whatever network they are.
THEOREM DistanceStaysTheRoom == Spec => []DistanceIsTheRoom
<1>1. Put => DistanceIsTheRoom
  <2> SUFFICES ASSUME Put, Answered("distance")
               PROVE  DistanceIsTheRoom
    BY DEF DistanceIsTheRoom
  <2> DEFINE a == asked.a  b == asked.b  spec == Over(asked.spec)
  <2>1. /\ Placed(a) /\ a.entity /\ Placed(b) /\ asked.spec.freespace \in BOOLEAN
        /\ {"cs", "type", "freespace", "net"} \subseteq DOMAIN asked.spec /\ asked.spec.net \in DOMAIN Net
        /\ \A e \in {a, b} : e.box # None => Straddles(e.box)
    BY DistancesAssumption DEF Put, Answered
  <2>2. answer = measure_distance(a, b, spec)
    <3>1. part = "distance" /\ answer = Answer(asked)
      BY DEF Put, Answered
    <3> QED
      BY <3>1 DEF Answer
  <2>3. /\ spec.freespace = asked.spec.freespace /\ spec.net = Net[asked.spec.net]
        /\ {"cs", "type"} \subseteq DOMAIN spec
    BY <2>1 DEF Over
  <2>4. Measurable(a, b, spec)
    <3>1. Net[asked.spec.net] = None \/ Mapped(Net[asked.spec.net])
      BY <2>1, NetworksAssumption
    <3> HIDE DEF spec
    <3> QED
      BY <2>1, <2>3, <3>1 DEF Measurable
  <2> HIDE DEF a, b, spec
  <2>5. CASE euclidean(spec)
    <3>1. spec.freespace /\ answer # None =>
            /\ answer = Square(Room(a, b, 0)) + Square(Room(a, b, 1))
            /\ b.entity => /\ answer = measure_distance(b, a, spec)
                           /\ (answer = 0) = CollisionHolds(a, b)
      BY <2>2, <2>4, <2>5, RoomsKeep
    <3> QED
      BY <2>5, <3>1 DEF DistanceIsTheRoom, a, b, spec
  <2>6. CASE ~ euclidean(spec)
    <3>1. b.entity => KeepsDistance(GapTo(a, b, spec), answer, spec)
      <4> SUFFICES ASSUME b.entity
                   PROVE  KeepsDistance(GapTo(a, b, spec), answer, spec)
        OBVIOUS
      <4>1. Measured(a, b, spec)
        BY <2>1, <2>3, <2>4 DEF Measured
      <4> QED
        BY <2>2, <2>6, <4>1, TrajectoriesKeep, RoadDistancesKeep, StraightDistancesKeep
    <3> QED
      BY <2>6, <3>1 DEF DistanceIsTheRoom, a, b, spec
  <2> QED
    BY <2>5, <2>6
<1> QED
  BY <1>1, AlwaysPut, PTL

---------------------------------------------------------------------------
(* Transitions.                                                                 *)

LEMMA QuotientsAre ==
  ASSUME NEW a \in Nat, NEW b \in Nat \ {0}
  PROVE  RoundedUp(Q(a, b)) \in Nat /\ a <= RoundedUp(Q(a, b)) * b
<1> DEFINE x == a + b - 1  r == x \div b
<1>1. x \in Nat /\ RoundedUp(Q(a, b)) = r
  BY DEF RoundedUp, Q
<1> HIDE DEF x
<1>2. r \in Nat /\ x < (r + 1) * b
  BY <1>1
<1> HIDE DEF r
<1>3. (r + 1) * b = r * b + b /\ r * b \in Nat
  BY <1>2
<1> QED
  BY <1>1, <1>2, <1>3 DEF x

LEMMA RootsAreWhole ==
  ASSUME NEW n \in Nat
  PROVE  RootRoundedUp(n) \in Nat
<1> DEFINE T == {r \in 0 .. n : r * r >= n}
<1>1. n * n >= n
  <2>1. n = 0 \/ n >= 1
    OBVIOUS
  <2>2. n >= 1 => n * n >= n * 1
    OBVIOUS
  <2> QED
    BY <2>1, <2>2
<1>2. n \in T /\ T \subseteq Nat
  BY <1>1
<1> HIDE DEF T
<1>3. PICK r \in T : \A y \in T : r <= y
  BY <1>2, LeastNatural
<1>4. r \in 0 .. n /\ r * r >= n /\ \A s \in 0 .. r - 1 : s * s < n
  <2>1. r \in 0 .. n /\ r * r >= n
    BY <1>3 DEF T
  <2>2. ASSUME NEW s \in 0 .. r - 1
        PROVE  s * s < n
    <3>1. s \notin T /\ s \in 0 .. n
      BY <1>3, <2>1
    <3>2. s * s \in Int
      OBVIOUS
    <3> QED
      BY <3>1, <3>2 DEF T
  <2> QED
    BY <2>1, <2>2
<1>5. \E q \in 0 .. n : q * q >= n /\ \A s \in 0 .. q - 1 : s * s < n
  BY <1>4
<1>6. RootRoundedUp(n) \in 0 .. n
  BY <1>5 DEF RootRoundedUp
<1> QED
  BY <1>6

LEMMA MostIsThere ==
  ASSUME NEW T, NEW b \in Nat, T \subseteq 0 .. b, T # {}
  PROVE  Most(T) \in T /\ \A y \in T : y <= Most(T)
<1>1. \E x \in T : \A y \in T : x >= y
  BY GreatestNatural
<1>2. Most(T) \in T /\ \A y \in T : Most(T) >= y
  BY <1>1 DEF Most
<1> QED
  BY <1>2

\* A duration that is long enough for a limit.
LEMMA DurationsAreEnough ==
  ASSUME NEW delta \in Int, NEW limit \in Optional(Int), NEW rate \in Optional(Int), NEW authored \in Optional(Int)
  PROVE  LET span == constrained_duration("cubic", delta, limit, rate, authored)
         IN span \in Nat /\ (Positive(limit) => 3 * Magnitude(delta) <= span * (2 * limit))
<1> DEFINE m == Magnitude(delta)  begun == IF Positive(authored) THEN authored ELSE 0
           a == ByGradient("cubic", m, limit)  b == ByBend(Q(6, 1), m, rate)
           A == IF Positive(limit) THEN {a} ELSE {}  B == IF Positive(rate) THEN {b} ELSE {}
           T == {begun} \cup (A \cup B)
           span == constrained_duration("cubic", delta, limit, rate, authored)
<1>1. m \in Nat /\ begun \in Nat
  BY DEF Magnitude, Positive, Optional
<1>2. shape_peak_gradient_factor("cubic") = Q(3, 2) /\ shape_peak_jerk_factor("cubic") = Q(6, 1)
  BY DEF shape_peak_gradient_factor, shape_peak_jerk_factor
<1>3. Positive(limit) => limit \in Nat \ {0}
  BY DEF Positive, Optional
<1>4. Positive(rate) => rate \in Nat \ {0}
  BY DEF Positive, Optional
<1>5. Positive(limit) => a = RoundedUp(Q(3 * m, 2 * limit)) /\ 3 * m \in Nat /\ 2 * limit \in Nat \ {0}
  <2>1. a = RoundedUp(Q(3 * m, 2 * limit))
    BY <1>2 DEF ByGradient, Q
  <2> QED
    BY <1>1, <1>3, <2>1
<1>6. Positive(limit) => a \in Nat /\ 3 * m <= a * (2 * limit)
  BY <1>5, QuotientsAre
<1>7. Positive(rate) => b \in Nat
  <2> SUFFICES ASSUME Positive(rate)
               PROVE  b \in Nat
    OBVIOUS
  <2>1. b = RootRoundedUp(RoundedUp(Q(6 * m, 1 * rate)))
    BY DEF ByBend, Q
  <2>2. 6 * m \in Nat /\ 1 * rate \in Nat \ {0}
    BY <1>1, <1>4
  <2> QED
    BY <2>1, <2>2, QuotientsAre, RootsAreWhole
<1>8. span = IF m = 0 THEN begun ELSE Most(T)
  <2>1. shape_peak_jerk_factor("cubic") # None
    <3>1. Q(6, 1) \in [n : Int, d : Int]
      BY DEF Q
    <3> QED
      BY <1>2, <3>1, NoneAssumption
  <2>2. span = IF m = 0 THEN begun
               ELSE Most({begun} \cup (IF Positive(limit) THEN {a} ELSE {})
                         \cup (IF Positive(rate) THEN {b} ELSE {}))
    BY <1>2, <2>1 DEF constrained_duration
  <2>3. {begun} \cup (IF Positive(limit) THEN {a} ELSE {}) \cup (IF Positive(rate) THEN {b} ELSE {}) = T
    OBVIOUS
  <2> QED
    BY <2>2, <2>3
<1> HIDE DEF m, begun, a, b, span
<1>9. CASE m = 0
  <2>1. \A x \in Int : 3 * 0 <= begun * (2 * x) \/ x < 0
    BY <1>1
  <2>2. Positive(limit) => 3 * m <= span * (2 * limit)
    BY <1>1, <1>3, <1>8, <1>9, <2>1
  <2> QED
    BY <1>1, <1>8, <1>9, <2>2 DEF m, span
<1>10. CASE m # 0
  <2> DEFINE bound == begun + (IF Positive(limit) THEN a ELSE 0) + (IF Positive(rate) THEN b ELSE 0)
  <2>1. bound \in Nat /\ T \subseteq 0 .. bound /\ T # {}
    BY <1>1, <1>6, <1>7
  <2> HIDE DEF bound
  <2> DEFINE U == T
  <2>2. Positive(limit) => a \in U
    OBVIOUS
  <2>4. bound \in Nat /\ U \subseteq 0 .. bound /\ U # {} /\ span = Most(U)
    BY <2>1, <1>8, <1>10
  <2> HIDE DEF U, T, A, B
  <2>3. Most(U) \in U /\ \A y \in U : y <= Most(U)
    BY <2>4, MostIsThere
  <2>5. span \in Nat /\ (Positive(limit) => a <= span)
    <3>1. span \in 0 .. bound /\ \A y \in U : y <= span
      BY <2>3, <2>4
    <3> HIDE DEF U
    <3>2. Positive(limit) => a <= span
      BY <2>2, <3>1
    <3> QED
      BY <2>4, <3>1, <3>2
  <2>6. Positive(limit) => a * (2 * limit) <= span * (2 * limit)
    <3> SUFFICES ASSUME Positive(limit)
                 PROVE  a * (2 * limit) <= span * (2 * limit)
      OBVIOUS
    <3> DEFINE l == 2 * limit
    <3>1. l \in Nat
      BY <1>3
    <3> HIDE DEF l
    <3>2. a * l <= span * l
      BY <1>6, <2>5, <3>1
    <3> QED
      BY <3>2 DEF l
  <2>7. Positive(limit) => 3 * m <= span * (2 * limit)
    <3> SUFFICES ASSUME Positive(limit)
                 PROVE  3 * m <= span * (2 * limit)
      OBVIOUS
    <3>1. a * (2 * limit) \in Int /\ span * (2 * limit) \in Int /\ 3 * m \in Int
      BY <1>1, <1>3, <1>6, <2>5
    <3> QED
      BY <1>6, <2>6, <3>1
  <2> QED
    BY <2>5, <2>7 DEF m, span
<1> QED
  BY <1>9, <1>10

---------------------------------------------------------------------------
(* How fast a smooth transition changes.                                         *)

Cubed(T) == T * T * T
Bent(e, T) == e * e * (3 * T - 2 * e)

\* In one second of its span a transition does no more than the limit of its slope,
\* and it never goes back.
LEMMA BentRises ==
  ASSUME NEW T \in Nat \ {0}, NEW e \in 0 .. T - 1
  PROVE  /\ Bent(e, T) \in Int /\ Bent(e + 1, T) \in Int /\ Cubed(T) \in Nat \ {0}
         /\ Bent(e, T) <= Bent(e + 1, T)
         /\ 2 * (Bent(e + 1, T) - Bent(e, T)) <= 3 * (T * T)
         /\ Bent(0, T) = 0 /\ Bent(T, T) = Cubed(T)
<1> DEFINE r == T - 1 - e  k == 2 * e - r
<1>1. r \in Nat /\ e \in Nat /\ T = e + r + 1 /\ k \in Int
  OBVIOUS
<1>2. Bent(e + 1, T) - Bent(e, T) = 6 * (e * r) + 3 * T - 2
  <2>1. Bent(e + 1, T) = (e + 1) * (e + 1) * (3 * T - 2 * (e + 1)) /\ Bent(e, T) = e * e * (3 * T - 2 * e)
    BY DEF Bent
  <2>2. (e + 1) * (e + 1) * (3 * T - 2 * (e + 1)) - e * e * (3 * T - 2 * e)
          = 6 * (e * T) + 3 * T - 6 * (e * e) - 6 * e - 2
    <3> DEFINE c == 3 * T - 2 * e  ee == e * e
    <3>1. c \in Int /\ ee \in Int /\ 3 * T - 2 * (e + 1) = c - 2 /\ (e + 1) * (e + 1) = ee + 2 * e + 1
      OBVIOUS
    <3>2. (ee + 2 * e + 1) * (c - 2) - ee * c = 2 * (e * c) + c - 2 * ee - 4 * e - 2
      <4> HIDE DEF c, ee
      <4> QED
        BY <1>1, <3>1
    <3>3. e * c = 3 * (e * T) - 2 * ee
      OBVIOUS
    <3>4. e * T \in Int
      OBVIOUS
    <3> DEFINE et == e * T  ec == e * c
    <3>5. ec = 3 * et - 2 * ee /\ et \in Int /\ c = 3 * T - 2 * e
      BY <3>3, <3>4
    <3>6. (ee + 2 * e + 1) * (c - 2) - ee * c = 2 * ec + c - 2 * ee - 4 * e - 2
      BY <3>2
    <3>7. (e + 1) * (e + 1) * (3 * T - 2 * (e + 1)) = (ee + 2 * e + 1) * (c - 2)
          /\ e * e * (3 * T - 2 * e) = ee * c
      BY <3>1
    <3> HIDE DEF c, ee, et, ec
    <3>8. 2 * ec + c - 2 * ee - 4 * e - 2 = 6 * et + 3 * T - 6 * ee - 6 * e - 2
      BY <1>1, <3>1, <3>5
    <3> QED
      BY <3>6, <3>7, <3>8 DEF et, ee
  <2>3. e * T = e * e + e * r + e
    BY <1>1
  <2> DEFINE et == e * T  ee == e * e  er == e * r
  <2>4. et \in Int /\ ee \in Int /\ er \in Int /\ et = ee + er + e
    BY <1>1, <2>3
  <2>5. 6 * et + 3 * T - 6 * ee - 6 * e - 2 = 6 * er + 3 * T - 2
    <3> HIDE DEF et, ee, er
    <3> QED
      BY <2>4
  <2> QED
    BY <2>1, <2>2, <2>5
<1>3. Bent(e, T) \in Int /\ Bent(e + 1, T) \in Int
  BY <1>1 DEF Bent
<1>4. Cubed(T) \in Nat \ {0}
  <2>1. T * T \in Nat \ {0}
    <3>1. T * T >= T * 1
      OBVIOUS
    <3> QED
      BY <3>1
  <2> DEFINE t == T * T
  <2> HIDE DEF t
  <2>2. t \in Nat \ {0}
    BY <2>1 DEF t
  <2>3. t * T >= t * 1
    BY <2>2
  <2>4. t * T \in Nat \ {0}
    BY <2>2, <2>3
  <2> QED
    BY <2>4 DEF Cubed, t
<1>5. e * r \in Nat
  BY <1>1
<1>6. Bent(e, T) <= Bent(e + 1, T)
  <2> DEFINE er == e * r
  <2>1. er \in Nat /\ Bent(e + 1, T) - Bent(e, T) = 6 * er + 3 * T - 2
    BY <1>2, <1>5
  <2> HIDE DEF er
  <2> QED
    BY <1>3, <2>1
<1>7. 2 * (Bent(e + 1, T) - Bent(e, T)) <= 3 * (T * T)
  \* What is missing from it is a square and a bit.
  <2> DEFINE er == e * r  ee == e * e  rr == r * r  tt == T * T  d == Bent(e + 1, T) - Bent(e, T)
             x == e - r  xx == x * x
  <2>1. tt = ee + rr + 2 * er + 2 * e + 2 * r + 1
    <3>1. (e + r + 1) * (e + r + 1) = e * e + r * r + 2 * (e * r) + 2 * e + 2 * r + 1
      BY <1>1
    <3> QED
      BY <1>1, <3>1
  <2>2. xx = ee + rr - 2 * er /\ xx \in Nat
    <3>1. (e - r) * (e - r) = e * e + r * r - 2 * (e * r)
      BY <1>1
    <3>2. x \in Int
      BY <1>1
    <3>3. xx \in Nat
      <4> HIDE DEF x
      <4> QED
        BY <3>2
    <3> QED
      BY <3>1, <3>3
  <2>3. er \in Nat /\ ee \in Nat /\ rr \in Nat /\ tt \in Nat /\ d = 6 * er + 3 * T - 2
    BY <1>1, <1>2
  <2> HIDE DEF er, ee, rr, tt, d, xx, r
  <2>4. 2 * d <= 3 * tt
    BY <1>1, <2>1, <2>2, <2>3
  <2> QED
    BY <2>4 DEF d, tt
<1>8. Bent(0, T) = 0 /\ Bent(T, T) = Cubed(T)
  <2>1. 3 * T - 2 * T = T /\ 0 * 0 * (3 * T - 2 * 0) = 0
    OBVIOUS
  <2> QED
    BY <2>1 DEF Bent, Cubed
<1> QED
  BY <1>3, <1>4, <1>6, <1>7, <1>8

\* Fractions of one size rise by no more than a limit when what they are of does.
LEMMA FractionsRise ==
  ASSUME NEW v, v.n \in Int, v.d \in Nat \ {0}, NEW w, w.n \in Int, w.d \in Nat \ {0},
         NEW D \in Nat \ {0}, NEW M \in Int, NEW N \in Int, NEW limit \in Int,
         v.n * D = v.d * M, w.n * D = w.d * N, N - M <= limit * D
  PROVE  Rises(v, w, limit)
<1> DEFINE a == v.n  b == v.d  c == w.n  d == w.d
<1>1. /\ a \in Int /\ b \in Nat \ {0} /\ c \in Int /\ d \in Nat \ {0}
      /\ a * D = b * M /\ c * D = d * N
  OBVIOUS
<1> HIDE DEF a, b, c, d
<1> DEFINE p == c * b - a * d  k == b * d
<1>2. k \in Nat
  BY <1>1
<1>3. (c * b) * D = k * N /\ (a * d) * D = k * M
  <2>1. (c * b) * D = b * (c * D) /\ (a * d) * D = d * (a * D)
    BY <1>1
  <2>2. b * (d * N) = (b * d) * N /\ d * (b * M) = (b * d) * M
    BY <1>1
  <2> QED
    BY <1>1, <2>1, <2>2
<1>4. p * D = k * (N - M)
  <2>1. (c * b - a * d) * D = (c * b) * D - (a * d) * D
    BY <1>1
  <2>2. k * (N - M) = k * N - k * M
    <3> HIDE DEF k
    <3> QED
      BY <1>2
  <2> QED
    BY <1>3, <2>1, <2>2
<1>5. p \in Int
  BY <1>1
<1> HIDE DEF p, k
<1>6. k * (N - M) <= k * (limit * D)
  <2> DEFINE x == N - M  y == limit * D
  <2>1. x \in Int /\ y \in Int /\ x <= y
    OBVIOUS
  <2> HIDE DEF x, y
  <2>2. k * x <= k * y
    BY <1>2, <2>1
  <2> QED
    BY <2>2 DEF x, y
<1>7. p * D <= (limit * k) * D
  <2>1. k * (limit * D) = (limit * k) * D
    BY <1>2
  <2> QED
    BY <1>4, <1>6, <2>1
<1> DEFINE z == limit * k
<1>8. z \in Int /\ p * D <= z * D
  BY <1>2, <1>7
<1> HIDE DEF z
<1>9. p <= z
  <2>1. p > z => p * D > z * D
    BY <1>5, <1>8
  <2>2. p * D \in Int /\ z * D \in Int
    BY <1>5, <1>8
  <2> QED
    BY <1>5, <1>8, <2>1, <2>2
<1>10. z = limit * b * d
  BY <1>1 DEF z, k
<1>11. c * b - a * d <= limit * b * d
  BY <1>9, <1>10 DEF p
<1> QED
  BY <1>11 DEF Rises, a, b, c, d

LEMMA SlopesHold ==
  ASSUME NEW delta \in Int, NEW T \in Nat \ {0}, NEW limit \in Nat \ {0}, NEW done_ \in Nat,
         delta >= 0 => 3 * delta <= T * (2 * limit), 2 * done_ <= 3 * (T * T)
  PROVE  delta * done_ <= limit * Cubed(T)
<1> DEFINE tt == T * T
<1>1. tt \in Nat /\ T * tt \in Nat /\ Cubed(T) = T * tt /\ limit * (T * tt) \in Nat
  <2>1. tt \in Nat
    OBVIOUS
  <2>2. Cubed(T) = T * tt
    BY DEF Cubed
  <2> HIDE DEF tt
  <2>3. T * tt \in Nat
    BY <2>1
  <2> DEFINE z == T * tt
  <2> HIDE DEF z
  <2>4. z \in Nat => limit * z \in Nat
    OBVIOUS
  <2> QED
    BY <2>1, <2>2, <2>3, <2>4 DEF z
<1>2. 2 * done_ <= 3 * tt
  OBVIOUS
<1> HIDE DEF tt
<1>3. CASE delta < 0
  <2>1. delta * done_ <= 0
    BY <1>3
  <2> DEFINE z == limit * (T * tt)  y == delta * done_
  <2>2. z \in Nat /\ y \in Int /\ y <= 0
    BY <1>1, <2>1
  <2> HIDE DEF y, z
  <2>3. y <= z
    BY <2>2
  <2> QED
    BY <1>1, <2>3 DEF y, z
<1>4. CASE delta >= 0
  <2>1. delta * (2 * done_) <= delta * (3 * tt)
    <3> DEFINE x == 2 * done_  y == 3 * tt
    <3>1. x \in Int /\ y \in Int /\ x <= y
      BY <1>1, <1>2
    <3> HIDE DEF x, y
    <3>2. delta * x <= delta * y
      BY <1>4, <3>1
    <3> QED
      BY <3>2 DEF x, y
  <2>2. (3 * delta) * tt <= (T * (2 * limit)) * tt
    <3> DEFINE x == 3 * delta  y == T * (2 * limit)
    <3>1. x \in Int /\ y \in Int /\ x <= y
      BY <1>4
    <3> HIDE DEF x, y
    <3>2. x * tt <= y * tt
      BY <1>1, <3>1
    <3> QED
      BY <3>2 DEF x, y
  <2>3. delta * (2 * done_) = 2 * (delta * done_) /\ delta * (3 * tt) = (3 * delta) * tt
        /\ (T * (2 * limit)) * tt = 2 * (limit * (T * tt))
    BY <1>1
  <2> DEFINE y == delta * done_  z == limit * (T * tt)  w == (3 * delta) * tt
  <2>4. y \in Int /\ z \in Int /\ w \in Int /\ 2 * y <= w /\ w <= 2 * z
    BY <1>1, <2>1, <2>2, <2>3
  <2> HIDE DEF y, z, w
  <2>5. y <= z
    BY <2>4
  <2> QED
    BY <1>1, <2>5 DEF y, z
<1> QED
  BY <1>3, <1>4

\* A segment of a profile that an entity follows, and how far it is after a number
\* of seconds, in fractions of its span.
Smooth(s) ==
  /\ s.from \in Int /\ s.to \in Int /\ s.span \in Nat
  /\ s.shape = "cubic" /\ s.by_distance = FALSE
Reached(s, e) == s.from * Cubed(s.span) + (s.to - s.from) * Bent(e, s.span)
ValueAt(s, e) == transition_value(s.shape, s.from, s.to, Q(e, s.span))
Fraction(q) == q.n \in Int /\ q.d \in Nat \ {0}
Of(q, N, D) == Fraction(q) /\ q.n * D = q.d * N

LEMMA ValuesAre ==
  ASSUME NEW s, Smooth(s), s.span > 0, NEW e \in 0 .. s.span
  PROVE  /\ Of(ValueAt(s, e), Reached(s, e), Cubed(s.span))
         /\ Reached(s, e) \in Int /\ Cubed(s.span) \in Nat \ {0}
<1> DEFINE T == s.span  a == s.from  delta == s.to - s.from
<1>1. T \in Nat \ {0} /\ a \in Int /\ delta \in Int /\ e \in 0 .. T
  BY DEF Smooth
<1> HIDE DEF T, a, delta
<1>2. Cubed(T) \in Nat \ {0}
  <2>1. 0 \in 0 .. T - 1
    BY <1>1
  <2> QED
    BY <1>1, <2>1, BentRises
<1>3. Bent(e, T) \in Int
  BY <1>1 DEF Bent
<1>4. CASE e = 0
  <2>1. ValueAt(s, e) = Q(a * (1 * 1 * 1) + delta * (0 * 0 * (3 * 1 - 2 * 0)), 1 * 1 * 1)
    BY <1>4 DEF ValueAt, transition_value, shape_fraction, clamp01, Q, Smooth, a, delta
  <2>2. ValueAt(s, e).n = a /\ ValueAt(s, e).d = 1
    BY <1>1, <2>1 DEF Q
  <2>3. Bent(e, T) = 0
    BY <1>1, <1>4 DEF Bent
  <2>4. a * Cubed(T) + delta * Bent(e, T) = a * Cubed(T) /\ a * Cubed(T) = 1 * (a * Cubed(T))
        /\ a * Cubed(T) \in Int
    BY <1>1, <1>2, <2>3
  <2> QED
    BY <1>1, <1>2, <2>2, <2>4 DEF Of, Fraction, Reached, T, a, delta
<1>5. CASE e # 0
  <2>1. e > 0 /\ ~ (e > T)
    BY <1>1, <1>5
  <2>2. clamp01(Q(e, T)) = Q(e, T)
    BY <1>1, <2>1 DEF clamp01, Q
  <2>3. shape_fraction(s.shape, Q(e, T)) = Q(e * e * (3 * T - 2 * e), T * T * T)
    BY <2>2 DEF shape_fraction, Q, Smooth
  <2>4. ValueAt(s, e) = Q(a * Cubed(T) + delta * Bent(e, T), Cubed(T))
    BY <2>3 DEF ValueAt, transition_value, Q, Cubed, Bent, T, a, delta
  <2> DEFINE n == a * Cubed(T) + delta * Bent(e, T)
  <2>5. n \in Int /\ n = Reached(s, e)
    BY <1>1, <1>2, <1>3 DEF Reached, T, a, delta
  <2>6. ValueAt(s, e).n = n /\ ValueAt(s, e).d = Cubed(T)
    BY <2>4 DEF Q
  <2> HIDE DEF n
  <2>7. n * Cubed(T) = Cubed(T) * n
    BY <1>2, <2>5
  <2> QED
    BY <1>2, <2>5, <2>6, <2>7 DEF Of, Fraction, T
<1> QED
  BY <1>4, <1>5

\* What the segment of a profile keeps of the limits.
Eased(s, limits) ==
  /\ s.to >= s.from => limits.acceleration = None \/ 3 * (s.to - s.from) <= s.span * (2 * limits.acceleration)
  /\ s.to < s.from => limits.deceleration = None \/ 3 * (s.from - s.to) <= s.span * (2 * limits.deceleration)
  /\ limits.speed = None \/ s.to <= limits.speed
Limited(limits) == \A l \in Limits : limits[l] = None \/ limits[l] \in Nat \ {0}

LEMMA SecondsRise ==
  ASSUME NEW s, Smooth(s), s.span > 0, NEW e \in 0 .. s.span - 1, NEW limits, Limited(limits), Eased(s, limits)
  PROVE  /\ limits.acceleration # None
              => Reached(s, e + 1) - Reached(s, e) <= limits.acceleration * Cubed(s.span)
         /\ limits.deceleration # None
              => Reached(s, e) - Reached(s, e + 1) <= limits.deceleration * Cubed(s.span)
         /\ Reached(s, s.span) = s.to * Cubed(s.span)
<1> DEFINE T == s.span  a == s.from  delta == s.to - s.from  acc == limits.acceleration  dec == limits.deceleration
           b == Bent(e, T)  c == Bent(e + 1, T)  k == Cubed(T)
<1>1. T \in Nat \ {0} /\ a \in Int /\ delta \in Int /\ e \in 0 .. T - 1
      /\ s.to = a + delta /\ s.from - s.to = -delta
  BY DEF Smooth
<1>2. /\ acc # None => acc \in Nat \ {0}
      /\ dec # None => dec \in Nat \ {0}
  BY DEF Limited, Limits
<1>3. /\ delta >= 0 /\ acc # None => 3 * delta <= T * (2 * acc)
      /\ delta < 0 /\ dec # None => 3 * (-delta) <= T * (2 * dec)
  <2>1. (s.to >= s.from <=> delta >= 0) /\ (s.to < s.from <=> delta < 0) /\ s.from - s.to = -delta
    BY DEF Smooth
  <2> QED
    BY <2>1 DEF Eased
<1> HIDE DEF T, delta
<1>4. b \in Int /\ c \in Int /\ k \in Nat \ {0} /\ b <= c /\ 2 * (c - b) <= 3 * (T * T)
      /\ Bent(T, T) = k
  BY <1>1, BentRises
<1>5. /\ Reached(s, e + 1) = a * k + delta * c /\ Reached(s, e) = a * k + delta * b
      /\ Reached(s, s.span) = a * k + delta * Bent(T, T)
  BY DEF Reached, T, delta
<1> HIDE DEF a, acc, dec, b, c, k
<1>6. c - b \in Nat
  BY <1>4
<1>7. /\ delta * (c - b) = (a * k + delta * c) - (a * k + delta * b)
      /\ (-delta) * (c - b) = (a * k + delta * b) - (a * k + delta * c)
      /\ a * k + delta * k = (a + delta) * k
  <2>1. delta * (c - b) = delta * c - delta * b /\ (-delta) * (c - b) = delta * b - delta * c
        /\ a * k + delta * k = (a + delta) * k
    BY <1>1, <1>4
  <2> DEFINE x == a * k  y == delta * c  z == delta * b
  <2>2. x \in Int /\ y \in Int /\ z \in Int
    BY <1>1, <1>4
  <2>3. delta * (c - b) = y - z /\ (-delta) * (c - b) = z - y
    BY <2>1
  <2> HIDE DEF x, y, z
  <2>4. y - z = (x + y) - (x + z) /\ z - y = (x + z) - (x + y)
    BY <2>2
  <2> QED
    BY <2>1, <2>3, <2>4 DEF x, y, z
<1>8. acc # None => delta * (c - b) <= acc * k
  BY <1>1, <1>2, <1>3, <1>4, <1>6, SlopesHold DEF k
<1>9. dec # None => (-delta) * (c - b) <= dec * k
  <2> SUFFICES ASSUME dec # None
               PROVE  (-delta) * (c - b) <= dec * k
    OBVIOUS
  <2>1. -delta \in Int /\ (-delta >= 0 => 3 * (-delta) <= T * (2 * dec))
    <3>1. CASE delta = 0
      <4>1. 3 * (-delta) = 0 /\ T * (2 * dec) >= 0 /\ -delta \in Int
        BY <1>1, <1>2, <3>1
      <4> QED
        BY <4>1
    <3>2. CASE delta # 0
      BY <1>1, <1>3, <3>2
    <3> QED
      BY <3>1, <3>2
  <2> DEFINE back == -delta
  <2> HIDE DEF back
  <2>2. back * (c - b) <= dec * k
    BY <1>1, <1>2, <1>4, <1>6, <2>1, SlopesHold DEF k, back
  <2> QED
    BY <2>2 DEF back
<1> QED
  BY <1>1, <1>4, <1>5, <1>7, <1>8, <1>9 DEF acc, dec, k, T

---------------------------------------------------------------------------
(* The segments of a speed profile.                                              *)

Segments == [from : Int, to : Int, shape : {"cubic"}, by_distance : {FALSE}, span : Nat]
Profiles == [from : Int, segments : Seq(Segments)]
\* The first so many segments of a profile follow each other, to where it is.
Driven(profile, k, limits) ==
  /\ profile.from \in Int /\ profile.segments \in Seq(Segments) /\ Len(profile.segments) = k
  /\ \A j \in 1 .. k : Eased(profile.segments[j], limits)
  /\ \A j \in 2 .. k : profile.segments[j].from = profile.segments[j - 1].to
  /\ k > 0 => profile.segments[k].to = profile.from
\* One more segment than a profile has, from where it is.
Lengthened(p, next, limits) ==
  \E s \in Segments : /\ next = [from |-> s.to, segments |-> Append(p.segments, s)]
                       /\ s.from = p.from /\ Eased(s, limits)
Entered(entry) == entry.speed \in Int /\ entry.time \in Optional(Int)

LEMMA LimitsHold ==
  ASSUME NEW action, NEW record,
         \A l \in Limits : {action.constraints[l], record.performance[l]} \subseteq Optional(Int)
  PROVE  Limited(ProfileLimits(action, record))
<1> SUFFICES ASSUME NEW l \in Limits
             PROVE  ProfileLimits(action, record)[l] = None \/ ProfileLimits(action, record)[l] \in Nat \ {0}
  BY DEF Limited
<1>1. ProfileLimits(action, record)[l] = overriding_limit(action.constraints[l], record.performance[l])
  BY DEF ProfileLimits
<1>2. action.constraints[l] \in Optional(Int) /\ record.performance[l] \in Optional(Int)
  OBVIOUS
<1> QED
  BY <1>1, <1>2 DEF overriding_limit, Positive, Optional

LEMMA SegmentsAre ==
  ASSUME NEW s \in Segments
  PROVE  Smooth(s)
BY DEF Smooth, Segments

LEMMA ProfileSteps ==
  ASSUME NEW action, action.follow, NEW limits, Limited(limits), NEW reference \in Int,
         NEW p, p.from \in Int, NEW entry, Entered(entry)
  PROVE  Lengthened(p, ProfileSegment(action, limits, reference, p, entry), limits)
<1> DEFINE next == ProfileSegment(action, limits, reference, p, entry)
            asked_ == IF action.ref = None THEN entry.speed ELSE reference + entry.speed
           to == IF limits.speed # None /\ asked_ > limits.speed THEN limits.speed ELSE asked_
           from == p.from
           limit == IF to >= from THEN limits.acceleration ELSE limits.deceleration
           rate == IF to >= from THEN limits.acceleration_rate ELSE limits.deceleration_rate
           span == constrained_duration("cubic", to - from, limit, rate, entry.time)
           s == [from |-> from, to |-> to, shape |-> "cubic", by_distance |-> FALSE, span |-> span]
<1>1. \A l \in Limits : limits[l] \in Optional(Nat \ {0})
  BY DEF Limited, Optional
<1>2. /\ limits.speed \in Optional(Nat \ {0})
      /\ limits.acceleration \in Optional(Nat \ {0}) /\ limits.deceleration \in Optional(Nat \ {0})
      /\ limits.acceleration_rate \in Optional(Nat \ {0}) /\ limits.deceleration_rate \in Optional(Nat \ {0})
  BY <1>1 DEF Limits
<1>3. asked_ \in Int /\ from \in Int
  BY DEF Entered
<1>4. to \in Int /\ (limits.speed = None \/ to <= limits.speed)
  <2> HIDE DEF asked_
  <2> QED
    BY <1>2, <1>3 DEF Optional
<1>5. limit \in Optional(Int) /\ rate \in Optional(Int)
  BY <1>2 DEF Optional
<1>6. follow_shape("linear") = "cubic"
  BY DEF follow_shape
<1>7. next = [from |-> to, segments |-> Append(p.segments, s)]
  BY <1>6 DEF ProfileSegment
<1> HIDE DEF asked_, to, from
<1>8. to - from \in Int /\ entry.time \in Optional(Int)
  BY <1>3, <1>4 DEF Entered
<1>9. span \in Nat /\ (Positive(limit) => 3 * Magnitude(to - from) <= span * (2 * limit))
  <2> HIDE DEF limit, rate
  <2> QED
    BY <1>5, <1>8, DurationsAreEnough
<1> HIDE DEF span
<1>10. Positive(limit) <=> limit # None
  <2>1. limit \in Optional(Nat \ {0})
    BY <1>2
  <2> HIDE DEF limit
  <2> QED
    BY <2>1 DEF Positive, Optional
<1>11. s \in Segments
  BY <1>3, <1>4, <1>9 DEF Segments
<1>12. Eased(s, limits)
  <2>1. CASE to >= from
    <3>1. Magnitude(to - from) = to - from /\ limit = limits.acceleration
      BY <2>1, <1>3, <1>4 DEF Magnitude
    <3>2. limits.acceleration = None \/ 3 * (to - from) <= span * (2 * limits.acceleration)
      BY <3>1, <1>9, <1>10
    <3>3. ~ (to < from)
      BY <2>1, <1>3, <1>4
    <3> QED
      BY <3>2, <3>3, <1>4 DEF Eased
  <2>2. CASE ~ (to >= from)
    <3>1. Magnitude(to - from) = from - to /\ limit = limits.deceleration
      BY <2>2, <1>3, <1>4 DEF Magnitude
    <3>2. limits.deceleration = None \/ 3 * (from - to) <= span * (2 * limits.deceleration)
      BY <3>1, <1>9, <1>10
    <3> QED
      BY <3>2, <2>2, <1>4 DEF Eased
  <2> QED
    BY <2>1, <2>2
<1>13. s.from = p.from /\ s.to = to
  BY DEF from
<1> HIDE DEF s, next
<1>14. Lengthened(p, next, limits)
  BY <1>7, <1>11, <1>12, <1>13 DEF Lengthened
<1> QED
  BY <1>14 DEF next

LEMMA DrivenOn ==
  ASSUME NEW p, NEW k \in Nat, NEW limits, Driven(p, k, limits),
         NEW next, Lengthened(p, next, limits)
  PROVE  Driven(next, k + 1, limits)
<1> PICK s \in Segments : /\ next = [from |-> s.to, segments |-> Append(p.segments, s)]
                          /\ s.from = p.from /\ Eased(s, limits)
  BY DEF Lengthened
<1> DEFINE old == p.segments  new == Append(old, s)
<1>1. old \in Seq(Segments) /\ Len(old) = k
  BY DEF Driven
<1> HIDE DEF old
<1>2. new \in Seq(Segments) /\ Len(new) = k + 1 /\ new[k + 1] = s /\ \A j \in 1 .. k : new[j] = old[j]
  BY <1>1
<1>3. next.from = s.to /\ next.segments = new
  BY DEF old
<1>4. s.to \in Int
  BY DEF Segments
<1> HIDE DEF new
<1>5. \A j \in 1 .. k : Eased(old[j], limits)
  BY DEF Driven, old
<1>6. \A j \in 2 .. k : old[j].from = old[j - 1].to
  BY DEF Driven, old
<1>7. k > 0 => old[k].to = p.from
  BY DEF Driven, old
<1>8. ASSUME NEW j \in 1 .. k + 1
      PROVE  Eased(new[j], limits)
  <2>1. j \in 1 .. k \/ j = k + 1
    OBVIOUS
  <2> QED
    BY <2>1, <1>2, <1>5
<1>9. ASSUME NEW j \in 2 .. k + 1
      PROVE  new[j].from = new[j - 1].to
  <2>1. CASE j \in 2 .. k
    <3>1. j \in 1 .. k /\ j - 1 \in 1 .. k
      BY <2>1
    <3> QED
      BY <2>1, <3>1, <1>2, <1>6
  <2>2. CASE j = k + 1
    <3>1. k > 0 /\ j - 1 = k /\ k \in 1 .. k
      BY <2>2
    <3> QED
      BY <2>2, <3>1, <1>2, <1>7
  <2> QED
    BY <2>1, <2>2
<1>10. new[k + 1].to = next.from
  BY <1>2, <1>3
<1> QED
  BY <1>2, <1>3, <1>4, <1>8, <1>9, <1>10 DEF Driven

\* What the entries of a profile come to.
ProfileOf(action, record, reference, first, entries) ==
  FoldLeft(LAMBDA profile, entry :
             ProfileSegment(action, ProfileLimits(action, record), reference, profile, entry),
           [from |-> first, segments |-> <<>>], entries)

LEMMA ProfilesFold ==
  ASSUME NEW action, action.follow, NEW limits, Limited(limits), NEW reference \in Int, NEW speed_ \in Int,
         NEW record, limits = ProfileLimits(action, record),
         NEW seq, NEW n \in Nat, DOMAIN seq = 1 .. n, \A i \in 1 .. n : Entered(seq[i])
  PROVE  Driven(ProfileOf(action, record, reference, speed_, seq), n, limits)
<1> DEFINE S == SUBSET (1 .. n)
           V == Profiles
           base == [from |-> speed_, segments |-> <<>>]
           top == [s \in S |-> Max(s)]
           Op(p, entry) == ProfileSegment(action, ProfileLimits(action, record), reference, p, entry)
           step == [a \in (1 .. n) \X V |-> Op(a[2], seq[a[1]])]
           Is(h) == h = [s \in S |-> IF s = {} THEN base ELSE Op(h[s \ {Max(s)}], seq[Max(s)])]
           iter == CHOOSE h : Is(h)
<1>1. Tops(S, top)
  <2> SUFFICES ASSUME NEW s \in S, s # {}
               PROVE  Max(s) \in s /\ \A y \in s : y <= Max(s)
    BY DEF Tops
  <2>1. \E x \in s : \A y \in s : y <= x
    <3>1. s \subseteq 0 .. n
      OBVIOUS
    <3> QED
      BY <3>1, GreatestNatural
  <2>2. \E x \in s : \A y \in s : x >= y
    BY <2>1
  <2>3. Max(s) \in s /\ \A y \in s : Max(s) >= y
    BY <2>2 DEF Max
  <2> QED
    BY <2>3
<1>2. ASSUME NEW i \in 1 .. n, NEW p \in V
      PROVE  Lengthened(p, Op(p, seq[i]), limits)
  <2>1. p.from \in Int /\ Entered(seq[i])
    BY DEF Profiles
  <2>2. Op(p, seq[i]) = ProfileSegment(action, limits, reference, p, seq[i])
    OBVIOUS
  <2>3. Lengthened(p, ProfileSegment(action, limits, reference, p, seq[i]), limits)
    <3> HIDE DEF Op, V
    <3> QED
      BY <2>1, ProfileSteps
  <2> QED
    BY <2>2, <2>3
<1> HIDE DEF Op
<1>3. ASSUME NEW i \in 1 .. n, NEW p \in V
      PROVE  Op(p, seq[i]) \in V
  <2>1. PICK s \in Segments : Op(p, seq[i]) = [from |-> s.to, segments |-> Append(p.segments, s)]
    BY <1>2 DEF Lengthened
  <2>2. p.segments \in Seq(Segments) /\ s.to \in Int
    BY DEF Profiles, Segments
  <2>3. Append(p.segments, s) \in Seq(Segments)
    BY <2>2
  <2> QED
    BY <2>1, <2>2, <2>3 DEF Profiles
<1>4. step \in [(1 .. n) \X V -> V]
  BY <1>3
<1>5. base \in V
  <2>1. <<>> \in Seq(Segments)
    OBVIOUS
  <2> QED
    BY <2>1 DEF Profiles
<1>6. PICK g : Folds(g, S, V, base, step, top)
  <2>1. base \in V /\ step \in [(1 .. n) \X V -> V]
    BY <1>4, <1>5
  <2>2. S = SUBSET (1 .. n)
    OBVIOUS
  <2> HIDE DEF top, step, Is, V, base, S
  <2> QED
    BY <1>1, <2>1, <2>2, FoldRecursion
<1>7. ASSUME NEW s \in S, s # {}
      PROVE  top[s] = Max(s) /\ top[s] \in 1 .. n /\ s \ {top[s]} \in S
  BY <1>1, <1>7 DEF Tops
<1>8. ASSUME NEW i \in 1 .. n, NEW v \in V
      PROVE  step[<<i, v>>] = Op(v, seq[i])
  BY <1>8
<1> HIDE DEF top, step, V, base
<1>9. Is(g)
  <2>1. \A s \in S : g[s] = IF s = {} THEN base ELSE Op(g[s \ {Max(s)}], seq[Max(s)])
    BY <1>6, <1>7, <1>8 DEF Folds
  <2>2. g = [s \in S |-> g[s]]
    BY <1>6 DEF Folds
  <2> QED
    BY <2>1, <2>2
<1>10. Is(iter)
  <2> HIDE DEF Is
  <2> QED
    BY <1>9
<1> HIDE DEF iter
<1>11. iter[{}] = base /\ \A s \in S : s # {} => iter[s] = Op(iter[s \ {top[s]}], seq[top[s]])
  BY <1>10, <1>7
<1> DEFINE run == [k \in 0 .. n |-> iter[1 .. k]]
<1>12. Recursive(run, n, V, base, step)
  <2>1. FoldsIn(V, iter, S, base, step, top)
    BY <1>11, <1>7, <1>8 DEF FoldsIn
  <2>2. base \in V /\ step \in [(1 .. n) \X V -> V]
    BY <1>4, <1>5
  <2>3. S = SUBSET (1 .. n)
    OBVIOUS
  <2>4. run = [k \in 0 .. n |-> iter[1 .. k]]
    OBVIOUS
  <2> HIDE DEF Is, V, base, S, run
  <2> QED
    BY <1>1, <2>1, <2>2, <2>3, <2>4, FoldSteps
<1> HIDE DEF run
<1>13. run[0] = base /\ \A k \in 1 .. n : run[k - 1] \in V /\ run[k] = Op(run[k - 1], seq[k])
  <2>1. run \in [0 .. n -> V] /\ run[0] = base /\ \A k \in 1 .. n : run[k] = step[<<k, run[k - 1]>>]
    BY <1>12 DEF Recursive
  <2>2. \A k \in 1 .. n : k - 1 \in 0 .. n
    OBVIOUS
  <2> QED
    BY <2>1, <2>2, <1>8
<1> DEFINE K == {k \in 0 .. n : Driven(run[k], k, limits)}
<1>14. 0 \in K
  <2>1. base.from = speed_ /\ base.segments = <<>> /\ <<>> \in Seq(Segments) /\ Len(<<>>) = 0
    BY DEF base
  <2>2. Driven(base, 0, limits)
    BY <2>1 DEF Driven
  <2> QED
    BY <2>2, <1>13
<1>15. ASSUME NEW k \in 1 .. n, k - 1 \in K
       PROVE  k \in K
  <2>1. Lengthened(run[k - 1], run[k], limits)
    <3>1. run[k - 1] \in V /\ run[k] = Op(run[k - 1], seq[k])
      BY <1>13
    <3> DEFINE p == run[k - 1]
    <3> HIDE DEF p
    <3>2. Lengthened(p, Op(p, seq[k]), limits)
      BY <3>1, <1>2 DEF p
    <3> QED
      BY <3>1, <3>2 DEF p
  <2>2. Driven(run[k - 1], k - 1, limits) /\ k - 1 \in Nat /\ (k - 1) + 1 = k
    BY <1>15
  <2>3. Driven(run[k], (k - 1) + 1, limits)
    BY <2>1, <2>2, DrivenOn
  <2> QED
    BY <2>2, <2>3
<1> HIDE DEF K
<1>16. n \in K
  BY <1>14, <1>15, IntervalInduction
<1>17. Driven(iter[1 .. n], n, limits)
  BY <1>16 DEF K, run
<1>18. FoldLeft(LAMBDA profile, entry :
                  ProfileSegment(action, ProfileLimits(action, record), reference, profile, entry),
                [from |-> speed_, segments |-> <<>>], seq) = iter[1 .. n]
  BY DEF FoldLeft, MapThenFoldSet, iter, Is, Op, base
<1> QED
  BY <1>17, <1>18 DEF ProfileOf

---------------------------------------------------------------------------
(* How far a profile has come after a number of seconds.                         *)

\* Where each segment ends.
Sums(P, seq, n) ==
  P \in [0 .. n -> Nat] /\ P[0] = 0 /\ \A k \in 1 .. n : P[k] = P[k - 1] + seq[k].span

LEMMA SpansFold ==
  ASSUME NEW seq, NEW n \in Nat, DOMAIN seq = 1 .. n, \A i \in 1 .. n : seq[i].span \in Nat
  PROVE  \E P : Sums(P, seq, n) /\ FoldLeft(LAMBDA sum, s : sum + s.span, 0, seq) = P[n]
<1> DEFINE S == SUBSET (1 .. n)
           top == [s \in S |-> Max(s)]
           step == [a \in (1 .. n) \X Nat |-> a[2] + seq[a[1]].span]
           Is(h) == h = [s \in S |-> IF s = {} THEN 0 ELSE h[s \ {Max(s)}] + seq[Max(s)].span]
           iter == CHOOSE h : Is(h)
<1>1. Tops(S, top)
  <2> SUFFICES ASSUME NEW s \in S, s # {}
               PROVE  Max(s) \in s /\ \A y \in s : y <= Max(s)
    BY DEF Tops
  <2>1. \E x \in s : \A y \in s : y <= x
    <3>1. s \subseteq 0 .. n
      OBVIOUS
    <3> QED
      BY <3>1, GreatestNatural
  <2>2. \E x \in s : \A y \in s : x >= y
    BY <2>1
  <2>3. Max(s) \in s /\ \A y \in s : Max(s) >= y
    BY <2>2 DEF Max
  <2> QED
    BY <2>3
<1>2. step \in [(1 .. n) \X Nat -> Nat]
  OBVIOUS
<1> DEFINE V == Nat
           base == 0
<1>3. PICK g : Folds(g, S, V, base, step, top)
  <2>1. base \in V /\ step \in [(1 .. n) \X V -> V]
    BY <1>2
  <2>2. S = SUBSET (1 .. n)
    OBVIOUS
  <2> HIDE DEF top, step, Is, V, base, S
  <2> QED
    BY <1>1, <2>1, <2>2, FoldRecursion
<1>4. ASSUME NEW s \in S, s # {}
      PROVE  top[s] = Max(s) /\ top[s] \in 1 .. n /\ s \ {top[s]} \in S
  BY <1>1, <1>4 DEF Tops
<1>5. ASSUME NEW i \in 1 .. n, NEW v \in Nat
      PROVE  step[<<i, v>>] = v + seq[i].span
  BY <1>5
<1> HIDE DEF top, step
<1>6. Is(g)
  <2>1. ASSUME NEW s \in S
        PROVE  g[s] = IF s = {} THEN 0 ELSE g[s \ {Max(s)}] + seq[Max(s)].span
    <3>1. /\ s = {} => g[s] = base
          /\ s # {} => /\ g[s] = step[<<top[s], g[s \ {top[s]}]>>]
                       /\ s \ {top[s]} \in S => g[s \ {top[s]}] \in V
      BY <1>3 DEF Folds
    <3>2. CASE s = {}
      BY <3>1, <3>2
    <3>3. CASE s # {}
      <4>1. top[s] = Max(s) /\ top[s] \in 1 .. n /\ s \ {top[s]} \in S
        BY <1>4, <3>3
      <4>2. g[s \ {Max(s)}] \in Nat /\ g[s] = step[<<Max(s), g[s \ {Max(s)}]>>] /\ Max(s) \in 1 .. n
        BY <3>1, <3>3, <4>1
      <4>3. step[<<Max(s), g[s \ {Max(s)}]>>] = g[s \ {Max(s)}] + seq[Max(s)].span
        BY <1>5, <4>2
      <4> QED
        BY <3>3, <4>2, <4>3
    <3> QED
      BY <3>2, <3>3
  <2>2. g = [s \in S |-> g[s]]
    BY <1>3 DEF Folds
  <2> QED
    BY <2>1, <2>2
<1>7. Is(iter)
  <2> HIDE DEF Is
  <2> QED
    BY <1>6
<1> HIDE DEF iter
<1>8. iter[{}] = 0 /\ \A s \in S : s # {} => iter[s] = iter[s \ {top[s]}] + seq[top[s]].span
  BY <1>7, <1>4
<1> DEFINE run == [k \in 0 .. n |-> iter[1 .. k]]
<1>9. Recursive(run, n, V, base, step)
  <2>1. FoldsIn(V, iter, S, base, step, top)
    BY <1>8, <1>4, <1>5 DEF FoldsIn
  <2>2. base \in V /\ step \in [(1 .. n) \X V -> V]
    BY <1>2
  <2>3. S = SUBSET (1 .. n)
    OBVIOUS
  <2>4. run = [k \in 0 .. n |-> iter[1 .. k]]
    OBVIOUS
  <2> HIDE DEF Is, V, base, S, run
  <2> QED
    BY <1>1, <2>1, <2>2, <2>3, <2>4, FoldSteps
<1>10. run[n] = iter[1 .. n]
  OBVIOUS
<1> HIDE DEF run
<1>11. Sums(run, seq, n)
  <2>1. run \in [0 .. n -> Nat] /\ run[0] = 0 /\ \A k \in 1 .. n : run[k] = step[<<k, run[k - 1]>>]
    BY <1>9 DEF Recursive
  <2>2. \A k \in 1 .. n : k - 1 \in 0 .. n
    OBVIOUS
  <2> QED
    BY <2>1, <2>2, <1>5 DEF Sums
<1>12. FoldLeft(LAMBDA sum, s : sum + s.span, 0, seq) = iter[1 .. n]
  BY DEF FoldLeft, MapThenFoldSet, iter, Is
<1> QED
  BY <1>10, <1>11, <1>12

LEMMA SumsAscend ==
  ASSUME NEW seq, NEW n \in Nat, NEW P, Sums(P, seq, n), \A i \in 1 .. n : seq[i].span \in Nat,
         NEW i \in 0 .. n, NEW m \in 0 .. n, i <= m
  PROVE  P[i] <= P[m]
<1> DEFINE K == {k \in 0 .. n : i <= k => P[i] <= P[k]}
<1>0. P \in [0 .. n -> Nat] /\ \A k \in 1 .. n : P[k] = P[k - 1] + seq[k].span
  BY DEF Sums
<1>1. 0 \in K
  BY <1>0
<1>2. ASSUME NEW k \in 1 .. n, k - 1 \in K
      PROVE  k \in K
  <2>0. k - 1 \in 0 .. n
    OBVIOUS
  <2>1. P[k] = P[k - 1] + seq[k].span /\ seq[k].span \in Nat
    BY <1>0
  <2>2. P[k - 1] \in Nat /\ P[k] \in Nat /\ P[i] \in Nat /\ k \in 0 .. n
    BY <2>0, <2>1, <1>0
  <2>3. i <= k - 1 => P[i] <= P[k - 1]
    BY <1>2
  <2>4. i = k \/ i <= k - 1 \/ ~ (i <= k)
    OBVIOUS
  <2> QED
    BY <2>0, <2>1, <2>2, <2>3, <2>4
<1> HIDE DEF K
<1>3. m \in K
  BY <1>1, <1>2, IntervalInduction
<1> QED
  BY <1>3 DEF K

\* A step of a controller that goes by time.
Runs(seq, n) ==
  [c : [segments : {seq}, index : 1 .. n + 1, elapsed : Nat, traveled : {0}], dt : Nat, distance : {0}, held : BOOLEAN]
\* After so many segments, a time from the start.
Through(run, k, P, t) ==
  IF run.held THEN \E j \in 1 .. k : /\ P[j - 1] <= t /\ t < P[j]
                                     /\ run.c.index = j /\ run.c.elapsed = t - P[j - 1]
  ELSE /\ run.c.index = k + 1 /\ run.c.elapsed = 0
       /\ P[k] <= t /\ run.dt = t - P[k]

LEMMA RunsExcept ==
  ASSUME NEW c, NEW seq, NEW index, NEW elapsed, NEW dt, NEW held, NEW x, NEW y, NEW run, NEW d,
         c = [segments |-> seq, index |-> index, elapsed |-> elapsed, traveled |-> 0],
         run = [c |-> c, dt |-> dt, distance |-> 0, held |-> held]
  PROVE  /\ [c EXCEPT !.index = x, !.elapsed = 0, !.traveled = 0]
              = [segments |-> seq, index |-> x, elapsed |-> 0, traveled |-> 0]
         /\ [c EXCEPT !.elapsed = y] = [segments |-> seq, index |-> index, elapsed |-> y, traveled |-> 0]
         /\ [run EXCEPT !.c = d] = [c |-> d, dt |-> dt, distance |-> 0, held |-> held]
         /\ [run EXCEPT !.c = d, !.dt = y] = [c |-> d, dt |-> y, distance |-> 0, held |-> held]
         /\ [run EXCEPT !.c = d, !.dt = 0, !.held = TRUE] = [c |-> d, dt |-> 0, distance |-> 0, held |-> TRUE]
<1> DEFINE e == [c EXCEPT !.index = x]  f == [e EXCEPT !.elapsed = 0]  g == [f EXCEPT !.traveled = 0]
           p == [run EXCEPT !.c = d]  q == [p EXCEPT !.dt = y]  r == [p EXCEPT !.dt = 0]  s == [r EXCEPT !.held = TRUE]
<1>1. e = [segments |-> seq, index |-> x, elapsed |-> elapsed, traveled |-> 0]
  OBVIOUS
<1>2. f = [segments |-> seq, index |-> x, elapsed |-> 0, traveled |-> 0]
  <2> HIDE DEF e
  <2> QED
    BY <1>1
<1>3. g = [segments |-> seq, index |-> x, elapsed |-> 0, traveled |-> 0]
  <2> HIDE DEF f
  <2> QED
    BY <1>2
<1>4. g = [c EXCEPT !.index = x, !.elapsed = 0, !.traveled = 0]
  OBVIOUS
<1>5. p = [c |-> d, dt |-> dt, distance |-> 0, held |-> held]
  OBVIOUS
<1>6. q = [c |-> d, dt |-> y, distance |-> 0, held |-> held] /\ r = [c |-> d, dt |-> 0, distance |-> 0, held |-> held]
  <2> HIDE DEF p
  <2> QED
    BY <1>5
<1>7. s = [c |-> d, dt |-> 0, distance |-> 0, held |-> TRUE]
  <2> DEFINE z == TRUE
  <2>1. s = [r EXCEPT !.held = z]
    OBVIOUS
  <2> HIDE DEF r, z, s
  <2>2. [r EXCEPT !.held = z] = [c |-> d, dt |-> 0, distance |-> 0, held |-> z]
    BY <1>6
  <2> QED
    BY <2>1, <2>2 DEF z
<1>8. q = [run EXCEPT !.c = d, !.dt = y] /\ s = [run EXCEPT !.c = d, !.dt = 0, !.held = TRUE]
  OBVIOUS
<1>9. [c EXCEPT !.elapsed = y] = [segments |-> seq, index |-> index, elapsed |-> y, traveled |-> 0]
  OBVIOUS
<1> HIDE DEF g, q, s
<1> QED
  BY <1>3, <1>4, <1>5, <1>6, <1>7, <1>8, <1>9 DEF p

LEMMA SegmentRuns ==
  ASSUME NEW seq, NEW n \in Nat, \A i \in 1 .. n : seq[i] \in Segments,
         NEW run \in Runs(seq, n), NEW i \in 1 .. n
  PROVE  /\ Segment(run, i) \in Runs(seq, n)
         /\ run.held => Segment(run, i) = run
         /\ ~run.held /\ run.c.index = i /\ run.c.elapsed = 0 /\ seq[i].span <= run.dt
              => /\ ~Segment(run, i).held /\ Segment(run, i).c.index = i + 1 /\ Segment(run, i).c.elapsed = 0
                 /\ Segment(run, i).dt = run.dt - seq[i].span
         /\ ~run.held /\ run.c.index = i /\ run.c.elapsed = 0 /\ seq[i].span > run.dt
              => /\ Segment(run, i).held /\ Segment(run, i).c.index = i
                 /\ Segment(run, i).c.elapsed = run.dt
<1> DEFINE c == run.c  s == c.segments[i]  dt == run.dt
           next == [c EXCEPT !.index = i + 1, !.elapsed = 0, !.traveled = 0]
           taken == [run EXCEPT !.c = next]
           spent == [run EXCEPT !.c = next, !.dt = @ - (s.span - c.elapsed)]
           held == [run EXCEPT !.c.elapsed = @ + dt, !.dt = 0, !.held = TRUE]
<1>1. /\ c = [segments |-> seq, index |-> c.index, elapsed |-> c.elapsed, traveled |-> 0]
      /\ c.index \in 1 .. n + 1 /\ c.elapsed \in Nat /\ dt \in Nat /\ run.held \in BOOLEAN
      /\ run = [c |-> c, dt |-> dt, distance |-> 0, held |-> run.held]
  BY DEF Runs
<1>2. s = seq[i] /\ s.by_distance = FALSE /\ s.span \in Nat
  <2>1. c.segments = seq
    BY <1>1
  <2> QED
    BY <2>1 DEF Segments
<1>3. Segment(run, i) = IF i # c.index \/ run.held THEN run
                        ELSE IF s.span <= 0 THEN taken
                        ELSE IF dt >= s.span - c.elapsed THEN spent
                        ELSE held
  BY <1>2 DEF Segment
<1>4. /\ next = [segments |-> seq, index |-> i + 1, elapsed |-> 0, traveled |-> 0]
      /\ taken = [c |-> next, dt |-> dt, distance |-> 0, held |-> run.held]
      /\ spent = [c |-> next, dt |-> dt - (s.span - c.elapsed), distance |-> 0, held |-> run.held]
      /\ held = [c |-> [segments |-> seq, index |-> c.index, elapsed |-> c.elapsed + dt, traveled |-> 0],
                 dt |-> 0, distance |-> 0, held |-> TRUE]
  <2> DEFINE index == c.index  elapsed == c.elapsed  was == run.held
             further == [c EXCEPT !.elapsed = elapsed + dt]  j == i + 1  left == dt - (s.span - elapsed)
  <2>1. /\ c = [segments |-> seq, index |-> index, elapsed |-> elapsed, traveled |-> 0]
        /\ run = [c |-> c, dt |-> dt, distance |-> 0, held |-> was]
    BY <1>1
  <2>2. /\ next = [c EXCEPT !.index = j, !.elapsed = 0, !.traveled = 0]
        /\ taken = [run EXCEPT !.c = next]
        /\ spent = [run EXCEPT !.c = next, !.dt = left]
        /\ held = [run EXCEPT !.c = further, !.dt = 0, !.held = TRUE]
    OBVIOUS
  <2> DEFINE e == elapsed + dt
  <2>4. further = [c EXCEPT !.elapsed = e]
    OBVIOUS
  <2> HIDE DEF index, elapsed, was, further, j, left, next, taken, spent, held, dt, c, e, s
  <2>3. /\ next = [segments |-> seq, index |-> j, elapsed |-> 0, traveled |-> 0]
        /\ further = [segments |-> seq, index |-> index, elapsed |-> e, traveled |-> 0]
        /\ taken = [c |-> next, dt |-> dt, distance |-> 0, held |-> was]
        /\ spent = [c |-> next, dt |-> left, distance |-> 0, held |-> was]
        /\ held = [c |-> further, dt |-> 0, distance |-> 0, held |-> TRUE]
    BY <2>1, <2>2, <2>4, RunsExcept
  <2> QED
    BY <2>3 DEF index, elapsed, was, j, left, e
<1>5. /\ taken = [c |-> next, dt |-> dt, distance |-> 0, held |-> run.held]
      /\ spent = [c |-> next, dt |-> dt - (s.span - c.elapsed), distance |-> 0, held |-> run.held]
      /\ held = [c |-> [segments |-> seq, index |-> c.index, elapsed |-> c.elapsed + dt, traveled |-> 0],
                 dt |-> 0, distance |-> 0, held |-> TRUE]
  BY <1>4
<1> HIDE DEF next, s, taken, spent, held, c, dt
<1>6. next \in [segments : {seq}, index : 1 .. n + 1, elapsed : Nat, traveled : {0}]
      /\ next.index = i + 1 /\ next.elapsed = 0
  BY <1>4
<1>7. taken \in Runs(seq, n) /\ held \in Runs(seq, n)
      /\ (dt >= s.span - c.elapsed => spent \in Runs(seq, n))
  BY <1>1, <1>2, <1>5, <1>6 DEF Runs
<1>8. /\ taken.held = run.held /\ taken.c = next /\ taken.dt = dt
      /\ spent.held = run.held /\ spent.c = next /\ spent.dt = dt - (s.span - c.elapsed)
      /\ held.held = TRUE /\ held.c.index = c.index /\ held.c.elapsed = c.elapsed + dt
  BY <1>5
<1>9. run.c.index = c.index /\ run.c.elapsed = c.elapsed /\ run.dt = dt
  BY DEF c, dt
<1>10. Segment(run, i) \in Runs(seq, n)
  BY <1>3, <1>7
<1>11. run.held => Segment(run, i) = run
  BY <1>3
<1>12. ASSUME ~run.held, c.index = i, c.elapsed = 0, s.span <= dt
       PROVE  /\ ~Segment(run, i).held /\ Segment(run, i).c.index = i + 1 /\ Segment(run, i).c.elapsed = 0
              /\ Segment(run, i).dt = dt - s.span
  <2>1. CASE s.span <= 0
    <3>1. Segment(run, i) = taken
      BY <1>3, <1>12, <2>1
    <3>2. s.span = 0
      BY <1>2, <2>1
    <3> QED
      BY <3>1, <3>2, <1>1, <1>6, <1>8, <1>12
  <2>2. CASE ~ (s.span <= 0)
    <3>1. Segment(run, i) = spent
      BY <1>1, <1>2, <1>3, <1>12, <2>2
    <3>2. s.span - c.elapsed = s.span
      BY <1>2, <1>12
    <3> QED
      BY <3>1, <3>2, <1>6, <1>8, <1>12
  <2> QED
    BY <2>1, <2>2
<1>13. ASSUME ~run.held, c.index = i, c.elapsed = 0, s.span > dt
       PROVE  Segment(run, i).held /\ Segment(run, i).c.index = i /\ Segment(run, i).c.elapsed = dt
  <2>1. Segment(run, i) = held
    BY <1>1, <1>2, <1>3, <1>13
  <2> QED
    BY <2>1, <1>1, <1>8, <1>13
<1> QED
  BY <1>2, <1>9, <1>10, <1>11, <1>12, <1>13

LEMMA ThroughOneMore ==
  ASSUME NEW seq, NEW n \in Nat, \A i \in 1 .. n : seq[i] \in Segments, NEW P, Sums(P, seq, n),
         NEW t \in Nat, NEW run \in Runs(seq, n), NEW k \in 1 .. n, Through(run, k - 1, P, t)
  PROVE  Through(Segment(run, k), k, P, t)
<1>1. P \in [0 .. n -> Nat] /\ P[k] = P[k - 1] + seq[k].span /\ k - 1 \in 0 .. n /\ k \in 0 .. n
      /\ seq[k].span \in Nat
  <2>1. k - 1 \in 0 .. n /\ k \in 0 .. n
    OBVIOUS
  <2>2. P \in [0 .. n -> Nat] /\ P[k] = P[k - 1] + seq[k].span
    BY DEF Sums
  <2>3. seq[k].span \in Nat
    BY DEF Segments
  <2> QED
    BY <2>1, <2>2, <2>3
<1> DEFINE next == Segment(run, k)
<1>2. /\ run.held => next = run
      /\ ~run.held /\ run.c.index = k /\ run.c.elapsed = 0 /\ seq[k].span <= run.dt
           => ~next.held /\ next.c.index = k + 1 /\ next.c.elapsed = 0 /\ next.dt = run.dt - seq[k].span
      /\ ~run.held /\ run.c.index = k /\ run.c.elapsed = 0 /\ seq[k].span > run.dt
           => next.held /\ next.c.index = k /\ next.c.elapsed = run.dt
  BY SegmentRuns
<1> HIDE DEF next
<1>3. CASE run.held
  <2>1. next = run
    BY <1>2, <1>3
  <2>2. \E j \in 1 .. k - 1 : P[j - 1] <= t /\ t < P[j] /\ run.c.index = j /\ run.c.elapsed = t - P[j - 1]
    BY <1>3 DEF Through
  <2>3. 1 .. k - 1 \subseteq 1 .. k
    OBVIOUS
  <2>4. \E j \in 1 .. k : P[j - 1] <= t /\ t < P[j] /\ run.c.index = j /\ run.c.elapsed = t - P[j - 1]
    BY <2>2, <2>3
  <2>5. Through(run, k, P, t)
    BY <2>4, <1>3 DEF Through
  <2> QED
    BY <2>1, <2>5 DEF next
<1>4. CASE ~run.held
  <2>1. run.c.index = (k - 1) + 1 /\ run.c.elapsed = 0 /\ P[k - 1] <= t /\ run.dt = t - P[k - 1]
    BY <1>4 DEF Through
  <2>2. run.c.index = k /\ P[k - 1] \in Nat /\ run.dt \in Nat /\ P[k] \in Nat
    BY <2>1, <1>1
  <2>3. CASE seq[k].span <= run.dt
    <3>1. ~next.held /\ next.c.index = k + 1 /\ next.c.elapsed = 0 /\ next.dt = run.dt - seq[k].span
      BY <1>2, <1>4, <2>1, <2>2, <2>3
    <3>2. P[k] <= t /\ run.dt - seq[k].span = t - P[k]
      BY <1>1, <2>1, <2>2, <2>3
    <3>3. Through(next, k, P, t)
      BY <3>1, <3>2 DEF Through
    <3> QED
      BY <3>3 DEF next
  <2>4. CASE ~ (seq[k].span <= run.dt)
    <3>1. seq[k].span > run.dt
      BY <1>1, <2>2, <2>4
    <3>2. next.held /\ next.c.index = k /\ next.c.elapsed = run.dt
      BY <1>2, <1>4, <2>1, <2>2, <3>1
    <3>3. t < P[k] /\ k \in 1 .. k
      <4>1. k \in 1 .. k
        OBVIOUS
      <4> DEFINE before == P[k - 1]  after == P[k]  span == seq[k].span  dt == run.dt
      <4>2. /\ before \in Nat /\ after = before + span /\ span \in Nat /\ dt = t - before /\ span > dt
        BY <1>1, <2>1, <2>2, <3>1
      <4> HIDE DEF before, after, span, dt
      <4>3. t < after
        BY <4>2
      <4> QED
        BY <4>1, <4>3 DEF after
    <3>4. Through(next, k, P, t)
      BY <2>1, <3>2, <3>3 DEF Through
    <3> QED
      BY <3>4 DEF next
  <2> QED
    BY <2>3, <2>4
<1> QED
  BY <1>3, <1>4

\* Where a time falls in a profile.
Falls(c, seq, n, P, t) ==
  /\ c.segments = seq
  /\ \/ c.index = n + 1 /\ P[n] <= t
     \/ \E j \in 1 .. n : P[j - 1] <= t /\ t < P[j] /\ c.index = j /\ c.elapsed = t - P[j - 1]

LEMMA AdvancesFall ==
  ASSUME NEW seq, NEW n \in Nat, DOMAIN seq = 1 .. n, \A i \in 1 .. n : seq[i] \in Segments,
         NEW P, Sums(P, seq, n), NEW t \in Nat
  PROVE  Falls(advance(Controller(seq), t, 0), seq, n, P, t)
<1> DEFINE S == SUBSET (1 .. n)
           V == Runs(seq, n)
           base == [c |-> Controller(seq), dt |-> t, distance |-> 0, held |-> FALSE]
           top == [s \in S |-> Max(s)]
           places == [i \in 1 .. n |-> i]
           step == [a \in (1 .. n) \X V |-> Segment(a[2], places[a[1]])]
           Is(h) == h = [s \in S |-> IF s = {} THEN base ELSE Segment(h[s \ {Max(s)}], places[Max(s)])]
           iter == CHOOSE h : Is(h)
<1>1. Tops(S, top)
  <2> SUFFICES ASSUME NEW s \in S, s # {}
               PROVE  Max(s) \in s /\ \A y \in s : y <= Max(s)
    BY DEF Tops
  <2>1. \E x \in s : \A y \in s : y <= x
    <3>1. s \subseteq 0 .. n
      OBVIOUS
    <3> QED
      BY <3>1, GreatestNatural
  <2>2. \E x \in s : \A y \in s : x >= y
    BY <2>1
  <2>3. Max(s) \in s /\ \A y \in s : Max(s) >= y
    BY <2>2 DEF Max
  <2> QED
    BY <2>3
<1>2. \A i \in 1 .. n : places[i] = i
  OBVIOUS
<1>3. \A i \in 1 .. n, run \in V : Segment(run, i) \in V
  BY SegmentRuns
<1>4. step \in [(1 .. n) \X V -> V]
  <2> HIDE DEF V, places
  <2> QED
    BY <1>2, <1>3
<1>5. base \in V /\ base.c.index = 1 /\ base.c.elapsed = 0 /\ base.dt = t /\ base.held = FALSE
  BY DEF Runs, Controller
<1>6. PICK g : Folds(g, S, V, base, step, top)
  <2>1. base \in V /\ step \in [(1 .. n) \X V -> V]
    BY <1>4, <1>5
  <2>2. S = SUBSET (1 .. n)
    OBVIOUS
  <2> HIDE DEF top, step, Is, V, base, S
  <2> QED
    BY <1>1, <2>1, <2>2, FoldRecursion
<1>7. ASSUME NEW s \in S, s # {}
      PROVE  top[s] = Max(s) /\ top[s] \in 1 .. n /\ s \ {top[s]} \in S
  BY <1>1, <1>7 DEF Tops
<1>8. ASSUME NEW i \in 1 .. n, NEW v \in V
      PROVE  step[<<i, v>>] = Segment(v, places[i])
  <2> HIDE DEF V, places
  <2> QED
    BY <1>8
<1> HIDE DEF top, step, V, base, places
<1>9. Is(g)
  <2>1. \A s \in S : g[s] = IF s = {} THEN base ELSE Segment(g[s \ {Max(s)}], places[Max(s)])
    BY <1>6, <1>7, <1>8 DEF Folds
  <2>2. g = [s \in S |-> g[s]]
    BY <1>6 DEF Folds
  <2> QED
    BY <2>1, <2>2
<1>10. Is(iter)
  <2> HIDE DEF Is
  <2> QED
    BY <1>9
<1> HIDE DEF iter
<1>11. iter[{}] = base /\ \A s \in S : s # {} => iter[s] = Segment(iter[s \ {top[s]}], places[top[s]])
  BY <1>10, <1>7
<1> DEFINE run == [k \in 0 .. n |-> iter[1 .. k]]
<1>12. Recursive(run, n, V, base, step)
  <2>1. FoldsIn(V, iter, S, base, step, top)
    BY <1>11, <1>7, <1>8 DEF FoldsIn
  <2>2. base \in V /\ step \in [(1 .. n) \X V -> V]
    BY <1>4, <1>5
  <2>3. S = SUBSET (1 .. n)
    OBVIOUS
  <2>4. run = [k \in 0 .. n |-> iter[1 .. k]]
    OBVIOUS
  <2> HIDE DEF Is, V, base, S, run
  <2> QED
    BY <1>1, <2>1, <2>2, <2>3, <2>4, FoldSteps
<1>13. run[n] = iter[1 .. n]
  OBVIOUS
<1> HIDE DEF run
<1>14. run[0] = base /\ run[n] \in V /\ \A k \in 1 .. n : run[k - 1] \in V /\ run[k] = Segment(run[k - 1], k)
  <2>1. run \in [0 .. n -> V] /\ run[0] = base /\ \A k \in 1 .. n : run[k] = step[<<k, run[k - 1]>>]
    BY <1>12 DEF Recursive
  <2>2. \A k \in 1 .. n : k - 1 \in 0 .. n
    OBVIOUS
  <2>3. run[n] \in V
    BY <2>1
  <2> QED
    BY <2>1, <2>2, <2>3, <1>8, <1>2
<1> DEFINE K == {k \in 0 .. n : Through(run[k], k, P, t)}
<1>15. 0 \in K
  <2>1. P[0] = 0
    BY DEF Sums
  <2>2. Through(base, 0, P, t)
    BY <1>5, <2>1 DEF Through
  <2> QED
    BY <2>2, <1>14
<1>16. ASSUME NEW k \in 1 .. n, k - 1 \in K
       PROVE  k \in K
  <2>1. run[k - 1] \in Runs(seq, n) /\ run[k] = Segment(run[k - 1], k)
    BY <1>14 DEF V
  <2>2. Through(run[k - 1], k - 1, P, t)
    BY <1>16
  <2>3. Through(Segment(run[k - 1], k), k, P, t)
    BY <2>1, <2>2, ThroughOneMore
  <2> QED
    BY <2>1, <2>3
<1> HIDE DEF K
<1>17. n \in K
  BY <1>15, <1>16, IntervalInduction
<1> DEFINE last == run[n]
<1>18. Through(last, n, P, t) /\ last \in Runs(seq, n)
  BY <1>17, <1>14 DEF K, V
<1>19. advance(Controller(seq), t, 0) = last.c
  <2>1. /\ Controller(seq).segments = seq
        /\ Clamped(t, 0, t) = t /\ Clamped(0, 0, 0) = 0
    BY DEF Controller, Clamped
  <2>2. advance(Controller(seq), t, 0) = FoldLeft(Segment, base, places).c
    BY <2>1 DEF advance, base, places
  <2>3. FoldLeft(Segment, base, places) = iter[1 .. n]
    <3>1. DOMAIN places = 1 .. n
      BY DEF places
    <3> QED
      BY <3>1 DEF FoldLeft, MapThenFoldSet, iter, Is
  <2> QED
    BY <2>2, <2>3, <1>13
<1> HIDE DEF last
<1>20. last.c.segments = seq
  BY <1>18 DEF Runs
<1>21. Falls(last.c, seq, n, P, t)
  BY <1>18, <1>20 DEF Through, Falls
<1> QED
  BY <1>19, <1>21

\* The speed at a time.
Shown(v, seq, n, P, t) ==
  \/ P[n] <= t /\ v = Q(seq[n].to, 1)
  \/ \E j \in 1 .. n : P[j - 1] <= t /\ t < P[j] /\ v = ValueAt(seq[j], t - P[j - 1])

LEMMA SpeedsAreShown ==
  ASSUME NEW seq, NEW n \in Nat, n > 0, seq \in Seq(Segments), Len(seq) = n,
         NEW P, Sums(P, seq, n), NEW t \in Nat
  PROVE  Shown(speed(advance(Controller(seq), t, 0)), seq, n, P, t)
<1> DEFINE c == advance(Controller(seq), t, 0)
<1>0. DOMAIN seq = 1 .. n /\ seq # <<>> /\ \A i \in 1 .. n : seq[i] \in Segments
  OBVIOUS
<1>1. Falls(c, seq, n, P, t)
  BY <1>0, AdvancesFall
<1> HIDE DEF c
<1>2. c.segments = seq
  BY <1>1 DEF Falls
<1>3. CASE c.index = n + 1 /\ P[n] <= t
  <2>1. done(c)
    BY <1>2, <1>3 DEF done
  <2>2. speed(c) = Q(seq[n].to, 1)
    BY <1>0, <1>2, <2>1 DEF speed
  <2>3. Shown(speed(c), seq, n, P, t)
    BY <2>2, <1>3 DEF Shown
  <2> QED
    BY <2>3 DEF c
<1>4. CASE \E j \in 1 .. n : P[j - 1] <= t /\ t < P[j] /\ c.index = j /\ c.elapsed = t - P[j - 1]
  <2>1. PICK j \in 1 .. n : P[j - 1] <= t /\ t < P[j] /\ c.index = j /\ c.elapsed = t - P[j - 1]
    BY <1>4
  <2> DEFINE s == seq[j]
  <2>2. s.by_distance = FALSE /\ s.span \in Nat
    BY <1>0 DEF Segments
  <2>3. ~ (s.span <= 0)
    <3>1. P[j] = P[j - 1] + s.span
      BY DEF Sums
    <3>2. j - 1 \in 0 .. n
      OBVIOUS
    <3>3. P[j - 1] \in Nat
      BY <3>2 DEF Sums
    <3> HIDE DEF s
    <3> QED
      BY <2>1, <2>2, <3>1, <3>3
  <2>4. ~done(c)
    BY <1>2, <2>1 DEF done
  <2>5. speed(c) = transition_value(s.shape, s.from, s.to, Q(c.elapsed, s.span))
    BY <1>0, <1>2, <2>1, <2>2, <2>3, <2>4 DEF speed
  <2>6. speed(c) = ValueAt(seq[j], t - P[j - 1])
    BY <2>1, <2>5 DEF ValueAt
  <2>7. Shown(speed(c), seq, n, P, t)
    BY <2>1, <2>6 DEF Shown
  <2> QED
    BY <2>7 DEF c
<1> QED
  BY <1>1, <1>3, <1>4 DEF Falls

\* A segment starts where it starts.
LEMMA StartsAre ==
  ASSUME NEW s \in Segments, s.span > 0
  PROVE  ValueAt(s, 0) = Q(s.from, 1)
<1> DEFINE a == s.from  delta == s.to - s.from
<1>1. a \in Int /\ delta \in Int /\ s.shape = "cubic"
  BY DEF Segments
<1>2. ValueAt(s, 0) = Q(a * (1 * 1 * 1) + delta * (0 * 0 * (3 * 1 - 2 * 0)), 1 * 1 * 1)
  BY <1>1 DEF ValueAt, transition_value, shape_fraction, clamp01, Q
<1> HIDE DEF a, delta
<1>3. a * (1 * 1 * 1) + delta * (0 * 0 * (3 * 1 - 2 * 0)) = a /\ 1 * 1 * 1 = 1
  BY <1>1
<1> QED
  BY <1>2, <1>3 DEF a

\* Segments that take no time make no difference the limits forbid.
LEMMA LevelAcross ==
  ASSUME NEW profile, NEW n \in Nat, NEW limits, Limited(limits), Driven(profile, n, limits),
         NEW P, Sums(P, profile.segments, n), NEW j \in 1 .. n, NEW m \in 1 .. n, j <= m, P[m] = P[j]
  PROVE  /\ limits.acceleration # None => profile.segments[m].to <= profile.segments[j].to
         /\ limits.deceleration # None => profile.segments[m].to >= profile.segments[j].to
<1> DEFINE seq == profile.segments  acc == limits.acceleration  dec == limits.deceleration
           K == {k \in 0 .. n : j <= k /\ k <= m => /\ acc # None => seq[k].to <= seq[j].to
                                                    /\ dec # None => seq[k].to >= seq[j].to}
<1>1. /\ seq \in Seq(Segments) /\ Len(seq) = n
      /\ \A k \in 1 .. n : Eased(seq[k], limits)
      /\ \A k \in 2 .. n : seq[k].from = seq[k - 1].to
  BY DEF Driven
<1>2. \A k \in 1 .. n : seq[k].from \in Int /\ seq[k].to \in Int /\ seq[k].span \in Nat
  <2> SUFFICES ASSUME NEW k \in 1 .. n
               PROVE  seq[k].from \in Int /\ seq[k].to \in Int /\ seq[k].span \in Nat
    OBVIOUS
  <2>1. seq[k] \in Segments
    BY <1>1
  <2> QED
    BY <2>1 DEF Segments
<1>3. (acc # None => acc \in Nat \ {0}) /\ (dec # None => dec \in Nat \ {0})
  BY DEF Limited, Limits
<1>4. P \in [0 .. n -> Nat] /\ \A k \in 1 .. n : P[k] = P[k - 1] + seq[k].span
  BY DEF Sums
<1>5. \A i, k \in 0 .. n : i <= k => P[i] <= P[k]
  BY <1>2, SumsAscend
<1> HIDE DEF seq, acc, dec
<1>6. 0 \in K
  OBVIOUS
<1>7. ASSUME NEW k \in 1 .. n, k - 1 \in K
      PROVE  k \in K
  <2> SUFFICES ASSUME j <= k, k <= m
               PROVE  /\ acc # None => seq[k].to <= seq[j].to
                      /\ dec # None => seq[k].to >= seq[j].to
    OBVIOUS
  <2>1. CASE j = k
    BY <2>1, <1>2
  <2>2. CASE j < k
    <3>1. k - 1 \in 1 .. n /\ k - 1 \in 0 .. n /\ k \in 2 .. n /\ j <= k - 1 /\ k - 1 <= m
          /\ j \in 0 .. n /\ m \in 0 .. n /\ k \in 0 .. n
      BY <2>2
    <3>2. /\ acc # None => seq[k - 1].to <= seq[j].to
          /\ dec # None => seq[k - 1].to >= seq[j].to
      BY <1>7, <3>1
    <3>3. seq[k].span = 0
      <4>1. P[j] <= P[k - 1] /\ P[k - 1] <= P[k] /\ P[k] <= P[m]
        BY <1>5, <3>1
      <4>2. P[k] = P[k - 1] + seq[k].span
        BY <1>4
      <4>3. P[j] \in Nat /\ P[k - 1] \in Nat /\ P[k] \in Nat /\ P[m] \in Nat
        BY <1>4, <3>1
      <4> QED
        BY <4>1, <4>2, <4>3, <1>2
    <3>4. seq[k].from = seq[k - 1].to /\ Eased(seq[k], limits)
      BY <1>1, <3>1
    <3>5. /\ seq[k].from \in Int /\ seq[k].to \in Int
          /\ seq[k - 1].to \in Int /\ seq[j].to \in Int
      BY <1>2, <3>1
    <3>6. acc # None => seq[k].to <= seq[k].from
      <4>1. acc # None /\ seq[k].to >= seq[k].from => 3 * (seq[k].to - seq[k].from) <= 0 * (2 * acc)
        BY <3>3, <3>4 DEF Eased, acc
      <4>2. acc # None => 0 * (2 * acc) = 0
        BY <1>3
      <4> QED
        BY <3>5, <4>1, <4>2
    <3>7. dec # None => seq[k].to >= seq[k].from
      <4>1. dec # None /\ seq[k].to < seq[k].from => 3 * (seq[k].from - seq[k].to) <= 0 * (2 * dec)
        BY <3>3, <3>4 DEF Eased, dec
      <4>2. dec # None => 0 * (2 * dec) = 0
        BY <1>3
      <4> QED
        BY <3>5, <4>1, <4>2
    <3> QED
      BY <3>2, <3>4, <3>5, <3>6, <3>7
  <2> QED
    BY <2>1, <2>2
<1> HIDE DEF K
<1>8. m \in K
  BY <1>6, <1>7, IntervalInduction
<1> QED
  BY <1>8 DEF K, seq, acc, dec

\* What a second of a profile may do.
Within(v, w, limits) == Rises(v, w, limits.acceleration) /\ Rises(w, v, limits.deceleration)

LEMMA LevelIsWithin ==
  ASSUME NEW limits, Limited(limits), NEW x \in Int
  PROVE  Within(Q(x, 1), Q(x, 1), limits)
<1>1. \A l \in Limits : limits[l] = None \/ limits[l] \in Nat
  BY DEF Limited
<1>2. /\ limits.acceleration = None \/ limits.acceleration \in Nat
      /\ limits.deceleration = None \/ limits.deceleration \in Nat
  BY <1>1 DEF Limits
<1>3. \A l \in Nat : x * 1 - x * 1 <= l * 1 * 1
  OBVIOUS
<1> QED
  BY <1>2, <1>3 DEF Within, Rises, Q

LEMMA SecondsAreWithin ==
  ASSUME NEW s \in Segments, s.span > 0, NEW e \in 0 .. s.span - 1, NEW limits, Limited(limits), Eased(s, limits)
  PROVE  Within(ValueAt(s, e), ValueAt(s, e + 1), limits)
<1> DEFINE v == ValueAt(s, e)  w == ValueAt(s, e + 1)  D == Cubed(s.span)
           M == Reached(s, e)  N == Reached(s, e + 1)  acc == limits.acceleration  dec == limits.deceleration
<1>1. Smooth(s) /\ s.span \in Nat
  BY SegmentsAre DEF Segments
<1>2. e \in 0 .. s.span /\ e + 1 \in 0 .. s.span
  BY <1>1
<1>3. Of(v, M, D) /\ Of(w, N, D) /\ M \in Int /\ N \in Int /\ D \in Nat \ {0}
  BY <1>1, <1>2, ValuesAre
<1>4. /\ acc # None => N - M <= acc * D
      /\ dec # None => M - N <= dec * D
  BY <1>1, SecondsRise
<1>5. /\ acc # None => acc \in Int
      /\ dec # None => dec \in Int
  BY DEF Limited, Limits
<1> HIDE DEF v, w, D, M, N, acc, dec
<1>6. /\ v.n \in Int /\ v.d \in Nat \ {0} /\ v.n * D = v.d * M
      /\ w.n \in Int /\ w.d \in Nat \ {0} /\ w.n * D = w.d * N
  BY <1>3 DEF Of, Fraction
<1>7. Rises(v, w, acc)
  <2>1. acc = None => Rises(v, w, acc)
    BY DEF Rises
  <2>2. acc # None => Rises(v, w, acc)
    BY <1>3, <1>4, <1>5, <1>6, FractionsRise
  <2> QED
    BY <2>1, <2>2
<1>8. Rises(w, v, dec)
  <2>1. dec = None => Rises(w, v, dec)
    BY DEF Rises
  <2>2. dec # None => Rises(w, v, dec)
    BY <1>3, <1>4, <1>5, <1>6, FractionsRise
  <2> QED
    BY <2>1, <2>2
<1> QED
  BY <1>7, <1>8 DEF Within, v, w, acc, dec

\* The last second of a segment, to where the segments that take no time leave it.
LEMMA LastSecondsAreWithin ==
  ASSUME NEW s \in Segments, s.span > 0, NEW limits, Limited(limits), Eased(s, limits),
         NEW x \in Int, limits.acceleration # None => x <= s.to, limits.deceleration # None => x >= s.to
  PROVE  Within(ValueAt(s, s.span - 1), Q(x, 1), limits)
<1> DEFINE e == s.span - 1  v == ValueAt(s, e)  w == Q(x, 1)  D == Cubed(s.span)
           M == Reached(s, e)  N == x * D  acc == limits.acceleration  dec == limits.deceleration  to == s.to
<1>1. Smooth(s) /\ s.span \in Nat /\ s.to \in Int
  BY SegmentsAre DEF Segments
<1>2. e \in 0 .. s.span /\ e \in 0 .. s.span - 1 /\ e + 1 = s.span
  BY <1>1
<1>3. Of(v, M, D) /\ M \in Int /\ D \in Nat \ {0}
  BY <1>1, <1>2, ValuesAre
<1>4. /\ acc # None => to * D - M <= acc * D
      /\ dec # None => M - to * D <= dec * D
  <2>1. /\ acc # None => Reached(s, e + 1) - Reached(s, e) <= acc * D
        /\ dec # None => Reached(s, e) - Reached(s, e + 1) <= dec * D
        /\ Reached(s, s.span) = to * D
    BY <1>1, <1>2, SecondsRise
  <2> QED
    BY <1>2, <2>1
<1>5. /\ acc # None => acc \in Int
      /\ dec # None => dec \in Int
  BY DEF Limited, Limits
<1>6. w.n = x /\ w.d = 1 /\ to \in Int
  BY <1>1 DEF Q
<1>7. /\ acc # None => x <= to
      /\ dec # None => x >= to
  OBVIOUS
<1> HIDE DEF e, v, w, D, M, acc, dec, to
<1>8. /\ v.n \in Int /\ v.d \in Nat \ {0} /\ v.n * D = v.d * M
      /\ w.n \in Int /\ w.d \in Nat \ {0} /\ w.n * D = w.d * N /\ N \in Int
  BY <1>3, <1>6 DEF Of, Fraction
<1>9. /\ acc # None => N - M <= acc * D
      /\ dec # None => M - N <= dec * D
  <2>1. acc # None => x * D <= to * D
    BY <1>3, <1>6, <1>7
  <2>2. dec # None => x * D >= to * D
    BY <1>3, <1>6, <1>7
  <2> DEFINE y == x * D  z == to * D  p == acc * D  q == dec * D
  <2>3. y \in Int /\ z \in Int /\ (acc # None => p \in Int) /\ (dec # None => q \in Int)
    BY <1>3, <1>5, <1>6
  <2> HIDE DEF y, z, p, q
  <2>4. /\ acc # None => y - M <= p
        /\ dec # None => M - y <= q
    BY <1>3, <1>4, <2>1, <2>2, <2>3 DEF y, z, p, q
  <2> QED
    BY <2>4 DEF y, p, q
<1> HIDE DEF N
<1>10. Rises(v, w, acc)
  <2>1. acc = None => Rises(v, w, acc)
    BY DEF Rises
  <2>2. acc # None => Rises(v, w, acc)
    BY <1>3, <1>9, <1>5, <1>8, FractionsRise
  <2> QED
    BY <2>1, <2>2
<1>11. Rises(w, v, dec)
  <2>1. dec = None => Rises(w, v, dec)
    BY DEF Rises
  <2>2. dec # None => Rises(w, v, dec)
    BY <1>3, <1>9, <1>5, <1>8, FractionsRise
  <2> QED
    BY <2>1, <2>2
<1> QED
  BY <1>10, <1>11 DEF Within, v, w, acc, dec, e

LEMMA ProfilesAreWithin ==
  ASSUME NEW profile, NEW n \in Nat \ {0}, NEW limits, Limited(limits), Driven(profile, n, limits),
         NEW P, Sums(P, profile.segments, n), NEW t \in Nat, NEW u, u = t + 1,
         NEW v, Shown(v, profile.segments, n, P, t), NEW w, Shown(w, profile.segments, n, P, u)
  PROVE  Within(v, w, limits)
<1> DEFINE seq == profile.segments
<1>1. /\ seq \in Seq(Segments) /\ Len(seq) = n
      /\ \A k \in 1 .. n : Eased(seq[k], limits)
      /\ \A k \in 2 .. n : seq[k].from = seq[k - 1].to
  BY DEF Driven
<1>2. \A k \in 1 .. n : seq[k] \in Segments
  BY <1>1
<1>3. \A k \in 1 .. n : seq[k].from \in Int /\ seq[k].to \in Int /\ seq[k].span \in Nat
  BY <1>2 DEF Segments
<1>4. P \in [0 .. n -> Nat] /\ \A k \in 1 .. n : P[k] = P[k - 1] + seq[k].span
  BY DEF Sums
<1>5. \A i, k \in 0 .. n : i <= k => P[i] <= P[k]
  BY <1>3, SumsAscend
<1>6. \A k \in 1 .. n : k - 1 \in 0 .. n /\ k \in 0 .. n
  OBVIOUS
<1>7. \A k \in 0 .. n : P[k] \in Nat
  BY <1>4
<1>8. n \in 0 .. n /\ n \in 1 .. n /\ \A k \in 1 .. n : P[k] <= P[n]
  BY <1>5
<1>9. Shown(v, seq, n, P, t) /\ Shown(w, seq, n, P, u)
  OBVIOUS
<1>10. \A j, m \in 1 .. n : j <= m /\ P[m] = P[j] =>
        /\ limits.acceleration # None => seq[m].to <= seq[j].to
        /\ limits.deceleration # None => seq[m].to >= seq[j].to
  BY LevelAcross
<1> HIDE DEF seq
<1>11. CASE P[n] <= t /\ v = Q(seq[n].to, 1)
  <2>1. w = Q(seq[n].to, 1)
    <3>1. \A j \in 1 .. n : ~ (u < P[j])
      BY <1>11, <1>7, <1>6, <1>8
    <3> QED
      BY <1>9, <3>1 DEF Shown
  <2> QED
    BY <1>3, <1>11, <1>8, <2>1, LevelIsWithin
<1>12. CASE \E j \in 1 .. n : P[j - 1] <= t /\ t < P[j] /\ v = ValueAt(seq[j], t - P[j - 1])
  <2>1. PICK j \in 1 .. n : P[j - 1] <= t /\ t < P[j] /\ v = ValueAt(seq[j], t - P[j - 1])
    BY <1>12
  <2> DEFINE s == seq[j]  e == t - P[j - 1]
  <2>2. P[j] = P[j - 1] + s.span /\ P[j] \in Nat /\ P[j - 1] \in Nat /\ s.span \in Nat /\ s \in Segments
        /\ Eased(s, limits) /\ s.to \in Int
    BY <1>1, <1>2, <1>3, <1>4, <1>7, <1>6
  <2> HIDE DEF s
  <2>3. e \in 0 .. s.span - 1 /\ s.span > 0
    BY <2>1, <2>2
  <2>4. v = ValueAt(s, e)
    BY <2>1 DEF s
  <2>5. CASE u < P[j]
    <3>1. w = ValueAt(s, e + 1)
      <4>1. ~ (P[n] <= u)
        BY <2>2, <2>5, <1>7, <1>8
      <4>2. PICK i \in 1 .. n : P[i - 1] <= u /\ u < P[i] /\ w = ValueAt(seq[i], u - P[i - 1])
        BY <1>9, <4>1 DEF Shown
      <4>3. i = j
        <5>1. i < j => P[i] <= P[j - 1]
          BY <1>5, <1>6
        <5>2. j < i => P[j] <= P[i - 1]
          BY <1>5, <1>6
        <5>3. P[i] \in Nat /\ P[i - 1] \in Nat
          BY <1>7, <1>6
        <5> QED
          BY <2>1, <2>2, <2>5, <4>2, <5>1, <5>2, <5>3
      <4>4. u - P[j - 1] = e + 1
        BY <2>2
      <4> QED
        BY <4>2, <4>3, <4>4 DEF s
    <3> HIDE DEF e
    <3> QED
      BY <2>2, <2>3, <2>4, <3>1, SecondsAreWithin
  <2>6. CASE ~ (u < P[j])
    <3>1. u = P[j] /\ e = s.span - 1
      BY <2>1, <2>2, <2>6
    <3>2. \E x \in Int : /\ w = Q(x, 1)
                         /\ limits.acceleration # None => x <= s.to
                         /\ limits.deceleration # None => x >= s.to
      <4>1. CASE P[n] <= u /\ w = Q(seq[n].to, 1)
        <5>1. P[n] = P[j] /\ j <= n
          BY <3>1, <4>1, <2>2, <1>7, <1>8
        <5>2. /\ limits.acceleration # None => seq[n].to <= s.to
              /\ limits.deceleration # None => seq[n].to >= s.to
          BY <5>1, <1>8, <1>10 DEF s
        <5> QED
          BY <4>1, <5>2, <1>3, <1>8
      <4>2. CASE \E i \in 1 .. n : P[i - 1] <= u /\ u < P[i] /\ w = ValueAt(seq[i], u - P[i - 1])
        <5>1. PICK i \in 1 .. n : P[i - 1] <= u /\ u < P[i] /\ w = ValueAt(seq[i], u - P[i - 1])
          BY <4>2
        <5>2. P[i] \in Nat /\ P[i - 1] \in Nat
          BY <1>7, <1>6
        <5>3. j < i
          <6>1. i <= j => P[i] <= P[j]
            BY <1>5, <1>6
          <6> QED
            BY <3>1, <2>2, <5>1, <5>2, <6>1
        <5>4. i - 1 \in 1 .. n /\ j <= i - 1 /\ i \in 2 .. n
          BY <5>3
        <5>5. P[j] <= P[i - 1]
          BY <1>5, <1>6, <5>4
        <5>6. P[i - 1] = P[j] /\ u - P[i - 1] = 0
          BY <3>1, <2>2, <5>1, <5>2, <5>5
        <5>7. seq[i].span > 0 /\ seq[i] \in Segments
          <6>1. P[i] = P[i - 1] + seq[i].span /\ seq[i].span \in Nat
            BY <1>3, <1>4
          <6> QED
            BY <3>1, <5>1, <5>2, <5>6, <6>1, <1>2
        <5>8. w = Q(seq[i].from, 1)
          BY <5>1, <5>6, <5>7, StartsAre
        <5>9. seq[i].from = seq[i - 1].to
          BY <1>1, <5>4
        <5>10. /\ limits.acceleration # None => seq[i - 1].to <= s.to
               /\ limits.deceleration # None => seq[i - 1].to >= s.to
          BY <1>10, <5>4, <5>6 DEF s
        <5>11. seq[i - 1].to \in Int
          BY <1>3, <5>4
        <5> QED
          BY <5>8, <5>9, <5>10, <5>11
      <4> QED
        BY <1>9, <4>1, <4>2 DEF Shown
    <3>3. PICK x \in Int : /\ w = Q(x, 1)
                           /\ limits.acceleration # None => x <= s.to
                           /\ limits.deceleration # None => x >= s.to
      BY <3>2
    <3>4. v = ValueAt(s, s.span - 1)
      BY <2>4, <3>1
    <3>5. Within(ValueAt(s, s.span - 1), Q(x, 1), limits)
      BY <2>2, <2>3, <3>3, LastSecondsAreWithin
    <3> QED
      BY <3>3, <3>4, <3>5
  <2> QED
    BY <2>5, <2>6
<1> QED
  BY <1>9, <1>11, <1>12 DEF Shown

LEMMA ProfilesKeep ==
  ASSUME NEW profile, NEW n \in Nat \ {0}, NEW limits, Limited(limits), Driven(profile, n, limits),
         NEW v, v = Speeds(Controller(profile.segments)), NEW end, end = profile.segments[n].to
  PROVE  /\ \A t \in DOMAIN v \ {0} : Within(v[t - 1], v[t], limits)
         /\ limits.speed = None \/ end <= limits.speed
         /\ v[Greatest(DOMAIN v)] = Q(end, 1)
<1> DEFINE seq == profile.segments
<1>0. seq \in Seq(Segments) /\ Len(seq) = n /\ Eased(seq[n], limits)
  BY DEF Driven
<1>1. DOMAIN seq = 1 .. n /\ \A i \in 1 .. n : seq[i] \in Segments
  BY <1>0
<1>2. \A i \in 1 .. n : seq[i].span \in Nat
  BY <1>1 DEF Segments
<1>3. PICK P : Sums(P, seq, n) /\ FoldLeft(LAMBDA sum, s : sum + s.span, 0, seq) = P[n]
  <2> HIDE DEF seq
  <2> QED
    BY <1>1, <1>2, SpansFold
<1>4. Controller(seq).segments = seq
  BY DEF Controller
<1> DEFINE total == P[n]
<1>5. v = [t \in 0 .. total + 1 |-> speed(advance(Controller(seq), t, 0))]
  <2> HIDE DEF seq
  <2> QED
    BY <1>3, <1>4 DEF Speeds, seq
<1>6. total \in Nat
  <2>1. n \in 0 .. n
    OBVIOUS
  <2>2. P \in [0 .. n -> Nat]
    BY <1>3 DEF Sums
  <2> QED
    BY <2>1, <2>2
<1> HIDE DEF total
<1>7. DOMAIN v = 0 .. total + 1 /\ \A t \in 0 .. total + 1 : v[t] = speed(advance(Controller(seq), t, 0))
  BY <1>5
<1>8. \A t \in 0 .. total + 1 : Shown(v[t], seq, n, P, t)
  <2> HIDE DEF seq
  <2>1. ASSUME NEW t \in Nat
        PROVE  Shown(speed(advance(Controller(seq), t, 0)), seq, n, P, t)
    <3>1. n > 0 /\ n \in Nat
      OBVIOUS
    <3> QED
      BY <1>0, <1>3, <3>1, SpeedsAreShown
  <2> QED
    BY <1>6, <1>7, <2>1
<1>9. ASSUME NEW t \in DOMAIN v \ {0}
      PROVE  Within(v[t - 1], v[t], limits)
  <2>1. t - 1 \in Nat /\ t - 1 \in 0 .. total + 1 /\ t \in 0 .. total + 1 /\ t = (t - 1) + 1
    BY <1>6, <1>7
  <2> DEFINE r == t - 1  x == v[r]  y == v[t]
  <2>2. Shown(x, seq, n, P, r) /\ Shown(y, seq, n, P, t)
    BY <1>8, <2>1
  <2>3. r \in Nat /\ t = r + 1
    BY <2>1
  <2> HIDE DEF r, x, y
  <2>4. Within(x, y, limits)
    BY <1>3, <2>2, <2>3, ProfilesAreWithin
  <2> QED
    BY <2>4 DEF x, y, r
<1>10. v[Greatest(DOMAIN v)] = Q(end, 1)
  <2>1. Greatest(0 .. total + 1) = total + 1
    <3>1. \E x \in 0 .. total + 1 : \A y \in 0 .. total + 1 : x >= y
      <4>1. total + 1 \in 0 .. total + 1 /\ \A y \in 0 .. total + 1 : total + 1 >= y
        BY <1>6
      <4> QED
        BY <4>1
    <3>2. Greatest(0 .. total + 1) \in 0 .. total + 1 /\ \A y \in 0 .. total + 1 : Greatest(0 .. total + 1) >= y
      BY <3>1 DEF Greatest
    <3> QED
      BY <3>2, <1>6
  <2> DEFINE u == total + 1
  <2>2. u \in 0 .. total + 1 /\ u > total /\ u \in Nat
    BY <1>6
  <2>3. Shown(v[u], seq, n, P, u)
    BY <1>8, <2>2
  <2>4. \A j \in 1 .. n : P[j] <= total
    <3>1. \A j \in 1 .. n : j \in 0 .. n /\ n \in 0 .. n /\ j <= n
      OBVIOUS
    <3> QED
      BY <1>2, <1>3, <3>1, SumsAscend DEF total
  <2>5. \A j \in 1 .. n : P[j] \in Nat
    <3>1. \A j \in 1 .. n : j \in 0 .. n
      OBVIOUS
    <3>2. P \in [0 .. n -> Nat]
      BY <1>3 DEF Sums
    <3> QED
      BY <3>1, <3>2
  <2> HIDE DEF u
  <2>6. \A j \in 1 .. n : ~ (u < P[j])
    BY <1>6, <2>2, <2>4, <2>5
  <2>7. v[u] = Q(seq[n].to, 1)
    BY <2>3, <2>6 DEF Shown
  <2> QED
    BY <1>7, <2>1, <2>7 DEF u
<1> QED
  BY <1>0, <1>9, <1>10 DEF Eased

\* An entity that follows a speed profile, of however many entries, gains and loses
\* no more speed in any second than its limits allow, and ends at the speed of the
\* last entry as far as the limit allows (engine.cpp:4570-4662).
THEOREM DynamicsStayWithin == Spec => []WithinDynamics
<1>1. Put => WithinDynamics
  <2> SUFFICES ASSUME Put, Answered("profile"), asked.action.follow
               PROVE  WithinDynamics
    BY DEF WithinDynamics
  <2> DEFINE action == asked.action  record == asked.record  speeds == asked.speeds
             limits == ProfileLimits(action, record)  seq == action.entries  n == Len(seq)
             reference == IF action.ref \in DOMAIN speeds THEN speeds[action.ref] ELSE 0
             base == [from |-> record.speed, segments |-> <<>>]
             profile == ProfileOf(action, record, reference, record.speed, seq)
  <2>1. Profiled(asked)
    BY ProfilesAssumption DEF Put, Answered
  <2>2. answer = Controller(profile.segments)
    <3>1. answer = build_profile_controller(action, record, speeds)
      <4>1. part = "profile" /\ answer = Answer(asked)
        BY DEF Put, Answered
      <4> QED
        BY <4>1 DEF Answer
    <3> QED
      BY <3>1 DEF build_profile_controller, ProfileOf
  <2>3. seq \in Seq(Range(seq)) /\ seq # <<>>
    BY <2>1 DEF Profiled, Listed
  <2>4. n \in Nat \ {0} /\ DOMAIN seq = 1 .. n
    <3> HIDE DEF seq
    <3> QED
      BY <2>3
  <2>5. \A i \in 1 .. n : Entered(seq[i])
    BY <2>1, <2>4 DEF Profiled, Entered
  <2>6. reference \in Int /\ record.speed \in Int
    BY <2>1 DEF Profiled
  <2>7. Limited(limits)
    <3>1. \A l \in Limits : {action.constraints[l], record.performance[l]} \subseteq Optional(Int)
      BY <2>1 DEF Profiled
    <3> QED
      BY <3>1, LimitsHold
  <2>8. Driven(profile, n, limits)
    <3> DEFINE start == record.speed
    <3>1. limits = ProfileLimits(action, record) /\ action.follow /\ start \in Int
          /\ profile = ProfileOf(action, record, reference, start, seq)
      BY <2>6
    <3> HIDE DEF action, record, reference, seq, n, limits, start, profile
    <3> QED
      BY <2>4, <2>5, <2>6, <2>7, <3>1, ProfilesFold
  <2> DEFINE v == Speeds(answer)  end == answer.segments[Len(answer.segments)].to
  <2>9. answer.segments = profile.segments /\ Len(profile.segments) = n
    BY <2>2, <2>8 DEF Controller, Driven
  <2> HIDE DEF profile, limits, n, v
  <2>10. v = Speeds(Controller(profile.segments)) /\ end = profile.segments[n].to
    BY <2>2, <2>9 DEF v
  <2> HIDE DEF end
  <2>11. /\ \A t \in DOMAIN v \ {0} : Within(v[t - 1], v[t], limits)
         /\ limits.speed = None \/ end <= limits.speed
         /\ v[Greatest(DOMAIN v)] = Q(end, 1)
    BY <2>4, <2>7, <2>8, <2>10, ProfilesKeep
  <2>12. \A t \in DOMAIN v \ {0} :
           Rises(v[t - 1], v[t], limits.acceleration) /\ Rises(v[t], v[t - 1], limits.deceleration)
    BY <2>11 DEF Within
  <2> QED
    BY <2>11, <2>12 DEF WithinDynamics, v, end, limits
<1> QED
  BY <1>1, AlwaysPut, PTL

---------------------------------------------------------------------------
(* Times to collision, between those that go on as they are.                     *)

\* What an entity or a point covers of an axis, where it is on it, and how fast it
\* goes along it.
Spot(e, u) == e.state.x * u.x + e.state.y * u.y
Stretch(e, u, spec) ==
  IF spec.freespace /\ e.entity THEN obb_project(make_obb(e.state, e.box), u)
  ELSE [lo |-> Spot(e, u), hi |-> Spot(e, u)]
Pace(e, u) ==
  Velocity(e, e.state.heading).x * u.x + Velocity(e, e.state.heading).y * u.y
\* Measured straight along an axis, and not along a road.
OffRoad(spec) == ~ euclidean(spec) /\ spec.cs # "trajectory" /\ ~ by_road(spec)
\* What a span becomes when it is moved.
Shifts(span, from, way) ==
  /\ from.lo \in Int /\ from.hi \in Int /\ span.lo = from.lo + way /\ span.hi = from.hi + way

\* A span covers where its reference point is.
Holds(span, at) == {span.lo, span.hi} \subseteq Int /\ span.lo <= at /\ at <= span.hi
\* Nothing is left of the room after all of the time, and something before.
UsedUp(room, after, all) == (after = all => room = 0) /\ (after # all => room > 0)

\* Naturals with the same square are the same.
LEMMA RootIsOne ==
  ASSUME NEW x \in Nat, NEW y \in Nat, Square(x) = Square(y)
  PROVE  x = y
<1>1. ASSUME NEW m \in Nat, NEW n \in Nat, m < n
      PROVE  m * m < n * n
  <2>1. m * m <= m * n /\ m * n < n * n
    BY <1>1
  <2>2. m * m \in Int /\ m * n \in Int /\ n * n \in Int
    OBVIOUS
  <2> HIDE DEF Square
  <2> QED
    BY <2>1, <2>2
<1>2. x * x = y * y /\ x * x \in Int
  BY DEF Square
<1>3. ~ (x < y) /\ ~ (y < x)
  BY <1>1, <1>2
<1> QED
  BY <1>3

\* The one ahead at a rate is reached after the room, by that rate.
LEMMA RoomCloses ==
  ASSUME NEW a, NEW b, NEW u, NEW v, NEW room \in Nat, NEW rate \in Int, rate > 0,
         {a.lo, a.hi, b.lo, b.hi, u.lo, u.hi, v.lo, v.hi} \subseteq Int,
         a.lo <= a.hi, b.lo <= b.hi, u.hi - u.lo = a.hi - a.lo, v.hi - v.lo = b.hi - b.lo,
         NEW w \in Nat, NEW s \in 0 .. w, room = w * rate, w = 0 => Between(a, b) = 0,
         w # 0 => b.lo - a.hi = room,
         v.lo - u.hi = b.lo - a.hi - s * rate, s = 0 => Between(u, v) = Between(a, b)
  PROVE  UsedUp(Between(u, v), s, w)
<1> USE DEF UsedUp
<1>1. CASE w = 0
  BY <1>1
<1>2. CASE w # 0
  <2> DEFINE gap == v.lo - u.hi  other == u.lo - v.hi
             larger == Larger(gap, other)  left == Larger(0, larger)
  <2>1. gap \in Int /\ other \in Int
    OBVIOUS
  <2>2. gap = (w - s) * rate
    <3>1. s \in Int /\ w \in Int
      OBVIOUS
    <3>2. (w - s) * rate = w * rate - s * rate
      BY <3>1
    <3> QED
      BY <1>2, <3>2
  <2>3. other <= -gap
    OBVIOUS
  <2>4. Between(u, v) = Square(left)
    BY DEF Between
  <2> HIDE DEF gap, other
  <2>5. /\ larger \in {gap, other} /\ gap <= larger /\ other <= larger /\ larger \in Int
        /\ left \in {0, larger} /\ larger <= left /\ 0 <= left /\ left \in Int
    <3>1. larger \in {gap, other} /\ gap <= larger /\ other <= larger /\ larger \in Int
      BY <2>1, LargerIs
    <3> HIDE DEF larger
    <3>2. left \in {0, larger} /\ larger <= left /\ 0 <= left /\ left \in Int
      BY <3>1 DEF Larger
    <3> QED
      BY <3>1, <3>2
  <2> HIDE DEF larger, left
  <2>6. CASE s = w
    <3>1. gap = 0
      BY <2>2, <2>6
    <3>2. left = 0
      BY <2>1, <2>3, <2>5, <3>1
    <3> QED
      BY <2>4, <2>6, <3>2, SquareIs
  <2>7. CASE s # w
    <3>1. gap > 0
      <4>1. w - s \in Int /\ w - s > 0
        BY <2>7
      <4>2. (w - s) * rate > 0
        BY <4>1
      <4> QED
        BY <2>2, <4>2
    <3>2. left # 0 /\ left \in Int
      BY <2>1, <2>5, <3>1
    <3>3. Square(left) \in Nat /\ Square(left) # 0
      BY <3>2, SquareIs
    <3> QED
      BY <2>4, <2>7, <3>3
  <2> QED
    BY <2>6, <2>7
<1> QED
  BY <1>1, <1>2

\* The room between two spans is the same from either.
LEMMA RoomsAreMutual ==
  ASSUME NEW a, NEW b, {a.lo, a.hi, b.lo, b.hi} \subseteq Int
  PROVE  Between(b, a) = Between(a, b)
<1> DEFINE x == b.lo - a.hi  y == a.lo - b.hi
<1>1. x \in Int /\ y \in Int
  OBVIOUS
<1> HIDE DEF x, y
<1>2. Larger(x, y) = Larger(y, x)
  BY <1>1 DEF Larger
<1> QED
  BY <1>2 DEF Between, x, y

\* The room between two spans is that of the one behind to the one ahead, by where
\* their reference points are.
LEMMA RoomIsAhead ==
  ASSUME NEW a, NEW b, {a.lo, a.hi, b.lo, b.hi} \subseteq Int,
         NEW p \in Int, NEW q \in Int, a.lo <= p, p <= a.hi, b.lo <= q, q <= b.hi, p < q,
         NEW room \in Nat, Between(a, b) = Square(room)
  PROVE  room # 0 => b.lo - a.hi = room
<1> DEFINE gap == b.lo - a.hi  other == a.lo - b.hi  larger == Larger(gap, other)
           left == Larger(0, larger)
<1>1. gap \in Int /\ other \in Int /\ other < 0
  OBVIOUS
<1>2. Between(a, b) = Square(left)
  BY DEF Between
<1> HIDE DEF gap, other
<1>5. /\ larger \in {gap, other} /\ gap <= larger /\ other <= larger /\ larger \in Int
      /\ left \in {0, larger} /\ larger <= left /\ 0 <= left /\ left \in Int
  <2>1. larger \in {gap, other} /\ gap <= larger /\ other <= larger /\ larger \in Int
    BY <1>1, LargerIs
  <2> HIDE DEF larger
  <2>2. left \in {0, larger} /\ larger <= left /\ 0 <= left /\ left \in Int
    BY <2>1 DEF Larger
  <2> QED
    BY <2>1, <2>2
<1> HIDE DEF larger
<1>6. left \in Nat /\ left = room
  <2>1. left \in Nat
    BY <1>5
  <2> HIDE DEF left
  <2> QED
    BY <1>2, <2>1, RootIsOne
<1> HIDE DEF left
<1>7. room # 0 => gap = room
  BY <1>1, <1>5, <1>6
<1> QED
  BY <1>7 DEF gap

\* Of two spans that keep their paces, the one behind takes as long to reach the
\* one ahead as it takes to go the room between them.
LEMMA OneAheadCloses ==
  ASSUME NEW a, NEW b, NEW p \in Int, NEW q \in Int, NEW k \in Int, NEW l \in Int,
         Holds(a, p), Holds(b, q), p < q, NEW rate, rate = k - l, rate > 0,
         NEW w \in Nat, NEW room, room = w * rate, Between(a, b) = Square(room),
         NEW s \in 0 .. w, NEW u, NEW v, Shifts(u, a, s * k), Shifts(v, b, s * l)
  PROVE  UsedUp(Between(u, v), s, w) /\ UsedUp(Between(v, u), s, w)
<1> DEFINE sk == s * k  sl == s * l  sr == s * rate
<1>1. rate \in Nat /\ s \in Int /\ room \in Nat /\ (w = 0 <=> room = 0)
  <2>1. rate \in Nat /\ s \in Int
    OBVIOUS
  <2> QED
    BY <2>1
<1>2. sk \in Int /\ sl \in Int /\ sr = sk - sl /\ sr \in Int /\ (s = 0 => sk = 0 /\ sl = 0)
  <2>1. s * (k - l) = s * k - s * l /\ s * k \in Int /\ s * l \in Int
    BY <1>1
  <2> QED
    BY <2>1
<1>5. Shifts(u, a, sk) /\ Shifts(v, b, sl)
  OBVIOUS
<1> HIDE DEF sk, sl, sr
<1>6. room # 0 => b.lo - a.hi = room
  BY <1>1, RoomIsAhead DEF Holds
<1>7. /\ u.lo = a.lo + sk /\ u.hi = a.hi + sk /\ v.lo = b.lo + sl /\ v.hi = b.hi + sl
      /\ {u.lo, u.hi, v.lo, v.hi} \subseteq Int
  BY <1>2, <1>5 DEF Shifts
<1>8. u.hi - u.lo = a.hi - a.lo /\ v.hi - v.lo = b.hi - b.lo /\ a.lo <= a.hi /\ b.lo <= b.hi
      /\ {a.lo, a.hi, b.lo, b.hi} \subseteq Int
  BY <1>2, <1>7 DEF Holds
<1>9. v.lo - u.hi = b.lo - a.hi - sr
  BY <1>2, <1>7, <1>8
<1>10. w = 0 => Between(a, b) = 0
  <2>1. Square(0) = 0
    BY DEF Square
  <2> QED
    BY <1>1, <2>1
<1>11. s = 0 => Between(u, v) = Between(a, b)
  <2>1. ASSUME s = 0
        PROVE  u.lo = a.lo /\ u.hi = a.hi /\ v.lo = b.lo /\ v.hi = b.hi
    BY <1>2, <1>7, <1>8, <2>1
  <2> QED
    BY <2>1 DEF Between
<1>13. UsedUp(Between(u, v), s, w)
  <2>1. w # 0 => b.lo - a.hi = room
    BY <1>1, <1>6
  <2>2. v.lo - u.hi = b.lo - a.hi - s * rate
    BY <1>9 DEF sr
  <2>3. {a.lo, a.hi, b.lo, b.hi, u.lo, u.hi, v.lo, v.hi} \subseteq Int /\ rate \in Int
    BY <1>1, <1>7, <1>8
  <2>4. /\ u.hi - u.lo = a.hi - a.lo /\ v.hi - v.lo = b.hi - b.lo /\ a.lo <= a.hi /\ b.lo <= b.hi
        /\ room \in Nat /\ room = w * rate
    BY <1>1, <1>8
  <2> QED
    BY <1>10, <1>11, <2>1, <2>2, <2>3, <2>4, RoomCloses
<1>14. Between(v, u) = Between(u, v)
  BY <1>7, RoomsAreMutual
<1> QED
  BY <1>13, <1>14

\* The same of two spans in either order, by the rate of their closing.
LEMMA SpansCollide ==
  ASSUME NEW a, NEW b, NEW p \in Int, NEW q \in Int, NEW k \in Int, NEW l \in Int,
         Holds(a, p), Holds(b, q),
         NEW closing, closing = Closing(q - p, l - k), closing # None, closing.rate > 0,
         NEW w \in Nat, Between(a, b) = Square(w * closing.rate),
         NEW s \in 0 .. w, NEW u, NEW v, Shifts(u, a, s * k), Shifts(v, b, s * l)
  PROVE  UsedUp(Between(u, v), s, w)
<1> DEFINE rate == closing.rate  room == w * rate
<1>1. q - p # 0 /\ rate = (IF q - p > 0 THEN -(l - k) ELSE l - k)
  BY DEF Closing
<1>2. Between(a, b) = Square(room) /\ room = w * rate /\ rate > 0
  OBVIOUS
<1> HIDE DEF rate, room
<1>3. CASE p < q
  <2>1. rate = k - l
    BY <1>1, <1>3
  <2> QED
    BY <1>2, <1>3, <2>1, OneAheadCloses
<1>4. CASE q < p
  <2>1. rate = l - k
    BY <1>1, <1>4
  <2>2. Between(b, a) = Square(room)
    BY <1>2, RoomsAreMutual DEF Holds
  <2> QED
    BY <1>2, <1>4, <2>1, <2>2, OneAheadCloses
<1> QED
  BY <1>1, <1>3, <1>4

\* A straight distance is the room between what is measured along the axis.
LEMMA StraightRooms ==
  ASSUME NEW a, NEW b, NEW spec, Measurable(a, b, spec), OffRoad(spec),
         NEW u, u = projection_axis(spec, a.state.heading)
  PROVE  /\ u.x \in Int /\ u.y \in Int /\ Unit(u.x, u.y)
         /\ Spot(a, u) \in Int /\ Spot(b, u) \in Int /\ Pace(a, u) \in Int /\ Pace(b, u) \in Int
         /\ measure_distance(a, b, spec)
              = IF Boxless(spec, a) \/ Boxless(spec, b) THEN None
                ELSE Between(Stretch(a, u, spec), Stretch(b, u, spec))
         /\ closing_speed(a, b, spec) = Closing(Spot(b, u) - Spot(a, u), Pace(b, u) - Pace(a, u))
<1> DEFINE s == a.state  t == b.state  va == Velocity(a, s.heading)  vb == Velocity(b, t.heading)
           x == s.x  y == s.y  z == t.x  w == t.y  c == u.x  r == u.y
           forth == (z - x) * c + (w - y) * r
           change == (vb.x - va.x) * c + (vb.y - va.y) * r
<1>1. /\ Placed(a) /\ a.entity /\ Placed(b) /\ spec.freespace \in BOOLEAN
      /\ x \in Int /\ y \in Int /\ z \in Int /\ w \in Int
      /\ s.heading \in Int /\ s.speed \in Int /\ t.heading \in Int /\ t.speed \in Int
  BY DEF Measurable, Placed
<1>2. c \in Int /\ r \in Int /\ Unit(c, r)
  BY <1>1, AxesAreUnits
<1>3. va.x \in Int /\ va.y \in Int /\ vb.x \in Int /\ vb.y \in Int
  BY <1>1, VelocitiesAreWhole
<1>4. b.entity \/ vb = [x |-> 0, y |-> 0]
  BY DEF Velocity
<1> DEFINE ax == va.x  ay == va.y  bx == vb.x  by == vb.y
<1>5. /\ measure_distance(a, b, spec)
           = IF ~ spec.freespace THEN Square(forth)
             ELSE IF Boxless(spec, a) \/ Boxless(spec, b) THEN None
             ELSE Between(obb_project(make_obb(s, a.box), u),
                          IF b.entity THEN obb_project(make_obb(t, b.box), u)
                          ELSE [lo |-> Spot(b, u), hi |-> Spot(b, u)])
  BY DEF measure_distance, OffRoad, Spot
<1>6. closing_speed(a, b, spec) = Closing(forth, change)
  <2>1. (IF b.entity THEN vb ELSE [x |-> 0, y |-> 0]) = vb
    BY <1>4
  <2> HIDE DEF vb
  <2> QED
    BY <2>1 DEF closing_speed, OffRoad, vb
<1> HIDE DEF x, y, z, w, c, r, ax, ay, bx, by
<1>7. /\ x * c + y * r \in Int /\ z * c + w * r \in Int
      /\ ax * c + ay * r \in Int /\ bx * c + by * r \in Int
      /\ (z - x) * c + (w - y) * r = (z * c + w * r) - (x * c + y * r)
      /\ (bx - ax) * c + (by - ay) * r = (bx * c + by * r) - (ax * c + ay * r)
  <2>1. /\ x \in Int /\ y \in Int /\ z \in Int /\ w \in Int /\ c \in Int /\ r \in Int
        /\ ax \in Int /\ ay \in Int /\ bx \in Int /\ by \in Int
    BY <1>1, <1>2, <1>3 DEF ax, ay, bx, by
  <2>2. \A m, n, o, p \in Int : /\ m * c + n * r \in Int
                               /\ (m - o) * c + (n - p) * r = (m * c + n * r) - (o * c + p * r)
    BY <2>1
  <2> QED
    BY <2>1, <2>2
<1>8. /\ Spot(a, u) \in Int /\ Spot(b, u) \in Int /\ Pace(a, u) \in Int /\ Pace(b, u) \in Int
      /\ forth = Spot(b, u) - Spot(a, u) /\ change = Pace(b, u) - Pace(a, u)
  BY <1>7 DEF Spot, Pace, x, y, z, w, c, r, ax, ay, bx, by
<1> HIDE DEF forth, change, s, t, va, vb
<1>9. CASE ~ spec.freespace
  <2> DEFINE p == Spot(a, u)  q == Spot(b, u)
  <2>1. /\ Stretch(a, u, spec) = [lo |-> p, hi |-> p] /\ Stretch(b, u, spec) = [lo |-> q, hi |-> q]
    BY <1>9 DEF Stretch
  <2>2. Between([lo |-> p, hi |-> p], [lo |-> q, hi |-> q]) = Square(Larger(0, Larger(q - p, p - q)))
    BY DEF Between
  <2>3. p \in Int /\ q \in Int /\ forth = q - p
    BY <1>8
  <2> HIDE DEF p, q
  <2>4. Larger(0, Larger(q - p, p - q)) \in {q - p, -(q - p)}
    BY <2>3 DEF Larger
  <2>5. Square(-(q - p)) = Square(q - p)
    <3>1. q - p \in Int
      BY <2>3
    <3>2. \A m \in Int : (-m) * (-m) = m * m
      OBVIOUS
    <3> QED
      BY <3>1, <3>2 DEF Square
  <2>6. Square(Larger(0, Larger(q - p, p - q))) = Square(forth)
    BY <2>3, <2>4, <2>5
  <2>7. ~ Boxless(spec, a) /\ ~ Boxless(spec, b)
    BY <1>9 DEF Boxless
  <2>8. measure_distance(a, b, spec) = Between(Stretch(a, u, spec), Stretch(b, u, spec))
    BY <1>5, <1>9, <2>1, <2>2, <2>6 DEF p, q
  <2> QED
    BY <1>2, <1>6, <1>8, <2>7, <2>8 DEF c, r
<1>10. CASE spec.freespace
  <2>1. measure_distance(a, b, spec)
          = IF Boxless(spec, a) \/ Boxless(spec, b) THEN None
            ELSE Between(Stretch(a, u, spec), Stretch(b, u, spec))
    BY <1>1, <1>5, <1>10 DEF Stretch, s, t
  <2> QED
    BY <1>2, <1>6, <1>8, <2>1 DEF c, r
<1> QED
  BY <1>1, <1>9, <1>10

\* What goes on as it is keeps its box, its heading and its speed, and is moved.
LEMMA GoesOn ==
  ASSUME NEW e, Placed(e), "state" \in DOMAIN e, {"x", "y"} \subseteq DOMAIN e.state, NEW n \in Nat
  PROVE  LET f == Later(e, n) v == Velocity(e, e.state.heading)
         IN /\ f.entity = e.entity /\ f.box = e.box
            /\ f.state.heading = e.state.heading /\ f.state.speed = e.state.speed /\ f.state.z = e.state.z
            /\ f.state.x = e.state.x + n * v.x /\ f.state.y = e.state.y + n * v.y
            /\ v.x \in Int /\ v.y \in Int /\ Placed(f)
<1> DEFINE f == Later(e, n)  v == Velocity(e, e.state.heading)  h == e.state.heading
           c == Cos(h)  r == Sin(h)  m == e.state.speed
           x == e.state.x + n * m * c  y == e.state.y + n * m * r
<1>1. /\ h \in Int /\ m \in Int /\ e.state.x \in Int /\ e.state.y \in Int /\ e.state.z \in Int
  BY DEF Placed
<1>2. c \in Int /\ r \in Int
  BY <1>1, UnitQuarters
<1>3. v.x \in Int /\ v.y \in Int
  BY <1>1, VelocitiesAreWhole
<1>4. /\ f.entity = e.entity /\ f.box = e.box
      /\ f.state.heading = e.state.heading /\ f.state.speed = e.state.speed /\ f.state.z = e.state.z
      /\ f.state.x = e.state.x + n * v.x /\ f.state.y = e.state.y + n * v.y
  <2>1. CASE ~ e.entity
    <3>1. f = e /\ v = [x |-> 0, y |-> 0]
      BY <2>1 DEF Later, Velocity
    <3>2. e.state.x + n * 0 = e.state.x /\ e.state.y + n * 0 = e.state.y
      BY <1>1
    <3> QED
      BY <3>1, <3>2
  <2>2. CASE e.entity
    <3>1. v.x = m * c /\ v.y = m * r
      BY <2>2 DEF Velocity
    <3>2. f = [e EXCEPT !.state.x = x, !.state.y = y]
      BY <2>2 DEF Later
    <3> HIDE DEF f, v, x, y
    <3> DEFINE t == [e.state EXCEPT !.x = x]  g == [e EXCEPT !.state = t]
               q == [t EXCEPT !.y = y]
    <3>3. f = [g EXCEPT !.state = [g.state EXCEPT !.y = y]]
      BY <3>2
    <3>4. g.state = t /\ "state" \in DOMAIN g /\ g.entity = e.entity /\ g.box = e.box
      OBVIOUS
    <3>5. /\ t.x = x /\ t.y = e.state.y /\ "y" \in DOMAIN t /\ t.heading = e.state.heading
          /\ t.speed = e.state.speed /\ t.z = e.state.z
      OBVIOUS
    <3> HIDE DEF t, g
    <3>6. /\ q.x = x /\ q.y = y /\ q.heading = e.state.heading /\ q.speed = e.state.speed /\ q.z = e.state.z
      BY <3>5
    <3>7. f = [g EXCEPT !.state = q]
      BY <3>3, <3>4
    <3> HIDE DEF q
    <3>8. f.state = q /\ f.entity = e.entity /\ f.box = e.box
      BY <3>4, <3>7
    <3>9. x = e.state.x + n * (m * c) /\ y = e.state.y + n * (m * r)
      <4> HIDE DEF c, r, m
      <4>1. n * m * c = n * (m * c) /\ n * m * r = n * (m * r)
        BY <1>1, <1>2
      <4> QED
        BY <4>1 DEF x, y
    <3> QED
      BY <3>1, <3>6, <3>8, <3>9
  <2> QED
    BY <2>1, <2>2
<1>5. f.state.x \in Int /\ f.state.y \in Int
  <2> HIDE DEF f, v
  <2>1. n * v.x \in Int /\ n * v.y \in Int
    BY <1>3
  <2> QED
    BY <1>1, <1>4, <2>1
<1> HIDE DEF f, v
<1>6. Placed(f)
  <2>1. /\ f.state.x \in Int /\ f.state.y \in Int /\ f.state.z \in Int
        /\ f.state.heading \in Int /\ f.state.speed \in Int
    BY <1>1, <1>4, <1>5
  <2>2. \A d \in {"x", "y", "z", "heading", "speed"} : f.state[d] \in Int
    BY <2>1
  <2>3. /\ f.entity \in BOOLEAN /\ (f.entity \/ f.box = None)
        /\ f.box # None => {f.box.cx, f.box.cy} \subseteq Int /\ {f.box.hx, f.box.hy} \subseteq Nat
    BY <1>4 DEF Placed
  <2> QED
    BY <2>2, <2>3 DEF Placed
<1> QED
  BY <1>3, <1>4, <1>6 DEF f, v

\* What is moved covers as much, as far on as it went.
LEMMA StretchesShift ==
  ASSUME NEW e, NEW f, Placed(e), Placed(f), NEW v, v.x \in Int, v.y \in Int, NEW n \in Nat,
         f.entity = e.entity, f.box = e.box, f.state.heading = e.state.heading,
         f.state.x = e.state.x + n * v.x, f.state.y = e.state.y + n * v.y,
         NEW u, u.x \in Int, u.y \in Int, Unit(u.x, u.y), NEW spec, ~ Boxless(spec, e),
         spec.freespace \in BOOLEAN
  PROVE  Shifts(Stretch(f, u, spec), Stretch(e, u, spec), n * (v.x * u.x + v.y * u.y))
<1> DEFINE x == e.state.x  y == e.state.y  dx == n * v.x  dy == n * v.y  c == u.x  r == u.y
           way == n * (v.x * u.x + v.y * u.y)
<1>1. /\ x \in Int /\ y \in Int /\ dx \in Int /\ dy \in Int /\ c \in Int /\ r \in Int
      /\ f.state.x = x + dx /\ f.state.y = y + dy
  <2>1. \A m \in Int : n * m \in Int
    OBVIOUS
  <2> QED
    BY <2>1 DEF Placed
<1>2. way = dx * c + dy * r /\ way \in Int
  <2> DEFINE vx == v.x  vy == v.y
  <2>1. vx \in Int /\ vy \in Int
    OBVIOUS
  <2> HIDE DEF vx, vy, c, r
  <2>2. n * (vx * c + vy * r) = (n * vx) * c + (n * vy) * r /\ n * (vx * c + vy * r) \in Int
    BY <1>1, <2>1
  <2> QED
    BY <2>2 DEF vx, vy, c, r
<1> HIDE DEF x, y, dx, dy, c, r, way
<1>3. \A m, l \in Int : /\ (m + dx) * c + (l + dy) * r = (m * c + l * r) + (dx * c + dy * r)
                       /\ m * c + l * r \in Int
  BY <1>1
<1>4. ASSUME spec.freespace /\ e.entity
      PROVE  Shifts(Stretch(f, u, spec), Stretch(e, u, spec), way)
  <2> DEFINE o == make_obb(e.state, e.box)  q == make_obb(f.state, f.box)
             radius == projected_radius(o, u)  mid == o.x * c + o.y * r
  <2>1. e.box # None
    BY <1>4 DEF Boxless
  <2>2. o.x \in Int /\ o.y \in Int
    BY <1>4, <2>1, BoxesStand
  <2>3. /\ q.c = o.c /\ q.s = o.s /\ q.hx = o.hx /\ q.hy = o.hy
        /\ q.x = o.x + dx /\ q.y = o.y + dy
    <3> DEFINE p == e.box.cx * Cos(e.state.heading) - e.box.cy * Sin(e.state.heading)
               l == e.box.cx * Sin(e.state.heading) + e.box.cy * Cos(e.state.heading)
               hc == e.box.cx * Cos(e.state.heading)  hs == e.box.cy * Sin(e.state.heading)
               lc == e.box.cx * Sin(e.state.heading)  ls == e.box.cy * Cos(e.state.heading)
    <3>1. /\ q.c = o.c /\ q.s = o.s /\ q.hx = o.hx /\ q.hy = o.hy
          /\ o.x = x + hc - hs /\ o.y = y + lc + ls
          /\ q.x = (x + dx) + hc - hs /\ q.y = (y + dy) + lc + ls
      BY <1>1 DEF make_obb, x, y
    <3>2. hc \in Int /\ hs \in Int /\ lc \in Int /\ ls \in Int
      <4>1. /\ e.box.cx \in Int /\ e.box.cy \in Int
            /\ Cos(e.state.heading) \in Int /\ Sin(e.state.heading) \in Int
        BY <2>1, UnitQuarters DEF Placed
      <4> DEFINE m1 == e.box.cx  m2 == e.box.cy  m3 == Cos(e.state.heading)  m4 == Sin(e.state.heading)
      <4> HIDE DEF m1, m2, m3, m4
      <4>2. m1 * m3 \in Int /\ m2 * m4 \in Int /\ m1 * m4 \in Int /\ m2 * m3 \in Int
        BY <4>1 DEF m1, m2, m3, m4
      <4> QED
        BY <4>2 DEF m1, m2, m3, m4
    <3> HIDE DEF hc, hs, lc, ls, o, q
    <3> QED
      BY <1>1, <3>1, <3>2
  <2>4. projected_radius(q, u) = radius
    BY <2>3 DEF projected_radius
  <2>5. /\ obb_project(o, u).lo = mid - radius /\ obb_project(o, u).hi = mid + radius
        /\ obb_project(q, u).lo = (q.x * c + q.y * r) - radius
        /\ obb_project(q, u).hi = (q.x * c + q.y * r) + radius
    BY <2>4 DEF obb_project, c, r
  <2>6. obb_project(o, u).lo \in Int /\ obb_project(o, u).hi \in Int
    BY <1>4, <2>1, ProjectionsHold
  <2>7. q.x * c + q.y * r = mid + way /\ mid \in Int
    <3>1. (o.x + dx) * c + (o.y + dy) * r = (o.x * c + o.y * r) + (dx * c + dy * r) /\ o.x * c + o.y * r \in Int
      BY <1>3, <2>2
    <3> QED
      BY <1>2, <2>3, <3>1
  <2>8. Stretch(f, u, spec) = obb_project(q, u) /\ Stretch(e, u, spec) = obb_project(o, u)
    BY <1>4 DEF Stretch
  <2> HIDE DEF mid, o, q
  <2>9. radius \in Int
    <3> DEFINE m == o.c * c + o.s * r  l == o.c * r - o.s * c  oc == o.c  os == o.s
    <3>1. oc \in Int /\ os \in Int /\ o.hx \in Nat /\ o.hy \in Nat
      BY <1>4, <2>1, BoxesStand DEF o
    <3>2. radius = o.hx * Magnitude(m) + o.hy * Magnitude(l)
      BY DEF projected_radius, c, r
    <3> HIDE DEF oc, os
    <3>3. oc * c + os * r \in Int /\ oc * r - os * c \in Int
      BY <1>1, <3>1
    <3>4. m \in Int /\ l \in Int
      BY <3>3 DEF oc, os
    <3> HIDE DEF m, l, radius
    <3>5. Magnitude(m) \in Int /\ Magnitude(l) \in Int
      BY <3>4 DEF Magnitude
    <3> QED
      BY <3>1, <3>2, <3>5
  <2> HIDE DEF radius
  <2> QED
    BY <1>2, <2>5, <2>6, <2>7, <2>8, <2>9 DEF Shifts
<1>5. ASSUME ~ (spec.freespace /\ e.entity)
      PROVE  Shifts(Stretch(f, u, spec), Stretch(e, u, spec), way)
  <2>1. /\ Stretch(f, u, spec) = [lo |-> Spot(f, u), hi |-> Spot(f, u)]
        /\ Stretch(e, u, spec) = [lo |-> Spot(e, u), hi |-> Spot(e, u)]
    BY <1>5 DEF Stretch
  <2>2. Spot(f, u) = (x + dx) * c + (y + dy) * r /\ Spot(e, u) = x * c + y * r
    BY <1>1 DEF Spot, x, y, c, r
  <2>3. Spot(f, u) = Spot(e, u) + way /\ Spot(e, u) \in Int
    BY <1>1, <1>2, <1>3, <2>2
  <2> QED
    BY <2>1, <2>3 DEF Shifts
<1>6. Shifts(Stretch(f, u, spec), Stretch(e, u, spec), way)
  BY <1>4, <1>5
<1> QED
  BY <1>6 DEF way

\* Where an entity is lies in what it covers.
LEMMA StretchesHold ==
  ASSUME NEW e, Placed(e), NEW u, u.x \in Int, u.y \in Int, Unit(u.x, u.y), NEW spec,
         spec.freespace \in BOOLEAN, ~ Boxless(spec, e), e.box # None => Straddles(e.box), Spot(e, u) \in Int
  PROVE  Holds(Stretch(e, u, spec), Spot(e, u))
<1>1. CASE spec.freespace /\ e.entity
  <2>1. e.box # None /\ Straddles(e.box)
    BY <1>1 DEF Boxless
  <2> DEFINE reach == obb_project(make_obb(e.state, e.box), u)
  <2>2. reach.lo \in Int /\ reach.hi \in Int /\ reach.lo <= Spot(e, u) /\ Spot(e, u) <= reach.hi
    BY <1>1, <2>1, ProjectionsHold DEF Spot
  <2>3. Stretch(e, u, spec) = reach
    BY <1>1 DEF Stretch
  <2> HIDE DEF reach
  <2> QED
    BY <2>2, <2>3 DEF Holds
<1>2. CASE ~ (spec.freespace /\ e.entity)
  BY <1>2 DEF Stretch, Holds
<1> QED
  BY <1>1, <1>2

\* What can be asked of a time to collision between two that go on as they are.
Ongoing(a, b, spec) ==
  /\ Measurable(a, b, spec)
  /\ \A e \in {a, b} : /\ e.box # None => Straddles(e.box)
                      /\ "state" \in DOMAIN e /\ {"x", "y"} \subseteq DOMAIN e.state

LEMMA LaterMeasures ==
  ASSUME NEW a, NEW b, NEW spec, Ongoing(a, b, spec), OffRoad(spec), NEW n \in Nat,
         NEW u, u = projection_axis(spec, a.state.heading),
         ~ Boxless(spec, a), ~ Boxless(spec, b)
  PROVE  LET s == Stretch(Later(a, n), u, spec)  t == Stretch(Later(b, n), u, spec)
         IN /\ measure_distance(Later(a, n), Later(b, n), spec) = Between(s, t)
            /\ Shifts(s, Stretch(a, u, spec), n * Pace(a, u))
            /\ Shifts(t, Stretch(b, u, spec), n * Pace(b, u))
<1> DEFINE f == Later(a, n)  g == Later(b, n)
           va == Velocity(a, a.state.heading)  vb == Velocity(b, b.state.heading)
<1>1. /\ Placed(a) /\ a.entity /\ Placed(b) /\ spec.freespace \in BOOLEAN
      /\ u.x \in Int /\ u.y \in Int /\ Unit(u.x, u.y)
  BY StraightRooms DEF Ongoing, Measurable
<1>2. /\ f.entity = a.entity /\ f.box = a.box /\ f.state.heading = a.state.heading
      /\ f.state.x = a.state.x + n * va.x /\ f.state.y = a.state.y + n * va.y
      /\ va.x \in Int /\ va.y \in Int /\ Placed(f)
  BY <1>1, GoesOn DEF Ongoing
<1>3. /\ g.entity = b.entity /\ g.box = b.box /\ g.state.heading = b.state.heading
      /\ g.state.x = b.state.x + n * vb.x /\ g.state.y = b.state.y + n * vb.y
      /\ vb.x \in Int /\ vb.y \in Int /\ Placed(g)
  BY <1>1, GoesOn DEF Ongoing
<1> HIDE DEF f, g
<1>4. Shifts(Stretch(f, u, spec), Stretch(a, u, spec), n * Pace(a, u))
  <2> HIDE DEF va
  <2>1. Shifts(Stretch(f, u, spec), Stretch(a, u, spec), n * (va.x * u.x + va.y * u.y))
    BY <1>1, <1>2, StretchesShift
  <2> QED
    BY <2>1 DEF Pace, va
<1>5. Shifts(Stretch(g, u, spec), Stretch(b, u, spec), n * Pace(b, u))
  <2> HIDE DEF vb
  <2>1. Shifts(Stretch(g, u, spec), Stretch(b, u, spec), n * (vb.x * u.x + vb.y * u.y))
    BY <1>1, <1>3, StretchesShift
  <2> QED
    BY <2>1 DEF Pace, vb
<1>6. measure_distance(f, g, spec) = Between(Stretch(f, u, spec), Stretch(g, u, spec))
  <2>1. Measurable(f, g, spec)
    BY <1>1, <1>2, <1>3 DEF Ongoing, Measurable
  <2>2. ~ Boxless(spec, f) /\ ~ Boxless(spec, g)
    BY <1>2, <1>3 DEF Boxless
  <2>3. u = projection_axis(spec, f.state.heading)
    BY <1>2
  <2> QED
    BY <2>1, <2>2, <2>3, StraightRooms
<1> QED
  BY <1>4, <1>5, <1>6 DEF f, g

LEMMA StraightTimesKeep ==
  ASSUME NEW a, NEW b, NEW spec, Ongoing(a, b, spec), OffRoad(spec), NEW w \in 0 .. 3,
         NEW closing, closing = closing_speed(a, b, spec), closing # None, closing.rate > 0,
         NEW measured, measured = measure_distance(a, b, spec), measured # None,
         measured * closing.root = Square(w * closing.rate)
  PROVE  CollideAfter(w, Left(a, b, spec))
<1> DEFINE u == projection_axis(spec, a.state.heading)
           p == Spot(a, u)  q == Spot(b, u)  k == Pace(a, u)  l == Pace(b, u)
           s == Stretch(a, u, spec)  t == Stretch(b, u, spec)
<1>1. /\ u.x \in Int /\ u.y \in Int /\ Unit(u.x, u.y)
      /\ p \in Int /\ q \in Int /\ k \in Int /\ l \in Int
      /\ measured = IF Boxless(spec, a) \/ Boxless(spec, b) THEN None ELSE Between(s, t)
      /\ closing = Closing(q - p, l - k)
  BY StraightRooms DEF Ongoing
<1>2. ~ Boxless(spec, a) /\ ~ Boxless(spec, b)
  BY <1>1
<1>3. Holds(s, p) /\ Holds(t, q)
  BY <1>1, <1>2, StretchesHold DEF Ongoing, Measurable
<1>4. ASSUME NEW n \in 0 .. w
      PROVE  UsedUp(measure_distance(Later(a, n), Later(b, n), spec), n, w)
  <2> DEFINE sn == Stretch(Later(a, n), u, spec)  tn == Stretch(Later(b, n), u, spec)
             left == measure_distance(Later(a, n), Later(b, n), spec)
  <2>1. left = Between(sn, tn) /\ Shifts(sn, s, n * k) /\ Shifts(tn, t, n * l)
    <3>1. n \in Nat
      OBVIOUS
    <3> QED
      BY <1>2, <3>1, LaterMeasures
  <2> HIDE DEF sn, tn, left, s, t, p, q, k, l
  <2>2. Between(s, t) = Square(w * closing.rate)
    <3>1. closing.root = 1
      BY <1>1 DEF Closing
    <3>2. measured = Between(s, t) /\ Between(s, t) \in Int
      BY <1>1, <1>2, <1>3, RoomsAreWhole DEF Holds
    <3> QED
      BY <3>1, <3>2
  <2>3. UsedUp(Between(sn, tn), n, w)
    <3>1. w \in Nat
      OBVIOUS
    <3>2. p \in Int /\ q \in Int /\ k \in Int /\ l \in Int /\ closing = Closing(q - p, l - k)
      BY <1>1
    <3> QED
      BY <1>3, <2>1, <2>2, <3>1, <3>2, SpansCollide
  <2> QED
    BY <2>1, <2>3 DEF left
<1> DEFINE left == Left(a, b, spec)
<1>5. ASSUME NEW n \in 0 .. w
      PROVE  UsedUp(left[n], n, w)
  <2>1. n \in 0 .. 3
    OBVIOUS
  <2>2. left[n] = measure_distance(Later(a, n), Later(b, n), spec)
    BY <2>1 DEF Left
  <2> QED
    BY <1>4, <2>2
<1> HIDE DEF left
<1>6. left[w] = 0
  BY <1>5 DEF UsedUp
<1>7. ASSUME NEW before \in 0 .. w - 1
      PROVE  left[before] > 0
  <2>1. before \in 0 .. w /\ before # w
    OBVIOUS
  <2> QED
    BY <1>5, <2>1 DEF UsedUp
<1> QED
  BY <1>6, <1>7 DEF CollideAfter, left

\* Asked as a condition of the first of two entities, about the second or a point.
LEMMA CollisionsAreAsked ==
  ASSUME NEW context, NEW c, NEW a, NEW b, NEW m, context.entities = <<a, b>>,
         c.kind = "timeToCollision", c.ref \in {2, None}, c.ref = 2 => b = context.entities[2],
         c.ref = None => b = c.position, c.triggering = << 1 >>, c.rule = "equalTo",
         m = Measurement(context, c), evaluate(context, c)
  PROVE  TimeToCollisionHolds(measure_distance(a, b, m), closing_speed(a, b, m), c)
<1>1. ByEntityHolds(context, c)
  BY DEF evaluate
<1>2. Range(c.triggering) = {1}
  BY DEF Range
<1>3. evaluate_for_entity(context, 1, c)
  BY <1>1, <1>2 DEF ByEntityHolds, Enough
<1>4. Target(context, c) = b /\ context.entities[1] = a
  BY NoneAssumption DEF Target
<1>5. OfTarget(a, b, c, m)
  <2>1. c.kind \in AtTarget
    BY DEF AtTarget, OverDistance
  <2> QED
    BY <1>3, <1>4, <2>1 DEF evaluate_for_entity
<1>6. OfDistance(measure_distance(a, b, m), a, b, c, m)
  BY <1>5 DEF OfTarget
<1> QED
  BY <1>6 DEF OfDistance

\* For what is not measured along a road the time to collision is the time that is
\* left: both going on as they are, none of the distance is left when it is over,
\* and some at every second before (interaction_condition.cpp:266-303).  Along a road
\* that bends nothing goes on so, and the runs ask about those that do not.
THEOREM CollisionTimesAreKept == Spec => [](~ by_road(asked.spec) => TimeToCollisionIsKept)
<1>1. Put => (~ by_road(asked.spec) => TimeToCollisionIsKept)
  <2> DEFINE a == asked.a  b == asked.b  spec == Over(asked.spec)
             context == [entities |-> <<a, b>>, net |-> Net[asked.spec.net]]
             condition == [kind |-> "timeToCollision", ref |-> IF b.entity THEN 2 ELSE None, position |-> b,
                           cs |-> asked.spec.cs, type |-> asked.spec.type, along_route |-> FALSE,
                           freespace |-> asked.spec.freespace, rule |-> "equalTo", value |-> 0,
                           triggering |-> << 1 >>, all |-> TRUE]
             left == Left(a, b, spec)
  <2> SUFFICES ASSUME Put, ~ by_road(asked.spec), Answered("distance"), ~ euclidean(asked.spec),
                      NEW w \in 0 .. 3, evaluate(context, [condition EXCEPT !.value = w])
               PROVE  CollideAfter(w, left)
    <3>1. DOMAIN left = 0 .. 3
      BY DEF Left
    <3> HIDE DEF left, context, condition
    <3> QED
      BY <3>1 DEF TimeToCollisionIsKept, Kept, left, context, condition, spec
  <2>1. /\ Placed(a) /\ a.entity /\ Placed(b) /\ asked.spec.freespace \in BOOLEAN
        /\ {"cs", "type", "freespace", "net"} \subseteq DOMAIN asked.spec /\ asked.spec.net \in DOMAIN Net
        /\ None \notin {asked.spec.cs, asked.spec.type}
        /\ \A e \in {a, b} : e.box # None => Straddles(e.box)
        /\ \A e \in {a, b} : "state" \in DOMAIN e /\ {"x", "y"} \subseteq DOMAIN e.state
    BY DistancesAssumption DEF Put, Answered
  <2>2. /\ spec.freespace = asked.spec.freespace /\ spec.net = Net[asked.spec.net]
        /\ spec.cs = asked.spec.cs /\ spec.type = asked.spec.type
    BY <2>1 DEF Over
  <2> DEFINE c == [condition EXCEPT !.value = w]  m == Measurement(context, c)
  <2>3. /\ c.kind = "timeToCollision" /\ c.ref = (IF b.entity THEN 2 ELSE None) /\ c.position = b
        /\ c.cs = asked.spec.cs /\ c.type = asked.spec.type /\ c.freespace = asked.spec.freespace
        /\ c.rule = "equalTo" /\ c.value = w /\ c.triggering = << 1 >>
    OBVIOUS
  <2>4. /\ m.cs = spec.cs /\ m.type = spec.type /\ m.freespace = spec.freespace /\ m.net = spec.net
    <3>1. context.net = Net[asked.spec.net]
      OBVIOUS
    <3> HIDE DEF c, context, spec
    <3> QED
      BY <2>1, <2>2, <2>3, <3>1
        DEF Measurement, effective_relative_distance_type, effective_coordinate_system
  <2> DEFINE measured == measure_distance(a, b, m)  closing == closing_speed(a, b, m)
  <2>5. TimeToCollisionHolds(measured, closing, c)
    <3>1. context.entities = <<a, b>> /\ context.entities[2] = b
      OBVIOUS
    <3>2. evaluate(context, c)
      OBVIOUS
    <3> HIDE DEF c, context, m
    <3>3. m = Measurement(context, c)
      BY DEF m
    <3> HIDE DEF a, b
    <3> QED
      BY <2>3, <3>1, <3>2, <3>3, NoneAssumption, CollisionsAreAsked
  <2> HIDE DEF m, c, context, condition
  <2>6. Ongoing(a, b, m) /\ Ongoing(a, b, spec)
    <3>1. Net[asked.spec.net] = None \/ Mapped(Net[asked.spec.net])
      BY <2>1, NetworksAssumption
    <3> HIDE DEF spec
    <3> QED
      BY <2>1, <2>2, <2>4, <3>1 DEF Ongoing, Measurable
  <2> HIDE DEF a, b, spec
  <2>7. measured # None /\ closing # None /\ closing.rate > 0
        /\ CompareRoot(measured * closing.root, "equalTo", w * closing.rate)
    <3> HIDE DEF measured, closing
    <3> QED
      BY <2>3, <2>5 DEF TimeToCollisionHolds
  <2>8. OffRoad(spec)
    <3>1. spec.cs # "trajectory"
      <4>1. ASSUME m.cs = "trajectory"
            PROVE  measured = None
        BY <4>1 DEF measure_distance
      <4> HIDE DEF measured
      <4> QED
        BY <2>4, <2>7, <4>1
    <3> QED
      BY <2>2, <3>1 DEF OffRoad, euclidean, by_road
  <2>9. measured = measure_distance(a, b, spec) /\ closing = closing_speed(a, b, spec)
    <3>1. OffRoad(m)
      BY <2>4, <2>8 DEF OffRoad, euclidean, by_road
    <3>2. projection_axis(m, a.state.heading) = projection_axis(spec, a.state.heading)
      BY <2>4 DEF projection_axis
    <3> DEFINE u == projection_axis(spec, a.state.heading)
    <3>3. /\ Stretch(a, u, m) = Stretch(a, u, spec) /\ Stretch(b, u, m) = Stretch(b, u, spec)
          /\ Boxless(m, a) <=> Boxless(spec, a)
          /\ Boxless(m, b) <=> Boxless(spec, b)
      BY <2>4 DEF Stretch, Boxless
    <3>4. /\ measured = IF Boxless(m, a) \/ Boxless(m, b) THEN None
                        ELSE Between(Stretch(a, u, m), Stretch(b, u, m))
          /\ closing = Closing(Spot(b, u) - Spot(a, u), Pace(b, u) - Pace(a, u))
      <4> HIDE DEF measured, closing
      <4> QED
        BY <2>6, <3>1, <3>2, StraightRooms DEF Ongoing, measured, closing
    <3>5. /\ measure_distance(a, b, spec) = IF Boxless(spec, a) \/ Boxless(spec, b) THEN None
                                            ELSE Between(Stretch(a, u, spec), Stretch(b, u, spec))
          /\ closing_speed(a, b, spec) = Closing(Spot(b, u) - Spot(a, u), Pace(b, u) - Pace(a, u))
      BY <2>6, <2>8, StraightRooms DEF Ongoing
    <3> HIDE DEF measured, closing, u
    <3> QED
      BY <3>3, <3>4, <3>5
  <2> HIDE DEF measured, closing
  <2>10. measured * closing.root = Square(w * closing.rate)
    <3>1. closing.rate \in Nat
      <4>1. Closes(closing)
        BY <2>6, <2>9, ClosingSpeedsAreWhole DEF Ongoing
      <4> QED
        BY <2>7, <4>1 DEF Closes
    <3> DEFINE way == w * closing.rate
    <3>2. way \in Nat
      BY <3>1
    <3> HIDE DEF way
    <3>3. CompareRoot(measured * closing.root, "equalTo", way)
      BY <2>7 DEF way
    <3>4. compare(measured * closing.root, "equalTo", Square(way))
      BY <3>2, <3>3 DEF CompareRoot
    <3> QED
      BY <3>4 DEF compare, way
  <2> QED
    BY <2>6, <2>7, <2>8, <2>9, <2>10, StraightTimesKeep DEF left
<1> QED
  BY <1>1, AlwaysPut, PTL

---------------------------------------------------------------------------
(* Road documents: the elements of a list are read one after the other.          *)

LEMMA GreatestIs ==
  ASSUME NEW k \in Nat, NEW s \in SUBSET (1 .. k), k \in s
  PROVE  Max(s) = k
<1>1. \A y \in s : k >= y /\ y \in Int
  OBVIOUS
<1>2. Max(s) \in s /\ \A y \in s : Max(s) >= y
  BY <1>1 DEF Max
<1>3. Max(s) >= k /\ k >= Max(s) /\ Max(s) \in Int
  BY <1>1, <1>2
<1> QED
  BY <1>3

LEMMA LastIn ==
  ASSUME NEW K, NEW n \in Nat, 0 \in K, \A k \in 1 .. n : k - 1 \in K => k \in K
  PROVE  n \in K
<1>1. n \in 0 .. n
  OBVIOUS
<1> QED
  BY <1>1, IntervalInduction

\* What is done with an element of each kind.
Read(kind, sofar, node) ==
  CASE kind = "length" -> sofar + node.length
    [] kind = "geometry" -> AddGeometry(sofar, node)
    [] kind = "width" -> AddWidth(sofar, node)
    [] kind = "lane" -> read_lane(sofar, node)
    [] kind = "group" -> read_lane_group(sofar, node)
    [] kind = "section" -> AddSection(sofar, node)
    [] kind = "road" -> read_road(sofar, node)
    [] kind = "junction" -> read_junction(sofar, node)

\* What every set of the elements comes to, and every first few of them.
Comes(h, kind, seq, n, base) ==
  h = [s \in SUBSET (1 .. n) |->
         IF s = {} THEN base ELSE Read(kind, h[s \ {Max(s)}], seq[Max(s)])]
Goes(run, kind, seq, n, base) ==
  /\ DOMAIN run = 0 .. n /\ run[0] = base
  /\ \A k \in 1 .. n : run[k] = Read(kind, run[k - 1], seq[k])

LEMMA SetsCome ==
  ASSUME NEW kind, NEW seq, NEW n \in Nat, NEW base
  PROVE  \E h : Comes(h, kind, seq, n, base)
<1> DEFINE K == {k \in 0 .. n : \E h : Comes(h, kind, seq, k, base)}
<1>1. 0 \in K
  <2>1. Comes([s \in SUBSET (1 .. 0) |-> base], kind, seq, 0, base)
    BY 1 .. 0 = {} DEF Comes
  <2> QED
    BY <2>1
<1>2. ASSUME NEW k \in 1 .. n, k - 1 \in K
      PROVE  k \in K
  <2>1. PICK h : Comes(h, kind, seq, k - 1, base)
    BY <1>2
  <2> DEFINE g == [s \in SUBSET (1 .. k) |-> IF k \in s THEN Read(kind, h[s \ {k}], seq[k]) ELSE h[s]]
  <2>2. ASSUME NEW s \in SUBSET (1 .. k)
        PROVE  g[s] = IF s = {} THEN base ELSE Read(kind, g[s \ {Max(s)}], seq[Max(s)])
    <3>1. CASE k \in s
      <4>1. Max(s) = k /\ s # {}
        BY <3>1, GreatestIs
      <4>2. s \ {k} \in SUBSET (1 .. k) /\ s \ {k} \in SUBSET (1 .. k - 1) /\ k \notin s \ {k}
        OBVIOUS
      <4>3. g[s] = Read(kind, h[s \ {k}], seq[k]) /\ g[s \ {k}] = h[s \ {k}]
        BY <3>1, <4>2
      <4> QED
        BY <4>1, <4>3
    <3>2. CASE k \notin s
      <4>1. s \in SUBSET (1 .. k - 1) /\ g[s] = h[s]
        BY <3>2
      <4>2. h[s] = IF s = {} THEN base ELSE Read(kind, h[s \ {Max(s)}], seq[Max(s)])
        BY <2>1, <4>1 DEF Comes
      <4>3. s \ {Max(s)} \in SUBSET (1 .. k) /\ k \notin s \ {Max(s)}
        BY <3>2
      <4>4. g[s \ {Max(s)}] = h[s \ {Max(s)}]
        BY <4>3
      <4> QED
        BY <4>1, <4>2, <4>4
    <3> QED
      BY <3>1, <3>2
  <2>3. g = [s \in SUBSET (1 .. k) |-> g[s]]
    OBVIOUS
  <2> HIDE DEF g
  <2>4. Comes(g, kind, seq, k, base)
    BY <2>2, <2>3 DEF Comes
  <2> QED
    BY <2>4
<1> HIDE DEF K
<1>3. n \in K
  BY <1>1, <1>2, LastIn
<1> QED
  BY <1>3 DEF K

LEMMA SetsGo ==
  ASSUME NEW kind, NEW seq, NEW n \in Nat, NEW base, NEW h, Comes(h, kind, seq, n, base)
  PROVE  \E run : Goes(run, kind, seq, n, base) /\ run[n] = h[1 .. n]
<1>1. h[{}] = base
  BY DEF Comes
<1>2. ASSUME NEW k \in 1 .. n
      PROVE  h[1 .. k] = Read(kind, h[1 .. k - 1], seq[k])
  <2>1. 1 .. k \in SUBSET (1 .. k) /\ k \in 1 .. k /\ 1 .. k \in SUBSET (1 .. n) /\ 1 .. k # {} /\ k \in Nat
    <3>1. k \in 1 .. k /\ \A i \in 1 .. k : i \in 1 .. n
      OBVIOUS
    <3> QED
      BY <3>1
  <2>2. Max(1 .. k) = k
    BY <2>1, GreatestIs
  <2>3. (1 .. k) \ {k} = 1 .. k - 1
    OBVIOUS
  <2>4. h[1 .. k] = Read(kind, h[(1 .. k) \ {Max(1 .. k)}], seq[Max(1 .. k)])
    BY <2>1 DEF Comes
  <2> QED
    BY <2>2, <2>3, <2>4
<1> DEFINE run == [k \in 0 .. n |-> h[1 .. k]]
<1>3. 1 .. 0 = {} /\ DOMAIN run = 0 .. n
  OBVIOUS
<1>4. run[0] = base /\ \A k \in 1 .. n : run[k] = Read(kind, run[k - 1], seq[k])
  BY <1>1, <1>2, <1>3
<1>5. run[n] = h[1 .. n]
  OBVIOUS
<1> HIDE DEF run
<1>6. Goes(run, kind, seq, n, base)
  BY <1>3, <1>4 DEF Goes
<1> QED
  BY <1>5, <1>6

LEMMA LengthsGo ==
  ASSUME NEW seq, NEW n \in Nat, DOMAIN seq = 1 .. n, NEW base
  PROVE  \E run : Goes(run, "length", seq, n, base) /\ run[n] = FoldLeft(LAMBDA sum, piece : sum + piece.length, base, seq)
<1> DEFINE Is(h) ==
             h = [s \in SUBSET (1 .. n) |-> IF s = {} THEN base ELSE h[s \ {Max(s)}] + seq[Max(s)].length]
           iter == CHOOSE h : Is(h)
<1>1. ASSUME NEW h
      PROVE  Is(h) <=> Comes(h, "length", seq, n, base)
  BY DEF Comes, Read
<1>2. Comes(iter, "length", seq, n, base)
  <2> HIDE DEF Is
  <2>1. \E h : Is(h)
    BY <1>1, SetsCome
  <2> QED
    BY <2>1, <1>1
<1>3. iter[1 .. n] = FoldLeft(LAMBDA sum, piece : sum + piece.length, base, seq)
  BY DEF FoldLeft, MapThenFoldSet, iter, Is
<1>4. \E run : Goes(run, "length", seq, n, base) /\ run[n] = iter[1 .. n]
  <2> HIDE DEF iter, Is
  <2> QED
    BY <1>2, SetsGo
<1> HIDE DEF iter, Is
<1> QED
  BY <1>3, <1>4

LEMMA GeometriesGo ==
  ASSUME NEW seq, NEW n \in Nat, DOMAIN seq = 1 .. n, NEW base
  PROVE  \E run : Goes(run, "geometry", seq, n, base) /\ run[n] = FoldLeft(AddGeometry, base, seq)
<1> DEFINE Is(h) ==
             h = [s \in SUBSET (1 .. n) |-> IF s = {} THEN base ELSE AddGeometry(h[s \ {Max(s)}], seq[Max(s)])]
           iter == CHOOSE h : Is(h)
<1>1. ASSUME NEW h
      PROVE  Is(h) <=> Comes(h, "geometry", seq, n, base)
  BY DEF Comes, Read
<1>2. Comes(iter, "geometry", seq, n, base)
  <2> HIDE DEF Is
  <2>1. \E h : Is(h)
    BY <1>1, SetsCome
  <2> QED
    BY <2>1, <1>1
<1>3. iter[1 .. n] = FoldLeft(AddGeometry, base, seq)
  BY DEF FoldLeft, MapThenFoldSet, iter, Is
<1>4. \E run : Goes(run, "geometry", seq, n, base) /\ run[n] = iter[1 .. n]
  <2> HIDE DEF iter, Is
  <2> QED
    BY <1>2, SetsGo
<1> HIDE DEF iter, Is
<1> QED
  BY <1>3, <1>4

LEMMA WidthsGo ==
  ASSUME NEW seq, NEW n \in Nat, DOMAIN seq = 1 .. n, NEW base
  PROVE  \E run : Goes(run, "width", seq, n, base) /\ run[n] = FoldLeft(AddWidth, base, seq)
<1> DEFINE Is(h) ==
             h = [s \in SUBSET (1 .. n) |-> IF s = {} THEN base ELSE AddWidth(h[s \ {Max(s)}], seq[Max(s)])]
           iter == CHOOSE h : Is(h)
<1>1. ASSUME NEW h
      PROVE  Is(h) <=> Comes(h, "width", seq, n, base)
  BY DEF Comes, Read
<1>2. Comes(iter, "width", seq, n, base)
  <2> HIDE DEF Is
  <2>1. \E h : Is(h)
    BY <1>1, SetsCome
  <2> QED
    BY <2>1, <1>1
<1>3. iter[1 .. n] = FoldLeft(AddWidth, base, seq)
  BY DEF FoldLeft, MapThenFoldSet, iter, Is
<1>4. \E run : Goes(run, "width", seq, n, base) /\ run[n] = iter[1 .. n]
  <2> HIDE DEF iter, Is
  <2> QED
    BY <1>2, SetsGo
<1> HIDE DEF iter, Is
<1> QED
  BY <1>3, <1>4

LEMMA LanesGo ==
  ASSUME NEW seq, NEW n \in Nat, DOMAIN seq = 1 .. n, NEW base
  PROVE  \E run : Goes(run, "lane", seq, n, base) /\ run[n] = FoldLeft(read_lane, base, seq)
<1> DEFINE Is(h) ==
             h = [s \in SUBSET (1 .. n) |-> IF s = {} THEN base ELSE read_lane(h[s \ {Max(s)}], seq[Max(s)])]
           iter == CHOOSE h : Is(h)
<1>1. ASSUME NEW h
      PROVE  Is(h) <=> Comes(h, "lane", seq, n, base)
  BY DEF Comes, Read
<1>2. Comes(iter, "lane", seq, n, base)
  <2> HIDE DEF Is
  <2>1. \E h : Is(h)
    BY <1>1, SetsCome
  <2> QED
    BY <2>1, <1>1
<1>3. iter[1 .. n] = FoldLeft(read_lane, base, seq)
  BY DEF FoldLeft, MapThenFoldSet, iter, Is
<1>4. \E run : Goes(run, "lane", seq, n, base) /\ run[n] = iter[1 .. n]
  <2> HIDE DEF iter, Is
  <2> QED
    BY <1>2, SetsGo
<1> HIDE DEF iter, Is
<1> QED
  BY <1>3, <1>4

LEMMA GroupsGo ==
  ASSUME NEW seq, NEW n \in Nat, DOMAIN seq = 1 .. n, NEW base
  PROVE  \E run : Goes(run, "group", seq, n, base) /\ run[n] = FoldLeft(read_lane_group, base, seq)
<1> DEFINE Is(h) ==
             h = [s \in SUBSET (1 .. n) |-> IF s = {} THEN base ELSE read_lane_group(h[s \ {Max(s)}], seq[Max(s)])]
           iter == CHOOSE h : Is(h)
<1>1. ASSUME NEW h
      PROVE  Is(h) <=> Comes(h, "group", seq, n, base)
  BY DEF Comes, Read
<1>2. Comes(iter, "group", seq, n, base)
  <2> HIDE DEF Is
  <2>1. \E h : Is(h)
    BY <1>1, SetsCome
  <2> QED
    BY <2>1, <1>1
<1>3. iter[1 .. n] = FoldLeft(read_lane_group, base, seq)
  BY DEF FoldLeft, MapThenFoldSet, iter, Is
<1>4. \E run : Goes(run, "group", seq, n, base) /\ run[n] = iter[1 .. n]
  <2> HIDE DEF iter, Is
  <2> QED
    BY <1>2, SetsGo
<1> HIDE DEF iter, Is
<1> QED
  BY <1>3, <1>4

LEMMA SectionsGo ==
  ASSUME NEW seq, NEW n \in Nat, DOMAIN seq = 1 .. n, NEW base
  PROVE  \E run : Goes(run, "section", seq, n, base) /\ run[n] = FoldLeft(AddSection, base, seq)
<1> DEFINE Is(h) ==
             h = [s \in SUBSET (1 .. n) |-> IF s = {} THEN base ELSE AddSection(h[s \ {Max(s)}], seq[Max(s)])]
           iter == CHOOSE h : Is(h)
<1>1. ASSUME NEW h
      PROVE  Is(h) <=> Comes(h, "section", seq, n, base)
  BY DEF Comes, Read
<1>2. Comes(iter, "section", seq, n, base)
  <2> HIDE DEF Is
  <2>1. \E h : Is(h)
    BY <1>1, SetsCome
  <2> QED
    BY <2>1, <1>1
<1>3. iter[1 .. n] = FoldLeft(AddSection, base, seq)
  BY DEF FoldLeft, MapThenFoldSet, iter, Is
<1>4. \E run : Goes(run, "section", seq, n, base) /\ run[n] = iter[1 .. n]
  <2> HIDE DEF iter, Is
  <2> QED
    BY <1>2, SetsGo
<1> HIDE DEF iter, Is
<1> QED
  BY <1>3, <1>4

LEMMA RoadsGo ==
  ASSUME NEW seq, NEW n \in Nat, DOMAIN seq = 1 .. n, NEW base
  PROVE  \E run : Goes(run, "road", seq, n, base) /\ run[n] = FoldLeft(read_road, base, seq)
<1> DEFINE Is(h) ==
             h = [s \in SUBSET (1 .. n) |-> IF s = {} THEN base ELSE read_road(h[s \ {Max(s)}], seq[Max(s)])]
           iter == CHOOSE h : Is(h)
<1>1. ASSUME NEW h
      PROVE  Is(h) <=> Comes(h, "road", seq, n, base)
  BY DEF Comes, Read
<1>2. Comes(iter, "road", seq, n, base)
  <2> HIDE DEF Is
  <2>1. \E h : Is(h)
    BY <1>1, SetsCome
  <2> QED
    BY <2>1, <1>1
<1>3. iter[1 .. n] = FoldLeft(read_road, base, seq)
  BY DEF FoldLeft, MapThenFoldSet, iter, Is
<1>4. \E run : Goes(run, "road", seq, n, base) /\ run[n] = iter[1 .. n]
  <2> HIDE DEF iter, Is
  <2> QED
    BY <1>2, SetsGo
<1> HIDE DEF iter, Is
<1> QED
  BY <1>3, <1>4

LEMMA JunctionsGo ==
  ASSUME NEW seq, NEW n \in Nat, DOMAIN seq = 1 .. n, NEW base
  PROVE  \E run : Goes(run, "junction", seq, n, base) /\ run[n] = FoldLeft(read_junction, base, seq)
<1> DEFINE Is(h) ==
             h = [s \in SUBSET (1 .. n) |-> IF s = {} THEN base ELSE read_junction(h[s \ {Max(s)}], seq[Max(s)])]
           iter == CHOOSE h : Is(h)
<1>1. ASSUME NEW h
      PROVE  Is(h) <=> Comes(h, "junction", seq, n, base)
  BY DEF Comes, Read
<1>2. Comes(iter, "junction", seq, n, base)
  <2> HIDE DEF Is
  <2>1. \E h : Is(h)
    BY <1>1, SetsCome
  <2> QED
    BY <2>1, <1>1
<1>3. iter[1 .. n] = FoldLeft(read_junction, base, seq)
  BY DEF FoldLeft, MapThenFoldSet, iter, Is
<1>4. \E run : Goes(run, "junction", seq, n, base) /\ run[n] = iter[1 .. n]
  <2> HIDE DEF iter, Is
  <2> QED
    BY <1>2, SetsGo
<1> HIDE DEF iter, Is
<1> QED
  BY <1>3, <1>4

\* What the parts that a reader collects have found is what they have found together.
LEMMA Silent ==
  ASSUME NEW found \in Findings
  PROVE  (found = <<>>) <=> Free(found, Finding)
<1>1. found \in Seq(Finding) /\ Len(found) \in Nat
  BY DEF Findings
<1>2. found = <<>> <=> Len(found) = 0
  BY <1>1
<1>3. \A i \in 1 .. Len(found) : found[i] \in Finding
  BY <1>1
<1>4. Len(found) # 0 => 1 \in 1 .. Len(found)
  BY <1>1
<1>5. Len(found) = 0 => 1 .. Len(found) = {}
  OBVIOUS
<1> QED
  BY <1>2, <1>3, <1>4, <1>5 DEF Free

LEMMA BothFound ==
  ASSUME NEW a \in Findings, NEW b \in Findings
  PROVE  /\ a \o b \in Findings
         /\ a \o b = <<>> <=> a = <<>> /\ b = <<>>
         /\ has_errors(a \o b) <=> has_errors(a) \/ has_errors(b)
<1>1. a \o b \in Findings /\ \A kind : Free(a \o b, kind) <=> Free(a, kind) /\ Free(b, kind)
  BY FreeOfBoth
<1>2. Faultless(a \o b) <=> Faultless(a) /\ Faultless(b)
  BY <1>1 DEF Faultless
<1> QED
  BY <1>1, <1>2, Silent, FaultlessHasNoErrors

LEMMA OfEach ==
  ASSUME NEW seqs, NEW n \in Nat, DOMAIN seqs = 1 .. n, seqs = [i \in 1 .. n |-> seqs[i]],
         \A i \in 1 .. n : seqs[i] \in Findings
  PROVE  /\ FlattenSeq(seqs) \in Findings
         /\ FlattenSeq(seqs) = <<>> <=> \A i \in 1 .. n : seqs[i] = <<>>
         /\ has_errors(FlattenSeq(seqs)) <=> \E i \in 1 .. n : has_errors(seqs[i])
<1>1. /\ FlattenSeq(seqs) \in Findings
      /\ \A kind : Free(FlattenSeq(seqs), kind) <=> \A i \in 1 .. n : Free(seqs[i], kind)
  BY Flattened
<1>2. Faultless(FlattenSeq(seqs)) <=> \A i \in 1 .. n : Faultless(seqs[i])
  BY <1>1 DEF Faultless
<1>3. \A i \in 1 .. n : /\ has_errors(seqs[i]) <=> ~ Faultless(seqs[i])
                        /\ seqs[i] = <<>> <=> Free(seqs[i], Finding)
  BY Silent, FaultlessHasNoErrors
<1> QED
  BY <1>1, <1>2, <1>3, Silent, FaultlessHasNoErrors

\* What a document can be found to have.
Faulty == {"ParseError", "ValidationError", "InvalidArgument"}
Odd == {"UnsupportedFeature", "DeprecatedFeature", "ValidationError"}
LEMMA Ones ==
  /\ <<>> \in Findings /\ ~ has_errors(<<>>)
  /\ \A code \in Faulty :
       <<Error(code)>> \in Findings /\ <<Error(code)>> # <<>> /\ has_errors(<<Error(code)>>)
  /\ \A code \in Odd :
       <<Warning(code)>> \in Findings /\ <<Warning(code)>> # <<>> /\ ~ has_errors(<<Warning(code)>>)
<1>1. Faulty \subseteq Status /\ Odd \subseteq Status \ {"SemanticError"}
  BY DEF Faulty, Odd, Status
<1>2. <<>> \in Findings /\ ~ has_errors(<<>>)
  BY NothingFound, FaultlessHasNoErrors DEF Faultless
<1>3. \A d : <<d>> # <<>>
  OBVIOUS
<1>4. \A code \in Faulty : <<Error(code)>> \in Findings /\ has_errors(<<Error(code)>>)
  BY <1>1, ErrorFound, FaultlessHasNoErrors
<1>5. \A code \in Odd : <<Warning(code)>> \in Findings /\ ~ has_errors(<<Warning(code)>>)
  BY <1>1, WarningFound, FaultlessHasNoErrors
<1> QED
  BY <1>2, <1>3, <1>4, <1>5

LEMMA OthersFound ==
  ASSUME NEW node, node.unknown \in Nat
  PROVE  unconsumed(node) \in Findings
<1>1. Warning("UnsupportedFeature") \in Finding
  BY DEF Warning, Finding, Diagnostic, Severity, Status
<1> QED
  BY <1>1 DEF unconsumed, Findings

LEMMA RequiredFound ==
  ASSUME NEW node, NEW names, NEW n \in Nat, DOMAIN names = 1 .. n
  PROVE  /\ Required(node, names) \in Findings
         /\ ~ has_errors(Required(node, names)) => \A i \in 1 .. n : node[names[i]] # None
<1> DEFINE seqs == [i \in DOMAIN names |-> When(node[names[i]] = None, Error("ParseError"))]
<1>1. /\ DOMAIN seqs = 1 .. n /\ seqs = [i \in 1 .. n |-> seqs[i]]
      /\ \A i \in 1 .. n : seqs[i] = IF node[names[i]] = None THEN <<Error("ParseError")>> ELSE <<>>
  BY DEF When
<1>2. Required(node, names) = FlattenSeq(seqs)
  BY DEF Required, EachOf
<1> HIDE DEF seqs
<1>3. /\ \A i \in 1 .. n : seqs[i] \in Findings
      /\ \A i \in 1 .. n : has_errors(seqs[i]) <=> node[names[i]] = None
  BY <1>1, Ones DEF Faulty
<1> QED
  BY <1>1, <1>2, <1>3, OfEach

---------------------------------------------------------------------------
(* Reference lines.                                                             *)

LEMMA CurvesFound ==
  ASSUME NEW curve
  PROVE  read_curve(curve) \in Findings
<1>1. CASE curve.name \notin DOMAIN Parameters
  BY <1>1, Ones DEF read_curve, Invalid, When, Faulty
<1>2. CASE curve.name \in DOMAIN Parameters
  <2>1. \E n \in Nat : DOMAIN Parameters[curve.name] = 1 .. n
    <3>1. DOMAIN Parameters = {"line", "arc", "spiral", "poly3", "paramPoly3"}
      BY DEF Parameters
    <3>2. /\ DOMAIN Parameters["line"] = 1 .. 0 /\ DOMAIN Parameters["arc"] = 1 .. 1
          /\ DOMAIN Parameters["spiral"] = 1 .. 2 /\ DOMAIN Parameters["poly3"] = 1 .. 4
          /\ DOMAIN Parameters["paramPoly3"] = 1 .. 8
      BY DEF Parameters
    <3> QED
      BY <1>2, <3>1, <3>2
  <2>2. Required(curve, Parameters[curve.name]) \in Findings
    BY <2>1, RequiredFound
  <2> DEFINE old == When(curve.name = "poly3", Warning("DeprecatedFeature"))
             range == When(curve.name = "paramPoly3" /\ curve.pRange = None, Error("ParseError"))
  <2>3. old \in Findings /\ range \in Findings
    BY Ones DEF When, Faulty, Odd
  <2>4. read_curve(curve) = old \o Required(curve, Parameters[curve.name]) \o range
    BY <1>2 DEF read_curve
  <2> HIDE DEF old, range
  <2> QED
    BY <2>2, <2>3, <2>4, BothFound
<1> QED
  BY <1>1, <1>2

LEMMA GeometriesFound ==
  ASSUME NEW node, {node.s, node.length} \subseteq Optional(Int)
  PROVE  /\ read_geometry(node) \in Findings
         /\ ~ has_errors(read_geometry(node)) => node.s \in Int /\ node.length \in Nat \ {0}
<1> DEFINE missing == Required(node, Coordinates)
           short == Invalid(None \notin {node[c] : c \in Range(Coordinates)} /\ node.length <= 0)
           primitives == read_primitives(node.primitives)
<1>1. /\ missing \in Findings
      /\ ~ has_errors(missing) => \A i \in 1 .. 5 : node[Coordinates[i]] # None
  <2>1. DOMAIN Coordinates = 1 .. 5
    BY DEF Coordinates
  <2> QED
    BY <2>1, RequiredFound
<1>2. short \in Findings /\ (~ has_errors(short) => short = <<>>)
  BY Ones DEF Invalid, When, Faulty
<1>3. primitives \in Findings
  BY CurvesFound, Ones DEF read_primitives, Invalid, When, Faulty
<1>4. read_geometry(node) = missing \o short \o primitives
  BY DEF read_geometry
<1>5. ASSUME ~ has_errors(missing), ~ has_errors(short)
      PROVE  node.s \in Int /\ node.length \in Nat \ {0}
  <2>1. /\ Coordinates[1] = "s" /\ Coordinates[5] = "length" /\ Range(Coordinates) = {Coordinates[i] : i \in 1 .. 5}
    BY DEF Coordinates, Range
  <2>2. \A i \in 1 .. 5 : node[Coordinates[i]] # None
    BY <1>1, <1>5
  <2>3. None \notin {node[c] : c \in Range(Coordinates)}
    BY <2>1, <2>2
  <2>4. ~ (node.length <= 0)
    BY <1>2, <1>5, <2>3, Ones DEF Invalid, When, Faulty
  <2>5. node.s \in Int /\ node.length \in Int
    BY <2>1, <2>2 DEF Optional
  <2> QED
    BY <2>4, <2>5
<1> HIDE DEF missing, short, primitives
<1>6. /\ missing \o short \in Findings
      /\ has_errors(missing \o short) <=> has_errors(missing) \/ has_errors(short)
  BY <1>1, <1>2, BothFound
<1> QED
  BY <1>3, <1>4, <1>5, <1>6, BothFound

\* A line so far, all of it in order: each piece begins where the one before it ends.
Chained(pieces, n, end) ==
  /\ n \in Nat /\ pieces \in Seq(Range(pieces)) /\ Len(pieces) = n /\ end \in Nat
  /\ \A i \in 1 .. n : pieces[i].length \in Nat \ {0} /\ pieces[i].s \in Nat
  /\ n = 0 => end = 0
  /\ n # 0 => pieces[1].s = 0 /\ end = pieces[n].s + pieces[n].length
  /\ \A i \in 1 .. n : i > 1 => pieces[i].s = pieces[i - 1].s + pieces[i - 1].length

LEMMA OneMore ==
  ASSUME NEW seq, seq \in Seq(Range(seq)), NEW x
  PROVE  LET longer == Append(seq, x)
         IN /\ longer \in Seq(Range(longer)) /\ Len(longer) = Len(seq) + 1
            /\ longer[Len(seq) + 1] = x /\ \A i \in 1 .. Len(seq) : longer[i] = seq[i]
<1> DEFINE longer == Append(seq, x)  n == Len(seq)
<1>1. n \in Nat /\ seq \in Seq(Range(seq) \cup {x})
  OBVIOUS
<1>2. /\ longer \in Seq(Range(seq) \cup {x}) /\ DOMAIN longer = 1 .. n + 1 /\ Len(longer) = n + 1
      /\ longer[n + 1] = x /\ \A i \in 1 .. n : longer[i] = seq[i]
  BY <1>1
<1> HIDE DEF longer, n
<1>3. longer = [i \in 1 .. n + 1 |-> longer[i]] /\ \A i \in 1 .. n + 1 : longer[i] \in Range(longer)
  BY <1>2 DEF Range
<1>4. longer \in Seq(Range(longer))
  BY <1>1, <1>2, <1>3
<1> QED
  BY <1>2, <1>4 DEF longer, n

LEMMA PiecesChain ==
  ASSUME NEW pieces, NEW n, NEW end, Chained(pieces, n, end), NEW piece,
         piece.s = end, piece.length \in Nat \ {0}
  PROVE  Chained(Append(pieces, piece), n + 1, end + piece.length)
<1> DEFINE longer == Append(pieces, piece)
<1>1. /\ n \in Nat /\ pieces \in Seq(Range(pieces)) /\ Len(pieces) = n /\ end \in Nat
      /\ DOMAIN pieces = 1 .. n
  BY DEF Chained
<1>2. /\ Len(longer) = n + 1 /\ DOMAIN longer = 1 .. n + 1
      /\ \A i \in 1 .. n : longer[i] = pieces[i]
      /\ longer[n + 1] = piece
  BY <1>1
<1>3. longer \in Seq(Range(longer))
  BY <1>1, OneMore
<1> HIDE DEF longer
<1>4. \A i \in 1 .. n + 1 : i \in 1 .. n \/ i = n + 1
  BY <1>1
<1>5. \A i \in 1 .. n + 1 : longer[i].length \in Nat \ {0} /\ longer[i].s \in Nat
  BY <1>2, <1>4 DEF Chained
<1>6. longer[1].s = 0 /\ end + piece.length = longer[n + 1].s + longer[n + 1].length
  BY <1>1, <1>2 DEF Chained
<1>7. ASSUME NEW i \in 1 .. n + 1, i > 1
      PROVE  longer[i].s = longer[i - 1].s + longer[i - 1].length
  <2>1. CASE i = n + 1
    BY <1>1, <1>2, <1>7, <2>1 DEF Chained
  <2>2. CASE i \in 1 .. n
    <3>1. i - 1 \in 1 .. n
      BY <1>1, <1>7, <2>2
    <3> QED
      BY <1>2, <1>7, <2>2, <3>1 DEF Chained
  <2> QED
    BY <1>4, <2>1, <2>2
<1>8. end + piece.length \in Nat /\ n + 1 \in Nat /\ n + 1 # 0
  BY <1>1
<1>9. Chained(longer, n + 1, end + piece.length)
  BY <1>2, <1>3, <1>5, <1>6, <1>7, <1>8 DEF Chained
<1> QED
  BY <1>9 DEF longer

\* A piece of a chain begins where the lengths of those before it end.
LEMMA ChainsMeasure ==
  ASSUME NEW road, NEW n, NEW end, Chained(road.plan_view, n, end), NEW i \in 1 .. n
  PROVE  start_s(road, i) = road.plan_view[i].s
<1> DEFINE line == road.plan_view  seq == SubSeq(line, 1, i - 1)  m == i - 1
<1>1. /\ n \in Nat /\ line \in Seq(Range(line)) /\ Len(line) = n /\ DOMAIN line = 1 .. n
  BY DEF Chained
<1>2. m \in Nat /\ DOMAIN seq = 1 .. m /\ \A k \in 1 .. m : seq[k] = line[k] /\ k \in 1 .. n
  BY <1>1
<1>3. start_s(road, i) = FoldLeft(LAMBDA sum, piece : sum + piece.length, 0, seq)
  BY DEF start_s
<1> HIDE DEF seq
<1>4. PICK run : /\ Goes(run, "length", seq, m, 0)
                 /\ run[m] = FoldLeft(LAMBDA sum, piece : sum + piece.length, 0, seq)
  BY <1>2, LengthsGo
<1> HIDE DEF line
<1> DEFINE K == {k \in 0 .. m : run[k] = line[k + 1].s}
<1>5. 0 \in K
  <2>1. run[0] = 0
    BY <1>4 DEF Goes
  <2>2. line[0 + 1].s = 0 /\ 0 \in 0 .. m
    BY <1>1, <1>2 DEF Chained, line
  <2> QED
    BY <2>1, <2>2
<1>6. ASSUME NEW k \in 1 .. m, k - 1 \in K
      PROVE  k \in K
  <2>1. run[k] = run[k - 1] + line[k].length
    BY <1>2, <1>4 DEF Goes, Read
  <2>2. run[k - 1] = line[k].s
    BY <1>6, <1>2
  <2>3. k + 1 \in 1 .. n /\ k + 1 > 1 /\ (k + 1) - 1 = k
    BY <1>1, <1>2
  <2>4. line[k + 1].s = line[k].s + line[k].length
    BY <2>3 DEF Chained, line
  <2> QED
    BY <2>1, <2>2, <2>4, <1>2
<1> HIDE DEF K, m
<1>7. m \in K
  BY <1>2, <1>5, <1>6, LastIn
<1>8. run[m] = line[i].s
  BY <1>7 DEF K, m
<1>9. start_s(road, i) = line[i].s
  <2> HIDE DEF m
  <2> QED
    BY <1>3, <1>4, <1>8
<1> QED
  BY <1>9 DEF line

LineSoFar(line, k) ==
  /\ line = [pieces |-> line.pieces, expected_s |-> line.expected_s, ok |-> line.ok, found |-> line.found]
  /\ line.ok \in BOOLEAN /\ line.found \in Findings
  /\ line.ok => Chained(line.pieces, Len(line.pieces), line.expected_s)
  /\ line.found = <<>> => line.ok /\ Len(line.pieces) = k

LEMMA OrderFound ==
  ASSUME NEW line, NEW node
  PROVE  /\ OutOfOrder(line, node) \in Findings
         /\ OutOfOrder(line, node) = <<>> => node.s = line.expected_s
<1> DEFINE back == Invalid(line.pieces # <<>> /\ node.s < line.pieces[Len(line.pieces)].s)
           off == Invalid(node.s # line.expected_s)
<1>1. back \in Findings /\ off \in Findings /\ (off = <<>> => node.s = line.expected_s)
  BY Ones DEF Invalid, When, Faulty
<1>2. OutOfOrder(line, node) = back \o off
  BY DEF OutOfOrder
<1> HIDE DEF back, off
<1> QED
  BY <1>1, <1>2, BothFound

LEMMA PieceAdds ==
  ASSUME NEW line, NEW k \in Nat, LineSoFar(line, k),
         NEW node, {node.s, node.length} \subseteq Optional(Int)
  PROVE  LineSoFar(AddGeometry(line, node), k + 1)
<1> DEFINE order == OutOfOrder(line, node)  faults == read_geometry(node)
           next == AddPiece(line, node, order, faults)
<1>1. order \in Findings /\ (order = <<>> => node.s = line.expected_s)
  BY OrderFound
<1>2. faults \in Findings /\ (~ has_errors(faults) => node.s \in Int /\ node.length \in Nat \ {0})
  BY GeometriesFound
<1> HIDE DEF order, faults
<1>3. /\ line.found \in Findings
      /\ line.found \o faults \in Findings
      /\ line.found \o faults = <<>> <=> line.found = <<>> /\ faults = <<>>
  BY <1>2, BothFound DEF LineSoFar
<1>4. /\ line.found \o faults \o order \in Findings
      /\ line.found \o faults \o order = <<>> <=> line.found = <<>> /\ faults = <<>> /\ order = <<>>
  BY <1>1, <1>3, BothFound
<1>5. CASE has_errors(faults)
  <2>1. next = [line EXCEPT !.ok = FALSE, !.found = @ \o faults]
    BY <1>5 DEF AddPiece
  <2>2. /\ next = [pieces |-> line.pieces, expected_s |-> line.expected_s, ok |-> FALSE,
                   found |-> line.found \o faults]
    BY <2>1 DEF LineSoFar
  <2>3. faults # <<>>
    BY <1>5, Ones
  <2> HIDE DEF next
  <2>4. LineSoFar(next, k + 1)
    BY <1>3, <2>2, <2>3 DEF LineSoFar
  <2> QED
    BY <2>4 DEF next, AddGeometry, order, faults
<1>6. CASE ~ has_errors(faults)
  <2> DEFINE piece == Geometry(node)
  <2>1. piece.s = node.s /\ piece.length = node.length
    BY DEF Geometry
  <2> HIDE DEF piece
  <2>2. next = [pieces |-> Append(line.pieces, piece), expected_s |-> line.expected_s + node.length,
                ok |-> line.ok /\ order = <<>>, found |-> line.found \o faults \o order]
    BY <1>6 DEF AddPiece, piece
  <2> HIDE DEF next
  <2>3. ASSUME line.ok, order = <<>>
        PROVE  Chained(next.pieces, Len(line.pieces) + 1, next.expected_s)
    <3>1. Chained(line.pieces, Len(line.pieces), line.expected_s)
      BY <2>3 DEF LineSoFar
    <3>2. piece.s = line.expected_s /\ piece.length \in Nat \ {0}
      BY <1>1, <1>2, <1>6, <2>1, <2>3
    <3>3. Chained(Append(line.pieces, piece), Len(line.pieces) + 1, line.expected_s + piece.length)
      BY <3>1, <3>2, PiecesChain
    <3> QED
      BY <2>1, <2>2, <3>3
  <2>4. next.ok => line.ok /\ order = <<>>
    BY <2>2
  <2>5. ASSUME next.ok
        PROVE  Len(next.pieces) = Len(line.pieces) + 1
    BY <2>3, <2>4, <2>5 DEF Chained
  <2>6. next.ok => Chained(next.pieces, Len(next.pieces), next.expected_s)
    BY <2>3, <2>4, <2>5
  <2>7. next.found = <<>> => next.ok /\ Len(next.pieces) = k + 1
    <3> SUFFICES ASSUME next.found = <<>>
                 PROVE  next.ok /\ Len(next.pieces) = k + 1
      OBVIOUS
    <3>1. line.found = <<>> /\ order = <<>>
      BY <1>4, <2>2
    <3>2. line.ok /\ Len(line.pieces) = k
      BY <3>1 DEF LineSoFar
    <3>3. next.ok
      BY <2>2, <3>1, <3>2
    <3> QED
      BY <2>5, <3>2, <3>3
  <2>8. /\ next = [pieces |-> next.pieces, expected_s |-> next.expected_s, ok |-> next.ok,
                   found |-> next.found]
        /\ next.ok \in BOOLEAN /\ next.found \in Findings
    BY <1>4, <2>2
  <2>9. LineSoFar(next, k + 1)
    BY <2>6, <2>7, <2>8 DEF LineSoFar
  <2> QED
    BY <2>9 DEF next, AddGeometry, order, faults
<1> QED
  BY <1>5, <1>6

LEMMA LinesRead ==
  ASSUME NEW nodes, Listed(nodes), \A node \in Range(nodes) : {node.s, node.length} \subseteq Optional(Int)
  PROVE  LineSoFar(read_plan_view(nodes), Len(nodes))
<1> DEFINE n == Len(nodes)  base == [pieces |-> <<>>, expected_s |-> 0, ok |-> TRUE, found |-> <<>>]
<1>1. n \in Nat /\ DOMAIN nodes = 1 .. n /\ \A i \in 1 .. n : nodes[i] \in Range(nodes)
  BY DEF Listed
<1>2. LineSoFar(base, 0)
  <2>1. /\ base = [pieces |-> base.pieces, expected_s |-> base.expected_s, ok |-> base.ok, found |-> base.found]
        /\ base.ok = TRUE /\ base.found = <<>> /\ base.pieces = <<>> /\ base.expected_s = 0
    OBVIOUS
  <2>2. Chained(<<>>, 0, 0) /\ Len(<<>>) = 0
    BY DEF Chained
  <2> HIDE DEF base
  <2> QED
    BY <2>1, <2>2, Ones DEF LineSoFar
<1>3. read_plan_view(nodes) = FoldLeft(AddGeometry, base, nodes)
  BY DEF read_plan_view
<1> HIDE DEF base, n
<1>4. PICK run : Goes(run, "geometry", nodes, n, base) /\ run[n] = FoldLeft(AddGeometry, base, nodes)
  BY <1>1, GeometriesGo
<1> DEFINE K == {k \in 0 .. n : LineSoFar(run[k], k)}
<1>5. 0 \in K
  BY <1>1, <1>2, <1>4 DEF Goes
<1>6. ASSUME NEW k \in 1 .. n, k - 1 \in K
      PROVE  k \in K
  <2>1. run[k] = AddGeometry(run[k - 1], nodes[k])
    BY <1>4 DEF Goes, Read
  <2>2. k - 1 \in Nat /\ (k - 1) + 1 = k /\ LineSoFar(run[k - 1], k - 1)
    BY <1>6
  <2>3. LineSoFar(run[k], (k - 1) + 1)
    BY <1>1, <2>1, <2>2, PieceAdds
  <2> QED
    BY <2>2, <2>3
<1> HIDE DEF K
<1>7. n \in K
  BY <1>1, <1>5, <1>6, LastIn
<1> QED
  BY <1>3, <1>4, <1>7 DEF K, n

---------------------------------------------------------------------------
(* Lanes.                                                                       *)

Rising(kept) ==
  /\ kept \in Seq(Range(kept))
  /\ \A i \in 1 .. Len(kept) : kept[i].s_offset \in Nat
  /\ \A i, j \in 1 .. Len(kept) : i < j => kept[i].s_offset < kept[j].s_offset
\* The widths of a lane so far, and all of those written unless there is a finding.
WidthsSoFar(widths, nodes, k) ==
  /\ widths = [kept |-> widths.kept, found |-> widths.found]
  /\ widths.found \in Findings /\ Rising(widths.kept)
  /\ widths.found = <<>> => Len(widths.kept) = k /\ \A i \in 1 .. k : widths.kept[i] = nodes[i]

LEMMA WidthsFound ==
  ASSUME NEW widths, Rising(widths.kept), NEW node, node.s_offset \in Optional(Int)
  PROVE  /\ WidthFindings(widths, node) \in Findings
         /\ WidthFindings(widths, node) = <<>> =>
              node.s_offset \in Nat /\ (widths.kept # <<>> => widths.kept[Len(widths.kept)].s_offset < node.s_offset)
<1>1. DOMAIN WidthParameters = 1 .. 5 /\ WidthParameters[1] = "s_offset"
      /\ Range(WidthParameters) = {WidthParameters[i] : i \in 1 .. 5}
  BY DEF WidthParameters, Range
<1>2. CASE \E name \in Range(WidthParameters) : node[name] = None
  <2>1. /\ Required(node, WidthParameters) \in Findings
        /\ ~ has_errors(Required(node, WidthParameters)) => \A i \in 1 .. 5 : node[WidthParameters[i]] # None
    BY <1>1, RequiredFound
  <2>2. Required(node, WidthParameters) # <<>>
    BY <1>1, <1>2, <2>1, Ones
  <2>3. WidthFindings(widths, node) = Required(node, WidthParameters)
    BY <1>2 DEF WidthFindings
  <2> QED
    BY <2>1, <2>2, <2>3
<1>3. CASE ~ \E name \in Range(WidthParameters) : node[name] = None
  <2>1. WidthFindings(widths, node) = Invalid(node.s_offset <= LastOffset(widths.kept))
    BY <1>3 DEF WidthFindings
  <2>2. node["s_offset"] # None
    BY <1>1, <1>3
  <2>3. node.s_offset \in Int
    BY <2>2 DEF Optional
  <2>4. ASSUME ~ (node.s_offset <= LastOffset(widths.kept))
        PROVE  node.s_offset \in Nat /\ (widths.kept # <<>> => widths.kept[Len(widths.kept)].s_offset < node.s_offset)
    <3>1. CASE widths.kept = <<>>
      BY <2>3, <2>4, <3>1 DEF LastOffset
    <3>2. CASE widths.kept # <<>>
      <4>1. Len(widths.kept) \in 1 .. Len(widths.kept)
        BY <3>2 DEF Rising
      <4>2. widths.kept[Len(widths.kept)].s_offset \in Nat
        BY <4>1 DEF Rising
      <4> QED
        BY <2>3, <2>4, <3>2, <4>2 DEF LastOffset
    <3> QED
      BY <3>1, <3>2
  <2> QED
    BY <2>1, <2>4, Ones DEF Invalid, When, Faulty
<1> QED
  BY <1>2, <1>3

LEMMA WidthAdds ==
  ASSUME NEW widths, NEW nodes, NEW k \in Nat, WidthsSoFar(widths, nodes, k),
         NEW node, node = nodes[k + 1], node.s_offset \in Optional(Int)
  PROVE  WidthsSoFar(AddWidth(widths, node), nodes, k + 1)
<1> DEFINE faults == WidthFindings(widths, node)  kept == widths.kept  longer == Append(kept, node)
<1>1. /\ faults \in Findings
      /\ faults = <<>> =>
           node.s_offset \in Nat /\ (kept # <<>> => kept[Len(kept)].s_offset < node.s_offset)
  BY WidthsFound DEF WidthsSoFar
<1> HIDE DEF faults
<1>2. widths.found \o faults \in Findings /\ (faults # <<>> => widths.found \o faults # <<>>)
  BY <1>1, BothFound DEF WidthsSoFar
<1>3. CASE faults # <<>>
  <2>1. AddWidth(widths, node) = [kept |-> widths.kept, found |-> widths.found \o faults]
    BY <1>3 DEF AddWidth, TakeWidth, faults, WidthsSoFar
  <2> QED
    BY <1>2, <1>3, <2>1 DEF WidthsSoFar
<1>4. CASE faults = <<>>
  <2>1. AddWidth(widths, node) = [kept |-> longer, found |-> widths.found]
    BY <1>4 DEF AddWidth, TakeWidth, faults, WidthsSoFar
  <2>2. kept \in Seq(Range(kept)) /\ Len(kept) \in Nat
    BY DEF WidthsSoFar, Rising
  <2>3. /\ Len(longer) = Len(kept) + 1 /\ longer[Len(kept) + 1] = node
        /\ \A i \in 1 .. Len(kept) : longer[i] = kept[i]
    BY <2>2
  <2>4. longer \in Seq(Range(longer))
    BY <2>2, OneMore
  <2> HIDE DEF longer, kept
  <2>5. \A i \in 1 .. Len(kept) : kept[i].s_offset \in Nat /\ kept[i].s_offset < node.s_offset
    <3> SUFFICES ASSUME NEW i \in 1 .. Len(kept)
                 PROVE  kept[i].s_offset \in Nat /\ kept[i].s_offset < node.s_offset
      OBVIOUS
    <3>1. Len(kept) \in 1 .. Len(kept) /\ kept # <<>>
      BY <2>2
    <3>2. kept[Len(kept)].s_offset < node.s_offset /\ node.s_offset \in Nat
      BY <1>1, <1>4, <3>1
    <3>3. kept[i].s_offset \in Nat /\ kept[Len(kept)].s_offset \in Nat
      BY <3>1 DEF WidthsSoFar, Rising, kept
    <3>4. i < Len(kept) => kept[i].s_offset < kept[Len(kept)].s_offset
      BY <3>1 DEF WidthsSoFar, Rising, kept
    <3> QED
      BY <2>2, <3>2, <3>3, <3>4
  <2>6. \A i \in 1 .. Len(longer) : i \in 1 .. Len(kept) \/ i = Len(kept) + 1
    BY <2>2, <2>3
  <2>7. \A i \in 1 .. Len(longer) : longer[i].s_offset \in Nat
    BY <1>1, <1>4, <2>3, <2>5, <2>6
  <2>8. ASSUME NEW i \in 1 .. Len(longer), NEW j \in 1 .. Len(longer), i < j
        PROVE  longer[i].s_offset < longer[j].s_offset
    <3>1. i \in 1 .. Len(kept)
      BY <2>2, <2>6, <2>8
    <3>2. CASE j = Len(kept) + 1
      BY <2>3, <2>5, <3>1, <3>2
    <3>3. CASE j \in 1 .. Len(kept)
      BY <2>3, <2>8, <3>1, <3>3 DEF WidthsSoFar, Rising, kept
    <3> QED
      BY <2>6, <3>2, <3>3
  <2>9. Rising(longer)
    BY <2>4, <2>7, <2>8 DEF Rising
  <2>10. ASSUME widths.found = <<>>
         PROVE  Len(longer) = k + 1 /\ \A i \in 1 .. k + 1 : longer[i] = nodes[i]
    <3>1. Len(kept) = k /\ \A i \in 1 .. k : kept[i] = nodes[i]
      BY <2>10 DEF WidthsSoFar, kept
    <3> QED
      BY <2>3, <3>1
  <2> QED
    BY <2>1, <2>9, <2>10 DEF WidthsSoFar
<1> QED
  BY <1>3, <1>4

\* Sequences of the same elements are the same.
LEMMA OfTheSame ==
  ASSUME NEW s, s \in Seq(Range(s)), NEW t, t \in Seq(Range(t)),
         Len(s) = Len(t), \A i \in 1 .. Len(t) : s[i] = t[i]
  PROVE  s = t
<1>1. /\ s = [i \in 1 .. Len(s) |-> s[i]] /\ t = [i \in 1 .. Len(t) |-> t[i]]
  OBVIOUS
<1>2. [i \in 1 .. Len(s) |-> s[i]] = [i \in 1 .. Len(t) |-> t[i]]
  OBVIOUS
<1> QED
  BY <1>1, <1>2

LEMMA WidthsRead ==
  ASSUME NEW nodes, Listed(nodes), \A node \in Range(nodes) : node.s_offset \in Optional(Int)
  PROVE  LET widths == FoldLeft(AddWidth, [kept |-> <<>>, found |-> <<>>], nodes)
         IN /\ widths.found \in Findings /\ Rising(widths.kept)
            /\ widths.found = <<>> => widths.kept = nodes
<1> DEFINE n == Len(nodes)  base == [kept |-> <<>>, found |-> <<>>]
<1>1. n \in Nat /\ DOMAIN nodes = 1 .. n /\ \A i \in 1 .. n : nodes[i] \in Range(nodes)
  BY DEF Listed
<1>2. WidthsSoFar(base, nodes, 0)
  <2>1. Rising(<<>>)
    BY DEF Rising
  <2> QED
    BY <2>1, Ones DEF WidthsSoFar
<1> HIDE DEF base, n
<1>3. PICK run : Goes(run, "width", nodes, n, base) /\ run[n] = FoldLeft(AddWidth, base, nodes)
  BY <1>1, WidthsGo
<1> DEFINE K == {k \in 0 .. n : WidthsSoFar(run[k], nodes, k)}
<1>4. 0 \in K
  BY <1>1, <1>2, <1>3 DEF Goes
<1>5. ASSUME NEW k \in 1 .. n, k - 1 \in K
      PROVE  k \in K
  <2>1. run[k] = AddWidth(run[k - 1], nodes[k])
    BY <1>3 DEF Goes, Read
  <2>2. k - 1 \in Nat /\ (k - 1) + 1 = k /\ WidthsSoFar(run[k - 1], nodes, k - 1)
    BY <1>5
  <2>3. WidthsSoFar(run[k], nodes, (k - 1) + 1)
    BY <1>1, <2>1, <2>2, WidthAdds
  <2> QED
    BY <2>2, <2>3
<1> HIDE DEF K
<1>6. n \in K
  BY <1>1, <1>4, <1>5, LastIn
<1>7. WidthsSoFar(run[n], nodes, n)
  BY <1>6 DEF K
<1>8. ASSUME run[n].found = <<>>
      PROVE  run[n].kept = nodes
  <2>1. run[n].kept \in Seq(Range(run[n].kept)) /\ nodes \in Seq(Range(nodes))
    BY <1>7 DEF WidthsSoFar, Rising, Listed
  <2>2. Len(run[n].kept) = Len(nodes) /\ \A i \in 1 .. Len(nodes) : run[n].kept[i] = nodes[i]
    BY <1>7, <1>8 DEF WidthsSoFar, n
  <2> QED
    BY <2>1, <2>2, OfTheSame
<1> QED
  BY <1>3, <1>7, <1>8 DEF WidthsSoFar, base

LEMMA ReferencesFound ==
  ASSUME NEW refs, Listed(refs)
  PROVE  /\ parse_lane_ref(refs).found \in Findings
         /\ parse_lane_ref(refs).found = <<>> => {parse_lane_ref(refs).id} \ {None} = Range(refs)
<1> DEFINE first == SelectInSeq(refs, LAMBDA ref : ref # None)
           seqs == [i \in DOMAIN refs |-> IF refs[i] = None THEN <<Error("ParseError")>>
                                          ELSE When(i # first, Warning("UnsupportedFeature"))]
<1>1. Len(refs) \in Nat /\ DOMAIN refs = 1 .. Len(refs)
  BY DEF Listed
<1>2. /\ parse_lane_ref(refs).found = FlattenSeq(seqs)
      /\ parse_lane_ref(refs).id = IF first = 0 THEN None ELSE refs[first]
  BY DEF parse_lane_ref, FirstOfRefs
<1>3. Len(refs) = 0 => first = 0
  BY DEF SelectInSeq
<1> HIDE DEF first
<1>4. /\ DOMAIN seqs = 1 .. Len(refs) /\ seqs = [i \in 1 .. Len(refs) |-> seqs[i]]
      /\ \A i \in 1 .. Len(refs) : seqs[i] \in Findings
  BY <1>1, Ones DEF When, Faulty, Odd
<1>5. \A i \in 1 .. Len(refs) : seqs[i] = <<>> => refs[i] # None /\ i = first
  BY <1>1 DEF When
<1> HIDE DEF seqs
<1>6. /\ FlattenSeq(seqs) \in Findings
      /\ FlattenSeq(seqs) = <<>> => \A i \in 1 .. Len(refs) : refs[i] # None /\ i = first
  BY <1>1, <1>4, <1>5, OfEach
<1>7. ASSUME FlattenSeq(seqs) = <<>>
      PROVE  {parse_lane_ref(refs).id} \ {None} = Range(refs)
  <2>1. Range(refs) = {refs[i] : i \in 1 .. Len(refs)}
    BY <1>1 DEF Range
  <2>2. CASE Len(refs) = 0
    <3>1. 1 .. Len(refs) = {}
      BY <2>2
    <3> QED
      BY <1>2, <1>3, <2>1, <2>2, <3>1
  <2>3. CASE Len(refs) # 0
    <3>1. 1 \in 1 .. Len(refs)
      BY <1>1, <2>3
    <3>2. first = 1 /\ refs[1] # None /\ \A i \in 1 .. Len(refs) : i = 1
      BY <1>6, <1>7, <3>1
    <3>3. Range(refs) = {refs[1]} /\ parse_lane_ref(refs).id = refs[1]
      BY <1>2, <2>1, <3>1, <3>2
    <3> QED
      BY <3>2, <3>3
  <2> QED
    BY <2>2, <2>3
<1> QED
  BY <1>2, <1>6, <1>7

\* An error is found as well.
LEMMA ErrorAdds ==
  ASSUME NEW found \in Findings
  PROVE  /\ Append(found, Error("ParseError")) \in Findings /\ Append(found, Error("ParseError")) # <<>>
         /\ found \o Invalid(TRUE) \in Findings /\ found \o Invalid(TRUE) # <<>>
         /\ found \o <<Error("ParseError")>> \in Findings /\ found \o <<Error("ParseError")>> # <<>>
<1>1. /\ <<Error("ParseError")>> \in Findings /\ <<Error("ParseError")>> # <<>>
      /\ Invalid(TRUE) \in Findings /\ Invalid(TRUE) # <<>>
  BY Ones DEF Invalid, When, Faulty
<1>2. Append(found, Error("ParseError")) = found \o <<Error("ParseError")>>
  BY DEF Findings
<1>3. found \o Invalid(TRUE) \in Findings /\ found \o Invalid(TRUE) # <<>>
  BY <1>1, BothFound
<1>4. found \o <<Error("ParseError")>> \in Findings /\ found \o <<Error("ParseError")>> # <<>>
  BY <1>1, BothFound
<1> QED
  BY <1>2, <1>3, <1>4

\* What the queries rely on of a lane.
Fits(l, lane) ==
  LET widths == lane.widths
  IN /\ Ascending([k \in DOMAIN widths |-> widths[k].s_offset])
     /\ IF l = 0 THEN widths = <<>> ELSE widths # <<>> /\ widths[1].s_offset = 0

LEMMA LanesFitWhole ==
  ASSUME NEW l, NEW lane, Rising(lane.widths), ~ MisfitWidths(l, lane.widths)
  PROVE  Fits(l, lane)
<1> DEFINE widths == lane.widths
<1>1. DOMAIN widths = 1 .. Len(widths) /\ Len(widths) \in Nat /\ widths \in Seq(Range(widths))
  BY DEF Rising
<1>2. Ascending([k \in DOMAIN widths |-> widths[k].s_offset])
  BY <1>1 DEF Ascending, Rising
<1>3. CASE l = 0
  BY <1>2, <1>3 DEF MisfitWidths, Fits
<1>4. CASE l # 0
  <2>1. widths # <<>> /\ ~ (widths[1].s_offset > 0)
    BY <1>4 DEF MisfitWidths
  <2>2. 1 \in 1 .. Len(widths)
    BY <1>1, <2>1
  <2>3. widths[1].s_offset \in Nat
    BY <2>2 DEF Rising
  <2>4. widths[1].s_offset = 0
    BY <2>1, <2>3
  <2> QED
    BY <1>2, <1>4, <2>1, <2>4 DEF Fits
<1> QED
  BY <1>3, <1>4

\* The lanes of the places in W, those excepted that a later place of W replaces.
Held(lanes, groups, W) ==
  /\ DOMAIN lanes = {LaneNode(groups, q).id : q \in W}
  /\ \A q \in W :
       \/ \E r \in W : Precedes(q, r) /\ LaneNode(groups, r).id = LaneNode(groups, q).id
       \/ WholeLane(lanes[LaneNode(groups, q).id], LaneNode(groups, q))

\* A lane that is stored takes the place of one of its id, and leaves the others.
LEMMA LanesHold ==
  ASSUME NEW lanes, NEW groups, NEW W, Held(lanes, groups, W),
         NEW p, \A q \in W : Precedes(q, p), NEW lane, WholeLane(lane, LaneNode(groups, p))
  PROVE  Held(Stored(lanes, LaneNode(groups, p).id, lane), groups, W \cup {p})
<1> DEFINE id(q) == LaneNode(groups, q).id  next == Stored(lanes, id(p), lane)
<1>1. /\ DOMAIN next = DOMAIN lanes \cup {id(p)} /\ next[id(p)] = lane
      /\ \A l \in DOMAIN lanes : l # id(p) => next[l] = lanes[l]
  BY DEF Stored
<1>2. DOMAIN next = {id(q) : q \in W \cup {p}}
  BY <1>1 DEF Held
<1>3. ASSUME NEW q \in W \cup {p}
      PROVE  \/ \E r \in W \cup {p} : Precedes(q, r) /\ id(r) = id(q)
             \/ WholeLane(next[id(q)], LaneNode(groups, q))
  <2> HIDE DEF next
  <2>1. CASE q = p
    BY <1>1, <2>1
  <2>2. CASE q \in W /\ id(q) = id(p)
    BY <2>2
  <2>3. CASE q \in W /\ id(q) # id(p)
    <3>1. id(q) \in DOMAIN lanes
      BY <2>3 DEF Held
    <3>2. next[id(q)] = lanes[id(q)]
      BY <1>1, <2>3, <3>1
    <3> QED
      BY <2>3, <3>2 DEF Held
  <2> QED
    BY <2>1, <2>2, <2>3
<1> QED
  BY <1>2, <1>3 DEF Held

\* The lanes of a section so far, and those of some places of it unless there is a
\* finding.
LanesSoFar(lanes, groups, W) ==
  /\ lanes = [lanes |-> lanes.lanes, found |-> lanes.found]
  /\ lanes.found \in Findings
  /\ \A l \in DOMAIN lanes.lanes : Fits(l, lanes.lanes[l])
  /\ lanes.found = <<>> => Held(lanes.lanes, groups, W)

LEMMA LaneAdds ==
  ASSUME NEW lanes, NEW groups, NEW W, LanesSoFar(lanes, groups, W), NEW p, \A q \in W : Precedes(q, p),
         NEW node, node = LaneNode(groups, p), WrittenLane(node)
  PROVE  LanesSoFar(read_lane(lanes, node), groups, W \cup {p})
<1>1. CASE node.id = None
  <2> DEFINE next == [lanes |-> lanes.lanes, found |-> Append(lanes.found, Error("ParseError"))]
  <2>1. read_lane(lanes, node) = next
    BY <1>1 DEF read_lane, LanesSoFar
  <2>2. /\ next = [lanes |-> next.lanes, found |-> next.found] /\ next.lanes = lanes.lanes
        /\ next.found = Append(lanes.found, Error("ParseError"))
    OBVIOUS
  <2>3. next.found \in Findings /\ next.found # <<>>
    BY <2>2, ErrorAdds DEF LanesSoFar
  <2> HIDE DEF next
  <2> QED
    BY <2>1, <2>2, <2>3 DEF LanesSoFar
<1>2. CASE node.id # None
  <2> DEFINE before == parse_lane_ref(node.predecessor)  after == parse_lane_ref(node.successor)
             widths == FoldLeft(AddWidth, [kept |-> <<>>, found |-> <<>>], node.widths)
             misfit == MisfitWidths(node.id, widths.kept)
             next == TakeLane(lanes, node, before, after, widths, misfit)
             lane == [type |-> node.type, widths |-> widths.kept,
                      predecessor |-> before.id, successor |-> after.id]
  <2>1. read_lane(lanes, node) = next
    BY <1>2 DEF read_lane, LaneWithWidths
  <2>2. /\ widths.found \in Findings /\ Rising(widths.kept)
        /\ widths.found = <<>> => widths.kept = node.widths
    BY WidthsRead DEF WrittenLane
  <2>3. /\ unconsumed(node) \in Findings /\ before.found \in Findings /\ after.found \in Findings
        /\ before.found = <<>> => {before.id} \ {None} = Range(node.predecessor)
        /\ after.found = <<>> => {after.id} \ {None} = Range(node.successor)
    BY OthersFound, ReferencesFound DEF WrittenLane
  <2>4. Invalid(misfit) \in Findings /\ (Invalid(misfit) = <<>> => ~ misfit)
    BY Ones DEF Invalid, When, Faulty
  <2>5. /\ next = [lanes |-> next.lanes, found |-> next.found]
        /\ next.lanes = IF misfit THEN lanes.lanes ELSE Stored(lanes.lanes, node.id, lane)
        /\ next.found = lanes.found \o unconsumed(node) \o before.found \o after.found
                          \o widths.found \o Invalid(misfit)
    BY DEF TakeLane
  <2>6. /\ lane.widths = widths.kept /\ lane.type = node.type
        /\ lane.predecessor = before.id /\ lane.successor = after.id
    OBVIOUS
  <2>7. ~ misfit => Fits(node.id, lane)
    BY <2>2, <2>6, LanesFitWhole
  <2> HIDE DEF before, after, widths, misfit, next, lane
  <2>8. /\ next.found \in Findings
        /\ next.found = <<>> => /\ lanes.found = <<>> /\ before.found = <<>> /\ after.found = <<>>
                                /\ widths.found = <<>> /\ ~ misfit
    <3>1. lanes.found \in Findings
      BY DEF LanesSoFar
    <3> DEFINE f1 == lanes.found \o unconsumed(node)
               f2 == f1 \o before.found
               f3 == f2 \o after.found
               f4 == f3 \o widths.found
    <3>2. f1 \in Findings /\ (f1 = <<>> => lanes.found = <<>>)
      BY <2>3, <3>1, BothFound
    <3> HIDE DEF f1
    <3>3. f2 \in Findings /\ (f2 = <<>> => f1 = <<>> /\ before.found = <<>>)
      BY <2>3, <3>2, BothFound
    <3> HIDE DEF f2
    <3>4. f3 \in Findings /\ (f3 = <<>> => f2 = <<>> /\ after.found = <<>>)
      BY <2>3, <3>3, BothFound
    <3> HIDE DEF f3
    <3>5. f4 \in Findings /\ (f4 = <<>> => f3 = <<>> /\ widths.found = <<>>)
      BY <2>2, <3>4, BothFound
    <3> HIDE DEF f4
    <3>6. f4 \o Invalid(misfit) \in Findings /\ (f4 \o Invalid(misfit) = <<>> => f4 = <<>> /\ Invalid(misfit) = <<>>)
      BY <2>4, <3>5, BothFound
    <3>7. next.found = f4 \o Invalid(misfit)
      BY <2>5 DEF f4, f3, f2, f1
    <3> QED
      BY <2>4, <3>2, <3>3, <3>4, <3>5, <3>6, <3>7
  <2>9. ASSUME ~ misfit
        PROVE  /\ DOMAIN next.lanes = DOMAIN lanes.lanes \cup {node.id}
               /\ \A l \in DOMAIN next.lanes : Fits(l, next.lanes[l])
    <3>1. next.lanes = Stored(lanes.lanes, node.id, lane)
      BY <2>5, <2>9
    <3>2. /\ DOMAIN next.lanes = DOMAIN lanes.lanes \cup {node.id}
          /\ next.lanes[node.id] = lane
          /\ \A l \in DOMAIN lanes.lanes : l # node.id => next.lanes[l] = lanes.lanes[l]
      BY <3>1 DEF Stored
    <3> QED
      BY <2>7, <2>9, <3>2 DEF LanesSoFar
  <2>10. CASE misfit
    BY <2>1, <2>5, <2>8, <2>10 DEF LanesSoFar
  <2>11. CASE ~ misfit
    <3>1. ASSUME next.found = <<>>
          PROVE  Held(next.lanes, groups, W \cup {p})
      <4>1. WholeLane(lane, node)
        BY <2>2, <2>3, <2>6, <2>8, <3>1 DEF WholeLane
      <4>2. Held(lanes.lanes, groups, W)
        BY <2>8, <3>1 DEF LanesSoFar
      <4>3. Held(Stored(lanes.lanes, node.id, lane), groups, W \cup {p})
        BY <4>1, <4>2, LanesHold
      <4> QED
        BY <2>5, <2>11, <4>3
    <3> QED
      BY <2>1, <2>5, <2>8, <2>9, <2>11, <3>1 DEF LanesSoFar
  <2> QED
    BY <2>10, <2>11
<1> QED
  BY <1>1, <1>2

LEMMA GroupAdds ==
  ASSUME NEW lanes, NEW groups, NEW W, LanesSoFar(lanes, groups, W),
         NEW g \in Nat, \A q \in W : q[1] < g,
         NEW group, group = groups[g], Listed(group), \A node \in Range(group) : WrittenLane(node)
  PROVE  LanesSoFar(read_lane_group(lanes, group), groups, W \cup {<<g, i>> : i \in DOMAIN group})
<1> DEFINE n == Len(group)  upto(k) == W \cup {<<g, i>> : i \in 1 .. k}
<1>1. n \in Nat /\ DOMAIN group = 1 .. n /\ \A i \in 1 .. n : group[i] \in Range(group)
  BY DEF Listed
<1>2. /\ upto(0) = W
      /\ \A k \in 1 .. n : /\ upto(k) = upto(k - 1) \cup {<<g, k>>}
                             /\ \A q \in upto(k - 1) : Precedes(q, <<g, k>>)
  <2>1. 1 .. 0 = {}
    OBVIOUS
  <2>2. \A k \in 1 .. n : 1 .. k = (1 .. k - 1) \cup {k}
    BY <1>1
  <2>3. upto(0) = W
    BY <2>1
  <2>4. ASSUME NEW k \in 1 .. n
        PROVE  upto(k) = upto(k - 1) \cup {<<g, k>>}
    BY <2>2
  <2>5. ASSUME NEW k \in 1 .. n, NEW q \in upto(k - 1)
        PROVE  Precedes(q, <<g, k>>)
    <3>1. CASE q \in W
      BY <3>1 DEF Precedes
    <3>2. CASE q \in {<<g, i>> : i \in 1 .. k - 1}
      <4>1. PICK i \in 1 .. k - 1 : q = <<g, i>>
        BY <3>2
      <4>2. q[1] = g /\ q[2] = i /\ <<g, k>>[1] = g /\ <<g, k>>[2] = k
        BY <4>1
      <4> QED
        BY <1>1, <4>2 DEF Precedes
    <3> QED
      BY <2>5, <3>1, <3>2
  <2> QED
    BY <2>3, <2>4, <2>5
<1> HIDE DEF n, upto
<1>3. PICK run : Goes(run, "lane", group, n, lanes) /\ run[n] = FoldLeft(read_lane, lanes, group)
  BY <1>1, LanesGo
<1> DEFINE K == {k \in 0 .. n : LanesSoFar(run[k], groups, upto(k))}
<1>4. 0 \in K
  <2>1. run[0] = lanes /\ upto(0) = W /\ 0 \in 0 .. n
    BY <1>1, <1>2, <1>3 DEF Goes
  <2> QED
    BY <2>1
<1>5. ASSUME NEW k \in 1 .. n, k - 1 \in K
      PROVE  k \in K
  <2>1. run[k] = read_lane(run[k - 1], group[k])
    BY <1>3 DEF Goes, Read
  <2>2. group[k] = LaneNode(groups, <<g, k>>) /\ WrittenLane(group[k])
    BY <1>1 DEF LaneNode
  <2>3. LanesSoFar(run[k], groups, upto(k - 1) \cup {<<g, k>>})
    BY <1>2, <1>5, <2>1, <2>2, LaneAdds
  <2>4. upto(k - 1) \cup {<<g, k>>} = upto(k)
    BY <1>2
  <2>5. k \in 0 .. n
    BY <1>1
  <2> HIDE DEF K
  <2>6. LanesSoFar(run[k], groups, upto(k))
    BY <2>3, <2>4
  <2> QED
    BY <2>5, <2>6 DEF K
<1> HIDE DEF K
<1>6. n \in K
  BY <1>1, <1>4, <1>5, LastIn
<1>7. LanesSoFar(run[n], groups, W \cup {<<g, i>> : i \in DOMAIN group})
  BY <1>1, <1>6 DEF K, upto
<1> QED
  BY <1>3, <1>7 DEF read_lane_group

LEMMA GroupsRead ==
  ASSUME NEW groups, Listed(groups), \A group \in Range(groups) : Listed(group),
         \A node \in UNION {Range(group) : group \in Range(groups)} : WrittenLane(node)
  PROVE  LanesSoFar(FoldLeft(read_lane_group, [lanes |-> <<>>, found |-> <<>>], groups),
                    groups, LanePlaces(groups))
<1> DEFINE n == Len(groups)  upto(k) == UNION {{<<g, i>> : i \in DOMAIN groups[g]} : g \in 1 .. k}
           base == [lanes |-> <<>>, found |-> <<>>]
<1>1. n \in Nat /\ DOMAIN groups = 1 .. n /\ \A i \in 1 .. n : groups[i] \in Range(groups)
  BY DEF Listed
<1>2. LanePlaces(groups) = upto(n)
  BY <1>1 DEF LanePlaces
<1>3. /\ upto(0) = {}
      /\ \A k \in 1 .. n : /\ upto(k) = upto(k - 1) \cup {<<k, i>> : i \in DOMAIN groups[k]}
                             /\ \A q \in upto(k - 1) : q[1] < k
  <2>1. 1 .. 0 = {}
    OBVIOUS
  <2>2. \A k \in 1 .. n : 1 .. k = (1 .. k - 1) \cup {k}
    BY <1>1
  <2>3. upto(0) = {}
    BY <2>1
  <2>4. ASSUME NEW k \in 1 .. n
        PROVE  upto(k) = upto(k - 1) \cup {<<k, i>> : i \in DOMAIN groups[k]}
    BY <2>2
  <2>5. ASSUME NEW k \in 1 .. n, NEW q \in upto(k - 1)
        PROVE  q[1] < k
    <3>1. PICK g \in 1 .. k - 1 : q \in {<<g, i>> : i \in DOMAIN groups[g]}
      BY <2>5
    <3>2. q[1] = g
      BY <3>1
    <3> QED
      BY <1>1, <3>2
  <2> QED
    BY <2>3, <2>4, <2>5
<1>4. LanesSoFar(base, groups, {})
  <2>1. base = [lanes |-> base.lanes, found |-> base.found] /\ base.found = <<>> /\ base.lanes = <<>>
    OBVIOUS
  <2>2. DOMAIN <<>> = {}
    OBVIOUS
  <2>3. Held(<<>>, groups, {})
    BY <2>2 DEF Held
  <2> HIDE DEF base
  <2> QED
    BY <2>1, <2>2, <2>3, Ones DEF LanesSoFar
<1> HIDE DEF n, upto, base
<1>5. PICK run : Goes(run, "group", groups, n, base) /\ run[n] = FoldLeft(read_lane_group, base, groups)
  BY <1>1, GroupsGo
<1> DEFINE K == {k \in 0 .. n : LanesSoFar(run[k], groups, upto(k))}
<1>6. 0 \in K
  <2>1. run[0] = base /\ upto(0) = {} /\ 0 \in 0 .. n
    BY <1>1, <1>3, <1>5 DEF Goes
  <2> QED
    BY <1>4, <2>1
<1>7. ASSUME NEW k \in 1 .. n, k - 1 \in K
      PROVE  k \in K
  <2>1. run[k] = read_lane_group(run[k - 1], groups[k])
    BY <1>5 DEF Goes, Read
  <2>2. k \in Nat /\ Listed(groups[k]) /\ \A node \in Range(groups[k]) : WrittenLane(node)
    BY <1>1
  <2>3. LanesSoFar(run[k], groups, upto(k - 1) \cup {<<k, i>> : i \in DOMAIN groups[k]})
    BY <1>3, <1>7, <2>1, <2>2, GroupAdds
  <2>4. upto(k - 1) \cup {<<k, i>> : i \in DOMAIN groups[k]} = upto(k)
    BY <1>3
  <2>5. k \in 0 .. n
    BY <1>1
  <2> HIDE DEF K
  <2>6. LanesSoFar(run[k], groups, upto(k))
    BY <2>3, <2>4
  <2> QED
    BY <2>5, <2>6 DEF K
<1> HIDE DEF K
<1>8. n \in K
  BY <1>1, <1>6, <1>7, LastIn
<1> QED
  BY <1>2, <1>5, <1>8 DEF K, base

---------------------------------------------------------------------------
(* Sections.                                                                    *)

\* What the queries rely on of the sections of a road, and all of those written.
Sectioned(sections) ==
  /\ sections \in Seq(Range(sections))
  /\ \A i \in 1 .. Len(sections) :
       /\ sections[i].s \in Int
       /\ \A l \in DOMAIN sections[i].lanes : Fits(l, sections[i].lanes[l])
  /\ \A i, j \in 1 .. Len(sections) : i < j => sections[i].s < sections[j].s
Complete(sections, nodes, k) ==
  /\ Len(sections) = k
  /\ \A i \in 1 .. k : WholeSection(sections[i], nodes[i])
SectionsSoFar(road, nodes, k) ==
  /\ road = [sections |-> road.sections, found |-> road.found]
  /\ road.found \in Findings /\ Sectioned(road.sections)
  /\ road.found = <<>> => Complete(road.sections, nodes, k)

LEMMA SectionsExtend ==
  ASSUME NEW sections, Sectioned(sections), NEW section, section.s \in Int,
         \A l \in DOMAIN section.lanes : Fits(l, section.lanes[l]),
         sections # <<>> => sections[Len(sections)].s < section.s
  PROVE  Sectioned(Append(sections, section))
<1> DEFINE longer == Append(sections, section)  n == Len(sections)
<1>1. sections \in Seq(Range(sections)) /\ n \in Nat
  BY DEF Sectioned
<1>2. /\ longer \in Seq(Range(longer)) /\ Len(longer) = n + 1 /\ longer[n + 1] = section
      /\ \A i \in 1 .. n : longer[i] = sections[i]
  BY <1>1, OneMore
<1>3. \A i \in 1 .. n : sections[i].s \in Int /\ sections[i].s < section.s
  <2> SUFFICES ASSUME NEW i \in 1 .. n
               PROVE  sections[i].s \in Int /\ sections[i].s < section.s
    OBVIOUS
  <2>1. n \in 1 .. n /\ sections # <<>>
    BY <1>1
  <2>2. sections[n].s < section.s /\ sections[i].s \in Int /\ sections[n].s \in Int
    BY <2>1 DEF Sectioned
  <2>3. i < n => sections[i].s < sections[n].s
    BY <2>1 DEF Sectioned
  <2> QED
    BY <1>1, <2>2, <2>3
<1> HIDE DEF longer, n
<1>4. \A i \in 1 .. n + 1 : i \in 1 .. n \/ i = n + 1
  BY <1>1
<1>5. ASSUME NEW i \in 1 .. n + 1
      PROVE  /\ longer[i].s \in Int
             /\ \A l \in DOMAIN longer[i].lanes : Fits(l, longer[i].lanes[l])
  <2>1. CASE i \in 1 .. n
    BY <1>2, <2>1 DEF Sectioned, n
  <2>2. CASE i = n + 1
    BY <1>2, <2>2
  <2> QED
    BY <1>4, <2>1, <2>2
<1>6. ASSUME NEW i \in 1 .. n + 1, NEW j \in 1 .. n + 1, i < j
      PROVE  longer[i].s < longer[j].s
  <2>1. i \in 1 .. n
    BY <1>1, <1>6
  <2>2. CASE j = n + 1
    BY <1>2, <1>3, <2>1, <2>2
  <2>3. CASE j \in 1 .. n
    BY <1>2, <1>6, <2>1, <2>3 DEF Sectioned, n
  <2> QED
    BY <1>4, <2>2, <2>3
<1> QED
  BY <1>2, <1>5, <1>6 DEF Sectioned, longer

LEMMA SectionAdds ==
  ASSUME NEW nodes, NEW k \in Nat, NEW road, SectionsSoFar(road, nodes, k),
         NEW node, node = nodes[k + 1], WrittenSection(node)
  PROVE  SectionsSoFar(AddSection(road, node), nodes, k + 1)
<1> DEFINE sections == road.sections  last == sections[Len(sections)]
<1>1. CASE node.s = None
  <2> DEFINE next == [sections |-> sections, found |-> Append(road.found, Error("ParseError"))]
  <2>1. AddSection(road, node) = next
    BY <1>1 DEF AddSection, SectionsSoFar
  <2>2. /\ next = [sections |-> next.sections, found |-> next.found] /\ next.sections = sections
        /\ next.found = Append(road.found, Error("ParseError"))
    OBVIOUS
  <2>3. next.found \in Findings /\ next.found # <<>>
    BY <2>2, ErrorAdds DEF SectionsSoFar
  <2> HIDE DEF next
  <2> QED
    BY <2>1, <2>2, <2>3 DEF SectionsSoFar
<1>2. CASE node.s # None /\ sections # <<>> /\ node.s <= last.s
  <2> DEFINE next == [sections |-> sections, found |-> road.found \o Invalid(TRUE)]
  <2>1. AddSection(road, node) = next
    BY <1>2 DEF AddSection, SectionsSoFar
  <2>2. /\ next = [sections |-> next.sections, found |-> next.found] /\ next.sections = sections
        /\ next.found = road.found \o Invalid(TRUE)
    OBVIOUS
  <2>3. next.found \in Findings /\ next.found # <<>>
    BY <2>2, ErrorAdds DEF SectionsSoFar
  <2> HIDE DEF next
  <2> QED
    BY <2>1, <2>2, <2>3 DEF SectionsSoFar
<1>3. CASE node.s # None /\ ~ (sections # <<>> /\ node.s <= last.s)
  <2> DEFINE read == FoldLeft(read_lane_group, [lanes |-> <<>>, found |-> <<>>], node.groups)
             section == [s |-> node.s, lanes |-> read.lanes]
             next == TakeSection(road, node, read)
  <2>1. AddSection(road, node) = next
    BY <1>3 DEF AddSection
  <2>2. LanesSoFar(read, node.groups, LanePlaces(node.groups))
    BY GroupsRead DEF WrittenSection
  <2>3. section.s = node.s /\ section.lanes = read.lanes
    OBVIOUS
  <2>4. /\ next = [sections |-> Append(sections, section), found |-> road.found \o unconsumed(node) \o read.found]
    BY DEF TakeSection
  <2> HIDE DEF read, section, next
  <2>5. node.s \in Int
    BY <1>3 DEF WrittenSection, Optional
  <2>6. sections # <<>> => last.s < node.s
    <3> SUFFICES ASSUME sections # <<>>
                 PROVE  last.s < node.s
      OBVIOUS
    <3>1. Len(sections) \in 1 .. Len(sections)
      BY DEF SectionsSoFar, Sectioned
    <3>2. last.s \in Int
      BY <3>1 DEF SectionsSoFar, Sectioned
    <3> QED
      BY <1>3, <2>5, <3>2
  <2>7. Sectioned(Append(sections, section))
    <3>1. Sectioned(sections) /\ section.s \in Int /\ \A l \in DOMAIN section.lanes : Fits(l, section.lanes[l])
      BY <2>2, <2>3, <2>5 DEF SectionsSoFar, LanesSoFar
    <3> QED
      BY <2>3, <2>6, <3>1, SectionsExtend
  <2>8. /\ road.found \o unconsumed(node) \o read.found \in Findings
        /\ road.found \o unconsumed(node) \o read.found = <<>> => road.found = <<>> /\ read.found = <<>>
    <3>1. road.found \in Findings /\ unconsumed(node) \in Findings /\ read.found \in Findings
      BY <2>2, OthersFound DEF SectionsSoFar, LanesSoFar, WrittenSection
    <3>2. /\ road.found \o unconsumed(node) \in Findings
          /\ road.found \o unconsumed(node) = <<>> => road.found = <<>>
      BY <3>1, BothFound
    <3> QED
      BY <3>1, <3>2, BothFound
  <2>9. ASSUME road.found = <<>>, read.found = <<>>
        PROVE  Complete(Append(sections, section), nodes, k + 1)
    <3>1. Complete(sections, nodes, k)
      BY <2>9 DEF SectionsSoFar
    <3>2. sections \in Seq(Range(sections)) /\ Len(sections) = k
      BY <3>1 DEF SectionsSoFar, Sectioned, Complete
    <3>3. /\ Len(Append(sections, section)) = k + 1 /\ Append(sections, section)[k + 1] = section
          /\ \A i \in 1 .. k : Append(sections, section)[i] = sections[i]
      BY <3>2, OneMore
    <3>4. WholeSection(section, nodes[k + 1])
      BY <2>2, <2>3, <2>9 DEF LanesSoFar, Held, WholeSection, Replaced
    <3>5. \A i \in 1 .. k + 1 : i \in 1 .. k \/ i = k + 1
      OBVIOUS
    <3> QED
      BY <3>1, <3>3, <3>4, <3>5 DEF Complete
  <2>10. next = [sections |-> next.sections, found |-> next.found]
         /\ next.sections = Append(sections, section) /\ next.found = road.found \o unconsumed(node) \o read.found
    BY <2>4
  <2>11. SectionsSoFar(next, nodes, k + 1)
    BY <2>7, <2>8, <2>9, <2>10 DEF SectionsSoFar
  <2> QED
    BY <2>1, <2>11
<1> QED
  BY <1>1, <1>2, <1>3

LEMMA SectionsRead ==
  ASSUME NEW node, WrittenLanes(node)
  PROVE  /\ SectionsSoFar(read_lanes(node), node.sections, Len(node.sections))
         /\ read_lanes(node).sections # <<>> => read_lanes(node).sections[1].s <= 0
<1> DEFINE nodes == node.sections  n == Len(nodes)
           base == [sections |-> <<>>, found |-> unconsumed(node)]
           read == FoldLeft(AddSection, base, nodes)
<1>1. n \in Nat /\ DOMAIN nodes = 1 .. n /\ \A i \in 1 .. n : nodes[i] \in Range(nodes)
  BY DEF WrittenLanes, Listed
<1>2. SectionsSoFar(base, nodes, 0)
  <2>1. /\ base = [sections |-> base.sections, found |-> base.found]
        /\ base.found = unconsumed(node) /\ base.sections = <<>>
    OBVIOUS
  <2>2. unconsumed(node) \in Findings
    BY OthersFound DEF WrittenLanes
  <2>3. Sectioned(<<>>) /\ Complete(<<>>, nodes, 0)
    BY DEF Sectioned, Complete
  <2> HIDE DEF base, nodes
  <2> QED
    BY <2>1, <2>2, <2>3 DEF SectionsSoFar
<1>3. read_lanes(node) = FromTheStart(read)
  BY DEF read_lanes
<1> HIDE DEF nodes, n, base
<1>4. PICK run : Goes(run, "section", nodes, n, base) /\ run[n] = read
  BY <1>1, SectionsGo
<1> DEFINE K == {k \in 0 .. n : SectionsSoFar(run[k], nodes, k)}
<1>5. 0 \in K
  BY <1>1, <1>2, <1>4 DEF Goes
<1>6. ASSUME NEW k \in 1 .. n, k - 1 \in K
      PROVE  k \in K
  <2>1. run[k] = AddSection(run[k - 1], nodes[k])
    BY <1>4 DEF Goes, Read
  <2>2. k - 1 \in Nat /\ (k - 1) + 1 = k /\ SectionsSoFar(run[k - 1], nodes, k - 1)
    BY <1>6
  <2>3. WrittenSection(nodes[k])
    BY <1>1 DEF WrittenLanes, nodes
  <2>4. SectionsSoFar(run[k], nodes, (k - 1) + 1)
    BY <2>1, <2>2, <2>3, SectionAdds
  <2> QED
    BY <2>2, <2>4
<1> HIDE DEF K
<1>7. n \in K
  BY <1>1, <1>5, <1>6, LastIn
<1>8. SectionsSoFar(read, nodes, n)
  BY <1>4, <1>7 DEF K
<1> HIDE DEF read
<1>9. CASE read.sections # <<>> /\ read.sections[1].s <= 0
  BY <1>3, <1>8, <1>9 DEF FromTheStart, nodes, n
<1>10. CASE ~ (read.sections # <<>> /\ read.sections[1].s <= 0)
  <2> DEFINE next == [sections |-> <<>>, found |-> read.found \o Invalid(TRUE)]
  <2>1. FromTheStart(read) = next
    BY <1>10 DEF FromTheStart
  <2>3. read.found \o Invalid(TRUE) \in Findings /\ read.found \o Invalid(TRUE) # <<>>
    BY <1>8, ErrorAdds DEF SectionsSoFar
  <2>4. /\ next = [sections |-> next.sections, found |-> next.found] /\ next.sections = <<>>
        /\ next.found = read.found \o Invalid(TRUE)
    OBVIOUS
  <2>5. Sectioned(<<>>)
    BY DEF Sectioned
  <2> HIDE DEF next
  <2>6. SectionsSoFar(next, nodes, n) /\ next.sections = <<>>
    BY <2>3, <2>4, <2>5 DEF SectionsSoFar
  <2> QED
    BY <1>3, <2>1, <2>6 DEF nodes, n
<1> QED
  BY <1>9, <1>10

---------------------------------------------------------------------------
(* Roads.                                                                       *)

\* A map so far, and what was found on the way.
MapSoFar(map) ==
  /\ map = [roads |-> map.roads, junctions |-> map.junctions, found |-> map.found]
  /\ map.found \in Findings

LEMMA FindingsAdd ==
  ASSUME NEW map, MapSoFar(map), NEW found \in Findings
  PROVE  LET next == With(map, found)
         IN /\ MapSoFar(next) /\ next.roads = map.roads /\ next.junctions = map.junctions
            /\ next.found = <<>> <=> map.found = <<>> /\ found = <<>>
<1> DEFINE next == With(map, found)
<1>1. next = [roads |-> map.roads, junctions |-> map.junctions, found |-> map.found \o found]
  <2> DEFINE roads == map.roads  junctions == map.junctions  sofar == map.found  more == sofar \o found
  <2>1. map = [roads |-> roads, junctions |-> junctions, found |-> sofar]
    BY DEF MapSoFar
  <2>2. next = [map EXCEPT !.found = more]
    BY DEF With
  <2> HIDE DEF roads, junctions, sofar, more, next
  <2>3. next = [roads |-> roads, junctions |-> junctions, found |-> more]
    BY <2>1, <2>2
  <2> QED
    BY <2>3 DEF roads, junctions, sofar, more
<1>2. /\ next = [roads |-> next.roads, junctions |-> next.junctions, found |-> next.found]
      /\ next.roads = map.roads /\ next.junctions = map.junctions /\ next.found = map.found \o found
  BY <1>1
<1>3. map.found \o found \in Findings /\ (map.found \o found = <<>> <=> map.found = <<>> /\ found = <<>>)
  BY BothFound DEF MapSoFar
<1> HIDE DEF next
<1>4. MapSoFar(next)
  BY <1>2, <1>3 DEF MapSoFar
<1> QED
  BY <1>2, <1>3, <1>4 DEF next

LEMMA LinksRead ==
  ASSUME NEW side, side # None => [kind |-> side.kind, element |-> side.element] # None
  PROVE  LET read == read_road_link_side(side)
         IN /\ read.found \in Findings
            /\ read.found = <<>> => (read.link = None) = (side = None)
<1> DEFINE misfit == side # None /\ (\/ side.kind \notin {"road", "junction"} \/ side.element = None
                                     \/ (side.kind = "road" /\ side.contact = None))
           link == [kind |-> side.kind, element |-> side.element]
           read == read_road_link_side(side)
<1>1. Invalid(misfit) \in Findings /\ (Invalid(misfit) = <<>> => ~ misfit)
  BY Ones DEF Invalid, When, Faulty
<1>2. /\ read.link = IF side = None \/ misfit THEN None ELSE link
      /\ read.found = Invalid(misfit)
  BY DEF read_road_link_side
<1>3. side # None => link # None
  OBVIOUS
<1> HIDE DEF misfit, link, read
<1>4. ~ misfit => (read.link = None) = (side = None)
  BY <1>2, <1>3
<1> QED
  BY <1>1, <1>2, <1>4 DEF read

LanesFor(node) ==
  IF node.lanes = None THEN [sections |-> <<>>, found |-> <<>>] ELSE read_lanes(node.lanes)

LEMMA RoadLanesRead ==
  ASSUME NEW node, WrittenRoad(node)
  PROVE  LET lanes == LanesFor(node)
         IN /\ lanes.found \in Findings /\ Sectioned(lanes.sections)
            /\ lanes.sections # <<>> => lanes.sections[1].s <= 0
            /\ lanes.found = <<>> =>
                 IF node.lanes = None THEN lanes.sections = <<>>
                 ELSE Complete(lanes.sections, node.lanes.sections, Len(node.lanes.sections))
<1>1. CASE node.lanes = None
  <2>1. LanesFor(node) = [sections |-> <<>>, found |-> <<>>]
    BY <1>1 DEF LanesFor
  <2>2. LanesFor(node).sections = <<>> /\ LanesFor(node).found = <<>>
    BY <2>1
  <2>3. Sectioned(<<>>)
    BY DEF Sectioned
  <2> QED
    BY <1>1, <2>2, <2>3, Ones
<1>2. CASE node.lanes # None
  <2>1. WrittenLanes(node.lanes) /\ LanesFor(node) = read_lanes(node.lanes)
    BY <1>2 DEF LanesFor, WrittenRoad
  <2>2. /\ SectionsSoFar(read_lanes(node.lanes), node.lanes.sections, Len(node.lanes.sections))
        /\ read_lanes(node.lanes).sections # <<>> => read_lanes(node.lanes).sections[1].s <= 0
    BY <2>1, SectionsRead
  <2> QED
    BY <1>2, <2>1, <2>2 DEF SectionsSoFar
<1> QED
  BY <1>1, <1>2

LEMMA RoadsAnswer ==
  ASSUME NEW road, NEW end, Chained(road.plan_view, Len(road.plan_view), end), road.plan_view # <<>>,
         Sectioned(road.sections), road.sections # <<>> => road.sections[1].s <= 0
  PROVE  Queryable(road)
<1> DEFINE line == road.plan_view  sections == road.sections
<1>1. /\ line \in Seq(Range(line)) /\ DOMAIN line = 1 .. Len(line)
      /\ sections \in Seq(Range(sections)) /\ DOMAIN sections = 1 .. Len(sections) /\ Len(sections) \in Nat
  BY DEF Chained, Sectioned
<1>2. ASSUME NEW i \in DOMAIN line
      PROVE  line[i].length > 0 /\ line[i].s = start_s(road, i)
  <2>1. i \in 1 .. Len(line)
    BY <1>1
  <2>2. start_s(road, i) = line[i].s
    BY <2>1, ChainsMeasure
  <2>3. line[i].length \in Nat \ {0}
    BY <2>1 DEF Chained
  <2> QED
    BY <2>2, <2>3
<1>3. Ascending([i \in DOMAIN sections |-> sections[i].s])
  BY <1>1 DEF Ascending, Sectioned
<1>4. ASSUME NEW i \in DOMAIN sections
      PROVE  sections[1].s <= 0 /\ \A l \in DOMAIN sections[i].lanes : Fits(l, sections[i].lanes[l])
  <2>1. i \in 1 .. Len(sections) /\ sections # <<>>
    BY <1>1
  <2> QED
    BY <2>1 DEF Sectioned
<1> QED
  BY <1>2, <1>3, <1>4 DEF Queryable, Fits

\* The roads so far, and all of those that are written unless there is a finding.
RoadsSoFar(map, nodes, k) ==
  /\ MapSoFar(map) /\ map.junctions = <<>>
  /\ \A id \in DOMAIN map.roads : Queryable(map.roads[id])
  /\ map.found = <<>> => /\ DOMAIN map.roads = {nodes[i].id : i \in 1 .. k}
                         /\ \A i \in 1 .. k : Whole(map.roads[nodes[i].id], nodes[i])

\* A road that is left out leaves a finding.
LEMMA RoadsLeave ==
  ASSUME NEW map, NEW nodes, NEW k \in Nat, RoadsSoFar(map, nodes, k), NEW next, MapSoFar(next),
         next.roads = map.roads, next.junctions = map.junctions, next.found # <<>>
  PROVE  RoadsSoFar(next, nodes, k + 1)
BY DEF RoadsSoFar

LEMMA RoadsEnter ==
  ASSUME NEW map, NEW nodes, NEW k \in Nat, RoadsSoFar(map, nodes, k), NEW node, node = nodes[k + 1],
         NEW road, Queryable(road), node.id \notin DOMAIN map.roads,
         NEW next, MapSoFar(next), next.roads = Stored(map.roads, node.id, road), next.junctions = map.junctions,
         next.found = <<>> => map.found = <<>> /\ Whole(road, node)
  PROVE  RoadsSoFar(next, nodes, k + 1)
<1>1. /\ DOMAIN next.roads = DOMAIN map.roads \cup {node.id} /\ next.roads[node.id] = road
      /\ \A id \in DOMAIN map.roads : next.roads[id] = map.roads[id]
  BY DEF Stored
<1>2. \A id \in DOMAIN next.roads : Queryable(next.roads[id])
  BY <1>1 DEF RoadsSoFar
<1>3. \A i \in 1 .. k + 1 : i \in 1 .. k \/ i = k + 1
  OBVIOUS
<1>4. ASSUME next.found = <<>>
      PROVE  /\ DOMAIN next.roads = {nodes[i].id : i \in 1 .. k + 1}
             /\ \A i \in 1 .. k + 1 : Whole(next.roads[nodes[i].id], nodes[i])
  <2>1. /\ DOMAIN map.roads = {nodes[i].id : i \in 1 .. k}
        /\ \A i \in 1 .. k : Whole(map.roads[nodes[i].id], nodes[i])
    BY <1>4 DEF RoadsSoFar
  <2>2. {nodes[i].id : i \in 1 .. k + 1} = {nodes[i].id : i \in 1 .. k} \cup {nodes[k + 1].id}
    <3>1. 1 .. k + 1 = (1 .. k) \cup {k + 1}
      OBVIOUS
    <3> QED
      BY <3>1
  <2>3. Whole(next.roads[node.id], node)
    BY <1>1, <1>4
  <2>4. \A i \in 1 .. k : Whole(next.roads[nodes[i].id], nodes[i])
    BY <1>1, <2>1
  <2> QED
    BY <1>1, <1>3, <2>1, <2>2, <2>3, <2>4
<1> QED
  BY <1>2, <1>4 DEF RoadsSoFar

LEMMA RoadReads ==
  ASSUME NEW map, NEW nodes, NEW k \in Nat, RoadsSoFar(map, nodes, k),
         NEW node, node = nodes[k + 1], WrittenRoad(node)
  PROVE  RoadsSoFar(read_road(map, node), nodes, k + 1)
<1>0. MapSoFar(map)
  BY DEF RoadsSoFar
<1>1. CASE node.id = None \/ node.length = None
  <2> DEFINE next == With(map, <<Error("ParseError")>>)
  <2>1. read_road(map, node) = next
    BY <1>1 DEF read_road
  <2>2. <<Error("ParseError")>> \in Findings /\ <<Error("ParseError")>> # <<>>
    BY Ones DEF Faulty
  <2> QED
    BY <1>0, <2>1, <2>2, FindingsAdd, RoadsLeave
<1>2. CASE ~ (node.id = None \/ node.length = None)
  <2> DEFINE before == read_road_link_side(node.link.predecessor)
             after == read_road_link_side(node.link.successor)
             lanes == LanesFor(node)
             found == unconsumed(node) \o before.found \o after.found \o lanes.found
             begun == With(map, found)
  <2>1. read_road(map, node) = RoadOf(map, node, before, after, lanes)
    BY <1>2 DEF read_road, LanesFor
  <2>2. /\ before.found \in Findings /\ (before.found = <<>> => (before.link = None) = (node.link.predecessor = None))
        /\ after.found \in Findings /\ (after.found = <<>> => (after.link = None) = (node.link.successor = None))
    BY LinksRead DEF WrittenRoad
  <2>3. /\ lanes.found \in Findings /\ Sectioned(lanes.sections)
        /\ lanes.sections # <<>> => lanes.sections[1].s <= 0
        /\ lanes.found = <<>> =>
             IF node.lanes = None THEN lanes.sections = <<>>
             ELSE Complete(lanes.sections, node.lanes.sections, Len(node.lanes.sections))
    BY RoadLanesRead
  <2>4. unconsumed(node) \in Findings
    BY OthersFound DEF WrittenRoad
  <2> HIDE DEF before, after, lanes
  <2>5. /\ found \in Findings
        /\ found = <<>> => before.found = <<>> /\ after.found = <<>> /\ lanes.found = <<>>
    <3> DEFINE f1 == unconsumed(node) \o before.found  f2 == f1 \o after.found
    <3>1. f1 \in Findings /\ (f1 = <<>> => before.found = <<>>)
      BY <2>2, <2>4, BothFound
    <3> HIDE DEF f1
    <3>2. f2 \in Findings /\ (f2 = <<>> => f1 = <<>> /\ after.found = <<>>)
      BY <2>2, <3>1, BothFound
    <3> HIDE DEF f2
    <3>3. f2 \o lanes.found \in Findings /\ (f2 \o lanes.found = <<>> => f2 = <<>> /\ lanes.found = <<>>)
      BY <2>3, <3>2, BothFound
    <3>4. found = f2 \o lanes.found
      BY DEF f1, f2
    <3> QED
      BY <3>1, <3>2, <3>3, <3>4
  <2>6. /\ RoadOf(map, node, before, after, lanes) =
             IF node.plan_view = None THEN With(map, found \o Invalid(TRUE))
             ELSE RoadOn(begun, node, read_plan_view(node.plan_view), before, after, lanes)
    BY DEF RoadOf
  <2> HIDE DEF found
  <2>7. /\ MapSoFar(begun) /\ begun.roads = map.roads /\ begun.junctions = map.junctions
        /\ begun.found = <<>> <=> map.found = <<>> /\ found = <<>>
    BY <1>0, <2>5, FindingsAdd
  <2> HIDE DEF begun
  <2>8. CASE node.plan_view = None
    <3> DEFINE why == found \o Invalid(TRUE)  next == With(map, why)
    <3>1. why \in Findings /\ why # <<>>
      BY <2>5, ErrorAdds
    <3>2. read_road(map, node) = next
      BY <2>1, <2>6, <2>8
    <3> HIDE DEF why
    <3>3. MapSoFar(next) /\ next.roads = map.roads /\ next.junctions = map.junctions /\ next.found # <<>>
      BY <1>0, <3>1, FindingsAdd
    <3> HIDE DEF next
    <3> QED
      BY <3>2, <3>3, RoadsLeave
  <2>9. CASE node.plan_view # None
    <3> DEFINE line == read_plan_view(node.plan_view)
    <3>1. LineSoFar(line, Len(node.plan_view))
      BY <2>9, LinesRead DEF WrittenRoad
    <3>2. read_road(map, node) = RoadOn(begun, node, line, before, after, lanes)
      BY <2>1, <2>6, <2>9
    <3> HIDE DEF line
    <3>3. CASE line.pieces = <<>> \/ ~ line.ok
      <4> DEFINE why == line.found \o Invalid(line.pieces = <<>>)
      <4>1. RoadOn(begun, node, line, before, after, lanes) = With(begun, why)
        BY <3>3 DEF RoadOn
      <4>2. /\ line.found \in Findings /\ Invalid(line.pieces = <<>>) \in Findings
            /\ line.found # <<>> \/ Invalid(line.pieces = <<>>) # <<>>
        <5>1. CASE line.pieces = <<>>
          BY <3>1, <5>1, Ones DEF LineSoFar, Invalid, When, Faulty
        <5>2. CASE line.pieces # <<>>
          BY <3>1, <3>3, <5>2, Ones DEF LineSoFar, Invalid, When, Faulty
        <5> QED
          BY <5>1, <5>2
      <4>3. why \in Findings /\ why # <<>>
        BY <4>2, BothFound
      <4> HIDE DEF why
      <4> DEFINE next == With(begun, why)
      <4>4. MapSoFar(next) /\ next.roads = map.roads /\ next.junctions = map.junctions /\ next.found # <<>>
        BY <2>7, <4>3, FindingsAdd
      <4> HIDE DEF next
      <4>5. RoadsSoFar(next, nodes, k + 1)
        BY <4>4, RoadsLeave
      <4> QED
        BY <3>2, <4>1, <4>5 DEF next
    <3>4. CASE ~ (line.pieces = <<>> \/ ~ line.ok)
      <4> DEFINE more == line.found \o When(line.expected_s # node.length, Warning("ValidationError"))
                 drawn == With(begun, more)
      <4>1. RoadOn(begun, node, line, before, after, lanes) = DrawnRoad(drawn, node, line, before, after, lanes)
        BY <3>4 DEF RoadOn
      <4>2. more \in Findings /\ (more = <<>> => line.found = <<>>)
        <5>1. line.found \in Findings
              /\ When(line.expected_s # node.length, Warning("ValidationError")) \in Findings
          BY <3>1, Ones DEF LineSoFar, When, Odd
        <5> QED
          BY <5>1, BothFound
      <4> HIDE DEF more
      <4>3. /\ MapSoFar(drawn) /\ drawn.roads = map.roads /\ drawn.junctions = map.junctions
            /\ drawn.found = <<>> <=> begun.found = <<>> /\ more = <<>>
        BY <2>7, <4>2, FindingsAdd
      <4> HIDE DEF drawn
      <4>4. CASE node.id \in DOMAIN drawn.roads
        <5> DEFINE next == With(drawn, Invalid(TRUE))
        <5>1. DrawnRoad(drawn, node, line, before, after, lanes) = next
          BY <4>4 DEF DrawnRoad
        <5>2. Invalid(TRUE) \in Findings /\ Invalid(TRUE) # <<>>
          BY Ones DEF Invalid, When, Faulty
        <5>3. MapSoFar(next) /\ next.roads = map.roads /\ next.junctions = map.junctions /\ next.found # <<>>
          BY <4>3, <5>2, FindingsAdd
        <5> HIDE DEF next
        <5>4. RoadsSoFar(next, nodes, k + 1)
          BY <5>3, RoadsLeave
        <5> QED
          BY <3>2, <4>1, <5>1, <5>4
      <4>5. CASE node.id \notin DOMAIN drawn.roads
        <5> DEFINE road == [plan_view |-> line.pieces, sections |-> lanes.sections,
                            predecessor |-> before.link, successor |-> after.link]
                   next == TakeRoad(drawn, node, line, before, after, lanes)
        <5>1. read_road(map, node) = next
          BY <3>2, <4>1, <4>5 DEF DrawnRoad
        <5>2. /\ road.plan_view = line.pieces /\ road.sections = lanes.sections
              /\ road.predecessor = before.link /\ road.successor = after.link
          OBVIOUS
        <5>3. next = [drawn EXCEPT !.roads = Stored(@, node.id, road)]
          BY DEF TakeRoad
        <5> HIDE DEF road, next
        <5>4. next = [roads |-> Stored(map.roads, node.id, road), junctions |-> map.junctions, found |-> drawn.found]
          BY <4>3, <5>3 DEF MapSoFar
        <5>5. /\ MapSoFar(next) /\ next.roads = Stored(map.roads, node.id, road)
              /\ next.junctions = map.junctions /\ next.found = drawn.found
          <6>1. drawn.found \in Findings
            BY <4>3 DEF MapSoFar
          <6>2. /\ next.roads = Stored(map.roads, node.id, road)
                /\ next.junctions = map.junctions /\ next.found = drawn.found
            BY <5>4
          <6>3. next = [roads |-> next.roads, junctions |-> next.junctions, found |-> next.found]
            BY <5>4, <6>2
          <6> QED
            BY <6>1, <6>2, <6>3 DEF MapSoFar
        <5>6. Queryable(road)
          <6>1. Chained(line.pieces, Len(line.pieces), line.expected_s) /\ line.pieces # <<>>
            BY <3>1, <3>4 DEF LineSoFar
          <6> QED
            BY <2>3, <5>2, <6>1, RoadsAnswer
        <5>7. ASSUME next.found = <<>>
              PROVE  map.found = <<>> /\ Whole(road, node)
          <6>1. /\ map.found = <<>> /\ before.found = <<>> /\ after.found = <<>>
                /\ lanes.found = <<>> /\ line.found = <<>>
            BY <2>5, <2>7, <4>2, <4>3, <5>5, <5>7
          <6>2. Len(line.pieces) = Len(node.plan_view)
            BY <3>1, <6>1 DEF LineSoFar
          <6>3. /\ (before.link = None) = (node.link.predecessor = None)
                /\ (after.link = None) = (node.link.successor = None)
            BY <2>2, <6>1
          <6>4. IF node.lanes = None THEN lanes.sections = <<>>
                ELSE /\ Len(lanes.sections) = Len(node.lanes.sections)
                     /\ \A i \in DOMAIN lanes.sections :
                          WholeSection(lanes.sections[i], node.lanes.sections[i])
            <7>1. CASE node.lanes = None
              BY <2>3, <6>1, <7>1
            <7>2. CASE node.lanes # None
              <8>1. Complete(lanes.sections, node.lanes.sections, Len(node.lanes.sections))
                BY <2>3, <6>1, <7>2
              <8>2. DOMAIN lanes.sections = 1 .. Len(lanes.sections)
                BY <2>3 DEF Sectioned
              <8> QED
                BY <7>2, <8>1, <8>2 DEF Complete
            <7> QED
              BY <7>1, <7>2
          <6> QED
            BY <5>2, <6>1, <6>2, <6>3, <6>4 DEF Whole
        <5>8. RoadsSoFar(next, nodes, k + 1)
          <6>1. node.id \notin DOMAIN map.roads
            BY <4>3, <4>5
          <6> QED
            BY <5>5, <5>6, <5>7, <6>1, RoadsEnter
        <5> QED
          BY <5>1, <5>8
      <4> QED
        BY <4>4, <4>5
    <3> QED
      BY <3>3, <3>4
  <2> QED
    BY <2>8, <2>9
<1> QED
  BY <1>1, <1>2

LEMMA RoadsRead ==
  ASSUME NEW nodes, Listed(nodes), \A node \in Range(nodes) : WrittenRoad(node), NEW found \in Findings
  PROVE  LET map == FoldLeft(read_road, NoMap(found), nodes)
         IN RoadsSoFar(map, nodes, Len(nodes))
<1> DEFINE n == Len(nodes)  base == NoMap(found)
<1>1. n \in Nat /\ DOMAIN nodes = 1 .. n /\ \A i \in 1 .. n : nodes[i] \in Range(nodes)
  BY DEF Listed
<1> HIDE DEF n
<1>2. PICK run : Goes(run, "road", nodes, n, base) /\ run[n] = FoldLeft(read_road, base, nodes)
  BY <1>1, RoadsGo
<1>3. /\ base = [roads |-> base.roads, junctions |-> base.junctions, found |-> base.found]
      /\ base.roads = <<>> /\ base.junctions = <<>> /\ base.found = found
  BY DEF NoMap
<1> HIDE DEF base
<1> DEFINE K == {k \in 0 .. n : RoadsSoFar(run[k], nodes, k)}
<1>4. 0 \in K
  <2>1. DOMAIN <<>> = {} /\ 1 .. 0 = {} /\ 0 \in 0 .. n
    BY <1>1
  <2>2. RoadsSoFar(base, nodes, 0)
    BY <1>3, <2>1 DEF RoadsSoFar, MapSoFar
  <2> QED
    BY <1>2, <2>1, <2>2 DEF Goes
<1>5. ASSUME NEW k \in 1 .. n, k - 1 \in K
      PROVE  k \in K
  <2>1. run[k] = read_road(run[k - 1], nodes[k])
    BY <1>2 DEF Goes, Read
  <2>2. k - 1 \in Nat /\ (k - 1) + 1 = k /\ RoadsSoFar(run[k - 1], nodes, k - 1)
    BY <1>5
  <2>3. RoadsSoFar(run[k], nodes, (k - 1) + 1)
    BY <1>1, <2>1, <2>2, RoadReads
  <2> QED
    BY <2>2, <2>3
<1> HIDE DEF K
<1>6. n \in K
  BY <1>1, <1>4, <1>5, LastIn
<1> QED
  BY <1>2, <1>6 DEF K, n, base

---------------------------------------------------------------------------
(* Junctions.                                                                   *)

LEMMA LinksFound ==
  ASSUME NEW links, Listed(links)
  PROVE  LET found == EachOf(links, LAMBDA l : When(~ (None \notin {l.from, l.to}), Error("ParseError")))
         IN /\ found \in Findings
            /\ found = <<>> => {l \in Range(links) : None \notin {l.from, l.to}} = Range(links)
<1> DEFINE n == Len(links)
           seqs == [i \in DOMAIN links |->
                     When(~ (None \notin {links[i].from, links[i].to}), Error("ParseError"))]
<1>1. n \in Nat /\ DOMAIN links = 1 .. n /\ Range(links) = {links[i] : i \in 1 .. n}
  BY DEF Listed, Range
<1>2. /\ DOMAIN seqs = 1 .. n /\ seqs = [i \in 1 .. n |-> seqs[i]]
      /\ \A i \in 1 .. n : seqs[i] \in Findings
      /\ \A i \in 1 .. n : seqs[i] = <<>> => None \notin {links[i].from, links[i].to}
  BY <1>1, Ones DEF When, Faulty
<1>3. EachOf(links, LAMBDA l : When(~ (None \notin {l.from, l.to}), Error("ParseError"))) = FlattenSeq(seqs)
  BY DEF EachOf
<1> HIDE DEF seqs, n
<1>4. /\ FlattenSeq(seqs) \in Findings
      /\ FlattenSeq(seqs) = <<>> <=> \A i \in 1 .. n : seqs[i] = <<>>
  BY <1>1, <1>2, OfEach
<1>5. ASSUME FlattenSeq(seqs) = <<>>
      PROVE  {l \in Range(links) : None \notin {l.from, l.to}} = Range(links)
  BY <1>1, <1>2, <1>4, <1>5
<1> QED
  BY <1>3, <1>4, <1>5

LEMMA ConnectionsRead ==
  ASSUME NEW node, WrittenJunction(node)
  PROVE  LET read == Connections(node)
         IN read.found \in Findings /\ (read.found = <<>> => read.kept = Connected(node))
<1> DEFINE all == node.connections  n == Len(all)
           named(c) == None \notin {c.incoming, c.connecting}
           numeric(l) == None \notin {l.from, l.to}
           links(c) == {l \in Range(c.links) : numeric(l)}
           faults(c) == EachOf(c.links, LAMBDA l : When(~ (None \notin {l.from, l.to}), Error("ParseError")))
           one(c) == IF ~ named(c) THEN Invalid(TRUE) ELSE faults(c)
           seqs == [i \in DOMAIN all |-> one(all[i])]
           read == Connections(node)
<1>1. n \in Nat /\ DOMAIN all = 1 .. n /\ Range(all) = {all[i] : i \in 1 .. n}
      /\ \A i \in 1 .. n : Listed(all[i].links)
  <2> HIDE DEF named, links, faults, one, seqs, read
  <2>1. n \in Nat /\ DOMAIN all = 1 .. n /\ Range(all) = {all[i] : i \in 1 .. n}
    BY DEF WrittenJunction, Listed, Range
  <2>2. \A c \in Range(all) : Listed(c.links)
    BY DEF WrittenJunction
  <2> QED
    BY <2>1, <2>2
<1>2. read.found = FlattenSeq(seqs)
  BY DEF Connections, EachOf
<1>3. read.kept = {[incoming |-> c.incoming, connecting |-> c.connecting, links |-> links(c)] :
                     c \in {c \in Range(all) : named(c)}}
  BY DEF Connections
<1>4. ASSUME NEW c, Listed(c.links)
      PROVE  /\ one(c) \in Findings
             /\ one(c) = <<>> => named(c) /\ links(c) = Range(c.links)
  <2>1. Invalid(TRUE) \in Findings /\ Invalid(TRUE) # <<>>
    BY Ones DEF Invalid, When, Faulty
  <2>2. faults(c) \in Findings /\ (faults(c) = <<>> => links(c) = Range(c.links))
    BY <1>4, LinksFound
  <2> HIDE DEF faults, named, links
  <2> QED
    BY <2>1, <2>2
<1> HIDE DEF read, one, named, links
<1>5. /\ DOMAIN seqs = 1 .. n /\ seqs = [i \in 1 .. n |-> seqs[i]]
      /\ \A i \in 1 .. n : seqs[i] \in Findings /\ seqs[i] = one(all[i])
  BY <1>1, <1>4
<1> HIDE DEF seqs, all, n
<1>6. /\ FlattenSeq(seqs) \in Findings
      /\ FlattenSeq(seqs) = <<>> <=> \A i \in 1 .. n : seqs[i] = <<>>
  BY <1>1, <1>5, OfEach
<1>7. ASSUME read.found = <<>>
      PROVE  read.kept = Connected(node)
  <2>1. \A c \in Range(all) : named(c) /\ links(c) = Range(c.links)
    BY <1>1, <1>2, <1>4, <1>5, <1>6, <1>7
  <2>2. {c \in Range(all) : named(c)} = Range(all)
    BY <2>1
  <2>3. \A c \in Range(all) :
          [incoming |-> c.incoming, connecting |-> c.connecting, links |-> links(c)]
            = [incoming |-> c.incoming, connecting |-> c.connecting, links |-> Range(c.links)]
    BY <2>1
  <2>4. read.kept = {[incoming |-> c.incoming, connecting |-> c.connecting, links |-> links(c)] : c \in Range(all)}
    BY <1>3, <2>2
  <2> QED
    BY <2>3, <2>4 DEF Connected, all
<1> QED
  BY <1>2, <1>6, <1>7 DEF read

\* The junctions so far, and all of those that are written unless there is a finding.
JunctionsSoFar(map, roads, sofar, nodes, k) ==
  /\ MapSoFar(map) /\ map.roads = roads
  /\ map.found = <<>> =>
       /\ sofar = <<>>
       /\ DOMAIN map.junctions = {nodes[i].id : i \in 1 .. k}
       /\ \A i \in 1 .. k : map.junctions[nodes[i].id] = Connected(nodes[i])

LEMMA JunctionsEnter ==
  ASSUME NEW map, NEW roads, NEW sofar, NEW nodes, NEW k \in Nat, JunctionsSoFar(map, roads, sofar, nodes, k),
         NEW node, node = nodes[k + 1], node.id \notin DOMAIN map.junctions, NEW kept,
         NEW next, MapSoFar(next), next.junctions = Stored(map.junctions, node.id, kept), next.roads = map.roads,
         next.found = <<>> => map.found = <<>> /\ kept = Connected(node)
  PROVE  JunctionsSoFar(next, roads, sofar, nodes, k + 1)
<1>1. /\ DOMAIN next.junctions = DOMAIN map.junctions \cup {node.id} /\ next.junctions[node.id] = kept
      /\ \A id \in DOMAIN map.junctions : next.junctions[id] = map.junctions[id]
  BY DEF Stored
<1>2. \A i \in 1 .. k + 1 : i \in 1 .. k \/ i = k + 1
  OBVIOUS
<1>3. ASSUME next.found = <<>>
      PROVE  /\ sofar = <<>>
             /\ DOMAIN next.junctions = {nodes[i].id : i \in 1 .. k + 1}
             /\ \A i \in 1 .. k + 1 : next.junctions[nodes[i].id] = Connected(nodes[i])
  <2>1. /\ sofar = <<>> /\ DOMAIN map.junctions = {nodes[i].id : i \in 1 .. k}
        /\ \A i \in 1 .. k : map.junctions[nodes[i].id] = Connected(nodes[i])
    BY <1>3 DEF JunctionsSoFar
  <2>2. {nodes[i].id : i \in 1 .. k + 1} = {nodes[i].id : i \in 1 .. k} \cup {nodes[k + 1].id}
    <3>1. 1 .. k + 1 = (1 .. k) \cup {k + 1}
      OBVIOUS
    <3> QED
      BY <3>1
  <2>3. next.junctions[node.id] = Connected(node)
    BY <1>1, <1>3
  <2>4. \A i \in 1 .. k : next.junctions[nodes[i].id] = Connected(nodes[i])
    BY <1>1, <2>1
  <2> QED
    BY <1>1, <1>2, <2>1, <2>2, <2>3, <2>4
<1> QED
  BY <1>3 DEF JunctionsSoFar

LEMMA JunctionReads ==
  ASSUME NEW map, NEW roads, NEW sofar, NEW nodes, NEW k \in Nat, JunctionsSoFar(map, roads, sofar, nodes, k),
         NEW node, node = nodes[k + 1], WrittenJunction(node)
  PROVE  JunctionsSoFar(read_junction(map, node), roads, sofar, nodes, k + 1)
<1>0. MapSoFar(map) /\ map.roads = roads
  BY DEF JunctionsSoFar
<1>1. ASSUME NEW found \in Findings, found # <<>>
      PROVE  JunctionsSoFar(With(map, found), roads, sofar, nodes, k + 1)
  <2> DEFINE next == With(map, found)
  <2>1. MapSoFar(next) /\ next.roads = roads /\ next.found # <<>>
    BY <1>0, <1>1, FindingsAdd
  <2> HIDE DEF next
  <2>2. JunctionsSoFar(next, roads, sofar, nodes, k + 1)
    BY <2>1 DEF JunctionsSoFar
  <2> QED
    BY <2>2 DEF next
<1>2. CASE node.id = None
  <2>1. <<Error("ParseError")>> \in Findings /\ <<Error("ParseError")>> # <<>>
    BY Ones DEF Faulty
  <2> QED
    BY <1>1, <1>2, <2>1 DEF read_junction
<1>3. CASE node.id # None /\ node.type # "default"
  <2>1. <<Warning("UnsupportedFeature")>> \in Findings /\ <<Warning("UnsupportedFeature")>> # <<>>
    BY Ones DEF Odd
  <2> QED
    BY <1>1, <1>3, <2>1 DEF read_junction
<1>4. CASE node.id # None /\ node.type = "default"
  <2> DEFINE read == Connections(node)  found == unconsumed(node) \o read.found
  <2>1. read_junction(map, node) = TakeJunction(map, node, read)
    BY <1>4 DEF read_junction
  <2>2. read.found \in Findings /\ (read.found = <<>> => read.kept = Connected(node))
    BY ConnectionsRead
  <2> HIDE DEF read
  <2>3. found \in Findings /\ (found = <<>> => read.found = <<>>)
    <3>1. unconsumed(node) \in Findings
      BY OthersFound DEF WrittenJunction
    <3> QED
      BY <2>2, <3>1, BothFound
  <2>4. CASE node.id \in DOMAIN map.junctions
    <3> DEFINE why == found \o Invalid(TRUE)
    <3>1. why \in Findings /\ why # <<>>
      BY <2>3, ErrorAdds
    <3>2. read_junction(map, node) = With(map, why)
      BY <2>1, <2>4 DEF TakeJunction
    <3> HIDE DEF why
    <3> QED
      BY <1>1, <3>1, <3>2
  <2>5. CASE node.id \notin DOMAIN map.junctions
    <3> DEFINE told == With(map, found)
               next == [told EXCEPT !.junctions = Stored(@, node.id, read.kept)]
    <3>1. read_junction(map, node) = next
      BY <2>1, <2>5 DEF TakeJunction
    <3> HIDE DEF found
    <3>2. /\ MapSoFar(told) /\ told.roads = map.roads /\ told.junctions = map.junctions
          /\ told.found = <<>> <=> map.found = <<>> /\ found = <<>>
      BY <1>0, <2>3, FindingsAdd
    <3> HIDE DEF told
    <3>3. next = [roads |-> map.roads, junctions |-> Stored(map.junctions, node.id, read.kept), found |-> told.found]
      BY <3>2 DEF MapSoFar
    <3> HIDE DEF next
    <3>4. /\ next.roads = map.roads /\ next.junctions = Stored(map.junctions, node.id, read.kept)
          /\ next.found = told.found
      BY <3>3
    <3>5. MapSoFar(next)
      <4>1. next = [roads |-> next.roads, junctions |-> next.junctions, found |-> next.found]
        BY <3>3, <3>4
      <4>2. told.found \in Findings
        BY <3>2 DEF MapSoFar
      <4> QED
        BY <3>4, <4>1, <4>2 DEF MapSoFar
    <3>6. next.found = <<>> => map.found = <<>> /\ read.kept = Connected(node)
      BY <2>2, <2>3, <3>2, <3>4
    <3>7. JunctionsSoFar(next, roads, sofar, nodes, k + 1)
      BY <2>5, <3>4, <3>5, <3>6, JunctionsEnter
    <3> QED
      BY <3>1, <3>7
  <2> QED
    BY <2>4, <2>5
<1> QED
  BY <1>2, <1>3, <1>4

LEMMA JunctionsRead ==
  ASSUME NEW nodes, Listed(nodes), \A node \in Range(nodes) : WrittenJunction(node),
         NEW map, MapSoFar(map), map.junctions = <<>>
  PROVE  JunctionsSoFar(FoldLeft(read_junction, map, nodes), map.roads, map.found, nodes, Len(nodes))
<1> DEFINE n == Len(nodes)
<1>1. n \in Nat /\ DOMAIN nodes = 1 .. n /\ \A i \in 1 .. n : nodes[i] \in Range(nodes)
  BY DEF Listed
<1> HIDE DEF n
<1>2. PICK run : Goes(run, "junction", nodes, n, map) /\ run[n] = FoldLeft(read_junction, map, nodes)
  BY <1>1, JunctionsGo
<1> DEFINE Is(k) == JunctionsSoFar(run[k], map.roads, map.found, nodes, k)
           K == {k \in 0 .. n : Is(k)}
<1>3. 0 \in K
  <2>1. DOMAIN <<>> = {} /\ 1 .. 0 = {} /\ 0 \in 0 .. n
    BY <1>1
  <2>2. JunctionsSoFar(map, map.roads, map.found, nodes, 0)
    BY <2>1 DEF JunctionsSoFar
  <2> QED
    BY <1>2, <2>1, <2>2 DEF Goes
<1>4. ASSUME NEW k \in 1 .. n, k - 1 \in K
      PROVE  k \in K
  <2>1. run[k] = read_junction(run[k - 1], nodes[k])
    BY <1>2 DEF Goes, Read
  <2>2. k - 1 \in Nat /\ (k - 1) + 1 = k /\ Is(k - 1)
    BY <1>4
  <2>3. JunctionsSoFar(run[k], map.roads, map.found, nodes, (k - 1) + 1)
    BY <1>1, <2>1, <2>2, JunctionReads
  <2> QED
    BY <2>2, <2>3
<1> HIDE DEF K
<1>5. n \in K
  BY <1>1, <1>3, <1>4, LastIn
<1> QED
  BY <1>2, <1>5 DEF K, n

---------------------------------------------------------------------------
(* Documents.                                                                   *)

LEMMA HeadersFound ==
  ASSUME NEW header
  PROVE  read_header(header) \in Findings
<1> DEFINE version == When(header.revMajor # 1, Warning("UnsupportedFeature"))
           place == When(header.geoReference, Warning("UnsupportedFeature"))
<1>1. version \in Findings /\ place \in Findings /\ <<Warning("UnsupportedFeature")>> \in Findings
  BY Ones DEF When, Odd
<1>2. read_header(header) = IF header = None THEN <<Warning("UnsupportedFeature")>> ELSE version \o place
  BY DEF read_header
<1> HIDE DEF version, place
<1> QED
  BY <1>1, <1>2, BothFound

LEMMA DocumentsRead ==
  ASSUME NEW root, WrittenMap(root)
  PROVE  LET map == read_root(root)
         IN /\ \A id \in DOMAIN map.roads : Queryable(map.roads[id])
            /\ map.found = <<>> =>
                 /\ DOMAIN map.roads = Authored(root.roads)
                 /\ DOMAIN map.junctions = Authored(root.junctions)
                 /\ \A node \in Range(root.roads) : Whole(map.roads[node.id], node)
                 /\ \A node \in Range(root.junctions) : map.junctions[node.id] = Connected(node)
<1> DEFINE begun == read_header(root.header) \o unconsumed(root)
           drawn == FoldLeft(read_road, NoMap(begun), root.roads)
           told == With(drawn, Invalid(root.roads = <<>>))
           map == FoldLeft(read_junction, told, root.junctions)
<1>1. read_root(root) = map
  BY DEF read_root
<1>2. begun \in Findings
  BY HeadersFound, OthersFound, BothFound DEF WrittenMap
<1> HIDE DEF begun
<1>3. RoadsSoFar(drawn, root.roads, Len(root.roads))
  BY <1>2, RoadsRead DEF WrittenMap
<1> HIDE DEF drawn
<1>4. /\ MapSoFar(told) /\ told.roads = drawn.roads /\ told.junctions = <<>>
      /\ told.found = <<>> => drawn.found = <<>>
  <2>1. Invalid(root.roads = <<>>) \in Findings
    BY Ones DEF Invalid, When, Faulty
  <2> QED
    BY <1>3, <2>1, FindingsAdd DEF RoadsSoFar
<1> HIDE DEF told
<1>5. JunctionsSoFar(map, drawn.roads, told.found, root.junctions, Len(root.junctions))
  BY <1>4, JunctionsRead DEF WrittenMap
<1> HIDE DEF map
<1>6. /\ Range(root.roads) = {root.roads[i] : i \in 1 .. Len(root.roads)}
      /\ Range(root.junctions) = {root.junctions[i] : i \in 1 .. Len(root.junctions)}
  BY DEF WrittenMap, Listed, Range
<1>7. /\ Authored(root.roads) = {root.roads[i].id : i \in 1 .. Len(root.roads)}
      /\ Authored(root.junctions) = {root.junctions[i].id : i \in 1 .. Len(root.junctions)}
  BY <1>6 DEF Authored
<1>8. map.roads = drawn.roads /\ \A id \in DOMAIN map.roads : Queryable(map.roads[id])
  BY <1>3, <1>5 DEF RoadsSoFar, JunctionsSoFar
<1>9. ASSUME map.found = <<>>
      PROVE  /\ DOMAIN map.roads = Authored(root.roads)
             /\ DOMAIN map.junctions = Authored(root.junctions)
             /\ \A node \in Range(root.roads) : Whole(map.roads[node.id], node)
             /\ \A node \in Range(root.junctions) : map.junctions[node.id] = Connected(node)
  <2>1. drawn.found = <<>>
    BY <1>4, <1>5, <1>9 DEF JunctionsSoFar
  <2>2. /\ DOMAIN map.roads = {root.roads[i].id : i \in 1 .. Len(root.roads)}
        /\ \A i \in 1 .. Len(root.roads) : Whole(map.roads[root.roads[i].id], root.roads[i])
    BY <1>3, <1>8, <2>1 DEF RoadsSoFar
  <2>3. /\ DOMAIN map.junctions = {root.junctions[i].id : i \in 1 .. Len(root.junctions)}
        /\ \A i \in 1 .. Len(root.junctions) :
             map.junctions[root.junctions[i].id] = Connected(root.junctions[i])
    BY <1>5, <1>9 DEF JunctionsSoFar
  <2> QED
    BY <1>6, <1>7, <2>2, <2>3
<1> QED
  BY <1>1, <1>8, <1>9

LEMMA FilesRead ==
  ASSUME NEW file, file # None /\ file.well_formed /\ file.root # None => WrittenMap(file.root)
  PROVE  LET map == load_file(file) root == file.root
         IN /\ \A id \in DOMAIN map.roads : Queryable(map.roads[id])
            /\ map.found = <<>> =>
                 /\ DOMAIN map.roads = Authored(root.roads)
                 /\ DOMAIN map.junctions = Authored(root.junctions)
                 /\ \A node \in Range(root.roads) : Whole(map.roads[node.id], node)
                 /\ \A node \in Range(root.junctions) : map.junctions[node.id] = Connected(node)
<1>1. ASSUME NEW code
      PROVE  NoMap(<<Error(code)>>).roads = <<>> /\ NoMap(<<Error(code)>>).found # <<>>
  BY DEF NoMap
<1>2. DOMAIN <<>> = {}
  OBVIOUS
<1>3. CASE file = None
  BY <1>1, <1>2, <1>3 DEF load_file
<1>4. CASE file # None /\ (~ file.well_formed \/ file.root = None)
  BY <1>1, <1>2, <1>4 DEF load_file, load_string
<1>5. CASE file # None /\ file.well_formed /\ file.root # None
  <2>1. load_file(file) = read_root(file.root)
    BY <1>5 DEF load_file, load_string
  <2> QED
    BY <1>5, <2>1, DocumentsRead
<1> QED
  BY <1>3, <1>4, <1>5

\* What was taken of a document can be queried, and a reading that finds nothing to
\* say has left no road, piece, link or section out and taken every lane and junction
\* as it is written (reader.cpp:515-583), whatever is written: but for a lane with
\* the id of a later one of its section, which takes its place without a word
\* (reader.cpp:282).
THEOREM OnlyTheReplacedAreDropped == Spec => []DroppedOnlyIfReplaced
<1>1. Put => DroppedOnlyIfReplaced
  <2> SUFFICES ASSUME Put, Answered("document")
               PROVE  /\ \A id \in DOMAIN answer.roads : Queryable(answer.roads[id])
                      /\ answer.found = <<>> =>
                           /\ DOMAIN answer.roads = Authored(asked.root.roads)
                           /\ DOMAIN answer.junctions = Authored(asked.root.junctions)
                           /\ \A node \in Range(asked.root.roads) : Whole(answer.roads[node.id], node)
                           /\ \A node \in Range(asked.root.junctions) :
                                answer.junctions[node.id] = Connected(node)
    BY DEF DroppedOnlyIfReplaced
  <2>1. part = "document" /\ answer = Answer(asked)
    BY DEF Put, Answered
  <2>2. asked # None /\ asked.well_formed /\ asked.root # None => WrittenMap(asked.root)
    BY <2>1, DocumentsAssumption DEF Put
  <2>3. Answer(asked) = load_file(asked)
    BY <2>1 DEF Answer
  <2> QED
    BY <2>1, <2>2, <2>3, FilesRead
<1> QED
  BY <1>1, AlwaysPut, PTL
=============================================================================
