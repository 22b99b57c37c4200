-------------------------- MODULE OwnershipProofs --------------------------
(***************************************************************************)
(* Proofs about who drives an entity, for every storyboard and every set of *)
(* entities: first that the domains are exclusive and their owners polled,  *)
(* then that an action that lost a domain is told so and stays out.         *)
(***************************************************************************)
EXTENDS Ownership, TLAPS

---------------------------------------------------------------------------
(* The inductive invariant.                                                *)

DrivesSpeed == LongitudinalKinds \cup {"timedTrajectory"}

\* What is true of the record of e even while the longitudinal domain changes
\* hands: the owners have the right kinds and actor, the engine has the domain
\* they own, and the mechanisms are those of the owner.
Consistent(r, e) ==
  /\ r.longitudinalOwner # None =>
       /\ Is(r.longitudinalOwner, DrivesSpeed)
       /\ Actor(r.longitudinalOwner) = e /\ r.active /\ r.longitudinal
       /\ Is(r.longitudinalOwner, {"speed"}) => r.controller /\ Competes(r.longitudinalOwner)
  /\ r.lateralOwner # None =>
       /\ Is(r.lateralOwner, LateralKinds)
       /\ Actor(r.lateralOwner) = e /\ r.active /\ r.lateral
       /\ Is(r.lateralOwner, {"laneChange"}) => r.transition
       /\ r.lateralOwner \notin r.retired
  /\ r.follower # None =>
       /\ Is(r.follower, TrajectoryKinds)
       /\ Actor(r.follower) = e /\ r.active /\ r.lateral
       /\ r.lateralOwner = None /\ ~r.axis
       /\ r.follower \notin r.retired
  /\ r.controller => r.longitudinalOwner # None /\ Is(r.longitudinalOwner, {"speed"})
  /\ r.continuous => r.longitudinalOwner # None /\ Is(r.longitudinalOwner, {"continuousSpeed"})

\* A timed trajectory owns both domains or none.
Paired(r) ==
  \A a \in Acts : Is(a, {"timedTrajectory"}) => (r.follower = a <=> r.longitudinalOwner = a)

\* The record between two calls, and the record once its longitudinal owner is
\* retired but before the next one is installed.
Sound(r, e) ==
  /\ r \in EntityRecord /\ Consistent(r, e) /\ Paired(r)
  /\ r.longitudinalOwner \notin r.retired
Vacated(r, e) ==
  /\ r \in EntityRecord /\ Consistent(r, e)
  /\ r.follower # None => Is(r.follower, {"trajectory"})

AllSound(E) == E \in [Entities -> EntityRecord] /\ \A e \in Entities : Sound(E[e], e)

OwnershipInv ==
  /\ TypeOK
  /\ AllSound(entity)
  /\ \A e \in Entities : \A a \in OwnersOf(entity[e]) : Polled(a)

\* The offset axis is there while an action displaces the entity, or to apply
\* the last increment of one that has arrived.
AxisUsed(r) ==
  /\ r.axis <=> r.lateralOwner # None \/ r.dissolving
  /\ r.dissolving => r.lateralOwner = None

\* s owns nothing that r does not own, and knows of no other action.
Known(r) == r.retired \cup OwnersOf(r)
Descends(s, r) ==
  /\ OwnersOf(s) \subseteq OwnersOf(r) /\ Known(s) \subseteq Known(r)
  /\ s.active = r.active /\ s.lateral = r.lateral /\ s.longitudinal = r.longitudinal
  /\ s.axis => r.axis

---------------------------------------------------------------------------
(* Changes of one record.                                                  *)

LEMMA FreeLongitudinalFields ==
  ASSUME NEW r \in EntityRecord
  PROVE  /\ FreeLongitudinal(r) \in EntityRecord
         /\ FreeLongitudinal(r).longitudinalOwner = None
         /\ ~FreeLongitudinal(r).controller /\ ~FreeLongitudinal(r).continuous
         /\ FreeLongitudinal(r).active = r.active
         /\ FreeLongitudinal(r).lateral = r.lateral
         /\ FreeLongitudinal(r).longitudinal = r.longitudinal
         /\ FreeLongitudinal(r).lateralOwner = r.lateralOwner
         /\ FreeLongitudinal(r).transition = r.transition
         /\ FreeLongitudinal(r).follower = r.follower
         /\ FreeLongitudinal(r).axis = r.axis
         /\ FreeLongitudinal(r).dissolving = r.dissolving
         /\ FreeLongitudinal(r).retired = r.retired
BY DEF FreeLongitudinal, EntityRecord

LEMMA LongitudinalRetiredFields ==
  ASSUME NEW r \in EntityRecord, NEW a \in Acts \cup {None},
         r.longitudinalOwner \notin {None, a}
  PROVE  /\ LongitudinalRetired(r, a) \in EntityRecord
         /\ LongitudinalRetired(r, a).retired = r.retired \cup {r.longitudinalOwner}
         /\ LongitudinalRetired(r, a).follower =
              IF r.follower = r.longitudinalOwner THEN None ELSE r.follower
         /\ LongitudinalRetired(r, a).active = r.active
         /\ LongitudinalRetired(r, a).lateral = r.lateral
         /\ LongitudinalRetired(r, a).longitudinal = r.longitudinal
         /\ LongitudinalRetired(r, a).longitudinalOwner = r.longitudinalOwner
         /\ LongitudinalRetired(r, a).controller = r.controller
         /\ LongitudinalRetired(r, a).continuous = r.continuous
         /\ LongitudinalRetired(r, a).lateralOwner = r.lateralOwner
         /\ LongitudinalRetired(r, a).transition = r.transition
         /\ LongitudinalRetired(r, a).axis = r.axis
BY DEF LongitudinalRetired, EntityRecord

LEMMA LateralRetiredFields ==
  ASSUME NEW r \in EntityRecord, NEW a \in Acts \cup {None}
  PROVE  LET outgoing == {r.lateralOwner, r.follower} \ {None, a}
             s == LateralRetired(r, a)
         IN  /\ s \in EntityRecord
             /\ s.retired = r.retired \cup outgoing
             /\ s.lateralOwner = IF r.lateralOwner \in outgoing THEN None ELSE r.lateralOwner
             /\ s.follower = IF r.follower \in outgoing THEN None ELSE r.follower
             /\ s.longitudinalOwner =
                  IF r.longitudinalOwner = r.follower /\ r.longitudinalOwner \in outgoing
                    THEN None ELSE r.longitudinalOwner
             /\ s.transition <=> r.transition /\ r.lateralOwner \notin outgoing
             /\ s.active = r.active /\ s.lateral = r.lateral
             /\ s.longitudinal = r.longitudinal
             /\ s.controller = r.controller /\ s.continuous = r.continuous
             /\ s.axis = r.axis
<1> DEFINE outgoing == {r.lateralOwner, r.follower} \ {None, a}
           p == r.transition /\ r.lateralOwner \notin outgoing
           q == r.dissolving /\ r.lateralOwner \notin outgoing
           lateral == IF r.lateralOwner \in outgoing THEN None ELSE r.lateralOwner
           speed == IF r.longitudinalOwner = r.follower /\ r.longitudinalOwner \in outgoing
                      THEN None ELSE r.longitudinalOwner
           path == IF r.follower \in outgoing THEN None ELSE r.follower
<1>1. /\ p \in BOOLEAN /\ q \in BOOLEAN /\ outgoing \in SUBSET Acts
      /\ lateral \in Acts \cup {None} /\ speed \in Acts \cup {None} /\ path \in Acts \cup {None}
  BY DEF EntityRecord
<1>2. LateralRetired(r, a) =
        [r EXCEPT !.retired = @ \cup outgoing, !.lateralOwner = lateral, !.transition = p,
                  !.dissolving = q, !.longitudinalOwner = speed, !.follower = path]
  BY DEF LateralRetired
<1> HIDE DEF outgoing, p, q, lateral, speed, path
<1>3. LET s == LateralRetired(r, a)
      IN  /\ s \in EntityRecord /\ s.retired = r.retired \cup outgoing
          /\ s.lateralOwner = lateral /\ s.follower = path /\ s.longitudinalOwner = speed
          /\ s.transition = p /\ s.active = r.active /\ s.lateral = r.lateral
          /\ s.longitudinal = r.longitudinal
          /\ s.controller = r.controller /\ s.continuous = r.continuous
          /\ s.axis = r.axis
  BY <1>1, <1>2, ZenonT(40) DEF EntityRecord
<1> QED BY <1>3 DEF outgoing, p, lateral, speed, path

LEMMA DissolvedFields ==
  ASSUME NEW r \in EntityRecord
  PROVE  LET s == Dissolved(r)
         IN  /\ s \in EntityRecord /\ ~s.axis
             /\ s.retired = r.retired /\ s.lateralOwner = r.lateralOwner
             /\ s.follower = r.follower /\ s.longitudinalOwner = r.longitudinalOwner
             /\ s.transition = r.transition /\ s.active = r.active
             /\ s.lateral = r.lateral /\ s.longitudinal = r.longitudinal
             /\ s.controller = r.controller /\ s.continuous = r.continuous
BY DEF Dissolved, EntityRecord

\* The kinds of the two domains.
LEMMA KindsApart ==
  ASSUME NEW a \in Acts
  PROVE  /\ Is(a, LateralKinds) => ~Is(a, DrivesSpeed) /\ ~Is(a, TrajectoryKinds)
         /\ Is(a, TrajectoryKinds) /\ ~Is(a, {"timedTrajectory"}) => ~Is(a, DrivesSpeed)
         /\ Is(a, TrajectoryKinds) => Is(a, {"trajectory"}) \/ Is(a, {"timedTrajectory"})
         /\ Is(a, {"timedTrajectory"}) <=> Is(a, DrivesSpeed) /\ Is(a, TrajectoryKinds)
         /\ Is(a, {"timedTrajectory"}) => ~Is(a, {"speed"}) /\ ~Is(a, {"continuousSpeed"})
         /\ ~(Is(a, {"speed"}) /\ Is(a, {"continuousSpeed"}))
         /\ ~(Is(a, {"trajectory"}) /\ Is(a, {"timedTrajectory"}))
         /\ ~(Is(a, {"trajectory"}) /\ Is(a, DrivesSpeed))
BY DEF Is, DrivesSpeed, LateralKinds, LongitudinalKinds, TrajectoryKinds

LEMMA FreeLongitudinalSound ==
  ASSUME NEW e \in Entities, NEW r, Vacated(r, e)
  PROVE  /\ Sound(FreeLongitudinal(r), e) /\ Descends(FreeLongitudinal(r), r)
<1> DEFINE s == FreeLongitudinal(r)
<1>1. r \in EntityRecord
  BY DEF Vacated
<1>2. /\ s \in EntityRecord /\ s.longitudinalOwner = None
      /\ ~s.controller /\ ~s.continuous
      /\ s.active = r.active /\ s.lateral = r.lateral /\ s.longitudinal = r.longitudinal
      /\ s.lateralOwner = r.lateralOwner /\ s.transition = r.transition
      /\ s.follower = r.follower /\ s.axis = r.axis /\ s.retired = r.retired
  BY <1>1, FreeLongitudinalFields
<1> HIDE DEF s
<1>3. Consistent(s, e)
  BY <1>2 DEF Vacated, Consistent
<1>4. Paired(s)
  BY <1>2, KindsApart, OwnershipAssumption DEF Paired, Vacated
<1>5. s.longitudinalOwner \notin s.retired
  BY <1>1, <1>2, OwnershipAssumption DEF EntityRecord
<1>6. Descends(s, r)
  BY <1>2 DEF Descends, Known, OwnersOf
<1> QED BY <1>2, <1>3, <1>4, <1>5, <1>6 DEF Sound, s

LEMMA LongitudinalRetiredVacates ==
  ASSUME NEW e \in Entities, NEW r, NEW a \in Acts \cup {None},
         Sound(r, e) \/ Vacated(r, e), r.longitudinalOwner \notin {None, a}
  PROVE  /\ Vacated(LongitudinalRetired(r, a), e)
         /\ Descends(LongitudinalRetired(r, a), r)
<1> DEFINE s == LongitudinalRetired(r, a)
<1>1. r \in EntityRecord /\ Consistent(r, e)
  BY DEF Vacated, Sound
<1>2. /\ s \in EntityRecord /\ s.retired = r.retired \cup {r.longitudinalOwner}
      /\ s.follower = IF r.follower = r.longitudinalOwner THEN None ELSE r.follower
      /\ s.active = r.active /\ s.lateral = r.lateral /\ s.longitudinal = r.longitudinal
      /\ s.longitudinalOwner = r.longitudinalOwner
      /\ s.controller = r.controller /\ s.continuous = r.continuous
      /\ s.lateralOwner = r.lateralOwner /\ s.transition = r.transition
      /\ s.axis = r.axis
  BY <1>1, LongitudinalRetiredFields
<1> HIDE DEF s
<1>3. /\ r.longitudinalOwner \in Acts /\ Is(r.longitudinalOwner, DrivesSpeed)
      /\ r.lateralOwner \in Acts \cup {None} /\ r.follower \in Acts \cup {None}
  BY <1>1 DEF EntityRecord, Consistent
<1>4. s.follower # None => Is(s.follower, {"trajectory"})
  BY <1>1, <1>2, <1>3, KindsApart DEF Sound, Vacated, Paired, Consistent
<1>5. r.lateralOwner # r.longitudinalOwner
  BY <1>1, <1>3, KindsApart DEF Consistent
<1>6. Consistent(s, e)
  BY <1>1, <1>2, <1>3, <1>4, <1>5, KindsApart DEF Consistent
<1>7. Descends(s, r)
  BY <1>2 DEF Descends, Known, OwnersOf
<1> QED BY <1>2, <1>4, <1>6, <1>7 DEF Vacated, s

LEMMA LateralRetiredSound ==
  ASSUME NEW e \in Entities, NEW r, NEW a \in Acts \cup {None}
  PROVE  LET s == LateralRetired(r, a)
         IN  /\ Sound(r, e) => Sound(s, e) /\ Descends(s, r)
             /\ Vacated(r, e) => Vacated(s, e) /\ Descends(s, r)
             /\ Sound(r, e) \/ Vacated(r, e) =>
                  s.lateralOwner \in {None, a} /\ s.follower \in {None, a}
<1> DEFINE s == LateralRetired(r, a)
           outgoing == {r.lateralOwner, r.follower} \ {None, a}
<1> SUFFICES ASSUME Sound(r, e) \/ Vacated(r, e)
             PROVE  /\ Sound(r, e) => Sound(s, e)
                    /\ Vacated(r, e) => Vacated(s, e)
                    /\ Descends(s, r)
                    /\ s.lateralOwner \in {None, a} /\ s.follower \in {None, a}
  OBVIOUS
<1>1. r \in EntityRecord /\ Consistent(r, e)
  BY DEF Vacated, Sound
<1>2. /\ s \in EntityRecord /\ s.retired = r.retired \cup outgoing
      /\ s.lateralOwner = IF r.lateralOwner \in outgoing THEN None ELSE r.lateralOwner
      /\ s.follower = IF r.follower \in outgoing THEN None ELSE r.follower
      /\ s.longitudinalOwner =
           IF r.longitudinalOwner = r.follower /\ r.longitudinalOwner \in outgoing
             THEN None ELSE r.longitudinalOwner
      /\ s.transition <=> r.transition /\ r.lateralOwner \notin outgoing
      /\ s.active = r.active /\ s.lateral = r.lateral /\ s.longitudinal = r.longitudinal
      /\ s.controller = r.controller /\ s.continuous = r.continuous /\ s.axis = r.axis
  BY <1>1, LateralRetiredFields
<1> HIDE DEF s
<1>3. /\ r.longitudinalOwner \in Acts \cup {None} /\ r.lateralOwner \in Acts \cup {None}
      /\ r.follower \in Acts \cup {None} /\ r.retired \in SUBSET Acts
      /\ None \notin Acts
  BY <1>1, OwnershipAssumption DEF EntityRecord
<1>4. r.longitudinalOwner \in outgoing => r.longitudinalOwner = r.follower
  BY <1>1, <1>3, KindsApart DEF Consistent
<1>5. r.longitudinalOwner # None => ~(r.longitudinalOwner = r.follower
        /\ (Is(r.longitudinalOwner, {"speed"}) \/ Is(r.longitudinalOwner, {"continuousSpeed"})))
  BY <1>1, <1>3, KindsApart DEF Consistent
<1>6. Consistent(s, e)
  BY <1>1, <1>2, <1>3, <1>5 DEF Consistent
<1>7. Sound(r, e) => Paired(s)
  <2>1. SUFFICES ASSUME Paired(r), NEW b \in Acts, Is(b, {"timedTrajectory"})
                 PROVE  s.follower = b <=> s.longitudinalOwner = b
    BY DEF Paired, Sound
  <2>2. r.follower = b <=> r.longitudinalOwner = b
    BY <2>1 DEF Paired
  <2>3. b # None
    BY <1>3
  <2> QED BY <1>2, <1>4, <2>2, <2>3
<1>8. Sound(r, e) => s.longitudinalOwner \notin s.retired
  BY <1>2, <1>3, <1>4 DEF Sound
<1>9. Vacated(r, e) => Vacated(s, e)
  BY <1>2, <1>6 DEF Vacated
<1>10. Descends(s, r)
  BY <1>2 DEF Descends, Known, OwnersOf
<1>11. s.lateralOwner \in {None, a} /\ s.follower \in {None, a}
  BY <1>2
<1> QED BY <1>2, <1>6, <1>7, <1>8, <1>9, <1>10, <1>11 DEF Sound

LEMMA DissolvedSound ==
  ASSUME NEW e \in Entities, NEW r
  PROVE  /\ Sound(r, e) => Sound(Dissolved(r), e) /\ Descends(Dissolved(r), r)
         /\ Vacated(r, e) => Vacated(Dissolved(r), e) /\ Descends(Dissolved(r), r)
<1> DEFINE s == Dissolved(r)
<1> SUFFICES ASSUME Sound(r, e) \/ Vacated(r, e)
             PROVE  /\ Sound(r, e) => Sound(s, e)
                    /\ Vacated(r, e) => Vacated(s, e)
                    /\ Descends(s, r)
  OBVIOUS
<1>1. r \in EntityRecord /\ Consistent(r, e)
  BY DEF Vacated, Sound
<1>2. /\ s \in EntityRecord /\ ~s.axis
      /\ s.retired = r.retired /\ s.lateralOwner = r.lateralOwner
      /\ s.follower = r.follower /\ s.longitudinalOwner = r.longitudinalOwner
      /\ s.transition = r.transition /\ s.active = r.active
      /\ s.lateral = r.lateral /\ s.longitudinal = r.longitudinal
      /\ s.controller = r.controller /\ s.continuous = r.continuous
  BY <1>1, DissolvedFields
<1> HIDE DEF s
<1>3. Consistent(s, e)
  BY <1>1, <1>2 DEF Consistent
<1>4. Descends(s, r)
  BY <1>2 DEF Descends, Known, OwnersOf
<1> QED BY <1>2, <1>3, <1>4 DEF Sound, Vacated, Paired

LEMMA DescendsTransitive ==
  ASSUME NEW r, NEW s, NEW t, Descends(s, r), Descends(t, s)
  PROVE  Descends(t, r)
BY DEF Descends

LEMMA DescendsReflexive == ASSUME NEW r PROVE Descends(r, r)
BY DEF Descends

---------------------------------------------------------------------------
(* Superseding an owner, and with it its bulk action.                      *)

LEMMA FallBackSound ==
  ASSUME NEW e \in Entities, NEW r, NEW g
  PROVE  /\ Sound(r, e) => Sound(FallBack(r, g), e) /\ Descends(FallBack(r, g), r)
         /\ Vacated(r, e) => Vacated(FallBack(r, g), e) /\ Descends(FallBack(r, g), r)
<1> DEFINE retired == LongitudinalRetired(r, None)
           s == IF InGroup(r.longitudinalOwner, g) THEN FreeLongitudinal(retired) ELSE r
           t == IF InGroup(s.lateralOwner, g) \/ InGroup(s.follower, g)
                  THEN Dissolved(LateralRetired(s, None)) ELSE s
<1>1. FallBack(r, g) = t
  BY DEF FallBack
<1>2. ASSUME Sound(r, e) \/ Vacated(r, e), InGroup(r.longitudinalOwner, g)
      PROVE  Sound(s, e) /\ Vacated(s, e) /\ Descends(s, r)
  <2>1. r.longitudinalOwner \notin {None, None}
    BY <1>2 DEF InGroup
  <2>2. Vacated(retired, e) /\ Descends(retired, r)
    BY <1>2, <2>1, LongitudinalRetiredVacates
  <2>3. Sound(FreeLongitudinal(retired), e) /\ Descends(FreeLongitudinal(retired), retired)
    BY <2>2, FreeLongitudinalSound
  <2>4. Vacated(FreeLongitudinal(retired), e)
    <3>1. retired \in EntityRecord /\ (retired.follower # None => Is(retired.follower, {"trajectory"}))
      BY <2>2 DEF Vacated
    <3>2. FreeLongitudinal(retired).follower = retired.follower
      BY <3>1, FreeLongitudinalFields
    <3> QED BY <2>3, <3>1, <3>2 DEF Sound, Vacated
  <2> QED BY <1>2, <2>2, <2>3, <2>4, DescendsTransitive
<1>3. /\ Sound(r, e) => Sound(s, e)
      /\ Vacated(r, e) => Vacated(s, e)
      /\ Sound(r, e) \/ Vacated(r, e) => Descends(s, r)
  BY <1>2, DescendsReflexive
<1> HIDE DEF s
<1>4. /\ Sound(s, e) => Sound(t, e)
      /\ Vacated(s, e) => Vacated(t, e)
      /\ Sound(s, e) \/ Vacated(s, e) => Descends(t, s)
  <2>1. LET u == LateralRetired(s, None)
        IN  /\ Sound(s, e) => Sound(u, e) /\ Descends(u, s)
            /\ Vacated(s, e) => Vacated(u, e) /\ Descends(u, s)
    BY LateralRetiredSound
  <2> DEFINE u == LateralRetired(s, None)
  <2> HIDE DEF u
  <2>2. /\ Sound(u, e) => Sound(Dissolved(u), e) /\ Descends(Dissolved(u), u)
        /\ Vacated(u, e) => Vacated(Dissolved(u), e) /\ Descends(Dissolved(u), u)
    BY DissolvedSound
  <2> QED BY <2>1, <2>2, DescendsTransitive, DescendsReflexive DEF u
<1> QED BY <1>1, <1>3, <1>4, DescendsTransitive

\* What is left of E after every instance of an action has fallen back, where
\* the longitudinal domain of x may be changing hands.
LEMMA BulkRetiredSound ==
  ASSUME NEW E \in [Entities -> EntityRecord], NEW x \in Entities, NEW a,
         \A e \in Entities \ {x} : Sound(E[e], e),
         Sound(E[x], x) \/ Vacated(E[x], x)
  PROVE  LET F == BulkRetired(E, a)
         IN  /\ F \in [Entities -> EntityRecord]
             /\ \A e \in Entities \ {x} : Sound(F[e], e)
             /\ Sound(E[x], x) => Sound(F[x], x)
             /\ Vacated(E[x], x) => Vacated(F[x], x)
             /\ \A e \in Entities : Descends(F[e], E[e])
<1> DEFINE F == BulkRetired(E, a)
<1>1. CASE Bulk[a] = 0
  BY <1>1, DescendsReflexive DEF BulkRetired
<1>2. CASE Bulk[a] # 0
  <2>1. F = [e \in Entities |-> FallBack(E[e], Bulk[a])]
    BY <1>2 DEF BulkRetired
  <2>2. \A e \in Entities : F[e] = FallBack(E[e], Bulk[a])
    BY <2>1
  <2> HIDE DEF F
  <2>3. ASSUME NEW e \in Entities \ {x}
        PROVE  Sound(F[e], e) /\ Descends(F[e], E[e])
    <3>1. F[e] = FallBack(E[e], Bulk[a]) /\ Sound(E[e], e)
      BY <2>2
    <3> QED BY <3>1, FallBackSound
  <2>4. /\ Sound(E[x], x) => Sound(F[x], x)
        /\ Vacated(E[x], x) => Vacated(F[x], x)
        /\ Descends(F[x], E[x])
    BY <2>2, FallBackSound
  <2>5. \A e \in Entities : F[e] \in EntityRecord
    BY <2>3, <2>4 DEF Sound, Vacated
  <2>6. F \in [Entities -> EntityRecord]
    BY <2>1, <2>2, <2>5
  <2> QED BY <2>3, <2>4, <2>6 DEF F
<1> QED BY <1>1, <1>2

LEMMA SupersedeLongitudinalSound ==
  ASSUME NEW E, AllSound(E), NEW x \in Entities, NEW a \in Acts \cup {None}
  PROVE  LET F == SupersedeLongitudinal(E, x, a)
         IN  /\ F \in [Entities -> EntityRecord]
             /\ \A e \in Entities \ {x} : Sound(F[e], e)
             /\ \A e \in Entities : Descends(F[e], E[e])
             /\ E[x].longitudinalOwner = a => F = E
             /\ E[x].longitudinalOwner # a \/ a = None => Vacated(F[x], x)
<1> DEFINE F == SupersedeLongitudinal(E, x, a)
           owner == E[x].longitudinalOwner
<1>1. E \in [Entities -> EntityRecord] /\ \A e \in Entities : Sound(E[e], e)
  BY DEF AllSound
<1>2. CASE owner \in {None, a}
  <2>1. F = E
    BY <1>2 DEF SupersedeLongitudinal
  <2>2. owner = None => Vacated(E[x], x)
    <3> SUFFICES ASSUME owner = None PROVE Vacated(E[x], x)
      OBVIOUS
    <3>1. Sound(E[x], x) /\ E[x].follower \in Acts \cup {None} /\ None \notin Acts
      BY <1>1, OwnershipAssumption DEF EntityRecord
    <3>2. E[x].follower # None => Is(E[x].follower, {"trajectory"})
      BY <3>1, KindsApart DEF Sound, Paired, Consistent
    <3> QED BY <3>1, <3>2 DEF Sound, Vacated
  <2> QED BY <1>1, <1>2, <2>1, <2>2, DescendsReflexive
<1>3. CASE owner \notin {None, a}
  <2> DEFINE r == LongitudinalRetired(E[x], a)
             G == [E EXCEPT ![x] = r]
  <2>1. F = BulkRetired(G, owner)
    BY <1>3 DEF SupersedeLongitudinal
  <2>2. Vacated(r, x) /\ Descends(r, E[x])
    BY <1>1, <1>3, LongitudinalRetiredVacates
  <2>3. r \in EntityRecord
    BY <2>2 DEF Vacated
  <2> HIDE DEF r, F, owner
  <2>4. /\ G \in [Entities -> EntityRecord] /\ G[x] = r
        /\ \A e \in Entities \ {x} : G[e] = E[e]
    BY <1>1, <2>3
  <2>5. /\ \A e \in Entities \ {x} : Sound(G[e], e)
        /\ Vacated(G[x], x)
        /\ \A e \in Entities : Descends(G[e], E[e])
    BY <1>1, <2>2, <2>4, DescendsReflexive
  <2> HIDE DEF G
  <2>6. /\ F \in [Entities -> EntityRecord]
        /\ \A e \in Entities \ {x} : Sound(F[e], e)
        /\ Vacated(F[x], x)
        /\ \A e \in Entities : Descends(F[e], G[e])
    BY <2>1, <2>4, <2>5, BulkRetiredSound
  <2>7. \A e \in Entities : Descends(F[e], E[e])
    BY <2>5, <2>6, DescendsTransitive
  <2> QED BY <1>3, <2>6, <2>7 DEF F, owner
<1> QED BY <1>2, <1>3

LEMMA SupersedeLateralSound ==
  ASSUME NEW E, AllSound(E), NEW x \in Entities, NEW a \in Acts \cup {None}
  PROVE  LET F == SupersedeLateral(E, x, a)
         IN  /\ AllSound(F)
             /\ \A e \in Entities : Descends(F[e], E[e])
             /\ F[x].lateralOwner \in {None, a} /\ F[x].follower \in {None, a}
<1> DEFINE F == SupersedeLateral(E, x, a)
           outgoing == {E[x].lateralOwner, E[x].follower} \ {None, a}
<1>1. E \in [Entities -> EntityRecord] /\ \A e \in Entities : Sound(E[e], e)
  BY DEF AllSound
<1>2. CASE outgoing = {}
  <2>1. F = E
    BY <1>2 DEF SupersedeLateral
  <2> QED BY <1>2, <2>1, DescendsReflexive
<1>3. CASE outgoing # {}
  <2> DEFINE r == LateralRetired(E[x], a)
             G == [E EXCEPT ![x] = r]
             b == CHOOSE c \in outgoing : TRUE
  <2>1. F = BulkRetired(G, b)
    BY <1>3 DEF SupersedeLateral
  <2>2. /\ Sound(r, x) /\ Descends(r, E[x])
        /\ r.lateralOwner \in {None, a} /\ r.follower \in {None, a}
    BY <1>1, LateralRetiredSound
  <2>3. r \in EntityRecord
    BY <2>2 DEF Sound
  <2> HIDE DEF r, F, b
  <2>4. /\ G \in [Entities -> EntityRecord] /\ G[x] = r
        /\ \A e \in Entities \ {x} : G[e] = E[e]
    BY <1>1, <2>3
  <2>5. /\ \A e \in Entities : Sound(G[e], e)
        /\ \A e \in Entities : Descends(G[e], E[e])
    BY <1>1, <2>2, <2>4, DescendsReflexive
  <2> HIDE DEF G
  <2>6. /\ F \in [Entities -> EntityRecord]
        /\ \A e \in Entities : Sound(F[e], e)
        /\ \A e \in Entities : Descends(F[e], G[e])
    BY <2>1, <2>4, <2>5, BulkRetiredSound
  <2>7. \A e \in Entities : Descends(F[e], E[e])
    BY <2>5, <2>6, DescendsTransitive
  <2>8. F[x].lateralOwner \in {None, a} /\ F[x].follower \in {None, a}
    <3>1. OwnersOf(F[x]) \subseteq OwnersOf(r)
      BY <2>4, <2>6 DEF Descends
    <3>2. r.lateralOwner \in {None, a} /\ r.follower \in {None, a} /\ Sound(r, x) /\ Sound(F[x], x)
      BY <2>2, <2>6
    <3>3. /\ F[x].lateralOwner \in Acts \cup {None} /\ F[x].follower \in Acts \cup {None}
          /\ r.longitudinalOwner \in Acts \cup {None}
      BY <2>3, <2>6 DEF EntityRecord
    <3>4. F[x].lateralOwner \in {None, a}
      BY <3>1, <3>2, <3>3, KindsApart DEF OwnersOf, Sound, Consistent
    <3>5. F[x].follower \in {None, a}
      BY <3>1, <3>2, <3>3, KindsApart, OwnershipAssumption DEF OwnersOf, Sound, Consistent, Paired
    <3> QED BY <3>4, <3>5
  <2> QED BY <2>6, <2>7, <2>8 DEF AllSound, F
<1> QED BY <1>2, <1>3

---------------------------------------------------------------------------
(* A call that answers.                                                    *)

LEMMA ActTypes ==
  ASSUME NEW a \in Acts
  PROVE  /\ Do[a] \in Descriptions /\ Actor(a) \in Entities
         /\ EventOf[a] \in Events /\ a \in ActsOf(EventOf[a])
<1>1. Do[a] \in Descriptions
  BY OwnershipAssumption
<1>2. Actor(a) \in Entities
  BY <1>1 DEF Actor, Descriptions
<1>3. \E f \in Events : a \in ActsOf(f)
  BY OwnershipAssumption
<1>4. EventOf[a] = CHOOSE f \in Events : a \in ActsOf(f)
  BY DEF EventOf
<1> QED BY <1>1, <1>2, <1>3, <1>4

LEMMA OwnersAreActs ==
  ASSUME NEW E, AllSound(E), NEW e \in Entities, NEW a \in OwnersOf(E[e])
  PROVE  /\ a \in Acts /\ Actor(a) = e /\ E[e].active
         /\ Is(a, DrivesSpeed) \/ Is(a, LateralKinds) \/ Is(a, TrajectoryKinds)
BY DEF AllSound, Sound, EntityRecord, Consistent, OwnersOf

LEMMA OwnershipTyped ==
  ASSUME NEW E \in [Entities -> EntityRecord]
  PROVE  Owners(E) \subseteq Acts
BY DEF Owners, OwnersOf, EntityRecord

\* A call that leaves sound records, in which only a may have become an owner,
\* and not when it is complete.
LEMMA AnswerKeeps ==
  ASSUME OwnershipInv, NEW a \in Acts, NEW E, NEW reports, AllSound(E),
         Answer(a, E, reports),
         \A e \in Entities : OwnersOf(E[e]) \subseteq OwnersOf(entity[e]) \cup {a},
         reports = "Running" \/ a \notin OwnersOf(E[Actor(a)])
  PROVE  OwnershipInv'
<1>1. /\ TypeOK /\ \A e \in Entities : \A b \in OwnersOf(entity[e]) : Polled(b)
      /\ AllSound(entity)
  BY DEF OwnershipInv
<1>2. EventOf[a] \in Events
  BY ActTypes
<1>3. /\ entity' = E /\ E \in [Entities -> EntityRecord]
      /\ lost' = lost \cup (Owners(entity) \ Owners(E))
      /\ pending' = pending \ {a}
      /\ UNCHANGED <<stepping, todo, stopping, deleted>>
      /\ running' = [running EXCEPT ![EventOf[a]] = IF reports = "Running" THEN @ \cup {a}
                                                   ELSE @ \ {a}]
  BY DEF Answer, AllSound
<1>4. running' \in [Events -> SUBSET Acts]
  BY <1>1, <1>2, <1>3 DEF TypeOK
<1>5. TypeOK'
  <2>1. Owners(entity) \subseteq Acts
    BY <1>1, OwnershipTyped DEF TypeOK
  <2> QED BY <1>1, <1>3, <1>4, <2>1 DEF TypeOK
<1>6. AllSound(entity)'
  BY <1>3 DEF AllSound, Sound, Consistent, Paired
<1>7. ASSUME NEW e \in Entities, NEW b \in OwnersOf(E[e]) PROVE Polled(b)'
  <2>1. b \in Acts /\ Actor(b) = e
    BY OwnersAreActs
  <2>2. CASE b = a
    <3>1. reports = "Running"
      BY <2>1, <2>2, <1>7
    <3> QED BY <3>1, <2>2, <1>1, <1>2, <1>3 DEF Polled, TypeOK
  <2>3. CASE b # a
    <3>1. b \in running[EventOf[b]]
      BY <1>1, <1>7, <2>3 DEF Polled
    <3>2. EventOf[b] \in Events
      BY <2>1, ActTypes
    <3> QED BY <3>1, <3>2, <2>3, <1>1, <1>2, <1>3 DEF Polled, TypeOK
  <2> QED BY <2>2, <2>3
<1>8. (\A e \in Entities : \A b \in OwnersOf(entity[e]) : Polled(b))'
  BY <1>3, <1>7 DEF OwnersOf
<1> QED BY <1>5, <1>6, <1>8 DEF OwnershipInv

\* The same for a call that ends by writing s to the record of its actor.
LEMMA InstalledKeeps ==
  ASSUME OwnershipInv, NEW a \in Acts, NEW F \in [Entities -> EntityRecord], NEW s, NEW reports,
         \A e \in Entities \ {Actor(a)} : Sound(F[e], e) /\ Descends(F[e], entity[e]),
         Sound(s, Actor(a)), OwnersOf(s) \subseteq OwnersOf(entity[Actor(a)]) \cup {a},
         reports = "Running" \/ a \notin OwnersOf(s),
         Answer(a, [F EXCEPT ![Actor(a)] = s], reports)
  PROVE  OwnershipInv'
<1> DEFINE x == Actor(a)
           E == [F EXCEPT ![x] = s]
<1>1. x \in Entities /\ s \in EntityRecord
  BY ActTypes DEF Sound
<1> HIDE DEF x
<1>2. /\ E \in [Entities -> EntityRecord] /\ E[x] = s
      /\ \A e \in Entities \ {x} : E[e] = F[e]
  BY <1>1
<1> HIDE DEF E
<1>3. AllSound(E)
  BY <1>2 DEF AllSound, x
<1>4. \A e \in Entities : OwnersOf(E[e]) \subseteq OwnersOf(entity[e]) \cup {a}
  BY <1>2 DEF Descends, x
<1> QED BY <1>2, <1>3, <1>4, AnswerKeeps DEF E, x

---------------------------------------------------------------------------
(* Longitudinal actions.                                                   *)

\* A record with its longitudinal domain vacated for a, or owned by a already.
LEMMA SupersededForSpeed ==
  ASSUME OwnershipInv, NEW a \in Acts, Is(a, LongitudinalKinds), Ready(a)
  PROVE  LET F == SupersedeLongitudinal(entity, Actor(a), a)
         IN  /\ F \in [Entities -> EntityRecord]
             /\ \A e \in Entities \ {Actor(a)} : Sound(F[e], e) /\ Descends(F[e], entity[e])
             /\ Descends(F[Actor(a)], entity[Actor(a)])
             /\ Vacated(F[Actor(a)], Actor(a))
             /\ F[Actor(a)].active /\ F[Actor(a)].longitudinal /\ a \notin F[Actor(a)].retired
             /\ Record(a).longitudinalOwner = a => F = entity
<1> DEFINE x == Actor(a)
           F == SupersedeLongitudinal(entity, x, a)
           r == entity[x]
<1>1. x \in Entities /\ AllSound(entity)
  BY ActTypes DEF OwnershipInv
<1>2. r \in EntityRecord /\ Sound(r, x) /\ None \notin Acts
  BY <1>1, OwnershipAssumption DEF AllSound
<1>3. r.active /\ r.longitudinal /\ a \notin r.retired
  BY DEF Ready, DomainsActive, NeedsLongitudinal, Record, Is
<1> HIDE DEF x
<1>4. /\ F \in [Entities -> EntityRecord]
      /\ \A e \in Entities \ {x} : Sound(F[e], e)
      /\ \A e \in Entities : Descends(F[e], entity[e])
      /\ r.longitudinalOwner = a => F = entity
      /\ r.longitudinalOwner # a => Vacated(F[x], x)
  BY <1>1, SupersedeLongitudinalSound
<1> HIDE DEF F
<1>5. F[x].active /\ F[x].longitudinal /\ Descends(F[x], r)
  BY <1>1, <1>3, <1>4 DEF Descends
<1>6. ~Is(a, LateralKinds) /\ ~Is(a, TrajectoryKinds) /\ a # None
  BY <1>2 DEF Is, LongitudinalKinds, LateralKinds, TrajectoryKinds
<1>7. a \notin F[x].retired
  <2>1. r.longitudinalOwner # a => a \notin Known(r)
    BY <1>2, <1>3, <1>6 DEF Known, OwnersOf, Sound, Consistent
  <2>2. r.longitudinalOwner # a => a \notin F[x].retired
    BY <1>5, <2>1 DEF Descends, Known
  <2> QED BY <1>3, <1>4, <2>2
<1>8. Vacated(F[x], x)
  <2> SUFFICES ASSUME r.longitudinalOwner = a PROVE Vacated(r, x)
    BY <1>4
  <2>1. r.follower # None => ~Is(r.follower, {"timedTrajectory"})
    BY <1>2, <1>6 DEF Sound, Paired, EntityRecord, Is, LongitudinalKinds, TrajectoryKinds
  <2> QED BY <1>2, <2>1, KindsApart DEF Sound, Vacated, Consistent, EntityRecord
<1> QED BY <1>1, <1>4, <1>5, <1>7, <1>8 DEF x, F, Record

\* What a may make of the record r once it has the domain.
TakenFrom(s, r, a) ==
  /\ s \in EntityRecord
  /\ s.active = r.active /\ s.lateral = r.lateral /\ s.longitudinal = r.longitudinal
  /\ s.lateralOwner = r.lateralOwner /\ s.transition = r.transition
  /\ s.follower = r.follower /\ s.axis = r.axis /\ s.dissolving = r.dissolving
  /\ s.retired = r.retired
  /\ s.longitudinalOwner \in {a, None}
  /\ s.controller => s.longitudinalOwner = a /\ Is(a, {"speed"})
  /\ s.continuous => s.longitudinalOwner = a /\ Is(a, {"continuousSpeed"})
  /\ s.longitudinalOwner = a /\ Is(a, {"speed"}) => s.controller /\ Competes(a)

LEMMA TakenIsSound ==
  ASSUME NEW a \in Acts, Is(a, LongitudinalKinds),
         NEW r, NEW s, Vacated(r, Actor(a)), TakenFrom(s, r, a),
         r.active, r.longitudinal, a \notin r.retired
  PROVE  /\ Sound(s, Actor(a))
         /\ OwnersOf(s) \subseteq OwnersOf(r) \cup {a}
         /\ s.longitudinalOwner = None => a \notin OwnersOf(s)
<1>1. a # None /\ None \notin Acts /\ r \in EntityRecord /\ Consistent(r, Actor(a))
  BY OwnershipAssumption DEF Vacated
<1>2. /\ ~Is(a, LateralKinds) /\ ~Is(a, TrajectoryKinds) /\ Is(a, DrivesSpeed)
      /\ ~Is(a, {"timedTrajectory"}) /\ ~(Is(a, {"speed"}) /\ Is(a, {"continuousSpeed"}))
  BY DEF Is, LongitudinalKinds, LateralKinds, TrajectoryKinds, DrivesSpeed
<1>3. Consistent(s, Actor(a))
  BY <1>1, <1>2 DEF Consistent, TakenFrom
<1>4. Paired(s)
  <2>1. s.follower # None => Is(s.follower, {"trajectory"}) /\ s.follower \in Acts
    BY <1>1 DEF Vacated, EntityRecord, TakenFrom
  <2> QED BY <1>1, <1>2, <2>1, KindsApart DEF Paired, TakenFrom
<1>5. s.longitudinalOwner \notin s.retired
  BY <1>1 DEF EntityRecord, TakenFrom
<1>6. OwnersOf(s) \subseteq OwnersOf(r) \cup {a}
  BY DEF OwnersOf, TakenFrom
<1>7. s.longitudinalOwner = None => a \notin OwnersOf(s)
  BY <1>1, <1>2, <1>3 DEF OwnersOf, Consistent
<1> QED BY <1>3, <1>4, <1>5, <1>6, <1>7 DEF Sound, TakenFrom

\* A call of a longitudinal action: it supersedes the owner, and then drives or
\* is done.
Takes(a) ==
  /\ Is(a, LongitudinalKinds) /\ Ready(a)
  /\ \E s, reports :
       LET F == SupersedeLongitudinal(entity, Actor(a), a) IN
         /\ TakenFrom(s, F[Actor(a)], a)
         /\ s.longitudinalOwner = IF reports = "Running" THEN a ELSE None
         /\ Answer(a, [F EXCEPT ![Actor(a)] = s], reports)

\* The longitudinal domain changes hands.
LEMMA TakenKeeps ==
  ASSUME OwnershipInv, NEW a \in Acts, Takes(a)
  PROVE  OwnershipInv'
<1> DEFINE x == Actor(a)
           F == SupersedeLongitudinal(entity, x, a)
           r == F[x]
<1>0. Is(a, LongitudinalKinds) /\ Ready(a)
  BY DEF Takes
<1>1. /\ F \in [Entities -> EntityRecord] /\ x \in Entities
      /\ \A e \in Entities \ {x} : Sound(F[e], e) /\ Descends(F[e], entity[e])
      /\ Descends(r, entity[x]) /\ Vacated(r, x)
      /\ r.active /\ r.longitudinal /\ a \notin r.retired
  BY <1>0, ActTypes, SupersededForSpeed
<1>2. PICK s, reports : /\ TakenFrom(s, r, a)
                        /\ s.longitudinalOwner = IF reports = "Running" THEN a ELSE None
                        /\ Answer(a, [F EXCEPT ![x] = s], reports)
  BY DEF Takes
<1> HIDE DEF F, r
<1>3. /\ Sound(s, x) /\ OwnersOf(s) \subseteq OwnersOf(r) \cup {a}
      /\ s.longitudinalOwner = None => a \notin OwnersOf(s)
  BY <1>0, <1>1, <1>2, TakenIsSound
<1>4. OwnersOf(s) \subseteq OwnersOf(entity[x]) \cup {a}
  BY <1>1, <1>3 DEF Descends
<1> QED BY <1>1, <1>2, <1>3, <1>4, InstalledKeeps

LEMMA SpeedTakes ==
  ASSUME OwnershipInv, NEW a \in Acts, ApplySpeed(a)
  PROVE  Takes(a)
<1> DEFINE x == Actor(a)
           F == SupersedeLongitudinal(entity, x, a)
           r == IF Record(a).longitudinalOwner = a THEN F[x]
                ELSE [F[x] EXCEPT !.continuous = FALSE]
<1>1. Is(a, {"speed"}) /\ Ready(a) /\ Competes(a) /\ Is(a, LongitudinalKinds)
  BY DEF ApplySpeed, Is, LongitudinalKinds
<1>2. PICK done \in BOOLEAN : Answer(a, [F EXCEPT ![x] = Driving(r, a, done)],
                                     IF done THEN "Complete" ELSE "Running")
  BY DEF ApplySpeed
<1> DEFINE s == Driving(r, a, done)
<1>3. Vacated(F[x], x) /\ (Record(a).longitudinalOwner = a => F = entity)
  BY <1>1, SupersededForSpeed
<1>4. /\ r \in EntityRecord /\ ~r.continuous
      /\ r.active = F[x].active /\ r.lateral = F[x].lateral
      /\ r.longitudinal = F[x].longitudinal /\ r.lateralOwner = F[x].lateralOwner
      /\ r.transition = F[x].transition /\ r.follower = F[x].follower
      /\ r.axis = F[x].axis /\ r.dissolving = F[x].dissolving /\ r.retired = F[x].retired
  <2>1. F[x] \in EntityRecord /\ Consistent(F[x], x)
    BY <1>3 DEF Vacated
  <2>2. ~(Is(a, {"speed"}) /\ Is(a, {"continuousSpeed"})) /\ a # None
    BY KindsApart, OwnershipAssumption
  <2>3. CASE Record(a).longitudinalOwner = a
    BY <1>1, <1>3, <2>1, <2>2, <2>3 DEF Consistent, Record
  <2>4. CASE Record(a).longitudinalOwner # a
    BY <2>1, <2>4 DEF EntityRecord
  <2> QED BY <2>3, <2>4
<1> HIDE DEF r
<1>5. /\ s \in EntityRecord
      /\ s.active = r.active /\ s.lateral = r.lateral /\ s.longitudinal = r.longitudinal
      /\ s.lateralOwner = r.lateralOwner /\ s.transition = r.transition
      /\ s.follower = r.follower /\ s.axis = r.axis /\ s.dissolving = r.dissolving
      /\ s.retired = r.retired
      /\ s.longitudinalOwner = IF done THEN None ELSE a
      /\ s.controller <=> ~done
      /\ s.continuous = r.continuous
  BY <1>4 DEF Driving, EntityRecord
<1> HIDE DEF s, F
<1>6. TakenFrom(s, F[x], a)
  BY <1>1, <1>4, <1>5, OwnershipAssumption DEF TakenFrom
<1>7. Answer(a, [F EXCEPT ![x] = s], IF done THEN "Complete" ELSE "Running")
  BY <1>2 DEF s
<1> QED BY <1>1, <1>5, <1>6, <1>7 DEF Takes, F

LEMMA ContinuousSpeedTakes ==
  ASSUME OwnershipInv, NEW a \in Acts, ApplyContinuousSpeed(a)
  PROVE  Takes(a)
<1> DEFINE x == Actor(a)
           F == SupersedeLongitudinal(entity, x, a)
           s == Tracking(F[x], a)
<1>1. Is(a, {"continuousSpeed"}) /\ Ready(a) /\ Is(a, LongitudinalKinds)
  BY DEF ApplyContinuousSpeed, Is, LongitudinalKinds
<1>2. Vacated(F[x], x) /\ F \in [Entities -> EntityRecord] /\ x \in Entities
  BY <1>1, ActTypes, SupersededForSpeed
<1> HIDE DEF F
<1>3. Answer(a, [F EXCEPT ![x] = s], "Running")
  BY <1>2 DEF ApplyContinuousSpeed, F
<1>4. TakenFrom(s, F[x], a) /\ s.longitudinalOwner = a
  <2>1. F[x] \in EntityRecord /\ ~Is(a, {"speed"})
    BY <1>1, <1>2, KindsApart DEF Vacated
  <2> QED BY <1>1, <2>1 DEF TakenFrom, Tracking, EntityRecord
<1> HIDE DEF s
<1> QED BY <1>1, <1>3, <1>4 DEF Takes, F

LEMMA DistanceTakes ==
  ASSUME OwnershipInv, NEW a \in Acts, ApplyDistance(a)
  PROVE  Takes(a)
<1> DEFINE x == Actor(a)
           F == SupersedeLongitudinal(entity, x, a)
           r == IF Record(a).longitudinalOwner = a THEN F[x]
                ELSE [FreeLongitudinal(F[x]) EXCEPT !.longitudinalOwner = a]
           s == [r EXCEPT !.longitudinalOwner = None]
<1>1. Is(a, {"distance"}) /\ Ready(a) /\ Is(a, LongitudinalKinds)
  BY DEF ApplyDistance, Is, LongitudinalKinds
<1>2. /\ Vacated(F[x], x) /\ F \in [Entities -> EntityRecord] /\ x \in Entities
      /\ Record(a).longitudinalOwner = a => F = entity
  BY <1>1, ActTypes, SupersededForSpeed
<1>3. \/ Answer(a, [F EXCEPT ![x] = s], "Complete")
      \/ Answer(a, [F EXCEPT ![x] = r], "Running")
  BY DEF ApplyDistance
<1>4. F[x] \in EntityRecord /\ ~Is(a, {"speed"}) /\ ~Is(a, {"continuousSpeed"}) /\ a # None
  BY <1>1, <1>2, OwnershipAssumption DEF Vacated, Is
<1>5. TakenFrom(r, F[x], a) /\ r.longitudinalOwner = a /\ ~r.controller /\ ~r.continuous
  <2>1. CASE Record(a).longitudinalOwner = a
    BY <1>2, <1>4, <2>1 DEF TakenFrom, Record, Vacated, Consistent
  <2>2. CASE Record(a).longitudinalOwner # a
    <3> DEFINE t == FreeLongitudinal(F[x])
    <3>1. /\ t \in EntityRecord
          /\ ~t.controller /\ ~t.continuous
          /\ t.active = F[x].active /\ t.lateral = F[x].lateral
          /\ t.longitudinal = F[x].longitudinal /\ t.lateralOwner = F[x].lateralOwner
          /\ t.transition = F[x].transition /\ t.follower = F[x].follower
          /\ t.axis = F[x].axis /\ t.dissolving = F[x].dissolving
          /\ t.retired = F[x].retired
      BY <1>4, FreeLongitudinalFields
    <3> HIDE DEF t, F
    <3>2. /\ [t EXCEPT !.longitudinalOwner = a] \in EntityRecord
          /\ TakenFrom([t EXCEPT !.longitudinalOwner = a], F[x], a)
      BY <1>4, <3>1 DEF TakenFrom, EntityRecord
    <3> QED BY <2>2, <3>1, <3>2 DEF t, EntityRecord
  <2> QED BY <2>1, <2>2
<1> HIDE DEF r, F
<1>6. TakenFrom(s, F[x], a) /\ s.longitudinalOwner = None
  BY <1>4, <1>5 DEF TakenFrom, EntityRecord
<1> HIDE DEF s
<1>7. CASE Answer(a, [F EXCEPT ![x] = s], "Complete")
  BY <1>1, <1>6, <1>7 DEF Takes, F
<1>8. CASE Answer(a, [F EXCEPT ![x] = r], "Running")
  BY <1>1, <1>5, <1>8 DEF Takes, F
<1> QED BY <1>3, <1>7, <1>8

---------------------------------------------------------------------------
(* Lateral actions.                                                        *)

\* What a may make of the record r once it has the lateral domain.
SteeredFrom(s, r, a) ==
  /\ s \in EntityRecord
  /\ s.active = r.active /\ s.lateral = r.lateral /\ s.longitudinal = r.longitudinal
  /\ s.longitudinalOwner = r.longitudinalOwner
  /\ s.controller = r.controller /\ s.continuous = r.continuous
  /\ s.follower = r.follower /\ s.retired = r.retired
  /\ s.lateralOwner \in {a, None}
  /\ s.lateralOwner = a /\ Is(a, {"laneChange"}) => s.transition

LEMMA SteeredIsSound ==
  ASSUME NEW a \in Acts, Is(a, LateralKinds),
         NEW r, NEW s, Sound(r, Actor(a)), SteeredFrom(s, r, a),
         r.follower = None, r.active, r.lateral, a \notin r.retired
  PROVE  /\ Sound(s, Actor(a))
         /\ OwnersOf(s) \subseteq OwnersOf(r) \cup {a}
         /\ s.lateralOwner = None => a \notin OwnersOf(s)
<1>1. a # None /\ None \notin Acts /\ r \in EntityRecord /\ Consistent(r, Actor(a))
  BY OwnershipAssumption DEF Sound
<1>2. ~Is(a, DrivesSpeed) /\ ~Is(a, TrajectoryKinds)
  BY KindsApart
<1>3. Consistent(s, Actor(a))
  BY <1>1, <1>2 DEF Consistent, SteeredFrom
<1>4. Paired(s)
  BY DEF Sound, Paired, SteeredFrom
<1>5. OwnersOf(s) \subseteq OwnersOf(r) \cup {a}
  BY DEF OwnersOf, SteeredFrom
<1>6. s.lateralOwner = None => a \notin OwnersOf(s)
  BY <1>1, <1>2, <1>3 DEF OwnersOf, Consistent
<1> QED BY <1>3, <1>4, <1>5, <1>6 DEF Sound, SteeredFrom

\* The entities once a steers x: F, but for the record t of x.
LEMMA LateralTaken ==
  ASSUME OwnershipInv, NEW a \in Acts, Is(a, LateralKinds), Ready(a)
  PROVE  LET x == Actor(a)
             F == IF Record(a).lateralOwner = a THEN entity ELSE SupersedeLateral(entity, x, a)
             t == IF Record(a).lateralOwner = a THEN F[x]
                  ELSE [F[x] EXCEPT !.lateralOwner = a, !.transition = FALSE,
                                    !.dissolving = FALSE]
         IN  /\ TakeLateral(a) = [F EXCEPT ![x] = t]
             /\ x \in Entities /\ AllSound(F) /\ \A e \in Entities : Descends(F[e], entity[e])
             /\ F[x].follower = None /\ F[x].active /\ F[x].lateral /\ a \notin F[x].retired
             /\ t \in EntityRecord
             /\ t.active = F[x].active /\ t.lateral = F[x].lateral
             /\ t.longitudinal = F[x].longitudinal
             /\ t.longitudinalOwner = F[x].longitudinalOwner
             /\ t.controller = F[x].controller /\ t.continuous = F[x].continuous
             /\ t.follower = F[x].follower /\ t.retired = F[x].retired
             /\ t.lateralOwner = a /\ (AxisUsed(Record(a)) => ~t.dissolving)
<1> DEFINE x == Actor(a)
           r == entity[x]
           F == IF r.lateralOwner = a THEN entity ELSE SupersedeLateral(entity, x, a)
           t == IF r.lateralOwner = a THEN F[x]
                ELSE [F[x] EXCEPT !.lateralOwner = a, !.transition = FALSE, !.dissolving = FALSE]
<1>1. x \in Entities /\ AllSound(entity) /\ Sound(r, x) /\ r \in EntityRecord
  BY ActTypes DEF OwnershipInv, AllSound
<1>2. r.active /\ r.lateral /\ a \notin r.retired
  BY DEF Ready, DomainsActive, NeedsLateral, Record, Is
<1>3. ~Is(a, DrivesSpeed) /\ ~Is(a, TrajectoryKinds) /\ a # None /\ None \notin Acts
  BY KindsApart, OwnershipAssumption
<1>4. /\ AllSound(F) /\ \A e \in Entities : Descends(F[e], entity[e])
      /\ r.lateralOwner # a => F[x].follower \in {None, a}
  <2>1. CASE r.lateralOwner = a
    BY <1>1, <2>1, DescendsReflexive
  <2>2. CASE r.lateralOwner # a
    BY <1>1, <2>2, SupersedeLateralSound
  <2> QED BY <2>1, <2>2
<1>5. TakeLateral(a) = [F EXCEPT ![x] = t]
  <2>1. CASE r.lateralOwner = a
    <3>1. [entity EXCEPT ![x] = entity[x]] = entity
      BY <1>1 DEF AllSound
    <3> QED BY <2>1, <3>1 DEF TakeLateral, Record
  <2>2. CASE r.lateralOwner # a
    BY <2>2 DEF TakeLateral, Record
  <2> QED BY <2>1, <2>2
<1>6. r.lateralOwner = a => F = entity
  OBVIOUS
<1>7. t = IF r.lateralOwner = a THEN F[x]
          ELSE [F[x] EXCEPT !.lateralOwner = a, !.transition = FALSE, !.dissolving = FALSE]
  OBVIOUS
<1> HIDE DEF F, t
<1>8. Sound(F[x], x) /\ F[x] \in EntityRecord /\ Descends(F[x], r)
  BY <1>1, <1>4 DEF AllSound
<1>9. F[x].follower = None
  <2>1. F[x].follower # a
    BY <1>3, <1>8 DEF Sound, Consistent
  <2> QED BY <1>1, <1>3, <1>4, <1>6, <2>1 DEF Sound, Consistent
<1>10. F[x].active /\ F[x].lateral
  BY <1>2, <1>8 DEF Descends
<1>11. a \notin F[x].retired
  <2>1. r.lateralOwner # a => a \notin Known(r)
    BY <1>1, <1>2, <1>3 DEF Known, OwnersOf, Sound, Consistent
  <2>2. r.lateralOwner # a => a \notin F[x].retired
    BY <1>8, <2>1 DEF Descends, Known
  <2> QED BY <1>2, <1>6, <2>2
<1>12. /\ t \in EntityRecord
       /\ t.active = F[x].active /\ t.lateral = F[x].lateral
       /\ t.longitudinal = F[x].longitudinal
       /\ t.longitudinalOwner = F[x].longitudinalOwner
       /\ t.controller = F[x].controller /\ t.continuous = F[x].continuous
       /\ t.follower = F[x].follower /\ t.retired = F[x].retired
       /\ t.lateralOwner = a /\ (AxisUsed(r) => ~t.dissolving)
  <2>1. CASE r.lateralOwner = a
    BY <1>3, <1>6, <1>7, <1>8, <2>1 DEF AxisUsed
  <2>2. CASE r.lateralOwner # a
    BY <1>7, <1>8, <2>2 DEF EntityRecord
  <2> QED BY <2>1, <2>2
<1> QED BY <1>1, <1>4, <1>5, <1>9, <1>10, <1>11, <1>12 DEF F, t, Record

\* A call of a lateral action: it supersedes who steers, and then steers or is
\* done, and the offset axis is there for a reason.
Steers(a) ==
  /\ Is(a, LateralKinds) /\ Ready(a)
  /\ \E s, reports :
       LET x == Actor(a)
           F == IF Record(a).lateralOwner = a THEN entity ELSE SupersedeLateral(entity, x, a)
       IN  /\ SteeredFrom(s, F[x], a) /\ (AxisUsed(Record(a)) => AxisUsed(s))
           /\ s.lateralOwner = IF reports = "Running" THEN a ELSE None
           /\ Answer(a, [F EXCEPT ![x] = s], reports)

LEMMA SteeredKeeps ==
  ASSUME OwnershipInv, NEW a \in Acts, Steers(a)
  PROVE  OwnershipInv'
<1> DEFINE x == Actor(a)
           F == IF Record(a).lateralOwner = a THEN entity ELSE SupersedeLateral(entity, x, a)
<1>1. Is(a, LateralKinds) /\ Ready(a) /\ a # None
  BY OwnershipAssumption DEF Steers
<1>2. /\ x \in Entities /\ AllSound(F) /\ \A e \in Entities : Descends(F[e], entity[e])
      /\ F[x].follower = None /\ F[x].active /\ F[x].lateral /\ a \notin F[x].retired
  BY <1>1, LateralTaken
<1>3. PICK s, reports : /\ SteeredFrom(s, F[x], a)
                        /\ s.lateralOwner = IF reports = "Running" THEN a ELSE None
                        /\ Answer(a, [F EXCEPT ![x] = s], reports)
  BY DEF Steers
<1> HIDE DEF F
<1>4. F \in [Entities -> EntityRecord] /\ Sound(F[x], x)
  BY <1>2 DEF AllSound
<1>5. /\ Sound(s, x) /\ OwnersOf(s) \subseteq OwnersOf(F[x]) \cup {a}
      /\ s.lateralOwner = None => a \notin OwnersOf(s)
  BY <1>1, <1>2, <1>3, <1>4, SteeredIsSound
<1>6. OwnersOf(s) \subseteq OwnersOf(entity[x]) \cup {a}
  BY <1>2, <1>5 DEF Descends
<1>7. \A e \in Entities \ {x} : Sound(F[e], e) /\ Descends(F[e], entity[e])
  BY <1>2 DEF AllSound
<1> QED BY <1>3, <1>4, <1>5, <1>6, <1>7, InstalledKeeps

LEMMA LateralSteers ==
  ASSUME OwnershipInv, NEW a \in Acts, ApplyLateral(a)
  PROVE  Steers(a)
<1> DEFINE x == Actor(a)
           F == IF Record(a).lateralOwner = a THEN entity ELSE SupersedeLateral(entity, x, a)
           t == IF Record(a).lateralOwner = a THEN F[x]
                ELSE [F[x] EXCEPT !.lateralOwner = a, !.transition = FALSE, !.dissolving = FALSE]
<1>1. Is(a, LateralKinds) /\ Ready(a)
  BY DEF ApplyLateral
<1>2. /\ TakeLateral(a) = [F EXCEPT ![x] = t]
      /\ x \in Entities /\ AllSound(F) /\ \A e \in Entities : Descends(F[e], entity[e])
      /\ F[x].follower = None /\ F[x].active /\ F[x].lateral /\ a \notin F[x].retired
      /\ t \in EntityRecord
      /\ t.active = F[x].active /\ t.lateral = F[x].lateral
      /\ t.longitudinal = F[x].longitudinal
      /\ t.longitudinalOwner = F[x].longitudinalOwner
      /\ t.controller = F[x].controller /\ t.continuous = F[x].continuous
      /\ t.follower = F[x].follower /\ t.retired = F[x].retired
      /\ t.lateralOwner = a /\ (AxisUsed(Record(a)) => ~t.dissolving)
  BY <1>1, LateralTaken
<1>3. a # None /\ None \notin Acts
  BY OwnershipAssumption
<1> HIDE DEF F, t
<1>4. F \in [Entities -> EntityRecord] /\ Sound(F[x], x)
  BY <1>2 DEF AllSound
<1> DEFINE E == TakeLateral(a)
<1>6. E = [F EXCEPT ![x] = t] /\ E[x] = t
  BY <1>2, <1>4
<1>7. FreeLateral(t) \in EntityRecord /\ SteeredFrom(FreeLateral(t), F[x], a)
      /\ FreeLateral(t).lateralOwner = None
  BY <1>2, <1>3, ZenonT(40) DEF FreeLateral, EntityRecord, SteeredFrom
<1>8. SteeredFrom(GivenUp(t), F[x], a) /\ GivenUp(t).lateralOwner = None /\ AxisUsed(GivenUp(t))
  <2>1. SteeredFrom(GivenUp(t), F[x], a) /\ GivenUp(t).lateralOwner = None /\ ~GivenUp(t).axis
    BY <1>3, <1>7, DissolvedFields DEF GivenUp, SteeredFrom
  <2> DEFINE w == FreeLateral(t)
  <2>2. w \in EntityRecord /\ GivenUp(t) = Dissolved(w)
    BY <1>7 DEF GivenUp
  <2> HIDE DEF w
  <2>3. ~GivenUp(t).dissolving
    BY <2>2 DEF Dissolved, EntityRecord
  <2> QED BY <2>1, <2>3 DEF AxisUsed
<1>9. /\ WithAxis(t) \in EntityRecord
      /\ WithAxis(t).active = F[x].active /\ WithAxis(t).lateral = F[x].lateral
      /\ WithAxis(t).longitudinal = F[x].longitudinal
      /\ WithAxis(t).longitudinalOwner = F[x].longitudinalOwner
      /\ WithAxis(t).controller = F[x].controller /\ WithAxis(t).continuous = F[x].continuous
      /\ WithAxis(t).follower = F[x].follower /\ WithAxis(t).retired = F[x].retired
      /\ WithAxis(t).lateralOwner = a /\ WithAxis(t).axis
      /\ AxisUsed(Record(a)) => ~WithAxis(t).dissolving
  <2> DEFINE q == t.axis /\ t.dissolving
  <2>1. /\ q \in BOOLEAN /\ WithAxis(t) = [t EXCEPT !.axis = TRUE, !.dissolving = q]
        /\ AxisUsed(Record(a)) => ~q
    BY <1>2 DEF WithAxis, EntityRecord
  <2> HIDE DEF q
  <2> QED BY <1>2, <2>1, ZenonT(40) DEF EntityRecord
<1>10. SteeredFrom(Arrived(t), F[x], a) /\ Arrived(t).lateralOwner = None /\ AxisUsed(Arrived(t))
  <2> DEFINE w == WithAxis(t)
  <2> HIDE DEF w
  <2>1. /\ w \in EntityRecord
        /\ w.active = F[x].active /\ w.lateral = F[x].lateral
        /\ w.longitudinal = F[x].longitudinal
        /\ w.longitudinalOwner = F[x].longitudinalOwner
        /\ w.controller = F[x].controller /\ w.continuous = F[x].continuous
        /\ w.follower = F[x].follower /\ w.retired = F[x].retired /\ w.axis
    BY <1>9 DEF w
  <2>2. Arrived(t) = [[w EXCEPT !.lateralOwner = None, !.transition = FALSE]
                         EXCEPT !.dissolving = TRUE]
    BY DEF Arrived, FreeLateral, w
  <2> QED BY <1>3, <2>1, <2>2, ZenonT(40) DEF SteeredFrom, EntityRecord, AxisUsed
<1>11. /\ SteeredFrom(Displacing(t, a), F[x], a) /\ Displacing(t, a).lateralOwner = a
       /\ AxisUsed(Record(a)) => AxisUsed(Displacing(t, a))
  <2> DEFINE w == WithAxis(t)
             p == ~Is(a, {"lateralDistance"})
  <2>1. p \in BOOLEAN /\ (Is(a, {"laneChange"}) => p)
    BY DEF Is
  <2>2. Displacing(t, a) = [w EXCEPT !.transition = p]
    BY DEF Displacing
  <2> HIDE DEF w, p
  <2>3. /\ w \in EntityRecord
        /\ w.active = F[x].active /\ w.lateral = F[x].lateral
        /\ w.longitudinal = F[x].longitudinal
        /\ w.longitudinalOwner = F[x].longitudinalOwner
        /\ w.controller = F[x].controller /\ w.continuous = F[x].continuous
        /\ w.follower = F[x].follower /\ w.retired = F[x].retired
        /\ w.lateralOwner = a /\ w.axis /\ (AxisUsed(Record(a)) => ~w.dissolving)
    BY <1>9 DEF w
  <2> QED BY <1>3, <2>1, <2>2, <2>3 DEF SteeredFrom, EntityRecord, AxisUsed
<1>12. \/ Answer(a, [E EXCEPT ![x] = GivenUp(@)], "Complete")
       \/ Answer(a, [E EXCEPT ![x] = Arrived(@)], "Complete")
       \/ Answer(a, [E EXCEPT ![x] = Displacing(@, a)], "Running")
  BY DEF ApplyLateral
<1>13. ASSUME NEW s PROVE [E EXCEPT ![x] = s] = [F EXCEPT ![x] = s]
  BY <1>4, <1>6
<1> HIDE DEF E
<1>14. \/ Answer(a, [F EXCEPT ![x] = GivenUp(t)], "Complete")
       \/ Answer(a, [F EXCEPT ![x] = Arrived(t)], "Complete")
       \/ Answer(a, [F EXCEPT ![x] = Displacing(t, a)], "Running")
  BY <1>6, <1>12, <1>13
<1>15. ASSUME NEW s, NEW reports, SteeredFrom(s, F[x], a), AxisUsed(Record(a)) => AxisUsed(s),
              s.lateralOwner = IF reports = "Running" THEN a ELSE None,
              Answer(a, [F EXCEPT ![x] = s], reports)
       PROVE  Steers(a)
  BY <1>1, <1>15 DEF Steers, F
<1> QED BY <1>8, <1>10, <1>11, <1>14, <1>15

---------------------------------------------------------------------------
(* Trajectories.                                                           *)

\* The lateral domain passes to a trajectory.
LEMMA PathTaken ==
  ASSUME OwnershipInv, NEW a \in Acts, Is(a, TrajectoryKinds), Ready(a),
         Record(a).follower # a
  PROVE  LET E == TakeLateralForPath(a)
             r == E[Actor(a)]
         IN  /\ AllSound(E) /\ \A e \in Entities : Descends(E[e], entity[e])
             /\ r.follower = None /\ r.lateralOwner = None /\ ~r.axis
             /\ r.active /\ r.lateral /\ a \notin Known(r)
             /\ Is(a, {"timedTrajectory"}) => r.longitudinal
<1> DEFINE x == Actor(a)
           r == entity[x]
           F == SupersedeLateral(entity, x, a)
           E == TakeLateralForPath(a)
<1>1. x \in Entities /\ AllSound(entity) /\ Sound(r, x) /\ r \in EntityRecord
  BY ActTypes DEF OwnershipInv, AllSound
<1>2. /\ r.active /\ r.lateral /\ a \notin r.retired
      /\ Is(a, {"timedTrajectory"}) => r.longitudinal
  BY DEF Ready, DomainsActive, NeedsLateral, NeedsLongitudinal, Record, Is
<1>3. ~Is(a, LateralKinds) /\ (Is(a, {"timedTrajectory"}) <=> Is(a, DrivesSpeed)) /\ a # None
  BY KindsApart, OwnershipAssumption
<1>4. a \notin Known(r)
  BY <1>1, <1>2, <1>3 DEF Known, OwnersOf, Sound, Consistent, Paired, Record
<1>5. /\ AllSound(F) /\ \A e \in Entities : Descends(F[e], entity[e])
      /\ F[x].lateralOwner \in {None, a} /\ F[x].follower \in {None, a}
  BY <1>1, SupersedeLateralSound
<1>6. E = [F EXCEPT ![x] = Dissolved(F[x])]
  BY DEF TakeLateralForPath
<1> HIDE DEF E, F
<1>7. Descends(F[x], r) /\ Sound(F[x], x) /\ F[x] \in EntityRecord
      /\ F \in [Entities -> EntityRecord]
  BY <1>1, <1>5 DEF AllSound, Sound
<1>8. a \notin Known(F[x])
  BY <1>4, <1>7 DEF Descends
<1>9. F[x].lateralOwner = None /\ F[x].follower = None
  BY <1>3, <1>5, <1>8 DEF Known, OwnersOf
<1>10. /\ Sound(Dissolved(F[x]), x) /\ Descends(Dissolved(F[x]), F[x])
       /\ Dissolved(F[x]) \in EntityRecord
       /\ Dissolved(F[x]).lateralOwner = None /\ Dissolved(F[x]).follower = None
       /\ ~Dissolved(F[x]).axis
  <2>1. Sound(Dissolved(F[x]), x) /\ Descends(Dissolved(F[x]), F[x])
    BY <1>1, <1>7, DissolvedSound
  <2>2. /\ Dissolved(F[x]) \in EntityRecord /\ ~Dissolved(F[x]).axis
        /\ Dissolved(F[x]).lateralOwner = F[x].lateralOwner
        /\ Dissolved(F[x]).follower = F[x].follower
    BY <1>7, DissolvedFields
  <2> QED BY <1>9, <2>1, <2>2
<1>11. /\ E \in [Entities -> EntityRecord] /\ E[x] = Dissolved(F[x])
       /\ \A e \in Entities \ {x} : E[e] = F[e]
  BY <1>1, <1>6, <1>7, <1>10
<1>12. AllSound(E) /\ \A e \in Entities : Descends(E[e], entity[e])
  BY <1>5, <1>10, <1>11, DescendsTransitive DEF AllSound
<1>13. Descends(E[x], r) /\ a \notin Known(E[x])
  BY <1>1, <1>4, <1>12 DEF Descends
<1>14. E[x].active /\ E[x].lateral /\ (Is(a, {"timedTrajectory"}) => E[x].longitudinal)
  BY <1>2, <1>13 DEF Descends
<1> QED BY <1>10, <1>11, <1>12, <1>13, <1>14 DEF E

LEMMA FollowSound ==
  ASSUME OwnershipInv, NEW a \in Acts, Is(a, TrajectoryKinds), Ready(a)
  PROVE  LET E == Follow(a)
             x == Actor(a)
         IN  /\ E \in [Entities -> EntityRecord]
             /\ \A e \in Entities \ {x} : Sound(E[e], e) /\ Descends(E[e], entity[e])
             /\ Sound(E[x], x) /\ E[x].follower = a
             /\ OwnersOf(E[x]) \subseteq OwnersOf(entity[x]) \cup {a}
<1> DEFINE x == Actor(a)
<1>1. x \in Entities /\ AllSound(entity) /\ a # None /\ None \notin Acts
  BY ActTypes, OwnershipAssumption DEF OwnershipInv
<1>2. CASE Record(a).follower = a
  BY <1>1, <1>2, DescendsReflexive DEF Follow, AllSound, Record
<1>3. CASE Record(a).follower # a
  <2> DEFINE E == TakeLateralForPath(a)
             r == E[x]
  <2>1. /\ AllSound(E) /\ \A e \in Entities : Descends(E[e], entity[e])
        /\ r.follower = None /\ r.lateralOwner = None /\ ~r.axis
        /\ r.active /\ r.lateral /\ a \notin Known(r)
        /\ Is(a, {"timedTrajectory"}) => r.longitudinal
    BY <1>3, PathTaken
  <2>2. CASE Is(a, {"trajectory"})
    <3> DEFINE s == [r EXCEPT !.follower = a]
    <3>1. Follow(a) = [E EXCEPT ![x] = s]
      BY <1>3, <2>2 DEF Follow
    <3> HIDE DEF E
    <3>2. E \in [Entities -> EntityRecord] /\ Sound(r, x) /\ r \in EntityRecord
      BY <1>1, <2>1 DEF AllSound, Sound
    <3>3. s \in EntityRecord /\ s.follower = a /\ s.retired = r.retired
          /\ s.active = r.active /\ s.lateral = r.lateral /\ s.longitudinal = r.longitudinal
          /\ s.longitudinalOwner = r.longitudinalOwner /\ s.controller = r.controller
          /\ s.continuous = r.continuous /\ s.lateralOwner = r.lateralOwner
          /\ s.axis = r.axis /\ s.transition = r.transition
      BY <3>2 DEF EntityRecord
    <3> HIDE DEF r, s
    <3>4. Consistent(s, x)
      BY <1>1, <2>1, <3>2, <3>3 DEF Consistent, Sound, Known
    <3>5. Paired(s)
      BY <1>1, <2>1, <2>2, <3>2, <3>3, KindsApart DEF Paired, Sound
    <3>6. Sound(s, x) /\ OwnersOf(s) \subseteq OwnersOf(r) \cup {a}
      BY <3>2, <3>3, <3>4, <3>5 DEF Sound, OwnersOf
    <3>7. Descends(r, entity[x])
      BY <1>1, <2>1 DEF r
    <3>8. OwnersOf(s) \subseteq OwnersOf(entity[x]) \cup {a}
      BY <3>6, <3>7 DEF Descends
    <3>9. [E EXCEPT ![x] = s] \in [Entities -> EntityRecord] /\ [E EXCEPT ![x] = s][x] = s
          /\ \A e \in Entities \ {x} : [E EXCEPT ![x] = s][e] = E[e]
      BY <1>1, <3>2, <3>3
    <3> QED BY <2>1, <3>1, <3>3, <3>6, <3>8, <3>9 DEF AllSound
  <2>3. CASE Is(a, {"timedTrajectory"})
    <3> DEFINE F == SupersedeLongitudinal(E, x, a)
               q == F[x]
               t == FreeLongitudinal(q)
               s == [t EXCEPT !.longitudinalOwner = a, !.follower = a]
    <3>1. Follow(a) = [F EXCEPT ![x] = s]
      BY <1>3, <2>3 DEF Follow, Is
    <3>2. /\ F \in [Entities -> EntityRecord]
          /\ \A e \in Entities \ {x} : Sound(F[e], e)
          /\ \A e \in Entities : Descends(F[e], E[e])
          /\ r.longitudinalOwner # a => Vacated(q, x)
      BY <1>1, <2>1, SupersedeLongitudinalSound
    <3> HIDE DEF F, E
    <3>3. Vacated(q, x) /\ q \in EntityRecord /\ Descends(q, r) /\ Descends(r, entity[x])
      BY <1>1, <2>1, <3>2 DEF Known, OwnersOf, Vacated
    <3>4. q.follower = None /\ q.lateralOwner = None
      <4>1. /\ Sound(r, x) /\ q.follower \in Acts \cup {None} /\ q.lateralOwner \in Acts \cup {None}
            /\ r.longitudinalOwner \in Acts \cup {None}
        BY <1>1, <2>1, <3>3 DEF AllSound, Sound, EntityRecord
      <4>2. /\ q.lateralOwner # None => q.lateralOwner = r.longitudinalOwner
            /\ q.follower # None => q.follower = r.longitudinalOwner
        BY <2>1, <3>3, <4>1 DEF Descends, OwnersOf
      <4>3. q.lateralOwner = None
        BY <3>3, <4>1, <4>2, <1>1, KindsApart DEF Vacated, Sound, Consistent
      <4>4. q.follower = None
        BY <3>3, <4>1, <4>2, <1>1, KindsApart DEF Vacated, Sound, Consistent
      <4> QED BY <4>3, <4>4
    <3>5. /\ q.active /\ q.lateral /\ q.longitudinal /\ a \notin Known(q)
      BY <2>1, <2>3, <3>3 DEF Descends
    <3>6. ~q.axis
      BY <2>1, <3>3 DEF Descends
    <3>7. /\ t \in EntityRecord /\ t.longitudinalOwner = None
          /\ ~t.controller /\ ~t.continuous
          /\ t.active = q.active /\ t.lateral = q.lateral /\ t.longitudinal = q.longitudinal
          /\ t.lateralOwner = q.lateralOwner /\ t.axis = q.axis /\ t.retired = q.retired
      BY <3>3, FreeLongitudinalFields
    <3> HIDE DEF q, t, r
    <3>8. /\ s \in EntityRecord /\ s.longitudinalOwner = a /\ s.follower = a
          /\ ~s.controller /\ ~s.continuous
          /\ s.active /\ s.lateral /\ s.longitudinal
          /\ s.lateralOwner = None /\ ~s.axis /\ s.retired = q.retired
      BY <3>4, <3>5, <3>6, <3>7 DEF EntityRecord
    <3> HIDE DEF s
    <3>9. Is(a, DrivesSpeed) /\ ~Is(a, {"speed"})
      BY <2>3, KindsApart
    <3>10. Consistent(s, x)
      BY <1>1, <3>5, <3>8, <3>9 DEF Consistent, Known
    <3>11. Sound(s, x)
      BY <3>5, <3>8, <3>10 DEF Sound, Paired, Known
    <3>12. OwnersOf(s) = {a}
      BY <1>1, <3>8 DEF OwnersOf
    <3>13. /\ [F EXCEPT ![x] = s] \in [Entities -> EntityRecord] /\ [F EXCEPT ![x] = s][x] = s
           /\ \A e \in Entities \ {x} : [F EXCEPT ![x] = s][e] = F[e]
      BY <1>1, <3>2, <3>8
    <3>14. \A e \in Entities \ {x} : Descends(F[e], entity[e])
      BY <2>1, <3>2, DescendsTransitive
    <3> QED BY <3>1, <3>2, <3>8, <3>11, <3>12, <3>13, <3>14 DEF s
  <2> QED BY <2>2, <2>3, KindsApart
<1> QED BY <1>2, <1>3

LEMMA FinishedSound ==
  ASSUME NEW a \in Acts, Is(a, TrajectoryKinds), NEW r, Sound(r, Actor(a)), r.follower = a
  PROVE  /\ Sound(Finished(r, a), Actor(a))
         /\ OwnersOf(Finished(r, a)) \subseteq OwnersOf(r) /\ a \notin OwnersOf(Finished(r, a))
<1> DEFINE x == Actor(a)
           o == IF Is(a, {"timedTrajectory"}) THEN None ELSE r.longitudinalOwner
           s == Finished(r, a)
<1>1. r \in EntityRecord /\ Consistent(r, x) /\ Paired(r) /\ a # None /\ None \notin Acts
  BY OwnershipAssumption DEF Sound
<1>2. s = [r EXCEPT !.follower = None, !.moved = TRUE, !.longitudinalOwner = o]
  BY DEF Finished
<1>3. o \in Acts \cup {None} /\ (o # None => o = r.longitudinalOwner /\ o # a)
  BY <1>1, KindsApart DEF EntityRecord, Consistent
<1>4. Is(a, {"timedTrajectory"}) => r.longitudinalOwner = a /\ ~r.controller /\ ~r.continuous
  BY <1>1, KindsApart DEF Paired, Consistent
<1>5. ~Is(a, {"timedTrajectory"}) => o = r.longitudinalOwner
  OBVIOUS
<1> HIDE DEF s, o
<1>6. /\ s \in EntityRecord /\ s.follower = None /\ s.longitudinalOwner = o
      /\ s.active = r.active /\ s.lateral = r.lateral /\ s.longitudinal = r.longitudinal
      /\ s.lateralOwner = r.lateralOwner /\ s.transition = r.transition /\ s.axis = r.axis
      /\ s.controller = r.controller /\ s.continuous = r.continuous /\ s.retired = r.retired
  BY <1>1, <1>2, <1>3 DEF EntityRecord
<1>7. Consistent(s, x)
  BY <1>1, <1>3, <1>4, <1>5, <1>6 DEF Consistent
<1>8. Paired(s)
  <2>1. SUFFICES ASSUME NEW b \in Acts, Is(b, {"timedTrajectory"}) PROVE o # b
    BY <1>1, <1>6 DEF Paired
  <2>2. b # None /\ (r.follower = b <=> r.longitudinalOwner = b)
    BY <1>1, <2>1 DEF Paired
  <2> QED BY <1>3, <2>2
<1>9. s.longitudinalOwner \notin s.retired
  BY <1>1, <1>3, <1>6 DEF Sound, EntityRecord
<1>10. OwnersOf(s) \subseteq OwnersOf(r) /\ a \notin OwnersOf(s)
  BY <1>1, <1>3, <1>6, KindsApart DEF OwnersOf, Consistent
<1> QED BY <1>6, <1>7, <1>8, <1>9, <1>10 DEF Sound, s

LEMMA MovedSound ==
  ASSUME NEW e \in Entities, NEW r, NEW b \in BOOLEAN, Sound(r, e)
  PROVE  /\ Sound([r EXCEPT !.moved = b], e)
         /\ OwnersOf([r EXCEPT !.moved = b]) = OwnersOf(r)
<1> DEFINE s == [r EXCEPT !.moved = b]
<1>1. r \in EntityRecord
  BY DEF Sound
<1>2. /\ s \in EntityRecord /\ s.follower = r.follower
      /\ s.longitudinalOwner = r.longitudinalOwner
      /\ s.active = r.active /\ s.lateral = r.lateral /\ s.longitudinal = r.longitudinal
      /\ s.lateralOwner = r.lateralOwner /\ s.transition = r.transition /\ s.axis = r.axis
      /\ s.controller = r.controller /\ s.continuous = r.continuous /\ s.retired = r.retired
  BY <1>1 DEF EntityRecord
<1> HIDE DEF s
<1>3. Consistent(s, e) /\ Paired(s) /\ OwnersOf(s) = OwnersOf(r)
  BY <1>2 DEF Sound, Consistent, Paired, OwnersOf
<1> QED BY <1>2, <1>3 DEF Sound, s

LEMMA ApplyTrajectoryKeeps ==
  ASSUME OwnershipInv, NEW a \in Acts, ApplyTrajectory(a)
  PROVE  OwnershipInv'
<1> DEFINE x == Actor(a)
           E == Follow(a)
<1>1. Is(a, TrajectoryKinds) /\ Ready(a) /\ x \in Entities
  BY ActTypes DEF ApplyTrajectory
<1>2. /\ E \in [Entities -> EntityRecord]
      /\ \A e \in Entities \ {x} : Sound(E[e], e) /\ Descends(E[e], entity[e])
      /\ Sound(E[x], x) /\ E[x].follower = a
      /\ OwnersOf(E[x]) \subseteq OwnersOf(entity[x]) \cup {a}
  BY <1>1, FollowSound
<1>3. \/ Answer(a, [E EXCEPT ![x] = Finished(E[x], a)], "Complete")
      \/ Answer(a, [E EXCEPT ![x] = [E[x] EXCEPT !.moved = TRUE]], "Running")
      \/ Answer(a, E, "Running")
  BY DEF ApplyTrajectory
<1> HIDE DEF E
<1>4. E = [E EXCEPT ![x] = E[x]]
  BY <1>2
<1>5. CASE Answer(a, [E EXCEPT ![x] = Finished(E[x], a)], "Complete")
  <2>1. /\ Sound(Finished(E[x], a), x)
        /\ OwnersOf(Finished(E[x], a)) \subseteq OwnersOf(E[x])
        /\ a \notin OwnersOf(Finished(E[x], a))
    BY <1>1, <1>2, FinishedSound
  <2> QED BY <1>2, <1>5, <2>1, InstalledKeeps
<1>6. CASE Answer(a, [E EXCEPT ![x] = [E[x] EXCEPT !.moved = TRUE]], "Running")
  <2>1. /\ Sound([E[x] EXCEPT !.moved = TRUE], x)
        /\ OwnersOf([E[x] EXCEPT !.moved = TRUE]) = OwnersOf(E[x])
    BY <1>1, <1>2, MovedSound
  <2> QED BY <1>2, <1>6, <2>1, InstalledKeeps
<1>7. CASE Answer(a, E, "Running")
  <2>1. Answer(a, [E EXCEPT ![x] = E[x]], "Running")
    BY <1>4, <1>7
  <2> QED BY <1>2, <2>1, InstalledKeeps
<1> QED BY <1>3, <1>5, <1>6, <1>7

---------------------------------------------------------------------------
(* Calls that install nothing.                                             *)

\* Records that are sound and own no more than before.
Shrinks(F, E) ==
  AllSound(F) /\ \A e \in Entities : OwnersOf(F[e]) \subseteq OwnersOf(E[e])

LEMMA ShrinkKeeps ==
  ASSUME OwnershipInv, NEW a \in Acts, NEW E, NEW reports, Shrinks(E, entity),
         Answer(a, E, reports), reports = "Running" \/ a \notin OwnersOf(E[Actor(a)])
  PROVE  OwnershipInv'
BY AnswerKeeps DEF Shrinks

\* A record replaced by a sound one that owns no more.
LEMMA ReplacedShrinks ==
  ASSUME NEW E, AllSound(E), NEW x \in Entities, NEW s, Sound(s, x),
         OwnersOf(s) \subseteq OwnersOf(E[x])
  PROVE  Shrinks([E EXCEPT ![x] = s], E) /\ [E EXCEPT ![x] = s][x] = s
<1>1. E \in [Entities -> EntityRecord] /\ s \in EntityRecord
  BY DEF AllSound, Sound
<1> DEFINE F == [E EXCEPT ![x] = s]
<1>2. /\ F \in [Entities -> EntityRecord] /\ F[x] = s
      /\ \A e \in Entities \ {x} : F[e] = E[e]
  BY <1>1
<1> HIDE DEF F
<1>3. Shrinks(F, E)
  BY <1>2 DEF Shrinks, AllSound
<1> QED BY <1>2, <1>3 DEF F

LEMMA ShrinksTransitive ==
  ASSUME NEW E, NEW F, NEW G, Shrinks(F, E), Shrinks(G, F)
  PROVE  Shrinks(G, E)
BY DEF Shrinks

\* A record without a longitudinal owner needs no vacating.
LEMMA SoundIsVacated ==
  ASSUME NEW e \in Entities, NEW r, Sound(r, e),
         r.longitudinalOwner = None \/ ~Is(r.longitudinalOwner, {"timedTrajectory"})
  PROVE  Vacated(r, e)
<1>1. r \in EntityRecord /\ None \notin Acts
  BY OwnershipAssumption DEF Sound
<1>2. r.follower # None => Is(r.follower, {"trajectory"})
  BY <1>1, KindsApart DEF Sound, Paired, Consistent, EntityRecord
<1> QED BY <1>1, <1>2 DEF Sound, Vacated

LEMMA IdleCallKeeps ==
  ASSUME OwnershipInv, NEW a \in Acts,
         \/ ApplyToInactive(a) \/ ApplyDeactivated(a) \/ ApplyStepSpeed(a)
  PROVE  OwnershipInv'
<1> DEFINE x == Actor(a)
           r == entity[x]
<1>1. x \in Entities /\ AllSound(entity) /\ Sound(r, x)
  BY ActTypes DEF OwnershipInv, AllSound
<1>2. Answer(a, entity, "Complete")
  BY DEF ApplyToInactive, ApplyDeactivated, ApplyStepSpeed
<1>3. Consistent(r, x) /\ Paired(r) /\ a # None /\ r \in EntityRecord
  BY <1>1, OwnershipAssumption DEF Sound
<1>4. a \notin OwnersOf(r)
  <2>1. CASE ApplyToInactive(a)
    BY <1>3, <2>1 DEF ApplyToInactive, Record, Consistent, OwnersOf
  <2>2. CASE ApplyStepSpeed(a)
    BY <1>3, <2>2, KindsApart DEF ApplyStepSpeed, Consistent, OwnersOf, Is, LateralKinds, TrajectoryKinds
  <2>3. CASE ApplyDeactivated(a)
    <3>1. (~r.lateral /\ NeedsLateral(a)) \/ (~r.longitudinal /\ NeedsLongitudinal(a))
      <4>1. ~DomainsActive(a)
        BY <2>3 DEF ApplyDeactivated
      <4> QED BY <4>1 DEF DomainsActive, Record
    <3>2. CASE ~r.lateral /\ NeedsLateral(a)
      <4>1. Is(a, LateralKinds) \/ Is(a, TrajectoryKinds)
        BY <3>2 DEF NeedsLateral, Is
      <4>2. r.lateralOwner = None /\ r.follower = None
        BY <1>3, <3>2 DEF Consistent
      <4>3. a # r.longitudinalOwner
        <5>1. Is(a, DrivesSpeed) => Is(a, {"timedTrajectory"})
          BY <4>1, KindsApart
        <5> QED BY <1>3, <4>2, <5>1 DEF Consistent, Paired
      <4> QED BY <1>3, <4>2, <4>3 DEF OwnersOf
    <3>3. CASE ~r.longitudinal /\ NeedsLongitudinal(a)
      <4>1. Is(a, DrivesSpeed)
        BY <3>3 DEF NeedsLongitudinal, Is, DrivesSpeed
      <4>2. r.longitudinalOwner = None
        BY <1>3, <3>3 DEF Consistent
      <4>3. a # r.lateralOwner
        BY <1>3, <4>1, KindsApart DEF Consistent
      <4>4. a # r.follower
        <5>1. Is(a, TrajectoryKinds) => Is(a, {"timedTrajectory"})
          BY <4>1, KindsApart
        <5> QED BY <1>3, <4>2, <5>1 DEF Consistent, Paired
      <4> QED BY <1>3, <4>2, <4>3, <4>4 DEF OwnersOf
    <3> QED BY <3>1, <3>2, <3>3
  <2> QED BY <2>1, <2>2, <2>3
<1>5. Shrinks(entity, entity)
  BY <1>1 DEF Shrinks
<1> QED BY <1>2, <1>4, <1>5, ShrinkKeeps

LEMMA ApplyRetiredKeeps ==
  ASSUME OwnershipInv, NEW a \in Acts, ApplyRetired(a)
  PROVE  OwnershipInv'
<1> DEFINE x == Actor(a)
           r == entity[x]
           s == [r EXCEPT !.retired = @ \ {a}]
<1>1. x \in Entities /\ AllSound(entity) /\ Sound(r, x)
  BY ActTypes DEF OwnershipInv, AllSound
<1>2. a \in r.retired
  BY DEF ApplyRetired, Record
<1>3. r \in EntityRecord /\ a # None
  BY <1>1, OwnershipAssumption DEF Sound
<1>4. Answer(a, [entity EXCEPT ![x] = s], "Complete")
  BY <1>1 DEF ApplyRetired, AllSound
<1>5. /\ s \in EntityRecord /\ s.follower = r.follower
      /\ s.longitudinalOwner = r.longitudinalOwner
      /\ s.active = r.active /\ s.lateral = r.lateral /\ s.longitudinal = r.longitudinal
      /\ s.lateralOwner = r.lateralOwner /\ s.transition = r.transition /\ s.axis = r.axis
      /\ s.controller = r.controller /\ s.continuous = r.continuous
      /\ s.retired = r.retired \ {a}
  BY <1>3 DEF EntityRecord
<1> HIDE DEF s
<1>6. Sound(s, x) /\ OwnersOf(s) = OwnersOf(r)
  BY <1>1, <1>5 DEF Sound, Consistent, Paired, OwnersOf
<1>7. a \notin OwnersOf(r)
  BY <1>1, <1>2 DEF Sound, Consistent, OwnersOf
<1> QED BY <1>1, <1>4, <1>6, <1>7, ReplacedShrinks, ShrinkKeeps

LEMMA ApplyWithoutSpeedReferenceKeeps ==
  ASSUME OwnershipInv, NEW a \in Acts, ApplyWithoutSpeedReference(a)
  PROVE  OwnershipInv'
<1> DEFINE x == Actor(a)
           r == entity[x]
           s == IF r.longitudinalOwner = a THEN FreeLongitudinal(r) ELSE r
<1>1. x \in Entities /\ AllSound(entity) /\ Sound(r, x) /\ a # None
  BY ActTypes, OwnershipAssumption DEF OwnershipInv, AllSound
<1>2. Is(a, {"speed"}) \/ Is(a, {"continuousSpeed"})
  BY DEF ApplyWithoutSpeedReference, SpeedRefGone, Is
<1>3. Answer(a, [entity EXCEPT ![x] = s], "Complete")
  BY <1>1 DEF ApplyWithoutSpeedReference, AllSound
<1>4. ~Is(a, LateralKinds) /\ ~Is(a, TrajectoryKinds) /\ ~Is(a, {"timedTrajectory"})
  BY <1>2 DEF Is, LateralKinds, TrajectoryKinds
<1>5. Sound(s, x) /\ OwnersOf(s) \subseteq OwnersOf(r) /\ a \notin OwnersOf(s)
  <2>1. a # r.lateralOwner /\ a # r.follower
    BY <1>1, <1>4 DEF Sound, Consistent
  <2>2. CASE r.longitudinalOwner = a
    <3>1. Vacated(r, x)
      BY <1>1, <1>4, <2>2, SoundIsVacated
    <3>0. s = FreeLongitudinal(r)
      BY <2>2
    <3> HIDE DEF s
    <3>2. Sound(s, x) /\ Descends(s, r) /\ r \in EntityRecord
      BY <1>1, <3>0, <3>1, FreeLongitudinalSound DEF Vacated
    <3>3. s.longitudinalOwner = None /\ s.lateralOwner = r.lateralOwner /\ s.follower = r.follower
      BY <3>0, <3>2, FreeLongitudinalFields
    <3> QED BY <1>1, <2>1, <3>2, <3>3 DEF OwnersOf, Descends
  <2>3. CASE r.longitudinalOwner # a
    BY <1>1, <2>1, <2>3 DEF OwnersOf
  <2> QED BY <2>2, <2>3
<1> HIDE DEF s
<1> QED BY <1>1, <1>3, <1>5, ReplacedShrinks, ShrinkKeeps

LEMMA SwitchLongitudinalShrinks ==
  ASSUME NEW E, AllSound(E), NEW x \in Entities, NEW flag \in Flags
  PROVE  Shrinks(SwitchLongitudinal(E, x, flag), E)
<1> DEFINE F == SupersedeLongitudinal(E, x, None)
           G == IF flag = "off" /\ E[x].longitudinal THEN ReleaseLongitudinal(E, x) ELSE E
<1>1. Shrinks(ReleaseLongitudinal(E, x), E)
      /\ ReleaseLongitudinal(E, x)[x].longitudinalOwner = None
  <2>1. /\ F \in [Entities -> EntityRecord]
        /\ \A e \in Entities \ {x} : Sound(F[e], e)
        /\ \A e \in Entities : Descends(F[e], E[e])
        /\ Vacated(F[x], x)
    BY SupersedeLongitudinalSound
  <2>2. ReleaseLongitudinal(E, x) = [F EXCEPT ![x] = FreeLongitudinal(F[x])]
    BY DEF ReleaseLongitudinal
  <2> HIDE DEF F
  <2> DEFINE s == FreeLongitudinal(F[x])
             H == [F EXCEPT ![x] = s]
  <2>3. Sound(s, x) /\ Descends(s, F[x])
    BY <2>1, FreeLongitudinalSound
  <2>4. s \in EntityRecord /\ s.longitudinalOwner = None
    BY <2>1, FreeLongitudinalFields
  <2> HIDE DEF s
  <2>5. /\ H \in [Entities -> EntityRecord] /\ H[x] = s
        /\ \A e \in Entities \ {x} : H[e] = F[e]
    BY <2>1, <2>4
  <2> HIDE DEF H
  <2>6. Shrinks(H, E) /\ H[x].longitudinalOwner = None
    BY <2>1, <2>3, <2>4, <2>5 DEF Shrinks, AllSound, Descends
  <2> QED BY <2>2, <2>6 DEF H, s
<1>2. Shrinks(G, E) /\ (flag = "off" => G[x].longitudinalOwner = None)
  <2>1. Shrinks(E, E)
    BY DEF Shrinks
  <2>2. ~E[x].longitudinal => E[x].longitudinalOwner = None
    BY DEF AllSound, Sound, Consistent
  <2> QED BY <1>1, <2>1, <2>2
<1>3. SwitchLongitudinal(E, x, flag) =
        IF flag = "keep" THEN G ELSE [G EXCEPT ![x].longitudinal = flag = "on"]
  BY DEF SwitchLongitudinal
<1> HIDE DEF G
<1>4. ASSUME flag # "keep" PROVE Shrinks([G EXCEPT ![x].longitudinal = flag = "on"], G)
  <2> DEFINE b == flag = "on"
             s == [G[x] EXCEPT !.longitudinal = b]
  <2>1. b \in BOOLEAN /\ (~b => G[x].longitudinalOwner = None)
    BY <1>2, <1>4 DEF Flags
  <2>2. AllSound(G) /\ Sound(G[x], x) /\ G[x] \in EntityRecord
    BY <1>2 DEF Shrinks, AllSound, Sound
  <2> HIDE DEF b
  <2>3. /\ s \in EntityRecord /\ s.follower = G[x].follower
        /\ s.longitudinalOwner = G[x].longitudinalOwner
        /\ s.active = G[x].active /\ s.lateral = G[x].lateral /\ s.longitudinal = b
        /\ s.lateralOwner = G[x].lateralOwner /\ s.transition = G[x].transition
        /\ s.axis = G[x].axis /\ s.controller = G[x].controller
        /\ s.continuous = G[x].continuous /\ s.retired = G[x].retired
    BY <2>1, <2>2 DEF EntityRecord
  <2> HIDE DEF s
  <2>4. Sound(s, x) /\ OwnersOf(s) \subseteq OwnersOf(G[x])
    BY <2>1, <2>2, <2>3 DEF Sound, Consistent, Paired, OwnersOf
  <2>5. Shrinks([G EXCEPT ![x] = s], G)
    BY <2>2, <2>4, ReplacedShrinks
  <2> QED BY <2>5 DEF s, b
<1> QED BY <1>2, <1>3, <1>4, ShrinksTransitive

LEMMA SwitchLateralShrinks ==
  ASSUME NEW E, AllSound(E), NEW x \in Entities, NEW flag \in Flags
  PROVE  Shrinks(SwitchLateral(E, x, flag), E)
<1> DEFINE F == SupersedeLateral(E, x, None)
           G == IF flag = "off" /\ E[x].lateral THEN ReleaseLateral(E, x) ELSE E
<1>1. /\ Shrinks(ReleaseLateral(E, x), E)
      /\ ReleaseLateral(E, x)[x].lateralOwner = None /\ ReleaseLateral(E, x)[x].follower = None
  <2>1. /\ AllSound(F) /\ \A e \in Entities : Descends(F[e], E[e])
        /\ F[x].lateralOwner = None /\ F[x].follower = None
    BY SupersedeLateralSound
  <2>2. ReleaseLateral(E, x) = [F EXCEPT ![x] = Dissolved(F[x])]
    BY DEF ReleaseLateral
  <2> HIDE DEF F
  <2> DEFINE s == Dissolved(F[x])
             H == [F EXCEPT ![x] = s]
  <2>3. Sound(F[x], x) /\ F[x] \in EntityRecord
    BY <2>1 DEF AllSound, Sound
  <2>4. Sound(s, x) /\ Descends(s, F[x])
    BY <2>3, DissolvedSound
  <2>5. s.lateralOwner = F[x].lateralOwner /\ s.follower = F[x].follower
    BY <2>3, DissolvedFields
  <2> HIDE DEF s
  <2>6. Shrinks(H, F) /\ H[x] = s
    BY <2>1, <2>4, ReplacedShrinks DEF Descends
  <2> HIDE DEF H
  <2>7. Shrinks(F, E)
    BY <2>1 DEF Shrinks, Descends
  <2>8. Shrinks(H, E) /\ H[x].lateralOwner = None /\ H[x].follower = None
    BY <2>1, <2>5, <2>6, <2>7, ShrinksTransitive
  <2> QED BY <2>2, <2>8 DEF H, s
<1>2. Shrinks(G, E) /\ (flag = "off" => G[x].lateralOwner = None /\ G[x].follower = None)
  <2>1. Shrinks(E, E)
    BY DEF Shrinks
  <2>2. ~E[x].lateral => E[x].lateralOwner = None /\ E[x].follower = None
    BY DEF AllSound, Sound, Consistent
  <2> QED BY <1>1, <2>1, <2>2
<1>3. SwitchLateral(E, x, flag) =
        IF flag = "keep" THEN G ELSE [G EXCEPT ![x].lateral = flag = "on"]
  BY DEF SwitchLateral
<1> HIDE DEF G
<1>4. ASSUME flag # "keep" PROVE Shrinks([G EXCEPT ![x].lateral = flag = "on"], G)
  <2> DEFINE b == flag = "on"
             s == [G[x] EXCEPT !.lateral = b]
  <2>1. b \in BOOLEAN /\ (~b => G[x].lateralOwner = None /\ G[x].follower = None)
    BY <1>2, <1>4 DEF Flags
  <2>2. AllSound(G) /\ Sound(G[x], x) /\ G[x] \in EntityRecord
    BY <1>2 DEF Shrinks, AllSound, Sound
  <2> HIDE DEF b
  <2>3. /\ s \in EntityRecord /\ s.follower = G[x].follower
        /\ s.longitudinalOwner = G[x].longitudinalOwner
        /\ s.active = G[x].active /\ s.lateral = b /\ s.longitudinal = G[x].longitudinal
        /\ s.lateralOwner = G[x].lateralOwner /\ s.transition = G[x].transition
        /\ s.axis = G[x].axis /\ s.controller = G[x].controller
        /\ s.continuous = G[x].continuous /\ s.retired = G[x].retired
    BY <2>1, <2>2 DEF EntityRecord
  <2> HIDE DEF s
  <2>4. Sound(s, x) /\ OwnersOf(s) \subseteq OwnersOf(G[x])
    BY <2>1, <2>2, <2>3 DEF Sound, Consistent, Paired, OwnersOf
  <2>5. Shrinks([G EXCEPT ![x] = s], G)
    BY <2>2, <2>4, ReplacedShrinks
  <2> QED BY <2>5 DEF s, b
<1> QED BY <1>2, <1>3, <1>4, ShrinksTransitive

LEMMA ApplyControllerKeeps ==
  ASSUME OwnershipInv, NEW a \in Acts, ApplyController(a)
  PROVE  OwnershipInv'
<1> DEFINE x == Actor(a)
           E == SwitchLateral(entity, x, Do[a].lateral)
           F == SwitchLongitudinal(E, x, Do[a].longitudinal)
<1>1. /\ x \in Entities /\ AllSound(entity)
      /\ Do[a].lateral \in Flags /\ Do[a].longitudinal \in Flags
  BY ActTypes DEF OwnershipInv, Descriptions
<1>2. Shrinks(E, entity)
  BY <1>1, SwitchLateralShrinks
<1>3. Answer(a, F, "Complete")
  BY DEF ApplyController
<1> HIDE DEF E
<1>4. Shrinks(F, entity)
  <2>1. Shrinks(F, E)
    BY <1>1, <1>2, SwitchLongitudinalShrinks DEF Shrinks
  <2> QED BY <1>2, <2>1, ShrinksTransitive
<1> HIDE DEF F
<1>5. a \notin OwnersOf(F[x])
  <2>1. AllSound(F)
    BY <1>4 DEF Shrinks
  <2>2. ~Is(a, DrivesSpeed) /\ ~Is(a, LateralKinds) /\ ~Is(a, TrajectoryKinds)
    BY DEF ApplyController, Is, DrivesSpeed, LongitudinalKinds, LateralKinds, TrajectoryKinds
  <2> QED BY <1>1, <2>1, <2>2, OwnersAreActs
<1> QED BY <1>3, <1>4, <1>5, ShrinkKeeps

LEMMA ApplyAddKeeps ==
  ASSUME OwnershipInv, NEW a \in Acts, ApplyAdd(a)
  PROVE  OwnershipInv'
<1> DEFINE x == Actor(a)
           r == entity[x]
           s == [r EXCEPT !.active = TRUE]
<1>1. x \in Entities /\ AllSound(entity) /\ Sound(r, x)
  BY ActTypes DEF OwnershipInv, AllSound
<1>2. \/ Answer(a, [entity EXCEPT ![x] = s], "Complete") \/ Answer(a, entity, "Complete")
  BY <1>1 DEF ApplyAdd, AllSound
<1>3. r \in EntityRecord
  BY <1>1 DEF Sound
<1>4. /\ s \in EntityRecord /\ s.follower = r.follower
      /\ s.longitudinalOwner = r.longitudinalOwner
      /\ s.active /\ s.lateral = r.lateral /\ s.longitudinal = r.longitudinal
      /\ s.lateralOwner = r.lateralOwner /\ s.transition = r.transition /\ s.axis = r.axis
      /\ s.controller = r.controller /\ s.continuous = r.continuous
      /\ s.retired = r.retired
  BY <1>3 DEF EntityRecord
<1> HIDE DEF s
<1>5. Sound(s, x) /\ OwnersOf(s) = OwnersOf(r)
  BY <1>1, <1>4 DEF Sound, Consistent, Paired, OwnersOf
<1>6. a \notin OwnersOf(r)
  <2>1. ~Is(a, DrivesSpeed) /\ ~Is(a, LateralKinds) /\ ~Is(a, TrajectoryKinds)
    BY DEF ApplyAdd, Is, DrivesSpeed, LongitudinalKinds, LateralKinds, TrajectoryKinds
  <2> QED BY <1>1, <2>1, OwnersAreActs
<1>7. Shrinks(entity, entity)
  BY <1>1 DEF Shrinks
<1>8. Shrinks([entity EXCEPT ![x] = s], entity) /\ [entity EXCEPT ![x] = s][x] = s
  BY <1>1, <1>5, ReplacedShrinks
<1> QED BY <1>2, <1>5, <1>6, <1>7, <1>8, ShrinkKeeps

---------------------------------------------------------------------------
(* Steps that are no answer of apply().                                    *)

\* An owner that is no longer polled has lost what it owned.
LEMMA ShrinkStep ==
  ASSUME OwnershipInv, TypeOK', Shrinks(entity', entity),
         \A b \in Acts : Polled(b) => Polled(b)' \/ \A e \in Entities : b \notin OwnersOf(entity'[e])
  PROVE  OwnershipInv'
<1>1. AllSound(entity')
  BY DEF Shrinks
<1>2. AllSound(entity)'
  BY <1>1 DEF AllSound, Sound, Consistent, Paired
<1>3. ASSUME NEW e \in Entities, NEW b \in OwnersOf(entity'[e]) PROVE Polled(b)'
  <2>1. b \in Acts
    BY <1>1, <1>3, OwnersAreActs
  <2>2. b \in OwnersOf(entity[e])
    BY <1>3 DEF Shrinks
  <2>3. Polled(b)
    BY <2>2 DEF OwnershipInv
  <2> QED BY <1>3, <2>1, <2>3
<1>4. (\A e \in Entities : \A b \in OwnersOf(entity[e]) : Polled(b))'
  BY <1>3 DEF OwnersOf
<1> QED BY <1>2, <1>4 DEF OwnershipInv

LEMMA UnchangedStep ==
  ASSUME OwnershipInv, TypeOK', UNCHANGED <<entity, running>>
  PROVE  OwnershipInv'
<1>1. Shrinks(entity', entity)
  BY DEF Shrinks, OwnershipInv
<1>2. \A b \in Acts : Polled(b) => Polled(b)'
  BY DEF Polled
<1> QED BY <1>1, <1>2, ShrinkStep

LEMMA StoppedSound ==
  ASSUME NEW e \in Entities, NEW a \in Acts, NEW r, Sound(r, e)
  PROVE  /\ Sound(StoppedRecord(r, a), e)
         /\ OwnersOf(StoppedRecord(r, a)) \subseteq OwnersOf(r)
         /\ a \notin OwnersOf(StoppedRecord(r, a))
<1> DEFINE s == IF r.longitudinalOwner = a THEN FreeLongitudinal(r) ELSE r
           t == IF s.lateralOwner = a THEN Dissolved(FreeLateral(s)) ELSE s
           path == IF t.follower = a THEN None ELSE t.follower
           u == [t EXCEPT !.follower = path, !.retired = @ \ {a}]
<1>1. StoppedRecord(r, a) = u
  BY DEF StoppedRecord
<1>2. r \in EntityRecord /\ Consistent(r, e) /\ Paired(r) /\ a # None /\ None \notin Acts
  BY OwnershipAssumption DEF Sound
<1>3. /\ s \in EntityRecord
      /\ s.longitudinalOwner = IF r.longitudinalOwner = a THEN None ELSE r.longitudinalOwner
      /\ s.controller => r.controller /\ r.longitudinalOwner # a
      /\ s.continuous => r.continuous /\ r.longitudinalOwner # a
      /\ r.longitudinalOwner # a => s = r
      /\ s.active = r.active /\ s.lateral = r.lateral /\ s.longitudinal = r.longitudinal
      /\ s.lateralOwner = r.lateralOwner /\ s.transition = r.transition
      /\ s.follower = r.follower /\ s.axis = r.axis /\ s.retired = r.retired
  BY <1>2, FreeLongitudinalFields
<1> HIDE DEF s
<1>4. /\ t \in EntityRecord
      /\ t.lateralOwner = IF s.lateralOwner = a THEN None ELSE s.lateralOwner
      /\ s.lateralOwner # a => t.transition = s.transition
      /\ t.axis => s.axis
      /\ t.active = s.active /\ t.lateral = s.lateral /\ t.longitudinal = s.longitudinal
      /\ t.longitudinalOwner = s.longitudinalOwner
      /\ t.controller = s.controller /\ t.continuous = s.continuous
      /\ t.follower = s.follower /\ t.retired = s.retired
  <2>1. CASE s.lateralOwner # a
    BY <1>3, <2>1
  <2>2. CASE s.lateralOwner = a
    <3> DEFINE w == FreeLateral(s)
    <3>1. /\ w \in EntityRecord /\ w.lateralOwner = None /\ w.axis = s.axis
          /\ w.active = s.active /\ w.lateral = s.lateral /\ w.longitudinal = s.longitudinal
          /\ w.longitudinalOwner = s.longitudinalOwner
          /\ w.controller = s.controller /\ w.continuous = s.continuous
          /\ w.follower = s.follower /\ w.retired = s.retired
      BY <1>3 DEF FreeLateral, EntityRecord
    <3> HIDE DEF w
    <3> DEFINE d == Dissolved(w)
    <3>2. /\ d \in EntityRecord /\ ~d.axis /\ d.lateralOwner = w.lateralOwner
          /\ d.active = w.active /\ d.lateral = w.lateral /\ d.longitudinal = w.longitudinal
          /\ d.longitudinalOwner = w.longitudinalOwner
          /\ d.controller = w.controller /\ d.continuous = w.continuous
          /\ d.follower = w.follower /\ d.retired = w.retired
      BY <3>1, DissolvedFields
    <3>3. t = d
      BY <2>2 DEF w
    <3> QED BY <2>2, <3>1, <3>2, <3>3
  <2> QED BY <2>1, <2>2
<1> HIDE DEF t
<1>5. path \in Acts \cup {None} /\ path # a /\ (path # None => path = r.follower)
      /\ (r.follower # a => path = r.follower)
  BY <1>2, <1>3, <1>4 DEF EntityRecord
<1> HIDE DEF path
<1>6. /\ u \in EntityRecord /\ u.follower = path /\ u.retired = t.retired \ {a}
      /\ u.lateralOwner = t.lateralOwner /\ u.transition = t.transition /\ u.axis = t.axis
      /\ u.active = t.active /\ u.lateral = t.lateral /\ u.longitudinal = t.longitudinal
      /\ u.longitudinalOwner = t.longitudinalOwner
      /\ u.controller = t.controller /\ u.continuous = t.continuous
  BY <1>4, <1>5 DEF EntityRecord
<1> HIDE DEF u
<1>7. /\ u.active = r.active /\ u.lateral = r.lateral /\ u.longitudinal = r.longitudinal
      /\ u.longitudinalOwner = IF r.longitudinalOwner = a THEN None ELSE r.longitudinalOwner
      /\ u.lateralOwner = IF r.lateralOwner = a THEN None ELSE r.lateralOwner
      /\ u.retired = r.retired \ {a}
      /\ u.axis => r.axis
  BY <1>3, <1>4, <1>6
<1>8. /\ r.longitudinalOwner # a => (u.controller <=> r.controller)
                                    /\ (u.continuous <=> r.continuous)
      /\ r.longitudinalOwner = a => ~u.controller /\ ~u.continuous
      /\ r.lateralOwner # a => u.transition = r.transition
  BY <1>3, <1>4, <1>6
<1>9. Consistent(u, e)
  <2>1. u.longitudinalOwner # None =>
           u.longitudinalOwner = r.longitudinalOwner /\ r.longitudinalOwner # a
    BY <1>7
  <2>2. u.lateralOwner # None => u.lateralOwner = r.lateralOwner /\ r.lateralOwner # a
    BY <1>7
  <2>3. u.follower # None => u.follower = r.follower /\ u.lateralOwner = None /\ ~u.axis
    BY <1>2, <1>5, <1>6, <1>7 DEF Consistent
  <2> QED BY <1>2, <1>7, <1>8, <2>1, <2>2, <2>3 DEF Consistent
<1>10. Paired(u)
  <2>1. SUFFICES ASSUME NEW b \in Acts, Is(b, {"timedTrajectory"})
                 PROVE  u.follower = b <=> u.longitudinalOwner = b
    BY DEF Paired
  <2>2. r.follower = b <=> r.longitudinalOwner = b
    BY <1>2, <2>1 DEF Paired
  <2> QED BY <1>2, <1>5, <1>6, <1>7, <2>2
<1>11. u.longitudinalOwner \notin u.retired
  BY <1>2, <1>7 DEF Sound, EntityRecord
<1>12. OwnersOf(u) \subseteq OwnersOf(r) /\ a \notin OwnersOf(u)
  BY <1>2, <1>5, <1>6, <1>7 DEF OwnersOf
<1> QED BY <1>1, <1>6, <1>9, <1>10, <1>11, <1>12 DEF Sound

LEMMA StopActionKeeps ==
  ASSUME OwnershipInv, NEW a \in Acts, StopAction(a)
  PROVE  OwnershipInv'
<1> DEFINE x == Actor(a)
           r == entity[x]
           s == StoppedRecord(r, a)
           E == [entity EXCEPT ![x] = s]
<1>1. x \in Entities /\ AllSound(entity) /\ Sound(r, x) /\ TypeOK /\ EventOf[a] \in Events
      /\ entity \in [Entities -> EntityRecord]
  BY ActTypes DEF OwnershipInv, AllSound
<1>2. Sound(s, x) /\ OwnersOf(s) \subseteq OwnersOf(r) /\ a \notin OwnersOf(s)
  BY <1>1, StoppedSound
<1> HIDE DEF s
<1>3. Shrinks(E, entity) /\ E[x] = s
  BY <1>1, <1>2, ReplacedShrinks
<1>4. entity' = IF ~r.active THEN entity ELSE BulkRetired(E, a)
  BY <1>1 DEF StopAction, Record, AllSound, s
<1> HIDE DEF E
<1>5. /\ E \in [Entities -> EntityRecord] /\ \A e \in Entities : Sound(E[e], e)
  BY <1>3 DEF Shrinks, AllSound
<1> DEFINE F == BulkRetired(E, a)
<1>6. /\ F \in [Entities -> EntityRecord] /\ \A e \in Entities : Sound(F[e], e)
      /\ \A e \in Entities : Descends(F[e], E[e])
  BY <1>1, <1>5, BulkRetiredSound
<1> HIDE DEF F
<1>7. Shrinks(F, entity) /\ a \notin OwnersOf(F[x])
  BY <1>1, <1>2, <1>3, <1>6 DEF Shrinks, AllSound, Descends
<1>8. Shrinks(entity', entity) /\ a \notin OwnersOf(entity'[x])
  <2>1. CASE r.active
    BY <1>4, <1>7, <2>1 DEF F
  <2>2. CASE ~r.active
    <3>1. Shrinks(entity, entity)
      BY <1>1 DEF Shrinks
    <3>2. OwnersOf(r) = {}
      BY <1>1, <2>2 DEF Sound, Consistent, OwnersOf
    <3> QED BY <1>4, <2>2, <3>1, <3>2
  <2> QED BY <2>1, <2>2
<1>9. AllSound(entity')
  BY <1>8 DEF Shrinks
<1>10. /\ running' = [running EXCEPT ![EventOf[a]] = @ \ {a}]
       /\ pending' = pending \ {a} /\ stopping' = (pending' # {})
       /\ lost' = lost \cup (Owners(entity) \ Owners(entity'))
       /\ UNCHANGED <<stepping, todo, deleted>>
  BY DEF StopAction
<1>11. TypeOK'
  <2>1. Owners(entity) \subseteq Acts
    BY <1>1, OwnershipTyped
  <2>2. running' \in [Events -> SUBSET Acts]
    BY <1>1, <1>10 DEF TypeOK
  <2>3. entity' \in [Entities -> EntityRecord]
    BY <1>9 DEF AllSound
  <2> QED BY <1>1, <1>10, <2>1, <2>2, <2>3 DEF TypeOK
<1>12. ASSUME NEW b \in Acts, Polled(b)
       PROVE  Polled(b)' \/ \A e \in Entities : b \notin OwnersOf(entity'[e])
  <2>1. CASE b = a
    BY <1>8, <1>9, <2>1, OwnersAreActs
  <2>2. CASE b # a
    <3>1. EventOf[b] \in Events
      BY ActTypes
    <3> QED BY <1>1, <1>10, <1>12, <2>2, <3>1 DEF Polled, TypeOK
  <2> QED BY <2>1, <2>2
<1> QED BY <1>8, <1>11, <1>12, ShrinkStep

LEMMA ApplyDeleteKeeps ==
  ASSUME OwnershipInv, NEW a \in Acts, ApplyDelete(a)
  PROVE  OwnershipInv'
<1> DEFINE x == Actor(a)
           s == Deactivated(entity[x])
<1>1. x \in Entities /\ AllSound(entity) /\ TypeOK /\ None \notin Acts
  BY ActTypes, OwnershipAssumption DEF OwnershipInv
<1>2. Sound(s, x) /\ OwnersOf(s) = {}
  <2>1. /\ s \in EntityRecord /\ s.longitudinalOwner = None /\ s.lateralOwner = None
        /\ s.follower = None /\ ~s.controller /\ ~s.continuous /\ s.retired = {}
    BY DEF Deactivated, Fresh, EntityRecord
  <2> HIDE DEF s
  <2> QED BY <1>1, <2>1 DEF Sound, Consistent, Paired, OwnersOf
<1>3. entity' = [entity EXCEPT ![x] = s] \/ entity' = entity
  BY <1>1 DEF ApplyDelete, AllSound
<1> HIDE DEF s
<1>4. Shrinks(entity', entity)
  <2>1. Shrinks([entity EXCEPT ![x] = s], entity)
    BY <1>1, <1>2, ReplacedShrinks
  <2>2. Shrinks(entity, entity)
    BY <1>1 DEF Shrinks
  <2> QED BY <1>3, <2>1, <2>2
<1>5. TypeOK'
  <2>1. Owners(entity) \subseteq Acts
    BY <1>1, OwnershipTyped DEF TypeOK
  <2> QED BY <1>1, <1>4, <2>1 DEF ApplyDelete, TypeOK, Shrinks, AllSound
<1>6. \A b \in Acts : Polled(b) => Polled(b)'
  BY DEF ApplyDelete, Polled
<1> QED BY <1>4, <1>5, <1>6, ShrinkStep

LEMMA StoryboardStepKeeps ==
  ASSUME OwnershipInv,
         \/ BeginStep
         \/ \E f \in Events : Fire(f) \/ Pass(f) \/ Poll(f) \/ Stop(f)
  PROVE  OwnershipInv'
<1>1. TypeOK
  BY DEF OwnershipInv
<1>2. CASE BeginStep
  BY <1>1, <1>2, UnchangedStep DEF BeginStep, TypeOK
<1>3. ASSUME NEW f \in Events, Fire(f) \/ Pass(f) \/ Poll(f) \/ Stop(f)
      PROVE  OwnershipInv'
  <2>1. Script[f] \in Seq(Acts)
    BY OwnershipAssumption DEF Events
  <2>2. ActsOf(f) \subseteq Acts
    BY <2>1 DEF ActsOf
  <2>3. running[f] \subseteq Acts /\ UNCHANGED <<entity, running>>
    BY <1>1, <1>3 DEF TypeOK, Fire, Pass, Poll, Stop
  <2>4. TypeOK'
    BY <1>1, <1>3, <2>2, <2>3 DEF TypeOK, Fire, Pass, Poll, Stop
  <2> QED BY <2>3, <2>4, UnchangedStep
<1> QED BY <1>2, <1>3

LEMMA IntegratedSound ==
  ASSUME NEW e \in Entities, NEW r, Sound(r, e)
  PROVE  Sound(Integrated(r), e) /\ OwnersOf(Integrated(r)) \subseteq OwnersOf(r)
<1>1. CASE r.moved
  BY <1>1, MovedSound DEF Integrated
<1>2. CASE ~r.moved
  BY <1>2, DissolvedSound DEF Integrated, Descends
<1> QED BY <1>1, <1>2

LEMMA EndStepKeeps ==
  ASSUME OwnershipInv, EndStep
  PROVE  OwnershipInv'
<1>1. TypeOK /\ AllSound(entity)
  BY DEF OwnershipInv
<1>2. entity' = [e \in Entities |->
                  IF entity[e].active /\ e \notin HostControlled THEN Integrated(entity[e])
                  ELSE entity[e]]
  BY DEF EndStep
<1>3. ASSUME NEW e \in Entities
      PROVE  Sound(entity'[e], e) /\ OwnersOf(entity'[e]) \subseteq OwnersOf(entity[e])
  <2>1. Sound(entity[e], e)
    BY <1>1 DEF AllSound
  <2>2. entity'[e] = Integrated(entity[e]) \/ entity'[e] = entity[e]
    BY <1>2
  <2> QED BY <2>1, <2>2, IntegratedSound
<1>4. entity' \in [Entities -> EntityRecord]
  BY <1>2, <1>3 DEF Sound
<1>5. Shrinks(entity', entity)
  BY <1>3, <1>4 DEF Shrinks, AllSound
<1>6. TypeOK' /\ \A b \in Acts : Polled(b) => Polled(b)'
  BY <1>1, <1>4 DEF EndStep, TypeOK, Polled
<1> QED BY <1>5, <1>6, ShrinkStep

LEMMA OwnershipInvInit ==
  ASSUME Init
  PROVE  OwnershipInv
<1>1. /\ Fresh \in EntityRecord /\ Fresh.longitudinalOwner = None /\ Fresh.lateralOwner = None
      /\ Fresh.follower = None /\ ~Fresh.controller /\ ~Fresh.continuous /\ Fresh.retired = {}
  BY DEF Fresh, EntityRecord
<1>2. \A e \in Entities : entity[e] = Fresh
  BY DEF Init
<1>3. TypeOK
  BY <1>1 DEF Init, TypeOK
<1>4. \A e \in Entities : Sound(Fresh, e) /\ OwnersOf(Fresh) = {}
  BY <1>1, OwnershipAssumption DEF Sound, Consistent, Paired, OwnersOf
<1> QED BY <1>2, <1>3, <1>4 DEF OwnershipInv, AllSound, TypeOK

LEMMA OwnershipInvNext ==
  ASSUME OwnershipInv, [Next]_vars
  PROVE  OwnershipInv'
<1>1. CASE UNCHANGED vars
  BY <1>1, UnchangedStep DEF vars, OwnershipInv, TypeOK
<1>2. ASSUME NEW a \in Acts, Apply(a) PROVE OwnershipInv'
  BY <1>2, IdleCallKeeps, ApplyRetiredKeeps, ApplyWithoutSpeedReferenceKeeps, SpeedTakes,
     ContinuousSpeedTakes, DistanceTakes, TakenKeeps, LateralSteers, SteeredKeeps,
     ApplyTrajectoryKeeps,
     ApplyControllerKeeps, ApplyAddKeeps, ApplyDeleteKeeps
     DEF Apply
<1>3. CASE Next
  BY <1>2, <1>3, StoryboardStepKeeps, EndStepKeeps, StopActionKeeps DEF Next
<1> QED BY <1>1, <1>3

---------------------------------------------------------------------------
(* Theorems.                                                               *)

THEOREM OwnershipInvariant == Spec => []OwnershipInv
<1> QED BY OwnershipInvInit, OwnershipInvNext, PTL DEF Spec

\* What the engine keeps of its entities and of the calls of a step is well
\* typed in every scenario.
THEOREM OwnershipTypeCorrect == Spec => []TypeOK
<1>1. OwnershipInv => TypeOK
  BY DEF OwnershipInv
<1> QED BY <1>1, OwnershipInvariant, PTL

\* The domains never overlap, whatever actions compete, are stopped, fall back
\* with their bulk action or lose their actor: no entity is steered twice, and a
\* timed trajectory never holds the speed of an entity it does not move.
THEOREM DomainsStayExclusive == Spec => []DomainsExclusive
<1>1. OwnershipInv => DomainsExclusive
  <2> SUFFICES ASSUME OwnershipInv, NEW e \in Entities
               PROVE  LET r == entity[e] IN
                        /\ r.follower # None => r.lateralOwner = None /\ ~r.axis
                        /\ ~(r.controller /\ r.continuous)
                        /\ \A a \in Acts : Is(a, {"timedTrajectory"}) =>
                             (r.follower = a <=> r.longitudinalOwner = a)
    BY DEF DomainsExclusive
  <2>1. Sound(entity[e], e) /\ entity[e] \in EntityRecord
    BY DEF OwnershipInv, AllSound, Sound
  <2>2. ~(entity[e].controller /\ entity[e].continuous)
    BY <2>1, KindsApart DEF Sound, Consistent, EntityRecord
  <2> QED BY <2>1, <2>2 DEF Sound, Consistent, Paired
<1> QED BY <1>1, OwnershipInvariant, PTL

\* The unchecked dereferences of a running owner's controller and transition in
\* drive_longitudinal() and drive_lane_change() never meet an empty one.
THEOREM OwnersStayEquipped == Spec => []OwnerEquipped
<1>1. OwnershipInv => OwnerEquipped
  BY DEF OwnershipInv, AllSound, Sound, Consistent, OwnerEquipped
<1> QED BY <1>1, OwnershipInvariant, PTL

\* An entity is only ever driven by an action of its own that the storyboard
\* still polls, while the entity exists and the engine controls the domain.
THEOREM OwnersStayInProgress == Spec => []OwnersInProgress
<1>1. OwnershipInv => OwnersInProgress
  <2> SUFFICES ASSUME OwnershipInv, NEW e \in Entities
               PROVE  LET r == entity[e] IN
                        /\ \A a \in OwnersOf(r) : Polled(a) /\ Actor(a) = e /\ r.active
                        /\ r.longitudinalOwner # None => r.longitudinal
                        /\ r.lateralOwner # None \/ r.follower # None => r.lateral
    BY DEF OwnersInProgress
  <2>1. AllSound(entity) /\ Sound(entity[e], e)
    BY DEF OwnershipInv, AllSound
  <2>2. \A a \in OwnersOf(entity[e]) : Polled(a) /\ Actor(a) = e /\ entity[e].active
    BY <2>1, OwnersAreActs DEF OwnershipInv
  <2> QED BY <2>1, <2>2 DEF Sound, Consistent
<1> QED BY <1>1, OwnershipInvariant, PTL

---------------------------------------------------------------------------
(* Losing a domain for good.  What follows holds of storyboards that keep to *)
(* some of these conditions, which the engine does not ask for; each one is  *)
(* needed, and the runs and section 5 of the README show what happens        *)
(* without it.                                                               *)

\* An entity that is deleted is never added again.
NoReturn ==
  \A a, b \in Acts : Is(a, {"delete"}) /\ Is(b, {"add"}) => Actor(a) # Actor(b)

\* A speed does not refer to an entity that is deleted.
ReferencesStay ==
  \A a, b \in Acts :
    Is(a, {"delete"}) /\ Is(b, {"speed", "continuousSpeed"}) => Do[b].ref # Actor(a)

\* A bulk action has an actor only once.
ActorsDiffer ==
  \A a, b \in Acts : Bulk[a] # 0 /\ Bulk[a] = Bulk[b] /\ Actor(a) = Actor(b) => a = b

---------------------------------------------------------------------------
(* The inductive invariant of the markers.                                   *)

\* The calls of one visit: those of an event that is polled or stopped, or
\* those left of an event that fires, of which the first have answered.
Visited(f) ==
  /\ pending \subseteq ActsOf(f)
  /\ \/ pending \subseteq running[f]
     \/ ~stopping /\ \A c \in running[f], p \in pending : Position[c] < Position[p]

\* A marker is of an action of that entity; only an entity that a delete action
\* names leaves, and nothing is left on it.
MarksPlaced ==
  \A e \in Entities : LET r == entity[e] IN
    /\ \A a \in r.retired : Actor(a) = e /\ Is(a, MotionKinds)
    /\ ~r.active => r.retired = {} /\ \E d \in Acts : Is(d, {"delete"}) /\ Actor(d) = e

RunningIsOwn == \A f \in Events : running[f] \subseteq ActsOf(f)

\* What was lost was lost since the action was fired.
LostSince == \A a \in pending : Polled(a) \/ a \notin lost

Walk ==
  /\ RunningIsOwn
  /\ IF pending = {} THEN ~stopping ELSE \E f \in Events : Visited(f)
  /\ MarksPlaced
  /\ \A e \in Entities : AxisUsed(entity[e])
  /\ LostSince

\* Where an entity once deleted stays away: an action that gave up a domain and
\* is still polled is marked, and a motion that is polled drives or is marked.
Told ==
  /\ \A a \in lost : Polled(a) => a \in Record(a).retired \/ ~Record(a).active
  /\ \A a \in Acts : Polled(a) /\ Is(a, MotionKinds) => a \in Known(Record(a)) \/ ~Record(a).active
  /\ \A a \in deleted : ~Record(a).active

MarksPolled == \A e \in Entities : \A a \in entity[e].retired : Polled(a)

\* While the calls of a firing event are made no instance still to be called
\* has a sibling that is marked already.
FiresUnmarked ==
  \A a \in pending : Polled(a) \/
    \A e \in Entities : \A b \in entity[e].retired : Bulk[a] = 0 \/ Bulk[b] # Bulk[a]

MarkersInv ==
  /\ OwnershipInv
  /\ Walk
  /\ NoReturn => Told
  /\ ReferencesStay => MarksPolled
  /\ NoReturn /\ ReferencesStay /\ ActorsDiffer => BulkFallsBackTogether /\ FiresUnmarked

---------------------------------------------------------------------------
(* What superseding leaves of the owners and the markers.                    *)

\* s is r after some owners were superseded: what they lose marks them.
YieldsTo(s, r) ==
  /\ s.active = r.active
  /\ r.retired \subseteq s.retired /\ s.retired \subseteq Known(r)
  /\ OwnersOf(s) \subseteq OwnersOf(r) /\ OwnersOf(r) \subseteq OwnersOf(s) \cup s.retired

\* F is E after owners of x were superseded, each with its bulk action.
Supersedes(F, E, x) ==
  \A e \in Entities :
    /\ YieldsTo(F[e], E[e])
    /\ \A m \in F[e].retired \ E[e].retired :
         /\ \E y \in OwnersOf(E[x]) : Bulk[m] = Bulk[y]
         /\ Bulk[m] # 0 => \A b \in Owners(F) : Bulk[b] # Bulk[m]

LEMMA YieldsReflexive == ASSUME NEW r PROVE YieldsTo(r, r)
BY DEF YieldsTo, Known

LEMMA YieldsTransitive ==
  ASSUME NEW r, NEW s, NEW t, YieldsTo(s, r), YieldsTo(t, s)
  PROVE  YieldsTo(t, r)
BY DEF YieldsTo, Known

LEMMA SupersedesReflexive == ASSUME NEW E, NEW x PROVE Supersedes(E, E, x)
BY YieldsReflexive DEF Supersedes

LEMMA OwnersGrow ==
  ASSUME NEW E, NEW F, \A e \in Entities : OwnersOf(F[e]) \subseteq OwnersOf(E[e])
  PROVE  Owners(F) \subseteq Owners(E)
BY DEF Owners

LEMMA SupersedesTransitive ==
  ASSUME NEW E, NEW F, NEW G, NEW x \in Entities, Supersedes(F, E, x), Supersedes(G, F, x)
  PROVE  Supersedes(G, E, x)
<1>1. \A e \in Entities : YieldsTo(G[e], E[e])
  BY YieldsTransitive DEF Supersedes
<1>2. Owners(G) \subseteq Owners(F) /\ OwnersOf(F[x]) \subseteq OwnersOf(E[x])
  BY OwnersGrow DEF Supersedes, YieldsTo
<1>3. ASSUME NEW e \in Entities, NEW m \in G[e].retired \ E[e].retired
      PROVE  /\ \E y \in OwnersOf(E[x]) : Bulk[m] = Bulk[y]
             /\ Bulk[m] # 0 => \A b \in Owners(G) : Bulk[b] # Bulk[m]
  <2>1. CASE m \in F[e].retired
    BY <1>2, <1>3, <2>1 DEF Supersedes
  <2>2. CASE m \notin F[e].retired
    BY <1>2, <1>3, <2>2 DEF Supersedes
  <2> QED BY <2>1, <2>2
<1> QED BY <1>1, <1>3 DEF Supersedes

\* The longitudinal owner is marked, and may be overwritten.
LEMMA LongitudinalYields ==
  ASSUME NEW e \in Entities, NEW r, NEW a \in Acts \cup {None},
         Sound(r, e) \/ Vacated(r, e), r.longitudinalOwner \notin {None, a}
  PROVE  LET s == LongitudinalRetired(r, a)
         IN  /\ YieldsTo(s, r) /\ s.retired = r.retired \cup {r.longitudinalOwner}
             /\ YieldsTo(FreeLongitudinal(s), r)
             /\ FreeLongitudinal(s).retired = s.retired
             /\ OwnersOf(FreeLongitudinal(s)) = OwnersOf(r) \ {r.longitudinalOwner}
             /\ AxisUsed(r) => AxisUsed(s) /\ AxisUsed(FreeLongitudinal(s))
<1> DEFINE s == LongitudinalRetired(r, a)
           t == FreeLongitudinal(s)
<1>1. r \in EntityRecord /\ Consistent(r, e) /\ None \notin Acts
  BY OwnershipAssumption DEF Vacated, Sound
<1>2. /\ s \in EntityRecord /\ s.retired = r.retired \cup {r.longitudinalOwner}
      /\ s.follower = IF r.follower = r.longitudinalOwner THEN None ELSE r.follower
      /\ s.active = r.active /\ s.longitudinalOwner = r.longitudinalOwner
      /\ s.lateralOwner = r.lateralOwner /\ s.axis = r.axis
  BY <1>1, LongitudinalRetiredFields
<1>3. s.dissolving = r.dissolving
  BY <1>1 DEF LongitudinalRetired, EntityRecord
<1> HIDE DEF s
<1>4. /\ t \in EntityRecord /\ t.longitudinalOwner = None /\ t.active = s.active
      /\ t.lateralOwner = s.lateralOwner /\ t.follower = s.follower
      /\ t.axis = s.axis /\ t.retired = s.retired
  BY <1>2, FreeLongitudinalFields
<1>5. t.dissolving = s.dissolving
  BY <1>2 DEF FreeLongitudinal, EntityRecord
<1> HIDE DEF t
<1>6. r.longitudinalOwner \in Acts /\ r.lateralOwner # r.longitudinalOwner
  BY <1>1, KindsApart DEF Consistent, EntityRecord
<1>7. YieldsTo(s, r)
  BY <1>2, <1>3 DEF YieldsTo, Known, OwnersOf
<1>8. OwnersOf(t) = OwnersOf(r) \ {r.longitudinalOwner}
  BY <1>2, <1>4, <1>6 DEF OwnersOf
<1>9. YieldsTo(t, r)
  BY <1>2, <1>4, <1>8 DEF YieldsTo, Known, OwnersOf
<1>10. AxisUsed(r) => AxisUsed(s) /\ AxisUsed(t)
  BY <1>2, <1>3, <1>4, <1>5 DEF AxisUsed
<1> QED BY <1>2, <1>4, <1>7, <1>8, <1>9, <1>10 DEF s, t

\* What steers the entity is marked and gone.
LEMMA LateralYields ==
  ASSUME NEW e \in Entities, NEW r, NEW a \in Acts \cup {None}, Sound(r, e) \/ Vacated(r, e)
  PROVE  LET s == LateralRetired(r, a)
             outgoing == {r.lateralOwner, r.follower} \ {None, a}
         IN  /\ r.retired \subseteq s.retired /\ s.retired = r.retired \cup outgoing
             /\ s.active = r.active
             /\ OwnersOf(s) = OwnersOf(r) \ outgoing
             /\ Sound(r, e) => r.longitudinalOwner \notin outgoing \/ s.longitudinalOwner = None
<1> DEFINE s == LateralRetired(r, a)
           outgoing == {r.lateralOwner, r.follower} \ {None, a}
<1>1. r \in EntityRecord /\ Consistent(r, e) /\ None \notin Acts
  BY OwnershipAssumption DEF Vacated, Sound
<1>2. /\ s \in EntityRecord /\ s.retired = r.retired \cup outgoing
      /\ s.lateralOwner = IF r.lateralOwner \in outgoing THEN None ELSE r.lateralOwner
      /\ s.follower = IF r.follower \in outgoing THEN None ELSE r.follower
      /\ s.longitudinalOwner =
           IF r.longitudinalOwner = r.follower /\ r.longitudinalOwner \in outgoing
             THEN None ELSE r.longitudinalOwner
      /\ s.active = r.active
  BY <1>1, LateralRetiredFields
<1> HIDE DEF s
<1>3. r.longitudinalOwner \in outgoing => r.longitudinalOwner = r.follower
  BY <1>1, KindsApart DEF Consistent, EntityRecord
<1>4. OwnersOf(s) = OwnersOf(r) \ outgoing
  BY <1>2, <1>3 DEF OwnersOf
<1> QED BY <1>2, <1>3, <1>4 DEF s

LEMMA DissolvedYields ==
  ASSUME NEW r \in EntityRecord
  PROVE  LET s == Dissolved(r)
         IN  /\ s.retired = r.retired /\ s.active = r.active /\ OwnersOf(s) = OwnersOf(r)
             /\ r.lateralOwner = None => AxisUsed(s)
<1> DEFINE s == Dissolved(r)
<1>1. /\ ~s.axis /\ s.retired = r.retired /\ s.lateralOwner = r.lateralOwner
      /\ s.follower = r.follower /\ s.longitudinalOwner = r.longitudinalOwner
      /\ s.active = r.active
  BY DissolvedFields
<1>2. ~s.dissolving
  BY DEF Dissolved, EntityRecord
<1> QED BY <1>1, <1>2 DEF OwnersOf, AxisUsed

LEMMA FallBackYields ==
  ASSUME NEW e \in Entities, NEW r, NEW g \in Nat, Sound(r, e) \/ Vacated(r, e)
  PROVE  LET s == FallBack(r, g)
         IN  /\ YieldsTo(s, r) /\ (AxisUsed(r) => AxisUsed(s))
             /\ \A b \in OwnersOf(s) : Bulk[b] # g
             /\ \A m \in s.retired \ r.retired : Bulk[m] = g
<1> DEFINE s == IF InGroup(r.longitudinalOwner, g)
                  THEN FreeLongitudinal(LongitudinalRetired(r, None)) ELSE r
           u == LateralRetired(s, None)
           t == IF InGroup(s.lateralOwner, g) \/ InGroup(s.follower, g)
                  THEN Dissolved(u) ELSE s
<1>1. FallBack(r, g) = t
  BY DEF FallBack
<1>2. /\ YieldsTo(s, r) /\ (AxisUsed(r) => AxisUsed(s))
      /\ \A m \in s.retired \ r.retired : Bulk[m] = g
      /\ ~InGroup(s.longitudinalOwner, g)
      /\ Sound(s, e) \/ Vacated(s, e)
  <2>1. CASE InGroup(r.longitudinalOwner, g)
    <3>1. r.longitudinalOwner \notin {None, None} /\ Bulk[r.longitudinalOwner] = g
      BY <2>1 DEF InGroup
    <3> DEFINE q == LongitudinalRetired(r, None)
    <3>2. Vacated(q, e)
      BY <3>1, LongitudinalRetiredVacates
    <3>3. Sound(FreeLongitudinal(q), e)
      BY <3>2, FreeLongitudinalSound
    <3>4. /\ YieldsTo(FreeLongitudinal(q), r)
          /\ AxisUsed(r) => AxisUsed(FreeLongitudinal(q))
          /\ FreeLongitudinal(q).retired = r.retired \cup {r.longitudinalOwner}
      BY <3>1, LongitudinalYields
    <3>5. FreeLongitudinal(q).longitudinalOwner = None
      BY <3>2, FreeLongitudinalFields DEF Vacated
    <3>6. s = FreeLongitudinal(q)
      BY <2>1
    <3> HIDE DEF q, s
    <3> QED BY <3>1, <3>3, <3>4, <3>5, <3>6 DEF InGroup
  <2>2. CASE ~InGroup(r.longitudinalOwner, g)
    BY <2>2, YieldsReflexive
  <2> QED BY <2>1, <2>2
<1> HIDE DEF s
<1>3. s \in EntityRecord /\ Consistent(s, e) /\ None \notin Acts
  BY <1>2, OwnershipAssumption DEF Sound, Vacated
<1>4. /\ YieldsTo(t, s) /\ (AxisUsed(s) => AxisUsed(t))
      /\ \A m \in t.retired \ s.retired : Bulk[m] = g
      /\ \A b \in OwnersOf(t) : Bulk[b] # g
  <2>1. CASE InGroup(s.lateralOwner, g) \/ InGroup(s.follower, g)
    <3> DEFINE outgoing == {s.lateralOwner, s.follower} \ {None, None}
    <3>1. \A m \in outgoing : Bulk[m] = g
      BY <1>3, <2>1 DEF InGroup, Consistent
    <3>2. /\ u.retired = s.retired \cup outgoing /\ u.active = s.active
          /\ OwnersOf(u) = OwnersOf(s) \ outgoing
      BY <1>2, LateralYields
    <3>3. u \in EntityRecord /\ u.lateralOwner = None
      BY <1>2, <1>3, LateralRetiredSound, LateralRetiredFields
    <3>4. t = Dissolved(u)
      BY <2>1
    <3>5. outgoing \subseteq OwnersOf(s)
      BY DEF OwnersOf
    <3>6. \A b \in OwnersOf(s) \ outgoing : b = s.longitudinalOwner
      BY DEF OwnersOf
    <3> HIDE DEF u, t, outgoing
    <3>7. /\ t.retired = u.retired /\ t.active = u.active /\ OwnersOf(t) = OwnersOf(u)
          /\ AxisUsed(t)
      BY <3>3, <3>4, DissolvedYields
    <3>8. YieldsTo(t, s)
      BY <3>2, <3>5, <3>7 DEF YieldsTo, Known
    <3>9. \A b \in OwnersOf(t) : Bulk[b] # g
      BY <1>2, <3>2, <3>6, <3>7, <3>1 DEF InGroup, OwnersOf
    <3> QED BY <3>1, <3>2, <3>7, <3>8, <3>9
  <2>2. CASE ~(InGroup(s.lateralOwner, g) \/ InGroup(s.follower, g))
    BY <1>2, <2>2, YieldsReflexive DEF InGroup, OwnersOf
  <2> QED BY <2>1, <2>2
<1> HIDE DEF t
<1>5. YieldsTo(t, r)
  BY <1>2, <1>4, YieldsTransitive
<1>6. \A m \in t.retired \ r.retired : Bulk[m] = g
  BY <1>2, <1>4
<1> QED BY <1>1, <1>2, <1>4, <1>5, <1>6

LEMMA BulkYields ==
  ASSUME NEW E \in [Entities -> EntityRecord], NEW a \in Acts,
         \A e \in Entities : Sound(E[e], e) \/ Vacated(E[e], e)
  PROVE  LET F == BulkRetired(E, a)
         IN  /\ \A e \in Entities : YieldsTo(F[e], E[e]) /\ (AxisUsed(E[e]) => AxisUsed(F[e]))
             /\ Bulk[a] # 0 => \A b \in Owners(F) : Bulk[b] # Bulk[a]
             /\ \A e \in Entities : \A m \in F[e].retired \ E[e].retired :
                  Bulk[m] = Bulk[a] /\ Bulk[a] # 0
<1> DEFINE F == BulkRetired(E, a)
<1>1. CASE Bulk[a] = 0
  BY <1>1, YieldsReflexive DEF BulkRetired
<1>2. CASE Bulk[a] # 0
  <2>1. \A e \in Entities : F[e] = FallBack(E[e], Bulk[a])
    BY <1>2 DEF BulkRetired
  <2>2. Bulk[a] \in Nat
    BY OwnershipAssumption
  <2> HIDE DEF F
  <2>3. ASSUME NEW e \in Entities
        PROVE  /\ YieldsTo(F[e], E[e]) /\ (AxisUsed(E[e]) => AxisUsed(F[e]))
               /\ \A b \in OwnersOf(F[e]) : Bulk[b] # Bulk[a]
               /\ \A m \in F[e].retired \ E[e].retired : Bulk[m] = Bulk[a]
    <3>1. F[e] = FallBack(E[e], Bulk[a]) /\ (Sound(E[e], e) \/ Vacated(E[e], e))
      BY <2>1
    <3> QED BY <2>2, <3>1, FallBackYields
  <2>4. \A b \in Owners(F) : Bulk[b] # Bulk[a]
    BY <2>3 DEF Owners
  <2> QED BY <1>2, <2>3, <2>4 DEF F
<1> QED BY <1>1, <1>2

LEMMA SupersedeLongitudinalYields ==
  ASSUME NEW E, AllSound(E), NEW x \in Entities, NEW a \in Acts \cup {None}
  PROVE  LET F == SupersedeLongitudinal(E, x, a)
         IN  /\ Supersedes(F, E, x)
             /\ \A e \in Entities : AxisUsed(E[e]) => AxisUsed(F[e])
             /\ F[x].longitudinalOwner \in {None, a} \cup F[x].retired
<1> DEFINE F == SupersedeLongitudinal(E, x, a)
           owner == E[x].longitudinalOwner
<1>1. E \in [Entities -> EntityRecord] /\ \A e \in Entities : Sound(E[e], e)
  BY DEF AllSound
<1>2. CASE owner \in {None, a}
  BY <1>2, SupersedesReflexive DEF SupersedeLongitudinal
<1>3. CASE owner \notin {None, a}
  <2> DEFINE r == LongitudinalRetired(E[x], a)
             G == [E EXCEPT ![x] = r]
  <2>1. F = BulkRetired(G, owner)
    BY <1>3 DEF SupersedeLongitudinal
  <2>2. Vacated(r, x) /\ Consistent(r, x)
    BY <1>1, <1>3, LongitudinalRetiredVacates DEF Vacated
  <2>3. /\ YieldsTo(r, E[x]) /\ r.retired = E[x].retired \cup {owner}
        /\ AxisUsed(E[x]) => AxisUsed(r)
    BY <1>1, <1>3, LongitudinalYields
  <2>4. r \in EntityRecord /\ r.longitudinalOwner = owner /\ owner \in Acts /\ owner \in OwnersOf(E[x])
    BY <1>1, <1>3, <2>2, LongitudinalRetiredFields DEF Vacated, EntityRecord, OwnersOf
  <2>5. Vacated(F[x], x)
    BY <1>1, <1>3, SupersedeLongitudinalSound
  <2> HIDE DEF r, F, owner
  <2>6. /\ G \in [Entities -> EntityRecord] /\ G[x] = r
        /\ \A e \in Entities \ {x} : G[e] = E[e]
    BY <1>1, <2>4
  <2>7. \A e \in Entities : /\ YieldsTo(G[e], E[e]) /\ (AxisUsed(E[e]) => AxisUsed(G[e]))
                            /\ Sound(G[e], e) \/ Vacated(G[e], e)
                            /\ \A m \in G[e].retired \ E[e].retired : m = owner
    BY <1>1, <2>2, <2>3, <2>6, YieldsReflexive
  <2> HIDE DEF G
  <2>8. /\ \A e \in Entities : YieldsTo(F[e], G[e]) /\ (AxisUsed(G[e]) => AxisUsed(F[e]))
        /\ Bulk[owner] # 0 => \A b \in Owners(F) : Bulk[b] # Bulk[owner]
        /\ \A e \in Entities : \A m \in F[e].retired \ G[e].retired :
             Bulk[m] = Bulk[owner] /\ Bulk[owner] # 0
    BY <2>1, <2>4, <2>6, <2>7, BulkYields
  <2>9. \A e \in Entities : YieldsTo(F[e], E[e]) /\ (AxisUsed(E[e]) => AxisUsed(F[e]))
    BY <2>7, <2>8, YieldsTransitive
  <2>10. \A e \in Entities : \A m \in F[e].retired \ E[e].retired : Bulk[m] = Bulk[owner]
    BY <2>7, <2>8
  <2>11. Supersedes(F, E, x)
    BY <2>4, <2>8, <2>9, <2>10 DEF Supersedes
  <2>12. F[x].longitudinalOwner \in {None} \cup F[x].retired
    <3>1. /\ F[x] \in EntityRecord
          /\ F[x].longitudinalOwner # None => Is(F[x].longitudinalOwner, DrivesSpeed)
      BY <2>5 DEF Vacated, Consistent
    <3>2. F[x].longitudinalOwner # None => F[x].longitudinalOwner \in OwnersOf(r)
      BY <2>6, <2>8 DEF YieldsTo, OwnersOf
    <3>3. r.lateralOwner # None => Is(r.lateralOwner, LateralKinds) /\ r.lateralOwner \in Acts
      BY <2>2, <2>4 DEF Consistent, EntityRecord
    <3>4. r.follower # None => Is(r.follower, {"trajectory"}) /\ r.follower \in Acts
      BY <2>2, <2>4 DEF Vacated, EntityRecord
    <3>5. F[x].longitudinalOwner # None => F[x].longitudinalOwner = owner
      BY <2>4, <3>1, <3>2, <3>3, <3>4, KindsApart DEF OwnersOf
    <3> QED BY <2>3, <2>6, <2>8, <3>5 DEF YieldsTo
  <2> QED BY <2>9, <2>11, <2>12 DEF F
<1> QED BY <1>2, <1>3

LEMMA SupersedeLateralYields ==
  ASSUME NEW E, AllSound(E), NEW x \in Entities, NEW a \in Acts \cup {None}
  PROVE  LET F == SupersedeLateral(E, x, a)
         IN  /\ Supersedes(F, E, x)
             /\ \A e \in Entities \ {x} : AxisUsed(E[e]) => AxisUsed(F[e])
<1> DEFINE F == SupersedeLateral(E, x, a)
           outgoing == {E[x].lateralOwner, E[x].follower} \ {None, a}
<1>1. /\ E \in [Entities -> EntityRecord] /\ \A e \in Entities : Sound(E[e], e)
      /\ Consistent(E[x], x) /\ E[x] \in EntityRecord
  BY DEF AllSound, Sound
<1>2. CASE outgoing = {}
  BY <1>2, SupersedesReflexive DEF SupersedeLateral
<1>3. CASE outgoing # {}
  <2> DEFINE r == LateralRetired(E[x], a)
             G == [E EXCEPT ![x] = r]
             b == CHOOSE c \in outgoing : TRUE
  <2>1. F = BulkRetired(G, b)
    BY <1>3 DEF SupersedeLateral
  <2>2. Sound(r, x)
    BY <1>1, LateralRetiredSound
  <2>3. /\ r.retired = E[x].retired \cup outgoing /\ r.active = E[x].active
        /\ OwnersOf(r) = OwnersOf(E[x]) \ outgoing
    BY <1>1, LateralYields
  <2>4. b \in outgoing /\ outgoing \subseteq OwnersOf(E[x]) /\ outgoing \subseteq Acts
    BY <1>1, <1>3 DEF OwnersOf, EntityRecord
  <2>5. \A c \in outgoing : c = b
    BY <1>1, <2>4 DEF Consistent
  <2>6. YieldsTo(r, E[x])
    BY <2>3, <2>4 DEF YieldsTo, Known
  <2>7. r \in EntityRecord
    BY <2>2 DEF Sound
  <2> HIDE DEF r, F, b, outgoing
  <2>8. /\ G \in [Entities -> EntityRecord] /\ G[x] = r
        /\ \A e \in Entities \ {x} : G[e] = E[e]
    BY <1>1, <2>7
  <2>9. \A e \in Entities : /\ YieldsTo(G[e], E[e])
                            /\ e # x => (AxisUsed(E[e]) => AxisUsed(G[e]))
                            /\ Sound(G[e], e) \/ Vacated(G[e], e)
                            /\ \A m \in G[e].retired \ E[e].retired : m = b
    BY <1>1, <2>2, <2>3, <2>5, <2>6, <2>8, YieldsReflexive
  <2> HIDE DEF G
  <2>10. /\ \A e \in Entities : YieldsTo(F[e], G[e]) /\ (AxisUsed(G[e]) => AxisUsed(F[e]))
         /\ Bulk[b] # 0 => \A c \in Owners(F) : Bulk[c] # Bulk[b]
         /\ \A e \in Entities : \A m \in F[e].retired \ G[e].retired :
              Bulk[m] = Bulk[b] /\ Bulk[b] # 0
    BY <2>1, <2>4, <2>8, <2>9, BulkYields
  <2>11. \A e \in Entities : /\ YieldsTo(F[e], E[e])
                             /\ e # x => (AxisUsed(E[e]) => AxisUsed(F[e]))
    BY <2>9, <2>10, YieldsTransitive
  <2>12. \A e \in Entities : \A m \in F[e].retired \ E[e].retired : Bulk[m] = Bulk[b]
    BY <2>9, <2>10
  <2>13. Supersedes(F, E, x)
    BY <2>4, <2>10, <2>11, <2>12 DEF Supersedes
  <2> QED BY <2>11, <2>13 DEF F
<1> QED BY <1>2, <1>3

---------------------------------------------------------------------------
(* What a call of a, or its stop, leaves of the owners and the markers.      *)

\* a may have got or lost domains and its marker; every other action that lost
\* one is marked, with its bulk action.
Handed(F, E, a) ==
  \A e \in Entities :
    /\ F[e].active = E[e].active
    /\ E[e].retired \ {a} \subseteq F[e].retired /\ F[e].retired \subseteq Known(E[e])
    /\ OwnersOf(F[e]) \subseteq OwnersOf(E[e]) \cup {a}
    /\ OwnersOf(E[e]) \ {a} \subseteq OwnersOf(F[e]) \cup F[e].retired
    /\ \A m \in F[e].retired \ E[e].retired :
         Bulk[m] # 0 => \A b \in Owners(F) \ {a} : Bulk[b] # Bulk[m]

\* A new marker is of a bulk action that had another domain of the same entity.
Sourced(F, E, a) ==
  \A e \in Entities : \A m \in F[e].retired \ E[e].retired :
    \E y \in OwnersOf(E[Actor(a)]) \ {a} : Bulk[m] = Bulk[y]

\* s is r with a installed, or with nobody in its place.
Installs(s, r, a) ==
  /\ s.active = r.active /\ s.retired = r.retired
  /\ OwnersOf(s) \subseteq OwnersOf(r) \cup {a}
  /\ OwnersOf(r) \subseteq OwnersOf(s) \cup s.retired \cup {a}

LEMMA InstalledHands ==
  ASSUME NEW a \in Acts, NEW E, NEW F \in [Entities -> EntityRecord], NEW s,
         Supersedes(F, E, Actor(a)), a \notin OwnersOf(E[Actor(a)]) \/ F = E,
         Installs(s, F[Actor(a)], a)
  PROVE  /\ Handed([F EXCEPT ![Actor(a)] = s], E, a)
         /\ Sourced([F EXCEPT ![Actor(a)] = s], E, a)
<1> DEFINE x == Actor(a)
           G == [F EXCEPT ![x] = s]
<1>1. x \in Entities
  BY ActTypes
<1>2. G[x] = s /\ \A e \in Entities \ {x} : G[e] = F[e]
  BY <1>1
<1> HIDE DEF G
<1>3. \A e \in Entities : Installs(G[e], F[e], a)
  <2>1. \A e \in Entities \ {x} : Installs(F[e], F[e], a)
    BY DEF Installs
  <2> QED BY <1>2, <2>1
<1>4. Owners(G) \ {a} \subseteq Owners(F)
  BY <1>3 DEF Owners, Installs
<1>5. ASSUME NEW e \in Entities
      PROVE  /\ G[e].active = E[e].active
             /\ E[e].retired \ {a} \subseteq G[e].retired /\ G[e].retired \subseteq Known(E[e])
             /\ OwnersOf(G[e]) \subseteq OwnersOf(E[e]) \cup {a}
             /\ OwnersOf(E[e]) \ {a} \subseteq OwnersOf(G[e]) \cup G[e].retired
  BY <1>3 DEF Supersedes, YieldsTo, Installs
<1>6. ASSUME NEW e \in Entities, NEW m \in G[e].retired \ E[e].retired
      PROVE  /\ Bulk[m] # 0 => \A b \in Owners(G) \ {a} : Bulk[b] # Bulk[m]
             /\ \E y \in OwnersOf(E[x]) \ {a} : Bulk[m] = Bulk[y]
  <2>1. m \in F[e].retired \ E[e].retired
    BY <1>3, <1>6 DEF Installs
  <2>2. F # E
    BY <2>1
  <2> QED BY <1>4, <2>1, <2>2 DEF Supersedes
<1>7. Handed(G, E, a)
  BY <1>5, <1>6 DEF Handed
<1>8. Sourced(G, E, a)
  BY <1>6 DEF Sourced
<1> QED BY <1>7, <1>8 DEF G

---------------------------------------------------------------------------
(* The order of the calls.                                                   *)

LEMMA PlaceOf ==
  ASSUME NEW a \in Acts
  PROVE  /\ EventOf[a] \in Events /\ Position[a] \in DOMAIN Script[EventOf[a]]
         /\ Script[EventOf[a]][Position[a]] = a /\ Position[a] \in Nat
         /\ \A f \in Events : a \in ActsOf(f) => f = EventOf[a]
<1>1. EventOf[a] \in Events /\ a \in ActsOf(EventOf[a])
  BY ActTypes
<1>2. \E i \in DOMAIN Script[EventOf[a]] : Script[EventOf[a]][i] = a
  BY <1>1 DEF ActsOf
<1>3. Position[a] = CHOOSE i \in DOMAIN Script[EventOf[a]] : Script[EventOf[a]][i] = a
  BY DEF Position
<1>4. Position[a] \in DOMAIN Script[EventOf[a]] /\ Script[EventOf[a]][Position[a]] = a
  BY <1>2, <1>3
<1>5. Position[a] \in Nat
  <2>1. Script[EventOf[a]] \in Seq(Acts)
    BY <1>1, OwnershipAssumption DEF Events
  <2> QED BY <1>4, <2>1
<1>6. \A f \in Events : a \in ActsOf(f) => f = EventOf[a]
  <2>1. ASSUME NEW f \in Events, a \in ActsOf(f) PROVE f = EventOf[a]
    <3>1. ActsOf(f) \cap ActsOf(EventOf[a]) # {}
      BY <1>1, <2>1
    <3> QED BY <1>1, <3>1, OwnershipAssumption
  <2> QED BY <2>1
<1> QED BY <1>1, <1>4, <1>5, <1>6

LEMMA GroupsTogether ==
  ASSUME NEW a \in Acts, NEW c \in Acts, Bulk[a] # 0, Bulk[a] = Bulk[c]
  PROVE  /\ EventOf[a] = EventOf[c]
         /\ \A b \in Acts : /\ EventOf[b] = EventOf[a]
                            /\ Position[a] <= Position[b] /\ Position[b] <= Position[c]
                            => Bulk[b] = Bulk[a]
<1> DEFINE f == EventOf[a]
           g == EventOf[c]
           i == Position[a]
           j == Position[c]
<1>1. /\ f \in Events /\ i \in DOMAIN Script[f] /\ Script[f][i] = a /\ i \in Nat
      /\ g \in Events /\ j \in DOMAIN Script[g] /\ Script[g][j] = c /\ j \in Nat
  BY PlaceOf
<1> HIDE DEF f, g, i, j
<1>2. f = g /\ \A k \in i .. j : Bulk[Script[f][k]] = Bulk[Script[f][i]]
  BY <1>1, BulkAssumption
<1>3. ASSUME NEW b \in Acts, EventOf[b] = f, i <= Position[b], Position[b] <= j
      PROVE  Bulk[b] = Bulk[a]
  <2>1. Script[f][Position[b]] = b /\ Position[b] \in Nat
    BY <1>3, PlaceOf
  <2>2. Position[b] \in i .. j
    BY <1>1, <1>3, <2>1
  <2> QED BY <1>1, <1>2, <2>1, <2>2
<1> QED BY <1>2, <1>3 DEF f, g, i, j

\* Two actions of one event are called in their order.
LEMMA PositionsDiffer ==
  ASSUME NEW a \in Acts, NEW b \in Acts, EventOf[a] = EventOf[b], Position[a] = Position[b]
  PROVE  a = b
BY PlaceOf

---------------------------------------------------------------------------
(* A call, or a stop, keeps the invariant.                                   *)

\* What every call has in common, and what an answer and a stop have; keeps:
\* the storyboard polls a from now on.
CallMade(a, keeps) ==
  /\ First(a) /\ pending' = pending \ {a}
  /\ running' = [running EXCEPT ![EventOf[a]] = IF keeps THEN @ \cup {a} ELSE @ \ {a}]
  /\ stopping' => stopping /\ pending' # {}
CallStep(a, keeps) ==
  /\ CallMade(a, keeps)
  /\ lost' = lost \cup (Owners(entity) \ Owners(entity')) /\ deleted' = deleted

LEMMA CallPolls ==
  ASSUME OwnershipInv, NEW a \in Acts, NEW keeps \in BOOLEAN, CallMade(a, keeps)
  PROVE  /\ Polled(a)' <=> keeps
         /\ \A c \in Acts \ {a} : Polled(c)' <=> Polled(c)
         /\ a \in ActsOf(EventOf[a]) /\ EventOf[a] \in Events
         /\ running'[EventOf[a]] = IF keeps THEN running[EventOf[a]] \cup {a}
                                   ELSE running[EventOf[a]] \ {a}
         /\ \A f \in Events \ {EventOf[a]} : running'[f] = running[f]
<1>1. /\ running \in [Events -> SUBSET Acts] /\ EventOf[a] \in Events /\ a \in ActsOf(EventOf[a])
      /\ \A c \in Acts : EventOf[c] \in Events
  BY ActTypes DEF OwnershipInv, TypeOK
<1> DEFINE f == EventOf[a]
<1>2. /\ running'[f] = IF keeps THEN running[f] \cup {a} ELSE running[f] \ {a}
      /\ \A g \in Events \ {f} : running'[g] = running[g]
  BY <1>1 DEF CallMade
<1>3. Polled(a)' <=> keeps
  BY <1>2 DEF Polled
<1>4. ASSUME NEW c \in Acts \ {a} PROVE Polled(c)' <=> Polled(c)
  BY <1>1, <1>2 DEF Polled
<1> QED BY <1>1, <1>2, <1>3, <1>4

LEMMA OwnersPolled ==
  ASSUME OwnershipInv
  PROVE  \A e \in Entities : \A b \in OwnersOf(entity[e]) :
           /\ b \in Acts /\ Polled(b) /\ Actor(b) = e /\ entity[e].active
           /\ b \notin entity[e].retired /\ Is(b, MotionKinds)
<1>1. AllSound(entity)
  BY DEF OwnershipInv
<1>2. ASSUME NEW e \in Entities, NEW b \in OwnersOf(entity[e])
      PROVE  /\ b \in Acts /\ Polled(b) /\ Actor(b) = e /\ entity[e].active
             /\ b \notin entity[e].retired /\ Is(b, MotionKinds)
  <2>1. b \in Acts /\ Actor(b) = e /\ entity[e].active
    BY <1>1, <1>2, OwnersAreActs
  <2>2. Is(b, DrivesSpeed) \/ Is(b, LateralKinds) \/ Is(b, TrajectoryKinds)
    BY <1>1, <1>2, OwnersAreActs
  <2>3. Is(b, MotionKinds)
    BY <2>2 DEF Is, DrivesSpeed, MotionKinds, TrajectoryKinds
  <2>4. b \notin entity[e].retired
    BY <1>1, <1>2 DEF AllSound, Sound, Consistent, OwnersOf
  <2> QED BY <1>2, <2>1, <2>3, <2>4 DEF OwnershipInv
<1> QED BY <1>2

LEMMA OwnersIn ==
  ASSUME NEW E, NEW b
  PROVE  b \in Owners(E) <=> \E e \in Entities : b \in OwnersOf(E[e])
BY DEF Owners

LEMMA RetiredTyped ==
  ASSUME OwnershipInv
  PROVE  /\ \A e \in Entities : entity[e].retired \subseteq Acts /\ Sound(entity[e], e)
         /\ pending \subseteq Acts /\ lost \subseteq Acts /\ deleted \subseteq Acts
         /\ \A f \in Events : running[f] \subseteq Acts
BY DEF OwnershipInv, AllSound, Sound, EntityRecord, TypeOK

\* A visit goes on.
LEMMA VisitStep ==
  ASSUME MarkersInv, NEW a \in Acts, NEW keeps \in BOOLEAN, CallMade(a, keeps)
  PROVE  /\ RunningIsOwn'
         /\ IF pending' = {} THEN ~stopping' ELSE \E f \in Events : Visited(f)'
<1>1. /\ OwnershipInv /\ RunningIsOwn /\ (IF pending = {} THEN ~stopping ELSE \E f \in Events : Visited(f))
      /\ a \in pending /\ pending' = pending \ {a} /\ (stopping' => stopping /\ pending' # {})
      /\ \A p \in pending : Position[a] <= Position[p]
  BY DEF MarkersInv, Walk, CallMade, First
<1>2. /\ a \in ActsOf(EventOf[a]) /\ EventOf[a] \in Events
      /\ running'[EventOf[a]] = IF keeps THEN running[EventOf[a]] \cup {a}
                                ELSE running[EventOf[a]] \ {a}
      /\ \A f \in Events \ {EventOf[a]} : running'[f] = running[f]
  BY <1>1, CallPolls
<1>3. RunningIsOwn'
  BY <1>1, <1>2 DEF RunningIsOwn, ActsOf
<1>4. PICK f \in Events : Visited(f)
  BY <1>1
<1>5. f = EventOf[a] /\ pending \subseteq ActsOf(f)
  BY <1>1, <1>4, PlaceOf DEF Visited
<1>6. CASE pending \subseteq running[f]
  <2>1. pending' \subseteq running'[f]
    BY <1>1, <1>2, <1>5, <1>6
  <2> QED BY <1>1, <1>3, <1>5, <2>1 DEF Visited, ActsOf
<1>7. CASE ~stopping /\ \A c \in running[f], p \in pending : Position[c] < Position[p]
  <2>1. ASSUME NEW c \in running'[f], NEW p \in pending' PROVE Position[c] < Position[p]
    <3>1. c \in running[f] \/ c = a
      BY <1>2, <1>5
    <3>2. p \in pending /\ p # a /\ p \in Acts
      BY <1>1, RetiredTyped
    <3>3. EventOf[p] = EventOf[a]
      BY <1>5, <3>2, PlaceOf
    <3>4. Position[p] # Position[a] /\ Position[p] \in Nat /\ Position[a] \in Nat
      BY <3>2, <3>3, PositionsDiffer, PlaceOf
    <3> QED BY <1>1, <1>7, <3>1, <3>2, <3>4
  <2>2. ~stopping'
    BY <1>1, <1>7
  <2> QED BY <1>1, <1>3, <1>5, <2>1, <2>2 DEF Visited, ActsOf
<1> QED BY <1>1, <1>3, <1>4, <1>6, <1>7 DEF Visited

\* The facts every part of the step lemma needs.
Settled(a, keeps) ==
  /\ CallStep(a, keeps)
  /\ keeps => a \in OwnersOf(entity'[Actor(a)]) /\ a \notin Record(a).retired /\ ~stopping
  /\ Handed(entity', entity, a)
  /\ ~stopping => Sourced(entity', entity, a)

LEMMA WalkStep ==
  ASSUME MarkersInv, OwnershipInv', NEW a \in Acts, NEW keeps \in BOOLEAN, Settled(a, keeps),
         \A e \in Entities : AxisUsed(entity'[e])
  PROVE  Walk'
<1>1. OwnershipInv /\ MarksPlaced /\ LostSince /\ CallStep(a, keeps) /\ Handed(entity', entity, a)
  BY DEF MarkersInv, Walk, Settled
<1>2. RunningIsOwn' /\ (IF pending' = {} THEN ~stopping' ELSE \E f \in Events : Visited(f)')
  BY <1>1, VisitStep DEF CallStep
<1>3. MarksPlaced'
  <2>1. ASSUME NEW e \in Entities, NEW b \in entity'[e].retired
        PROVE  Actor(b) = e /\ Is(b, MotionKinds)
    <3>1. b \in entity[e].retired \/ b \in OwnersOf(entity[e])
      BY <1>1, <2>1 DEF Handed, Known
    <3> QED BY <1>1, <3>1, OwnersPolled DEF MarksPlaced
  <2>2. ASSUME NEW e \in Entities, ~entity'[e].active
        PROVE  entity'[e].retired = {} /\ \E d \in Acts : Is(d, {"delete"}) /\ Actor(d) = e
    <3>1. ~entity[e].active /\ entity'[e].retired \subseteq Known(entity[e])
      BY <1>1, <2>2 DEF Handed
    <3>2. OwnersOf(entity[e]) = {} /\ entity[e].retired = {}
      BY <1>1, <3>1, OwnersPolled DEF MarksPlaced
    <3> QED BY <1>1, <3>1, <3>2 DEF MarksPlaced, Known
  <2> QED BY <2>1, <2>2 DEF MarksPlaced, Is, Actor
<1>4. LostSince'
  <2> SUFFICES ASSUME NEW c \in pending', ~Polled(c)' PROVE c \notin lost'
    BY DEF LostSince
  <2>1. c \in pending /\ c # a /\ c \in Acts /\ lost' = lost \cup (Owners(entity) \ Owners(entity'))
    BY <1>1, RetiredTyped DEF CallStep, CallMade
  <2>2. ~Polled(c)
    BY <1>1, <2>1, CallPolls DEF CallStep
  <2>3. c \notin Owners(entity)
    BY <1>1, <2>2, OwnersPolled, OwnersIn
  <2> QED BY <1>1, <2>1, <2>2, <2>3 DEF LostSince
<1>5. (\A e \in Entities : AxisUsed(entity[e]))'
  BY DEF AxisUsed
<1> QED BY <1>2, <1>3, <1>4, <1>5 DEF Walk

LEMMA ToldStep ==
  ASSUME MarkersInv, OwnershipInv', NEW a \in Acts, NEW keeps \in BOOLEAN, Settled(a, keeps), Told
  PROVE  Told'
<1>1. /\ OwnershipInv /\ MarksPlaced /\ LostSince /\ CallStep(a, keeps)
      /\ Handed(entity', entity, a)
      /\ keeps => a \in OwnersOf(entity'[Actor(a)]) /\ a \notin Record(a).retired
  BY DEF MarkersInv, Walk, Settled
<1>2. a \in pending /\ lost' = lost \cup (Owners(entity) \ Owners(entity')) /\ deleted' = deleted
  BY <1>1 DEF CallStep, CallMade, First
<1>3. /\ Polled(a)' <=> keeps
      /\ \A c \in Acts \ {a} : Polled(c)' <=> Polled(c)
  BY <1>1, CallPolls DEF CallStep
<1>4. \A c \in Acts : Actor(c) \in Entities
  BY ActTypes
<1>5. ASSUME NEW c \in lost', Polled(c)'
      PROVE  c \in entity'[Actor(c)].retired \/ ~entity'[Actor(c)].active
  <2>0. c \in Acts /\ lost \subseteq Acts
    BY <1>5, RetiredTyped, <1>1 DEF OwnershipInv, TypeOK
  <2>1. CASE c = a
    <3>1. keeps /\ a \in OwnersOf(entity'[Actor(a)]) /\ a \notin Record(a).retired
      BY <1>1, <1>3, <1>5, <2>1
    <3>2. a \notin Owners(entity) \ Owners(entity')
      BY <1>4, <3>1, OwnersIn
    <3>3. a \in lost
      BY <1>2, <1>5, <2>1, <3>2
    <3>4. Polled(a)
      BY <1>1, <1>2, <3>3 DEF LostSince
    <3>5. ~Record(a).active
      BY <3>1, <3>3, <3>4 DEF Told
    <3> QED BY <1>1, <1>4, <2>1, <3>5 DEF Handed, Record
  <2>2. CASE c # a
    <3>1. Polled(c)
      BY <1>3, <1>5, <2>0, <2>2
    <3>2. CASE c \in lost
      <4>1. c \in Record(c).retired \/ ~Record(c).active
        BY <3>1, <3>2 DEF Told
      <4> QED BY <1>1, <1>4, <2>0, <2>2, <4>1 DEF Handed, Record
    <3>3. CASE c \in Owners(entity) \ Owners(entity')
      <4>1. c \in OwnersOf(entity[Actor(c)])
        BY <1>1, <3>3, OwnersIn, OwnersPolled
      <4>2. c \notin OwnersOf(entity'[Actor(c)])
        BY <1>4, <2>0, <3>3, OwnersIn
      <4> QED BY <1>1, <1>4, <2>0, <2>2, <4>1, <4>2 DEF Handed
    <3> QED BY <1>2, <1>5, <3>2, <3>3
  <2> QED BY <2>1, <2>2
<1>6. ASSUME NEW c \in Acts, Polled(c)', Is(c, MotionKinds)
      PROVE  c \in Known(entity'[Actor(c)]) \/ ~entity'[Actor(c)].active
  <2>1. CASE c = a
    BY <1>1, <1>3, <1>6, <2>1 DEF Known
  <2>2. CASE c # a
    <3>1. c \in Known(Record(c)) \/ ~Record(c).active
      BY <1>3, <1>6, <2>2 DEF Told
    <3> QED BY <1>1, <1>4, <2>2, <3>1 DEF Handed, Known, Record
  <2> QED BY <2>1, <2>2
<1>7. ASSUME NEW c \in deleted' PROVE ~entity'[Actor(c)].active
  <2>1. c \in Acts /\ ~Record(c).active
    BY <1>1, <1>2, <1>7, RetiredTyped DEF Told
  <2> QED BY <1>1, <1>4, <2>1 DEF Handed, Record
<1> QED BY <1>5, <1>6, <1>7 DEF Told, Record, Actor, Is, Known, OwnersOf

LEMMA MarksPolledStep ==
  ASSUME MarkersInv, NEW a \in Acts, NEW keeps \in BOOLEAN, Settled(a, keeps), MarksPolled,
         a \notin entity'[Actor(a)].retired
  PROVE  MarksPolled'
<1>1. OwnershipInv /\ MarksPlaced /\ CallStep(a, keeps) /\ Handed(entity', entity, a)
  BY DEF MarkersInv, Walk, Settled
<1>2. ASSUME NEW e \in Entities, NEW c \in entity'[e].retired PROVE Polled(c)'
  <2>1. c \in entity[e].retired \/ c \in OwnersOf(entity[e])
    BY <1>1, <1>2 DEF Handed, Known
  <2>2. c \in Acts /\ Actor(c) = e /\ Polled(c)
    BY <1>1, <2>1, OwnersPolled, RetiredTyped DEF MarksPlaced, MarksPolled
  <2>3. c # a
    BY <1>2, <2>2
  <2> QED BY <1>1, <2>2, <2>3, CallPolls DEF CallStep
<1> QED BY <1>2 DEF MarksPolled

LEMMA BulkStep ==
  ASSUME MarkersInv, OwnershipInv', NEW a \in Acts, NEW keeps \in BOOLEAN, Settled(a, keeps),
         Told, MarksPolled, ActorsDiffer, BulkFallsBackTogether, FiresUnmarked
  PROVE  BulkFallsBackTogether' /\ FiresUnmarked'
<1>1. /\ OwnershipInv /\ MarksPlaced /\ CallStep(a, keeps) /\ Handed(entity', entity, a)
      /\ RunningIsOwn /\ (IF pending = {} THEN ~stopping ELSE \E f \in Events : Visited(f))
      /\ keeps => a \in OwnersOf(entity'[Actor(a)]) /\ a \notin Record(a).retired /\ ~stopping
      /\ ~stopping => Sourced(entity', entity, a)
  BY DEF MarkersInv, Walk, Settled
<1>2. a \in pending /\ pending' = pending \ {a} /\ \A p \in pending : Position[a] <= Position[p]
  BY <1>1 DEF CallStep, CallMade, First
<1>3. /\ Polled(a)' <=> keeps
      /\ \A c \in Acts \ {a} : Polled(c)' <=> Polled(c)
  BY <1>1, CallPolls DEF CallStep
<1>4. Actor(a) \in Entities
  BY ActTypes
\* A marker that is new is not of the bulk action of a, in a call.
<1>5. ASSUME ~stopping, NEW e \in Entities, NEW m \in entity'[e].retired \ entity[e].retired,
             Bulk[m] = Bulk[a]
      PROVE  Bulk[m] = 0
  <2>1. PICK y \in OwnersOf(entity[Actor(a)]) \ {a} : Bulk[m] = Bulk[y]
    BY <1>1, <1>5 DEF Sourced
  <2>2. y \in Acts /\ Actor(y) = Actor(a) /\ y # a
    BY <1>1, <1>4, <2>1, OwnersPolled
  <2> QED BY <1>5, <2>1, <2>2 DEF ActorsDiffer
<1>6. ASSUME NEW e \in Entities, NEW m \in entity'[e].retired, NEW d \in Entities,
             NEW b \in OwnersOf(entity'[d]), Bulk[m] # 0, Bulk[m] = Bulk[b]
      PROVE  FALSE
  <2>1. b \in Acts /\ Polled(b)' /\ Actor(b) = d /\ entity'[d].active /\ b \notin entity'[d].retired
    <3>1. AllSound(entity')
      BY DEF OwnershipInv, AllSound, Sound, Consistent, Paired
    <3>2. b \in Acts /\ Actor(b) = d /\ entity'[d].active
      BY <1>6, <3>1, OwnersAreActs
    <3>3. Sound(entity'[d], d)
      BY <3>1 DEF AllSound
    <3>4. b \notin entity'[d].retired
      BY <1>6, <3>3 DEF Sound, Consistent, OwnersOf
    <3>5. (\A e0 \in Entities : \A b0 \in OwnersOf(entity[e0]) : Polled(b0))'
      BY DEF OwnershipInv
    <3>6. Polled(b)'
      BY <1>6, <3>5 DEF OwnersOf
    <3> QED BY <3>2, <3>4, <3>6
  <2>2. CASE m \notin entity[e].retired
    <3>1. b \notin Owners(entity') \ {a}
      BY <1>1, <1>6, <2>2 DEF Handed
    <3>2. b \in Owners(entity')
      BY <1>6, OwnersIn
    <3>3. b = a
      BY <3>1, <3>2
    <3>4. ~stopping
      BY <1>1, <1>3, <2>1, <3>3
    <3> QED BY <1>5, <1>6, <2>2, <3>3, <3>4
  <2>3. CASE m \in entity[e].retired
    <3>1. m \in Acts
      BY <1>1, <2>3, RetiredTyped
    <3>2. b \notin Owners(entity)
      BY <1>6, <2>1, <2>3 DEF BulkFallsBackTogether
    <3>3. b \notin OwnersOf(entity[d])
      BY <3>2, OwnersIn
    <3>4. b = a
      BY <1>1, <1>6, <3>3 DEF Handed
    <3>5. keeps /\ a \notin Record(a).retired
      BY <1>1, <1>3, <2>1, <3>4
    <3>6. CASE Polled(a)
      <4>1. Record(a).active
        BY <1>1, <2>1, <3>4 DEF Handed, Record
      <4>2. Is(a, MotionKinds)
        BY <1>6, <3>4, OwnershipAssumption DEF Is
      <4>3. a \in OwnersOf(Record(a))
        BY <3>5, <3>6, <4>1, <4>2 DEF Told, Known
      <4> QED BY <2>1, <3>3, <3>4, <4>3 DEF Record
    <3>7. CASE ~Polled(a)
      BY <1>2, <1>6, <2>3, <3>4, <3>7 DEF FiresUnmarked
    <3> QED BY <3>6, <3>7
  <2> QED BY <2>2, <2>3
<1>7. BulkFallsBackTogether'
  <2>1. ASSUME NEW e \in Entities, NEW m \in entity'[e].retired, NEW b \in Acts,
               Bulk[m] # 0, Bulk[m] = Bulk[b]
        PROVE  b \notin Owners(entity')
    <3> SUFFICES ASSUME b \in Owners(entity') PROVE FALSE
      OBVIOUS
    <3>1. PICK d \in Entities : b \in OwnersOf(entity'[d])
      BY OwnersIn
    <3> QED BY <1>6, <2>1, <3>1
  <2> QED BY <2>1 DEF BulkFallsBackTogether, Owners, OwnersOf
<1>8. ASSUME NEW c \in pending', ~Polled(c)', NEW e \in Entities, NEW m \in entity'[e].retired,
             Bulk[c] # 0, Bulk[m] = Bulk[c]
      PROVE  FALSE
  <2>1. c \in pending /\ c # a /\ c \in Acts
    BY <1>1, <1>2, RetiredTyped
  <2>2. ~Polled(c)
    BY <1>3, <1>8, <2>1
  <2>3. m \notin entity[e].retired
    BY <1>8, <2>1, <2>2 DEF FiresUnmarked
  <2>4. m \in OwnersOf(entity[e])
    BY <1>1, <1>8, <2>3 DEF Handed, Known
  <2>5. m \in Acts /\ Polled(m)
    BY <1>1, <2>4, OwnersPolled
  <2>6. EventOf[m] = EventOf[c]
    BY <1>8, <2>1, <2>5, GroupsTogether
  <2>7. PICK f \in Events : Visited(f)
    BY <1>1, <1>2
  <2>8. EventOf[c] = f /\ EventOf[a] = f /\ m \in running[f] /\ c \notin running[f]
    BY <1>2, <2>1, <2>2, <2>5, <2>6, <2>7, PlaceOf DEF Visited, Polled
  <2>9. ~stopping /\ Position[m] < Position[a] /\ Position[a] <= Position[c]
    BY <1>2, <2>1, <2>7, <2>8 DEF Visited
  <2>10. Position[m] <= Position[a]
    BY <2>5, <2>9, PlaceOf
  <2>11. Bulk[a] = Bulk[m]
    BY <1>8, <2>1, <2>5, <2>6, <2>8, <2>9, <2>10, GroupsTogether
  <2> QED BY <1>5, <1>8, <2>3, <2>9, <2>11
<1>9. FiresUnmarked'
  BY <1>8 DEF FiresUnmarked
<1> QED BY <1>7, <1>9

LEMMA MarkersStep ==
  ASSUME MarkersInv, OwnershipInv', NEW a \in Acts, NEW keeps \in BOOLEAN, Settled(a, keeps),
         \A e \in Entities : AxisUsed(entity'[e]),
         ReferencesStay => a \notin entity'[Actor(a)].retired
  PROVE  MarkersInv'
<1>1. Walk'
  BY WalkStep
<1>2. NoReturn => Told'
  BY ToldStep DEF MarkersInv
<1>3. ReferencesStay => MarksPolled'
  BY MarksPolledStep DEF MarkersInv
<1>4. NoReturn /\ ReferencesStay /\ ActorsDiffer => BulkFallsBackTogether' /\ FiresUnmarked'
  BY BulkStep DEF MarkersInv
<1>5. (NoReturn <=> NoReturn') /\ (ReferencesStay <=> ReferencesStay')
      /\ (ActorsDiffer <=> ActorsDiffer')
  BY DEF NoReturn, ReferencesStay, ActorsDiffer, Is, Actor
<1> QED BY <1>1, <1>2, <1>3, <1>4, <1>5 DEF MarkersInv

\* What apply(a) answers.
LEMMA AnswerSettles ==
  ASSUME MarkersInv, OwnershipInv', NEW a \in Acts, NEW E, NEW reports,
         Calls(a), Answer(a, E, reports),
         Handed(E, entity, a), Sourced(E, entity, a),
         reports = "Running" => a \in OwnersOf(E[Actor(a)]) /\ a \notin Record(a).retired,
         \A e \in Entities : AxisUsed(E[e]),
         ReferencesStay => a \notin E[Actor(a)].retired
  PROVE  MarkersInv'
<1> DEFINE keeps == reports = "Running"
<1>1. keeps \in BOOLEAN /\ entity' = E /\ ~stopping /\ First(a)
  BY DEF Answer, Calls
<1>2. CallStep(a, keeps)
  BY <1>1 DEF Answer, CallStep, CallMade
<1>3. Settled(a, keeps)
  BY <1>1, <1>2 DEF Settled
<1> HIDE DEF keeps
<1> QED BY <1>1, <1>3, MarkersStep

\* A call that ends by writing s to the record of its actor.
LEMMA InstalledSettles ==
  ASSUME MarkersInv, OwnershipInv', NEW a \in Acts, NEW F \in [Entities -> EntityRecord],
         NEW s, NEW reports, Calls(a), a \notin Record(a).retired,
         Supersedes(F, entity, Actor(a)), a \notin OwnersOf(Record(a)) \/ F = entity,
         Installs(s, F[Actor(a)], a), AxisUsed(s),
         \A e \in Entities \ {Actor(a)} : AxisUsed(F[e]),
         reports = "Running" => a \in OwnersOf(s),
         Answer(a, [F EXCEPT ![Actor(a)] = s], reports)
  PROVE  MarkersInv'
<1> DEFINE x == Actor(a)
           E == [F EXCEPT ![x] = s]
<1>1. x \in Entities /\ a \notin entity[x].retired
  BY ActTypes DEF Record
<1>2. Handed(E, entity, a) /\ Sourced(E, entity, a)
  BY InstalledHands DEF Record
<1>3. E[x] = s /\ \A e \in Entities \ {x} : E[e] = F[e]
  BY <1>1
<1> HIDE DEF E
<1>4. \A e \in Entities : AxisUsed(E[e])
  BY <1>3 DEF x
<1>5. a \notin E[x].retired
  <2>1. CASE a \notin OwnersOf(entity[x])
    BY <1>1, <1>2, <2>1 DEF Handed, Known
  <2>2. CASE F = entity
    BY <1>1, <1>3, <2>2 DEF Installs
  <2> QED BY <2>1, <2>2 DEF Record
<1> QED BY <1>1, <1>2, <1>3, <1>4, <1>5, AnswerSettles DEF E, Record

---------------------------------------------------------------------------
(* Calls that install an owner.                                              *)

LEMMA TakenMarks ==
  ASSUME MarkersInv, OwnershipInv', NEW a \in Acts, Calls(a), Takes(a)
  PROVE  MarkersInv'
<1> DEFINE x == Actor(a)
           F == SupersedeLongitudinal(entity, x, a)
<1>1. /\ OwnershipInv /\ AllSound(entity) /\ x \in Entities /\ Sound(entity[x], x)
      /\ Is(a, LongitudinalKinds) /\ Ready(a) /\ a # None /\ None \notin Acts
      /\ \A e \in Entities : AxisUsed(entity[e])
  BY ActTypes, OwnershipAssumption DEF MarkersInv, Walk, OwnershipInv, AllSound, Takes
<1>2. /\ Supersedes(F, entity, x) /\ \A e \in Entities : AxisUsed(F[e])
      /\ F[x].longitudinalOwner \in {None, a} \cup F[x].retired
  BY <1>1, SupersedeLongitudinalYields
<1>3. F \in [Entities -> EntityRecord] /\ (Record(a).longitudinalOwner = a => F = entity)
  BY <1>1, SupersededForSpeed
<1>4. PICK s, reports : /\ TakenFrom(s, F[x], a)
                        /\ s.longitudinalOwner = IF reports = "Running" THEN a ELSE None
                        /\ Answer(a, [F EXCEPT ![x] = s], reports)
  BY DEF Takes
<1> HIDE DEF F
<1>5. a \notin OwnersOf(Record(a)) \/ F = entity
  <2>1. ~Is(a, LateralKinds) /\ ~Is(a, TrajectoryKinds)
    BY <1>1, KindsApart DEF Is, LongitudinalKinds, LateralKinds, TrajectoryKinds
  <2>2. a \in OwnersOf(Record(a)) => Record(a).longitudinalOwner = a
    BY <1>1, <2>1 DEF OwnersOf, Record, Sound, Consistent
  <2> QED BY <1>3, <2>2
<1>6. Installs(s, F[x], a)
  BY <1>2, <1>4 DEF Installs, TakenFrom, OwnersOf
<1>7. AxisUsed(s)
  BY <1>1, <1>2, <1>4 DEF AxisUsed, TakenFrom
<1>8. reports = "Running" => a \in OwnersOf(s)
  BY <1>1, <1>4 DEF OwnersOf
<1>9. a \notin Record(a).retired
  BY <1>1 DEF Ready
<1> QED BY <1>1, <1>2, <1>3, <1>4, <1>5, <1>6, <1>7, <1>8, <1>9, InstalledSettles

LEMMA SteeredMarks ==
  ASSUME MarkersInv, OwnershipInv', NEW a \in Acts, Calls(a), Steers(a)
  PROVE  MarkersInv'
<1> DEFINE x == Actor(a)
           F == IF Record(a).lateralOwner = a THEN entity ELSE SupersedeLateral(entity, x, a)
<1>1. /\ OwnershipInv /\ AllSound(entity) /\ x \in Entities /\ Sound(entity[x], x)
      /\ Is(a, LateralKinds) /\ Ready(a) /\ a # None /\ None \notin Acts
      /\ \A e \in Entities : AxisUsed(entity[e])
  BY ActTypes, OwnershipAssumption DEF MarkersInv, Walk, OwnershipInv, AllSound, Steers
<1>2. /\ Supersedes(F, entity, x) /\ \A e \in Entities \ {x} : AxisUsed(F[e])
      /\ Record(a).lateralOwner = a => F = entity
  BY <1>1, SupersedeLateralYields, SupersedesReflexive
<1>3. AllSound(F) /\ F[x].lateralOwner \in {None, a}
  BY <1>1, SupersedeLateralSound DEF Record
<1>4. PICK s, reports : /\ SteeredFrom(s, F[x], a) /\ (AxisUsed(Record(a)) => AxisUsed(s))
                        /\ s.lateralOwner = IF reports = "Running" THEN a ELSE None
                        /\ Answer(a, [F EXCEPT ![x] = s], reports)
  BY DEF Steers
<1> HIDE DEF F
<1>5. a \notin OwnersOf(Record(a)) \/ F = entity
  <2>1. ~Is(a, DrivesSpeed) /\ ~Is(a, TrajectoryKinds)
    BY <1>1, KindsApart
  <2>2. a \in OwnersOf(Record(a)) => Record(a).lateralOwner = a
    BY <1>1, <2>1 DEF OwnersOf, Record, Sound, Consistent
  <2> QED BY <1>2, <2>2
<1>6. Installs(s, F[x], a)
  BY <1>3, <1>4 DEF Installs, SteeredFrom, OwnersOf
<1>7. reports = "Running" => a \in OwnersOf(s)
  BY <1>1, <1>4 DEF OwnersOf
<1>8. F \in [Entities -> EntityRecord]
  BY <1>3 DEF AllSound
<1>9. AxisUsed(s) /\ a \notin Record(a).retired
  BY <1>1, <1>4 DEF Record, Ready
<1> QED BY <1>1, <1>2, <1>4, <1>5, <1>6, <1>7, <1>8, <1>9, InstalledSettles

\* A change that touches no marker and no owner, but for one that is marked.
LEMMA SupersedesMore ==
  ASSUME NEW E, NEW F, NEW G, NEW x \in Entities, Supersedes(F, E, x),
         \A e \in Entities : /\ G[e].active = F[e].active /\ G[e].retired = F[e].retired
                             /\ OwnersOf(G[e]) \subseteq OwnersOf(F[e])
                             /\ OwnersOf(F[e]) \subseteq OwnersOf(G[e]) \cup F[e].retired
  PROVE  Supersedes(G, E, x)
<1>1. Owners(G) \subseteq Owners(F)
  BY DEF Owners
<1> QED BY <1>1 DEF Supersedes, YieldsTo

LEMMA InstallsThen ==
  ASSUME NEW a, NEW r, NEW w, NEW s, Installs(w, r, a),
         s.active = w.active, s.retired = w.retired, OwnersOf(s) \ {a} = OwnersOf(w) \ {a}
  PROVE  Installs(s, r, a)
BY DEF Installs

\* Following a trajectory: the lateral domain is superseded and the axis goes,
\* for a timed one the longitudinal domain too.
LEMMA PathYields ==
  ASSUME OwnershipInv, NEW a \in Acts, Is(a, TrajectoryKinds), Ready(a),
         Record(a).follower # a, \A e \in Entities : AxisUsed(entity[e])
  PROVE  LET E == TakeLateralForPath(a)
         IN  Supersedes(E, entity, Actor(a)) /\ \A e \in Entities : AxisUsed(E[e])
<1> DEFINE x == Actor(a)
           F == SupersedeLateral(entity, x, a)
           E == TakeLateralForPath(a)
<1>1. x \in Entities /\ AllSound(entity) /\ E = [F EXCEPT ![x] = Dissolved(F[x])]
  BY ActTypes DEF OwnershipInv, TakeLateralForPath
<1>2. /\ Supersedes(F, entity, x) /\ \A e \in Entities \ {x} : AxisUsed(F[e])
      /\ AllSound(F)
  BY <1>1, SupersedeLateralYields, SupersedeLateralSound
<1>3. E[x].lateralOwner = None
  BY PathTaken
<1> HIDE DEF F, E
<1>4. F \in [Entities -> EntityRecord] /\ F[x] \in EntityRecord
  BY <1>1, <1>2 DEF AllSound
<1>5. E[x] = Dissolved(F[x]) /\ \A e \in Entities \ {x} : E[e] = F[e]
  BY <1>1, <1>4
<1>6. /\ E[x].retired = F[x].retired /\ E[x].active = F[x].active
      /\ OwnersOf(E[x]) = OwnersOf(F[x]) /\ E[x].lateralOwner = F[x].lateralOwner
      /\ F[x].lateralOwner = None => AxisUsed(E[x])
  BY <1>4, <1>5, DissolvedYields, DissolvedFields
<1>7. \A e \in Entities : /\ E[e].active = F[e].active /\ E[e].retired = F[e].retired
                          /\ OwnersOf(E[e]) = OwnersOf(F[e])
  BY <1>5, <1>6
<1>8. Supersedes(E, entity, x)
  BY <1>1, <1>2, <1>7, SupersedesMore
<1>9. \A e \in Entities : AxisUsed(E[e])
  BY <1>2, <1>3, <1>5, <1>6
<1> QED BY <1>8, <1>9 DEF E

LEMMA FollowYields ==
  ASSUME OwnershipInv, NEW a \in Acts, Is(a, TrajectoryKinds), Ready(a),
         \A e \in Entities : AxisUsed(entity[e])
  PROVE  \E F, w :
           /\ F \in [Entities -> EntityRecord]
           /\ Follow(a) = [F EXCEPT ![Actor(a)] = w]
           /\ Supersedes(F, entity, Actor(a)) /\ \A e \in Entities : AxisUsed(F[e])
           /\ a \notin OwnersOf(Record(a)) \/ F = entity
           /\ Installs(w, F[Actor(a)], a) /\ AxisUsed(w)
<1> DEFINE x == Actor(a)
<1>1. /\ x \in Entities /\ AllSound(entity) /\ Sound(entity[x], x) /\ a # None /\ None \notin Acts
      /\ entity \in [Entities -> EntityRecord]
  BY ActTypes, OwnershipAssumption DEF OwnershipInv, AllSound
<1>2. CASE Record(a).follower = a
  <2>1. entity = [entity EXCEPT ![x] = entity[x]]
    BY <1>1
  <2>2. Installs(entity[x], entity[x], a)
    BY DEF Installs
  <2>3. Supersedes(entity, entity, x)
    BY SupersedesReflexive
  <2> QED BY <1>1, <1>2, <2>1, <2>2, <2>3 DEF Follow
<1>3. CASE Record(a).follower # a
  <2> DEFINE E == TakeLateralForPath(a)
             r == E[x]
  <2>1. /\ AllSound(E)
        /\ r.follower = None /\ r.lateralOwner = None /\ ~r.axis /\ a \notin Known(r)
    BY <1>3, PathTaken
  <2>2. Supersedes(E, entity, x) /\ \A e \in Entities : AxisUsed(E[e])
    BY <1>3, PathYields
  <2>3. a \notin OwnersOf(Record(a))
    BY <1>1, <1>3, KindsApart DEF OwnersOf, Record, Sound, Consistent, Paired
  <2>4. CASE Is(a, {"trajectory"})
    <3> DEFINE s == [r EXCEPT !.follower = a]
    <3>1. Follow(a) = [E EXCEPT ![x] = s]
      BY <1>3, <2>4 DEF Follow
    <3> HIDE DEF E
    <3>2. E \in [Entities -> EntityRecord] /\ r \in EntityRecord
      BY <1>1, <2>1 DEF AllSound
    <3>3. /\ s.active = r.active /\ s.retired = r.retired /\ s.follower = a
          /\ s.longitudinalOwner = r.longitudinalOwner /\ s.lateralOwner = r.lateralOwner
          /\ s.axis = r.axis /\ s.dissolving = r.dissolving
      BY <3>2 DEF EntityRecord
    <3> HIDE DEF r, s
    <3>4. Installs(s, r, a)
      BY <2>1, <3>3 DEF Installs, OwnersOf
    <3>5. AxisUsed(r)
      BY <1>1, <2>2 DEF r
    <3>6. AxisUsed(s)
      BY <3>3, <3>5 DEF AxisUsed
    <3> QED BY <2>2, <2>3, <3>1, <3>2, <3>4, <3>6 DEF r
  <2>5. CASE Is(a, {"timedTrajectory"})
    <3> DEFINE F == SupersedeLongitudinal(E, x, a)
               q == F[x]
               t == FreeLongitudinal(q)
               s == [t EXCEPT !.longitudinalOwner = a, !.follower = a]
    <3>1. Follow(a) = [F EXCEPT ![x] = s]
      BY <1>3, <2>5 DEF Follow, Is
    <3>2. /\ F \in [Entities -> EntityRecord]
          /\ \A e \in Entities : Descends(F[e], E[e])
          /\ r.longitudinalOwner # a => Vacated(q, x)
      BY <1>1, <2>1, SupersedeLongitudinalSound
    <3>3. /\ Supersedes(F, E, x) /\ \A e \in Entities : AxisUsed(F[e])
          /\ q.longitudinalOwner \in {None, a} \cup q.retired
      BY <1>1, <2>1, <2>2, SupersedeLongitudinalYields
    <3> HIDE DEF F, E
    <3>4. Supersedes(F, entity, x)
      BY <1>1, <2>2, <3>3, SupersedesTransitive
    <3>5. Vacated(q, x) /\ q \in EntityRecord /\ Descends(q, r)
      BY <1>1, <2>1, <3>2 DEF Known, OwnersOf, Vacated
    <3>6. q.follower = None /\ q.lateralOwner = None
      <4>1. /\ Sound(r, x) /\ q.follower \in Acts \cup {None} /\ q.lateralOwner \in Acts \cup {None}
            /\ r.longitudinalOwner \in Acts \cup {None}
        BY <1>1, <2>1, <3>5 DEF AllSound, Sound, EntityRecord
      <4>2. /\ q.lateralOwner # None => q.lateralOwner = r.longitudinalOwner
            /\ q.follower # None => q.follower = r.longitudinalOwner
        BY <2>1, <3>5, <4>1 DEF Descends, OwnersOf
      <4>3. q.lateralOwner = None
        BY <3>5, <4>1, <4>2, <1>1, KindsApart DEF Vacated, Sound, Consistent
      <4>4. q.follower = None
        BY <3>5, <4>1, <4>2, <1>1, KindsApart DEF Vacated, Sound, Consistent
      <4> QED BY <4>3, <4>4
    <3>7. AxisUsed(q)
      BY <1>1, <3>3
    <3>8. /\ t \in EntityRecord /\ t.active = q.active /\ t.retired = q.retired
          /\ t.lateralOwner = q.lateralOwner /\ t.axis = q.axis /\ t.dissolving = q.dissolving
      BY <3>5, FreeLongitudinalFields
    <3> HIDE DEF t, q
    <3>9. /\ s.active = q.active /\ s.retired = q.retired /\ s.follower = a
          /\ s.longitudinalOwner = a /\ s.lateralOwner = None
          /\ s.axis = q.axis /\ s.dissolving = q.dissolving
      BY <3>6, <3>8 DEF EntityRecord
    <3> HIDE DEF s
    <3>10. Installs(s, q, a)
      BY <3>3, <3>6, <3>9 DEF Installs, OwnersOf
    <3>11. AxisUsed(s)
      BY <3>6, <3>7, <3>9 DEF AxisUsed
    <3> QED BY <2>3, <3>1, <3>2, <3>3, <3>4, <3>10, <3>11 DEF q
  <2> QED BY <2>4, <2>5, KindsApart
<1> QED BY <1>2, <1>3

LEMMA TrajectoryMarks ==
  ASSUME MarkersInv, OwnershipInv', NEW a \in Acts, ApplyTrajectory(a)
  PROVE  MarkersInv'
<1> DEFINE x == Actor(a)
           E == Follow(a)
<1>1. /\ OwnershipInv /\ x \in Entities /\ a # None /\ None \notin Acts
      /\ Is(a, TrajectoryKinds) /\ Ready(a) /\ Calls(a) /\ a \notin Record(a).retired
      /\ \A e \in Entities : AxisUsed(entity[e])
  BY ActTypes, OwnershipAssumption DEF MarkersInv, Walk, ApplyTrajectory, Ready
<1>2. PICK F, w :
        /\ F \in [Entities -> EntityRecord]
        /\ E = [F EXCEPT ![x] = w]
        /\ Supersedes(F, entity, x) /\ \A e \in Entities : AxisUsed(F[e])
        /\ a \notin OwnersOf(Record(a)) \/ F = entity
        /\ Installs(w, F[x], a) /\ AxisUsed(w)
  BY <1>1, FollowYields
<1>3. E \in [Entities -> EntityRecord] /\ Sound(E[x], x) /\ E[x].follower = a
  BY <1>1, FollowSound
<1>4. \/ Answer(a, [E EXCEPT ![x] = Finished(E[x], a)], "Complete")
      \/ Answer(a, [E EXCEPT ![x] = [E[x] EXCEPT !.moved = TRUE]], "Running")
      \/ Answer(a, E, "Running")
  BY DEF ApplyTrajectory
<1> HIDE DEF E
<1>5. E[x] = w /\ w \in EntityRecord /\ \A s : [E EXCEPT ![x] = s] = [F EXCEPT ![x] = s]
  BY <1>1, <1>2, <1>3
<1>6. a \in OwnersOf(w)
  BY <1>1, <1>3, <1>5 DEF OwnersOf
<1>7. ASSUME NEW s, NEW reports, Answer(a, [E EXCEPT ![x] = s], reports),
             s.active = w.active, s.retired = w.retired, OwnersOf(s) \ {a} = OwnersOf(w) \ {a},
             s.axis = w.axis, s.dissolving = w.dissolving, s.lateralOwner = w.lateralOwner,
             reports = "Running" => a \in OwnersOf(s)
      PROVE  MarkersInv'
  <2>1. Answer(a, [F EXCEPT ![x] = s], reports)
    BY <1>5, <1>7
  <2>2. Installs(s, F[x], a)
    BY <1>2, <1>7, InstallsThen
  <2>3. AxisUsed(s)
    BY <1>2, <1>7 DEF AxisUsed
  <2> QED BY <1>1, <1>2, <1>7, <2>1, <2>2, <2>3, InstalledSettles
<1>8. CASE Answer(a, [E EXCEPT ![x] = Finished(w, a)], "Complete")
  <2> DEFINE o == IF Is(a, {"timedTrajectory"}) THEN None ELSE w.longitudinalOwner
             s == Finished(w, a)
  <2>1. s = [w EXCEPT !.follower = None, !.moved = TRUE, !.longitudinalOwner = o]
    BY DEF Finished
  <2>2. w.follower = a /\ (Is(a, {"timedTrajectory"}) => w.longitudinalOwner = a)
    BY <1>3, <1>5 DEF Sound, Paired
  <2>3. o = w.longitudinalOwner \/ (o = None /\ w.longitudinalOwner = a)
    BY <2>2
  <2> HIDE DEF o
  <2>4. /\ s.active = w.active /\ s.retired = w.retired /\ s.follower = None
        /\ s.axis = w.axis /\ s.dissolving = w.dissolving /\ s.lateralOwner = w.lateralOwner
        /\ s.longitudinalOwner = o
    BY <1>5, <2>1 DEF EntityRecord
  <2> HIDE DEF s
  <2>5. OwnersOf(s) \ {a} = OwnersOf(w) \ {a}
    BY <1>1, <2>2, <2>3, <2>4 DEF OwnersOf
  <2> QED BY <1>7, <1>8, <2>4, <2>5 DEF s
<1>9. CASE Answer(a, [E EXCEPT ![x] = [w EXCEPT !.moved = TRUE]], "Running")
  <2> DEFINE s == [w EXCEPT !.moved = TRUE]
  <2>1. /\ s.active = w.active /\ s.retired = w.retired /\ OwnersOf(s) = OwnersOf(w)
        /\ s.axis = w.axis /\ s.dissolving = w.dissolving /\ s.lateralOwner = w.lateralOwner
    BY <1>5 DEF EntityRecord, OwnersOf
  <2> HIDE DEF s
  <2> QED BY <1>6, <1>7, <1>9, <2>1 DEF s
<1>10. CASE Answer(a, E, "Running")
  <2>1. E = [E EXCEPT ![x] = w]
    BY <1>3, <1>5
  <2>2. Answer(a, [E EXCEPT ![x] = w], "Running")
    BY <1>10, <2>1
  <2> QED BY <1>6, <1>7, <2>2
<1> QED BY <1>4, <1>5, <1>8, <1>9, <1>10

---------------------------------------------------------------------------
(* Calls that install nothing, and stops.                                    *)

LEMMA IdleCallMarks ==
  ASSUME MarkersInv, OwnershipInv', NEW a \in Acts,
         \/ ApplyToInactive(a) \/ ApplyDeactivated(a) \/ ApplyStepSpeed(a)
  PROVE  MarkersInv'
<1>1. Calls(a) /\ Answer(a, entity, "Complete")
  BY DEF ApplyToInactive, ApplyDeactivated, ApplyStepSpeed
<1>2. Handed(entity, entity, a) /\ Sourced(entity, entity, a)
  BY DEF Handed, Sourced, Known
<1>3. a \notin entity[Actor(a)].retired
  <2>1. CASE ApplyToInactive(a)
    BY <2>1, ActTypes DEF ApplyToInactive, Record, MarkersInv, Walk, MarksPlaced
  <2>2. CASE ApplyDeactivated(a) \/ ApplyStepSpeed(a)
    BY <2>2 DEF ApplyDeactivated, ApplyStepSpeed, Ready, Record
  <2> QED BY <2>1, <2>2
<1>4. \A e \in Entities : AxisUsed(entity[e])
  BY DEF MarkersInv, Walk
<1> QED BY <1>1, <1>2, <1>3, <1>4, AnswerSettles

LEMMA RetiredCallMarks ==
  ASSUME MarkersInv, OwnershipInv', NEW a \in Acts, ApplyRetired(a)
  PROVE  MarkersInv'
<1> DEFINE x == Actor(a)
           s == [entity[x] EXCEPT !.retired = @ \ {a}]
           E == [entity EXCEPT ![x] = s]
<1>1. /\ x \in Entities /\ entity \in [Entities -> EntityRecord] /\ entity[x] \in EntityRecord
      /\ \A e \in Entities : AxisUsed(entity[e])
  BY ActTypes DEF MarkersInv, OwnershipInv, AllSound, Walk
<1>2. Calls(a) /\ Answer(a, E, "Complete")
  BY <1>1 DEF ApplyRetired
<1>3. /\ s.active = entity[x].active /\ s.retired = entity[x].retired \ {a}
      /\ s.longitudinalOwner = entity[x].longitudinalOwner
      /\ s.lateralOwner = entity[x].lateralOwner /\ s.follower = entity[x].follower
      /\ s.axis = entity[x].axis /\ s.dissolving = entity[x].dissolving
  BY <1>1 DEF EntityRecord
<1>4. E[x] = s /\ \A e \in Entities \ {x} : E[e] = entity[e]
  BY <1>1
<1> HIDE DEF E, s
<1>5. \A e \in Entities : /\ E[e].active = entity[e].active
                          /\ E[e].retired = entity[e].retired \/ E[e].retired = entity[e].retired \ {a}
                          /\ OwnersOf(E[e]) = OwnersOf(entity[e])
  BY <1>3, <1>4 DEF OwnersOf
<1>6. Handed(E, entity, a) /\ Sourced(E, entity, a)
  BY <1>5 DEF Handed, Sourced, Known
<1>7. \A e \in Entities : AxisUsed(E[e])
  BY <1>1, <1>3, <1>4 DEF AxisUsed
<1>8. a \notin E[x].retired
  BY <1>3, <1>4
<1> QED BY <1>2, <1>6, <1>7, <1>8, AnswerSettles

\* The reference of a speed is gone: only a storyboard that deletes it.
LEMMA ReferenceDeleted ==
  ASSUME MarkersInv, NEW a \in Acts, SpeedRefGone(a)
  PROVE  ~ReferencesStay
<1>1. Do[a].ref \in Entities /\ ~entity[Do[a].ref].active /\ Is(a, {"speed", "continuousSpeed"})
  BY ActTypes DEF SpeedRefGone, RefGone, Descriptions
<1>2. \E d \in Acts : Is(d, {"delete"}) /\ Actor(d) = Do[a].ref
  BY <1>1 DEF MarkersInv, Walk, MarksPlaced
<1> QED BY <1>1, <1>2 DEF ReferencesStay

LEMMA WithoutReferenceMarks ==
  ASSUME MarkersInv, OwnershipInv', NEW a \in Acts, ApplyWithoutSpeedReference(a)
  PROVE  MarkersInv'
<1> DEFINE x == Actor(a)
           r == entity[x]
           t == FreeLongitudinal(r)
           s == IF r.longitudinalOwner = a THEN t ELSE r
           E == [entity EXCEPT ![x] = s]
<1>1. /\ x \in Entities /\ entity \in [Entities -> EntityRecord] /\ r \in EntityRecord
      /\ \A e \in Entities : AxisUsed(entity[e])
  BY ActTypes DEF MarkersInv, OwnershipInv, AllSound, Walk
<1>2. Calls(a) /\ Answer(a, E, "Complete") /\ SpeedRefGone(a)
  BY <1>1 DEF ApplyWithoutSpeedReference
<1>3. /\ t \in EntityRecord /\ t.active = r.active /\ t.retired = r.retired
      /\ t.longitudinalOwner = None
      /\ t.lateralOwner = r.lateralOwner /\ t.follower = r.follower
      /\ t.axis = r.axis /\ t.dissolving = r.dissolving
  BY <1>1, FreeLongitudinalFields
<1> HIDE DEF t
<1>4. E[x] = s /\ \A e \in Entities \ {x} : E[e] = entity[e]
  BY <1>1, <1>3
<1>5. /\ s.active = r.active /\ s.retired = r.retired /\ (AxisUsed(r) => AxisUsed(s))
      /\ OwnersOf(s) \subseteq OwnersOf(r) /\ OwnersOf(r) \subseteq OwnersOf(s) \cup {a}
  BY <1>3 DEF AxisUsed, OwnersOf
<1> HIDE DEF E, s
<1>6. \A e \in Entities : /\ E[e].active = entity[e].active /\ E[e].retired = entity[e].retired
                          /\ OwnersOf(E[e]) \subseteq OwnersOf(entity[e])
                          /\ OwnersOf(entity[e]) \subseteq OwnersOf(E[e]) \cup {a}
                          /\ AxisUsed(E[e])
  BY <1>1, <1>4, <1>5
<1>7. Handed(E, entity, a) /\ Sourced(E, entity, a)
  BY <1>6 DEF Handed, Sourced, Known
<1>8. ~ReferencesStay
  BY <1>2, ReferenceDeleted
<1> QED BY <1>2, <1>6, <1>7, <1>8, AnswerSettles

LEMMA SwitchLateralYields ==
  ASSUME NEW E, AllSound(E), NEW x \in Entities, NEW flag \in Flags,
         \A e \in Entities : AxisUsed(E[e])
  PROVE  LET G == SwitchLateral(E, x, flag)
         IN  Supersedes(G, E, x) /\ \A e \in Entities : AxisUsed(G[e])
<1> DEFINE F == SupersedeLateral(E, x, None)
           H == ReleaseLateral(E, x)
           K == IF flag = "off" /\ E[x].lateral THEN H ELSE E
           G == SwitchLateral(E, x, flag)
<1>1. Supersedes(H, E, x) /\ H \in [Entities -> EntityRecord] /\ \A e \in Entities : AxisUsed(H[e])
  <2>1. /\ Supersedes(F, E, x) /\ \A e \in Entities \ {x} : AxisUsed(F[e])
        /\ AllSound(F) /\ F[x].lateralOwner \in {None, None}
    BY SupersedeLateralYields, SupersedeLateralSound
  <2>2. H = [F EXCEPT ![x] = Dissolved(F[x])]
    BY DEF ReleaseLateral
  <2> HIDE DEF F, H
  <2>3. F \in [Entities -> EntityRecord] /\ F[x] \in EntityRecord
    BY <2>1 DEF AllSound
  <2>4. Dissolved(F[x]) \in EntityRecord
    BY <2>3, DissolvedFields
  <2>5. /\ H \in [Entities -> EntityRecord]
        /\ H[x] = Dissolved(F[x]) /\ \A e \in Entities \ {x} : H[e] = F[e]
    BY <2>2, <2>3, <2>4
  <2>6. /\ H[x].retired = F[x].retired /\ H[x].active = F[x].active
        /\ OwnersOf(H[x]) = OwnersOf(F[x]) /\ AxisUsed(H[x])
    BY <2>1, <2>3, <2>5, DissolvedYields
  <2>7. \A e \in Entities : /\ H[e].active = F[e].active /\ H[e].retired = F[e].retired
                            /\ OwnersOf(H[e]) = OwnersOf(F[e]) /\ AxisUsed(H[e])
    BY <2>1, <2>5, <2>6
  <2>8. Supersedes(H, E, x)
    BY <2>1, <2>7, SupersedesMore
  <2> QED BY <2>5, <2>7, <2>8
<1>2. Supersedes(K, E, x) /\ K \in [Entities -> EntityRecord] /\ \A e \in Entities : AxisUsed(K[e])
  BY <1>1, SupersedesReflexive DEF AllSound
<1>3. G = IF flag = "keep" THEN K ELSE [K EXCEPT ![x].lateral = flag = "on"]
  BY DEF SwitchLateral
<1> HIDE DEF G, K
<1>4. \A e \in Entities : /\ G[e].active = K[e].active /\ G[e].retired = K[e].retired
                          /\ OwnersOf(G[e]) = OwnersOf(K[e]) /\ AxisUsed(G[e])
  <2>1. CASE flag = "keep"
    BY <1>2, <1>3, <2>1
  <2>2. CASE flag # "keep"
    <3> DEFINE b == flag = "on"
               s == [K[x] EXCEPT !.lateral = b]
    <3>1. G[x] = s /\ \A e \in Entities \ {x} : G[e] = K[e]
      BY <1>2, <1>3, <2>2
    <3>2. /\ s.active = K[x].active /\ s.retired = K[x].retired
          /\ s.longitudinalOwner = K[x].longitudinalOwner
          /\ s.lateralOwner = K[x].lateralOwner /\ s.follower = K[x].follower
          /\ s.axis = K[x].axis /\ s.dissolving = K[x].dissolving
      BY <1>2 DEF EntityRecord
    <3> HIDE DEF s
    <3>3. OwnersOf(s) = OwnersOf(K[x]) /\ AxisUsed(s)
      BY <1>2, <3>2 DEF OwnersOf, AxisUsed
    <3> QED BY <1>2, <3>1, <3>2, <3>3
  <2> QED BY <2>1, <2>2
<1>5. Supersedes(G, E, x)
  BY <1>2, <1>4, SupersedesMore
<1> QED BY <1>4, <1>5 DEF G

LEMMA SwitchLongitudinalYields ==
  ASSUME NEW E, AllSound(E), NEW x \in Entities, NEW flag \in Flags,
         \A e \in Entities : AxisUsed(E[e])
  PROVE  LET G == SwitchLongitudinal(E, x, flag)
         IN  Supersedes(G, E, x) /\ \A e \in Entities : AxisUsed(G[e])
<1> DEFINE F == SupersedeLongitudinal(E, x, None)
           H == ReleaseLongitudinal(E, x)
           K == IF flag = "off" /\ E[x].longitudinal THEN H ELSE E
           G == SwitchLongitudinal(E, x, flag)
<1>1. Supersedes(H, E, x) /\ H \in [Entities -> EntityRecord] /\ \A e \in Entities : AxisUsed(H[e])
  <2>1. /\ Supersedes(F, E, x) /\ \A e \in Entities : AxisUsed(F[e])
        /\ F[x].longitudinalOwner \in {None, None} \cup F[x].retired
        /\ F \in [Entities -> EntityRecord]
    BY SupersedeLongitudinalYields, SupersedeLongitudinalSound
  <2>2. H = [F EXCEPT ![x] = FreeLongitudinal(F[x])]
    BY DEF ReleaseLongitudinal
  <2> HIDE DEF F, H
  <2> DEFINE s == FreeLongitudinal(F[x])
  <2>3. /\ s \in EntityRecord /\ s.active = F[x].active /\ s.retired = F[x].retired
        /\ s.longitudinalOwner = None
        /\ s.lateralOwner = F[x].lateralOwner /\ s.follower = F[x].follower
        /\ s.axis = F[x].axis /\ s.dissolving = F[x].dissolving
    BY <2>1, FreeLongitudinalFields
  <2> HIDE DEF s
  <2>4. /\ H \in [Entities -> EntityRecord]
        /\ H[x] = s /\ \A e \in Entities \ {x} : H[e] = F[e]
    BY <2>1, <2>2, <2>3 DEF s
  <2>5. /\ OwnersOf(s) \subseteq OwnersOf(F[x])
        /\ OwnersOf(F[x]) \subseteq OwnersOf(s) \cup F[x].retired
    BY <2>1, <2>3 DEF OwnersOf
  <2>6. AxisUsed(s)
    BY <2>1, <2>3 DEF AxisUsed
  <2>7. \A e \in Entities : /\ H[e].active = F[e].active /\ H[e].retired = F[e].retired
                            /\ OwnersOf(H[e]) \subseteq OwnersOf(F[e])
                            /\ OwnersOf(F[e]) \subseteq OwnersOf(H[e]) \cup F[e].retired
                            /\ AxisUsed(H[e])
    BY <2>1, <2>3, <2>4, <2>5, <2>6
  <2>8. Supersedes(H, E, x)
    BY <2>1, <2>7, SupersedesMore
  <2> QED BY <2>4, <2>7, <2>8
<1>2. Supersedes(K, E, x) /\ K \in [Entities -> EntityRecord] /\ \A e \in Entities : AxisUsed(K[e])
  BY <1>1, SupersedesReflexive DEF AllSound
<1>3. G = IF flag = "keep" THEN K ELSE [K EXCEPT ![x].longitudinal = flag = "on"]
  BY DEF SwitchLongitudinal
<1> HIDE DEF G, K
<1>4. \A e \in Entities : /\ G[e].active = K[e].active /\ G[e].retired = K[e].retired
                          /\ OwnersOf(G[e]) = OwnersOf(K[e]) /\ AxisUsed(G[e])
  <2>1. CASE flag = "keep"
    BY <1>2, <1>3, <2>1
  <2>2. CASE flag # "keep"
    <3> DEFINE b == flag = "on"
               s == [K[x] EXCEPT !.longitudinal = b]
    <3>1. G[x] = s /\ \A e \in Entities \ {x} : G[e] = K[e]
      BY <1>2, <1>3, <2>2
    <3>2. /\ s.active = K[x].active /\ s.retired = K[x].retired
          /\ s.longitudinalOwner = K[x].longitudinalOwner
          /\ s.lateralOwner = K[x].lateralOwner /\ s.follower = K[x].follower
          /\ s.axis = K[x].axis /\ s.dissolving = K[x].dissolving
      BY <1>2 DEF EntityRecord
    <3> HIDE DEF s
    <3>3. OwnersOf(s) = OwnersOf(K[x]) /\ AxisUsed(s)
      BY <1>2, <3>2 DEF OwnersOf, AxisUsed
    <3> QED BY <1>2, <3>1, <3>2, <3>3
  <2> QED BY <2>1, <2>2
<1>5. Supersedes(G, E, x)
  BY <1>2, <1>4, SupersedesMore
<1> QED BY <1>4, <1>5 DEF G

LEMMA ControllerMarks ==
  ASSUME MarkersInv, OwnershipInv', NEW a \in Acts, ApplyController(a)
  PROVE  MarkersInv'
<1> DEFINE x == Actor(a)
           E == SwitchLateral(entity, x, Do[a].lateral)
           F == SwitchLongitudinal(E, x, Do[a].longitudinal)
<1>1. /\ OwnershipInv /\ x \in Entities /\ AllSound(entity)
      /\ Do[a].lateral \in Flags /\ Do[a].longitudinal \in Flags
      /\ \A e \in Entities : AxisUsed(entity[e])
  BY ActTypes DEF MarkersInv, Walk, OwnershipInv, Descriptions
<1>2. Calls(a) /\ Answer(a, F, "Complete")
  BY DEF ApplyController
<1>3. AllSound(E) /\ Supersedes(E, entity, x) /\ \A e \in Entities : AxisUsed(E[e])
  BY <1>1, SwitchLateralShrinks, SwitchLateralYields DEF Shrinks
<1> HIDE DEF E
<1>4. AllSound(F) /\ Supersedes(F, E, x) /\ \A e \in Entities : AxisUsed(F[e])
  BY <1>1, <1>3, SwitchLongitudinalShrinks, SwitchLongitudinalYields DEF Shrinks
<1> HIDE DEF F
<1>5. Supersedes(F, entity, x) /\ F \in [Entities -> EntityRecord]
  BY <1>1, <1>3, <1>4, SupersedesTransitive DEF AllSound
<1>6. ~Is(a, MotionKinds)
  BY DEF ApplyController, Is, MotionKinds, LongitudinalKinds, LateralKinds, TrajectoryKinds
<1>7. a \notin OwnersOf(Record(a)) /\ a \notin Record(a).retired
  BY <1>1, <1>6, OwnersPolled DEF Record, MarkersInv, Walk, MarksPlaced
<1>8. Installs(F[x], F[x], a)
  BY DEF Installs
<1>9. F = [F EXCEPT ![x] = F[x]]
  BY <1>1, <1>5
<1>10. Answer(a, [F EXCEPT ![x] = F[x]], "Complete")
  BY <1>2, <1>9
<1> QED BY <1>1, <1>2, <1>4, <1>5, <1>7, <1>8, <1>10, InstalledSettles

\* An entity that is added had left, which only a deleted one can have.
LEMMA AddMarks ==
  ASSUME MarkersInv, OwnershipInv', NEW a \in Acts, ApplyAdd(a)
  PROVE  MarkersInv'
<1> DEFINE x == Actor(a)
           s == [entity[x] EXCEPT !.active = TRUE]
           E == [entity EXCEPT ![x] = s]
<1>1. /\ OwnershipInv /\ x \in Entities /\ entity \in [Entities -> EntityRecord]
      /\ entity[x] \in EntityRecord /\ Calls(a) /\ Is(a, {"add"}) /\ ~Is(a, MotionKinds)
      /\ \A e \in Entities : AxisUsed(entity[e])
      /\ MarksPlaced /\ LostSince
  BY ActTypes DEF MarkersInv, OwnershipInv, AllSound, Walk, ApplyAdd, Is, MotionKinds,
                  LongitudinalKinds, LateralKinds, TrajectoryKinds
<1>2. a \notin entity[x].retired
  BY <1>1 DEF MarksPlaced
<1>3. Answer(a, entity, "Complete") \/ (~entity[x].active /\ Answer(a, E, "Complete"))
  BY <1>1 DEF ApplyAdd, Record
<1>4. CASE Answer(a, entity, "Complete")
  <2>1. Handed(entity, entity, a) /\ Sourced(entity, entity, a)
    BY DEF Handed, Sourced, Known
  <2> QED BY <1>1, <1>2, <1>4, <2>1, AnswerSettles
<1>5. CASE ~entity[x].active /\ Answer(a, E, "Complete")
  <2>1. /\ s.retired = entity[x].retired /\ s.active
        /\ s.longitudinalOwner = entity[x].longitudinalOwner
        /\ s.lateralOwner = entity[x].lateralOwner /\ s.follower = entity[x].follower
        /\ s.axis = entity[x].axis /\ s.dissolving = entity[x].dissolving
    BY <1>1 DEF EntityRecord
  <2>2. entity' = E /\ E[x] = s /\ \A e \in Entities \ {x} : E[e] = entity[e]
    BY <1>1, <1>5 DEF Answer
  <2> HIDE DEF E, s
  <2>3. \A e \in Entities : /\ entity[e].active => entity'[e].active
                            /\ entity'[e].retired = entity[e].retired
                            /\ OwnersOf(entity'[e]) = OwnersOf(entity[e])
    BY <2>1, <2>2 DEF OwnersOf
  <2>4. CallMade(a, FALSE) /\ lost' = lost \cup (Owners(entity) \ Owners(entity'))
    BY <1>1, <1>5 DEF Answer, CallMade, Calls
  <2>5. Owners(entity') = Owners(entity) /\ lost' = lost
    BY <2>3, <2>4 DEF Owners
  <2>6. ~Polled(a)' /\ (\A c \in Acts \ {a} : Polled(c)' <=> Polled(c))
    BY <1>1, <2>4, CallPolls
  <2>7. Walk'
    <3>1. RunningIsOwn' /\ (IF pending' = {} THEN ~stopping' ELSE \E f \in Events : Visited(f)')
      BY <2>4, VisitStep
    <3>2. MarksPlaced'
      BY <1>1, <2>3 DEF MarksPlaced, Is, Actor
    <3>3. \A e \in Entities : AxisUsed(entity'[e])
      BY <1>1, <2>1, <2>2 DEF AxisUsed
    <3>4. LostSince'
      BY <1>1, <2>4, <2>5, <2>6, RetiredTyped DEF LostSince, CallMade
    <3> QED BY <3>1, <3>2, <3>3, <3>4 DEF Walk, AxisUsed
  <2>8. ~NoReturn
    BY <1>1, <1>5 DEF MarksPlaced, NoReturn
  <2>9. ReferencesStay => MarksPolled'
    <3> SUFFICES ASSUME MarksPolled, NEW e \in Entities, NEW b \in entity'[e].retired PROVE Polled(b)'
      BY DEF MarksPolled, MarkersInv
    <3>1. b \in entity[e].retired /\ b \in Acts /\ b # a
      BY <1>1, <2>3, RetiredTyped DEF MarksPlaced
    <3> QED BY <2>6, <3>1 DEF MarksPolled
  <2> QED BY <2>7, <2>8, <2>9 DEF MarkersInv, NoReturn, ReferencesStay, Is, Actor
<1> QED BY <1>3, <1>4, <1>5

\* The markers and the owners of an entity stay as they are, or it leaves with
\* none.
Unmoved(s, r) ==
  IF s.active THEN r.active /\ s.retired = r.retired /\ OwnersOf(s) = OwnersOf(r)
  ELSE s.retired = {} /\ OwnersOf(s) = {}

LEMMA QuietStep ==
  ASSUME MarkersInv, OwnershipInv', running' = running,
         IF pending' = {} THEN ~stopping' ELSE \E f \in Events : Visited(f)',
         \A e \in Entities : Unmoved(entity'[e], entity[e]) /\ AxisUsed(entity'[e]),
         \A e \in Entities : entity[e].active /\ ~entity'[e].active =>
           \E d \in Acts : Is(d, {"delete"}) /\ Actor(d) = e,
         lost' \subseteq lost,
         \A a \in pending' : a \in pending \/ Polled(a) \/ (a \notin lost' /\ a \in ActsOf(EventOf[a])
                                                            /\ running[EventOf[a]] = {}),
         pending' \subseteq Acts,
         \A a \in deleted' \ deleted : a \in Acts /\ ~entity'[Actor(a)].active
  PROVE  MarkersInv'
<1>1. /\ OwnershipInv /\ MarksPlaced /\ LostSince /\ RunningIsOwn
      /\ \A e \in Entities : AxisUsed(entity[e])
      /\ \A c \in Acts : Actor(c) \in Entities /\ EventOf[c] \in Events
  BY ActTypes DEF MarkersInv, Walk
<1>2. \A c : Polled(c)' <=> Polled(c)
  BY DEF Polled
<1>3. \A e \in Entities : /\ entity'[e].retired \subseteq entity[e].retired
                          /\ OwnersOf(entity'[e]) \subseteq OwnersOf(entity[e])
                          /\ entity'[e].active => entity[e].active
  BY DEF Unmoved
<1>4. Owners(entity') \subseteq Owners(entity)
  BY <1>3 DEF Owners
<1>5. Walk'
  <2>1. RunningIsOwn'
    BY <1>1 DEF RunningIsOwn, ActsOf
  <2>2. MarksPlaced'
    <3>1. ASSUME NEW e \in Entities, ~entity'[e].active
          PROVE  entity'[e].retired = {} /\ \E d \in Acts : Is(d, {"delete"}) /\ Actor(d) = e
      BY <1>1, <3>1 DEF MarksPlaced, Unmoved
    <3>2. ASSUME NEW e \in Entities, NEW b \in entity'[e].retired
          PROVE  Actor(b) = e /\ Is(b, MotionKinds)
      BY <1>1, <1>3, <3>2 DEF MarksPlaced
    <3> QED BY <3>1, <3>2 DEF MarksPlaced, Is, Actor
  <2>3. LostSince'
    BY <1>1, <1>2 DEF LostSince
  <2> QED BY <2>1, <2>2, <2>3 DEF Walk, AxisUsed
<1>6. ASSUME Told PROVE Told'
  <2>1. ASSUME NEW c \in lost', Polled(c)'
        PROVE  c \in entity'[Actor(c)].retired \/ ~entity'[Actor(c)].active
    <3>1. c \in Acts /\ (c \in Record(c).retired \/ ~Record(c).active)
      BY <1>1, <1>2, <1>6, <2>1, RetiredTyped DEF Told
    <3> QED BY <1>1, <3>1 DEF Unmoved, Record
  <2>2. ASSUME NEW c \in Acts, Polled(c)', Is(c, MotionKinds)
        PROVE  c \in Known(entity'[Actor(c)]) \/ ~entity'[Actor(c)].active
    <3>1. c \in Known(Record(c)) \/ ~Record(c).active
      BY <1>2, <1>6, <2>2 DEF Told
    <3> QED BY <1>1, <3>1 DEF Unmoved, Record, Known
  <2>3. ASSUME NEW c \in deleted' PROVE ~entity'[Actor(c)].active
    <3>1. c \in deleted => c \in Acts /\ ~Record(c).active
      BY <1>1, <1>6, RetiredTyped DEF Told
    <3> QED BY <1>1, <1>3, <2>3, <3>1 DEF Record
  <2> QED BY <2>1, <2>2, <2>3 DEF Told, Record, Actor, Is, Known, OwnersOf
<1>7. ASSUME MarksPolled PROVE MarksPolled'
  BY <1>2, <1>3, <1>7 DEF MarksPolled
<1>8. ASSUME BulkFallsBackTogether PROVE BulkFallsBackTogether'
  <2>1. ASSUME NEW e \in Entities, NEW m \in entity'[e].retired, NEW b \in Acts,
               Bulk[m] # 0, Bulk[m] = Bulk[b]
        PROVE  b \notin Owners(entity')
    BY <1>3, <1>4, <1>8, <2>1 DEF BulkFallsBackTogether
  <2> QED BY <2>1 DEF BulkFallsBackTogether, Owners, OwnersOf
<1>9. ASSUME MarksPolled, FiresUnmarked PROVE FiresUnmarked'
  <2> SUFFICES ASSUME NEW c \in pending', ~Polled(c), NEW e \in Entities, NEW b \in entity[e].retired,
                      Bulk[c] # 0, Bulk[b] = Bulk[c]
               PROVE  FALSE
    BY <1>2, <1>3 DEF FiresUnmarked
  <2>1. c \notin pending
    BY <1>9 DEF FiresUnmarked
  <2>2. b \in Acts /\ Polled(b) /\ c \in Acts
    BY <1>1, <1>9, RetiredTyped DEF MarksPolled
  <2>3. EventOf[b] = EventOf[c]
    BY <2>2, GroupsTogether
  <2> QED BY <2>1, <2>2, <2>3 DEF Polled
<1> QED BY <1>5, <1>6, <1>7, <1>8, <1>9 DEF MarkersInv, NoReturn, ReferencesStay, ActorsDiffer, Is, Actor

LEMMA DeleteMarks ==
  ASSUME MarkersInv, OwnershipInv', NEW a \in Acts, ApplyDelete(a)
  PROVE  MarkersInv'
<1> DEFINE x == Actor(a)
           s == Deactivated(entity[x])
<1>1. /\ OwnershipInv /\ x \in Entities /\ entity \in [Entities -> EntityRecord]
      /\ Calls(a) /\ Is(a, {"delete"}) /\ MarksPlaced
      /\ \A e \in Entities : AxisUsed(entity[e])
  BY ActTypes DEF MarkersInv, OwnershipInv, AllSound, Walk, ApplyDelete
<1>2. ~s.active /\ s.retired = {} /\ OwnersOf(s) = {} /\ AxisUsed(s)
  BY DEF Deactivated, Fresh, OwnersOf, AxisUsed
<1>3. entity' = [entity EXCEPT ![x] = s] \/ entity' = entity
  BY DEF ApplyDelete
<1> HIDE DEF s
<1>4. \A e \in Entities : entity'[e] = entity[e] \/ (e = x /\ entity'[e] = s)
  BY <1>1, <1>3
<1>5. \A e \in Entities : Unmoved(entity[e], entity[e])
  <2>1. ASSUME NEW e \in Entities, ~entity[e].active
        PROVE  entity[e].retired = {} /\ OwnersOf(entity[e]) = {}
    BY <1>1, <2>1, OwnersPolled DEF MarksPlaced
  <2> QED BY <2>1 DEF Unmoved
<1>6. \A e \in Entities : Unmoved(entity'[e], entity[e]) /\ AxisUsed(entity'[e])
  BY <1>1, <1>2, <1>4, <1>5 DEF Unmoved
<1>7. running' = running /\ pending' = pending \ {a} /\ lost' = lost /\ ~stopping'
      /\ deleted' = deleted \cup (Owners(entity) \ Owners(entity'))
  BY <1>1 DEF ApplyDelete, Calls
<1>8. CallMade(a, Polled(a))
  <2>1. running' = [running EXCEPT ![EventOf[a]] = IF Polled(a) THEN @ \cup {a} ELSE @ \ {a}]
    <3>1. running \in [Events -> SUBSET Acts]
      BY <1>1 DEF OwnershipInv, TypeOK
    <3>2. (IF Polled(a) THEN running[EventOf[a]] \cup {a} ELSE running[EventOf[a]] \ {a})
             = running[EventOf[a]]
      BY DEF Polled
    <3> QED BY <1>7, <3>1, <3>2
  <2> QED BY <1>1, <1>7, <2>1 DEF CallMade, Calls
<1>9. IF pending' = {} THEN ~stopping' ELSE \E f \in Events : Visited(f)'
  <2>1. Polled(a) \in BOOLEAN
    BY DEF Polled
  <2> HIDE DEF x
  <2> QED BY <1>8, <2>1, VisitStep
<1>10. ASSUME NEW c \in deleted' \ deleted PROVE c \in Acts /\ ~entity'[Actor(c)].active
  <2>1. c \in Owners(entity) /\ c \notin Owners(entity')
    BY <1>7, <1>10
  <2>2. PICK e \in Entities : c \in OwnersOf(entity[e])
    BY <2>1, OwnersIn
  <2>3. c \in Acts /\ Actor(c) = e
    BY <1>1, <2>2, OwnersPolled
  <2>4. entity'[e] # entity[e]
    BY <2>1, <2>2, OwnersIn
  <2> QED BY <1>2, <1>4, <2>3, <2>4
<1>11. pending' \subseteq Acts
  BY <1>1, <1>7, RetiredTyped
<1>12. \A e \in Entities : entity[e].active /\ ~entity'[e].active =>
           \E d \in Acts : Is(d, {"delete"}) /\ Actor(d) = e
  BY <1>1, <1>4
<1> HIDE DEF x
<1> QED BY <1>6, <1>7, <1>9, <1>10, <1>11, <1>12, QuietStep

LEMMA StoryboardMarks ==
  ASSUME MarkersInv, OwnershipInv',
         \/ BeginStep
         \/ \E f \in Events : Fire(f) \/ Pass(f) \/ Poll(f) \/ Stop(f)
  PROVE  MarkersInv'
<1>1. /\ OwnershipInv /\ MarksPlaced /\ RunningIsOwn /\ LostSince
      /\ IF pending = {} THEN ~stopping ELSE \E f \in Events : Visited(f)
      /\ \A e \in Entities : AxisUsed(entity[e])
  BY DEF MarkersInv, Walk
<1>2. \A e \in Entities : Unmoved(entity[e], entity[e])
  <2>1. ASSUME NEW e \in Entities, ~entity[e].active
        PROVE  entity[e].retired = {} /\ OwnersOf(entity[e]) = {}
    BY <1>1, <2>1, OwnersPolled DEF MarksPlaced
  <2> QED BY <2>1 DEF Unmoved
<1>3. ASSUME UNCHANGED <<entity, running>>,
             IF pending' = {} THEN ~stopping' ELSE \E f \in Events : Visited(f)',
             lost' \subseteq lost, deleted' \subseteq deleted, pending' \subseteq Acts,
             \A a \in pending' : a \in pending \/ Polled(a) \/ (a \notin lost' /\ a \in ActsOf(EventOf[a])
                                                                /\ running[EventOf[a]] = {})
      PROVE  MarkersInv'
  BY <1>1, <1>2, <1>3, QuietStep
<1>4. CASE BeginStep
  <2>1. \A f \in Events : Visited(f) => Visited(f)'
    BY <1>4 DEF BeginStep, Visited, ActsOf
  <2> QED BY <1>1, <1>3, <1>4, <2>1, RetiredTyped DEF BeginStep
<1>5. ASSUME NEW f \in Events, Fire(f) \/ Pass(f) \/ Poll(f) \/ Stop(f)
      PROVE  MarkersInv'
  <2>1. /\ pending = {} /\ ~stopping /\ running[f] \subseteq ActsOf(f) /\ running[f] \subseteq Acts
        /\ ActsOf(f) \subseteq Acts
    <3>1. Script[f] \in Seq(Acts)
      BY OwnershipAssumption DEF Events
    <3> QED BY <1>1, <1>5, <3>1, RetiredTyped DEF Fire, Pass, Poll, Stop, AtEvent, RunningIsOwn, ActsOf
  <2>2. \A c \in ActsOf(f) : EventOf[c] = f
    BY <2>1, PlaceOf
  <2>3. CASE Fire(f)
    <3>1. /\ running[f] = {} /\ pending' = ActsOf(f) /\ lost' = lost \ ActsOf(f)
          /\ deleted' = deleted \ ActsOf(f) /\ UNCHANGED <<entity, running, stopping>>
      BY <2>3 DEF Fire
    <3>2. Visited(f)'
      BY <2>1, <3>1 DEF Visited, ActsOf
    <3> QED BY <1>3, <2>1, <2>2, <3>1, <3>2
  <2>4. CASE Pass(f)
    BY <1>3, <2>1, <2>4 DEF Pass
  <2>5. CASE Poll(f) \/ Stop(f)
    <3>1. /\ running[f] # {} /\ pending' = running[f] /\ lost' = lost
          /\ deleted' = deleted /\ UNCHANGED <<entity, running>>
      BY <2>5 DEF Poll, Stop
    <3>2. Visited(f)'
      BY <2>1, <3>1 DEF Visited, ActsOf
    <3>3. \A c \in pending' : Polled(c)
      BY <2>1, <2>2, <3>1 DEF Polled
    <3> QED BY <1>3, <2>1, <3>1, <3>2, <3>3
  <2> QED BY <1>5, <2>3, <2>4, <2>5
<1> QED BY <1>4, <1>5

LEMMA EndStepMarks ==
  ASSUME MarkersInv, OwnershipInv', EndStep
  PROVE  MarkersInv'
<1>1. /\ OwnershipInv /\ MarksPlaced
      /\ entity \in [Entities -> EntityRecord]
      /\ pending = {} /\ ~stopping
      /\ \A e \in Entities : AxisUsed(entity[e])
  BY DEF MarkersInv, Walk, OwnershipInv, AllSound, EndStep
<1>2. /\ UNCHANGED <<pending, stopping, running, lost, deleted>>
      /\ entity' = [e \in Entities |->
                     IF entity[e].active /\ e \notin HostControlled THEN Integrated(entity[e])
                     ELSE entity[e]]
  BY DEF EndStep
<1>3. ASSUME NEW e \in Entities
      PROVE  /\ entity'[e].active = entity[e].active /\ entity'[e].retired = entity[e].retired
             /\ OwnersOf(entity'[e]) = OwnersOf(entity[e]) /\ AxisUsed(entity'[e])
  <2> DEFINE r == entity[e]
             s == [r EXCEPT !.moved = FALSE]
  <2>1. r \in EntityRecord /\ AxisUsed(r)
    BY <1>1
  <2>2. \/ entity'[e] = r \/ entity'[e] = s
        \/ entity'[e] = Dissolved(r) /\ r.dissolving
    BY <1>2 DEF Integrated
  <2> HIDE DEF r
  <2>3. /\ s.active = r.active /\ s.retired = r.retired /\ OwnersOf(s) = OwnersOf(r) /\ AxisUsed(s)
    BY <2>1 DEF EntityRecord, OwnersOf, AxisUsed
  <2> HIDE DEF s
  <2>4. /\ Dissolved(r).active = r.active /\ Dissolved(r).retired = r.retired
        /\ OwnersOf(Dissolved(r)) = OwnersOf(r)
        /\ r.dissolving => AxisUsed(Dissolved(r))
    BY <2>1, DissolvedYields DEF AxisUsed
  <2>5. /\ entity'[e].active = r.active /\ entity'[e].retired = r.retired
        /\ OwnersOf(entity'[e]) = OwnersOf(r) /\ AxisUsed(entity'[e])
    BY <2>1, <2>2, <2>3, <2>4
  <2> QED BY <2>5 DEF r
<1>4. \A e \in Entities : ~entity[e].active => entity[e].retired = {} /\ OwnersOf(entity[e]) = {}
  BY <1>1, OwnersPolled DEF MarksPlaced
<1>5. \A e \in Entities : Unmoved(entity'[e], entity[e]) /\ AxisUsed(entity'[e])
  BY <1>3, <1>4 DEF Unmoved
<1> QED BY <1>1, <1>2, <1>3, <1>5, QuietStep

LEMMA StoppedYields ==
  ASSUME NEW r \in EntityRecord, NEW a \in Acts
  PROVE  LET s == StoppedRecord(r, a)
         IN  /\ s.active = r.active /\ s.retired = r.retired \ {a}
             /\ OwnersOf(s) = OwnersOf(r) \ {a} /\ (AxisUsed(r) => AxisUsed(s))
<1> DEFINE s == IF r.longitudinalOwner = a THEN FreeLongitudinal(r) ELSE r
           t == IF s.lateralOwner = a THEN Dissolved(FreeLateral(s)) ELSE s
           path == IF t.follower = a THEN None ELSE t.follower
           u == [t EXCEPT !.follower = path, !.retired = @ \ {a}]
<1>1. StoppedRecord(r, a) = u /\ a # None
  BY OwnershipAssumption DEF StoppedRecord
<1>2. /\ s \in EntityRecord /\ s.active = r.active /\ s.retired = r.retired
      /\ s.longitudinalOwner = IF r.longitudinalOwner = a THEN None ELSE r.longitudinalOwner
      /\ s.lateralOwner = r.lateralOwner /\ s.follower = r.follower
      /\ s.axis = r.axis /\ s.dissolving = r.dissolving
  BY FreeLongitudinalFields
<1> HIDE DEF s
<1>3. /\ t \in EntityRecord /\ t.active = s.active /\ t.retired = s.retired
      /\ t.longitudinalOwner = s.longitudinalOwner /\ t.follower = s.follower
      /\ t.lateralOwner = IF s.lateralOwner = a THEN None ELSE s.lateralOwner
      /\ AxisUsed(s) => AxisUsed(t)
  <2>1. CASE s.lateralOwner # a
    BY <1>2, <2>1
  <2>2. CASE s.lateralOwner = a
    <3> DEFINE w == FreeLateral(s)
    <3>1. /\ w \in EntityRecord /\ w.lateralOwner = None
          /\ w.active = s.active /\ w.retired = s.retired
          /\ w.longitudinalOwner = s.longitudinalOwner /\ w.follower = s.follower
      BY <1>2 DEF FreeLateral, EntityRecord
    <3>2. t = Dissolved(w)
      BY <2>2
    <3> HIDE DEF w, t
    <3>3. /\ t \in EntityRecord /\ t.active = w.active /\ t.retired = w.retired
          /\ t.longitudinalOwner = w.longitudinalOwner /\ t.follower = w.follower
          /\ t.lateralOwner = w.lateralOwner /\ AxisUsed(t)
      BY <3>1, <3>2, DissolvedFields, DissolvedYields
    <3> QED BY <2>2, <3>1, <3>3
  <2> QED BY <2>1, <2>2
<1> HIDE DEF t
<1>4. /\ u.active = t.active /\ u.retired = t.retired \ {a}
      /\ u.longitudinalOwner = t.longitudinalOwner /\ u.lateralOwner = t.lateralOwner
      /\ u.follower = IF t.follower = a THEN None ELSE t.follower
      /\ u.axis = t.axis /\ u.dissolving = t.dissolving
  BY <1>3 DEF EntityRecord
<1> HIDE DEF u
<1>5. OwnersOf(u) = OwnersOf(r) \ {a}
  BY <1>1, <1>2, <1>3, <1>4 DEF OwnersOf
<1>6. AxisUsed(r) => AxisUsed(u)
  BY <1>2, <1>3, <1>4 DEF AxisUsed
<1> QED BY <1>1, <1>2, <1>3, <1>4, <1>5, <1>6

LEMMA StopMarks ==
  ASSUME MarkersInv, OwnershipInv', NEW a \in Acts, StopAction(a)
  PROVE  MarkersInv'
<1> DEFINE x == Actor(a)
           r == entity[x]
           s == StoppedRecord(r, a)
           E == [entity EXCEPT ![x] = s]
           F == BulkRetired(E, a)
<1>1. /\ OwnershipInv /\ x \in Entities /\ AllSound(entity) /\ MarksPlaced
      /\ entity \in [Entities -> EntityRecord] /\ r \in EntityRecord /\ Sound(r, x)
      /\ \A e \in Entities : AxisUsed(entity[e])
  BY ActTypes DEF MarkersInv, Walk, OwnershipInv, AllSound
<1>2. CallStep(a, FALSE) /\ stopping
  BY DEF StopAction, CallStep, CallMade
<1>3. entity' = IF ~r.active THEN entity ELSE F
  BY <1>1 DEF StopAction, Record
<1>4. /\ Sound(s, x) /\ s.active = r.active /\ s.retired = r.retired \ {a}
      /\ OwnersOf(s) = OwnersOf(r) \ {a} /\ AxisUsed(s)
  BY <1>1, StoppedSound, StoppedYields
<1> HIDE DEF s
<1>5. /\ E \in [Entities -> EntityRecord]
      /\ E[x] = s /\ \A e \in Entities \ {x} : E[e] = entity[e]
  BY <1>1, <1>4 DEF Sound
<1> HIDE DEF E
<1>6. \A e \in Entities : Sound(E[e], e) /\ AxisUsed(E[e])
  BY <1>1, <1>4, <1>5 DEF AllSound
<1>7. /\ \A e \in Entities : YieldsTo(F[e], E[e]) /\ AxisUsed(F[e])
      /\ Bulk[a] # 0 => \A b \in Owners(F) : Bulk[b] # Bulk[a]
      /\ \A e \in Entities : \A m \in F[e].retired \ E[e].retired :
           Bulk[m] = Bulk[a] /\ Bulk[a] # 0
  BY <1>5, <1>6, BulkYields
<1> HIDE DEF F
<1>8. CASE r.active
  <2>1. \A e \in Entities : /\ E[e].active = entity[e].active
                            /\ entity[e].retired \ {a} \subseteq E[e].retired
                            /\ E[e].retired \subseteq entity[e].retired
                            /\ OwnersOf(E[e]) \subseteq OwnersOf(entity[e])
                            /\ OwnersOf(entity[e]) \ {a} \subseteq OwnersOf(E[e])
    BY <1>4, <1>5
  <2>2. ASSUME NEW e \in Entities
        PROVE  /\ F[e].active = entity[e].active
               /\ entity[e].retired \ {a} \subseteq F[e].retired
               /\ F[e].retired \subseteq Known(entity[e])
               /\ OwnersOf(F[e]) \subseteq OwnersOf(entity[e]) \cup {a}
               /\ OwnersOf(entity[e]) \ {a} \subseteq OwnersOf(F[e]) \cup F[e].retired
               /\ \A m \in F[e].retired \ entity[e].retired :
                    Bulk[m] # 0 => \A b \in Owners(F) \ {a} : Bulk[b] # Bulk[m]
    BY <1>7, <2>1 DEF YieldsTo, Known
  <2>3. Handed(F, entity, a)
    BY <2>2 DEF Handed
  <2>4. a \notin F[x].retired
    BY <1>1, <1>4, <1>5, <1>7 DEF YieldsTo, Known
  <2>5. Settled(a, FALSE)
    BY <1>2, <1>3, <1>8, <2>3 DEF Settled
  <2> QED BY <1>3, <1>7, <1>8, <2>4, <2>5, MarkersStep
<1>9. CASE ~r.active
  <2>1. Handed(entity, entity, a)
    BY DEF Handed, Known
  <2>2. a \notin entity[x].retired
    BY <1>1, <1>9 DEF MarksPlaced
  <2>3. Settled(a, FALSE)
    BY <1>2, <1>3, <1>9, <2>1 DEF Settled
  <2> QED BY <1>1, <1>3, <1>9, <2>2, <2>3, MarkersStep
<1> QED BY <1>8, <1>9

LEMMA MarkersInvInit ==
  ASSUME Init
  PROVE  MarkersInv
<1>1. OwnershipInv
  BY OwnershipInvInit
<1>2. /\ Fresh.retired = {} /\ Fresh.active /\ OwnersOf(Fresh) = {} /\ AxisUsed(Fresh)
  BY DEF Fresh, OwnersOf, AxisUsed
<1>3. \A e \in Entities : entity[e] = Fresh
  BY DEF Init
<1>4. /\ pending = {} /\ ~stopping /\ lost = {} /\ deleted = {}
      /\ \A f \in Events : running[f] = {}
  BY DEF Init
<1>5. \A a \in Acts : ~Polled(a)
  BY <1>4, ActTypes DEF Polled
<1>6. Walk
  BY <1>2, <1>3, <1>4 DEF Walk, RunningIsOwn, MarksPlaced, LostSince
<1>7. Told /\ MarksPolled /\ FiresUnmarked /\ BulkFallsBackTogether
  BY <1>2, <1>3, <1>4, <1>5 DEF Told, MarksPolled, FiresUnmarked, BulkFallsBackTogether
<1> QED BY <1>1, <1>6, <1>7 DEF MarkersInv

LEMMA MarkersInvNext ==
  ASSUME MarkersInv, [Next]_vars
  PROVE  MarkersInv'
<1>1. OwnershipInv /\ OwnershipInv'
  BY OwnershipInvNext DEF MarkersInv
<1>2. CASE UNCHANGED vars
  BY <1>2 DEF vars, MarkersInv, OwnershipInv, TypeOK, AllSound, Sound, Consistent, Paired, Walk,
              RunningIsOwn, Visited, ActsOf, MarksPlaced, LostSince, Polled, AxisUsed, Told,
              MarksPolled, FiresUnmarked, BulkFallsBackTogether, Owners, OwnersOf, Known, Record,
              NoReturn, ReferencesStay, ActorsDiffer, Is, Actor, Competes
<1>3. ASSUME NEW a \in Acts, Apply(a) PROVE MarkersInv'
  <2>1. Calls(a)
    BY <1>3 DEF Apply, ApplyToInactive, ApplyWithoutSpeedReference, ApplyRetired, ApplyDeactivated,
                ApplySpeed, ApplyStepSpeed, ApplyContinuousSpeed, ApplyDistance, ApplyLateral,
                ApplyTrajectory, ApplyController, ApplyAdd, ApplyDelete
  <2> QED BY <1>1, <1>3, <2>1, IdleCallMarks, RetiredCallMarks, WithoutReferenceMarks,
             SpeedTakes, ContinuousSpeedTakes, DistanceTakes, TakenMarks, LateralSteers,
             SteeredMarks, TrajectoryMarks, ControllerMarks, AddMarks, DeleteMarks
             DEF Apply
<1>4. CASE Next
  BY <1>1, <1>3, <1>4, StoryboardMarks, EndStepMarks, StopMarks DEF Next
<1> QED BY <1>2, <1>4

---------------------------------------------------------------------------
(* Theorems about losing a domain.                                           *)

\* In every reachable state the calls of a visit are in document order, a marker
\* is of a motion of that entity, and an entity that left has none.
THEOREM MarkersInvariant == Spec => []MarkersInv
BY MarkersInvInit, MarkersInvNext, PTL DEF Spec

\* An action that gave up its domain has none until its event fires it again:
\* for every storyboard that adds no entity it has deleted.  Without that the
\* marker of a superseded action is wiped with its entity, and the action
\* installs itself again on the entity that is back (deactivate_entity()).
THEOREM SupersededStayOut ==
  ASSUME NoReturn
  PROVE  Spec => []SupersededStaysOut
<1>1. MarkersInv => SupersededStaysOut
  <2> SUFFICES ASSUME MarkersInv, NEW c \in lost, c \in Owners(entity) PROVE FALSE
    BY DEF SupersededStaysOut
  <2>1. PICK e \in Entities : c \in OwnersOf(entity[e])
    BY OwnersIn
  <2>2. c \in Acts /\ Polled(c) /\ Actor(c) = e /\ entity[e].active /\ c \notin entity[e].retired
    BY <2>1, OwnersPolled DEF MarkersInv
  <2> QED BY <2>2 DEF MarkersInv, Told, Record
<1> QED BY <1>1, MarkersInvariant, PTL

\* What drove an entity when it was deleted never drives it again, for the same
\* storyboards.
THEOREM DeletedStayOut ==
  ASSUME NoReturn
  PROVE  Spec => []DeletedStaysOut
<1>1. MarkersInv => DeletedStaysOut
  <2> SUFFICES ASSUME MarkersInv, NEW c \in deleted, c \in Owners(entity) PROVE FALSE
    BY DEF DeletedStaysOut
  <2>1. PICK e \in Entities : c \in OwnersOf(entity[e])
    BY OwnersIn
  <2>2. Actor(c) = e /\ entity[e].active
    BY <2>1, OwnersPolled DEF MarkersInv
  <2> QED BY <2>2 DEF MarkersInv, Told, Record
<1> QED BY <1>1, MarkersInvariant, PTL

\* The offset axis is there exactly while it has something to apply, and a marker
\* is only of an action that is still polled, for every storyboard in which no
\* speed refers to an entity that is deleted.  Such a speed ends without taking
\* its marker back.
THEOREM MarksKeepPurpose ==
  ASSUME ReferencesStay
  PROVE  Spec => []MarksHavePurpose
<1>1. MarkersInv => MarksHavePurpose
  BY DEF MarkersInv, Walk, AxisUsed, MarksPolled, MarksHavePurpose
<1> QED BY <1>1, MarkersInvariant, PTL

\* Once an instance of a bulk action has been superseded no instance drives its
\* entity, for every storyboard that keeps to the conditions above and has an
\* actor only once in a bulk action.
THEOREM BulkActionsFallBackTogether ==
  ASSUME NoReturn, ReferencesStay, ActorsDiffer
  PROVE  Spec => []BulkFallsBackTogether
<1>1. MarkersInv => BulkFallsBackTogether
  BY DEF MarkersInv
<1> QED BY <1>1, MarkersInvariant, PTL

\* Whatever loses its domain is told: a motion that is polled drives its entity or
\* is marked there, whatever shape the action has that took the domain, for every
\* storyboard that adds no entity it has deleted.
THEOREM LosersStayTold ==
  ASSUME NoReturn
  PROVE  Spec => []LosersAreTold
<1>1. MarkersInv => LosersAreTold
  BY DEF MarkersInv, Told, Known, LosersAreTold
<1> QED BY <1>1, MarkersInvariant, PTL
=============================================================================
