----------------------------- MODULE Ownership -----------------------------
(***************************************************************************)
(* Who drives an entity (core/src/engine.cpp): the longitudinal and the     *)
(* lateral domain of each entity have one owning action at a time, newer    *)
(* actions supersede older ones, and an action that lost its domain is only *)
(* told so when the storyboard polls it again.                              *)
(*                                                                          *)
(* One step() is BeginStep, a visit of every event in document order, and   *)
(* EndStep, the integrate phase.  A visited event is fired, polled, stopped *)
(* or left alone (the storyboard decides, see Scheduler); the calls of      *)
(* apply() and stop_action() it makes are then taken one at a time, in      *)
(* document order.  Poses and speeds are left out: whether a transition has arrived, *)
(* a target resolves or a gap can be measured is a free choice.             *)
(***************************************************************************)
EXTENDS Naturals, Sequences

CONSTANTS
  Entities,        \* declared entities
  HostControlled,  \* those whose state the host reports
  Acts,            \* the actions of the storyboard
  Do,              \* [Acts -> Descriptions]
  Bulk,            \* [Acts -> Nat], bulk_group(), 0 for none
  Script,          \* the events in document order, each a sequence of actions
  None             \* no action, no entity

Events == DOMAIN Script
ActsOf(f) == {Script[f][i] : i \in DOMAIN Script[f]}

LongitudinalKinds == {"speed", "continuousSpeed", "distance"}
LateralKinds == {"laneChange", "laneOffset", "continuousOffset", "lateralDistance"}
TrajectoryKinds == {"trajectory", "timedTrajectory"}
MotionKinds == LongitudinalKinds \cup LateralKinds \cup TrajectoryKinds
Kinds == MotionKinds \cup {"controller", "add", "delete"}
Flags == {"on", "off", "keep"}

\* step: the transition has the Step shape; lateral and longitudinal: the
\* flags of a controller action.
Descriptions ==
  [kind : Kinds, actor : Entities, ref : Entities \cup {None}, step : BOOLEAN,
   lateral : Flags, longitudinal : Flags]

ASSUME OwnershipAssumption ==
  /\ HostControlled \subseteq Entities
  /\ None \notin Acts /\ None \notin Entities
  /\ Do \in [Acts -> Descriptions]
  /\ Bulk \in [Acts -> Nat]
  /\ Script \in Seq(Seq(Acts))
  /\ \A a \in Acts : \E f \in Events : a \in ActsOf(f)
  /\ \A f, g \in Events : ActsOf(f) \cap ActsOf(g) # {} => f = g
  /\ \A f \in Events : \A i, j \in DOMAIN Script[f] : Script[f][i] = Script[f][j] => i = j
  /\ \A a \in Acts : Do[a].kind \in {"continuousSpeed", "distance", "lateralDistance"}
                       => Do[a].ref # None
  \* The instances of one authored action differ in nothing but their actor.
  /\ \A a, b \in Acts :
       /\ Bulk[a] # 0 => Do[a].kind \in MotionKinds
       /\ Bulk[a] # 0 /\ Bulk[a] = Bulk[b] => Do[b] = [Do[a] EXCEPT !.actor = Do[b].actor]

\* The instances of a bulk action follow each other in one event.
ASSUME BulkAssumption ==
  \A f, g \in Events : \A i \in DOMAIN Script[f], j \in DOMAIN Script[g] :
    Bulk[Script[f][i]] # 0 /\ Bulk[Script[f][i]] = Bulk[Script[g][j]] =>
      f = g /\ \A k \in i .. j : Bulk[Script[f][k]] = Bulk[Script[f][i]]

VARIABLES
  entity,    \* entities_
  stepping,  \* inside step()
  todo,      \* events not yet visited in this step
  pending,   \* actions the visited event is still to call for
  stopping,  \* whether the calls are of stop_action()
  running,   \* per event, the actions the storyboard polls
  lost,      \* history: actions that gave up a domain since they were fired
  deleted    \* history: those that did because their actor was deleted

vars == <<entity, stepping, todo, pending, stopping, running, lost, deleted>>

EntityRecord ==
  [active : BOOLEAN, lateral : BOOLEAN, longitudinal : BOOLEAN,   \* activation
   longitudinalOwner : Acts \cup {None}, controller : BOOLEAN, continuous : BOOLEAN,
   lateralOwner : Acts \cup {None}, transition : BOOLEAN,
   follower : Acts \cup {None}, moved : BOOLEAN,
   axis : BOOLEAN, dissolving : BOOLEAN, retired : SUBSET Acts]

TypeOK ==
  /\ entity \in [Entities -> EntityRecord]
  /\ stepping \in BOOLEAN /\ stopping \in BOOLEAN
  /\ todo \subseteq Events
  /\ pending \subseteq Acts
  /\ running \in [Events -> SUBSET Acts]
  /\ lost \subseteq Acts /\ deleted \subseteq Acts

EventOf == [a \in Acts |-> CHOOSE f \in Events : a \in ActsOf(f)]
Position ==
  [a \in Acts |-> CHOOSE i \in DOMAIN Script[EventOf[a]] : Script[EventOf[a]][i] = a]
Polled(a) == a \in running[EventOf[a]]
OwnersOf(r) == {r.longitudinalOwner, r.lateralOwner, r.follower} \ {None}
Owners(E) == UNION {OwnersOf(E[e]) : e \in Entities}

---------------------------------------------------------------------------
(* What the code does to one EntityRecord.                                 *)

Fresh ==
  [active |-> TRUE, lateral |-> TRUE, longitudinal |-> TRUE,
   longitudinalOwner |-> None, controller |-> FALSE, continuous |-> FALSE,
   lateralOwner |-> None, transition |-> FALSE, follower |-> None, moved |-> FALSE,
   axis |-> FALSE, dissolving |-> FALSE, retired |-> {}]

\* deactivate_entity().
Deactivated(r) == [Fresh EXCEPT !.active = FALSE]

\* dissolve_lateral_axis().
Dissolved(r) == [r EXCEPT !.axis = FALSE, !.dissolving = FALSE]

\* ensure_lateral_axis().
WithAxis(r) == [r EXCEPT !.axis = TRUE, !.dissolving = r.axis /\ @]

\* What gives up the domains, without a word to the owner; mutant: the owner
\* stays.
FreeControllerOnly(r) == [r EXCEPT !.controller = FALSE, !.continuous = FALSE]
FreeLongitudinal(r) ==
  [r EXCEPT !.longitudinalOwner = None, !.controller = FALSE, !.continuous = FALSE]
FreeLateral(r) == [r EXCEPT !.lateralOwner = None, !.transition = FALSE]

\* supersede_longitudinal() on the record: the owner is marked retired, and a
\* timed trajectory loses its follower too.  mutant: the follower goes on.
LongitudinalRetiredKeepsFollower(r, a) ==
  IF r.longitudinalOwner \in {None, a} THEN r
  ELSE [r EXCEPT !.retired = @ \cup {r.longitudinalOwner}]
LongitudinalRetired(r, a) ==
  IF r.longitudinalOwner \in {None, a} THEN r
  ELSE [r EXCEPT !.retired = @ \cup {r.longitudinalOwner},
                 !.follower = IF @ = r.longitudinalOwner THEN None ELSE @]

\* supersede_lateral() on the record.  mutant: nobody is marked.
LateralRetiredUnmarked(r, a) ==
  LET outgoing == {r.lateralOwner, r.follower} \ {None, a}
  IN  [r EXCEPT !.lateralOwner = IF @ \in outgoing THEN None ELSE @,
                !.transition = @ /\ r.lateralOwner \notin outgoing,
                !.dissolving = @ /\ r.lateralOwner \notin outgoing,
                !.longitudinalOwner = IF @ = r.follower /\ @ \in outgoing THEN None ELSE @,
                !.follower = IF @ \in outgoing THEN None ELSE @]
LateralRetired(r, a) ==
  LET outgoing == {r.lateralOwner, r.follower} \ {None, a}
  IN  [r EXCEPT !.retired = @ \cup outgoing,
                !.lateralOwner = IF @ \in outgoing THEN None ELSE @,
                !.transition = @ /\ r.lateralOwner \notin outgoing,
                !.dissolving = @ /\ r.lateralOwner \notin outgoing,
                !.longitudinalOwner = IF @ = r.follower /\ @ \in outgoing THEN None ELSE @,
                !.follower = IF @ \in outgoing THEN None ELSE @]

---------------------------------------------------------------------------
(* Bulk actions: a conflict on one actor ends the action for every actor.   *)

InGroup(a, g) == a # None /\ Bulk[a] = g

\* One round of the loop in retire_bulk_siblings(); mutant: lateral owners
\* only if they follow a trajectory.
FallBackFollowers(r, g) ==
  LET s == IF InGroup(r.longitudinalOwner, g)
             THEN FreeLongitudinal(LongitudinalRetired(r, None)) ELSE r
  IN  IF InGroup(s.follower, g) THEN Dissolved(LateralRetired(s, None)) ELSE s
FallBack(r, g) ==
  LET s == IF InGroup(r.longitudinalOwner, g)
             THEN FreeLongitudinal(LongitudinalRetired(r, None)) ELSE r
  IN  IF InGroup(s.lateralOwner, g) \/ InGroup(s.follower, g)
        THEN Dissolved(LateralRetired(s, None)) ELSE s

\* retire_bulk_siblings().  A retired sibling is of the same group, so the
\* guard retiring_bulk_group_ ends the recursion at once.
BulkRetired(E, a) ==
  IF Bulk[a] = 0 THEN E ELSE [e \in Entities |-> FallBack(E[e], Bulk[a])]

SupersedeLongitudinal(E, e, a) ==
  IF E[e].longitudinalOwner \in {None, a} THEN E
  ELSE BulkRetired([E EXCEPT ![e] = LongitudinalRetired(@, a)], E[e].longitudinalOwner)

\* An entity has a lateral owner or a follower, never both.
SupersedeLateral(E, e, a) ==
  LET outgoing == {E[e].lateralOwner, E[e].follower} \ {None, a}
  IN  IF outgoing = {} THEN E
      ELSE BulkRetired([E EXCEPT ![e] = LateralRetired(@, a)], CHOOSE b \in outgoing : TRUE)

---------------------------------------------------------------------------
(* apply(): the checks every motion action makes first.                    *)

Is(a, kinds) == Do[a].kind \in kinds
Actor(a) == Do[a].actor
Record(a) == entity[Actor(a)]
RefGone(a) == Do[a].ref # None /\ ~entity[Do[a].ref].active
NeedsLateral(a) == Is(a, LateralKinds \cup TrajectoryKinds)
NeedsLongitudinal(a) == Is(a, LongitudinalKinds \cup {"timedTrajectory"})
DomainsActive(a) ==
  /\ NeedsLateral(a) => Record(a).lateral
  /\ NeedsLongitudinal(a) => Record(a).longitudinal

\* The reference is checked before the markers for a speed, by the drivers
\* (drive_*) for the other kinds.
SpeedRefGone(a) == Is(a, {"speed", "continuousSpeed"}) /\ RefGone(a)

Ready(a) ==
  /\ Record(a).active /\ ~SpeedRefGone(a)
  /\ a \notin Record(a).retired /\ DomainsActive(a)

\* Calls are made in document order.
First(a) == a \in pending /\ \A b \in pending : Position[a] <= Position[b]
Calls(a) == stepping /\ ~stopping /\ First(a)

\* apply(a) leaves the entities as E and reports Running or Complete.
Answer(a, E, reports) ==
  /\ entity' = E
  /\ running' = [running EXCEPT ![EventOf[a]] = IF reports = "Running" THEN @ \cup {a}
                                               ELSE @ \ {a}]
  /\ pending' = pending \ {a}
  /\ lost' = lost \cup (Owners(entity) \ Owners(E))
  /\ UNCHANGED <<stepping, todo, stopping, deleted>>

\* record_for(): the actor was deleted.
ApplyToInactive(a) ==
  /\ Calls(a) /\ Is(a, MotionKinds \cup {"controller"}) /\ ~Record(a).active
  /\ Answer(a, entity, "Complete")

ApplyWithoutSpeedReference(a) ==
  /\ Calls(a) /\ Record(a).active /\ SpeedRefGone(a)
  /\ Answer(a, [entity EXCEPT ![Actor(a)] = IF @.longitudinalOwner = a
                                              THEN FreeLongitudinal(@) ELSE @],
            "Complete")

ApplyRetired(a) ==
  /\ Calls(a) /\ Is(a, MotionKinds) /\ Record(a).active /\ ~SpeedRefGone(a)
  /\ a \in Record(a).retired
  /\ Answer(a, [entity EXCEPT ![Actor(a)].retired = @ \ {a}], "Complete")

ApplyDeactivated(a) ==
  /\ Calls(a) /\ Is(a, MotionKinds) /\ Record(a).active /\ ~SpeedRefGone(a)
  /\ a \notin Record(a).retired /\ ~DomainsActive(a)
  /\ Answer(a, entity, "Complete")

---------------------------------------------------------------------------
(* apply(): longitudinal actions.                                          *)

\* control_domains(): a Step-shaped speed or lateral action assigns no strategy.
Competes(a) == ~Do[a].step

\* A shaped SpeedAction or a SpeedProfileAction: installed, then advanced at
\* each poll until its controller is done.
Driving(r, a, done) ==
  IF done THEN [r EXCEPT !.controller = FALSE, !.longitudinalOwner = None]
  ELSE [r EXCEPT !.controller = TRUE, !.longitudinalOwner = a]

ApplySpeed(a) ==
  /\ Calls(a) /\ Is(a, {"speed"}) /\ Ready(a)
  /\ Competes(a)
  /\ LET E == SupersedeLongitudinal(entity, Actor(a), a)
         r == IF Record(a).longitudinalOwner = a THEN E[Actor(a)]
              ELSE [E[Actor(a)] EXCEPT !.continuous = FALSE]
     IN  \E done \in BOOLEAN :
           Answer(a, [E EXCEPT ![Actor(a)] = Driving(r, a, done)],
                  IF done THEN "Complete" ELSE "Running")

\* A Step-shaped SpeedAction writes the speed and leaves the owner in charge.
ApplyStepSpeed(a) ==
  /\ Calls(a) /\ Is(a, {"speed"}) /\ Ready(a)
  /\ ~Competes(a)
  /\ Answer(a, entity, "Complete")

\* A continuous relative target is installed again at each poll.
Tracking(r, a) ==
  [r EXCEPT !.controller = FALSE, !.continuous = TRUE, !.longitudinalOwner = a]

ApplyContinuousSpeed(a) ==
  /\ Calls(a) /\ Is(a, {"continuousSpeed"}) /\ Ready(a)
  /\ Answer(a, [SupersedeLongitudinal(entity, Actor(a), a) EXCEPT ![Actor(a)] = Tracking(@, a)],
            "Running")

\* drive_distance_keeping(): gives up when the gap cannot be measured, and ends
\* when it is reached.
ApplyDistance(a) ==
  /\ Calls(a) /\ Is(a, {"distance"}) /\ Ready(a)
  /\ LET E == SupersedeLongitudinal(entity, Actor(a), a)
         r == IF Record(a).longitudinalOwner = a THEN E[Actor(a)]
              ELSE [FreeLongitudinal(E[Actor(a)]) EXCEPT !.longitudinalOwner = a]
     IN  \/ Answer(a, [E EXCEPT ![Actor(a)] = [r EXCEPT !.longitudinalOwner = None]], "Complete")
         \/ ~RefGone(a) /\ Answer(a, [E EXCEPT ![Actor(a)] = r], "Running")

---------------------------------------------------------------------------
(* apply(): lateral actions.                                               *)

\* The lateral branch of apply() up to the drivers: every lateral action takes
\* the domain, whatever its shape.  mutant: one of the Step shape supersedes
\* nobody, as control_domains() has it, and takes the domain all the same.
TakeLateralSilently(a) ==
  IF Record(a).lateralOwner = a THEN entity
  ELSE [(IF Competes(a) THEN SupersedeLateral(entity, Actor(a), a) ELSE entity) EXCEPT
          ![Actor(a)] = [@ EXCEPT !.lateralOwner = a, !.transition = FALSE,
                                  !.dissolving = FALSE]]
TakeLateral(a) ==
  IF Record(a).lateralOwner = a THEN entity
  ELSE [SupersedeLateral(entity, Actor(a), a) EXCEPT
          ![Actor(a)] = [@ EXCEPT !.lateralOwner = a, !.transition = FALSE,
                                  !.dissolving = FALSE]]

\* give_up of the three drivers; mutant: the axis stays.
GivenUpOnAxis(r) == FreeLateral(r)
GivenUp(r) == Dissolved(FreeLateral(r))

\* The offset has been reached: the integrate phase lets the axis go.
Arrived(r) == [FreeLateral(WithAxis(r)) EXCEPT !.dissolving = TRUE]

\* Under way; only a keeper of the lateral distance has no transition.
Displacing(r, a) ==
  [WithAxis(r) EXCEPT !.transition = ~Is(a, {"lateralDistance"})]

\* drive_lane_change() looks at its reference when it installs, the others at
\* every poll.
LateralRefGone(a) ==
  RefGone(a) /\ (Is(a, {"laneChange"}) => Record(a).lateralOwner # a)

\* What the drivers can find: a target or a gap they cannot resolve (once it
\* is installed, only the keeper of a distance meets that), the end of the
\* transition, or neither.  A continuous offset has no end; a Step-shaped
\* transition that does ends at once.
MayGiveUp(a) ==
  \/ LateralRefGone(a)
  \/ Is(a, {"lateralDistance"})
  \/ Is(a, {"laneChange"}) /\ Record(a).lateralOwner # a
MayArrive(a) == ~LateralRefGone(a) /\ ~Is(a, {"continuousOffset"})
MayContinue(a) == ~LateralRefGone(a) /\ (Do[a].step => Is(a, {"continuousOffset"}))

ApplyLateral(a) ==
  /\ Calls(a) /\ Is(a, LateralKinds) /\ Ready(a)
  /\ LET E == TakeLateral(a)
     IN  \/ MayGiveUp(a) /\ Answer(a, [E EXCEPT ![Actor(a)] = GivenUp(@)], "Complete")
         \/ MayArrive(a) /\ Answer(a, [E EXCEPT ![Actor(a)] = Arrived(@)], "Complete")
         \/ MayContinue(a) /\ Answer(a, [E EXCEPT ![Actor(a)] = Displacing(@, a)], "Running")

---------------------------------------------------------------------------
(* apply(): trajectories.                                                  *)

\* The trajectory branch of apply() and the installation in drive_trajectory():
\* the lateral domain changes hands, a timed trajectory takes the longitudinal
\* one too.
TakeLateralForPath(a) ==
  [SupersedeLateral(entity, Actor(a), a) EXCEPT ![Actor(a)] = Dissolved(@)]

Follow(a) ==
  IF Record(a).follower = a THEN entity
  ELSE LET E == TakeLateralForPath(a)
       IN  IF Is(a, {"trajectory"}) THEN [E EXCEPT ![Actor(a)].follower = a]
           ELSE [SupersedeLongitudinal(E, Actor(a), a) EXCEPT
                   ![Actor(a)] = [FreeLongitudinal(@) EXCEPT !.longitudinalOwner = a,
                                                             !.follower = a]]

\* finish() of drive_trajectory() and drive_trajectory_eval().
Finished(r, a) ==
  [r EXCEPT !.follower = None, !.moved = TRUE,
            !.longitudinalOwner = IF Is(a, {"timedTrajectory"}) THEN None ELSE @]

\* A follower that is not timed starts before it can finish; a timed one may
\* wait for its first time without moving the entity.
ApplyTrajectory(a) ==
  /\ Calls(a) /\ Is(a, TrajectoryKinds) /\ Ready(a)
  /\ LET E == Follow(a)
     IN  \/ /\ Is(a, {"timedTrajectory"}) \/ Record(a).follower = a
            /\ Answer(a, [E EXCEPT ![Actor(a)] = Finished(@, a)], "Complete")
         \/ Answer(a, [E EXCEPT ![Actor(a)].moved = TRUE], "Running")
         \/ Is(a, {"timedTrajectory"}) /\ Answer(a, E, "Running")

---------------------------------------------------------------------------
(* apply(): the actions that change who may drive.                         *)

\* release_longitudinal_domain() and release_lateral_domain().
ReleaseLongitudinal(E, e) ==
  [SupersedeLongitudinal(E, e, None) EXCEPT ![e] = FreeLongitudinal(@)]
ReleaseLateral(E, e) == [SupersedeLateral(E, e, None) EXCEPT ![e] = Dissolved(@)]

\* apply_activation().
SwitchLongitudinal(E, e, flag) ==
  LET F == IF flag = "off" /\ E[e].longitudinal THEN ReleaseLongitudinal(E, e) ELSE E
  IN  IF flag = "keep" THEN F ELSE [F EXCEPT ![e].longitudinal = flag = "on"]
SwitchLateral(E, e, flag) ==
  LET F == IF flag = "off" /\ E[e].lateral THEN ReleaseLateral(E, e) ELSE E
  IN  IF flag = "keep" THEN F ELSE [F EXCEPT ![e].lateral = flag = "on"]

\* An ActivateControllerAction, or the activation of an AssignControllerAction.
ApplyController(a) ==
  /\ Calls(a) /\ Is(a, {"controller"}) /\ Record(a).active
  /\ Answer(a, SwitchLongitudinal(SwitchLateral(entity, Actor(a), Do[a].lateral),
                                  Actor(a), Do[a].longitudinal),
            "Complete")

\* The position of an entity to be added may not resolve.
ApplyAdd(a) ==
  /\ Calls(a) /\ Is(a, {"add"})
  /\ \E resolved \in BOOLEAN :
       Answer(a, IF ~Record(a).active /\ resolved
                   THEN [entity EXCEPT ![Actor(a)].active = TRUE] ELSE entity, "Complete")

ApplyDelete(a) ==
  /\ Calls(a) /\ Is(a, {"delete"})
  /\ entity' = IF Record(a).active THEN [entity EXCEPT ![Actor(a)] = Deactivated(@)]
               ELSE entity
  /\ deleted' = deleted \cup (Owners(entity) \ Owners(entity'))
  /\ pending' = pending \ {a}
  /\ UNCHANGED <<stepping, todo, stopping, running, lost>>

---------------------------------------------------------------------------
(* stop_action().                                                          *)

\* The domains a owns are freed; mutant: the follower of a trajectory goes on.
StoppedRecordKeepsFollower(r, a) ==
  LET s == IF r.longitudinalOwner = a THEN FreeLongitudinal(r) ELSE r
      t == IF s.lateralOwner = a THEN Dissolved(FreeLateral(s)) ELSE s
  IN  [t EXCEPT !.retired = @ \ {a}]
StoppedRecord(r, a) ==
  LET s == IF r.longitudinalOwner = a THEN FreeLongitudinal(r) ELSE r
      t == IF s.lateralOwner = a THEN Dissolved(FreeLateral(s)) ELSE s
  IN  [t EXCEPT !.follower = IF @ = a THEN None ELSE @, !.retired = @ \ {a}]

StopAction(a) ==
  /\ stepping /\ stopping /\ First(a)
  /\ entity' = IF ~Record(a).active THEN entity
               ELSE BulkRetired([entity EXCEPT ![Actor(a)] = StoppedRecord(@, a)], a)
  /\ running' = [running EXCEPT ![EventOf[a]] = @ \ {a}]
  /\ pending' = pending \ {a}
  /\ stopping' = (pending' # {})
  /\ lost' = lost \cup (Owners(entity) \ Owners(entity'))
  /\ UNCHANGED <<stepping, todo, deleted>>

---------------------------------------------------------------------------
(* The storyboard's side of a step.                                        *)

AtEvent(f) == stepping /\ pending = {} /\ f \in todo /\ \A g \in todo : f <= g

BeginStep ==
  /\ ~stepping
  /\ stepping' = TRUE
  /\ todo' = Events
  /\ UNCHANGED <<entity, pending, stopping, running, lost, deleted>>

\* Actions are fired in document order, then polled in that order.
Fire(f) ==
  /\ AtEvent(f) /\ running[f] = {}
  /\ pending' = ActsOf(f)
  /\ todo' = todo \ {f}
  /\ lost' = lost \ ActsOf(f)
  /\ deleted' = deleted \ ActsOf(f)
  /\ UNCHANGED <<entity, stepping, stopping, running>>

Pass(f) ==
  /\ AtEvent(f) /\ running[f] = {}
  /\ todo' = todo \ {f}
  /\ UNCHANGED <<entity, stepping, pending, stopping, running, lost, deleted>>

Poll(f) ==
  /\ AtEvent(f) /\ running[f] # {}
  /\ pending' = running[f]
  /\ todo' = todo \ {f}
  /\ UNCHANGED <<entity, stepping, stopping, running, lost, deleted>>

\* A stop trigger or an overriding event stops f, at any point of the walk; it
\* does not start again in this step.
Stop(f) ==
  /\ stepping /\ pending = {} /\ running[f] # {}
  /\ pending' = running[f]
  /\ stopping' = TRUE
  /\ todo' = todo \ {f}
  /\ UNCHANGED <<entity, stepping, running, lost, deleted>>

\* The integrate phase of step(): an entity that a trajectory has placed is left
\* alone once; otherwise an axis whose action has arrived is dissolved.
\* mutant: an entity once placed is left alone for good.
IntegratedUnlessPlaced(r) ==
  IF ~r.moved /\ r.axis /\ r.dissolving THEN Dissolved(r) ELSE r
Integrated(r) ==
  IF r.moved THEN [r EXCEPT !.moved = FALSE]
  ELSE IF r.axis /\ r.dissolving THEN Dissolved(r) ELSE r

EndStep ==
  /\ stepping /\ todo = {} /\ pending = {}
  /\ stepping' = FALSE
  /\ entity' = [e \in Entities |->
                  IF entity[e].active /\ e \notin HostControlled THEN Integrated(entity[e])
                  ELSE entity[e]]
  /\ UNCHANGED <<todo, pending, stopping, running, lost, deleted>>

Init ==
  /\ entity = [e \in Entities |-> Fresh]
  /\ stepping = FALSE /\ stopping = FALSE
  /\ todo = {} /\ pending = {}
  /\ running = [f \in Events |-> {}]
  /\ lost = {} /\ deleted = {}

Apply(a) ==
  \/ ApplyToInactive(a) \/ ApplyWithoutSpeedReference(a)
  \/ ApplyRetired(a) \/ ApplyDeactivated(a)
  \/ ApplySpeed(a) \/ ApplyStepSpeed(a) \/ ApplyContinuousSpeed(a) \/ ApplyDistance(a)
  \/ ApplyLateral(a) \/ ApplyTrajectory(a)
  \/ ApplyController(a) \/ ApplyAdd(a) \/ ApplyDelete(a)

Next ==
  \/ BeginStep \/ EndStep
  \/ \E f \in Events : Fire(f) \/ Pass(f) \/ Poll(f) \/ Stop(f)
  \/ \E a \in Acts : Apply(a) \/ StopAction(a)

Spec == Init /\ [][Next]_vars

\* The host keeps stepping, and step() returns.
FairSpec == Spec /\ WF_vars(Next)

---------------------------------------------------------------------------
(* Properties.                                                             *)

\* The domains do not overlap: an offset action and a trajectory never steer
\* the same entity, a trajectory works without an offset axis, a timed
\* trajectory has the longitudinal domain exactly while it follows, and at most
\* one mechanism commands the speed (engine.h:426).
DomainsExclusive ==
  \A e \in Entities : LET r == entity[e] IN
    /\ r.follower # None => r.lateralOwner = None /\ ~r.axis
    /\ ~(r.controller /\ r.continuous)
    /\ \A a \in Acts : Is(a, {"timedTrajectory"}) =>
         (r.follower = a <=> r.longitudinalOwner = a)

\* apply() dereferences the controller of the owner it polls, and the
\* transition of a lane change, without a check: they are there.
OwnerEquipped ==
  \A e \in Entities : LET r == entity[e] IN
    /\ r.longitudinalOwner # None /\ Is(r.longitudinalOwner, {"speed"}) => r.controller
    /\ r.lateralOwner # None /\ Is(r.lateralOwner, {"laneChange"}) => r.transition

\* Nobody drives an entity but an action the storyboard still polls, of that
\* entity, while the engine has the domain.
OwnersInProgress ==
  \A e \in Entities : LET r == entity[e] IN
    /\ \A a \in OwnersOf(r) : Polled(a) /\ Actor(a) = e /\ r.active
    /\ r.longitudinalOwner # None => r.longitudinal
    /\ r.lateralOwner # None \/ r.follower # None => r.lateral

\* "never reinstalls itself to fight the current owner" (engine.cpp:3035): an
\* action that gave up its domain has none until its event fires it again.
SupersededStaysOut == lost \cap Owners(entity) = {}

\* "nothing may survive into a later re-add" (engine.cpp:2641): what drove an
\* entity when it was deleted does not drive it when it is back.
DeletedStaysOut == deleted \cap Owners(entity) = {}

\* 7.5.4: once one instance of a bulk action has been superseded, no instance
\* drives its entity any more.
BulkFallsBackTogether ==
  \A e \in Entities : \A a \in entity[e].retired : \A b \in Acts :
    Bulk[a] # 0 /\ Bulk[a] = Bulk[b] => b \notin Owners(entity)

\* What an action leaves on an entity has a purpose there.  The axis is "live
\* exactly while an offset-model lateral action is displacing this entity"
\* (engine.h:438) or to apply the last increment of one that has arrived; a
\* mark as "superseded by a newer one on this entity but still in their event's
\* running set" (engine.h:429) never outlives the execution it is about.
MarksHavePurpose ==
  \A e \in Entities : LET r == entity[e] IN
    /\ r.axis <=> r.lateralOwner # None \/ r.dissolving
    /\ \A a \in r.retired : Polled(a)

\* What loses its domain is told: a motion that is still polled drives its entity
\* or is marked there, so that its next poll ends it and neither installs it again
\* nor goes on for ever, whoever took the domain, a Step-shaped action included
\* (engine.cpp:3101, 3160: the latter takes a lateral domain).
LosersAreTold ==
  \A a \in Acts : Polled(a) /\ Is(a, MotionKinds) /\ Record(a).active =>
    a \in OwnersOf(Record(a)) \cup Record(a).retired

\* An axis that has nothing left to do is let go of, however the host steps.
AxisLetGo == \A e \in Entities : entity[e].dissolving ~> ~entity[e].dissolving
=============================================================================
