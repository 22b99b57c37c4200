--------------------------------- MODULE Ir ---------------------------------
(***************************************************************************)
(* The intermediate representation: what a frontend or a host hands to the   *)
(* engine.  Every class is the set of its objects, a record of what the      *)
(* engine decides on.  "ill" tells whether one of the numbers of an object   *)
(* lies outside the range its comment gives; lengths, speeds and angles are   *)
(* otherwise left out.  A reference is an identifier, whether or not the     *)
(* scenario declares it.                                                      *)
(***************************************************************************)
EXTENDS Diagnostics

CoordinateSystem == {"entity", "lane", "road", "trajectory", "world"}

---------------------------------------------------------------------------
(* Positions and what they are relative to.                                    *)

WorldPosition == [frame: {"world"}, ill: BOOLEAN]
\* Relative to an entity along the world's axes, or along its own.
RelativeWorldPosition(refs) == [frame: {"relative"}, ref: refs, ill: BOOLEAN]
RelativeObjectPosition(refs) == [frame: {"object"}, ref: refs, ill: BOOLEAN]
\* Positions that only a road network, a route or a trajectory gives a place.
RoadBoundPosition == [frame: {"road"}]
Position(refs) ==
  WorldPosition \cup RelativeWorldPosition(refs) \cup RelativeObjectPosition(refs)
  \cup RoadBoundPosition

---------------------------------------------------------------------------
(* Private actions: one entity moves, or is taken over by a controller.        *)

\* A transition reaches its target in a time, over a distance or at a rate.
TransitionDynamics == {"ok", "timed", "none", "ill"}

SpeedAction(refs) ==
  [kind: {"setSpeed"}, who: refs, ref: Optional(refs), ill: BOOLEAN,
   dynamics: TransitionDynamics, continuous: BOOLEAN, follow: BOOLEAN, above: BOOLEAN]
SpeedProfileAction(refs) ==
  [kind: {"speedProfile"}, who: refs, ref: Optional(refs), ill: BOOLEAN,
   entries: 0..2, follow: BOOLEAN, above: BOOLEAN]
TeleportAction(refs) == [kind: {"teleport"}, who: refs, position: Position(refs)]
LongitudinalDistanceAction(refs) ==
  [kind: {"keepGap"}, who: refs, ref: refs, ill: BOOLEAN, distance: BOOLEAN,
   timeGap: BOOLEAN, frame: CoordinateSystem]
LaneChangeAction(refs) ==
  [kind: {"laneChange"}, who: refs, ref: Optional(refs), ill: BOOLEAN,
   lane: Optional({1}), dynamics: TransitionDynamics, step: BOOLEAN]
LaneOffsetAction(refs) ==
  [kind: {"laneOffset"}, who: refs, ref: Optional(refs), ill: BOOLEAN]
LateralDistanceAction(refs) ==
  [kind: {"keepLateral"}, who: refs, ref: refs, ill: BOOLEAN, frame: CoordinateSystem]
AssignRouteAction(refs) == [kind: {"route"}, who: refs, ill: BOOLEAN, waypoints: 0..2]
AcquirePositionAction(refs) == [kind: {"acquire"}, who: refs, position: Position(refs)]

\* A polyline, or a curve that an evaluator takes: a clothoid or a spline.
Shape == {"polyline", "curve"}
Timing == {"none", "timed", "untimed"}
FollowTrajectoryAction(refs) ==
  [kind: {"trajectory"}, who: refs, ill: BOOLEAN, shape: Shape, vertices: 0..2,
   timing: Timing, offset: {"within", "beyond"}, closed: BOOLEAN, follow: BOOLEAN]

Domain == {"lateral", "longitudinal"}
\* An activation flag that is not given leaves the axis as it is.
AssignControllerAction(refs) ==
  [kind: {"assignController"}, who: refs, lateral: BOOLEAN, longitudinal: BOOLEAN,
   domains: SUBSET Domain]
ActivateControllerAction(refs) == [kind: {"activateController"}, who: refs]
VisibilityAction(refs) == [kind: {"visibility"}, who: refs]

---------------------------------------------------------------------------
(* Global actions: named values, the environment, signals, the cast.           *)

VariableSetAction(names) == [kind: {"setVariable"}, name: names, ill: {FALSE}]
VariableModifyAction(names) == [kind: {"modifyVariable"}, name: names, ill: BOOLEAN]
ParameterSetAction(names) == [kind: {"setParameter"}, name: names, ill: {FALSE}]
ParameterModifyAction(names) == [kind: {"modifyParameter"}, name: names, ill: BOOLEAN]
EnvironmentAction == [kind: {"environment"}, ill: BOOLEAN]
CustomCommandAction == [kind: {"custom"}]
TrafficSignalStateAction(names) == [kind: {"signal"}, name: names, value: {1}]
TrafficSignalControllerAction(names) == [kind: {"phase"}, name: names, value: names]
AddEntityAction(refs) == [kind: {"add"}, who: refs, position: Position(refs)]
DeleteEntityAction(refs) == [kind: {"delete"}, who: refs]

PrivateAction(refs) ==
  SpeedAction(refs) \cup SpeedProfileAction(refs) \cup TeleportAction(refs)
  \cup LongitudinalDistanceAction(refs) \cup LaneChangeAction(refs)
  \cup LaneOffsetAction(refs) \cup LateralDistanceAction(refs) \cup AssignRouteAction(refs)
  \cup AcquirePositionAction(refs) \cup FollowTrajectoryAction(refs)
  \cup AssignControllerAction(refs) \cup ActivateControllerAction(refs)
  \cup VisibilityAction(refs)
GlobalAction(refs, names) ==
  VariableSetAction(names) \cup VariableModifyAction(names) \cup ParameterSetAction(names)
  \cup ParameterModifyAction(names) \cup EnvironmentAction \cup CustomCommandAction
  \cup TrafficSignalStateAction(names) \cup TrafficSignalControllerAction(names)
  \cup AddEntityAction(refs) \cup DeleteEntityAction(refs)

---------------------------------------------------------------------------
(* Conditions.                                                                 *)

SimulationTimeCondition == [by: {"value"}, kind: {"simulationTime"}, ill: BOOLEAN]
\* A stored value is held against a literal, which need not be a number.
ParameterCondition(names) ==
  [by: {"value"}, kind: {"parameter"}, name: names, ordering: BOOLEAN, literal: {-1, 1}]
VariableCondition(names) ==
  [by: {"value"}, kind: {"variable"}, name: names, ordering: BOOLEAN, literal: {-1, 1}]
UserDefinedValueCondition(names) ==
  [by: {"value"}, kind: {"userDefined"}, name: names, ordering: BOOLEAN, literal: {-1, 1}]
TimeOfDayCondition == [by: {"value"}, kind: {"timeOfDay"}, ill: BOOLEAN]
TrafficSignalCondition(names) == [by: {"value"}, kind: {"signal"}, name: names, value: {1}]
TrafficSignalControllerCondition(names) ==
  [by: {"value"}, kind: {"phase"}, name: names, value: names]
ElementType == {"story", "act", "group", "maneuver", "event", "action"}
StoryboardElementStateCondition(paths) ==
  [by: {"value"}, kind: {"element"}, type: ElementType, segments: paths,
   state: {"running", "skipTransition"}]

ByEntityCondition(kinds, refs, referred, modes) ==
  [by: {"entity"}, kind: kinds, triggering: SUBSET refs, refs: referred, ill: BOOLEAN,
   modes: modes]
SpeedCondition(refs) == ByEntityCondition({"speed"}, refs, {{}}, {{}})
RelativeSpeedCondition(refs) ==
  ByEntityCondition({"relativeSpeed"}, refs, {{r} : r \in refs}, {{}})
AccelerationCondition(refs) == ByEntityCondition({"acceleration"}, refs, {{}}, {{}})
StandStillCondition(refs) == ByEntityCondition({"standStill"}, refs, {{}}, {{}})
TraveledDistanceCondition(refs) == ByEntityCondition({"traveledDistance"}, refs, {{}}, {{}})
ReachPositionCondition(refs) == ByEntityCondition({"reachPosition"}, refs, {{}}, {{}})

\* How a distance is measured: along a route and cartesian are deprecated, in
\* the frame of a road that may not be there.
Mode == SUBSET {"alongRoute", "cartesian", "road"}
DistanceCondition(refs) == ByEntityCondition({"distance"}, refs, {{}}, Mode)
RelativeDistanceCondition(refs) ==
  ByEntityCondition({"relativeDistance"}, refs, {{r} : r \in refs}, Mode)
TimeHeadwayCondition(refs) ==
  ByEntityCondition({"timeHeadway"}, refs, {{r} : r \in refs}, Mode)
\* A collision is timed with an entity or with a place.
TimeToCollisionCondition(refs) ==
  ByEntityCondition({"timeToCollision"}, refs, {{r} : r \in refs} \cup {{}}, Mode)
CollisionCondition(refs) == ByEntityCondition({"collision"}, refs, {{r} : r \in refs}, {{}})
EndOfRoadCondition(refs) == ByEntityCondition({"endOfRoad"}, refs, {{}}, {{}})
OffroadCondition(refs) == ByEntityCondition({"offroad"}, refs, {{}}, {{}})
RelativeClearanceCondition(refs) == ByEntityCondition({"clearance"}, refs, SUBSET refs, {{}})

Condition(refs, names, paths) ==
  SimulationTimeCondition \cup ParameterCondition(names) \cup VariableCondition(names)
  \cup UserDefinedValueCondition(names) \cup TimeOfDayCondition
  \cup TrafficSignalCondition(names) \cup TrafficSignalControllerCondition(names)
  \cup StoryboardElementStateCondition(paths)
  \cup SpeedCondition(refs) \cup RelativeSpeedCondition(refs) \cup AccelerationCondition(refs)
  \cup StandStillCondition(refs) \cup TraveledDistanceCondition(refs)
  \cup ReachPositionCondition(refs) \cup DistanceCondition(refs)
  \cup RelativeDistanceCondition(refs) \cup TimeHeadwayCondition(refs)
  \cup TimeToCollisionCondition(refs) \cup CollisionCondition(refs)
  \cup EndOfRoadCondition(refs) \cup OffroadCondition(refs) \cup RelativeClearanceCondition(refs)

---------------------------------------------------------------------------
(* The cast, the signals and the storyboard.                                   *)

ControlMode == {"engine", "host"}
ObjectType == {"vehicle", "pedestrian", "misc"}
Extent == {"ok", "ill"}   \* of a bounding box, of performance limits
Entity(refs) ==
  [id: Optional(refs), mode: ControlMode, object: Optional(ObjectType), box: Extent,
   limits: Extent]

\* A phase sets states of signals; a signal without a name is one of no name.
Phase(names) == [name: Optional(names), duration: -1..1, states: {<<>>} \cup [{1} -> {1}] \cup [{None} -> {1}]]
TrafficSignalController(names, phases) ==
  [name: Optional(names), reference: Optional(names), delay: Optional(-1..1), phases: phases]
=============================================================================
